--------------------------- MODULE TransportClose ---------------------------
(***************************************************************************)
(* What the transport stack promises of close() (spec.md 4.1, 8): however  *)
(* many close() calls are made, from whichever call sites, each layer's    *)
(* underlying resource is released at most once.  frees[l] counts the      *)
(* releases of layer l; a release is allowed only while the count is 0.    *)
(***************************************************************************)
EXTENDS Naturals

CONSTANT N            \* the number of layers: 1 is the base (TCP), N the top

Layers == 1..N

VARIABLE frees

Init == frees = [l \in Layers |-> 0]

(* The underlying teardown of layer l: socket closed, TLS state freed.     *)
Release(l) ==
    /\ frees[l] = 0
    /\ frees' = [frees EXCEPT ![l] = 1]

Next == \E l \in Layers : Release(l)

Spec == Init /\ [][Next]_frees

=============================================================================
