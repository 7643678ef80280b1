---------------------------- MODULE LayeredClose ----------------------------
(***************************************************************************)
(* esp_transport_close() over a layered stack (WebSocket over TLS over     *)
(* TCP), called by several tasks, each of which may call close() on any    *)
(* layer any number of times (spec.md 4.1, 5, 9).  A layer's close         *)
(* handler first closes the layer it wraps (ws_close() calls               *)
(* esp_transport_close(parent)), then releases its own resource.           *)
(*                                                                         *)
(* esp_transport_close() is the idempotent version proposed in the header  *)
(* comment of websocket_example.c (lines 51-59):                           *)
(*     if (t->_closed) return 0;  ret = t->_close(t);  t->_closed = true;  *)
(*                                                                         *)
(* A task's call stack is nested calls on consecutive layers: the frames   *)
(* for layers cur+1..top wait for their inner close to return, and cur is  *)
(* the running frame, at pc.                                               *)
(***************************************************************************)
EXTENDS Naturals

CONSTANTS N,            \* layers 1 (base) .. N (top)
          Tasks,        \* the tasks that call close()
          MaxCalls      \* bound on each task's top-level close() calls

ASSUME LayersAssumption == N \in Nat \ {0}
ASSUME MaxCallsAssumption == MaxCalls \in Nat

Layers == 1..N

VARIABLES
    closed,   \* t->_closed of each layer
    frees,    \* how often each layer's resource has been released
    top,      \* the layer of a task's outermost close() call, 0 when idle
    cur,      \* the layer of a task's running frame
    pc,       \* where the running frame is
    calls     \* top-level close() calls each task has made

vars == <<closed, frees, top, cur, pc, calls>>

TypeOK ==
    /\ closed \in [Layers -> BOOLEAN]
    /\ frees \in [Layers -> Nat]
    /\ top \in [Tasks -> 0..N]
    /\ cur \in [Tasks -> Layers]
    /\ pc \in [Tasks -> {"idle", "check", "own", "set"}]
    /\ calls \in [Tasks -> 0..MaxCalls]

Init ==
    /\ closed = [l \in Layers |-> FALSE]
    /\ frees = [l \in Layers |-> 0]
    /\ top = [t \in Tasks |-> 0]
    /\ cur = [t \in Tasks |-> N]
    /\ pc = [t \in Tasks |-> "idle"]
    /\ calls = [t \in Tasks |-> 0]

(* The running frame of task t returns to its caller: the frame of the     *)
(* layer above, which resumes after its inner close, or the task itself.   *)
Return(t) ==
    IF cur[t] = top[t]
    THEN /\ top' = [top EXCEPT ![t] = 0]
         /\ pc' = [pc EXCEPT ![t] = "idle"]
         /\ UNCHANGED cur
    ELSE /\ cur' = [cur EXCEPT ![t] = cur[t] + 1]
         /\ pc' = [pc EXCEPT ![t] = "own"]
         /\ UNCHANGED top

\* Mutant: a wrapping layer's handler that does not close its parent.
CloseHandlerNoParent(t) ==
    /\ pc' = [pc EXCEPT ![t] = "own"]
    /\ UNCHANGED cur

(* t->_close(t): a wrapping layer closes the layer below first; the base   *)
(* layer goes straight to its own teardown.                                *)
CloseHandler(t) ==
    IF cur[t] > 1
    THEN /\ cur' = [cur EXCEPT ![t] = cur[t] - 1]
         /\ pc' = [pc EXCEPT ![t] = "check"]
    ELSE /\ pc' = [pc EXCEPT ![t] = "own"]
         /\ UNCHANGED cur

(* A caller (abort_connection(), stop(), the error path of a failed send)  *)
(* calls esp_transport_close() on layer l.                                 *)
Call(t, l) ==
    /\ pc[t] = "idle"
    /\ calls[t] < MaxCalls
    /\ top' = [top EXCEPT ![t] = l]
    /\ cur' = [cur EXCEPT ![t] = l]
    /\ pc' = [pc EXCEPT ![t] = "check"]
    /\ calls' = [calls EXCEPT ![t] = calls[t] + 1]
    /\ UNCHANGED <<closed, frees>>

\* Mutant: esp_transport_close() without the _closed test, as before the fix.
CheckNoTest(t) ==
    /\ pc[t] = "check"
    /\ CloseHandler(t)
    /\ UNCHANGED <<closed, frees, top, calls>>

(* if (t->_closed) return 0; then t->_close(t).  The flag is set only      *)
(* after _close returns (SetClosed).                                       *)
Check(t) ==
    /\ pc[t] = "check"
    /\ IF closed[cur[t]]
       THEN Return(t) /\ UNCHANGED closed
       ELSE CloseHandler(t) /\ UNCHANGED <<closed, top>>
    /\ UNCHANGED <<frees, calls>>

(* The layer's own teardown: base_close() / esp_tls_conn_destroy().        *)
Own(t) ==
    /\ pc[t] = "own"
    /\ frees' = [frees EXCEPT ![cur[t]] = frees[cur[t]] + 1]
    /\ pc' = [pc EXCEPT ![t] = "set"]
    /\ UNCHANGED <<closed, top, cur, calls>>

(* t->_closed = true, then return.                                         *)
SetClosed(t) ==
    /\ pc[t] = "set"
    /\ closed' = [closed EXCEPT ![cur[t]] = TRUE]
    /\ Return(t)
    /\ UNCHANGED <<frees, calls>>

Next ==
    \E t \in Tasks :
        \/ \E l \in Layers : Call(t, l)
        \/ Check(t)
        \/ Own(t)
        \/ SetClosed(t)

Spec == Init /\ [][Next]_vars

-----------------------------------------------------------------------------
(* Properties.                                                              *)

(* The layered close implements the abstract promise of TransportClose:    *)
(* every step releases no layer, or releases one layer for the first      *)
(* time, whatever the nesting of ws_close() and the tasks' interleaving    *)
(* (esp_transport_close, spec.md 4.1).                                      *)
Abs == INSTANCE TransportClose WITH frees <- frees
AbsSpec == Abs!Spec

(* When no close() is running, every closed layer was released exactly    *)
(* once and the layer it wraps is closed too: a close() of the top layer   *)
(* tears down the whole stack (ws_close() cascading to its parent).        *)
Quiescent == \A t \in Tasks : pc[t] = "idle"
ClosedStackReleased ==
    Quiescent =>
        \A l \in Layers :
            closed[l] => /\ frees[l] = 1
                         /\ l > 1 => closed[l - 1]

=============================================================================
