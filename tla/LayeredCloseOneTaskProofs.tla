---------------------- MODULE LayeredCloseOneTaskProofs ----------------------
(***************************************************************************)
(* Proofs about LayeredClose, the fix exactly as the header comment of     *)
(* websocket_example.c writes it (test _closed, run _close, then set       *)
(* _closed), when a single task calls close().  With                       *)
(* two tasks the run close_race shows a layer released twice; with one,   *)
(* nested and repeated close() calls on any layers, for any number of      *)
(* layers and calls, release each layer at most once.                      *)
(***************************************************************************)
EXTENDS LayeredClose, TLAPS

(* Layer l is in task t's close(): a frame above the running one, waiting *)
(* for its inner close, or the running frame past its _closed test.       *)
Active(t, l) ==
    /\ top[t] # 0
    /\ l <= top[t]
    /\ \/ l > cur[t]
       \/ l = cur[t] /\ pc[t] \in {"own", "set"}

(* The shape of t's call stack: busy exactly when it has an outermost     *)
(* call, and running at or below it.                                      *)
StackShape(t) ==
    /\ pc[t] = "idle" <=> top[t] = 0
    /\ top[t] # 0 => cur[t] <= top[t]

(* A layer in t's close() is still open (nobody else sets its flag), and  *)
(* released only once its frame is past its own teardown.                 *)
InProgress(t) ==
    \A l \in Layers :
        Active(t, l) =>
            /\ ~closed[l]
            /\ frees[l] = IF l = cur[t] /\ pc[t] = "set" THEN 1 ELSE 0

(* A layer outside t's close() is closed exactly when it is released, and *)
(* then the layer below it is closed; a frame past its test has seen the  *)
(* layer below closed.                                                    *)
Settled(t) ==
    \A l \in Layers :
        ~Active(t, l) =>
            /\ closed[l] <=> frees[l] = 1
            /\ closed[l] /\ l > 1 => closed[l - 1]
BelowClosed(t) ==
    pc[t] \in {"own", "set"} /\ cur[t] > 1 => closed[cur[t] - 1]

(* The inductive invariant for the single task t.                         *)
OInv(t) ==
    /\ TypeOK
    /\ \A l \in Layers : frees[l] \in {0, 1}
    /\ StackShape(t)
    /\ InProgress(t)
    /\ Settled(t)
    /\ BelowClosed(t)

(* The initial state: no call is running, nothing closed or released.     *)
LEMMA InitOInv == ASSUME NEW t \in Tasks PROVE Init => OInv(t)
BY LayersAssumption, MaxCallsAssumption
   DEF Init, OInv, TypeOK, StackShape, InProgress, Settled, BelowClosed,
       Active, Layers

(* The only task calls close() on layer l: its stack is one frame, still *)
(* before its test, so no layer is in its close().                        *)
LEMMA CallOInv ==
    ASSUME NEW t \in Tasks, NEW l \in Layers, OInv(t), Call(t, l)
    PROVE  OInv(t)'
<1> USE DEF OInv, TypeOK, Layers
<1>1. pc[t] = "idle" /\ top[t] = 0
    BY DEF Call, StackShape
<1>2. \A k \in Layers : ~Active(t, k) /\ ~Active(t, k)'
    BY <1>1 DEF Call, Active
<1>3. TypeOK'
    BY LayersAssumption, MaxCallsAssumption DEF Call
<1>4. QED
    BY <1>1, <1>2, <1>3 DEF Call, StackShape, InProgress, Settled, BelowClosed

(* The running frame tests _closed.  Found closed, it returns: the stack  *)
(* is done, or the frame above resumes at its own teardown.  Found open,  *)
(* the layer joins the close() and its handler closes the layer below, or *)
(* the base layer goes to its teardown.                                   *)
LEMMA CheckOInv ==
    ASSUME NEW t \in Tasks, OInv(t), Check(t)
    PROVE  OInv(t)'
<1> USE LayersAssumption DEF OInv, TypeOK, Layers
<1>1. pc[t] = "check" /\ top[t] \in 1..N /\ cur[t] <= top[t]
    BY DEF Check, StackShape
<1>2. UNCHANGED <<frees, calls>>
    BY DEF Check
<1>3. CASE closed[cur[t]] /\ cur[t] = top[t]
    <2>1. /\ top' = [top EXCEPT ![t] = 0] /\ pc' = [pc EXCEPT ![t] = "idle"]
          /\ UNCHANGED <<cur, closed>>
        BY <1>3 DEF Check, Return
    <2>2. \A k \in Layers : ~Active(t, k) /\ ~Active(t, k)'
        BY <1>1, <1>3, <2>1 DEF Active
    <2>3. QED
        BY <1>1, <1>2, <2>1, <2>2 DEF StackShape, InProgress, Settled, BelowClosed
<1>4. CASE closed[cur[t]] /\ cur[t] # top[t]
    <2>1. /\ cur' = [cur EXCEPT ![t] = cur[t] + 1] /\ pc' = [pc EXCEPT ![t] = "own"]
          /\ UNCHANGED <<top, closed>>
        BY <1>4 DEF Check, Return
    <2>2. \A k \in Layers : Active(t, k)' <=> Active(t, k)
        BY <1>1, <1>4, <2>1 DEF Active
    <2>3. TypeOK'
        BY <1>1, <1>2, <1>4, <2>1
    <2>4. StackShape(t)'
        BY <1>1, <1>4, <2>1 DEF StackShape
    <2>5. InProgress(t)'
        BY <1>1, <1>2, <2>1, <2>2 DEF InProgress
    <2>6. Settled(t)'
        BY <1>2, <2>1, <2>2 DEF Settled
    <2>7. BelowClosed(t)'
        BY <1>1, <1>4, <2>1 DEF BelowClosed
    <2>8. QED
        BY <1>2, <2>3, <2>4, <2>5, <2>6, <2>7
<1>5. CASE ~closed[cur[t]]
    <2>1. /\ cur' = [cur EXCEPT ![t] = IF cur[t] > 1 THEN cur[t] - 1 ELSE cur[t]]
          /\ pc' = [pc EXCEPT ![t] = IF cur[t] > 1 THEN "check" ELSE "own"]
          /\ UNCHANGED <<top, closed>>
        BY <1>5 DEF Check, CloseHandler
    <2>2. \A k \in Layers : Active(t, k)' <=> Active(t, k) \/ k = cur[t]
        BY <1>1, <2>1 DEF Active
    <2>3. frees[cur[t]] = 0
        BY <1>1, <1>5 DEF Settled, Active
    <2>4. TypeOK'
        BY <1>1, <1>2, <2>1
    <2>5. StackShape(t)'
        BY <1>1, <2>1 DEF StackShape
    <2>6. InProgress(t)'
        BY <1>1, <1>2, <1>5, <2>1, <2>2, <2>3 DEF InProgress
    <2>7. Settled(t)'
        BY <1>2, <2>1, <2>2 DEF Settled
    <2>8. BelowClosed(t)'
        BY <1>1, <2>1 DEF BelowClosed
    <2>9. QED
        BY <1>2, <2>4, <2>5, <2>6, <2>7, <2>8
<1>6. QED
    BY <1>3, <1>4, <1>5

(* The running frame's own teardown releases its layer, which is still    *)
(* open and unreleased; the frame goes on to set _closed.                 *)
LEMMA OwnOInv ==
    ASSUME NEW t \in Tasks, OInv(t), Own(t)
    PROVE  OInv(t)'
<1> USE LayersAssumption DEF OInv, TypeOK, Layers
<1>1. pc[t] = "own" /\ top[t] \in 1..N /\ cur[t] <= top[t]
    BY DEF Own, StackShape
<1>2. Active(t, cur[t])
    BY <1>1 DEF Active
<1>3. frees[cur[t]] = 0
    BY <1>1, <1>2 DEF InProgress
<1>4. /\ frees' = [frees EXCEPT ![cur[t]] = 1]
      /\ pc' = [pc EXCEPT ![t] = "set"]
      /\ UNCHANGED <<closed, top, cur, calls>>
    BY <1>3 DEF Own
<1>5. \A k \in Layers : Active(t, k)' <=> Active(t, k)
    BY <1>1, <1>4 DEF Active
<1>6. InProgress(t)'
    BY <1>1, <1>4, <1>5 DEF InProgress
<1>7. Settled(t)'
    BY <1>2, <1>4, <1>5 DEF Settled
<1>8. QED
    BY <1>1, <1>4, <1>6, <1>7 DEF StackShape, BelowClosed

(* The running frame sets _closed and returns: its layer leaves the       *)
(* close(), closed and released once, over a closed layer below.          *)
LEMMA SetClosedOInv ==
    ASSUME NEW t \in Tasks, OInv(t), SetClosed(t)
    PROVE  OInv(t)'
<1> USE LayersAssumption DEF OInv, TypeOK, Layers
<1>1. pc[t] = "set" /\ top[t] \in 1..N /\ cur[t] <= top[t]
    BY DEF SetClosed, StackShape
<1>2. Active(t, cur[t])
    BY <1>1 DEF Active
<1>3. frees[cur[t]] = 1 /\ ~closed[cur[t]]
    BY <1>1, <1>2 DEF InProgress
<1>4. cur[t] > 1 => closed[cur[t] - 1]
    BY <1>1 DEF BelowClosed
<1>5. /\ closed' = [closed EXCEPT ![cur[t]] = TRUE]
      /\ UNCHANGED <<frees, calls>>
    BY DEF SetClosed
<1>6. CASE cur[t] = top[t]
    <2>1. /\ top' = [top EXCEPT ![t] = 0] /\ pc' = [pc EXCEPT ![t] = "idle"]
          /\ UNCHANGED cur
        BY <1>6 DEF SetClosed, Return
    <2>2. \A k \in Layers : ~Active(t, k)' /\ (Active(t, k) => k = cur[t])
        BY <1>1, <1>6, <2>1 DEF Active
    <2>3. Settled(t)'
        BY <1>3, <1>4, <1>5, <2>1, <2>2 DEF Settled
    <2>4. QED
        BY <1>1, <1>5, <2>1, <2>2, <2>3 DEF StackShape, InProgress, BelowClosed
<1>7. CASE cur[t] # top[t]
    <2>1. /\ cur' = [cur EXCEPT ![t] = cur[t] + 1] /\ pc' = [pc EXCEPT ![t] = "own"]
          /\ UNCHANGED top
        BY <1>7 DEF SetClosed, Return
    <2>2. \A k \in Layers : Active(t, k)' <=> Active(t, k) /\ k # cur[t]
        BY <1>1, <1>7, <2>1 DEF Active
    <2>3. TypeOK'
        BY <1>1, <1>5, <1>7, <2>1
    <2>4. InProgress(t)'
        BY <1>1, <1>5, <2>1, <2>2 DEF InProgress
    <2>5. Settled(t)'
        BY <1>3, <1>4, <1>5, <2>1, <2>2 DEF Settled
    <2>6. StackShape(t)'
        BY <1>1, <1>7, <2>1 DEF StackShape
    <2>7. BelowClosed(t)'
        BY <1>1, <1>5, <2>1 DEF BelowClosed
    <2>8. QED
        BY <1>5, <2>3, <2>4, <2>5, <2>6, <2>7
<1>8. QED
    BY <1>6, <1>7

(* With t the only task, every step keeps the inductive invariant.        *)
LEMMA NextOInv ==
    ASSUME NEW t, Tasks = {t}, OInv(t), [Next]_vars
    PROVE  OInv(t)'
<1>1. CASE Next
    <2>1. \/ \E l \in Layers : Call(t, l)
          \/ Check(t) \/ Own(t) \/ SetClosed(t)
        BY <1>1 DEF Next
    <2>2. QED
        BY <2>1, CallOInv, CheckOInv, OwnOInv, SetClosedOInv
<1>2. CASE UNCHANGED vars
    BY <1>2 DEF vars, OInv, TypeOK, StackShape, InProgress, Settled,
       BelowClosed, Active
<1>3. QED
    BY <1>1, <1>2

LEMMA SpecOInv ==
    ASSUME NEW t, Tasks = {t}
    PROVE  Spec => []OInv(t)
<1>1. Init => OInv(t)
    BY InitOInv
<1>2. OInv(t) /\ [Next]_vars => OInv(t)'
    BY NextOInv
<1>3. QED
    BY <1>1, <1>2, PTL DEF Spec

(* With the fix as written and one task calling close(), whenever that    *)
(* task is not inside esp_transport_close(), every closed layer was       *)
(* released exactly once and the layer it wraps is closed too, for any    *)
(* number of layers and calls (ws_close() cascading to its parent).       *)
THEOREM OneTaskClosedStackReleased ==
    ASSUME NEW t, Tasks = {t}
    PROVE  Spec => []ClosedStackReleased
<1>1. OInv(t) => ClosedStackReleased
    <2> SUFFICES ASSUME OInv(t), Quiescent, NEW l \in Layers, closed[l]
                 PROVE  frees[l] = 1 /\ (l > 1 => closed[l - 1])
        BY DEF ClosedStackReleased
    <2>1. ~Active(t, l)
        BY DEF Quiescent, OInv, StackShape, Active
    <2>2. QED
        BY <2>1 DEF OInv, Settled
<1>2. QED
    BY SpecOInv, <1>1, PTL

(* Every step of the single task's close() releases a layer not yet       *)
(* released, or leaves frees alone.                                       *)
LEMMA OneTaskStepRefines ==
    ASSUME NEW t, Tasks = {t}, OInv(t), [Next]_vars
    PROVE  [Abs!Next]_frees
<1> USE DEF OInv, TypeOK, Layers
<1>1. ASSUME NEW l \in Layers, Call(t, l) PROVE UNCHANGED frees
    BY <1>1 DEF Call
<1>2. ASSUME Check(t) PROVE UNCHANGED frees
    BY <1>2 DEF Check
<1>3. ASSUME Own(t) PROVE Abs!Next
    <2>1. pc[t] = "own" /\ top[t] # 0 /\ cur[t] <= top[t]
        BY <1>3 DEF Own, StackShape
    <2>2. frees[cur[t]] = 0
        BY <2>1 DEF InProgress, Active
    <2>3. frees' = [frees EXCEPT ![cur[t]] = 1]
        BY <1>3, <2>2 DEF Own
    <2>4. QED
        BY <2>2, <2>3 DEF Abs!Next, Abs!Release, Abs!Layers
<1>4. ASSUME SetClosed(t) PROVE UNCHANGED frees
    BY <1>4 DEF SetClosed
<1>5. CASE UNCHANGED vars
    BY <1>5 DEF vars
<1>6. QED
    BY <1>1, <1>2, <1>3, <1>4, <1>5 DEF Next

(* With the fix exactly as the comment of websocket_example.c writes it   *)
(* (test, _close, then set _closed), a single task's nested and repeated  *)
(* close() calls implement TransportClose: no layer's resource is ever    *)
(* released twice, for any number of layers and calls.                    *)
THEOREM OneTaskRefinement ==
    ASSUME NEW t, Tasks = {t}
    PROVE  Spec => AbsSpec
<1>1. Init => Abs!Init
    BY DEF Init, Abs!Init, Abs!Layers, Layers
<1>2. OInv(t) /\ [Next]_vars => [Abs!Next]_frees
    BY OneTaskStepRefines
<1>3. QED
    BY <1>1, <1>2, SpecOInv, PTL DEF Spec, AbsSpec, Abs!Spec

=============================================================================
