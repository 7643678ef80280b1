-------------------------- MODULE FdTerminalProofs --------------------------
(***************************************************************************)
(* Proofs about FdTerminal: the type invariant, and that on the Linux      *)
(* build the descriptor is closed by the time the object is released.     *)
(***************************************************************************)
EXTENDS FdTerminal, TLAPS

(* The inductive invariant.  Besides FdReleased it records that a        *)
(* released object's task has ended, that nothing ever sets STOP, that     *)
(* while the constructor runs the task is still before its loop, START is *)
(* clear and nothing is open, and that a Linux task that has returned has  *)
(* closed the descriptor (nothing can reopen it: only the constructor      *)
(* opens, and it has finished).                                            *)
IInv ==
    /\ TypeOK
    /\ cpc = "freed" => tpc \in TaskGone
    /\ "STOP" \notin sig
    /\ cpc = "ctor" => tpc \in {"init", "wait"} /\ "START" \notin sig /\ fd = "none"
    /\ Build = "linux" => (tpc = "done" => fd # "open")
    /\ Build = "linux" => FdReleased

(* The initial state satisfies the inductive invariant.                   *)
LEMMA InitIInv == Init => IInv
<1>1. 0 \in Callbacks /\ 0 \in 0..MaxSets
    BY MaxSetsAssumption DEF Callbacks
<1>2. QED
    BY <1>1 DEF Init, IInv, TypeOK, FdReleased, TaskPcs, Bits

(* Every step of the client, the environment and the task, and every      *)
(* stutter, preserves the inductive invariant.                            *)
LEMMA NextIInv == IInv /\ [Next]_vars => IInv'
<1> SUFFICES ASSUME IInv, [Next]_vars PROVE IInv'
    OBVIOUS
<1> USE DEF IInv, TypeOK, FdReleased, TaskGone, Bits, TaskPcs
<1>1. CASE Create
    BY <1>1 DEF Create
<1>2. CASE Start
    BY <1>2 DEF Start
<1>3. CASE Stop
    BY <1>3 DEF Stop
<1>4. CASE SetReadCb
    <2>1. onData' \in Callbacks /\ nsets' \in 0..MaxSets
        BY <1>4, MaxSetsAssumption DEF SetReadCb, Callbacks
    <2>2. QED
        BY <1>4, <2>1 DEF SetReadCb
<1>5. CASE SetParams
    BY <1>5 DEF SetParams
<1>6. CASE Destroy
    BY <1>6 DEF Destroy
<1>7. CASE UnwindTask
    <2>1. CASE Build = "linux"
        BY <1>7, <2>1 DEF UnwindTask, TaskDtor
    <2>2. CASE Build # "linux"
        BY <1>7, <2>2 DEF UnwindTask, TaskDtor
    <2>3. QED
        BY <2>1, <2>2
<1>8. CASE DataArrives
    BY <1>8 DEF DataArrives
<1>9. CASE TaskInit
    BY <1>9 DEF TaskInit
<1>10. CASE TaskWait
    BY <1>10 DEF TaskWait
<1>11. CASE TaskLoop
    BY <1>11 DEF TaskLoop
<1>12. CASE TaskSelect
    <2>1. sel' \in {"timeout", "ready", "error"}
        BY <1>12 DEF TaskSelect, Select
    <2>2. UNCHANGED <<cpc, sig, onData, priv, nsets, fd, pending>>
        BY <1>12 DEF TaskSelect, Select
    <2>3. QED
        BY <1>12, <2>1, <2>2, Zenon DEF TaskSelect
<1>13. CASE TaskParams
    BY <1>13 DEF TaskParams
<1>14. CASE TaskCopy
    BY <1>14 DEF TaskCopy
<1>15. CASE TaskClear
    BY <1>15 DEF TaskClear
<1>16. CASE TaskDispatch
    <2>1. priv' \in Callbacks
        BY <1>16, MaxSetsAssumption DEF TaskDispatch, Callbacks
    <2>2. pending' \in BOOLEAN
        BY <1>16 DEF TaskDispatch
    <2>3. tpc = "dispatch" /\ tpc' \in {"exit", "loop"} /\ UNCHANGED <<cpc, sig, onData, nsets, fd, sel>>
        BY <1>16, Zenon DEF TaskDispatch
    <2>4. QED
        BY <2>1, <2>2, <2>3, Zenon
<1>17. CASE TaskExit
    BY <1>17, BuildAssumption DEF TaskExit
<1>18. CASE UNCHANGED vars
    BY <1>18, ZenonT(30) DEF vars
<1>19. QED
    BY <1>1, <1>2, <1>3, <1>4, <1>5, <1>6, <1>7, <1>8, <1>9, <1>10, <1>11,
       <1>12, <1>13, <1>14, <1>15, <1>16, <1>17, <1>18
       DEF Next, Client, Task

(* The inductive invariant holds in every reachable state.                *)
LEMMA SpecIInv == Spec => []IInv
BY InitIInv, NextIInv, PTL DEF Spec

(* Every reachable state of the terminal is well typed.                   *)
THEOREM FdTypeCorrect == Spec => []TypeOK
BY SpecIInv, PTL DEF IInv

(* On the Linux build, a released FdTerminal has closed its descriptor:   *)
(* the join in ~Task() waits for the lambda's close(t->fd).               *)
THEOREM LinuxFdReleased == Build = "linux" => (Spec => []FdReleased)
<1> SUFFICES ASSUME Build = "linux" PROVE Spec => []FdReleased
    OBVIOUS
<1>1. IInv => FdReleased
    BY DEF IInv
<1>2. QED
    BY SpecIInv, <1>1, PTL
=============================================================================
