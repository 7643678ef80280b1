----------------------------- MODULE FdTerminal -----------------------------
(***************************************************************************)
(* esp_modem's VFS terminal, FdTerminal (esp_modem_term_fs.cpp): a reader  *)
(* task started by the constructor, and one client thread that calls       *)
(* start(), stop(), set_read_cb() and finally the destructor.  The two     *)
(* share a SignalGroup (bits START, STOP, PARAMS, INIT), the read callback *)
(* on_data and the descriptor fd.                                           *)
(*                                                                         *)
(* Task and SignalGroup are esp_modem primitives that are not part of this *)
(* repository.  Two builds are modelled, chosen by the constant Build:     *)
(*   "freertos": Task::Delete() deletes the calling task and never returns;*)
(*               ~Task() deletes the task wherever it is.                  *)
(*   "linux":    Task::Delete() does nothing; ~Task() joins the thread.    *)
(* A callback is a number: 0 is nullptr, k > 0 the k-th one installed.     *)
(***************************************************************************)
EXTENDS Naturals

CONSTANTS Build,     \* "freertos" or "linux"
          MaxSets    \* bound on the number of set_read_cb() calls

ASSUME BuildAssumption == Build \in {"freertos", "linux"}
ASSUME MaxSetsAssumption == MaxSets \in Nat

VARIABLES
    cpc,      \* the client thread: constructor, live, inside set_read_cb, destructor, freed
    tpc,      \* the reader task's program counter
    sig,      \* the bits set in the SignalGroup
    onData,   \* the member on_data
    priv,     \* the task's local copy on_data_priv
    nsets,    \* set_read_cb() calls so far
    fd,       \* the descriptor: not opened, open, closed
    pending,  \* the device has bytes to read
    sel       \* what the last select() returned

vars == <<cpc, tpc, sig, onData, priv, nsets, fd, pending, sel>>

Bits == {"INIT", "START", "STOP", "PARAMS"}
Callbacks == 0..MaxSets
TaskPcs == {"init", "wait", "loop", "select", "params", "copy", "clear",
            "dispatch", "exit", "done", "deleted", "killed"}
\* The task has ended: returned through the Linux wrapper, deleted itself,
\* or was deleted by ~Task().
TaskGone == {"done", "deleted", "killed"}
\* The task is inside the loop of task(), lines 108-138.
InLoop == {"loop", "select", "params", "copy", "clear", "dispatch"}

TypeOK ==
    /\ cpc \in {"ctor", "live", "setParams", "unwind", "freed"}
    /\ tpc \in TaskPcs
    /\ sig \subseteq Bits
    /\ onData \in Callbacks
    /\ priv \in Callbacks
    /\ nsets \in 0..MaxSets
    /\ fd \in {"none", "open", "closed"}
    /\ pending \in BOOLEAN
    /\ sel \in {"timeout", "ready", "error"}

(* The member initialisers have run: the task exists and nothing is open.  *)
Init ==
    /\ cpc = "ctor"
    /\ tpc = "init"
    /\ sig = {}
    /\ onData = 0
    /\ priv = 0
    /\ nsets = 0
    /\ fd = "none"
    /\ pending = FALSE
    /\ sel = "timeout"

-----------------------------------------------------------------------------
(* The client thread.                                                       *)

(* create_vfs_terminal(): the constructor body opens the device; on        *)
(* success start() sets START, on failure the exception destroys the       *)
(* members already built (the task among them) and no object is returned.  *)
Create ==
    /\ cpc = "ctor"
    /\ \/ /\ fd' = "open"
          /\ sig' = sig \cup {"START"}
          /\ cpc' = "live"
       \/ /\ cpc' = "unwind"
          /\ UNCHANGED <<fd, sig>>
    /\ UNCHANGED <<tpc, onData, priv, nsets, pending, sel>>

Start ==
    /\ cpc = "live"
    /\ sig' = sig \cup {"START"}
    /\ UNCHANGED <<cpc, tpc, onData, priv, nsets, fd, pending, sel>>

Stop ==
    /\ cpc = "live"
    /\ sig' = sig \ {"START"}
    /\ UNCHANGED <<cpc, tpc, onData, priv, nsets, fd, pending, sel>>

(* set_read_cb(f), first statement: on_data = std::move(f), with f nullptr  *)
(* or a new callback.                                                       *)
SetReadCb ==
    /\ cpc = "live"
    /\ nsets < MaxSets
    /\ onData' \in {0, nsets + 1}
    /\ nsets' = nsets + 1
    /\ cpc' = "setParams"
    /\ UNCHANGED <<tpc, sig, priv, fd, pending, sel>>

(* set_read_cb(f), second statement: signal.set(TASK_PARAMS).              *)
SetParams ==
    /\ cpc = "setParams"
    /\ sig' = sig \cup {"PARAMS"}
    /\ cpc' = "live"
    /\ UNCHANGED <<tpc, onData, priv, nsets, fd, pending, sel>>

(* ~FdTerminal(): the body calls stop(); the members are destroyed next.   *)
Destroy ==
    /\ cpc = "live"
    /\ sig' = sig \ {"START"}
    /\ cpc' = "unwind"
    /\ UNCHANGED <<tpc, onData, priv, nsets, fd, pending, sel>>

(* Destroying the member task_handle (~Task()), the last member declared   *)
(* and so the first destroyed; the object is released after it.  FreeRTOS *)
(* deletes the task where it stands; Linux joins the thread, so the step   *)
(* waits until the task has returned.  Task is not in this repository: a *)
(* FreeRTOS task that already deleted itself (Task::Delete(), line 85) is *)
(* taken to be left alone, although ~Task() may delete its stale handle.  *)
TaskDtor ==
    IF Build = "linux"
    THEN tpc = "done" /\ UNCHANGED tpc
    ELSE tpc' = IF tpc \in TaskGone THEN tpc ELSE "killed"

UnwindTask ==
    /\ cpc = "unwind"
    /\ TaskDtor
    /\ cpc' = "freed"
    /\ UNCHANGED <<sig, onData, priv, nsets, fd, pending, sel>>

-----------------------------------------------------------------------------
(* The environment: bytes arrive on the device.                            *)

DataArrives ==
    /\ fd = "open"
    /\ ~pending
    /\ pending' = TRUE
    /\ UNCHANGED <<cpc, tpc, sig, onData, priv, nsets, fd, sel>>

-----------------------------------------------------------------------------
(* The reader task, FdTerminal::task() and the lambda that runs it.        *)

(* signal.set(TASK_INIT)                                                    *)
TaskInit ==
    /\ tpc = "init"
    /\ sig' = sig \cup {"INIT"}
    /\ tpc' = "wait"
    /\ UNCHANGED <<cpc, onData, priv, nsets, fd, pending, sel>>

(* wait_any(START | STOP) blocks until one is set; STOP returns at once,    *)
(* otherwise the fd is made non-blocking and the loop begins.              *)
TaskWait ==
    /\ tpc = "wait"
    /\ sig \cap {"START", "STOP"} # {}
    /\ tpc' = IF "STOP" \in sig THEN "exit" ELSE "loop"
    /\ UNCHANGED <<cpc, sig, onData, priv, nsets, fd, pending, sel>>

(* while (signal.is_any(TASK_START))                                        *)
TaskLoop ==
    /\ tpc = "loop"
    /\ tpc' = IF "START" \in sig THEN "select" ELSE "exit"
    /\ UNCHANGED <<cpc, sig, onData, priv, nsets, fd, pending, sel>>

\* Mutant: select() without a timeout, blocked until bytes arrive.
SelectNoTimeout ==
    /\ pending
    /\ \E s \in {"ready", "error"} :
        /\ sel' = s
        /\ UNCHANGED <<cpc, sig, onData, priv, nsets, fd, pending>>

(* select() with a one second timeout: readable when bytes are pending,    *)
(* a timeout otherwise, or an error.                                       *)
Select ==
    \E s \in {IF pending THEN "ready" ELSE "timeout", "error"} :
        /\ sel' = s
        /\ UNCHANGED <<cpc, sig, onData, priv, nsets, fd, pending>>

TaskSelect ==
    /\ tpc = "select"
    /\ Select
    /\ tpc' = "params"

(* if (signal.is_any(TASK_PARAMS))                                          *)
TaskParams ==
    /\ tpc = "params"
    /\ tpc' = IF "PARAMS" \in sig THEN "copy" ELSE "dispatch"
    /\ UNCHANGED <<cpc, sig, onData, priv, nsets, fd, pending, sel>>

(* on_data_priv = on_data                                                   *)
TaskCopy ==
    /\ tpc = "copy"
    /\ priv' = onData
    /\ tpc' = "clear"
    /\ UNCHANGED <<cpc, sig, onData, nsets, fd, pending, sel>>

(* signal.clear(TASK_PARAMS)                                                *)
TaskClear ==
    /\ tpc = "clear"
    /\ sig' = sig \ {"PARAMS"}
    /\ tpc' = "dispatch"
    /\ UNCHANGED <<cpc, onData, priv, nsets, fd, pending, sel>>

(* The result of select(): an error breaks the loop; a readable fd calls   *)
(* the callback, which reads the bytes and, when it returns true, is       *)
(* dropped; then Task::Relinquish() and back to the loop test.             *)
TaskDispatch ==
    /\ tpc = "dispatch"
    /\ IF sel = "ready" /\ priv # 0
       THEN /\ pending' = FALSE
            /\ \E done \in BOOLEAN : priv' = IF done THEN 0 ELSE priv
       ELSE UNCHANGED <<pending, priv>>
    /\ tpc' = IF sel = "error" THEN "exit" ELSE "loop"
    /\ UNCHANGED <<cpc, sig, onData, nsets, fd, sel>>

(* task() has returned to the lambda: Task::Delete(), then                 *)
(* if (t->fd >= 0) close(t->fd).                                           *)
\* Mutant: the lambda returns without closing the descriptor.
TaskExitNoClose ==
    /\ tpc = "exit"
    /\ tpc' = IF Build = "freertos" THEN "deleted" ELSE "done"
    /\ UNCHANGED <<cpc, sig, onData, priv, nsets, fd, pending, sel>>

TaskExit ==
    /\ tpc = "exit"
    /\ IF Build = "freertos"
       THEN tpc' = "deleted" /\ UNCHANGED fd
       ELSE /\ tpc' = "done"
            /\ fd' = IF fd = "open" THEN "closed" ELSE fd
    /\ UNCHANGED <<cpc, sig, onData, priv, nsets, pending, sel>>

-----------------------------------------------------------------------------

Client == Create \/ Start \/ Stop \/ SetReadCb \/ SetParams \/ Destroy \/ UnwindTask

Task == TaskInit \/ TaskWait \/ TaskLoop \/ TaskSelect \/ TaskParams
        \/ TaskCopy \/ TaskClear \/ TaskDispatch \/ TaskExit

Next == Client \/ Task \/ DataArrives

(* The scheduler runs a ready task (select() returns within its timeout),  *)
(* and a destructor that has begun runs to its end.  Nothing forces the    *)
(* client to call start(), stop(), set_read_cb() or the destructor.        *)
Fairness == WF_vars(Task) /\ WF_vars(UnwindTask)

Spec == Init /\ [][Next]_vars /\ Fairness

-----------------------------------------------------------------------------
(* Properties.                                                              *)

(* A destroyed FdTerminal has closed its descriptor: the lambda's          *)
(* close(t->fd) has run by the time the object is gone (lines 83-88).     *)
FdReleased == cpc = "freed" => fd # "open"

(* The task's lambda closes the descriptor when task() returns: once the  *)
(* lambda has run to its end, 'if (t->fd >= 0) close(t->fd)' has run     *)
(* (lines 83-88).                                                         *)
TaskEndClosesFd == tpc \in {"done", "deleted"} => fd # "open"

(* The task uses the callback installed last: whenever no set_read_cb()    *)
(* hand-over is in progress (PARAMS clear, the client not between its two  *)
(* statements, the task not between its copy and its clear) the task's     *)
(* copy is the member on_data, or nullptr after a callback returned true   *)
(* (set_read_cb, lines 53-56, and the hand-over, lines 119-122).          *)
CallbackCurrent ==
    (/\ tpc \in InLoop \ {"copy", "clear"}
     /\ cpc # "setParams"
     /\ "PARAMS" \notin sig)
    => priv \in {0, onData}

(* The destructor returns: once the members are being destroyed the       *)
(* object is eventually released (~FdTerminal, line 164, and the           *)
(* constructor's failure path, line 92).                                   *)
DestructionCompletes == (cpc = "unwind") ~> (cpc = "freed")

(* Once the task has passed its wait for START, a destructor that has      *)
(* begun finishes: stop() makes the loop end within one select() timeout.  *)
StartedDestructionCompletes ==
    (cpc = "unwind" /\ tpc \notin {"init", "wait"}) ~> (cpc = "freed")

=============================================================================
