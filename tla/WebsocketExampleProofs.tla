----------------------- MODULE WebsocketExampleProofs -----------------------
(***************************************************************************)
(* Proof that a quiet connected cycle of the example whose 50 sends all    *)
(* succeed finds the shutdown signal (FullQuietCycleSignalled).  The       *)
(* argument is a clock: while no data has arrived since xTimerStart(), the *)
(* timer has counted down exactly the time the main task has spent in its  *)
(* delays since then, or has fired once that time reached its period.     *)
(***************************************************************************)
EXTENDS WebsocketExample, Integers, TLAPS

\* The pcs between xTimerStart() and the shutdown check of a cycle that
\* found the client connected, and of its connect wait.
TimedPcs == {"wait", "hello", "flood", "keep", "crashwait", "stopwait"}

\* Delays spent before each stage of a connected cycle, in 50 ms units.
BeforeHello == ConnectWait
BeforeFlood == ConnectWait + Hellos * HelloGap

\* The time the main task has spent in vTaskDelay() since this cycle's
\* xTimerStart(), at pc with r units left of the current delay and k sends
\* done in the current loop: the delays of the stages passed, the sends
\* times their gap, minus what is left of the current delay.
ElapsedOf(pc, r, k) ==
    CASE pc = "wait"      -> ConnectWait - r
      [] pc = "hello"     -> BeforeHello + k * HelloGap - r
      [] pc = "flood"     -> BeforeFlood
      [] pc = "keep"      -> BeforeFlood + k * KeepGap - r
      [] pc = "crashwait" -> BeforeFlood + k * KeepGap + CrashWait - r
      [] pc = "stopwait"  -> BeforeFlood + k * KeepGap + CrashWait + StopWait - r
      [] OTHER            -> 0
Elapsed == ElapsedOf(mpc, rem, i)

\* The loop counters stay within their loops, and the flood runs with no
\* delay pending.
Counters ==
    /\ mpc = "hello" => i <= Hellos
    /\ mpc = "flood" => rem = 0

\* The shutdown timer is a clock of the quiet cycle: it has run down by
\* the time spent, or fired and given the semaphore once that time reached
\* NO_DATA_TIMEOUT_SEC.
TimerClock ==
    mpc \in TimedPcs /\ quiet =>
        /\ Elapsed < TimerPeriod => timer = TimerPeriod - Elapsed
        /\ Elapsed >= TimerPeriod => sema

\* The inductive invariant.
IInv == TypeOK /\ Counters /\ TimerClock

-----------------------------------------------------------------------------
(* The steps.                                                              *)

\* The program starts in IInv: no cycle is timed yet.
LEMMA InitIInv == Init => IInv
<1> SUFFICES ASSUME Init PROVE IInv
  OBVIOUS
<1>1. TypeOK
  <2>1. mpc \in MainPcs /\ cstate \in {"stopped", "connecting", "connected", "closed"}
    BY DEF Init, MainPcs
  <2>2. rem \in 0..RetryWait /\ i \in 0..KeepSends /\ timer \in 0..TimerPeriod
    BY DEF Init, RetryWait, KeepSends, TimerPeriod
  <2>3. QED
    BY <2>1, <2>2 DEF Init, TypeOK
<1>2. Counters
  BY DEF Init, Counters
<1>3. TimerClock
  BY DEF Init, TimerClock, TimedPcs
<1>4. QED
  BY <1>1, <1>2, <1>3 DEF IInv

\* The client's states, as TypeOK names them.
CStates == {"stopped", "connecting", "connected", "closed"}

\* TypeOK, one variable at a time: the provers take the string-valued, the
\* numeric and the Boolean variables best apart.
LEMMA TypeParts ==
    ASSUME mpc' \in MainPcs, cstate' \in CStates,
           rem' \in 0..RetryWait, i' \in 0..KeepSends, timer' \in 0..TimerPeriod,
           sema' \in BOOLEAN, quiet' \in BOOLEAN, connectedCycle' \in BOOLEAN
    PROVE  TypeOK'
BY DEF TypeOK, CStates

\* Every step keeps the variables typed.
LEMMA TypeNext == TypeOK /\ [Next]_vars => TypeOK'
<1> SUFFICES ASSUME TypeOK, [Next]_vars PROVE TypeOK'
  OBVIOUS
<1> DEFINE Parts ==
        /\ mpc' \in MainPcs /\ cstate' \in CStates
        /\ rem' \in 0..RetryWait /\ i' \in 0..KeepSends /\ timer' \in 0..TimerPeriod
        /\ sema' \in BOOLEAN /\ quiet' \in BOOLEAN /\ connectedCycle' \in BOOLEAN
<1>0. Parts => TypeOK'
  BY TypeParts
<1>1. ASSUME StartCycle PROVE Parts
  <2>1. mpc' \in MainPcs /\ cstate' \in CStates
    BY <1>1 DEF StartCycle, MainPcs, CStates, TypeOK
  <2>2. rem' \in 0..RetryWait /\ i' \in 0..KeepSends /\ timer' \in 0..TimerPeriod
    BY <1>1 DEF StartCycle, TypeOK, ConnectWait, RetryWait, HelloGap, KeepGap,
                 CrashWait, StopWait, Hellos, KeepSends, TimerPeriod
  <2>3. sema' \in BOOLEAN /\ quiet' \in BOOLEAN /\ connectedCycle' \in BOOLEAN
    BY <1>1 DEF StartCycle, TypeOK
  <2>4. QED
    BY <2>1, <2>2, <2>3
<1>2. ASSUME Tick PROVE Parts
  <2>1. mpc' \in MainPcs /\ cstate' \in CStates
    BY <1>2 DEF Tick, MainPcs, CStates, TypeOK
  <2>2. rem' \in 0..RetryWait /\ i' \in 0..KeepSends /\ timer' \in 0..TimerPeriod
    BY <1>2 DEF Tick, TypeOK, ConnectWait, RetryWait, HelloGap, KeepGap,
                 CrashWait, StopWait, Hellos, KeepSends, TimerPeriod
  <2>3. sema' \in BOOLEAN /\ quiet' \in BOOLEAN /\ connectedCycle' \in BOOLEAN
    BY <1>2 DEF Tick, TypeOK
  <2>4. QED
    BY <2>1, <2>2, <2>3
<1>3. ASSUME AfterConnectWait PROVE Parts
  <2>1. mpc' \in MainPcs /\ cstate' \in CStates
    BY <1>3 DEF AfterConnectWait, MainPcs, CStates, TypeOK
  <2>2. rem' \in 0..RetryWait /\ i' \in 0..KeepSends /\ timer' \in 0..TimerPeriod
    BY <1>3 DEF AfterConnectWait, TypeOK, ConnectWait, RetryWait, HelloGap, KeepGap,
                 CrashWait, StopWait, Hellos, KeepSends, TimerPeriod
  <2>3. sema' \in BOOLEAN /\ quiet' \in BOOLEAN /\ connectedCycle' \in BOOLEAN
    BY <1>3 DEF AfterConnectWait, TypeOK
  <2>4. QED
    BY <2>1, <2>2, <2>3
<1>4. ASSUME AfterRetryWait PROVE Parts
  <2>1. mpc' \in MainPcs /\ cstate' \in CStates
    BY <1>4 DEF AfterRetryWait, MainPcs, CStates, TypeOK
  <2>2. rem' \in 0..RetryWait /\ i' \in 0..KeepSends /\ timer' \in 0..TimerPeriod
    BY <1>4 DEF AfterRetryWait, TypeOK, ConnectWait, RetryWait, HelloGap, KeepGap,
                 CrashWait, StopWait, Hellos, KeepSends, TimerPeriod
  <2>3. sema' \in BOOLEAN /\ quiet' \in BOOLEAN /\ connectedCycle' \in BOOLEAN
    BY <1>4 DEF AfterRetryWait, TypeOK
  <2>4. QED
    BY <2>1, <2>2, <2>3
<1>5. ASSUME HelloSend PROVE Parts
  <2>1. mpc' \in MainPcs /\ cstate' \in CStates
    BY <1>5 DEF HelloSend, SendResult, MainPcs, CStates, TypeOK
  <2>2. rem' \in 0..RetryWait /\ i' \in 0..KeepSends /\ timer' \in 0..TimerPeriod
    BY <1>5 DEF HelloSend, SendResult, TypeOK, ConnectWait, RetryWait, HelloGap, KeepGap,
                 CrashWait, StopWait, Hellos, KeepSends, TimerPeriod
  <2>3. sema' \in BOOLEAN /\ quiet' \in BOOLEAN /\ connectedCycle' \in BOOLEAN
    BY <1>5 DEF HelloSend, SendResult, TypeOK
  <2>4. QED
    BY <2>1, <2>2, <2>3
<1>6. ASSUME Flood PROVE Parts
  <2>1. mpc' \in MainPcs /\ cstate' \in CStates
    BY <1>6 DEF Flood, SendResult, MainPcs, CStates, TypeOK
  <2>2. rem' \in 0..RetryWait /\ i' \in 0..KeepSends /\ timer' \in 0..TimerPeriod
    BY <1>6 DEF Flood, SendResult, TypeOK, ConnectWait, RetryWait, HelloGap, KeepGap,
                 CrashWait, StopWait, Hellos, KeepSends, TimerPeriod
  <2>3. sema' \in BOOLEAN /\ quiet' \in BOOLEAN /\ connectedCycle' \in BOOLEAN
    BY <1>6 DEF Flood, SendResult, TypeOK
  <2>4. QED
    BY <2>1, <2>2, <2>3
<1>7. ASSUME KeepSending PROVE Parts
  <2>1. mpc' \in MainPcs /\ cstate' \in CStates
    BY <1>7 DEF KeepSending, SendResult, MainPcs, CStates, TypeOK
  <2>2. rem' \in 0..RetryWait /\ i' \in 0..KeepSends /\ timer' \in 0..TimerPeriod
    BY <1>7 DEF KeepSending, SendResult, TypeOK, ConnectWait, RetryWait, HelloGap, KeepGap,
                 CrashWait, StopWait, Hellos, KeepSends, TimerPeriod
  <2>3. sema' \in BOOLEAN /\ quiet' \in BOOLEAN /\ connectedCycle' \in BOOLEAN
    BY <1>7 DEF KeepSending, SendResult, TypeOK
  <2>4. QED
    BY <2>1, <2>2, <2>3
<1>8. ASSUME StopClient PROVE Parts
  <2>1. mpc' \in MainPcs /\ cstate' \in CStates
    BY <1>8 DEF StopClient, MainPcs, CStates, TypeOK
  <2>2. rem' \in 0..RetryWait /\ i' \in 0..KeepSends /\ timer' \in 0..TimerPeriod
    BY <1>8 DEF StopClient, TypeOK, ConnectWait, RetryWait, HelloGap, KeepGap,
                 CrashWait, StopWait, Hellos, KeepSends, TimerPeriod
  <2>3. sema' \in BOOLEAN /\ quiet' \in BOOLEAN /\ connectedCycle' \in BOOLEAN
    BY <1>8 DEF StopClient, TypeOK
  <2>4. QED
    BY <2>1, <2>2, <2>3
<1>9. ASSUME CheckShutdown PROVE Parts
  <2>1. mpc' \in MainPcs /\ cstate' \in CStates
    BY <1>9 DEF CheckShutdown, MainPcs, CStates, TypeOK
  <2>2. rem' \in 0..RetryWait /\ i' \in 0..KeepSends /\ timer' \in 0..TimerPeriod
    BY <1>9 DEF CheckShutdown, TypeOK, ConnectWait, RetryWait, HelloGap, KeepGap,
                 CrashWait, StopWait, Hellos, KeepSends, TimerPeriod
  <2>3. sema' \in BOOLEAN /\ quiet' \in BOOLEAN /\ connectedCycle' \in BOOLEAN
    BY <1>9 DEF CheckShutdown, TypeOK
  <2>4. QED
    BY <2>1, <2>2, <2>3
<1>10. ASSUME Connect PROVE Parts
  <2>1. mpc' \in MainPcs /\ cstate' \in CStates
    BY <1>10 DEF Connect, MainPcs, CStates, TypeOK
  <2>2. rem' \in 0..RetryWait /\ i' \in 0..KeepSends /\ timer' \in 0..TimerPeriod
    BY <1>10 DEF Connect, TypeOK, ConnectWait, RetryWait, HelloGap, KeepGap,
                 CrashWait, StopWait, Hellos, KeepSends, TimerPeriod
  <2>3. sema' \in BOOLEAN /\ quiet' \in BOOLEAN /\ connectedCycle' \in BOOLEAN
    BY <1>10 DEF Connect, TypeOK
  <2>4. QED
    BY <2>1, <2>2, <2>3
<1>11. ASSUME Data PROVE Parts
  <2>1. mpc' \in MainPcs /\ cstate' \in CStates
    BY <1>11 DEF Data, MainPcs, CStates, TypeOK
  <2>2. rem' \in 0..RetryWait /\ i' \in 0..KeepSends /\ timer' \in 0..TimerPeriod
    BY <1>11 DEF Data, TypeOK, ConnectWait, RetryWait, HelloGap, KeepGap,
                 CrashWait, StopWait, Hellos, KeepSends, TimerPeriod
  <2>3. sema' \in BOOLEAN /\ quiet' \in BOOLEAN /\ connectedCycle' \in BOOLEAN
    BY <1>11 DEF Data, TypeOK
  <2>4. QED
    BY <2>1, <2>2, <2>3
<1>12. ASSUME PeerClose PROVE Parts
  <2>1. mpc' \in MainPcs /\ cstate' \in CStates
    BY <1>12 DEF PeerClose, MainPcs, CStates, TypeOK
  <2>2. rem' \in 0..RetryWait /\ i' \in 0..KeepSends /\ timer' \in 0..TimerPeriod
    BY <1>12 DEF PeerClose, TypeOK, ConnectWait, RetryWait, HelloGap, KeepGap,
                 CrashWait, StopWait, Hellos, KeepSends, TimerPeriod
  <2>3. sema' \in BOOLEAN /\ quiet' \in BOOLEAN /\ connectedCycle' \in BOOLEAN
    BY <1>12 DEF PeerClose, TypeOK
  <2>4. QED
    BY <2>1, <2>2, <2>3
<1>13. CASE UNCHANGED vars
  BY <1>13 DEF vars, TypeOK
<1>14. QED
  BY <1>0, <1>1, <1>2, <1>3, <1>4, <1>5, <1>6, <1>7, <1>8, <1>9, <1>10, <1>11, <1>12, <1>13
     DEF Next, Main

-----------------------------------------------------------------------------
(* The clock.                                                              *)

\* ElapsedOf at each pc of a timed cycle.
LEMMA ElapsedAt ==
    ASSUME NEW r, NEW k
    PROVE  /\ ElapsedOf("wait", r, k) = ConnectWait - r
           /\ ElapsedOf("hello", r, k) = BeforeHello + k * HelloGap - r
           /\ ElapsedOf("flood", r, k) = BeforeFlood
           /\ ElapsedOf("keep", r, k) = BeforeFlood + k * KeepGap - r
           /\ ElapsedOf("crashwait", r, k) = BeforeFlood + k * KeepGap + CrashWait - r
           /\ ElapsedOf("stopwait", r, k) =
                  BeforeFlood + k * KeepGap + CrashWait + StopWait - r
BY DEF ElapsedOf

\* A delay's tick adds one unit to the time spent, at every pc with a delay.
LEMMA ElapsedTick ==
    ASSUME NEW pc \in {"wait", "hello", "keep", "crashwait", "stopwait"},
           NEW r \in Int, NEW k \in Int
    PROVE  /\ ElapsedOf(pc, r, k) \in Int
           /\ ElapsedOf(pc, r - 1, k) = ElapsedOf(pc, r, k) + 1
<1>1. CASE pc = "wait"
  BY <1>1, ElapsedAt DEF BeforeHello, BeforeFlood, ConnectWait, HelloGap, KeepGap, CrashWait, StopWait, Hellos
<1>2. CASE pc = "hello"
  BY <1>2, ElapsedAt DEF BeforeHello, BeforeFlood, ConnectWait, HelloGap, KeepGap, CrashWait, StopWait, Hellos
<1>3. CASE pc = "keep"
  BY <1>3, ElapsedAt DEF BeforeHello, BeforeFlood, ConnectWait, HelloGap, KeepGap, CrashWait, StopWait, Hellos
<1>4. CASE pc = "crashwait"
  BY <1>4, ElapsedAt DEF BeforeHello, BeforeFlood, ConnectWait, HelloGap, KeepGap, CrashWait, StopWait, Hellos
<1>5. CASE pc = "stopwait"
  BY <1>5, ElapsedAt DEF BeforeHello, BeforeFlood, ConnectWait, HelloGap, KeepGap, CrashWait, StopWait, Hellos
<1>6. QED
  BY <1>1, <1>2, <1>3, <1>4, <1>5

\* A step that keeps the timer, the semaphore and the time spent of a quiet
\* timed cycle, and starts none, keeps the clock.
LEMMA ClockKept ==
    ASSUME TimerClock,
           mpc' \in TimedPcs /\ quiet' =>
               /\ mpc \in TimedPcs /\ quiet
               /\ Elapsed' = Elapsed /\ timer' = timer /\ sema' = sema
    PROVE  TimerClock'
BY DEF TimerClock

\* xTimerStart() at the top of a cycle sets the clock to zero spent.
LEMMA StartCycleClock == IInv /\ StartCycle => Counters' /\ TimerClock'
<1> SUFFICES ASSUME IInv, StartCycle PROVE Counters' /\ TimerClock'
  OBVIOUS
<1>1. mpc' = "wait" /\ rem' = ConnectWait /\ timer' = TimerPeriod
  BY DEF StartCycle
<1>2. Elapsed' = 0
  <2>1. Elapsed' = ElapsedOf("wait", ConnectWait, i')
    BY <1>1 DEF Elapsed
  <2>2. QED
    BY <2>1, ElapsedAt DEF ConnectWait
<1>3. QED
  BY <1>1, <1>2 DEF Counters, TimerClock, TimerPeriod

\* 50 ms of a delay: the time spent and the timer's count move together,
\* and the timer gives the semaphore as the time spent reaches its period.
LEMMA TickClock == IInv /\ Tick => Counters' /\ TimerClock'
<1> SUFFICES ASSUME IInv, Tick PROVE Counters' /\ TimerClock'
  OBVIOUS
<1>1. /\ UNCHANGED <<mpc, i, quiet>> /\ rem' = rem - 1
      /\ timer' = IF timer > 0 THEN timer - 1 ELSE 0
      /\ sema' = (sema \/ timer = 1)
      /\ mpc \in Delaying
  BY DEF Tick
<1>2. Counters'
  BY <1>1 DEF IInv, Counters, Delaying
<1>3. TimerClock'
  <2> SUFFICES ASSUME mpc \in TimedPcs, quiet
               PROVE  /\ Elapsed' < TimerPeriod => timer' = TimerPeriod - Elapsed'
                      /\ Elapsed' >= TimerPeriod => sema'
    BY <1>1 DEF TimerClock
  <2>1. Elapsed' = Elapsed + 1 /\ Elapsed \in Int
    <3>1. mpc \in {"wait", "hello", "keep", "crashwait", "stopwait"}
      BY <1>1 DEF TimedPcs, Delaying
    <3>2. rem \in Int /\ i \in Int
      BY DEF IInv, TypeOK
    <3>3. Elapsed = ElapsedOf(mpc, rem, i) /\ Elapsed' = ElapsedOf(mpc, rem - 1, i)
      BY <1>1 DEF Elapsed
    <3>4. QED
      BY <3>1, <3>2, <3>3, ElapsedTick
  <2>2. /\ Elapsed < TimerPeriod => timer = TimerPeriod - Elapsed
        /\ Elapsed >= TimerPeriod => sema
    BY DEF IInv, TimerClock
  <2>3. Elapsed' < TimerPeriod => timer' = TimerPeriod - Elapsed'
    BY <2>1, <2>2, <1>1 DEF TimerPeriod
  <2>4. Elapsed' >= TimerPeriod => sema'
    <3>1. Elapsed' >= TimerPeriod => sema \/ timer = 1
      BY <2>1, <2>2 DEF TimerPeriod
    <3>2. QED
      BY <3>1, <1>1
  <2>5. QED
    BY <2>3, <2>4
<1>4. QED
  BY <1>2, <1>3

\* The end of the connect wait: a connected client starts the hellos with
\* the time spent unchanged.
LEMMA AfterConnectWaitClock == IInv /\ AfterConnectWait => Counters' /\ TimerClock'
<1> SUFFICES ASSUME IInv, AfterConnectWait PROVE Counters' /\ TimerClock'
  OBVIOUS
<1>1. mpc = "wait" /\ rem = 0 /\ UNCHANGED <<timer, sema, quiet>>
  BY DEF AfterConnectWait
<1>2. CASE cstate = "connected"
  <2>1. mpc' = "hello" /\ i' = 0 /\ rem' = 0
    BY <1>1, <1>2 DEF AfterConnectWait
  <2>2. Elapsed' = Elapsed
    <3>1. Elapsed = ElapsedOf("wait", 0, i) /\ Elapsed' = ElapsedOf("hello", 0, 0)
      BY <1>1, <2>1 DEF Elapsed
    <3>2. QED
      BY <3>1, ElapsedAt DEF BeforeHello, BeforeFlood, ConnectWait, HelloGap, KeepGap, CrashWait, StopWait, Hellos
  <2>3. QED
    BY <1>1, <2>1, <2>2, ClockKept DEF IInv, Counters, Hellos, TimedPcs
<1>3. CASE cstate # "connected"
  <2>1. mpc' = "retry"
    BY <1>3 DEF AfterConnectWait
  <2>2. QED
    BY <2>1 DEF Counters, TimerClock, TimedPcs
<1>4. QED
  BY <1>2, <1>3

\* continue: back to the top, where no cycle is timed.
LEMMA AfterRetryWaitClock == IInv /\ AfterRetryWait => Counters' /\ TimerClock'
BY DEF AfterRetryWait, Counters, TimerClock, TimedPcs

\* A hello send trades one more send for its 200 ms delay; after the last,
\* the flood starts with the three delays spent.
LEMMA HelloSendClock == IInv /\ HelloSend => Counters' /\ TimerClock'
<1> SUFFICES ASSUME IInv, HelloSend PROVE Counters' /\ TimerClock'
  OBVIOUS
<1>1. /\ mpc = "hello" /\ rem = 0 /\ UNCHANGED <<timer, sema, quiet>>
      /\ i \in 0..KeepSends /\ i <= Hellos
  BY DEF HelloSend, IInv, TypeOK, Counters
<1>2. CASE i < Hellos
  <2>1. mpc' = "hello" /\ i' = i + 1 /\ rem' = HelloGap
    BY <1>2 DEF HelloSend
  <2>2. Elapsed' = Elapsed
    <3>1. Elapsed = ElapsedOf("hello", 0, i) /\ Elapsed' = ElapsedOf("hello", HelloGap, i + 1)
      BY <1>1, <2>1 DEF Elapsed
    <3>2. QED
      BY <3>1, <1>1, ElapsedAt DEF BeforeHello, BeforeFlood, ConnectWait, HelloGap, KeepGap, CrashWait, StopWait, Hellos
  <2>3. Counters'
    BY <1>1, <1>2, <2>1 DEF Counters, Hellos
  <2>4. QED
    BY <1>1, <2>1, <2>2, <2>3, ClockKept DEF IInv
<1>3. CASE ~(i < Hellos)
  <2>1. mpc' = "flood" /\ i' = i /\ rem' = rem /\ i = Hellos
    BY <1>1, <1>3 DEF HelloSend, Hellos
  <2>2. Elapsed' = Elapsed
    <3>1. Elapsed = ElapsedOf("hello", 0, Hellos) /\ Elapsed' = ElapsedOf("flood", 0, Hellos)
      BY <1>1, <2>1 DEF Elapsed
    <3>2. QED
      BY <3>1, ElapsedAt DEF BeforeHello, BeforeFlood, ConnectWait, HelloGap, KeepGap, CrashWait, StopWait, Hellos
  <2>3. Counters'
    BY <1>1, <2>1 DEF Counters
  <2>4. QED
    BY <1>1, <2>1, <2>2, <2>3, ClockKept DEF IInv, TimedPcs
<1>4. QED
  BY <1>2, <1>3

\* The flood takes no time: step 2 starts with the time spent unchanged.
LEMMA FloodClock == IInv /\ Flood => Counters' /\ TimerClock'
<1> SUFFICES ASSUME IInv, Flood PROVE Counters' /\ TimerClock'
  OBVIOUS
<1>1. /\ mpc = "flood" /\ rem = 0 /\ mpc' = "keep" /\ i' = 0
      /\ UNCHANGED <<rem, timer, sema, quiet>>
  BY DEF Flood, IInv, Counters
<1>2. Elapsed' = Elapsed
  <2>1. Elapsed = ElapsedOf("flood", 0, i) /\ Elapsed' = ElapsedOf("keep", 0, 0)
    BY <1>1 DEF Elapsed
  <2>2. QED
    BY <2>1, ElapsedAt DEF BeforeHello, BeforeFlood, ConnectWait, HelloGap, KeepGap, CrashWait, StopWait, Hellos
<1>3. QED
  BY <1>1, <1>2, ClockKept DEF IInv, Counters, TimedPcs

\* A send of step 2 trades one more send for its 50 ms delay; its end
\* trades the sends for the 3 s crash wait.
LEMMA KeepSendingClock == IInv /\ KeepSending => Counters' /\ TimerClock'
<1> SUFFICES ASSUME IInv, KeepSending PROVE Counters' /\ TimerClock'
  OBVIOUS
<1>1. /\ mpc = "keep" /\ rem = 0 /\ UNCHANGED <<timer, sema, quiet>>
      /\ i \in 0..KeepSends
  BY DEF KeepSending, IInv, TypeOK
<1>2. \/ mpc' = "keep" /\ i' = i + 1 /\ rem' = KeepGap
      \/ mpc' = "crashwait" /\ i' = i /\ rem' = CrashWait
  BY DEF KeepSending
<1>3. Elapsed' = Elapsed
  <2>1. Elapsed = ElapsedOf("keep", 0, i)
    BY <1>1 DEF Elapsed
  <2>2. CASE mpc' = "keep" /\ i' = i + 1 /\ rem' = KeepGap
    <3>1. Elapsed' = ElapsedOf("keep", KeepGap, i + 1)
      BY <2>2 DEF Elapsed
    <3>2. QED
      BY <1>1, <2>1, <3>1, ElapsedAt DEF BeforeHello, BeforeFlood, ConnectWait, HelloGap, KeepGap, CrashWait, StopWait, Hellos
  <2>3. CASE mpc' = "crashwait" /\ i' = i /\ rem' = CrashWait
    <3>1. Elapsed' = ElapsedOf("crashwait", CrashWait, i)
      BY <2>3 DEF Elapsed
    <3>2. QED
      BY <1>1, <2>1, <3>1, ElapsedAt DEF BeforeHello, BeforeFlood, ConnectWait, HelloGap, KeepGap, CrashWait, StopWait, Hellos
  <2>4. QED
    BY <1>2, <2>2, <2>3
<1>4. QED
  BY <1>1, <1>2, <1>3, ClockKept DEF IInv, Counters, TimedPcs

\* esp_websocket_client_stop() and the 3 s wait after it.
LEMMA StopClientClock == IInv /\ StopClient => Counters' /\ TimerClock'
<1> SUFFICES ASSUME IInv, StopClient PROVE Counters' /\ TimerClock'
  OBVIOUS
<1>1. /\ mpc = "crashwait" /\ rem = 0 /\ mpc' = "stopwait" /\ rem' = StopWait
      /\ UNCHANGED <<i, timer, sema, quiet>>
  BY DEF StopClient
<1>2. Elapsed' = Elapsed
  <2>1. Elapsed = ElapsedOf("crashwait", 0, i) /\ Elapsed' = ElapsedOf("stopwait", StopWait, i)
    BY <1>1 DEF Elapsed
  <2>2. i \in Int
    BY DEF IInv, TypeOK
  <2>3. QED
    BY <2>1, <2>2, ElapsedAt DEF BeforeHello, BeforeFlood, ConnectWait, HelloGap, KeepGap, CrashWait, StopWait, Hellos
<1>3. QED
  BY <1>1, <1>2, ClockKept DEF IInv, Counters, TimedPcs

\* The shutdown check ends the cycle.
LEMMA CheckShutdownClock == IInv /\ CheckShutdown => Counters' /\ TimerClock'
<1> SUFFICES ASSUME IInv, CheckShutdown PROVE Counters' /\ TimerClock'
  OBVIOUS
<1>1. mpc' \in {"top", "end"}
  BY DEF CheckShutdown
<1>2. QED
  BY <1>1 DEF Counters, TimerClock, TimedPcs

\* The client's steps: only data touches the timer, and it ends the quiet.
LEMMA ClientClock == IInv /\ (Connect \/ Data \/ PeerClose) => Counters' /\ TimerClock'
<1> SUFFICES ASSUME IInv, Connect \/ Data \/ PeerClose PROVE Counters' /\ TimerClock'
  OBVIOUS
<1>1. UNCHANGED <<mpc, rem, i>>
  BY DEF Connect, Data, PeerClose
<1>2. Counters'
  BY <1>1 DEF IInv, Counters
<1>3. CASE Data
  BY <1>2, <1>3 DEF Data, TimerClock
<1>4. CASE Connect \/ PeerClose
  <2>1. Elapsed' = Elapsed
    BY <1>1 DEF Elapsed
  <2>2. QED
    BY <1>2, <1>4, <2>1, ClockKept DEF IInv, Connect, PeerClose
<1>5. QED
  BY <1>3, <1>4

-----------------------------------------------------------------------------
(* The theorem.                                                            *)

\* IInv is inductive.
LEMMA NextIInv == IInv /\ [Next]_vars => IInv'
<1> SUFFICES ASSUME IInv, [Next]_vars PROVE IInv'
  OBVIOUS
<1>1. TypeOK'
  BY TypeNext DEF IInv
<1>2. CASE Next
  <2>1. Counters' /\ TimerClock'
    BY <1>2, StartCycleClock, TickClock, AfterConnectWaitClock,
       AfterRetryWaitClock, HelloSendClock, FloodClock, KeepSendingClock,
       StopClientClock, CheckShutdownClock, ClientClock DEF Next, Main
  <2>2. QED
    BY <1>1, <2>1 DEF IInv
<1>3. CASE UNCHANGED vars
  BY <1>1, <1>3 DEF vars, IInv, Counters, TimerClock, Elapsed
<1>4. QED
  BY <1>2, <1>3

\* IInv holds in every reachable state.
LEMMA SpecIInv == Spec => []IInv
BY InitIInv, NextIInv, PTL DEF Spec

\* The check at the end of a connected cycle with no data in which all 50
\* sends of step 2 succeed: 3 s + 3 x 200 ms + 50 x 50 ms + 3 s + 3 s of
\* delays is 12.1 s, past the 10 s of the timer, so the clock has fired.
LEMMA FullCycleOutlastsTimer == IInv => FullQuietCycleSignalled
<1> SUFFICES ASSUME IInv, mpc = "stopwait", rem = 0, connectedCycle, quiet,
                    i = KeepSends
             PROVE  sema
  BY DEF FullQuietCycleSignalled
<1>1. Elapsed = ElapsedOf("stopwait", 0, KeepSends)
  BY DEF Elapsed
<1>2. Elapsed >= TimerPeriod
  BY <1>1, ElapsedAt DEF KeepSends, TimerPeriod, BeforeHello, BeforeFlood, ConnectWait, HelloGap, KeepGap, CrashWait, StopWait, Hellos
<1>3. QED
  BY <1>2 DEF IInv, TimerClock, TimedPcs

\* A cycle of websocket_app_start() that found the client connected, got no
\* DATA event after its xTimerStart(), and completed all 50 sends of step 2
\* of simulate_customer_crash_scenario() finds shutdown_sema given at its
\* xSemaphoreTake(): the one-shot timer has fired within the cycle's delays.
THEOREM FullQuietCycleSignalledInvariant == Spec => []FullQuietCycleSignalled
BY SpecIInv, FullCycleOutlastsTimer, PTL

=============================================================================
