-------------------------- MODULE WebsocketExample --------------------------
(***************************************************************************)
(* The target example application (examples/target/main/websocket_example.c)*)
(* : its main task runs test cycles (start the client, start the shutdown  *)
(* timer, wait for the connection, send, stop the client, look for the     *)
(* shutdown signal); a one-shot FreeRTOS timer gives a binary semaphore    *)
(* when no data has arrived for NO_DATA_TIMEOUT_SEC; the client task       *)
(* connects, receives data (the event handler resets the timer) and may be *)
(* closed by the peer.                                                     *)
(*                                                                         *)
(* Time is discrete, in units of 50 ms (the shortest vTaskDelay of the     *)
(* loop).  Time passes only in the main task's delays; the timer counts    *)
(* down with it and fires when it reaches zero.  Sends take no time.  The  *)
(* client (esp_websocket_client, not part of this repository) is modelled  *)
(* from spec.md 4.4: start() begins connecting, the connection succeeds or *)
(* fails, a failed send aborts it, stop() ends it.                         *)
(***************************************************************************)
EXTENDS Naturals

\* #define NO_DATA_TIMEOUT_SEC 10, in 50 ms units.
TimerPeriod == 200
\* vTaskDelay() lengths of the loop, in 50 ms units (lines 342, 346, 357,
\* 179, 183 and 366).
ConnectWait == 60
RetryWait == 100
HelloGap == 4
KeepGap == 1
CrashWait == 60
StopWait == 60
\* Loop bounds of the hello loop (line 353) and of step 2 of the crash
\* scenario (line 156).
Hellos == 3
KeepSends == 50

VARIABLES
    mpc,      \* where the main task is
    rem,      \* 50 ms units left of the main task's current delay
    i,        \* index of the current send loop
    timer,    \* units until shutdown_signal_timer fires; 0 when dormant
    sema,     \* shutdown_sema has been given and not taken
    cstate,   \* the client's connection state
    quiet,    \* no DATA event since this cycle's xTimerStart()
    connectedCycle  \* this cycle found the client connected

vars == <<mpc, rem, i, timer, sema, cstate, quiet, connectedCycle>>

MainPcs == {"top", "wait", "retry", "hello", "flood", "keep", "crashwait",
            "stopwait", "end"}
\* The pcs at which the main task is in a vTaskDelay().
Delaying == {"wait", "retry", "hello", "keep", "crashwait", "stopwait"}

TypeOK ==
    /\ mpc \in MainPcs
    /\ rem \in 0..RetryWait
    /\ i \in 0..KeepSends
    /\ timer \in 0..TimerPeriod
    /\ sema \in BOOLEAN
    /\ cstate \in {"stopped", "connecting", "connected", "closed"}
    /\ quiet \in BOOLEAN
    /\ connectedCycle \in BOOLEAN

(* websocket_app_start() after esp_websocket_client_init(): the timer is   *)
(* created dormant, the semaphore empty, the client not started.           *)
Init ==
    /\ mpc = "top"
    /\ rem = 0
    /\ i = 0
    /\ timer = 0
    /\ sema = FALSE
    /\ cstate = "stopped"
    /\ quiet = TRUE
    /\ connectedCycle = FALSE

-----------------------------------------------------------------------------
(* The client, as the main task's calls see it.                            *)

(* esp_websocket_client_send_text(): on a connected client the send       *)
(* succeeds, or fails and aborts the connection; otherwise it fails.       *)
SendResult(ok) ==
    IF cstate = "connected" /\ ok THEN UNCHANGED cstate
    ELSE cstate' = IF cstate = "connected" THEN "closed" ELSE cstate

-----------------------------------------------------------------------------
(* The main task, websocket_app_start()'s loop.                            *)

(* Top of the loop: esp_websocket_client_start(), xTimerStart() (which     *)
(* restarts a running timer), then vTaskDelay(3000).                       *)
StartCycle ==
    /\ mpc = "top"
    /\ cstate' = IF cstate \in {"stopped", "closed"} THEN "connecting" ELSE cstate
    /\ timer' = TimerPeriod
    /\ mpc' = "wait"
    /\ rem' = ConnectWait
    /\ quiet' = TRUE
    /\ connectedCycle' = FALSE
    /\ UNCHANGED <<i, sema>>

\* Mutant: the timer expires without giving the semaphore.
TickNoFire ==
    /\ mpc \in Delaying
    /\ rem > 0
    /\ rem' = rem - 1
    /\ timer' = IF timer > 0 THEN timer - 1 ELSE 0
    /\ UNCHANGED <<mpc, i, sema, cstate, quiet, connectedCycle>>

(* 50 ms of a vTaskDelay() pass; the timer counts down with them and, on   *)
(* reaching zero, runs shutdown_signaler(), which gives the semaphore.     *)
Tick ==
    /\ mpc \in Delaying
    /\ rem > 0
    /\ rem' = rem - 1
    /\ timer' = IF timer > 0 THEN timer - 1 ELSE 0
    /\ sema' = (sema \/ timer = 1)
    /\ UNCHANGED <<mpc, i, cstate, quiet, connectedCycle>>

(* After the 3 s wait: a client that is not connected makes the loop wait  *)
(* 5 s and continue; a connected one goes on to the sends.                 *)
AfterConnectWait ==
    /\ mpc = "wait"
    /\ rem = 0
    /\ IF cstate = "connected"
       THEN /\ mpc' = "hello" /\ i' = 0 /\ connectedCycle' = TRUE
            /\ UNCHANGED rem
       ELSE /\ mpc' = "retry" /\ rem' = RetryWait
            /\ UNCHANGED <<i, connectedCycle>>
    /\ UNCHANGED <<timer, sema, cstate, quiet>>

(* continue: back to the top of the loop, past the shutdown check.         *)
AfterRetryWait ==
    /\ mpc = "retry"
    /\ rem = 0
    /\ mpc' = "top"
    /\ UNCHANGED <<rem, i, timer, sema, cstate, quiet, connectedCycle>>

(* One of the three hello sends (result ignored) and its 200 ms delay;     *)
(* after the third, simulate_customer_crash_scenario() begins.             *)
HelloSend ==
    /\ mpc = "hello"
    /\ rem = 0
    /\ IF i < Hellos
       THEN /\ \E ok \in BOOLEAN : SendResult(ok)
            /\ i' = i + 1
            /\ rem' = HelloGap
            /\ UNCHANGED mpc
       ELSE /\ mpc' = "flood"
            /\ UNCHANGED <<i, rem, cstate>>
    /\ UNCHANGED <<timer, sema, quiet, connectedCycle>>

(* Step 1: 100 sends with a 1 ms timeout and no delay, stopping at the     *)
(* first failure.                                                          *)
Flood ==
    /\ mpc = "flood"
    /\ \E ok \in BOOLEAN : SendResult(ok)
    /\ mpc' = "keep"
    /\ i' = 0
    /\ UNCHANGED <<rem, timer, sema, quiet, connectedCycle>>

(* Step 2: up to 50 sends, 50 ms apart, ending at the first failure; then  *)
(* the 3 s wait for the crash.                                             *)
KeepSending ==
    /\ mpc = "keep"
    /\ rem = 0
    /\ IF i < KeepSends
       THEN \E ok \in BOOLEAN :
              /\ SendResult(ok)
              /\ IF ok /\ cstate = "connected"
                 THEN /\ i' = i + 1 /\ rem' = KeepGap
                      /\ UNCHANGED mpc
                 ELSE /\ mpc' = "crashwait" /\ rem' = CrashWait
                      /\ UNCHANGED i
       ELSE /\ mpc' = "crashwait" /\ rem' = CrashWait
            /\ UNCHANGED <<i, cstate>>
    /\ UNCHANGED <<timer, sema, quiet, connectedCycle>>

(* esp_websocket_client_stop(), then vTaskDelay(3000).                     *)
StopClient ==
    /\ mpc = "crashwait"
    /\ rem = 0
    /\ cstate' = "stopped"
    /\ mpc' = "stopwait"
    /\ rem' = StopWait
    /\ UNCHANGED <<i, timer, sema, quiet, connectedCycle>>

(* xSemaphoreTake(shutdown_sema, 0): a given semaphore ends the loop and   *)
(* the client is destroyed; otherwise the next cycle begins.               *)
CheckShutdown ==
    /\ mpc = "stopwait"
    /\ rem = 0
    /\ mpc' = IF sema THEN "end" ELSE "top"
    /\ sema' = FALSE
    /\ UNCHANGED <<rem, i, timer, cstate, quiet, connectedCycle>>

-----------------------------------------------------------------------------
(* The client task and its event handler.                                  *)

(* The connection attempt ends: handshake done, or failed (auto-reconnect  *)
(* is disabled, line 271).                                                 *)
Connect ==
    /\ cstate = "connecting"
    /\ cstate' \in {"connected", "closed"}
    /\ UNCHANGED <<mpc, rem, i, timer, sema, quiet, connectedCycle>>

(* WEBSOCKET_EVENT_DATA: the handler calls xTimerReset(), which restarts   *)
(* the timer, dormant or not.                                              *)
Data ==
    /\ cstate = "connected"
    /\ mpc # "end"
    /\ timer' = TimerPeriod
    /\ quiet' = FALSE
    /\ UNCHANGED <<mpc, rem, i, sema, cstate, connectedCycle>>

(* The server closes the connection or goes away.                          *)
PeerClose ==
    /\ cstate = "connected"
    /\ cstate' = "closed"
    /\ UNCHANGED <<mpc, rem, i, timer, sema, quiet, connectedCycle>>

-----------------------------------------------------------------------------

Main == StartCycle \/ Tick \/ AfterConnectWait \/ AfterRetryWait \/ HelloSend
        \/ Flood \/ KeepSending \/ StopClient \/ CheckShutdown

Next == Main \/ Connect \/ Data \/ PeerClose

(* The main task runs whenever it is not delayed, and delays end; a        *)
(* connection attempt ends (it succeeds or times out).  Data and the       *)
(* peer's close are up to the server.                                      *)
Spec == Init /\ [][Next]_vars /\ WF_vars(Main) /\ WF_vars(Connect)

-----------------------------------------------------------------------------
(* Properties.                                                              *)

(* The application shuts down when no data arrives: once the server sends  *)
(* nothing more, the main loop eventually ends and destroys the client     *)
(* (shutdown_signaler, lines 101-105, "No data received for 10 seconds,   *)
(* signaling shutdown", and the check at lines 368-371).                  *)
NoDataShutdown == (<>[][~Data]_vars) => <>(mpc = "end")

(* A connected cycle without data in which all 50 sends of step 2 succeed  *)
(* finds the shutdown signal at its check: 3 s + 3 x 200 ms + 50 x 50 ms   *)
(* + 3 s + 3 s of delays outlast the 10 s timer (lines 339-369).          *)
FullQuietCycleSignalled ==
    (mpc = "stopwait" /\ rem = 0 /\ connectedCycle /\ quiet /\ i = KeepSends) => sema

=============================================================================
