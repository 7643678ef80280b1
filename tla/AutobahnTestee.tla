--------------------------- MODULE AutobahnTestee ---------------------------
(***************************************************************************)
(* The Autobahn testee of esp_websocket_client                             *)
(* (examples/autobahn-testsuite/testee/main/autobahn_testee.c): the echo   *)
(* event handler with its global reassembly accumulator, driven by         *)
(*   - the websocket client's event source (connect, one DATA event per    *)
(*     transport-level chunk of a frame, error, disconnect, finish), which *)
(*     lives in esp_websocket_client.c outside this repository and is      *)
(*     modelled from spec.md sections 4.3-4.4 and 5, and                   *)
(*   - the main task, which runs the test cases one after another          *)
(*     (run_test_case, websocket_app_start).                               *)
(*                                                                         *)
(* Data is abstracted to provenance: a payload byte is the identifier of   *)
(* the frame it was read from (0 for a byte never written), so a check on  *)
(* an echoed payload says whether every byte came from the right frame.    *)
(* The client dispatches events synchronously on its own task, so one      *)
(* client step together with the handler call it makes is one action.     *)
(***************************************************************************)
EXTENDS Naturals, Sequences

CONSTANTS
    MaxFrag,        \* MAX_FRAGMENTED_PAYLOAD: capacity of the accumulator
    BufSize,        \* BUFFER_SIZE: the client's read buffer, the largest chunk
    MaxLen,         \* largest frame payload the peer sends
    MaxFrames,      \* frames the peer sends over a whole run
    MaxConns,       \* connection attempts of one client (auto-reconnect)
    NumCases,       \* END_CASE - START_CASE + 1
    MallocCanFail   \* whether malloc(MAX_FRAGMENTED_PAYLOAD) may return NULL

ASSUME Assumptions ==
    /\ MaxFrag \in Nat \ {0}
    /\ BufSize \in Nat \ {0}
    /\ MaxLen \in Nat
    /\ MaxFrames \in Nat
    /\ MaxConns \in Nat
    /\ NumCases \in Nat \ {0}
    /\ MallocCanFail \in BOOLEAN

\* Opcodes as the handler compares them (data->op_code).
CONT == 0
TEXT == 1
BIN  == 2
PING == 9
DataOps == {CONT, TEXT, BIN}
Ops == DataOps \cup {PING}

\* Client states: no client, connecting, connected, aborted by a failed send
\* (its error events still to come), waiting to reconnect.
CStates == {"none", "connecting", "connected", "aborted", "waiting"}
\* Main task: about to run a case, waiting for test_done_sem, stopping the
\* client, updating reports, done.
MStates == {"idle", "waiting", "stopping", "reports", "done"}

VARIABLES
    acc,          \* s_accumulator (without its buffer pointer)
    bytes,        \* contents of s_accum_buffer, by provenance
    allocated,    \* s_accum_buffer # NULL
    test_running, \* test_running
    sem,          \* test_done_sem (binary semaphore) is given
    echoed,       \* messages sent back: [id, op, data]
    cstate,       \* the client's connection state               (spec)
    frame,        \* the frame whose payload is being delivered  (spec)
    frames,       \* every frame the peer has sent: [op, fin, len] (history)
    inMsg,        \* the peer is inside a fragmented message     (spec)
    attempts,     \* connection attempts of the current client   (spec)
    mpc,          \* main task's place
    caseNo        \* the case main runs next

vars == <<acc, bytes, allocated, test_running, sem, echoed,
          cstate, frame, frames, inMsg, attempts, mpc, caseNo>>

NoFrame == [id |-> 0, op |-> CONT, fin |-> FALSE, len |-> 0, off |-> 0]

MallocResults == IF MallocCanFail THEN BOOLEAN ELSE {TRUE}

-----------------------------------------------------------------------------
(* The accumulator: ws_accumulator_reset and ws_accumulator_prepare.       *)

ResetAcc == [expected_len |-> 0, received |-> 0, opcode |-> CONT, active |-> FALSE]

\* ws_accumulator_cleanup: reset, and free the buffer.
Cleanup ==
    /\ allocated' = FALSE
    /\ acc' = ResetAcc

Prepared(total, op) ==
    [expected_len |-> total, received |-> 0, opcode |-> op, active |-> TRUE]

\* A plausible fault: ws_accumulator_prepare without its size limit.
BeginNoLimit(ev, total, a) ==
    IF ev.offset = 0 \/ ~a.active THEN [acc |-> Prepared(total, ev.op), go |-> TRUE]
    ELSE IF total # a.expected_len THEN [acc |-> Prepared(total, ev.op), go |-> TRUE]
    ELSE [acc |-> a, go |-> TRUE]

\* A plausible fault: the size limit compared with >= instead of >.
BeginRejectFull(ev, total, a) ==
    IF ev.offset = 0 \/ ~a.active
    THEN IF total < MaxFrag THEN [acc |-> Prepared(total, ev.op), go |-> TRUE]
                           ELSE [acc |-> a, go |-> FALSE]
    ELSE IF total # a.expected_len
    THEN IF total < MaxFrag THEN [acc |-> Prepared(total, ev.op), go |-> TRUE]
                           ELSE [acc |-> ResetAcc, go |-> FALSE]
    ELSE [acc |-> a, go |-> TRUE]

\* The accumulator after lines 240-252 of the handler, and whether the
\* handler goes on with the chunk: a first chunk (or any chunk while nothing
\* accumulates) prepares a new message, a chunk announcing another total
\* length resets and prepares; a failed prepare ends the handler, leaving
\* the accumulator as it was on the first path and reset on the second.
Begin(ev, total, a) ==
    IF ev.offset = 0 \/ ~a.active
    THEN IF total <= MaxFrag THEN [acc |-> Prepared(total, ev.op), go |-> TRUE]
                            ELSE [acc |-> a, go |-> FALSE]
    ELSE IF total # a.expected_len
    THEN IF total <= MaxFrag THEN [acc |-> Prepared(total, ev.op), go |-> TRUE]
                            ELSE [acc |-> ResetAcc, go |-> FALSE]
    ELSE [acc |-> a, go |-> TRUE]

\* A plausible fault: memcpy to s_accumulator.buffer, forgetting the offset.
WriteAtStart(b, off, n, id) ==
    [p \in DOMAIN b |-> IF p < n THEN id ELSE b[p]]

\* memcpy(s_accumulator.buffer + offset, data_ptr, data_len)
Write(b, off, n, id) ==
    [p \in DOMAIN b |-> IF off <= p /\ p < off + n THEN id ELSE b[p]]

\* Lines 254-302 for a chunk the accumulator accepted: reject a chunk that
\* overflows the capacity or the expected length, else copy it, and report
\* the message complete when the bytes reach the expected length.
Chunk(ev, a) ==
    LET end == ev.offset + ev.data_len
        b   == Write(bytes, ev.offset, ev.data_len, ev.id)
    IN  IF end > MaxFrag \/ end > a.expected_len
        THEN [acc |-> ResetAcc, bytes |-> bytes, done |-> FALSE]
        ELSE IF end < a.expected_len
        THEN [acc |-> [a EXCEPT !.received = end], bytes |-> b, done |-> FALSE]
        ELSE [acc |-> [a EXCEPT !.received = end, !.active = FALSE],
              bytes |-> b, done |-> TRUE]

-----------------------------------------------------------------------------
(* The event handler, websocket_event_handler, one operator per event.     *)

\* WEBSOCKET_EVENT_CONNECTED
OnConnected ==
    /\ test_running' = TRUE
    /\ UNCHANGED <<acc, sem>>

\* WEBSOCKET_EVENT_DISCONNECTED: stop the test, reset the accumulator (the
\* buffer is kept for the next case) and wake the main task.
OnDisconnected ==
    /\ test_running' = FALSE
    /\ acc' = ResetAcc
    /\ sem' = TRUE

\* A plausible fault: the disconnect handler forgets the accumulator.
OnErrorNoReset ==
    /\ test_running' = FALSE
    /\ sem' = TRUE
    /\ UNCHANGED acc

\* WEBSOCKET_EVENT_ERROR: the same as DISCONNECTED. The client follows it
\* with DISCONNECTED, whose effect is then the same again.
OnError ==
    /\ test_running' = FALSE
    /\ acc' = ResetAcc
    /\ sem' = TRUE

\* WEBSOCKET_EVENT_FINISH: the same again.
OnFinish ==
    /\ test_running' = FALSE
    /\ acc' = ResetAcc
    /\ sem' = TRUE

\* The echo loop (lines 304-390): send until the send succeeds or the
\* connection is gone. The retries with backoff are internal to the loop;
\* what the rest of the system can see is that the message was sent, or that
\* a send failed hard and the client aborted the connection.
Echo(op, data, id) ==
    \/ /\ echoed' = Append(echoed, [id |-> id, op |-> op, data |-> data])
       /\ UNCHANGED cstate
    \/ /\ cstate' = "aborted"
       /\ UNCHANGED echoed

\* WEBSOCKET_EVENT_DATA for a chunk ev of a frame, with mallocOk the outcome
\* of the on-demand allocation at line 233. The branches of lines 175-179
\* (not connected) and 196-199 (an opcode other than 0, 1, 2) cannot be
\* taken: the client delivers DATA only when connected, after CONNECTED
\* (see Inv), and never with a reserved opcode.
OnData(ev, mallocOk) ==
    LET total == IF ev.payload_len # 0 THEN ev.payload_len ELSE ev.data_len
        fragmented == \/ ev.payload_len > 0 /\ ev.payload_len > ev.data_len
                      \/ ev.offset > 0
    IN  \/ /\ ev.op >= 8                       \* control frame: nothing to do
           /\ UNCHANGED <<acc, bytes, allocated, echoed, cstate>>
        \/ /\ ev.op \in DataOps
           /\ ~(fragmented /\ total > 0)        \* echo the chunk as it is
           /\ Echo(ev.op, [j \in 1..ev.data_len |-> ev.id], ev.id)
           /\ UNCHANGED <<acc, bytes, allocated>>
        \/ /\ ev.op \in DataOps
           /\ fragmented /\ total > 0
           /\ ~allocated /\ ~mallocOk           \* no buffer: skip the chunk
           /\ UNCHANGED <<acc, bytes, allocated, echoed, cstate>>
        \/ /\ ev.op \in DataOps
           /\ fragmented /\ total > 0
           /\ allocated \/ mallocOk
           /\ allocated' = TRUE
           /\ LET b == Begin(ev, total, acc)
                  c == Chunk(ev, b.acc)
              IN  IF b.go
                  THEN /\ acc' = c.acc
                       /\ bytes' = c.bytes
                       /\ IF c.done
                          THEN Echo(c.acc.opcode,
                                    [j \in 1..c.acc.expected_len |-> c.bytes[j - 1]],
                                    ev.id)
                          ELSE UNCHANGED <<echoed, cstate>>
                  ELSE /\ acc' = b.acc
                       /\ UNCHANGED <<bytes, echoed, cstate>>

-----------------------------------------------------------------------------
(* The websocket client, from spec.md (esp_websocket_client.c is not part  *)
(* of this repository).                                                    *)

\* The DATA event for the next n bytes of frame f: payload_len is the total
\* frame length on every chunk, fin is set on the last chunk only.
ChunkEvent(f, n) ==
    [op |-> f.op, data_len |-> n, fin |-> f.fin /\ f.off + n = f.len,
     payload_len |-> f.len, offset |-> f.off, id |-> f.id]

\* A read returns between one byte and a buffer's worth of what is left.
ChunkSizes(f) ==
    IF f.off = f.len THEN {0}
    ELSE 1..(IF f.len - f.off < BufSize THEN f.len - f.off ELSE BufSize)

\* The client has a new connection and dispatches CONNECTED.
ClientConnect ==
    /\ cstate = "connecting"
    /\ attempts < MaxConns
    /\ cstate' = "connected"
    /\ attempts' = attempts + 1
    /\ inMsg' = FALSE
    /\ OnConnected
    /\ UNCHANGED <<bytes, allocated, echoed, frame, frames, mpc, caseNo>>

\* The connection cannot be made: ERROR, DISCONNECTED, then wait to retry.
ClientConnectFail ==
    /\ cstate = "connecting"
    /\ attempts < MaxConns
    /\ cstate' = "waiting"
    /\ attempts' = attempts + 1
    /\ OnError
    /\ UNCHANGED <<bytes, allocated, echoed, frame, frames, inMsg, mpc, caseNo>>

\* Auto-reconnect after reconnect_timeout_ms.
ClientReconnect ==
    /\ cstate = "waiting"
    /\ attempts < MaxConns
    /\ cstate' = "connecting"
    /\ UNCHANGED <<acc, bytes, allocated, test_running, sem, echoed,
                   frame, frames, inMsg, attempts, mpc, caseNo>>

\* The client reads the header of the peer's next frame: a data frame that
\* starts or continues a message, or a ping between frames.
ClientStartFrame ==
    /\ cstate = "connected"
    /\ frame.id = 0
    /\ Len(frames) < MaxFrames
    /\ \/ \E op \in (IF inMsg THEN {CONT} ELSE {TEXT, BIN}),
             fin \in BOOLEAN, len \in 0..MaxLen :
            /\ frame' = [id |-> Len(frames) + 1, op |-> op, fin |-> fin,
                         len |-> len, off |-> 0]
            /\ inMsg' = ~fin
       \/ \E len \in 0..(IF MaxLen < 1 THEN MaxLen ELSE 1) :
            /\ frame' = [id |-> Len(frames) + 1, op |-> PING, fin |-> TRUE,
                         len |-> len, off |-> 0]
            /\ UNCHANGED inMsg
    /\ frames' = Append(frames, [op |-> frame'.op, fin |-> frame'.fin,
                                 len |-> frame'.len])
    /\ UNCHANGED <<acc, bytes, allocated, test_running, sem, echoed,
                   cstate, attempts, mpc, caseNo>>

\* The client reads the next chunk of the frame and dispatches DATA.
ClientDeliver ==
    /\ cstate = "connected"
    /\ frame.id # 0
    /\ \E n \in ChunkSizes(frame), mallocOk \in MallocResults :
          /\ frame' = IF frame.off + n = frame.len THEN NoFrame
                      ELSE [frame EXCEPT !.off = @ + n]
          /\ OnData(ChunkEvent(frame, n), mallocOk)
    /\ UNCHANGED <<test_running, sem, frames, inMsg, attempts, mpc, caseNo>>

\* The peer closes the connection: DISCONNECTED, then wait to reconnect.
ClientPeerClose ==
    /\ cstate = "connected"
    /\ cstate' = "waiting"
    /\ frame' = NoFrame
    /\ OnDisconnected
    /\ UNCHANGED <<bytes, allocated, echoed, frames, inMsg, attempts, mpc, caseNo>>

\* A transport failure, or the abort after a failed send: ERROR and
\* DISCONNECTED, then wait to reconnect.
ClientFail ==
    /\ cstate \in {"connected", "aborted"}
    /\ cstate' = "waiting"
    /\ frame' = NoFrame
    /\ OnError
    /\ UNCHANGED <<bytes, allocated, echoed, frames, inMsg, attempts, mpc, caseNo>>

-----------------------------------------------------------------------------
(* The main task: websocket_app_start and run_test_case.                   *)

\* Allocate the accumulator buffer if it is missing, create and start the
\* client with a fresh semaphore.
MainRunCase ==
    /\ mpc = "idle"
    /\ \E ok \in MallocResults : allocated' = (allocated \/ ok)
    /\ cstate' = "connecting"
    /\ attempts' = 0
    /\ sem' = FALSE
    /\ mpc' = "waiting"
    /\ UNCHANGED <<acc, bytes, test_running, echoed, frame, frames, inMsg, caseNo>>

\* esp_websocket_client_init or esp_websocket_client_start fails: the case
\* returns at once (after the same attempt to allocate the buffer), no event
\* is dispatched, and the loop goes on with the next case.
MainCaseNotStarted ==
    /\ mpc = "idle"
    /\ \E ok \in MallocResults : allocated' = (allocated \/ ok)
    /\ caseNo' = caseNo + 1
    /\ mpc' = IF caseNo = NumCases THEN "reports" ELSE "idle"
    /\ UNCHANGED <<acc, bytes, test_running, sem, echoed, cstate, frame, frames,
                   inMsg, attempts>>

\* Wait on test_done_sem for up to 60 s.
MainWake ==
    /\ mpc = "waiting"
    /\ \/ sem /\ sem' = FALSE         \* the handler gave the semaphore
       \/ UNCHANGED sem               \* timeout
    /\ mpc' = "stopping"
    /\ UNCHANGED <<acc, bytes, allocated, test_running, echoed,
                   cstate, frame, frames, inMsg, attempts, caseNo>>

\* Stop the client if it is connected, then destroy it. Stopping ends the
\* connection (DISCONNECTED) and the client task (FINISH); destroying a
\* client whose task still runs stops it (FINISH). Both events have the
\* effect of OnFinish.
MainStopDestroy ==
    /\ mpc = "stopping"
    /\ OnFinish
    /\ cstate' = "none"
    /\ frame' = NoFrame
    /\ inMsg' = FALSE
    /\ caseNo' = caseNo + 1
    /\ mpc' = IF caseNo = NumCases THEN "reports" ELSE "idle"
    /\ UNCHANGED <<bytes, allocated, echoed, frames, attempts>>

\* update_reports (a client with no handler) and ws_accumulator_cleanup.
MainReports ==
    /\ mpc = "reports"
    /\ Cleanup
    /\ mpc' = "done"
    /\ UNCHANGED <<bytes, test_running, sem, echoed, cstate, frame, frames,
                   inMsg, attempts, caseNo>>

\* The program has returned.
Terminated ==
    /\ mpc = "done"
    /\ UNCHANGED vars

-----------------------------------------------------------------------------

Init ==
    /\ acc = ResetAcc
    /\ bytes = [p \in 0..(MaxFrag - 1) |-> 0]
    /\ allocated \in MallocResults        \* the early malloc in main
    /\ test_running = FALSE
    /\ sem = FALSE
    /\ echoed = <<>>
    /\ cstate = "none"
    /\ frame = NoFrame
    /\ frames = <<>>
    /\ inMsg = FALSE
    /\ attempts = 0
    /\ mpc = "idle"
    /\ caseNo = 1

Next ==
    \/ ClientConnect \/ ClientConnectFail \/ ClientReconnect
    \/ ClientStartFrame \/ ClientDeliver \/ ClientPeerClose \/ ClientFail
    \/ MainRunCase \/ MainCaseNotStarted \/ MainWake \/ MainStopDestroy \/ MainReports
    \/ Terminated

Spec == Init /\ [][Next]_vars

-----------------------------------------------------------------------------
(* Properties.                                                             *)

FrameRec == [id : 0..MaxFrames, op : Ops, fin : BOOLEAN, len : 0..MaxLen,
             off : 0..MaxLen]
EchoRec  == [id : 1..MaxFrames, op : DataOps, data : Seq(0..MaxFrames)]

\* Every variable holds a value of its type.
TypeOK ==
    /\ acc \in [expected_len : 0..MaxFrag, received : 0..MaxFrag,
                opcode : DataOps, active : BOOLEAN]
    /\ bytes \in [0..(MaxFrag - 1) -> 0..MaxFrames]
    /\ allocated \in BOOLEAN
    /\ test_running \in BOOLEAN
    /\ sem \in BOOLEAN
    /\ echoed \in Seq(EchoRec)
    /\ cstate \in CStates
    /\ frame \in FrameRec
    /\ frames \in Seq([op : Ops, fin : BOOLEAN, len : 0..MaxLen])
    /\ Len(frames) <= MaxFrames
    /\ inMsg \in BOOLEAN
    /\ attempts \in 0..MaxConns
    /\ mpc \in MStates
    /\ caseNo \in 1..(NumCases + 1)

\* The accumulator follows the frame being delivered: while it is active
\* the client is connected and in the middle of a frame, the accumulator
\* expects that frame's length and has received exactly the bytes the client
\* has delivered. The global accumulator is shared by all connections and
\* all test cases; this says no accumulation outlives the frame, the
\* connection or the case it belongs to, and (first conjunct) that DATA is
\* never seen before CONNECTED, so the branch at lines 175-179 is dead.
AccTracksFrame ==
    /\ cstate = "connected" => test_running
    /\ acc.active =>
          /\ cstate = "connected"
          /\ frame.id # 0
          /\ acc.expected_len = frame.len
          /\ acc.received = frame.off
          /\ frame.off < frame.len

\* Every echoed message is the payload of one frame, whole: its length is the
\* frame's length and every byte was read from that frame (for a frame
\* delivered in several chunks, from the accumulator).
EchoFaithful ==
    \A i \in 1..Len(echoed) :
        LET e == echoed[i] IN
        /\ e.op = frames[e.id].op
        /\ e.data = [j \in 1..frames[e.id].len |-> e.id]

\* The last chunk of a data frame that fits in the accumulator is echoed in
\* the same handler call, unless the echo aborted the connection or no
\* accumulator buffer could be allocated.
FrameCompleted ==
    /\ frame.id # 0
    /\ frame'.id = 0
    /\ cstate' \in {"connected", "aborted"}
EchoesEveryFittingFrame ==
    [][ FrameCompleted /\ frame.op \in DataOps /\ frame.len <= MaxFrag =>
          \/ /\ Len(echoed') = Len(echoed) + 1
             /\ echoed'[Len(echoed')].id = frame.id
          \/ cstate' = "aborted"
          \/ ~allocated' ]_vars

=============================================================================
