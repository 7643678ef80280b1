------------------------ MODULE AutobahnTesteeProofs ------------------------
(***************************************************************************)
(* Proofs that every behaviour of AutobahnTestee keeps its variables typed *)
(* and keeps the accumulator in step with the frame being delivered       *)
(* (AccTracksFrame), for every value of the constants.                     *)
(***************************************************************************)
EXTENDS AutobahnTestee, TLAPS

\* The inductive strengthening of TypeOK /\ AccTracksFrame. Besides the two,
\* it records why the accumulator cannot be left behind:
\*  - a frame is being delivered only while connected, and never past its end;
\*  - an active accumulator has received at least one byte (so a chunk at
\*    offset 0 never meets it), belongs to a data frame (a ping never touches
\*    it) and has its buffer;
\*  - between cases there is no client, and a case is running only while
\*    cases are left.
IInv ==
    /\ TypeOK
    /\ AccTracksFrame
    /\ frame.id # 0 => /\ cstate = "connected"
                       /\ frame.off <= frame.len
    /\ acc.active => /\ acc.received > 0
                     /\ frame.op \in DataOps
                     /\ allocated
    /\ mpc \in {"idle", "reports", "done"} => cstate = "none"
    /\ mpc \in {"idle", "waiting", "stopping"} => caseNo <= NumCases

\* The type of the accumulator, as TypeOK states it.
AccRec == [expected_len : 0..MaxFrag, received : 0..MaxFrag,
           opcode : DataOps, active : BOOLEAN]

-----------------------------------------------------------------------------
(* Lemmas about the operators of the model.                                *)

\* The bytes copied by a chunk stay in the buffer's type.
LEMMA WriteType ==
    ASSUME NEW b \in [0..(MaxFrag - 1) -> 0..MaxFrames],
           NEW off \in Nat, NEW n \in Nat, NEW id \in 0..MaxFrames
    PROVE  Write(b, off, n, id) \in [0..(MaxFrag - 1) -> 0..MaxFrames]
BY DEF Write

\* A payload read out of the buffer, or made of one frame's bytes, is a
\* sequence of frame identifiers.
LEMMA BufPayloadType ==
    ASSUME NEW b \in [0..(MaxFrag - 1) -> 0..MaxFrames], NEW k \in 0..MaxFrag
    PROVE  [j \in 1..k |-> b[j - 1]] \in Seq(0..MaxFrames)
<1>1. [j \in 1..k |-> b[j - 1]] \in [1..k -> 0..MaxFrames]
  BY Assumptions
<1>2. QED
  BY <1>1

\* A payload of m bytes all read from one frame is a sequence of identifiers.
LEMMA FramePayloadType ==
    ASSUME NEW id \in 0..MaxFrames, NEW m \in Nat
    PROVE  [j \in 1..m |-> id] \in Seq(0..MaxFrames)
<1>1. [j \in 1..m |-> id] \in [1..m -> 0..MaxFrames]
  OBVIOUS
<1>2. QED
  BY <1>1

\* Appending an echo record keeps the sequence of echoes typed.
LEMMA EchoType ==
    ASSUME NEW s \in Seq(EchoRec), NEW id \in 1..MaxFrames,
           NEW op \in DataOps, NEW d \in Seq(0..MaxFrames)
    PROVE  Append(s, [id |-> id, op |-> op, data |-> d]) \in Seq(EchoRec)
BY DEF EchoRec

-----------------------------------------------------------------------------
(* The invariant holds initially and is preserved by every action.         *)

\* The program starts (main, before the first case) in a state of IInv.
LEMMA InitIInv == Init => IInv
<1> SUFFICES ASSUME Init PROVE IInv
  OBVIOUS
<1>1. TypeOK
  <2>1. acc \in [expected_len : 0..MaxFrag, received : 0..MaxFrag,
                 opcode : DataOps, active : BOOLEAN]
    BY Assumptions DEF Init, ResetAcc, DataOps, CONT
  <2>2. bytes \in [0..(MaxFrag - 1) -> 0..MaxFrames]
    BY Assumptions DEF Init
  <2>3. allocated \in BOOLEAN
    BY Assumptions DEF Init, MallocResults
  <2>4. frame \in FrameRec
    BY Assumptions DEF Init, NoFrame, FrameRec, Ops, DataOps, CONT
  <2>5. echoed \in Seq(EchoRec) /\ frames \in Seq([op : Ops, fin : BOOLEAN, len : 0..MaxLen])
    BY DEF Init
  <2>6. QED
    BY <2>1, <2>2, <2>3, <2>4, <2>5, Assumptions DEF Init, TypeOK, CStates, MStates
<1>2. AccTracksFrame
  BY DEF Init, AccTracksFrame, ResetAcc
<1>3. QED
  BY <1>1, <1>2, Assumptions DEF Init, IInv, ResetAcc, NoFrame

\* The reset accumulator and the empty frame are typed.
LEMMA ResetNoFrameType ==
    /\ ResetAcc \in [expected_len : 0..MaxFrag, received : 0..MaxFrag,
                     opcode : DataOps, active : BOOLEAN]
    /\ NoFrame \in FrameRec
BY Assumptions DEF ResetAcc, NoFrame, FrameRec, DataOps, Ops, CONT

-----------------------------------------------------------------------------
\* The actions other than ClientDeliver change the accumulator only by
\* resetting it, and they move the client out of "connected" only together
\* with such a reset or with no frame under way. Each proof gives the
\* arithmetic and the new values' types first; the rest is propositional.
LEMMA ConnectIInv == IInv /\ ClientConnect => IInv'
<1> SUFFICES ASSUME IInv, ClientConnect PROVE IInv'
  OBVIOUS
<1>1. attempts' \in 0..MaxConns /\ cstate' \in CStates
  BY Assumptions DEF IInv, TypeOK, ClientConnect, CStates
<1>2. TypeOK'
  BY <1>1, Zenon DEF TypeOK, IInv, ClientConnect, OnConnected
<1>3. QED
  BY <1>2, Zenon DEF IInv, AccTracksFrame, ClientConnect, OnConnected

\* A failed connection attempt (ERROR, DISCONNECTED) resets the accumulator.
LEMMA ConnectFailIInv == IInv /\ ClientConnectFail => IInv'
<1> SUFFICES ASSUME IInv, ClientConnectFail PROVE IInv'
  OBVIOUS
<1>1. attempts' \in 0..MaxConns /\ cstate' \in CStates
  BY Assumptions DEF IInv, TypeOK, ClientConnectFail, CStates
<1>2. TypeOK'
  BY <1>1, ResetNoFrameType, Zenon DEF TypeOK, IInv, ClientConnectFail, OnError
<1>3. QED
  BY <1>2, Zenon DEF IInv, AccTracksFrame, ClientConnectFail, OnError, ResetAcc

\* The auto-reconnect timer touches nothing the handler owns.
LEMMA ReconnectIInv == IInv /\ ClientReconnect => IInv'
<1> SUFFICES ASSUME IInv, ClientReconnect PROVE IInv'
  OBVIOUS
<1>1. TypeOK'
  BY Zenon DEF TypeOK, IInv, ClientReconnect, CStates
<1>2. QED
  BY <1>1, Zenon DEF IInv, AccTracksFrame, ClientReconnect

\* A new frame header arrives only with no accumulation under way.
LEMMA StartFrameIInv == IInv /\ ClientStartFrame => IInv'
<1> SUFFICES ASSUME IInv, ClientStartFrame PROVE IInv'
  OBVIOUS
<1>1. ~acc.active /\ Len(frames) < MaxFrames /\ cstate = "connected"
  BY DEF IInv, AccTracksFrame, ClientStartFrame
<1>2. /\ frame' \in FrameRec /\ frame'.id # 0 /\ frame'.off <= frame'.len
      /\ frame'.id = Len(frames) + 1 /\ inMsg' \in BOOLEAN
  <2>1. CASE \E op \in (IF inMsg THEN {CONT} ELSE {TEXT, BIN}),
                fin \in BOOLEAN, len \in 0..MaxLen :
               /\ frame' = [id |-> Len(frames) + 1, op |-> op, fin |-> fin,
                            len |-> len, off |-> 0]
               /\ inMsg' = ~fin
    <3>1. PICK op \in (IF inMsg THEN {CONT} ELSE {TEXT, BIN}),
               fin \in BOOLEAN, len \in 0..MaxLen :
               /\ frame' = [id |-> Len(frames) + 1, op |-> op, fin |-> fin,
                            len |-> len, off |-> 0]
               /\ inMsg' = ~fin
      BY <2>1
    <3>2. op \in Ops
      BY DEF Ops, DataOps
    <3>3. QED
      BY <1>1, <3>1, <3>2, Assumptions DEF IInv, TypeOK, FrameRec
  <2>2. CASE \E len \in 0..(IF MaxLen < 1 THEN MaxLen ELSE 1) :
               /\ frame' = [id |-> Len(frames) + 1, op |-> PING, fin |-> TRUE,
                            len |-> len, off |-> 0]
               /\ UNCHANGED inMsg
    <3>1. PICK len \in 0..(IF MaxLen < 1 THEN MaxLen ELSE 1) :
               /\ frame' = [id |-> Len(frames) + 1, op |-> PING, fin |-> TRUE,
                            len |-> len, off |-> 0]
               /\ UNCHANGED inMsg
      BY <2>2
    <3>2. PING \in Ops
      BY DEF Ops
    <3>3. QED
      BY <1>1, <3>1, <3>2, Assumptions DEF IInv, TypeOK, FrameRec
  <2>3. QED
    BY <2>1, <2>2 DEF ClientStartFrame
<1>3. frames' \in Seq([op : Ops, fin : BOOLEAN, len : 0..MaxLen])
      /\ Len(frames') <= MaxFrames
  BY <1>1, <1>2, Assumptions DEF IInv, TypeOK, ClientStartFrame, FrameRec
<1>4. TypeOK'
  BY <1>2, <1>3, Zenon DEF TypeOK, IInv, ClientStartFrame
<1>5. QED
  BY <1>1, <1>2, <1>4, Zenon DEF IInv, AccTracksFrame, ClientStartFrame

\* A peer close (DISCONNECTED) resets the accumulator and drops the frame.
LEMMA PeerCloseIInv == IInv /\ ClientPeerClose => IInv'
<1> SUFFICES ASSUME IInv, ClientPeerClose PROVE IInv'
  OBVIOUS
<1>1. cstate' \in CStates
  BY DEF ClientPeerClose, CStates
<1>2. TypeOK'
  BY <1>1, ResetNoFrameType, Zenon DEF TypeOK, IInv, ClientPeerClose, OnDisconnected
<1>3. QED
  BY <1>2, Zenon DEF IInv, AccTracksFrame, ClientPeerClose, OnDisconnected,
                     ResetAcc, NoFrame

\* A transport failure or an abort (ERROR) resets the accumulator.
LEMMA FailIInv == IInv /\ ClientFail => IInv'
<1> SUFFICES ASSUME IInv, ClientFail PROVE IInv'
  OBVIOUS
<1>1. cstate' \in CStates /\ cstate \notin {"none"}
  BY DEF ClientFail, CStates
<1>2. TypeOK'
  BY <1>1, ResetNoFrameType, Zenon DEF TypeOK, IInv, ClientFail, OnError
<1>3. QED
  BY <1>1, <1>2, Zenon DEF IInv, AccTracksFrame, ClientFail, OnError,
                           ResetAcc, NoFrame

\* run_test_case starts a client only between cases, with no client left.
LEMMA RunCaseIInv == IInv /\ MainRunCase => IInv'
<1> SUFFICES ASSUME IInv, MainRunCase PROVE IInv'
  OBVIOUS
<1>1. /\ allocated' \in BOOLEAN /\ cstate' \in CStates
      /\ attempts' \in 0..MaxConns /\ mpc' \in MStates
  BY Assumptions DEF IInv, TypeOK, MainRunCase, MallocResults, CStates, MStates
<1>2. TypeOK'
  BY <1>1, Zenon DEF TypeOK, IInv, MainRunCase
<1>3. QED
  BY <1>2, Zenon DEF IInv, AccTracksFrame, MainRunCase

\* A case whose client cannot be started moves on with no client.
LEMMA NotStartedIInv == IInv /\ MainCaseNotStarted => IInv'
<1> SUFFICES ASSUME IInv, MainCaseNotStarted PROVE IInv'
  OBVIOUS
<1>1. /\ allocated' \in BOOLEAN /\ caseNo' \in 1..(NumCases + 1) /\ mpc' \in MStates
      /\ mpc' \in {"idle", "waiting", "stopping"} => caseNo' <= NumCases
  BY Assumptions DEF IInv, TypeOK, MainCaseNotStarted, MallocResults, MStates
<1>2. TypeOK'
  BY <1>1, Zenon DEF TypeOK, IInv, MainCaseNotStarted
<1>3. QED
  BY <1>1, <1>2, Zenon DEF IInv, AccTracksFrame, MainCaseNotStarted

\* The wake-up of the main task (semaphore or timeout) changes only its place.
LEMMA WakeIInv == IInv /\ MainWake => IInv'
<1> SUFFICES ASSUME IInv, MainWake PROVE IInv'
  OBVIOUS
<1>1. sem' \in BOOLEAN /\ mpc' \in MStates
  BY DEF IInv, TypeOK, MainWake, MStates
<1>2. TypeOK'
  BY <1>1, Zenon DEF TypeOK, IInv, MainWake
<1>3. QED
  BY <1>2, Zenon DEF IInv, AccTracksFrame, MainWake

\* Stopping and destroying the client (FINISH) resets the accumulator.
LEMMA StopDestroyIInv == IInv /\ MainStopDestroy => IInv'
<1> SUFFICES ASSUME IInv, MainStopDestroy PROVE IInv'
  OBVIOUS
<1>1. /\ caseNo' \in 1..(NumCases + 1) /\ mpc' \in MStates
      /\ cstate' \in CStates
      /\ mpc' \in {"idle", "waiting", "stopping"} => caseNo' <= NumCases
  BY Assumptions DEF IInv, TypeOK, MainStopDestroy, MStates, CStates
<1>2. TypeOK'
  BY <1>1, ResetNoFrameType, Zenon DEF TypeOK, IInv, MainStopDestroy, OnFinish
<1>3. QED
  BY <1>1, <1>2, Zenon DEF IInv, AccTracksFrame, MainStopDestroy, OnFinish,
                           ResetAcc, NoFrame

\* update_reports and ws_accumulator_cleanup run with no client.
LEMMA ReportsIInv == IInv /\ MainReports => IInv'
<1> SUFFICES ASSUME IInv, MainReports PROVE IInv'
  OBVIOUS
<1>1. mpc' \in MStates
  BY DEF MainReports, MStates
<1>2. TypeOK'
  BY <1>1, ResetNoFrameType, Zenon DEF TypeOK, IInv, MainReports, Cleanup
<1>3. QED
  BY <1>2, Zenon DEF IInv, AccTracksFrame, MainReports, Cleanup, ResetAcc

\* The finished program keeps its last state.
LEMMA TerminatedIInv == IInv /\ Terminated => IInv'
BY DEF IInv, TypeOK, AccTracksFrame, Terminated, vars

\* A stuttering step keeps IInv.
LEMMA StutterIInv == IInv /\ UNCHANGED vars => IInv'
BY DEF IInv, TypeOK, AccTracksFrame, vars

\* The step that matters: the client delivers a chunk and the handler
\* processes it. With the accumulator following the frame, a chunk never
\* fails the checks of lines 267-278, and the accumulator completes exactly
\* when the frame does.
LEMMA DeliverIInv == IInv /\ ClientDeliver => IInv'
<1> SUFFICES ASSUME IInv, ClientDeliver PROVE IInv'
  OBVIOUS
<1>1. PICK n \in ChunkSizes(frame), ok \in MallocResults :
          /\ frame' = IF frame.off + n = frame.len THEN NoFrame
                      ELSE [frame EXCEPT !.off = @ + n]
          /\ OnData(ChunkEvent(frame, n), ok)
  BY DEF ClientDeliver
<1> DEFINE ev == ChunkEvent(frame, n)
           total == IF ev.payload_len # 0 THEN ev.payload_len ELSE ev.data_len
           fragmented == \/ ev.payload_len > 0 /\ ev.payload_len > ev.data_len
                         \/ ev.offset > 0
           last == frame.off + n = frame.len
<1>2. /\ cstate = "connected" /\ test_running
      /\ frame \in FrameRec /\ frame.id \in 1..MaxFrames
      /\ frame.off <= frame.len
      /\ frame.off \in 0..MaxLen /\ frame.len \in 0..MaxLen
      /\ n \in Nat /\ frame.off + n <= frame.len
      /\ frame.off < frame.len => n >= 1
  <2>0. cstate = "connected" /\ frame.id # 0
    BY DEF ClientDeliver
  <2>1. /\ cstate = "connected" /\ test_running
        /\ frame \in FrameRec /\ frame.id \in 1..MaxFrames
        /\ frame.off <= frame.len
    <3>1. test_running /\ frame.off <= frame.len
      BY <2>0 DEF IInv, AccTracksFrame
    <3>2. frame \in FrameRec
      BY DEF IInv, TypeOK
    <3>3. frame.id \in 1..MaxFrames
      BY <2>0, <3>2 DEF FrameRec
    <3>4. QED
      BY <2>0, <3>1, <3>2, <3>3
  <2>2. frame.off \in 0..MaxLen /\ frame.len \in 0..MaxLen
    BY <2>1 DEF FrameRec
  <2>3. /\ n \in Nat /\ frame.off + n <= frame.len
        /\ frame.off < frame.len => n >= 1
    BY <2>1, <2>2, Assumptions DEF ChunkSizes
  <2>4. QED
    BY <2>1, <2>2, <2>3
<1>3. /\ ev.op = frame.op /\ ev.data_len = n /\ ev.payload_len = frame.len
      /\ ev.offset = frame.off /\ ev.id = frame.id
  BY DEF ChunkEvent
<1>4. UNCHANGED <<test_running, sem, frames, inMsg, attempts, mpc, caseNo>>
  BY DEF ClientDeliver
<1>5. /\ frame' \in FrameRec
      /\ last => frame'.id = 0
      /\ ~last => /\ frame'.id = frame.id /\ frame'.op = frame.op
                  /\ frame'.len = frame.len /\ frame'.off = frame.off + n
                  /\ frame'.off < frame'.len
  BY <1>1, <1>2, Assumptions DEF FrameRec, NoFrame, Ops, DataOps, CONT
<1>6. mpc \notin {"idle", "reports", "done"} /\ caseNo <= NumCases
  <2>1. mpc \in {"waiting", "stopping"}
    BY <1>2, Zenon DEF IInv, TypeOK, MStates
  <2>2. QED
    BY <2>1 DEF IInv
\* The facts every case ends with.
<1>7. ASSUME acc' \in [expected_len : 0..MaxFrag, received : 0..MaxFrag,
                       opcode : DataOps, active : BOOLEAN],
             bytes' \in [0..(MaxFrag - 1) -> 0..MaxFrames],
             allocated' \in BOOLEAN,
             echoed' \in Seq(EchoRec),
             cstate' \in {"connected", "aborted"},
             cstate' = "aborted" => last,
             acc'.active => /\ cstate' = "connected" /\ ~last
                            /\ acc'.expected_len = frame.len
                            /\ acc'.received = frame.off + n
                            /\ acc'.received > 0
                            /\ frame.op \in DataOps
                            /\ allocated'
      PROVE  IInv'
  <2>1. TypeOK'
    <3>1. cstate' \in CStates
      BY <1>7 DEF CStates
    <3>2. QED
      BY <3>1, <1>4, <1>5, <1>7, Zenon DEF TypeOK, IInv
  <2>2. AccTracksFrame'
    BY <1>2, <1>4, <1>5, <1>7 DEF AccTracksFrame
  <2>3. frame'.id # 0 => /\ cstate' = "connected"
                         /\ frame'.off <= frame'.len
    BY <1>2, <1>5, <1>7
  <2>4. mpc' \in {"idle", "reports", "done"} => cstate' = "none"
    BY <1>4, <1>6, <1>7
  <2>5. mpc' \in {"idle", "waiting", "stopping"} => caseNo' <= NumCases
    BY <1>4, <1>6
  <2>6. QED
    BY <2>1, <2>2, <2>3, <2>4, <2>5, <1>5, <1>7 DEF IInv
\* An echo leaves a typed sequence of echoes and a connected or aborted client.
<1>8. ASSUME NEW op \in DataOps, NEW d \in Seq(0..MaxFrames),
             Echo(op, d, ev.id)
      PROVE  echoed' \in Seq(EchoRec) /\ cstate' \in {"connected", "aborted"}
  <2>1. ev.id \in 1..MaxFrames /\ echoed \in Seq(EchoRec)
    BY <1>2, <1>3 DEF IInv, TypeOK
  <2>2. Append(echoed, [id |-> ev.id, op |-> op, data |-> d]) \in Seq(EchoRec)
    BY <2>1, EchoType
  <2>3. QED
    BY <2>1, <2>2, <1>2, <1>8, Zenon DEF Echo
<1>9. CASE ev.op >= 8
  <2>1. ~acc.active
    <3>1. frame.op \notin DataOps
      BY <1>3, <1>9 DEF DataOps, CONT, TEXT, BIN
    <3>2. QED
      BY <3>1 DEF IInv
  <2>2. UNCHANGED <<acc, bytes, allocated, echoed, cstate>>
    <3>1. ev.op \notin DataOps
      BY <1>9 DEF DataOps, CONT, TEXT, BIN
    <3>2. QED
      BY <3>1, <1>1, <1>9, Zenon DEF OnData
  <2>3. QED
    BY <2>1, <2>2, <1>2, <1>7, Zenon DEF IInv, TypeOK
<1>10. CASE ev.op \in DataOps /\ ~(fragmented /\ total > 0)
  <2>1. last /\ ~acc.active
    <3>1. frame.off = 0 /\ n = frame.len
      BY <1>2, <1>3, <1>10 DEF FrameRec
    <3>2. ~acc.active
      BY <3>1 DEF IInv, AccTracksFrame
    <3>3. QED
      BY <3>1, <3>2, <1>2
  <2>2. /\ Echo(ev.op, [j \in 1..ev.data_len |-> ev.id], ev.id)
        /\ UNCHANGED <<acc, bytes, allocated>>
    <3>1. ~(ev.op >= 8)
      BY <1>10 DEF DataOps, CONT, TEXT, BIN
    <3>2. QED
      BY <3>1, <1>1, <1>10, Zenon DEF OnData
  <2>3. echoed' \in Seq(EchoRec) /\ cstate' \in {"connected", "aborted"}
    <3>1. [j \in 1..ev.data_len |-> ev.id] \in Seq(0..MaxFrames)
      <4>1. ev.id \in 0..MaxFrames /\ ev.data_len \in Nat
        BY <1>2, <1>3
      <4>2. QED
        BY <4>1, FramePayloadType
    <3>2. QED
      BY <3>1, <2>2, <1>8, <1>10
  <2>4. QED
    BY <2>1, <2>2, <2>3, <1>2, <1>7, Zenon DEF IInv, TypeOK
<1>11. CASE ev.op \in DataOps /\ fragmented /\ total > 0 /\ ~allocated /\ ~ok
  <2>1. ~acc.active
    BY <1>11 DEF IInv
  <2>2. UNCHANGED <<acc, bytes, allocated, echoed, cstate>>
    BY <1>1, <1>11 DEF OnData
  <2>3. QED
    BY <2>1, <2>2, <1>2, <1>7 DEF IInv, TypeOK
<1>12. CASE ev.op \in DataOps /\ fragmented /\ total > 0 /\ (allocated \/ ok)
  <2> DEFINE b == Begin(ev, total, acc)
             c == Chunk(ev, b.acc)
  <2>1. /\ allocated' = TRUE
        /\ IF b.go
           THEN /\ acc' = c.acc
                /\ bytes' = c.bytes
                /\ IF c.done
                   THEN Echo(c.acc.opcode,
                             [j \in 1..c.acc.expected_len |-> c.bytes[j - 1]], ev.id)
                   ELSE UNCHANGED <<echoed, cstate>>
           ELSE /\ acc' = b.acc
                /\ UNCHANGED <<bytes, echoed, cstate>>
    <3>1. ~(ev.op >= 8) /\ ~(~allocated /\ ~ok)
      BY <1>12 DEF DataOps, CONT, TEXT, BIN
    <3>2. QED
      BY <3>1, <1>1, <1>12, Zenon DEF OnData
  <2>2. total = frame.len /\ frame.len > 0
    BY <1>2, <1>3, <1>12
  \* What Begin returns: the accumulator goes on with the current message, or
  \* starts this frame's, or (for a frame too large) stays inactive.
  <2>3. \/ b.go /\ b.acc = acc /\ acc.active
        \/ b.go /\ b.acc = Prepared(total, ev.op) /\ total <= MaxFrag
        \/ ~b.go /\ b.acc = acc /\ ~acc.active
    <3>1. CASE acc.active
      <4>1. acc.received = frame.off /\ acc.received > 0
            /\ acc.expected_len = frame.len
        BY <3>1, Zenon DEF IInv, AccTracksFrame
      <4>2. ev.offset # 0 /\ total = acc.expected_len
        BY SMTT(20), <4>1, <1>3, <2>2
      <4>3. QED
        BY <3>1, <4>2 DEF Begin
    <3>2. CASE ~acc.active
      BY <3>2 DEF Begin
    <3>3. QED
      BY SMTT(20), <3>1, <3>2
  <2>4. CASE b.go
    <3>1. /\ b.acc.active /\ b.acc.expected_len = frame.len
          /\ b.acc.expected_len <= MaxFrag /\ b.acc.opcode \in DataOps
      BY SMTT(20), <2>2, <2>3, <2>4, <1>2, <1>3, <1>12 DEF IInv, TypeOK, AccTracksFrame, Prepared
    <3>2. b.acc \in AccRec
      <4>1. CASE b.acc = acc
        BY <4>1, Zenon DEF IInv, TypeOK, AccRec
      <4>2. CASE b.acc = Prepared(total, ev.op) /\ total <= MaxFrag
        <5>1. total \in 0..MaxFrag /\ ev.op \in DataOps /\ 0 \in 0..MaxFrag
          BY <4>2, <2>2, <1>2, <1>12, Assumptions
        <5>2. Prepared(total, ev.op) \in AccRec
          BY <5>1, Zenon DEF Prepared, AccRec
        <5>3. QED
          BY <5>2, <4>2
      <4>3. QED
        BY <2>3, <2>4, <4>1, <4>2
    \* The chunk fits: it is copied, and completes the message when it is
    \* the frame's last.
    <3>3. /\ c.bytes = Write(bytes, frame.off, n, frame.id)
          /\ c.done = last
          /\ c.acc = IF last
                     THEN [b.acc EXCEPT !.received = frame.off + n, !.active = FALSE]
                     ELSE [b.acc EXCEPT !.received = frame.off + n]
      <4>1. ~(frame.off + n > MaxFrag \/ frame.off + n > b.acc.expected_len)
        BY <3>1, <1>2, Assumptions
      <4>2. (frame.off + n < b.acc.expected_len) = ~last
        BY <3>1, <1>2, Assumptions
      <4>3. QED
        BY <4>1, <4>2, <1>3 DEF Chunk
    <3>4. /\ c.acc \in AccRec
          /\ c.acc.active = ~last
          /\ c.acc.expected_len = frame.len
          /\ c.acc.received = frame.off + n
      <4>1. frame.off + n \in 0..MaxFrag
        BY <3>1, <1>2, Assumptions
      <4>2. QED
        BY ZenonT(30), <4>1, <3>1, <3>2, <3>3 DEF AccRec
    <3>5. c.bytes \in [0..(MaxFrag - 1) -> 0..MaxFrames]
      <4>1. bytes \in [0..(MaxFrag - 1) -> 0..MaxFrames]
        BY DEF IInv, TypeOK
      <4>2. frame.off \in Nat /\ frame.id \in 0..MaxFrames
        BY <1>2
      <4>3. Write(bytes, frame.off, n, frame.id) \in [0..(MaxFrag - 1) -> 0..MaxFrames]
        BY <4>1, <4>2, <1>2, WriteType
      <4>4. QED
        BY <4>3, <3>3
    <3>6. /\ allocated' = TRUE /\ acc' = c.acc /\ bytes' = c.bytes
          /\ IF last
             THEN Echo(c.acc.opcode, [j \in 1..c.acc.expected_len |-> c.bytes[j - 1]], ev.id)
             ELSE UNCHANGED <<echoed, cstate>>
      BY <2>1, <2>4, <3>3
    <3>7. CASE last
      <4>1. [j \in 1..c.acc.expected_len |-> c.bytes[j - 1]] \in Seq(0..MaxFrames)
        BY ZenonT(30), <3>4, <3>5, BufPayloadType DEF AccRec
      <4>2. c.acc.opcode \in DataOps
        BY <3>4 DEF AccRec
      <4>3. echoed' \in Seq(EchoRec) /\ cstate' \in {"connected", "aborted"}
        BY <4>1, <4>2, <3>6, <3>7, <1>8
      <4>4. QED
        BY <4>3, <3>4, <3>5, <3>6, <3>7, <1>7, Zenon DEF AccRec
    <3>8. CASE ~last
      <4>1. frame.off + n > 0
        BY <3>8, <1>2
      <4>2. echoed' \in Seq(EchoRec) /\ cstate' = "connected"
        BY <3>6, <3>8, <1>2 DEF IInv, TypeOK
      <4>3. frame.op \in DataOps
        BY <1>3, <1>12
      <4>4. QED
        BY <4>1, <4>2, <4>3, <3>4, <3>5, <3>6, <3>8, <1>7, Zenon DEF AccRec
    <3>9. QED
      BY SMTT(20), <3>7, <3>8
  <2>5. CASE ~b.go
    <3>1. acc' = acc /\ ~acc.active /\ UNCHANGED <<bytes, echoed, cstate>>
      BY <2>1, <2>3, <2>5
    <3>2. QED
      BY <3>1, <2>1, <1>2, <1>7, ZenonT(30) DEF IInv, TypeOK
  <2>6. QED
    BY <2>4, <2>5
<1>13. QED
  <2>1. \/ ev.op >= 8
        \/ ev.op \in DataOps /\ ~(fragmented /\ total > 0)
        \/ ev.op \in DataOps /\ fragmented /\ total > 0 /\ ~allocated /\ ~ok
        \/ ev.op \in DataOps /\ fragmented /\ total > 0 /\ (allocated \/ ok)
    BY <1>1 DEF OnData
  <2>2. QED
    BY <2>1, <1>9, <1>10, <1>11, <1>12

-----------------------------------------------------------------------------
(* The theorems.                                                           *)

\* IInv is inductive: every step of the system keeps it.
LEMMA NextIInv == IInv /\ [Next]_vars => IInv'
<1> SUFFICES ASSUME IInv, [Next]_vars PROVE IInv'
  OBVIOUS
<1>1. CASE Next
  BY <1>1, ConnectIInv, ConnectFailIInv, ReconnectIInv, StartFrameIInv,
     DeliverIInv, PeerCloseIInv, FailIInv, RunCaseIInv, NotStartedIInv, WakeIInv,
     StopDestroyIInv, ReportsIInv, TerminatedIInv DEF Next
<1>2. CASE UNCHANGED vars
  BY <1>2, StutterIInv
<1>3. QED
  BY <1>1, <1>2

\* IInv holds in every reachable state.
LEMMA SpecIInv == Spec => []IInv
BY InitIInv, NextIInv, PTL DEF Spec

\* Type correctness: in every reachable state of the testee and its client
\* every variable has its type; in particular the accumulator's received
\* and expected lengths never exceed MAX_FRAGMENTED_PAYLOAD.
THEOREM TypeCorrect == Spec => []TypeOK
BY SpecIInv, PTL DEF IInv

\* The global accumulator of websocket_event_handler never outlives the
\* frame, the connection or the test case it belongs to: whenever it is
\* active the client is connected and mid-frame, and it expects that frame's
\* length and holds exactly the bytes delivered so far. This holds for every
\* capacity, buffer size, frame length and number of cases.
THEOREM AccTracksFrameInvariant == Spec => []AccTracksFrame
BY SpecIInv, PTL DEF IInv

=============================================================================
