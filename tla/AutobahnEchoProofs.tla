------------------------- MODULE AutobahnEchoProofs -------------------------
(***************************************************************************)
(* Proof that the Autobahn testee echoes every message faithfully          *)
(* (EchoFaithful) when the accumulator buffer can be allocated, for every  *)
(* value of the other constants. When malloc may fail the property does    *)
(* not hold (run malloc_garbage): a chunk skipped for want of a buffer     *)
(* leaves a hole that a later chunk's ws_accumulator_prepare does not see. *)
(***************************************************************************)
EXTENDS AutobahnTesteeProofs

\* The facts a faithful echo rests on, on top of IInv:
\*  - the buffer is there for as long as the program runs a case;
\*  - the frame under way is the last one the peer sent;
\*  - every echo names a frame the peer sent;
\*  - an active accumulator belongs to the frame under way, with its opcode,
\*    and the bytes it has received all came from that frame;
\*  - a data frame that fits and is past its first chunk is being
\*    accumulated (its first chunk prepared the accumulator).
BufferKept == allocated \/ mpc = "done"
FrameIsLast ==
    frame.id # 0 => /\ frame.id = Len(frames)
                    /\ frames[frame.id] = [op |-> frame.op, fin |-> frame.fin,
                                           len |-> frame.len]
EchoesSent == \A i \in 1..Len(echoed) : echoed[i].id \in 1..Len(frames)
AccHoldsFrame ==
    acc.active => /\ acc.opcode = frame.op
                  /\ \A p \in 0..(acc.received - 1) : bytes[p] = frame.id
MidFrameAccumulated ==
    /\ frame.id # 0 /\ frame.op \in DataOps
    /\ 0 < frame.off /\ frame.len <= MaxFrag
    => acc.active

Extra ==
    /\ BufferKept
    /\ FrameIsLast
    /\ EchoesSent
    /\ EchoFaithful
    /\ AccHoldsFrame
    /\ MidFrameAccumulated

EInv == IInv /\ Extra

-----------------------------------------------------------------------------
(* Lemmas about the handler's operators.                                   *)

\* What ws_accumulator_prepare decides when an active accumulator always
\* expects the chunk's total and is past the frame's first chunk: go on
\* with the message, start the frame's own, or skip a frame too large.
LEMMA BeginOutcome ==
    ASSUME NEW ev, NEW total \in Nat, NEW a,
           a.active => a.expected_len = total /\ ev.offset # 0
    PROVE  \/ /\ Begin(ev, total, a).go /\ Begin(ev, total, a).acc = a
              /\ a.active
           \/ /\ Begin(ev, total, a).go
              /\ Begin(ev, total, a).acc = Prepared(total, ev.op)
              /\ total <= MaxFrag
              /\ ev.offset = 0 \/ ~a.active
           \/ /\ ~Begin(ev, total, a).go /\ Begin(ev, total, a).acc = a
              /\ ~a.active /\ MaxFrag < total
<1>1. CASE ev.offset = 0 \/ ~a.active
  <2>1. ~a.active
    BY <1>1
  <2>2. QED
    BY <1>1, <2>1, Assumptions DEF Begin
<1>2. CASE ~(ev.offset = 0 \/ ~a.active)
  BY <1>2 DEF Begin
<1>3. QED
  BY <1>1, <1>2

\* The memcpy of a chunk of frame id at off, after bytes of the same frame
\* up to off, leaves bytes of that frame up to off + n.
LEMMA WriteExtends ==
    ASSUME NEW b \in [0..(MaxFrag - 1) -> 0..MaxFrames],
           NEW off \in Nat, NEW n \in Nat, NEW id,
           off + n <= MaxFrag,
           \A p \in 0..(off - 1) : b[p] = id
    PROVE  \A p \in 0..(off + n - 1) : Write(b, off, n, id)[p] = id
BY Assumptions DEF Write

\* A payload read out of buffer bytes that all came from frame id is that
\* frame's payload.
LEMMA PayloadOfFrame ==
    ASSUME NEW b, NEW len \in Nat, NEW id,
           \A p \in 0..(len - 1) : b[p] = id
    PROVE  [j \in 1..len |-> b[j - 1]] = [j \in 1..len |-> id]
OBVIOUS

\* The echo loop sends the whole payload of frame id with its opcode, or
\* aborts the connection and sends nothing: either way the echoes stay
\* faithful.
LEMMA EchoKeepsFaithful ==
    ASSUME EchoesSent, EchoFaithful, echoed \in Seq(EchoRec),
           UNCHANGED frames,
           NEW id \in 1..Len(frames),
           Echo(frames[id].op, [j \in 1..frames[id].len |-> id], id)
    PROVE  EchoesSent' /\ EchoFaithful'
<1> DEFINE e == [id |-> id, op |-> frames[id].op,
                 data |-> [j \in 1..frames[id].len |-> id]]
<1>1. CASE echoed' = Append(echoed, e)
  <2>1. Len(echoed') = Len(echoed) + 1 /\ echoed'[Len(echoed')] = e
        /\ \A i \in 1..Len(echoed) : echoed'[i] = echoed[i]
    BY <1>1
  <2> SUFFICES ASSUME NEW i \in 1..Len(echoed')
               PROVE  /\ echoed'[i].id \in 1..Len(frames')
                      /\ echoed'[i].op = frames'[echoed'[i].id].op
                      /\ echoed'[i].data = [j \in 1..frames'[echoed'[i].id].len |-> echoed'[i].id]
    BY Zenon DEF EchoesSent, EchoFaithful
  <2>2. CASE i \in 1..Len(echoed)
    BY <2>1, <2>2 DEF EchoesSent, EchoFaithful
  <2>3. CASE i = Len(echoed')
    <3>1. echoed'[i] = e /\ frames' = frames
      BY <2>1, <2>3
    <3>2. QED
      BY <3>1
  <2>4. QED
    BY <2>1, <2>2, <2>3
<1>2. CASE UNCHANGED echoed
  BY <1>2 DEF EchoesSent, EchoFaithful
<1>3. QED
  BY <1>1, <1>2 DEF Echo

-----------------------------------------------------------------------------
(* The actions other than ClientDeliver neither echo nor write the buffer; *)
(* they leave the frame alone, drop it, or start a new one.                *)

\* Actions that keep the echoes, the sent frames and the bytes, and either
\* keep the frame and the accumulator, or reset the accumulator with no
\* frame left under way, keep Extra as long as they keep the buffer.
LEMMA QuietStep ==
    ASSUME Extra,
           UNCHANGED <<echoed, frames, bytes>>,
           \/ UNCHANGED <<frame, acc>>
           \/ acc' = ResetAcc /\ frame'.id = 0,
           BufferKept'
    PROVE  Extra'
<1>1. CASE UNCHANGED <<frame, acc>>
  BY <1>1, Zenon DEF Extra, FrameIsLast, EchoesSent, EchoFaithful,
                     AccHoldsFrame, MidFrameAccumulated
<1>2. CASE acc' = ResetAcc /\ frame'.id = 0
  <2>1. AccHoldsFrame' /\ MidFrameAccumulated' /\ FrameIsLast'
    BY <1>2 DEF ResetAcc, AccHoldsFrame, MidFrameAccumulated, FrameIsLast
  <2>2. EchoesSent' /\ EchoFaithful' /\ BufferKept'
    BY DEF Extra, EchoesSent, EchoFaithful
  <2>3. QED
    BY <2>1, <2>2 DEF Extra
<1>3. QED
  BY <1>1, <1>2

\* CONNECTED touches neither the frame nor the accumulator.
LEMMA ConnectExtra == EInv /\ ClientConnect => Extra'
<1> SUFFICES ASSUME EInv, ClientConnect PROVE Extra'
  OBVIOUS
<1>1. UNCHANGED <<echoed, frames, bytes>> /\ UNCHANGED <<frame, acc>>
  BY DEF ClientConnect, OnConnected
<1>2. BufferKept'
  BY DEF ClientConnect, EInv, Extra, BufferKept
<1>3. QED
  BY <1>1, <1>2, QuietStep DEF EInv

\* A failed attempt resets the accumulator; no frame was under way.
LEMMA ConnectFailExtra == EInv /\ ClientConnectFail => Extra'
<1> SUFFICES ASSUME EInv, ClientConnectFail PROVE Extra'
  OBVIOUS
<1>1. UNCHANGED <<echoed, frames, bytes>> /\ acc' = ResetAcc /\ frame'.id = 0
  BY DEF ClientConnectFail, OnError, EInv, IInv
<1>2. BufferKept'
  BY DEF ClientConnectFail, EInv, Extra, BufferKept
<1>3. QED
  BY <1>1, <1>2, QuietStep DEF EInv

\* The reconnect timer changes only the client's state.
LEMMA ReconnectExtra == EInv /\ ClientReconnect => Extra'
<1> SUFFICES ASSUME EInv, ClientReconnect PROVE Extra'
  OBVIOUS
<1>1. UNCHANGED <<echoed, frames, bytes>> /\ UNCHANGED <<frame, acc>>
  BY DEF ClientReconnect
<1>2. BufferKept'
  BY DEF ClientReconnect, EInv, Extra, BufferKept
<1>3. QED
  BY <1>1, <1>2, QuietStep DEF EInv

\* A peer close drops the frame and resets the accumulator.
LEMMA PeerCloseExtra == EInv /\ ClientPeerClose => Extra'
<1> SUFFICES ASSUME EInv, ClientPeerClose PROVE Extra'
  OBVIOUS
<1>1. UNCHANGED <<echoed, frames, bytes>> /\ acc' = ResetAcc /\ frame'.id = 0
  BY DEF ClientPeerClose, OnDisconnected, NoFrame
<1>2. BufferKept'
  BY DEF ClientPeerClose, EInv, Extra, BufferKept
<1>3. QED
  BY <1>1, <1>2, QuietStep DEF EInv

\* A failure or an abort drops the frame and resets the accumulator.
LEMMA FailExtra == EInv /\ ClientFail => Extra'
<1> SUFFICES ASSUME EInv, ClientFail PROVE Extra'
  OBVIOUS
<1>1. UNCHANGED <<echoed, frames, bytes>> /\ acc' = ResetAcc /\ frame'.id = 0
  BY DEF ClientFail, OnError, NoFrame
<1>2. BufferKept'
  BY DEF ClientFail, EInv, Extra, BufferKept
<1>3. QED
  BY <1>1, <1>2, QuietStep DEF EInv

\* run_test_case allocates the buffer if it is missing, and the allocation
\* succeeds.
LEMMA RunCaseExtra == ~MallocCanFail /\ EInv /\ MainRunCase => Extra'
<1> SUFFICES ASSUME ~MallocCanFail, EInv, MainRunCase PROVE Extra'
  OBVIOUS
<1>1. UNCHANGED <<echoed, frames, bytes>> /\ UNCHANGED <<frame, acc>>
  BY DEF MainRunCase
<1>2. BufferKept'
  BY DEF MainRunCase, MallocResults, BufferKept
<1>3. QED
  BY <1>1, <1>2, QuietStep DEF EInv

\* A case whose client does not start allocates the buffer all the same.
LEMMA NotStartedExtra == ~MallocCanFail /\ EInv /\ MainCaseNotStarted => Extra'
<1> SUFFICES ASSUME ~MallocCanFail, EInv, MainCaseNotStarted PROVE Extra'
  OBVIOUS
<1>1. UNCHANGED <<echoed, frames, bytes>> /\ UNCHANGED <<frame, acc>>
  BY DEF MainCaseNotStarted
<1>2. BufferKept'
  BY DEF MainCaseNotStarted, MallocResults, BufferKept
<1>3. QED
  BY <1>1, <1>2, QuietStep DEF EInv

\* The main task's wake-up changes neither the handler's state nor the frame.
LEMMA WakeExtra == EInv /\ MainWake => Extra'
<1> SUFFICES ASSUME EInv, MainWake PROVE Extra'
  OBVIOUS
<1>1. UNCHANGED <<echoed, frames, bytes>> /\ UNCHANGED <<frame, acc>>
  BY DEF MainWake
<1>2. BufferKept'
  BY DEF MainWake, EInv, Extra, BufferKept
<1>3. QED
  BY <1>1, <1>2, QuietStep DEF EInv

\* Stopping the client drops the frame and resets the accumulator; the
\* buffer stays for the next case.
LEMMA StopDestroyExtra == EInv /\ MainStopDestroy => Extra'
<1> SUFFICES ASSUME EInv, MainStopDestroy PROVE Extra'
  OBVIOUS
<1>1. UNCHANGED <<echoed, frames, bytes>> /\ acc' = ResetAcc /\ frame'.id = 0
  BY DEF MainStopDestroy, OnFinish, NoFrame
<1>2. BufferKept'
  BY DEF MainStopDestroy, EInv, Extra, BufferKept
<1>3. QED
  BY <1>1, <1>2, QuietStep DEF EInv

\* ws_accumulator_cleanup frees the buffer only when the program is done,
\* with no client left.
LEMMA ReportsExtra == EInv /\ MainReports => Extra'
<1> SUFFICES ASSUME EInv, MainReports PROVE Extra'
  OBVIOUS
<1>1. cstate = "none"
  BY DEF MainReports, EInv, IInv
<1>2. UNCHANGED <<echoed, frames, bytes>> /\ acc' = ResetAcc /\ frame'.id = 0
  BY <1>1 DEF MainReports, Cleanup, EInv, IInv
<1>3. BufferKept'
  BY DEF MainReports, BufferKept
<1>4. QED
  BY <1>2, <1>3, QuietStep DEF EInv

\* A new frame header: the peer's new frame is appended to the frames sent,
\* and becomes the frame under way at offset 0; what was sent before stays.
LEMMA StartFrameExtra == EInv /\ ClientStartFrame => Extra'
<1> SUFFICES ASSUME EInv, ClientStartFrame PROVE Extra'
  OBVIOUS
<1> DEFINE rec == [op |-> frame'.op, fin |-> frame'.fin, len |-> frame'.len]
<1>1. /\ frames \in Seq([op : Ops, fin : BOOLEAN, len : 0..MaxLen])
      /\ frames' = Append(frames, rec)
      /\ UNCHANGED <<acc, bytes, allocated, echoed, mpc>>
      /\ ~acc.active
  BY DEF ClientStartFrame, EInv, IInv, TypeOK, AccTracksFrame
<1>2. frame'.id = Len(frames) + 1 /\ frame'.off = 0
  BY DEF ClientStartFrame
<1>3. /\ Len(frames') = Len(frames) + 1
      /\ frames'[Len(frames')] = rec
      /\ \A k \in 1..Len(frames) : frames'[k] = frames[k]
  BY <1>1
<1>4. FrameIsLast'
  BY <1>2, <1>3 DEF FrameIsLast
<1>5. EchoesSent' /\ EchoFaithful'
  <2>1. \A i \in 1..Len(echoed) : echoed[i].id \in 1..Len(frames)
    BY DEF EInv, Extra, EchoesSent
  <2>2. EchoesSent'
    BY <1>1, <1>3, <2>1 DEF EchoesSent
  <2>3. EchoFaithful'
    BY <1>1, <1>3, <2>1 DEF EInv, Extra, EchoFaithful
  <2>4. QED
    BY <2>2, <2>3
<1>6. AccHoldsFrame' /\ MidFrameAccumulated' /\ BufferKept'
  BY <1>1, <1>2 DEF AccHoldsFrame, MidFrameAccumulated, BufferKept, EInv, Extra
<1>7. QED
  BY <1>4, <1>5, <1>6 DEF Extra

\* The step that matters: a chunk is delivered and handled. A fitting
\* frame's first chunk prepares the accumulator, each later chunk finds it
\* active and extends the bytes of that frame, and the last one echoes them;
\* a frame too large never touches it.
LEMMA DeliverExtra == ~MallocCanFail /\ EInv /\ ClientDeliver => Extra'
<1> SUFFICES ASSUME ~MallocCanFail, EInv, ClientDeliver PROVE Extra'
  OBVIOUS
<1>1. PICK n \in ChunkSizes(frame), ok \in MallocResults :
          /\ frame' = IF frame.off + n = frame.len THEN NoFrame
                      ELSE [frame EXCEPT !.off = @ + n]
          /\ OnData(ChunkEvent(frame, n), ok)
  BY DEF ClientDeliver
<1> DEFINE ev == ChunkEvent(frame, n)
           total == IF ev.payload_len # 0 THEN ev.payload_len ELSE ev.data_len
           fragmented == \/ ev.payload_len > 0 /\ ev.payload_len > ev.data_len
                         \/ ev.offset > 0
           last == frame.off + n = frame.len
           fid == frame.id
<1>2. /\ frame \in FrameRec /\ fid \in 1..MaxFrames
      /\ frame.off \in 0..MaxLen /\ frame.len \in 0..MaxLen
      /\ n \in Nat /\ frame.off + n <= frame.len
      /\ frame.off < frame.len => n >= 1
  <2>1. fid # 0 /\ frame \in FrameRec /\ frame.off <= frame.len
    BY DEF ClientDeliver, EInv, IInv, TypeOK
  <2>2. fid \in 1..MaxFrames /\ frame.off \in 0..MaxLen /\ frame.len \in 0..MaxLen
    BY <2>1 DEF FrameRec
  <2>3. QED
    BY <2>1, <2>2, Assumptions DEF ChunkSizes
<1>3. /\ ev.op = frame.op /\ ev.data_len = n /\ ev.payload_len = frame.len
      /\ ev.offset = frame.off /\ ev.id = fid
  BY DEF ChunkEvent
<1>4. /\ fid = Len(frames) /\ fid \in 1..Len(frames)
      /\ frames[fid] = [op |-> frame.op, fin |-> frame.fin, len |-> frame.len]
      /\ frames[fid].op = frame.op /\ frames[fid].len = frame.len
  BY <1>2 DEF EInv, Extra, FrameIsLast
<1>5. /\ UNCHANGED <<frames, mpc>>
      /\ ok
      /\ bytes \in [0..(MaxFrag - 1) -> 0..MaxFrames]
      /\ echoed \in Seq(EchoRec)
  BY DEF ClientDeliver, MallocResults, EInv, IInv, TypeOK
<1>6. /\ last => frame'.id = 0
      /\ ~last => /\ frame'.id = fid /\ frame'.op = frame.op
                  /\ frame'.fin = frame.fin /\ frame'.len = frame.len
                  /\ frame'.off = frame.off + n
  BY <1>1, <1>2 DEF NoFrame, FrameRec
\* What every case has in common.
<1>7. /\ FrameIsLast'
      /\ allocated' \in {allocated, TRUE} => BufferKept'
  <2>1. FrameIsLast'
    <3>1. CASE last
      BY <3>1, <1>6 DEF FrameIsLast
    <3>2. CASE ~last
      BY <3>2, <1>4, <1>5, <1>6 DEF FrameIsLast
    <3>3. QED
      BY <3>1, <3>2
  <2>2. QED
    BY <2>1, <1>5 DEF BufferKept, EInv, Extra
<1>8. ASSUME allocated' \in {allocated, TRUE},
             EchoesSent', EchoFaithful',
             acc'.active => /\ ~last /\ acc'.opcode = frame.op
                            /\ acc'.received = frame.off + n
                            /\ \A p \in 0..(frame.off + n - 1) : bytes'[p] = fid,
             ~last /\ frame.op \in DataOps /\ frame.len <= MaxFrag => acc'.active
      PROVE  Extra'
  <2>1. AccHoldsFrame'
    <3> SUFFICES ASSUME acc'.active
                 PROVE  /\ acc'.opcode = frame'.op
                        /\ \A p \in 0..(acc'.received - 1) : bytes'[p] = frame'.id
      BY DEF AccHoldsFrame
    <3>1. ~last /\ frame'.id = fid /\ frame'.op = frame.op
      BY <1>6, <1>8
    <3>2. /\ acc'.opcode = frame.op /\ acc'.received = frame.off + n
          /\ \A p \in 0..(frame.off + n - 1) : bytes'[p] = fid
      BY <1>8, Zenon
    <3>3. \A p \in 0..(acc'.received - 1) : bytes'[p] = fid
      <4>1. 0..(acc'.received - 1) = 0..(frame.off + n - 1)
        BY <3>2, <1>2
      <4>2. QED
        BY <4>1, <3>2, Zenon
    <3>4. QED
      BY <3>1, <3>2, <3>3
  <2>2. MidFrameAccumulated'
    <3> SUFFICES ASSUME frame'.id # 0, frame'.op \in DataOps, frame'.len <= MaxFrag
                 PROVE  acc'.active
      BY DEF MidFrameAccumulated
    <3>1. ~last /\ frame'.op = frame.op /\ frame'.len = frame.len
      BY <1>6
    <3>2. QED
      BY <3>1, <1>8
  <2>3. BufferKept' /\ FrameIsLast'
    BY <1>7, <1>8
  <2>4. QED
    BY <2>1, <2>2, <2>3, <1>8 DEF Extra
<1>9. ~acc.active \/ (acc.received = frame.off /\ acc.expected_len = frame.len
                      /\ acc.received > 0 /\ acc.opcode = frame.op
                      /\ \A p \in 0..(frame.off - 1) : bytes[p] = fid)
  BY DEF EInv, IInv, AccTracksFrame, Extra, AccHoldsFrame
<1>10. UNCHANGED echoed => EchoesSent' /\ EchoFaithful'
  BY <1>5 DEF EInv, Extra, EchoesSent, EchoFaithful
<1>11. CASE ev.op >= 8
  <2>1. frame.op \notin DataOps
    BY <1>3, <1>11 DEF DataOps, CONT, TEXT, BIN
  <2>2. ~acc.active
    BY <2>1 DEF EInv, IInv
  <2>3. UNCHANGED <<acc, allocated, echoed>>
    BY <2>1, <1>1, <1>3, Zenon DEF OnData, DataOps
  <2>4. QED
    BY <2>1, <2>2, <2>3, <1>8, <1>10
<1>12. CASE ev.op \in DataOps /\ ~(fragmented /\ total > 0)
  <2>1. frame.off = 0 /\ n = frame.len /\ last /\ ~acc.active
    BY <1>2, <1>3, <1>9, <1>12
  <2>2. /\ Echo(ev.op, [j \in 1..ev.data_len |-> ev.id], ev.id)
        /\ UNCHANGED <<acc, bytes, allocated>>
    <3>1. ~(ev.op >= 8)
      BY <1>12 DEF DataOps, CONT, TEXT, BIN
    <3>2. QED
      BY <3>1, <1>1, <1>12, Zenon DEF OnData
  <2>3. Echo(frames[fid].op, [j \in 1..frames[fid].len |-> fid], fid)
    BY <2>1, <2>2, <1>3, <1>4
  <2>4. EchoesSent' /\ EchoFaithful'
    BY <2>3, <1>4, <1>5, EchoKeepsFaithful DEF EInv, Extra
  <2>5. QED
    BY <2>1, <2>2, <2>4, <1>8
<1>13. CASE ev.op \in DataOps /\ fragmented /\ total > 0 /\ ~allocated /\ ~ok
  BY <1>5, <1>13
<1>14. CASE ev.op \in DataOps /\ fragmented /\ total > 0 /\ (allocated \/ ok)
  <2> DEFINE b == Begin(ev, total, acc)
             c == Chunk(ev, b.acc)
  <2>1. /\ allocated' = TRUE
        /\ IF b.go
           THEN /\ acc' = c.acc
                /\ bytes' = c.bytes
                /\ IF c.done
                   THEN Echo(c.acc.opcode,
                             [j \in 1..c.acc.expected_len |-> c.bytes[j - 1]], ev.id)
                   ELSE UNCHANGED <<echoed, cstate>>
           ELSE /\ acc' = b.acc
                /\ UNCHANGED <<bytes, echoed, cstate>>
    <3>1. ~(ev.op >= 8) /\ ~(~allocated /\ ~ok)
      BY <1>14 DEF DataOps, CONT, TEXT, BIN
    <3>2. QED
      BY <3>1, <1>1, <1>14, Zenon DEF OnData
  <2>2. total = frame.len /\ frame.len > 0 /\ total \in Nat
    BY <1>2, <1>3, <1>14
  <2>3. \/ b.go /\ b.acc = acc /\ acc.active
        \/ /\ b.go /\ b.acc = Prepared(total, ev.op) /\ total <= MaxFrag
           /\ ev.offset = 0 \/ ~acc.active
        \/ ~b.go /\ b.acc = acc /\ ~acc.active /\ MaxFrag < total
    <3>1. acc.active => acc.expected_len = total /\ ev.offset # 0
      BY <1>9, <1>3, <2>2
    <3>2. QED
      BY <3>1, <2>2, BeginOutcome
  <2>4. CASE b.go
    \* Whichever way the accumulator was prepared, it expects this frame,
    \* carries its opcode and holds its bytes up to the chunk's offset.
    <3>1. /\ b.acc.active /\ b.acc.expected_len = frame.len
          /\ frame.len <= MaxFrag /\ b.acc.opcode = frame.op
          /\ \A p \in 0..(frame.off - 1) : bytes[p] = fid
      <4>1. CASE b.acc = acc /\ acc.active
        <5>1. acc.expected_len <= MaxFrag
          BY DEF EInv, IInv, TypeOK
        <5>2. QED
          BY <4>1, <5>1, <1>9
      <4>2. CASE b.acc = Prepared(total, ev.op) /\ total <= MaxFrag
                 /\ (ev.offset = 0 \/ ~acc.active)
        <5>1. frame.off = 0
          BY <4>2, <2>2, <1>3, <1>2, <1>14, Assumptions
             DEF EInv, Extra, MidFrameAccumulated
        <5>2. QED
          BY <4>2, <5>1, <2>2, <1>3, <1>2 DEF Prepared
      <4>3. QED
        BY <2>3, <2>4, <4>1, <4>2
    <3>2. /\ c.bytes = Write(bytes, frame.off, n, fid)
          /\ c.done = last
          /\ c.acc.active = ~last /\ c.acc.opcode = frame.op
          /\ c.acc.received = frame.off + n
          /\ c.acc.expected_len = frame.len
      <4>1. ~(frame.off + n > MaxFrag \/ frame.off + n > b.acc.expected_len)
        BY <3>1, <1>2, Assumptions
      <4>2. (frame.off + n < b.acc.expected_len) = ~last
        BY <3>1, <1>2, Assumptions
      <4>3. b.acc \in AccRec
        <5>1. CASE b.acc = acc
          BY <5>1 DEF EInv, IInv, TypeOK, AccRec
        <5>2. CASE b.acc = Prepared(total, ev.op) /\ total <= MaxFrag
          <6>1. total \in 0..MaxFrag /\ ev.op \in DataOps /\ 0 \in 0..MaxFrag
            BY <5>2, <2>2, <1>14, Assumptions
          <6>2. Prepared(total, ev.op) \in AccRec
            BY <6>1, Zenon DEF Prepared, AccRec
          <6>3. QED
            BY <6>2, <5>2
        <5>3. QED
          BY <2>3, <2>4, <5>1, <5>2
      <4>4. c.bytes = Write(bytes, frame.off, n, fid) /\ c.done = last
        BY <4>1, <4>2, <1>3 DEF Chunk
      <4>5. CASE last
        <5>1. c.acc = [b.acc EXCEPT !.received = frame.off + n, !.active = FALSE]
          BY <4>1, <4>2, <4>5, <1>3 DEF Chunk
        <5>2. QED
          BY <5>1, <4>3, <4>4, <4>5, <3>1 DEF AccRec
      <4>6. CASE ~last
        <5>1. c.acc = [b.acc EXCEPT !.received = frame.off + n]
          BY <4>1, <4>2, <4>6, <1>3 DEF Chunk
        <5>2. QED
          BY <5>1, <4>3, <4>4, <4>6, <3>1 DEF AccRec
      <4>7. QED
        BY <4>5, <4>6
    <3>3. \A p \in 0..(frame.off + n - 1) : c.bytes[p] = fid
      <4>1. frame.off + n <= MaxFrag /\ frame.off \in Nat
        <5>1. frame.len <= MaxFrag
          BY <3>1
        <5>2. QED
          BY <5>1, <1>2, Assumptions
      <4>2. \A p \in 0..(frame.off + n - 1) : Write(bytes, frame.off, n, fid)[p] = fid
        BY <4>1, <3>1, <1>2, <1>5, WriteExtends
      <4>3. QED
        BY <4>2, <3>2
    <3>4. acc' = c.acc /\ bytes' = c.bytes
      BY <2>1, <2>4
    <3>5. CASE last
      <4>1. Echo(c.acc.opcode, [j \in 1..c.acc.expected_len |-> c.bytes[j - 1]], ev.id)
        BY <2>1, <2>4, <3>2, <3>5
      <4>2. [j \in 1..c.acc.expected_len |-> c.bytes[j - 1]]
              = [j \in 1..frames[fid].len |-> fid]
        <5>1. \A p \in 0..(frame.len - 1) : c.bytes[p] = fid
          <6>1. frame.off + n - 1 = frame.len - 1
            BY <3>5, <1>2
          <6>2. QED
            BY <6>1, <3>3
        <5>2. [j \in 1..frame.len |-> c.bytes[j - 1]] = [j \in 1..frame.len |-> fid]
          BY <5>1, <1>2, PayloadOfFrame
        <5>3. QED
          BY <5>2, <3>2, <1>4
      <4>3. Echo(frames[fid].op, [j \in 1..frames[fid].len |-> fid], fid)
        BY <4>1, <4>2, <3>2, <1>3, <1>4
      <4>4. EchoesSent' /\ EchoFaithful'
        BY <4>3, <1>4, <1>5, EchoKeepsFaithful DEF EInv, Extra
      <4>5. QED
        BY <4>4, <3>2, <3>4, <3>5, <2>1, <1>8
    <3>6. CASE ~last
      <4>1. UNCHANGED echoed
        BY <2>1, <2>4, <3>2, <3>6
      <4>2. QED
        BY <4>1, <1>10, <3>2, <3>3, <3>4, <3>6, <2>1, <1>8
    <3>7. QED
      BY <3>5, <3>6
  <2>5. CASE ~b.go
    <3>1. acc' = acc /\ ~acc.active /\ UNCHANGED echoed /\ MaxFrag < frame.len
      BY <2>1, <2>2, <2>3, <2>5
    <3>2. QED
      BY <3>1, <2>1, <1>10, <1>2, <1>8, Assumptions
  <2>6. QED
    BY <2>4, <2>5
<1>15. QED
  <2>1. \/ ev.op >= 8
        \/ ev.op \in DataOps /\ ~(fragmented /\ total > 0)
        \/ ev.op \in DataOps /\ fragmented /\ total > 0 /\ ~allocated /\ ~ok
        \/ ev.op \in DataOps /\ fragmented /\ total > 0 /\ (allocated \/ ok)
    BY <1>1 DEF OnData
  <2>2. QED
    BY <2>1, <1>11, <1>12, <1>13, <1>14

\* The finished program keeps its state.
LEMMA TerminatedExtra == EInv /\ Terminated => Extra'
BY DEF EInv, Extra, Terminated, vars, BufferKept, FrameIsLast, EchoesSent,
       EchoFaithful, AccHoldsFrame, MidFrameAccumulated

-----------------------------------------------------------------------------
(* The theorem.                                                            *)

\* The program starts with the buffer allocated by main, nothing sent and
\* nothing echoed.
LEMMA InitEInv == ~MallocCanFail /\ Init => EInv
<1> SUFFICES ASSUME ~MallocCanFail, Init PROVE EInv
  OBVIOUS
<1>1. IInv
  BY InitIInv
<1>2. BufferKept
  BY DEF Init, MallocResults, BufferKept
<1>3. FrameIsLast /\ MidFrameAccumulated
  BY DEF Init, NoFrame, FrameIsLast, MidFrameAccumulated
<1>4. EchoesSent /\ EchoFaithful
  BY DEF Init, EchoesSent, EchoFaithful
<1>5. AccHoldsFrame
  BY DEF Init, ResetAcc, AccHoldsFrame
<1>6. QED
  BY <1>1, <1>2, <1>3, <1>4, <1>5 DEF EInv, Extra

\* EInv is inductive when malloc does not fail.
LEMMA NextEInv == ~MallocCanFail /\ EInv /\ [Next]_vars => EInv'
<1> SUFFICES ASSUME ~MallocCanFail, EInv, [Next]_vars PROVE EInv'
  OBVIOUS
<1>1. IInv'
  BY NextIInv DEF EInv
<1>2. ASSUME Next PROVE Extra'
  BY <1>2, ConnectExtra, ConnectFailExtra, ReconnectExtra, StartFrameExtra,
     DeliverExtra, PeerCloseExtra, FailExtra, RunCaseExtra, NotStartedExtra,
     WakeExtra, StopDestroyExtra, ReportsExtra, TerminatedExtra DEF Next
<1>3. ASSUME UNCHANGED vars PROVE Extra'
  BY <1>3 DEF vars, EInv, Extra, BufferKept, FrameIsLast, EchoesSent,
              EchoFaithful, AccHoldsFrame, MidFrameAccumulated
<1>4. QED
  BY <1>1, <1>2, <1>3 DEF EInv

\* When malloc(MAX_FRAGMENTED_PAYLOAD) does not fail, every message the
\* testee's echo loop sends back is one frame the peer sent, with that
\* frame's opcode and length, and every byte of it read from that frame,
\* whether the frame arrived in one DATA event or was reassembled in the
\* global accumulator from several. This holds for every accumulator
\* capacity, read buffer size, frame length, number of frames, reconnects
\* and test cases.
THEOREM EchoFaithfulInvariant == ~MallocCanFail => (Spec => []EchoFaithful)
<1> SUFFICES ASSUME ~MallocCanFail PROVE Spec => []EchoFaithful
  OBVIOUS
<1>1. Spec => []EInv
  BY InitEInv, NextEInv, PTL DEF Spec
<1>2. QED
  BY <1>1, PTL DEF EInv, Extra

-----------------------------------------------------------------------------
(* Every fitting frame is echoed, whether or not malloc may fail.          *)

\* What the action property asks of a step.
EchoedOrExcused ==
    FrameCompleted /\ frame.op \in DataOps /\ frame.len <= MaxFrag =>
        \/ /\ Len(echoed') = Len(echoed) + 1
           /\ echoed'[Len(echoed')].id = frame.id
        \/ cstate' = "aborted"
        \/ ~allocated'

\* An echo of frame id appends a message of that frame, or aborts.
LEMMA EchoAppends ==
    ASSUME echoed \in Seq(EchoRec), NEW op, NEW d, NEW id, Echo(op, d, id)
    PROVE  \/ Len(echoed') = Len(echoed) + 1 /\ echoed'[Len(echoed')].id = id
           \/ cstate' = "aborted"
BY DEF Echo

\* The last chunk of a data frame that fits: the handler echoes the frame
\* (in one piece, or from the accumulator it completes), unless the echo
\* aborts or there is no buffer.
LEMMA DeliverEchoes ==
    ASSUME IInv, ClientDeliver, frame'.id = 0, frame.op \in DataOps,
           frame.len <= MaxFrag
    PROVE  EchoedOrExcused
<1>1. PICK n \in ChunkSizes(frame), ok \in MallocResults :
          /\ frame' = IF frame.off + n = frame.len THEN NoFrame
                      ELSE [frame EXCEPT !.off = @ + n]
          /\ OnData(ChunkEvent(frame, n), ok)
  BY DEF ClientDeliver
<1> DEFINE ev == ChunkEvent(frame, n)
           total == IF ev.payload_len # 0 THEN ev.payload_len ELSE ev.data_len
           fragmented == \/ ev.payload_len > 0 /\ ev.payload_len > ev.data_len
                         \/ ev.offset > 0
<1>2. /\ frame \in FrameRec /\ frame.id # 0
      /\ frame.off \in 0..MaxLen /\ frame.len \in 0..MaxLen
      /\ n \in Nat /\ frame.off + n = frame.len
      /\ echoed \in Seq(EchoRec)
  <2>1. frame.id # 0 /\ frame \in FrameRec /\ echoed \in Seq(EchoRec)
    BY DEF ClientDeliver, IInv, TypeOK
  <2>2. frame.off \in 0..MaxLen /\ frame.len \in 0..MaxLen
    BY <2>1 DEF FrameRec
  <2>3. n \in Nat
    BY <2>2, Assumptions DEF ChunkSizes
  <2>4. frame.off + n = frame.len
    BY <1>1, <2>1 DEF NoFrame, FrameRec
  <2>5. QED
    BY <2>1, <2>2, <2>3, <2>4
<1>3. /\ ev.op = frame.op /\ ev.data_len = n /\ ev.payload_len = frame.len
      /\ ev.offset = frame.off /\ ev.id = frame.id
  BY DEF ChunkEvent
<1>4. CASE ~(fragmented /\ total > 0)
  <2>1. Echo(ev.op, [j \in 1..ev.data_len |-> ev.id], ev.id)
    <3>1. ~(ev.op >= 8) /\ ev.op \in DataOps
      BY <1>3 DEF DataOps, CONT, TEXT, BIN
    <3>2. QED
      BY <3>1, <1>1, <1>4, Zenon DEF OnData
  <2>2. QED
    BY <2>1, <1>2, <1>3, EchoAppends DEF EchoedOrExcused
<1>5. CASE fragmented /\ total > 0 /\ ~allocated /\ ~ok
  <2>1. ~allocated'
    <3>1. ~(ev.op >= 8) /\ ev.op \in DataOps
      BY <1>3 DEF DataOps, CONT, TEXT, BIN
    <3>2. QED
      BY <3>1, <1>1, <1>5, Zenon DEF OnData
  <2>2. QED
    BY <2>1 DEF EchoedOrExcused
<1>6. CASE fragmented /\ total > 0 /\ (allocated \/ ok)
  <2> DEFINE b == Begin(ev, total, acc)
             c == Chunk(ev, b.acc)
  <2>1. IF b.go
        THEN IF c.done
             THEN Echo(c.acc.opcode,
                       [j \in 1..c.acc.expected_len |-> c.bytes[j - 1]], ev.id)
             ELSE UNCHANGED <<echoed, cstate>>
        ELSE TRUE
    <3>1. ~(ev.op >= 8) /\ ev.op \in DataOps /\ ~(~allocated /\ ~ok)
      BY <1>3, <1>6 DEF DataOps, CONT, TEXT, BIN
    <3>2. QED
      BY <3>1, <1>1, <1>6, Zenon DEF OnData
  <2>2. total = frame.len /\ total \in Nat
    BY <1>2, <1>3, <1>6
  <2>3. \/ b.go /\ b.acc = acc /\ acc.active
        \/ b.go /\ b.acc = Prepared(total, ev.op)
        \/ ~b.go /\ MaxFrag < total
    <3>1. acc.active => acc.expected_len = total /\ ev.offset # 0
      <4>1. acc.active => acc.expected_len = frame.len /\ acc.received = frame.off
                          /\ acc.received > 0
        BY DEF IInv, AccTracksFrame
      <4>2. QED
        BY <4>1, <1>3, <2>2
    <3>2. QED
      BY <3>1, <2>2, BeginOutcome
  <2>4. b.go /\ b.acc.expected_len = frame.len
    <3>1. b.go
      BY <2>2, <2>3, <1>2, Assumptions
    <3>2. b.acc.expected_len = frame.len
      <4>1. CASE b.acc = acc /\ acc.active
        BY <4>1 DEF IInv, AccTracksFrame
      <4>2. CASE b.acc = Prepared(total, ev.op)
        BY <4>2, <2>2 DEF Prepared
      <4>3. QED
        BY <3>1, <4>1, <4>2, <2>3
    <3>3. QED
      BY <3>1, <3>2
  <2>5. c.done
    <3>1. ~(frame.off + n > MaxFrag \/ frame.off + n > b.acc.expected_len)
      BY <2>4, <1>2, Assumptions
    <3>2. ~(frame.off + n < b.acc.expected_len)
      BY <2>4, <1>2
    <3>3. QED
      BY <3>1, <3>2, <1>3 DEF Chunk
  <2>6. Echo(c.acc.opcode, [j \in 1..c.acc.expected_len |-> c.bytes[j - 1]], ev.id)
    BY <2>1, <2>4, <2>5
  <2>7. QED
    BY <2>6, <1>2, <1>3, EchoAppends DEF EchoedOrExcused
<1>7. QED
  BY <1>4, <1>5, <1>6

\* Every step is one the property allows: only the last chunk of a frame
\* ends it with the client still connected or aborted.
LEMMA StepEchoes == IInv /\ [Next]_vars => [EchoedOrExcused]_vars
<1> SUFFICES ASSUME IInv, [Next]_vars, FrameCompleted, frame.op \in DataOps,
                    frame.len <= MaxFrag
             PROVE  EchoedOrExcused
  BY DEF EchoedOrExcused
<1>1. frame.id # 0 /\ frame'.id = 0 /\ cstate' \in {"connected", "aborted"}
  BY DEF FrameCompleted
<1>2. CASE ClientDeliver
  BY <1>1, <1>2, DeliverEchoes
<1>3. CASE ~ClientDeliver
  \* Every other step keeps the frame, or ends it together with the
  \* connection (PeerClose, Fail, StopDestroy).
  <2>1. frame.id # 0 => cstate = "connected"
    BY DEF IInv
  <2>2. QED
    BY <1>1, <1>3, <2>1 DEF Next, vars, ClientConnect, ClientConnectFail,
       ClientReconnect, ClientStartFrame, ClientPeerClose, ClientFail,
       MainRunCase, MainCaseNotStarted, MainWake, MainStopDestroy, MainReports,
       Terminated
<1>4. QED
  BY <1>2, <1>3

\* The last chunk of every data frame that fits in MAX_FRAGMENTED_PAYLOAD
\* is echoed by the handler call that receives it (lines 254-302 and the
\* echo loop), unless the echo aborts the connection or the accumulator
\* buffer could not be allocated; for every capacity, buffer size, frame
\* length and number of cases, with malloc failing or not.
THEOREM EchoesEveryFittingFrameProperty == Spec => EchoesEveryFittingFrame
<1>1. Spec => [][EchoedOrExcused]_vars
  BY SpecIInv, StepEchoes, PTL DEF Spec
<1>2. QED
  BY <1>1 DEF EchoesEveryFittingFrame, EchoedOrExcused

=============================================================================
