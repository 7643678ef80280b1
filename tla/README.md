# Verification of esp-protocols: WebSocket reassembly, transport close, the example loop and esp_modem's FdTerminal

This directory holds TLA+ models of the parts of this repository that have
state and concurrency, the TLC configurations that model-check them, and the
TLAPS proofs of their main invariants. `PROJECT.json` lists every
component, run, mutant, finding, hazard and theorem; this file explains them.

## 1. The system and its parts

`spec.md` describes a WebSocket client engine: transport stack with idempotent
close, frame codec, reassembly engine, connection state machine, send path.
The engine itself (`esp_websocket_client.c`, `transport_ws.c`, `transport.c`)
is **not** in this repository. What is here (`src/`) is code around it:

| Part | Source | State and operations |
|---|---|---|
| Autobahn testee | `components/esp_websocket_client/examples/autobahn-testsuite/testee/main/autobahn_testee.c` | the global reassembly accumulator `s_accumulator` / `s_accum_buffer`, `test_running`, `test_done_sem`; the event handler (CONNECTED, DISCONNECTED, DATA, ERROR, FINISH), `ws_accumulator_reset/prepare/cleanup`, the main task (`run_test_case` per case, `update_reports`, `main`) |
| WebSocket client (event source) | outside `src/`; spec.md 4.3-4.5, 5 | connection state, the frame being read, DATA events per transport chunk, auto-reconnect, abort after a failed send |
| esp_modem `FdTerminal` | `esp_modem/src/esp_modem_term_fs.cpp` | a reader task with a `SignalGroup` (START, STOP, PARAMS), the read callback handed over from `set_read_cb`, the fd |
| websocket_example | `components/esp_websocket_client/examples/target/main/websocket_example.c` | a start / connect / flood / stop loop with a one-shot shutdown timer and semaphore; its header comment documents the double close of the layered transport |
| linux_compat timer stub, CI files, Kconfig, build files | various | no runtime state |

How they interact: the testee's `main` runs the test cases one after the
other. For each case `run_test_case` allocates the accumulator buffer if it
is missing, creates and starts a client, and waits up to 60 s on
`test_done_sem`. The client task connects, reads frames, and calls the
testee's handler synchronously for every event. A large frame is delivered
as several DATA events of at most `BUFFER_SIZE` bytes, each carrying the
frame's total length and the chunk's offset. The handler joins the chunks in
the global accumulator and echoes every complete message back with a
retrying send. DISCONNECTED, ERROR and FINISH reset the accumulator and give
the semaphore. `main` then stops and destroys the client and goes on with the
next case; at the end it calls `update_reports` and frees the buffer.

Hard behaviours of this code:
- the accumulator is a single global shared by all connections and all cases;
- the buffer is allocated up to three times on demand (in `main`, in
  `run_test_case`, and in the handler), and every allocation can fail;
- chunks of one frame, control frames between frames, and continuation
  frames arrive in every interleaving the peer and the read buffer allow;
- connections fail, are closed by the peer, or are aborted by a failed
  echo, and the client reconnects;
- the semaphore wait times out, or is woken by the first ERROR of a case.

## 2. The modules

### `AutobahnTestee.tla`: the testee and its client
Constants: `MaxFrag` stands for `MAX_FRAGMENTED_PAYLOAD`, `BufSize` for
`BUFFER_SIZE`, and `NumCases` for `END_CASE - START_CASE + 1`. Three
constants bound the peer: `MaxLen` (the largest frame), `MaxFrames` (frames
per run) and `MaxConns` (connection attempts per client). `MallocCanFail`
says whether `malloc` may return NULL.

Data is abstracted to **provenance**: a byte of the accumulator holds the
identifier of the frame it was copied from, with 0 for a byte never
written. An echo check can then say whether every byte came from the right
frame.

| Variable | Code |
|---|---|
| `acc` | `s_accumulator` without its buffer pointer (`expected_len`, `received`, `opcode`, `active`) |
| `bytes` | contents of `s_accum_buffer`, by provenance |
| `allocated` | `s_accum_buffer != NULL` |
| `test_running`, `sem` | `test_running`, `test_done_sem` given |
| `echoed` | messages sent back (frame id, opcode, payload) |
| `cstate`, `frame`, `inMsg`, `attempts` | the client (spec-modelled): connection state, the frame being read and how much of it has been delivered, the peer being inside a fragmented message, connection attempts |
| `frames` | history: every frame the peer sent |
| `mpc`, `caseNo` | the main task's place and the next case |

Actions. The client dispatches events synchronously on its own task, so
one client step together with the handler call it makes is one action.

| Action | What it models |
|---|---|
| `ClientConnect`, `ClientConnectFail`, `ClientReconnect` | connect with CONNECTED (`OnConnected`); a failed attempt with ERROR (`OnError`); auto-reconnect |
| `ClientStartFrame` | the peer's next frame header: TEXT/BIN with any fin, CONT inside a message, or a ping |
| `ClientDeliver` | the next chunk of 1..`BufSize` bytes and the DATA handler (`OnData`) |
| `ClientPeerClose`, `ClientFail` | DISCONNECTED, or ERROR (transport failure, or abort after a failed echo) |
| `MainRunCase`, `MainCaseNotStarted` | `run_test_case` up to the wait; the early return when init/start fails |
| `MainWake` | the semaphore wait: given, or timed out |
| `MainStopDestroy` | stop/destroy, whose FINISH has the handler's reset, then the next case |
| `MainReports` | `update_reports` and `ws_accumulator_cleanup` (`Cleanup`) |

`OnData` keeps every branch of the DATA handler that the client can reach:
- control frames are skipped;
- an unfragmented chunk is echoed directly;
- a failed on-demand `malloc` skips the chunk;
- otherwise `Begin` and `Chunk` run. `Begin` is the prepare / reset-and-prepare
  decision of lines 239-257. `Chunk` covers the overflow checks, the copy
  (`Write`) and completion, lines 259-302.

`Echo` abstracts the send loop to its two outcomes: the message is sent, or
the connection is aborted. The handler's "not connected" branch (175-179) and
its "unsupported opcode" branch (196-199) are unreachable here: the client
delivers DATA only while connected and never with a reserved opcode. The
first conjunct of `AccTracksFrame` shows the first of these.

### `MCAutobahnTestee.tla` and the runs
Bounds: `MaxFrag = 3`, `BufSize = 2`, `MaxLen = 4`, `MaxFrames = 3` (2 in
the malloc run), `MaxConns = 2` and `NumCases = 2`. These sizes make every
case of the handler happen:
- a frame of one chunk and a frame of two or more chunks;
- a frame that fits the capacity exactly, and one a byte larger;
- a ping between frames and continuation frames;
- a connection lost mid-frame, and a reconnect;
- the next case reusing the buffer and the accumulator.

| Run | cfg | Checks | Result |
|---|---|---|---|
| `echo_ok` | `AutobahnTestee_ok.cfg` | `EchoFaithful` with malloc never failing | passes, 7.6 M states, about 70 s |
| `acc_malloc` | `AutobahnTestee_malloc.cfg` | `TypeOK`, `AccTracksFrame`, `EchoesEveryFittingFrame` with malloc failing anywhere | passes, 385 k states |
| `malloc_garbage` | `AutobahnTestee_garbage.cfg` | `EchoFaithful` with malloc failing | **violated** (finding 1) |

The properties:
- `AccTracksFrame`: the global accumulator is active only while the client is
  connected and in the middle of a frame, expects that frame's length and
  has received exactly the bytes delivered. No accumulation outlives its
  frame, its connection or its case.
- `EchoFaithful`: every echoed message is one frame's payload, whole and
  from that frame only.
- `EchoesEveryFittingFrame` (action property): the last chunk of a data frame
  that fits is echoed in the same handler call, unless the connection is
  aborted or no buffer exists.

Each property of a passing run has a mutant that TLC catches. Each mutant
is a plausible slip in the code:
- the copy ignoring the offset breaks `EchoFaithful`;
- the size limit left out breaks `TypeOK`;
- ERROR forgetting the reset breaks `AccTracksFrame`;
- the limit compared with `<` breaks `EchoesEveryFittingFrame`.

Deadlock is checked: the program's final state is the explicit `Terminated`
step. No fairness is assumed yet, since no liveness property is stated.

### Findings
1. **Garbage echo after a failed allocation** (`malloc_garbage`). Suppose
   `malloc` at line 233 fails on the first chunk of a chunked frame and
   succeeds on the second. The second chunk finds the accumulator inactive,
   so it prepares it at a nonzero offset (line 239). Line 288 then sets
   `received` to the end offset, not to the number of bytes received. The
   message is therefore "complete" and is echoed with bytes it never
   received. TLC's trace is a 2-byte frame sent as two 1-byte chunks; the
   echo is `<<0, 1>>`.

Known and not kept as a run: continuation frames are echoed one by one,
each with FIN set, where spec.md 4.3 asks for one reassembled message. The
handler's comment at lines 202-204 says so itself.

### `FdTerminal.tla`: esp_modem's VFS terminal
Processes: the client thread (`create_vfs_terminal`, `start`, `stop`,
`set_read_cb`, the destructor) and the reader task started by the
constructor. They share the `SignalGroup` bits (`sig`), `on_data` (`onData`)
and the descriptor (`fd`). A callback is a number: 0 is nullptr, k the k-th
installed. `Task` and `SignalGroup` are not in this repository. Their two
builds are the constant `Build`:
- `"freertos"`: `Task::Delete()` deletes the calling task and does not return;
  `~Task` deletes the task wherever it is. A task that already deleted
  itself is taken to be left alone. The usual `~Task` would instead call
  `vTaskDelete` on its stale handle, but that code is not here to model.
- `"linux"`: `Task::Delete()` does nothing; `~Task` joins the thread.

One action per statement where the other process can interleave:
- client: `Create`, with open succeeding or throwing; `Start`; `Stop`;
  `SetReadCb` and `SetParams`, the two statements of `set_read_cb`;
  `Destroy`, which runs `stop()`; `UnwindTask`, which destroys the members
  (`TaskDtor`) and frees the object;
- task: `TaskInit`, `TaskWait`, `TaskLoop`, `TaskSelect`, `TaskParams`,
  `TaskCopy`, `TaskClear` and `TaskDispatch`, the lines of `task()`; then
  `TaskExit`, the lambda's `Task::Delete(); close(fd)`;
- environment: `DataArrives`, bytes on the device.

`select()` returns readable, a timeout (1 s), or an error.

Fairness: `WF_vars(Task) /\ WF_vars(UnwindTask)`.
- The reader task is a scheduled thread. It blocks only in `wait_any`,
  where the action is disabled, and `select` returns within its timeout.
- A destructor that has begun runs on, unless it is blocked in the join;
  there its action is disabled.
- Nothing forces the client to call anything.

`MaxSets = 2` set_read_cb calls is enough to install a callback, replace it
and clear it.

| Run | Build | Checks | Result |
|---|---|---|---|
| `fd_linux` | linux | `FdReleased`, `StartedDestructionCompletes` | passes, 2351 states |
| `fd_leak` | freertos | `TaskEndClosesFd` | **violated**: stop() ends the loop, task() returns, and `Task::Delete()` (line 85) never returns to `close` |

No passing run is kept for FreeRTOS. There, `~Task` deletes the task
wherever it is. So "the task has ended when the object is freed" and "the
destructor returns" hold by that primitive alone, whatever the terminal's
code does. `FdReleased` fails on FreeRTOS as well. Besides the path through
line 85, `~Task` can delete a task that has not yet reached its lambda's
`close`.
| `fd_hang` | linux | `DestructionCompletes` | **violated**: nothing sets `TASK_STOP`, so a task in `wait_any` is never woken and the join never returns |
| `fd_callback_lost` | linux | `CallbackCurrent` | **violated**: a `set_read_cb` between lines 120 and 121 is lost |

### `TransportClose.tla` and `LayeredClose.tla`: closing the layered transport
`transport.c` is outside `src/`. The header comment of `websocket_example.c`
describes two things:
- the call chain: `abort_connection` calls `esp_transport_close(ws)`, which
  runs `ws_close`, which runs `esp_transport_close(ssl)`, which runs
  `base_close`;
- a proposed fix (lines 53-58): test `_closed`, call `_close`, set `_closed`.

`TransportClose` is the abstract promise of spec.md 4.1: `frees[l]` counts
the releases of layer `l`, and a release is allowed only while it is 0.

`LayeredClose` has N layers and a set of `Tasks`. Each task makes at most
`MaxCalls` calls on any layer, and keeps a call stack:
- `top` is the outermost call;
- `cur` is the running frame, and `pc` is its place.

The actions:
- `Call`;
- `Check`: the `_closed` test, then `_close`; `CloseHandler` descends to the
  parent layer;
- `Own`: the layer's own teardown;
- `SetClosed`;
- `Return`.

`Check` and `SetClosed` are two steps, as the comment writes them: the
flag is set only after `_close` returns. spec.md 4.1 asks for an atomic
check-and-set. No code in the repository has that, so it is not modelled.
`MCLayeredClose` instantiates the tasks as model values, with symmetry. The
refinement is `Abs == INSTANCE TransportClose WITH frees <- frees`, and
`AbsSpec == Abs!Spec` is checked as a property.

| Run | Setting | Checks | Result |
|---|---|---|---|
| `close_one_task` | 3 layers, 1 task, 5 calls, as written | `AbsSpec`, `ClosedStackReleased` | passes, 122 states: the fix works single-threaded; `LayeredCloseOneTaskProofs` proves it for every size |
| `close_race` | 3 layers, 2 tasks, 1 call each, as written | `AbsSpec` | **violated**: both tasks pass the test, and a layer is released twice |

### `WebsocketExample.tla`: the target example's loop
Time is discrete, in 50 ms units, the shortest delay in the loop. Every
`vTaskDelay` is a count `rem` that `Tick` decrements. The one-shot timer
(`timer`) counts down with it, and gives `sema` when it reaches zero
(`shutdown_signaler`). The main task's steps are `StartCycle`,
`AfterConnectWait`, `AfterRetryWait`, `HelloSend`, `Flood`, `KeepSending`,
`StopClient` and `CheckShutdown`. Each follows the code's statements and
delays (lines 126-184, 329-374).

The client is taken from spec.md 4.4:
- `Connect` succeeds or fails;
- `PeerClose`;
- `SendResult` aborts the connection on a failed send;
- `Data` is the DATA event, whose handler calls `xTimerReset`.

Sends take no time, so the flood loop is one step.

Fairness: `WF_vars(Main)`, because the main task runs when its delay ends,
and `WF_vars(Connect)`, because a connection attempt ends in success or a
network timeout. Data and peer close are up to the server and get no
fairness. The constants are the code's own values, so the runs are the real
timing: 200 units of timer, 50 sends.

| Run | Checks | Result |
|---|---|---|
| `example_full_cycle` | `FullQuietCycleSignalled` | passes, 1.7 M states: a quiet cycle with all 50 sends lasts 12.1 s > 10 s |
| `example_no_shutdown` | `NoDataShutdown` | **violated**: with every connection failing, the 8 s loop restarts the timer and skips the check |

Deadlock is not checked in the runs of these three modules, for these
reasons:
- `FdTerminal`: the object's life ends when it is freed;
- `LayeredClose`: the callers stop after their bounded calls;
- `WebsocketExample`: `websocket_app_start` returns after
  `esp_websocket_client_destroy`.

### Findings of this part
2. **FreeRTOS fd leak** (`fd_leak`, esp_modem_term_fs.cpp:85).
3. **Linux destructor hangs** (`fd_hang`, :166). It happens after a failed
   open, or after a stop() before the task reached its wait.
4. **Lost callback update** (`fd_callback_lost`, :121). This includes a lost
   `set_read_cb(nullptr)`.
5. **The proposed close fix is not atomic** (`close_race`,
   websocket_example.c:57). It diverges from spec.md 4.1.
6. **No shutdown while connections fail** (`example_no_shutdown`, :347).

Two more behaviours show in the model and are kept as hazards, not runs:
- A select error, or a stop() seen by the loop, ends the reader task for
  good (esp_modem_term_fs.cpp:124, 108). A later start() only sets the
  bit.
- A quiet connected cycle whose first step-2 send fails lasts
  3 + 0.6 + 3 + 3 = 9.6 s (websocket_example.c:183, 366). That is under the
  10 s timer, so the check misses the signal, and the next xTimerStart
  restarts the timer.

Each passing property has a mutant that TLC catches:
- a lambda without `close` breaks `FdReleased`;
- a select without a timeout breaks `StartedDestructionCompletes`;
- a `ws_close` that does not close its parent breaks `ClosedStackReleased`;
- a close without the `_closed` test breaks `AbsSpec`;
- a timer that does not give the semaphore breaks `FullQuietCycleSignalled`.

## 3. What is proved

`AutobahnTesteeProofs.tla` proves, for every value of the constants that
satisfies `Assumptions`:
- `TypeCorrect`: `Spec => []TypeOK`;
- `AccTracksFrameInvariant`: `Spec => []AccTracksFrame`.

Neither invariant is inductive on its own. The proofs use the inductive
invariant `IInv`, which is `TypeOK /\ AccTracksFrame` plus four facts:
- a frame is being delivered only while connected, and never past its end;
- an active accumulator has received at least one byte, belongs to a data
  frame and has its buffer. So a chunk at offset 0, or a ping, never meets
  an active accumulator, and the allocation branch cannot be skipped while
  accumulating;
- between cases there is no client;
- a case runs only while cases are left.

TLC checked `IInv` as an invariant before it was proved. `InitIInv` shows
that the initial states satisfy it. There is one lemma per action showing
that the action preserves it. The central one is `DeliverIInv`: it splits
on the four branches of the DATA handler and then on `Begin`'s outcome, and
shows that the accumulator completes exactly when the frame does. The
theorems follow by `PTL`. The helper lemmas (`WriteType`, `BufPayloadType`,
`FramePayloadType`, `EchoType`, `ResetNoFrameType`) type the operators.

`FdTerminalProofs.tla` proves, for both builds and any `MaxSets`:
- `FdTypeCorrect`;
- `LinuxFdReleased`: `Build = "linux" => (Spec => []FdReleased)`.

The inductive invariant adds four facts:
- a freed object's task has ended;
- nothing ever sets `STOP`;
- while the constructor runs, the task is before its loop, `START` is clear
  and nothing is open;
- on Linux, a task that has returned has closed the fd.

The first fact is what lets a task that is waiting never take the early
return. The last is what makes the join imply a closed descriptor.
The first fact is not stated as a result of its own: it follows from
`~Task`'s join or delete, not from the terminal's code.

`AutobahnEchoProofs.tla` extends `AutobahnTesteeProofs` and proves:
- `EchoFaithfulInvariant`: `~MallocCanFail => (Spec => []EchoFaithful)`;
- `EchoesEveryFittingFrameProperty`: `Spec => EchoesEveryFittingFrame`,
  with no hypothesis on the constants.

The hypothesis `~MallocCanFail` is the one run `echo_ok` uses. It is needed:
run `malloc_garbage` shows that a failed `malloc` for a fragmented frame
lets the testee echo an uninitialised buffer. The inductive invariant is
`EInv == IInv /\ Extra`. `Extra` records where the buffer's bytes come
from:
- the frame being delivered is the last frame the client sent
  (`FrameIsLast`), and every echo names a frame that was sent
  (`EchoesSent`);
- an active accumulator holds the current frame's id in every byte it has
  received (`AccHoldsFrame`);
- a data frame that fits the buffer and is past its first chunk is being
  accumulated (`MidFrameAccumulated`). This is where the malloc hypothesis
  is used: without it the accumulator may be inactive here;
- the buffer is kept allocated while the client is running
  (`BufferKept`).

TLC checked `EInv` on `echo_ok`'s instance (7.6 M states) before it was
proved. There is one lemma per action for `Extra'`. `DeliverExtra` is the
large one: it splits on the DATA handler's branches and on `Begin`'s
outcome (`BeginOutcome`). `QuietStep`, `WriteExtends`, `PayloadOfFrame` and
`EchoKeepsFaithful` are the lemmas about the operators.
`EchoesEveryFittingFrame` is an action property. `StepEchoes` shows that
every step under `IInv` echoes a completed fitting frame, or is excused.

`WebsocketExampleProofs.tla` proves `FullQuietCycleSignalledInvariant`:
`Spec => []FullQuietCycleSignalled`: a cycle that found the client
connected, got no data and completed all 50 sends of step 2 finds the
semaphore given at its check. It says nothing of a quiet cycle whose first
step-2 send fails. That cycle lasts 9.6 s and misses the signal (section 2,
findings). `WebsocketExample` has no constants:
the delays are the example's `#define`s. So the theorem covers every
behaviour of the example's loop, with no bound on the number of cycles.
The argument is a clock. `ElapsedOf(pc, rem, i)` is the time a quiet cycle
has spent since it started the one-shot timer, computed from the loop's
position. The inductive invariant `TimerClock` says that while the cycle is
quiet, the timer holds `TimerPeriod - Elapsed`, or the semaphore is given
once `Elapsed >= TimerPeriod`. Each action has a lemma (`TickClock`,
`HelloSendClock`, `FloodClock`, ...) showing that the clock and the timer
advance together. `FullCycleOutlastsTimer` shows that at the stop wait,
`Elapsed` is at least the timer's period. `TypeNext` splits the type into
its string, numeric and Boolean parts, one proof step each.

`LayeredCloseOneTaskProofs.tla` proves the fix exactly as the comment in
`websocket_example.c` writes it, when one task calls
`close()`. The hypothesis is `Tasks = {t}`. This is the run
`close_one_task`, for any number of layers and calls:
- `OneTaskRefinement`: `Spec => AbsSpec`;
- `OneTaskClosedStackReleased`: `Spec => []ClosedStackReleased`.

With two tasks the property fails (run `close_race`), so the hypothesis is
needed. A layer is `Active` while it is in the task's `close()`: a waiting frame, or
the running frame past its test. The inductive invariant `OInv` says:
- an active layer is still open;
- an active layer is unreleased, except at `set`, where it is released once;
- an inactive layer is closed exactly when it is released, and then its
  parent is closed.

Only the task's own `SetClosed` closes a layer, so an active layer cannot
be found closed. TLC checked `OInv` with 4 layers and 6 calls before it was
proved.

The following are only model-checked:
- every liveness property (`DestructionCompletes`,
  `StartedDestructionCompletes`, `NoDataShutdown`). TLAPS
  does not handle fairness and `ENABLED`;
- `EchoFaithful` when `malloc` can fail: it does not hold (run
  `malloc_garbage`);
- the layered close with several tasks, which fails (run `close_race`);
- the violations behind the findings: `CallbackCurrent` (run
  `fd_callback_lost`) and `TaskEndClosesFd` on FreeRTOS (run `fd_leak`).

## 4. Not modelled, and why
- The WebSocket client internals: handshake, close frames, the Closing
  state, ping/pong replies. They are not in this repository. Only the events
  the testee and the example see are modelled, from spec.md.
- The send function and its segmentation, which are outside `src/`. The
  caller's retry loop is reduced to its outcome.
- The frame codec (spec.md 4.2): it is not in this repository.
- `FdTerminal::read`/`write`: they pass bytes to the descriptor and change
  no state of the object.
- The linux_compat timer stub (`timers.c`): it allocates a handle and never
  runs the callback. It has no state machine. The example's timer is
  modelled from the FreeRTOS semantics that the example relies on.
- Reading the server URI from stdin (`get_string`), logging, the JSON parse
  of DATA events and heap statistics: I/O only.

## 5. Plan
1. Liveness of the testee: every case ends, under weak fairness of the
   semaphore timeout.
2. `FdTerminal` with two client threads, if the code's users call
   `set_read_cb` from more than one.
3. The abort and stop call sites of the client, modelled from spec.md 5, as
   callers of `LayeredClose`.
