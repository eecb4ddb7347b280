# Verification of AI PC Guardian

TLA+ models of the programs in this repository, the TLC runs that check them and
the proofs about them. Paths are relative to the repository; line numbers are in
`PROJECT.json`, which maps every definition to the code it stands for.

## 1. The system

```
 guardian-server                 guardian-agent                        guardian desktop
 +----------------------+  gRPC  +----------------------------------+  pipe  +------------------------+
 | TelemetryServiceImpl |<-------| TelemetryRunner (main thread)    |        | SystemMetricsViewModel |
 |   SubmitTelemetry    | submit |   collect, publish, submit       |        |   slots, refresh()     |
 +----------------------+        |        | update                  |        |     ^ signals          |
                                 |        v                         |        |     |                  |
                                 | LatestSnapshotStore (mutex)      |        | LocalAgentClient       |
                                 |        ^ get                     |        |   QLocalSocket, timers |
                                 | IpcServer (worker thread) <------+--------+---- requests           |
                                 +----------------------------------+        +------------------------+
```

| Component | State | Operations | What is hard | What makes it correct |
|---|---|---|---|---|
| `IpcServer` (`agent/src/local_ipc_server.cpp`) | stop flag, worker thread, one pipe instance, `receive_buffer`, `total_written` | `start`, `stop`, and `run`: create, connect, read, decode, respond, close | two threads and any number of client processes; blocking calls that `stop` has to interrupt; partial reads and writes; clients that die | one instance, owned exactly while serving; the worker outlives every client; each request answered once, whole and from the current store; `stop` returns |
| `LatestSnapshotStore` | one optional snapshot behind a mutex | `update`, `get` | two threads | atomic replacement |
| `TelemetryRunner`, `TelemetryClient` (`agent/src/telemetry_runner.cpp`) | snapshot and result of the cycle, remaining pause | collect, publish, submit CPU, submit memory, publish, pause | each metric and each RPC fails by itself; deadlines; a signal at any moment | publish before submitting; nothing skipped or hidden; no cycle after the signal |
| `agent/src/main.cpp` | command line, stop flag, exit code | options, `--once`, loop, shutdown order | options that look like values; a signal in every phase; a clock that is set back | options read as the usage text says; honest exit code; the local server outlives the loop; Ctrl+C ends the process |
| `LocalAgentClient` (`desktop/src`) | socket, two timers, `receive_buffer_`, backoff, published state | start, stop, request, five slots | events in any order; slots that run inside `abort()` | a lost connection is always retried, once; published state follows the socket; frames stay aligned |
| `SystemMetricsViewModel` (`desktop/src`) | status text, flags, metric values | three slots, `refresh()` | several signals inside one turn; failures during `refresh()` | never claims more than it knows; the spinner ends |
| Framing (`ipc/src/framing.cpp`) | none | encode, try-decode | lengths 0 and above the limit, cut input | decode inverts encode at every cut |
| Events and conversion (`common/src`, `proto/src`) | none | `is_valid`, `to_proto`, `from_proto` | numeric edges | a round trip changes nothing and refuses the invalid |
| Collectors (`agent/src/windows`) | none | `calculate_cpu_metric`, `collect_*` | 64-bit counters that wrap, go back and overflow | the true percentage or nothing; nothing that is refused later |
| Server (`server/src`) | stop flag, in-flight RPCs | `SubmitTelemetry`, start, shutdown | shutdown against requests; signals before the handlers | OK means this event was accepted; nothing invalid is accepted; a handler's call is answered before the exit |
| `Logger` (`tools/src`) | mutex, file stream with its buffer and error state | `configure`, `write`, `flush`, terminate handler | threads, crashes, a full disk | messages stand together; what `log()` returned from is in the file; the reason of an abort is recorded |
| User interface (`desktop/qml`) | none | bindings | - | - |

Interactions: the runner writes the store and the pipe worker reads it
(shared state under a mutex); the worker and the Desktop exchange length-prefixed
protobuf frames over the pipe; the view model is driven by the client's signals,
which run synchronously inside the client's slots; the runner calls the server
with a deadline; signals set a flag that the loops poll.

## 2. The modules

Every module names the code's functions. A slot or loop body is one definition;
a place where another thread or process can run in between is a step boundary.

**IpcServer.** The owner (`start`, `stop`), the worker (`run`), the clients and the
pipe. The worker's program counter has a value before each test of the flag and
before and inside each blocking call: `LoopTest` (line 320), `CreateNamedPipe`, `ConnectNamedPipe` / `ConnectReturns`,
`ReadTest`, `ReadFile` / `ReadReturns`, `Decode`, `WriteTest`, `WriteFile` /
`WriteReturns`, `Close`, `CloseLast`. `stop()` is `StopCall`, `Wake`, `CloseWake`,
`Cancel`, `Join`. A frame is two pieces, length prefix and payload, so that reads
and writes can end between them; a request is valid, rejected by the parser or
the version test, or announces an impossible length. The store is a version
number. The pipe and `CancelSynchronousIo` are external: a cancellation
affects only the call in progress. A response that cannot be framed is left out:
the Agent's texts are far below the frame limit.

**LocalAgentClient.** One step is one turn of the Qt event loop. The slots are
operators on a record, composed as the code calls them; `abort()` runs
`handle_disconnected` inside the caller when the socket was connected. The
signals of the turn are collected in order in `client.signals`. The socket reports
a lost connection as `disconnected` alone or with `errorOccurred` before or after it.
A connection attempt may end at once or later. `Faults` adds response frames this
repository's Agent never sends.

**SystemMetricsViewModel** extends LocalAgentClient: each turn of the client is
followed, in the same step, by the view's slots for the signals of the turn.
A snapshot is reduced to which metrics it has, the Agent's state and whether it
was old on arrival; a shown metric to the snapshot it is from (`latest`,
`earlier`). `Age` lets the shown snapshot pass `stale_after_ms`; `Close` is the destructor, and what is
opened next is a new view.

**TelemetryRunner.** The Agent's main thread, its store, the requests in the
network, and the server's handler. A request may be handled before or after its
deadline, or never. `RpcResults` says what a call may return: OK only when the
server has accepted the event, an error in every case. Errors are the sets of
metrics they name; the timestamp in event ids is the cycle's number.

**LocalIpc** extends IpcServer and instantiates LocalAgentClient: one Desktop and the
Agent over one pipe. What each component leaves open about its environment is here
the other one. `Attempt` joins `connect_to_agent` to `Connect`, `Turn` joins a slot
that lets its socket go to `Hangup`, `Transmit` and `Fetch` are `QLocalSocket` moving bytes between
its buffers and the pipe. `AgentDies` kills the process: the store starts
empty in the next `epoch`, and a part of what was in the pipe may still be read.
`ClientSide` is the mapping that shows the composition to the client's own module: what was
asked and not answered is with the Agent, what was answered and not read is in the inbox.

**SnapshotChannel** is the abstract specification of that composition: a published
snapshot, the last one shown, and the batch a turn delivered. A delivery is a sequence of
snapshots in publishing order between the last one shown and the one published;
a restart publishes an empty store of a new process. LocalIpc implements it under
`published <- Stamp(store)`, `shown <- seen`, `batch <- Received(desktop)`.

**Agent** extends TelemetryRunner with all of `main()`: the loop over `argv`, the order
of server, loop and `stop()`, Ctrl+C in every phase, and the wall clock, which moves
in the CPU sample and the pause and can be set back. Event ids are prefix and timestamp. Only the
arguments `main()` tells apart are in `Arguments`; a server address is any text.

**Telemetry** holds the pure definitions: `is_valid`, `to_proto`, `from_proto`.
**MetricCollectors** runs one collection against true CPU times that the counters hold
modulo `Limit`. **TelemetryRpc** joins `TelemetryClient::submit`, `SubmitTelemetry` and the
server's `main()`; gRPC is external: at most one delivery, handlers that go on when the caller has given
up, `Shutdown()` that refuses new calls and waits for the handlers. Its `AcceptedIsTrue` is the assumption
TelemetryRunner makes of an RPC.

**Logger** has one step per output line, because threads differ by where the mutex
keeps them; the stream is a buffer in the process, a file outside it, and an error
state that drops output without a word. `Crash` is what the terminate handler does not see.

**Framing** is the codec on bytes of `Base` values with signed chars, and a stream cut
and joined anywhere, read as both readers in the code do.

The `MC` modules instantiate them for TLC. The theorems are in a module per component:
**IpcServerProofs**, **LocalIpcProofs** (which builds on it), **DesktopProofs** (client and view),
**AgentProofs** (the telemetry thread and the process), **TelemetryRpcProofs**,
**MetricCollectorsProofs**, **LoggerProofs** and **FramingProofs**. Definitions with no entry in the map that stand
before a mapped definition (`EraseAll` before `Erase`, ...) are its faulty variants: each
property has one that breaks it.

## 3. The runs

| Run | Question | States (distinct) |
|---|---|---|
| `ipc` | the pipe server with two clients, start and stop at any moment: order, ownership, the next client, and `stop()` against a blocked worker | 189 386 |
| `ipc_lost_wakeup` | *violated*: `stop()` without clients | - |
| `local_ipc` | does the composition implement `SnapshotChannel`, is the Agent an environment the client was checked in, and does the Desktop end up with the newest snapshot | 156 426 |
| `local_ipc_others` | whose connection it is, with another client on the pipe | 190 152 |
| `desktop` | client and view: timers, state and buffer after every turn, what the view claims, and that it keeps receiving | 61 666 |
| `view_old_data` | *violated*: a shown snapshot grows old | - |
| `framing` | the stream's frames come out as they went in; a bad header is refused at once | 16 950 |
| `agent` | cycles, failures, late handling, every command line of up to three arguments, Ctrl+C, ids | 103 227 |
| `runner_event_after_stop` | *violated*: submissions after the signal | - |
| `collectors` | collected values are true and never refused later | 75 519 |
| `rpc` | what OK means; what enters the journal; a signal ends the server | 208 992 |
| `logger` | whole messages, lines at risk in a crash, the reason of an abort, every call returns | 206 470 |

A run asks its safety and liveness questions of one state space, under the fairness below;
fairness takes no state away. Between them the passing runs take every action.

Bounds, and why they suffice:

- `Clients`: two. The pipe has one instance, so a third process only waits as the
  second does.
- `PipeSize` = 4 pieces: two frames in each direction, so that frames coalesce
  and a writer still meets a full pipe. `MaxAsked` = 2 unanswered requests.
- `MaxVersion` = 1: one update of the store can fall between a request and
  its answer.
- `Snapshots` of the view (`FewSnapshots`): none yet, a complete one that is fresh or old, and one that lacks a
  metric. The one left out, degraded with both metrics, differs from a complete one in its wording.
  `Faults`: a length that is refused before the payload is there, and a payload that does not parse.
- `MaxEpoch` = 1 in LocalIpc: one restart, at any moment; a second meets the same
  states with other numbers. `local_ipc_others` trades it for a second client.
  `PipeSize` = 3 in `local_ipc` lets a frame be cut.
- `MaxCycles` = 2, `SleepSlices` = 1: a failed cycle followed by a good one, and a signal before
  and after the slice of the pause. `MaxSetBacks` = 1: the clock is set back once.
- `MaxArgs` = 3 in Agent: an option, its value and one more argument, in any order; 2 in TelemetryRpc.
- `Limit` = 4: counters of two bits; every pair of readings with every wrap
  and overflow. `MaxMemory` = 2: zero, equal, too much. The code does nothing with the width but wrap.
- `Callers` = 2 in TelemetryRpc: a call that is answered while another is handled or given up.
- Logger: two threads, one message each of one or two lines, one file, one failure of the disk.
- Framing: `Base` = 4, so that a limit of 6 already needs two digits and digits 2 and 3
  are negative chars; three frames. FramingProofs is about every even `Base`, 256 among them.

Deadlock is checked except where a process ends: the runs of Agent, MetricCollectors, TelemetryRpc and
Logger; in Framing, where the frames to send run out; and in `ipc_lost_wakeup`,
whose point is a system that stops.

Fairness. `ServerFairness`: the owner's and the worker's threads are scheduled (`WF`), and
the pipe's name is not taken by another process for ever (`SF` on `CreateNamedPipe`). Nothing is asked of
any client, so `ServesNextClient` and `StopEndsBlockedCall` hold against clients that stay silent.
`ViewFairSpec`: Qt delivers events, timers fire, a live Agent answers; the user need not press anything.
`KeepsReceiving` supposes in its own text a Desktop that is not closed and an Agent that stays up and sends no bad frame from
some moment on. `FairAgentSpec`: the thread runs and
the deadline ends every RPC; nothing is assumed of the server or the network, and `stop()`
of the local server returns, which `StopEndsBlockedCall` shows for a worker that is blocked when `stop()` begins (finding 1 is the gap).
`IpcFairness` of the composition is the sum of its parts: both programs' threads, Qt's timers
and socket, and the pipe's name. The server needs its main thread and its handlers. In Logger each thread is scheduled;
`WF` is enough for the mutex because the calls of the other threads are bounded.

## 4. What the violations show

1. **`stop()` can wait for ever** (`ipc_lost_wakeup`). `stop()` wakes the listener
   once and cancels once. A worker that has tested the flag but has not yet entered
   `ConnectNamedPipe` (lines 320-351) or `ReadFile` (lines 379-382) misses both, then blocks; `join()` hangs
   until a client happens to come. A worker that is already blocked is freed (`StopEndsBlockedCall` in `ipc`).
   `docs/tasks/IPC-001.md:174` promises that the thread is joined.
2. **A snapshot shown is never found to be old** (`view_old_data`): the 15 s of
   `IPC-001.md:318` are evaluated on arrival only.
3. **Events after the signal** (`runner_event_after_stop`): a cycle under way submits
   to its end; `WIN-003.md:160-161` asks for none.
Also seen while modelling, without a run of their own:

- Every cycle publishes a snapshot with an empty `submission_error` before it submits (`telemetry_runner.cpp:98`),
  so the Agent says RUNNING for a while although it still fails; `IPC-001.md:156` wants the
  state of the last submission kept.
- A bad or too short `--interval-ms` ends the Agent with code 2 without usage; `WIN-003.md:125-126` wants it shown.
- Ids can repeat when the wall clock is set back between two cycles (`WIN-001.md:94-95` wants them unique in the
  process). `EventIdsUnique` is therefore about a clock that is not set back.
- The server serves calls before it installs its handlers, so an early signal kills it; `SERVER-001.md:107-108`
  wants `Shutdown()` and `Wait()`.
- One failed write silences the log file: the stream's error state is never cleared; `TOOLS-001.md:67`
  wants console and file alike.
- After a bad frame the text of `protocol_error` is replaced in the same turn by the one for
  `Disconnected`, because `abort()` reports synchronously.

## 5. What is proved

Every safety invariant that a run checks is a theorem, and so are the action properties `OneBackoffStep`, `ProtocolErrorHasCause`
and `LostDataStaysMarked` and the refinement `KeepsChannelPromise`. The proofs hold for every value of the constants that meets
the named assumptions. These are in the modules that declare the constants, and every run evaluates them:

| Assumptions | What they say |
|---|---|
| `ClientsAssumption`, `PipeSizeAssumption`, `BoundsAssumption` (IpcServer), `DesktopAssumption` (LocalIpc) | nobody and the waking call are no clients; the pipe holds at least two pieces; the Desktop is a client |
| `SomeSnapshot`, `FaultsAssumption`, `MaxAskedAssumption`, `SnapshotsAssumption` | there is something to answer; faults are the two kinds the client tells apart; a snapshot has the fields it has |
| `MaxCyclesAssumption`, `SleepSlicesAssumption`, `AgentAssumption` | bounds are numbers; there is a cycle and a pause has a slice |
| `LimitAssumption`, `NamesAssumption`, `MaxMemoryAssumption` | a counter has a width, an event name is not empty, memory fits its counter |
| `CallersAssumption`, `PayloadsAssumption` (TelemetryRpc) | other programs are not among the Agent's callers; a payload is a CPU or a memory metric |
| `NobodyAssumption`, `BoundsAssumption` (Logger) | the free mutex has no owner; bounds are numbers |
| `BaseAssumption`, `SizeAssumption`, `PayloadsAssumption`, `BadFramesAssumption` (Framing) | a byte has an even number of values; lengths fit four of them; payloads are made of bytes; a bad frame begins with a header whose length is refused |

None of the invariants below is inductive as the run states it. What each needs, and why:

**The pipe server** (IpcServerProofs). `WorkerOutlivesClients` says nothing of how the worker
came to `done`. `IInv` adds that a worker in `closeLast` or `done` runs in a stopped
server (`LeavesOnlyWhenStopped`; `Start` clears the flag only when there is no
thread) and that an absent pipe has no peer (`PeerNeedsPipe`: the handle of
`wake_pipe_listener` never outlives the instance it opened). Three more invariants rest on it:

- `Decoded` for `ReadsWhenDecoded`: the buffer is empty until the first read and decoded before each later one.
- `FramesInv` for `WholeFrames`: a response half written is the last thing in the pipe.
- `Counted` for `RequestsConserved` and `AnswersAreFresh`: a pipe no client has opened is empty, the listener
  waits with nothing decoded, and no request carries a version the store has not reached. Requests and answers are
  counted by position (`NumberOf`); `CountConcat` says that counting distributes over concatenation, and every step cuts
  sequences or joins them.

**The local channel** (LocalIpcProofs). `LinkAgrees` needs the server's `IInv`, which the steps of the Desktop and the death
of the Agent must preserve as well, and `Sound`: a Desktop that is not running has no socket and no timer, and a retry is armed
only without a socket. Otherwise an attempt could replace a socket that is still the pipe's peer.

`ChannelPromiseKept` shows that both programs over the pipe implement SnapshotChannel: each step of `IpcNext` is a step of
`ChannelNext` or a stutter. It needs, beside these, `OrderInv`, which has two parts:

- `AnswersInOrder`: the versions in the pipe rise, none is newer than the response being written, and that is not newer than the store.
  `AnswersStep` shows for every step of the server and its clients that this stays so and that nothing older is put behind (`LaterAnswers`).
- `StreamInv`: what the Desktop holds (`Held`, its buffer and its inbox) rises as well, begins no older than the last snapshot it was
  shown, and is no newer than anything that can still come to it (`ToCome`: the store and, on a live link, the pipe and the response).

A step then either moves the boundary between the two (`Fetch`, the death of the Agent: `LongerStream`), takes frames from
the front and shows them (`ReadStream`, a `Deliver`), drops all of it (`DroppedStream`), or changes what is to come to something
newer (`NewerKeeps`; a new measurement is a `Publish`, a new process a `Restart`). `Plugged`, that nothing is held and no link lives
without a connected socket, is what lets a new connection begin with an empty stream. Which snapshots a turn emits
is followed through the slots (`Shows`, `Silent`), and `ReceivedIs` concludes what `Received` reads off the signals.

**The Desktop** (DesktopProofs). Between turns a client is in one of three situations (`ClientOK`):
`Idle`, where a running client, and no other, has its retry armed; `Pending`, where an attempt is open; and `Joined`, where
buffer and inbox together are alternating headers and payloads (`Aligned`). One lemma per slot and
per turn carries it. `handle_ready_read` decodes in a loop, so where it stops is found with the least position that is
refused or incomplete (`Least`). `ViewOK` relates the view to the client: a spinner has its `Cause`, a shown
metric its snapshot. The view's slots are applied to any number of signals (`ApplyAll`, a recursive
function): `RunExists` and `RunsAgree` replace it with the run of views it computes.

**The Agent** (AgentProofs). `IInv` of the thread relates the program counter to the cycle
numbers of the local snapshot and the store (`CyclesInStep`), to what has been
recorded for the metrics whose turn has passed (`RecordsTrue`), to the metric
being submitted (`TurnOfMetric`) and to what is published (`Measured`,
`FinalPublished`). Success is recorded only for an event in `accepted`, which never shrinks. `PhaseInv` lifts it to the process:
before the loop nothing of it has happened, and afterwards it stays as it was left. `EventIdsUnique` needs
`StampsRise` with `ClockMoved`: while the clock is not set back, the pause moves it past every timestamp given
before the next one is. The theorems `Agent...` are about the whole process. `NothingSkipped`, `MetricsSurviveSubmission`,
`StopEndsCycles` and `TypeCorrect` state properties that no run repeats.

**The RPC** (TelemetryRpcProofs). `AcceptedIsTrue` and `JournalIsClean` need to know of every call under way whose event its handler
has, and of every event on the wire that it was submitted or comes from a stranger. `RoundTrip` is the lemma on the conversion:
what `to_proto` lets pass comes back from `from_proto` unchanged.

**The collectors** (MetricCollectorsProofs). `DifferenceIsTrue` is about subtraction modulo any `Limit`: the difference of two readings
is the true one as long as that is below `Limit`. `PercentIsTrue` follows, and `CollectedIsAccepted` with `RoundTrip`.

**The logger** (LoggerProofs). `Tidy` says of each log that the lines of a message stand together and that no line is from a
call that has not begun or has not come so far; `StillLast` says that the owner of the mutex wrote last. The file and its buffer are `Tidy` as
one log, so that flushing moves lines and changes nothing, and losing the end of the buffer loses the end of the log.

**Framing** (FramingProofs). `DigitsAddUp` puts four digits of any even base together again, `ByteOfChar` undoes the sign of a char,
`HeaderAnnounces` concludes that the decoder reads the length the encoder wrote, whatever follows. From it: `DecodeInvertsEncode`, `BadLengthRefused` and
`CutFrameIsWaitedFor`, which together say what the decoder does with every beginning of a frame. The invariant of the stream says
that the bytes under way are what is left behind each frame (`Follows`: a sequence of tails, one for each frame still expected); it is
stated as the existence of these tails, and each step takes the first away or appends one.

Model-checked only:

- Liveness, which depends on fairness: `ServesNextClient`, `StopEndsBlockedCall`, `CatchesUp`, `KeepsReceiving`, `SpinnerEnds`,
  `BadHeaderRefused`, `CtrlCEndsAgent`, `SignalEndsServer`, `CallsReturn`. It is outside what TLAPS handles here.
- `ParsesAsUsageSays`: a comparison of two readings of `argv`, by induction over the arguments.
- `IsClientEnvironment`, the second refinement of LocalIpc: its mapping `ClientSide` counts the answers under way.

## 6. Not modelled, and why

- Security descriptors, wording of messages, time formatting, QML: no state that a property is about.
- How many polls a silent Agent accumulates: the code has no limit; `MaxAsked` is a bound of the model.
- Answers that `DisconnectNamedPipe` discards before the client read them: modelled;
  `IsClientEnvironment` says only that they are lost together with the connection.
- The rounding of doubles: it is monotone, so a quotient of at most 1 stays at most 1.
- The text of addresses, ids and arguments beyond what the code tells apart;
  `--version` of the server, which does what `--help` does.
- The logger's choice of a directory, its time stamps and the cleaning of control characters: text.
- More than one Desktop in LocalIpc: the other client there is any local process.
- What gRPC and the pipe do inside: external, by what the code relies on.

## 7. Plan

What is left is proof:

1. `IsClientEnvironment`: `Counted` of the pipe server bounds the mapped `asked`, `WholeFrames` says that what is under
   way ends in a whole frame; each step of `IpcNext` is a step of `Client!Next` or a stutter.
2. `ParsesAsUsageSays`, with the reading of `argv` as a run of positions.
