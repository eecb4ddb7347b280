---------------------------- MODULE TelemetryRunner ----------------------------
(***************************************************************************)
(* The Agent's telemetry thread, agent/src/telemetry_runner.cpp, with the  *)
(* store it publishes to, the RPC client it submits with and the handler   *)
(* of the remote server.  The thread is main(): with --once it runs one    *)
(* cycle and exits, without it it runs cycles until a signal.              *)
(*                                                                         *)
(* gRPC and the network are external: a request may be handled, before or  *)
(* after its deadline, or never; a call ends with the reply or an error.   *)
(***************************************************************************)
EXTENDS Naturals, FiniteSets

CONSTANTS
  MaxCycles,   \* bound on the cycles run
  SleepSlices  \* slices of 100 ms in collection_interval

ASSUME MaxCyclesAssumption == MaxCycles \in Nat \ {0}
ASSUME SleepSlicesAssumption == SleepSlices \in Nat \ {0}

VARIABLES
  once,      \* the --once option
  stop,      \* stop_requested, set by the signal handler
  pc,        \* where the thread is
  cycle,     \* cycles begun; it stands for the timestamp in the event ids
  snapshot,  \* run_once's local snapshot
  result,    \* run_once's cycle_result
  slices,    \* remaining, in slices
  store,     \* what LatestSnapshotStore holds
  sent,      \* events handed to gRPC
  network,   \* requests that can still reach the server
  accepted,  \* events the server's handler has accepted
  exitCode   \* main()'s return value
netVars == <<sent, network, accepted>>
vars == <<once, stop, pc, cycle, snapshot, result, slices, store, sent, network,
          accepted, exitCode>>

-----------------------------------------------------------------------------
Metrics == {"cpu", "memory"}
Event(metric, n) == [metric |-> metric, cycle |-> n]
Events == [metric : Metrics, cycle : 1 .. MaxCycles]

\* collection_error and submission_error are reduced to the metrics they name.
Snapshots == [cycle : 0 .. MaxCycles, metrics : SUBSET Metrics,
              collectionErrors : SUBSET Metrics, submissionErrors : SUBSET Metrics]
\* No snapshot yet.
Empty == [cycle |-> 0, metrics |-> {}, collectionErrors |-> {}, submissionErrors |-> {}]

PCs == {"test", "collect", "publish", "cpu", "awaitCpu", "memory", "awaitMemory",
        "publishLast", "log", "sleep", "stopped", "exit"}

TypeOK ==
  /\ once \in BOOLEAN /\ stop \in BOOLEAN
  /\ pc \in PCs
  /\ cycle \in 0 .. MaxCycles
  /\ snapshot \in Snapshots
  /\ result \in [submitted : SUBSET Metrics, errors : SUBSET Metrics]
  /\ slices \in 0 .. SleepSlices
  /\ store \in Snapshots
  /\ sent \in SUBSET Events /\ network \in SUBSET Events /\ accepted \in SUBSET Events
  /\ exitCode \in {0, 1}

NoResult == [submitted |-> {}, errors |-> {}]

Init ==
  /\ once \in BOOLEAN /\ stop = FALSE
  /\ pc = IF once THEN "collect" ELSE "test"
  /\ cycle = IF once THEN 1 ELSE 0
  /\ snapshot = Empty /\ result = NoResult
  /\ slices = 0
  /\ store = Empty
  /\ sent = {} /\ network = {} /\ accepted = {}
  /\ exitCode = 0

-----------------------------------------------------------------------------
(* run() and run_once() *)

\* The test of the outer loop.  MaxCycles bounds it.
RunTest ==
  /\ pc = "test"
  /\ \/ /\ stop
        /\ pc' = "stopped" /\ UNCHANGED cycle
     \/ /\ ~stop /\ cycle < MaxCycles
        /\ pc' = "collect" /\ cycle' = cycle + 1
  /\ UNCHANGED <<once, stop, snapshot, result, slices, store, netVars, exitCode>>

\* Each collector delivers a metric or nothing; nothing is an error.
Collect ==
  /\ pc = "collect"
  /\ \E metrics \in SUBSET Metrics :
       /\ snapshot' = [cycle |-> cycle, metrics |-> metrics,
                       collectionErrors |-> Metrics \ metrics, submissionErrors |-> {}]
       /\ result' = [submitted |-> {}, errors |-> Metrics \ metrics]
  /\ pc' = "publish"
  /\ UNCHANGED <<once, stop, cycle, slices, store, netVars, exitCode>>

AfterCpu == IF "memory" \in snapshot.metrics THEN "memory" ELSE "publishLast"
FirstSubmission == IF "cpu" \in snapshot.metrics THEN "cpu" ELSE AfterCpu

\* The local snapshot is published before the first, possibly long, RPC.
PublishAfterSubmission ==
  /\ pc = "publish"
  /\ UNCHANGED <<once, stop, cycle, snapshot, result, slices, store, netVars, exitCode>>
  /\ pc' = FirstSubmission

Publish ==
  /\ pc = "publish"
  /\ store' = snapshot
  /\ UNCHANGED <<once, stop, cycle, snapshot, result, slices, netVars, exitCode>>
  /\ pc' = FirstSubmission

\* TelemetryClient::submit up to the blocking RPC.
Submit(metric) ==
  /\ pc = metric
  /\ sent' = sent \cup {Event(metric, cycle)}
  /\ network' = network \cup {Event(metric, cycle)}
  /\ pc' = IF metric = "cpu" THEN "awaitCpu" ELSE "awaitMemory"
  /\ UNCHANGED <<once, stop, cycle, snapshot, result, slices, store, accepted, exitCode>>

\* The RPC returns.  Only an accepted event can come back OK; an error
\* (rejected, unavailable, deadline) can come back whatever the server did.
TimeoutIsSuccess(metric) == {TRUE, FALSE}
NoDeadline(metric) == IF Event(metric, cycle) \in accepted THEN {TRUE, FALSE} ELSE {}
RpcResults(metric) ==
  IF Event(metric, cycle) \in accepted THEN {TRUE, FALSE} ELSE {FALSE}

ForgetError(metric, ok) ==
  /\ result' = [result EXCEPT !.submitted = IF ok THEN @ \cup {metric} ELSE @]
  /\ snapshot' = snapshot

RecordSubmission(metric, ok) ==
  /\ result' = [submitted |-> result.submitted \cup (IF ok THEN {metric} ELSE {}),
                errors |-> result.errors \cup (IF ok THEN {} ELSE {metric})]
  /\ snapshot' = [snapshot EXCEPT !.submissionErrors =
                    @ \cup (IF ok THEN {} ELSE {metric})]

CpuReturns ==
  /\ pc = "awaitCpu"
  /\ \E ok \in RpcResults("cpu") : RecordSubmission("cpu", ok)
  /\ pc' = AfterCpu
  /\ UNCHANGED <<once, stop, cycle, slices, store, netVars, exitCode>>

MemoryReturns ==
  /\ pc = "awaitMemory"
  /\ \E ok \in RpcResults("memory") : RecordSubmission("memory", ok)
  /\ pc' = "publishLast"
  /\ UNCHANGED <<once, stop, cycle, slices, store, netVars, exitCode>>

\* A failed submission must not take the metric out of the snapshot.
Published == snapshot

ExitOnAnySubmission == IF result.submitted = {} THEN 1 ELSE 0
OnceExitCode == IF result.submitted = Metrics THEN 0 ELSE 1

\* The second update; run_once returns to main() or to run().
PublishLast ==
  /\ pc = "publishLast"
  /\ store' = Published
  /\ pc' = IF once THEN "exit" ELSE "log"
  /\ exitCode' = IF once THEN OnceExitCode ELSE exitCode
  /\ UNCHANGED <<once, stop, cycle, snapshot, result, slices, netVars>>

\* The test between the cycle and its pause.
AfterCycle ==
  /\ pc = "log"
  /\ pc' = IF stop THEN "stopped" ELSE "sleep"
  /\ slices' = SleepSlices
  /\ UNCHANGED <<once, stop, cycle, snapshot, result, store, netVars, exitCode>>

Sleep ==
  /\ pc = "sleep"
  /\ IF slices > 0 /\ ~stop
     THEN slices' = slices - 1 /\ UNCHANGED pc
     ELSE pc' = "test" /\ UNCHANGED slices
  /\ UNCHANGED <<once, stop, cycle, snapshot, result, store, netVars, exitCode>>

-----------------------------------------------------------------------------
(* The signal handler, the network and the server *)

\* The handlers are installed after the branch for --once.
Signal ==
  /\ ~once /\ ~stop
  /\ stop' = TRUE
  /\ UNCHANGED <<once, pc, cycle, snapshot, result, slices, store, netVars, exitCode>>

\* SubmitTelemetry accepts what to_proto produced.
ServerAccepts ==
  /\ \E event \in network :
       network' = network \ {event} /\ accepted' = accepted \cup {event}
  /\ UNCHANGED <<once, stop, pc, cycle, snapshot, result, slices, store, sent, exitCode>>

RequestLost ==
  /\ \E event \in network : network' = network \ {event}
  /\ UNCHANGED <<once, stop, pc, cycle, snapshot, result, slices, store, sent,
                 accepted, exitCode>>

RunnerStep ==
  \/ RunTest \/ Collect \/ Publish
  \/ \E metric \in Metrics : Submit(metric)
  \/ CpuReturns \/ MemoryReturns \/ PublishLast \/ AfterCycle \/ Sleep

Next == RunnerStep \/ Signal \/ ServerAccepts \/ RequestLost

Spec == Init /\ [][Next]_vars

-----------------------------------------------------------------------------
(* What the local server tells the Desktop: make_response *)

AgentState(s) ==
  CASE s = Empty -> "STARTING"
    [] s # Empty /\ s.metrics = Metrics /\ s.collectionErrors = {}
         /\ s.submissionErrors = {} -> "RUNNING"
    [] OTHER -> "DEGRADED"

\* Between the last publication of a cycle and the first of the next.
CycleDone == pc \in {"log", "sleep", "test", "stopped", "exit"} /\ cycle > 0

-----------------------------------------------------------------------------
(* Properties *)

\* No event leaves the machine before the Desktop can see its measurement: a
\* slow or dead server delays no local snapshot (lines 98, 112, 138;
\* docs/tasks/IPC-001.md:161-163).
LocalBeforeRemote == \A event \in sent : store.cycle >= event.cycle

\* The outcome of the RPCs changes nothing of what was measured: both
\* publications of a cycle hold the same metrics (lines 98, 150).
KeepStep ==
  store.cycle = store'.cycle =>
    store.metrics = store'.metrics /\ store.collectionErrors = store'.collectionErrors
SubmissionKeepsMetrics == [][KeepStep]_vars

\* A cycle ends in RUNNING only if the server accepted both of its events; a
\* timeout whose request is handled late never counts as success.
RunningMeansDelivered ==
  CycleDone /\ AgentState(store) = "RUNNING" =>
    \A metric \in Metrics : Event(metric, cycle) \in accepted

\* Every metric that was collected is submitted in its cycle, whatever
\* happened to the other one (lines 100-148).
EveryMetricSubmitted ==
  CycleDone => \A metric \in store.metrics : Event(metric, cycle) \in sent

\* A failure is never silent: what did not reach the server, or was not
\* collected, is in the error message and in the published snapshot.
FailuresReported ==
  CycleDone =>
    \A metric \in Metrics :
      Event(metric, cycle) \notin accepted =>
        /\ metric \in result.errors
        /\ metric \in store.collectionErrors \cup store.submissionErrors

\* guardian-agent --once returns 0 only after both events were accepted.
OnceExitHonest ==
  pc = "exit" /\ exitCode = 0 => {Event(metric, 1) : metric \in Metrics} \subseteq accepted

\* After the signal no new cycle begins: the three tests of the flag leave no
\* gap around the pause (lines 158, 172, 177).
StopStep == stop => cycle' = cycle
NoCycleAfterStop == [][StopStep]_vars

\* docs/tasks/WIN-003.md:160-161: the Agent "has not sent a new event after
\* the stop request".
SendStep == stop => sent' = sent
NoEventAfterStop == [][SendStep]_vars

=============================================================================
