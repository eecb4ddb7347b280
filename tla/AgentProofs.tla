----------------------------- MODULE AgentProofs -----------------------------
(***************************************************************************)
(* What holds of the Agent's telemetry thread for any number of cycles and *)
(* any length of the pause between them, and of the process around it for  *)
(* any command line, at any moment a signal or a clock adjustment comes.   *)
(***************************************************************************)
EXTENDS Agent, TLAPS

-----------------------------------------------------------------------------
(* The inductive invariant of the thread *)

Submitting == {"cpu", "awaitCpu", "memory", "awaitMemory", "publishLast"}
Between    == {"log", "sleep", "test", "stopped", "exit"}

\* The cycle the local snapshot and the store belong to.
CyclesInStep ==
  /\ store.cycle <= cycle
  /\ pc \in Submitting \cup {"publish"} \cup Between => snapshot.cycle = cycle
  /\ pc \in Submitting \cup Between => store.cycle = cycle
  /\ pc \in {"collect", "publish"} => store.cycle < cycle
  /\ once => cycle = 1 /\ pc \notin Between \ {"exit"}
  /\ cycle = 0 => pc \in {"test", "stopped"}
  /\ \A event \in sent : event.cycle <= store.cycle

\* A metric whose turn to be submitted has passed in this cycle.
Attempted(metric) ==
  IF metric = "cpu" THEN pc \in {"memory", "awaitMemory", "publishLast"} \cup Between
  ELSE pc \in {"publishLast"} \cup Between

\* What the cycle has recorded so far agrees with what happened.
RecordsTrue ==
  pc # "collect" /\ cycle > 0 =>
    /\ snapshot.collectionErrors = Metrics \ snapshot.metrics
    /\ result.errors = snapshot.collectionErrors \cup snapshot.submissionErrors
    /\ \A metric \in result.submitted : Event(metric, cycle) \in accepted
    /\ \A metric \in snapshot.metrics : Attempted(metric) =>
         /\ metric \in result.submitted \cup snapshot.submissionErrors
         /\ Event(metric, cycle) \in sent

\* A submission is under way only for a metric that was collected.
TurnOfMetric ==
  /\ pc = "cpu" => "cpu" \in snapshot.metrics
  /\ pc = "awaitCpu" => Event("cpu", cycle) \in sent
  /\ pc = "memory" => "memory" \in snapshot.metrics
  /\ pc = "awaitMemory" => Event("memory", cycle) \in sent

\* After the second publication the store holds the cycle's final snapshot.
FinalPublished ==
  /\ pc \in Between /\ cycle > 0 => store = snapshot
  /\ pc = "exit" /\ exitCode = 0 => once /\ result.submitted = Metrics

\* Between the publications the store holds what the second will repeat.
Measured ==
  pc \in Submitting =>
    store.metrics = snapshot.metrics /\ store.collectionErrors = snapshot.collectionErrors

IInv == TypeOK /\ CyclesInStep /\ RecordsTrue /\ TurnOfMetric /\ FinalPublished /\ Measured

USE DEF Metrics, Submitting, Between, Attempted

\* Init establishes the invariant.
LEMMA InitIInv == Init => IInv
<1> SUFFICES ASSUME Init PROVE IInv
  OBVIOUS
<1>1. Empty \in Snapshots /\ NoResult \in [submitted : SUBSET Metrics, errors : SUBSET Metrics]
  BY MaxCyclesAssumption DEF Snapshots, Empty, NoResult
<1>2. cycle \in 0 .. MaxCycles /\ slices \in 0 .. SleepSlices
  BY MaxCyclesAssumption, SleepSlicesAssumption DEF Init
<1>3. pc \in {"test", "collect"} /\ cycle \in {0, 1} /\ (once => cycle = 1 /\ pc = "collect")
      /\ (cycle = 0 => pc = "test") /\ (cycle = 1 => pc = "collect")
  BY DEF Init
<1>4. TypeOK
  BY <1>1, <1>2, <1>3 DEF Init, TypeOK, PCs
<1>5. CyclesInStep
  BY <1>3 DEF Init, CyclesInStep, Empty
<1>6. RecordsTrue /\ TurnOfMetric /\ FinalPublished /\ Measured
  BY <1>3 DEF Init, RecordsTrue, TurnOfMetric, FinalPublished, Measured
<1> QED
  BY <1>4, <1>5, <1>6 DEF IInv

\* Every step of the thread, the signal, the network and the server keeps it.
LEMMA NextIInv == IInv /\ [Next]_vars => IInv'
<1> SUFFICES ASSUME IInv, [Next]_vars PROVE IInv'
  OBVIOUS
<1> USE DEF IInv, TypeOK, CyclesInStep, RecordsTrue, TurnOfMetric, FinalPublished,
            Measured, PCs, Snapshots, netVars
<1>1. CASE UNCHANGED vars
  BY <1>1 DEF vars
<1>2. CASE RunTest
  <2>1. TypeOK'
    BY <1>2, MaxCyclesAssumption DEF RunTest
  <2>2. CyclesInStep'
    BY <1>2, MaxCyclesAssumption DEF RunTest
  <2>3. RecordsTrue'
    BY <1>2, MaxCyclesAssumption DEF RunTest
  <2>4. TurnOfMetric'
    BY <1>2, MaxCyclesAssumption DEF RunTest
  <2>5. FinalPublished' /\ Measured'
    BY <1>2, MaxCyclesAssumption DEF RunTest
  <2> QED
    BY <2>1, <2>2, <2>3, <2>4, <2>5
<1>3. CASE Collect
  BY <1>3 DEF Collect
<1>4. CASE Publish
  <2>1. TypeOK'
    BY <1>4 DEF Publish, FirstSubmission, AfterCpu
  <2>2. CyclesInStep'
    <3>1. store'.cycle = cycle /\ snapshot'.cycle = cycle /\ cycle' = cycle /\ once' = once
      BY <1>4 DEF Publish
    <3>2. pc' \in Submitting /\ cycle # 0
      BY <1>4 DEF Publish, FirstSubmission, AfterCpu
    <3>3. cycle \in Nat /\ store.cycle \in Nat
      BY MaxCyclesAssumption
    <3>4. ASSUME NEW event \in sent PROVE event.cycle <= cycle
      <4>1. event.cycle \in Nat /\ event.cycle <= store.cycle /\ store.cycle <= cycle
        BY MaxCyclesAssumption DEF Events
      <4> QED
        BY <4>1, <3>3
    <3>5. sent' = sent
      BY <1>4 DEF Publish
    <3> QED
      BY <3>1, <3>2, <3>3, <3>4, <3>5
  <2>3. RecordsTrue'
    BY <1>4 DEF Publish, FirstSubmission, AfterCpu
  <2>4. TurnOfMetric'
    BY <1>4 DEF Publish, FirstSubmission, AfterCpu
  <2>5. FinalPublished' /\ Measured'
    BY <1>4 DEF Publish, FirstSubmission, AfterCpu
  <2> QED
    BY <2>1, <2>2, <2>3, <2>4, <2>5
<1>5. ASSUME NEW metric \in Metrics, Submit(metric) PROVE IInv'
  BY <1>5 DEF Submit, Event, Events
<1>6. CASE CpuReturns
  <2>1. TypeOK'
    BY <1>6 DEF CpuReturns, RpcResults, RecordSubmission, AfterCpu
  <2>2. CyclesInStep'
    BY <1>6 DEF CpuReturns, RpcResults, RecordSubmission, AfterCpu
  <2>3. RecordsTrue'
    <3>1. PICK ok \in RpcResults("cpu") : RecordSubmission("cpu", ok)
      BY <1>6 DEF CpuReturns
    <3>2. ok \in BOOLEAN /\ (ok => Event("cpu", cycle) \in accepted)
      BY <3>1 DEF RpcResults
    <3>3. snapshot'.collectionErrors = snapshot.collectionErrors
          /\ snapshot'.metrics = snapshot.metrics
          /\ snapshot'.submissionErrors =
               snapshot.submissionErrors \cup (IF ok THEN {} ELSE {"cpu"})
      BY <3>1 DEF RecordSubmission
    <3>4. result'.submitted = result.submitted \cup (IF ok THEN {"cpu"} ELSE {})
          /\ result'.errors = result.errors \cup (IF ok THEN {} ELSE {"cpu"})
      BY <3>1 DEF RecordSubmission
    <3>5. cycle' = cycle /\ sent' = sent /\ accepted' = accepted /\ pc # "collect"
      BY <1>6 DEF CpuReturns
    <3>6. cycle > 0 => result'.errors = snapshot'.collectionErrors \cup snapshot'.submissionErrors
      BY <3>3, <3>4, <3>5
    <3>7. cycle > 0 => \A metric \in result'.submitted : Event(metric, cycle) \in accepted
      BY <3>2, <3>4, <3>5
    <3>8. ASSUME NEW metric \in snapshot.metrics, Attempted(metric)', cycle > 0
          PROVE  /\ metric \in result'.submitted \cup snapshot'.submissionErrors
                 /\ Event(metric, cycle) \in sent
      <4>1. CASE metric = "cpu"
        BY <4>1, <1>6, <3>2, <3>3, <3>4 DEF CpuReturns
      <4>2. CASE metric # "cpu"
        <5>1. Attempted(metric) /\ metric \in Metrics
          BY <4>2, <1>6, <3>8 DEF CpuReturns, AfterCpu
        <5> QED
          BY <5>1, <3>3, <3>4, <3>5, <3>8
      <4> QED
        BY <4>1, <4>2
    <3> QED
      BY <3>3, <3>5, <3>6, <3>7, <3>8
  <2>4. TurnOfMetric'
    BY <1>6 DEF CpuReturns, RpcResults, RecordSubmission, AfterCpu
  <2>5. FinalPublished' /\ Measured'
    BY <1>6 DEF CpuReturns, RpcResults, RecordSubmission, AfterCpu
  <2> QED
    BY <2>1, <2>2, <2>3, <2>4, <2>5
<1>7. CASE MemoryReturns
  <2>1. TypeOK'
    BY <1>7 DEF MemoryReturns, RpcResults, RecordSubmission
  <2>2. CyclesInStep'
    BY <1>7 DEF MemoryReturns, RpcResults, RecordSubmission
  <2>3. RecordsTrue'
    <3>1. PICK ok \in RpcResults("memory") : RecordSubmission("memory", ok)
      BY <1>7 DEF MemoryReturns
    <3>2. ok \in BOOLEAN /\ (ok => Event("memory", cycle) \in accepted)
      BY <3>1 DEF RpcResults
    <3>3. snapshot'.collectionErrors = snapshot.collectionErrors
          /\ snapshot'.metrics = snapshot.metrics
          /\ snapshot'.submissionErrors =
               snapshot.submissionErrors \cup (IF ok THEN {} ELSE {"memory"})
      BY <3>1 DEF RecordSubmission
    <3>4. result'.submitted = result.submitted \cup (IF ok THEN {"memory"} ELSE {})
          /\ result'.errors = result.errors \cup (IF ok THEN {} ELSE {"memory"})
      BY <3>1 DEF RecordSubmission
    <3>5. cycle' = cycle /\ sent' = sent /\ accepted' = accepted /\ pc # "collect"
      BY <1>7 DEF MemoryReturns
    <3>6. cycle > 0 => result'.errors = snapshot'.collectionErrors \cup snapshot'.submissionErrors
      BY <3>3, <3>4, <3>5
    <3>7. cycle > 0 => \A metric \in result'.submitted : Event(metric, cycle) \in accepted
      BY <3>2, <3>4, <3>5
    <3>8. ASSUME NEW metric \in snapshot.metrics, Attempted(metric)', cycle > 0
          PROVE  /\ metric \in result'.submitted \cup snapshot'.submissionErrors
                 /\ Event(metric, cycle) \in sent
      <4>1. CASE metric = "memory"
        BY <4>1, <1>7, <3>2, <3>3, <3>4 DEF MemoryReturns
      <4>2. CASE metric # "memory"
        <5>1. Attempted(metric) /\ metric \in Metrics
          BY <4>2, <1>7, <3>8 DEF MemoryReturns
        <5> QED
          BY <5>1, <3>3, <3>4, <3>5, <3>8
      <4> QED
        BY <4>1, <4>2
    <3> QED
      BY <3>3, <3>5, <3>6, <3>7, <3>8
  <2>4. TurnOfMetric'
    BY <1>7 DEF MemoryReturns, RpcResults, RecordSubmission
  <2>5. FinalPublished' /\ Measured'
    BY <1>7 DEF MemoryReturns, RpcResults, RecordSubmission
  <2> QED
    BY <2>1, <2>2, <2>3, <2>4, <2>5
<1>8. CASE PublishLast
  BY <1>8 DEF PublishLast, Published, OnceExitCode
<1>9. CASE AfterCycle
  BY <1>9, SleepSlicesAssumption DEF AfterCycle
<1>10. CASE Sleep
  BY <1>10, SleepSlicesAssumption DEF Sleep
<1>11. CASE Signal
  BY <1>11 DEF Signal
<1>12. CASE ServerAccepts
  BY <1>12 DEF ServerAccepts
<1>13. CASE RequestLost
  BY <1>13 DEF RequestLost
<1> QED
  BY <1>1, <1>2, <1>3, <1>4, <1>5, <1>6, <1>7, <1>8, <1>9, <1>10, <1>11, <1>12, <1>13
     DEF Next, RunnerStep

-----------------------------------------------------------------------------
(* What the thread does once it runs *)

\* Every reachable state satisfies the inductive invariant.
THEOREM InvariantHolds == Spec => []IInv
BY InitIInv, NextIInv, PTL DEF Spec

\* The thread's variables stay in their domains: collection_interval never
\* runs below zero and the store only ever holds a cycle's snapshot.
THEOREM TypeCorrect == Spec => []TypeOK
<1>1. IInv => TypeOK
  BY DEF IInv
<1> QED
  BY <1>1, InvariantHolds, PTL

\* What was sent belongs to a cycle that is in the store.
LEMMA LocalFromInv == IInv => LocalBeforeRemote
<1> SUFFICES ASSUME IInv, NEW event \in sent PROVE store.cycle >= event.cycle
  BY DEF LocalBeforeRemote
<1>1. event.cycle \in Nat /\ store.cycle \in Nat /\ event.cycle <= store.cycle
  BY MaxCyclesAssumption DEF IInv, TypeOK, CyclesInStep, Events, Snapshots
<1> QED
  BY <1>1

\* No event is handed to gRPC before the Desktop can see its measurement
\* (telemetry_runner.cpp, line 98 before lines 112 and 138).
THEOREM LocalFirst == Spec => []LocalBeforeRemote
BY LocalFromInv, InvariantHolds, PTL

\* RUNNING leaves room for no error, and what has no error was accepted.
LEMMA RunningFromInv == IInv => RunningMeansDelivered
<1> SUFFICES ASSUME IInv, CycleDone, AgentState(store) = "RUNNING", NEW metric \in Metrics
             PROVE Event(metric, cycle) \in accepted
  BY DEF RunningMeansDelivered
<1>1. pc \in Between /\ pc # "collect" /\ cycle > 0 /\ store = snapshot
  BY DEF CycleDone, IInv, FinalPublished
<1>2. store.metrics = Metrics /\ store.submissionErrors = {}
  BY DEF AgentState
<1>3. metric \in result.submitted
  BY <1>1, <1>2 DEF IInv, RecordsTrue
<1> QED
  BY <1>1, <1>3 DEF IInv, RecordsTrue

\* A cycle that ends RUNNING had both of its events accepted by the server:
\* neither a timeout nor a late handling can make a cycle look delivered.
THEOREM RunningIsDelivered == Spec => []RunningMeansDelivered
BY RunningFromInv, InvariantHolds, PTL

\* What was collected is submitted in its cycle, whatever happened to the
\* other metric.
THEOREM NothingSkipped == Spec => []EveryMetricSubmitted
<1>1. IInv => EveryMetricSubmitted
  BY DEF EveryMetricSubmitted, CycleDone, IInv, RecordsTrue, FinalPublished
<1> QED
  BY <1>1, InvariantHolds, PTL

\* What was not accepted was not submitted, and so it is among the errors.
LEMMA FailuresFromInv == IInv => FailuresReported
<1> SUFFICES ASSUME IInv, CycleDone, NEW metric \in Metrics,
                    Event(metric, cycle) \notin accepted
             PROVE  /\ metric \in result.errors
                    /\ metric \in store.collectionErrors \cup store.submissionErrors
  BY DEF FailuresReported
<1>1. pc \in Between /\ pc # "collect" /\ cycle > 0 /\ store = snapshot
  BY DEF CycleDone, IInv, FinalPublished
<1>2. metric \notin result.submitted
  BY <1>1 DEF IInv, RecordsTrue
<1>3. metric \in snapshot.collectionErrors \cup snapshot.submissionErrors
  BY <1>1, <1>2 DEF IInv, RecordsTrue
<1> QED
  BY <1>1, <1>3 DEF IInv, RecordsTrue

\* A metric that did not reach the server is in the cycle's error message and
\* in the snapshot the Desktop receives.
THEOREM NoSilentFailure == Spec => []FailuresReported
BY FailuresFromInv, InvariantHolds, PTL

\* Exit code 0 needs both metrics submitted in the one cycle.
LEMMA OnceFromInv == IInv => OnceExitHonest
<1> SUFFICES ASSUME IInv, pc = "exit", exitCode = 0, NEW metric \in Metrics
             PROVE Event(metric, 1) \in accepted
  BY DEF OnceExitHonest
<1>1. cycle = 1 /\ metric \in result.submitted
  BY DEF IInv, FinalPublished, CyclesInStep
<1> QED
  BY <1>1 DEF IInv, RecordsTrue

\* guardian-agent --once exits 0 only when the server has both events.
THEOREM OnceIsHonest == Spec => []OnceExitHonest
BY OnceFromInv, InvariantHolds, PTL

\* The second publication of a cycle repeats the measurements of the first.
THEOREM MetricsSurviveSubmission == Spec => SubmissionKeepsMetrics
<1>1. IInv /\ [Next]_vars => [KeepStep]_vars
  <2> SUFFICES ASSUME IInv, Next, store.cycle = store'.cycle
               PROVE  store.metrics = store'.metrics
                      /\ store.collectionErrors = store'.collectionErrors
    BY DEF KeepStep
  <2>1. CASE Publish
    BY <2>1, MaxCyclesAssumption DEF Publish, IInv, TypeOK, CyclesInStep, Snapshots
  <2>2. CASE PublishLast
    BY <2>2 DEF PublishLast, Published, IInv, Measured
  <2>3. CASE store' = store
    BY <2>3
  <2> QED
    BY <2>1, <2>2, <2>3 DEF Next, RunnerStep, RunTest, Collect, Submit, CpuReturns,
       MemoryReturns, AfterCycle, Sleep, Signal, ServerAccepts, RequestLost
<1> QED
  BY <1>1, InvariantHolds, PTL DEF Spec, SubmissionKeepsMetrics

\* No cycle begins after the signal.
THEOREM StopEndsCycles == Spec => NoCycleAfterStop
<1>1. [Next]_vars => [StopStep]_vars
  BY DEF Next, RunnerStep, vars, netVars, StopStep, RunTest, Collect, Publish, Submit,
         CpuReturns, MemoryReturns, PublishLast, AfterCycle, Sleep, Signal,
         ServerAccepts, RequestLost
<1> QED
  BY <1>1, PTL DEF Spec, NoCycleAfterStop

-----------------------------------------------------------------------------
(* The inductive invariant of the process *)

\* Before the loop there is nothing of it; a refused command line leaves this.
NeverRan ==
  /\ once \in BOOLEAN /\ stop = FALSE /\ pc = "test" /\ cycle = 0
  /\ snapshot = Empty /\ result = NoResult /\ slices = 0 /\ store = Empty
  /\ sent = {} /\ network = {} /\ accepted = {}

\* The loop's invariant holds from the moment main() enters it, for ever.
PhaseInv ==
  /\ phase \in {"args", "running", "stopping", "exited", "killed"}
  /\ phase = "args" => NeverRan /\ exitCode = 0
  /\ phase \in {"running", "stopping"} => IInv
  /\ NeverRan \/ IInv

\* A cycle gets its timestamp when its metrics are collected.
OneStampPerCycle ==
  /\ clock \in Nat /\ setBacks \in Nat /\ stamps \in Seq(Nat)
  /\ Len(stamps) = IF pc = "collect" THEN cycle - 1 ELSE cycle

\* The pause has moved the clock past every timestamp.
ClockMoved ==
  pc = "collect" \/ (pc = "test" /\ ~stop) \/ (pc = "sleep" /\ slices < SleepSlices)

\* While the clock only goes forward, timestamps rise from cycle to cycle.
StampsRise ==
  setBacks = 0 =>
    /\ \A i, j \in 1 .. Len(stamps) : i < j => stamps[i] < stamps[j]
    /\ \A i \in 1 .. Len(stamps) :
         stamps[i] <= clock /\ (ClockMoved => stamps[i] < clock)

AgentInv == PhaseInv /\ OneStampPerCycle /\ StampsRise

\* At the start there is no cycle and no timestamp.
LEMMA InitAgentInv == AgentInit => AgentInv
<1> SUFFICES ASSUME AgentInit PROVE AgentInv
  OBVIOUS
<1>1. PhaseInv
  BY DEF AgentInit, PhaseInv, NeverRan
<1>2. OneStampPerCycle
  BY DEF AgentInit, OneStampPerCycle
<1>3. StampsRise
  BY DEF AgentInit, StampsRise
<1> QED
  BY <1>1, <1>2, <1>3 DEF AgentInv

\* main() enters the loop in one of its initial states.
LEMMA BeginsInLoop == PhaseInv /\ Begin => IInv'
<1>1. PhaseInv /\ Begin => Init'
  BY DEF PhaseInv, NeverRan, Begin, Init, netVars
<1>2. Init' => IInv'
  BY InitIInv, PTL
<1> QED
  BY <1>1, <1>2

\* Outside the loop main() leaves the thread's variables alone.
LEMMA PhaseStep == PhaseInv /\ [AgentNext]_agentVars => PhaseInv'
<1> SUFFICES ASSUME PhaseInv, [AgentNext]_agentVars PROVE PhaseInv'
  OBVIOUS
<1>1. CASE UNCHANGED <<vars, phase>>
  <2>1. [Next]_vars
    BY <1>1
  <2>2. IInv => IInv'
    BY <2>1, NextIInv
  <2> QED
    BY <1>1, <2>2 DEF PhaseInv, NeverRan, vars
<1>2. ASSUME NEW code \in {0, 1, 2}, Return(code), phase = "args" PROVE PhaseInv'
  BY <1>2 DEF Return, NotRunning, netVars, PhaseInv, NeverRan
<1>3. CASE Once
  BY <1>3 DEF Once, Reading, netVars, PhaseInv, NeverRan
<1>4. CASE TakesValue
  BY <1>4 DEF TakesValue, Reading, NotRunning, netVars, PhaseInv, NeverRan
<1>5. CASE Begin
  <2>1. IInv'
    BY <1>5, BeginsInLoop
  <2>2. phase' = "running"
    BY <1>5 DEF Begin
  <2> QED
    BY <2>1, <2>2 DEF PhaseInv
<1>6. ASSUME phase \in {"running", "stopping"}, Next, phase' = phase PROVE PhaseInv'
  <2>1. IInv'
    BY <1>6, NextIInv DEF PhaseInv
  <2> QED
    BY <1>6, <2>1 DEF PhaseInv
<1>7. CASE RunnerWorks
  BY <1>6, <1>7 DEF RunnerWorks, Next, mainVars
<1>8. CASE EndOfRun \/ StopReturned
  <2>1. UNCHANGED vars /\ phase \in {"running", "stopping"}
        /\ phase' \in {"stopping", "exited"}
    BY <1>8 DEF EndOfRun, StopReturned
  <2>2. IInv'
    BY <2>1, NextIInv DEF PhaseInv
  <2> QED
    BY <2>1, <2>2 DEF PhaseInv
<1>9. CASE CtrlC
  <2>1. CASE phase # "args" /\ ~once /\ ~stop
    BY <1>6, <1>9, <2>1 DEF CtrlC, Next
  <2>2. CASE ~(phase # "args" /\ ~once /\ ~stop)
    <3>1. phase' = "killed" /\ UNCHANGED vars
      BY <1>9, <2>2 DEF CtrlC
    <3>2. IInv => IInv'
      BY <3>1, NextIInv
    <3>3. NeverRan => NeverRan'
      BY <3>1 DEF vars, NeverRan
    <3> QED
      BY <3>1, <3>2, <3>3 DEF PhaseInv
  <2> QED
    BY <2>1, <2>2
<1>10. CASE Network
  BY <1>6, <1>10 DEF Network, Next, mainVars
<1>11. CASE ClockSetBack
  BY <1>1, <1>11 DEF ClockSetBack, mainVars
<1>12. CASE UNCHANGED agentVars
  BY <1>1, <1>12 DEF agentVars, mainVars
<1>13. CASE HelpOrVersion \/ WrongArgument \/ BadInterval
  BY <1>2, <1>13 DEF HelpOrVersion, WrongArgument, BadInterval, Reading
<1> QED
  BY <1>3, <1>4, <1>5, <1>7, <1>8, <1>9, <1>10, <1>11, <1>12, <1>13 DEF AgentNext, MainStep

\* Nothing of the stamps changes where neither a collection nor a slice of the
\* pause does: the clock may only have moved forward.
LEMMA StampsKept ==
  ASSUME AgentInv, UNCHANGED <<stamps, setBacks, clock>>,
         Len(stamps) = IF pc' = "collect" THEN cycle' - 1 ELSE cycle',
         ClockMoved' => ClockMoved \/ Len(stamps) = 0
  PROVE  OneStampPerCycle' /\ StampsRise'
BY DEF AgentInv, OneStampPerCycle, StampsRise

\* Every step of the process keeps one rising stamp per cycle.
LEMMA StampStep == AgentInv /\ [AgentNext]_agentVars => OneStampPerCycle' /\ StampsRise'
<1> SUFFICES ASSUME AgentInv, [AgentNext]_agentVars PROVE OneStampPerCycle' /\ StampsRise'
  OBVIOUS
<1>1. ASSUME UNCHANGED <<pc, cycle, stop, slices, clockVars>>
      PROVE OneStampPerCycle' /\ StampsRise'
  <2>1. UNCHANGED <<clock, setBacks, stamps>>
    BY <1>1 DEF clockVars
  <2>2. ClockMoved' <=> ClockMoved
    BY <1>1 DEF ClockMoved
  <2>3. Len(stamps) = IF pc' = "collect" THEN cycle' - 1 ELSE cycle'
    BY <1>1 DEF AgentInv, OneStampPerCycle
  <2> QED
    BY <2>1, <2>2, <2>3, StampsKept
<1>2. CASE RunnerWorks
  <2>1. IInv
    BY <1>2 DEF RunnerWorks, AgentInv, PhaseInv
  <2>2. cycle \in Nat /\ slices \in 0 .. SleepSlices /\ clock \in Nat /\ setBacks \in Nat
    BY <2>1, MaxCyclesAssumption DEF IInv, TypeOK, AgentInv, OneStampPerCycle
  <2>3. CASE RunTest
    <3>1. UNCHANGED <<stamps, setBacks, clock>>
      BY <1>2, <2>3 DEF RunnerWorks, TimePasses, RunTest
    <3>2. Len(stamps) = IF pc' = "collect" THEN cycle' - 1 ELSE cycle'
      BY <2>2, <2>3 DEF RunTest, AgentInv, OneStampPerCycle
    <3>3. ClockMoved' => ClockMoved
      BY <2>3 DEF RunTest, ClockMoved
    <3> QED
      BY <3>1, <3>2, <3>3, StampsKept
  <2>4. CASE Collect
    <3>1. /\ pc = "collect" /\ pc' = "publish" /\ cycle' = cycle /\ setBacks' = setBacks
          /\ stamps' = Append(stamps, clock') /\ clock' \in {clock, clock + 1}
      BY <1>2, <2>4 DEF RunnerWorks, TimePasses, Collect
    <3>2. clock' \in Nat /\ clock' >= clock
      BY <2>2, <3>1
    <3>3. /\ stamps' \in Seq(Nat) /\ Len(stamps') = Len(stamps) + 1
          /\ \A i \in 1 .. Len(stamps) : stamps'[i] = stamps[i]
          /\ stamps'[Len(stamps) + 1] = clock'
      BY <3>1, <3>2 DEF AgentInv, OneStampPerCycle
    <3>4. OneStampPerCycle'
      BY <2>2, <3>1, <3>2, <3>3 DEF AgentInv, OneStampPerCycle
    <3>5. ~ClockMoved'
      BY <3>1 DEF ClockMoved
    <3>6. ASSUME setBacks = 0, NEW i \in 1 .. Len(stamps)
          PROVE  stamps[i] \in Nat /\ stamps[i] < clock
      BY <3>1, <3>6 DEF AgentInv, StampsRise, OneStampPerCycle, ClockMoved
    <3>7. StampsRise'
      <4> SUFFICES ASSUME setBacks = 0
                   PROVE  /\ \A i, j \in 1 .. Len(stamps') : i < j => stamps'[i] < stamps'[j]
                          /\ \A i \in 1 .. Len(stamps') : stamps'[i] <= clock'
        BY <3>1, <3>5 DEF StampsRise
      <4>1. Len(stamps) \in Nat
        BY DEF AgentInv, OneStampPerCycle
      <4>2. \A i \in 1 .. Len(stamps') : i \in 1 .. Len(stamps) \/ i = Len(stamps) + 1
        BY <4>1, <3>3
      <4>3. \A i \in 1 .. Len(stamps) : stamps'[i] < clock' /\ stamps'[i] <= clock'
        BY <2>2, <3>2, <3>3, <3>6
      <4>4. ASSUME NEW i \in 1 .. Len(stamps'), NEW j \in 1 .. Len(stamps'), i < j
            PROVE  stamps'[i] < stamps'[j]
        <5>1. i \in 1 .. Len(stamps)
          BY <4>1, <4>2, <4>4, <3>3
        <5>2. CASE j = Len(stamps) + 1
          BY <5>1, <5>2, <3>3, <4>3
        <5>3. CASE j \in 1 .. Len(stamps)
          BY <5>1, <5>3, <4>4, <3>3 DEF AgentInv, StampsRise
        <5> QED
          BY <4>2, <5>2, <5>3
      <4> QED
        BY <3>2, <3>3, <4>2, <4>3, <4>4
    <3> QED
      BY <3>4, <3>7
  <2>5. CASE Sleep /\ slices > 0 /\ ~stop
    <3>1. /\ pc = "sleep" /\ pc' = "sleep" /\ cycle' = cycle /\ setBacks' = setBacks
          /\ stamps' = stamps /\ clock' = clock + 1
      BY <1>2, <2>2, <2>5 DEF RunnerWorks, TimePasses, Sleep
    <3>2. OneStampPerCycle'
      BY <2>2, <3>1 DEF AgentInv, OneStampPerCycle
    <3>3. \A i \in 1 .. Len(stamps) : stamps[i] \in Nat
      BY DEF AgentInv, OneStampPerCycle
    <3>4. StampsRise'
      BY <2>2, <3>1, <3>3 DEF AgentInv, StampsRise
    <3> QED
      BY <3>2, <3>4
  <2>6. CASE Sleep /\ ~(slices > 0 /\ ~stop)
    <3>1. UNCHANGED <<stamps, setBacks, clock, stop>> /\ pc = "sleep" /\ pc' = "test"
          /\ cycle' = cycle /\ slices' = slices
      BY <1>2, <2>2, <2>6 DEF RunnerWorks, TimePasses, Sleep
    <3>2. ClockMoved' => ClockMoved
      BY <2>2, <2>6, <3>1, SleepSlicesAssumption DEF ClockMoved
    <3>3. Len(stamps) = IF pc' = "collect" THEN cycle' - 1 ELSE cycle'
      BY <3>1 DEF AgentInv, OneStampPerCycle
    <3> QED
      BY <3>1, <3>2, <3>3, StampsKept
  <2>7. ASSUME \/ Publish \/ (\E metric \in Metrics : Submit(metric)) \/ CpuReturns
               \/ MemoryReturns \/ PublishLast \/ AfterCycle
        PROVE OneStampPerCycle' /\ StampsRise'
    <3>1. /\ pc \notin {"collect", "sleep", "test"} /\ pc' \notin {"collect", "test"}
          /\ cycle' = cycle
      BY <2>7 DEF Publish, Submit, CpuReturns, MemoryReturns, PublishLast, AfterCycle,
                  FirstSubmission, AfterCpu
    <3>2. UNCHANGED <<stamps, setBacks, clock>>
      BY <1>2, <3>1 DEF RunnerWorks, TimePasses
    <3>3. pc' = "sleep" => slices' = SleepSlices
      BY <2>7 DEF Publish, Submit, CpuReturns, MemoryReturns, PublishLast, AfterCycle,
                  FirstSubmission, AfterCpu
    <3>4. ~ClockMoved'
      BY <3>1, <3>3, SleepSlicesAssumption DEF ClockMoved
    <3>5. Len(stamps) = IF pc' = "collect" THEN cycle' - 1 ELSE cycle'
      BY <3>1 DEF AgentInv, OneStampPerCycle
    <3> QED
      BY <3>2, <3>4, <3>5, StampsKept
  <2> QED
    BY <1>2, <2>3, <2>4, <2>5, <2>6, <2>7 DEF RunnerWorks, RunnerStep
<1>3. CASE Begin
  <2>1. pc = "test" /\ cycle = 0 /\ UNCHANGED <<stamps, setBacks, clock>>
        /\ \/ pc' = "collect" /\ cycle' = 1
           \/ pc' = "test" /\ cycle' = 0
    BY <1>3 DEF Begin, AgentInv, PhaseInv, NeverRan, clockVars
  <2>2. Len(stamps) = 0
    BY <2>1 DEF AgentInv, OneStampPerCycle
  <2> QED
    BY <2>1, <2>2, StampsKept
<1>4. CASE CtrlC
  <2>1. UNCHANGED <<stamps, setBacks, clock, pc, cycle, slices>>
        /\ (stop' = stop \/ stop' = TRUE)
    BY <1>4 DEF CtrlC, Signal, vars, clockVars
  <2>2. ClockMoved' => ClockMoved
    BY <2>1 DEF ClockMoved
  <2>3. Len(stamps) = IF pc' = "collect" THEN cycle' - 1 ELSE cycle'
    BY <2>1 DEF AgentInv, OneStampPerCycle
  <2> QED
    BY <2>1, <2>2, <2>3, StampsKept
<1>5. CASE ClockSetBack
  <2>1. /\ UNCHANGED <<pc, cycle, stamps>> /\ setBacks' = setBacks + 1
        /\ clock' \in 0 .. clock - 1
    BY <1>5 DEF ClockSetBack, vars
  <2>2. clock \in Nat /\ setBacks \in Nat
    BY DEF AgentInv, OneStampPerCycle
  <2>3. clock' \in Nat /\ setBacks' \in Nat /\ setBacks' # 0
    BY <2>1, <2>2
  <2> QED
    BY <2>1, <2>3 DEF AgentInv, OneStampPerCycle, StampsRise
<1>6. CASE HelpOrVersion \/ Once \/ TakesValue \/ WrongArgument \/ BadInterval
  BY <1>1, <1>6 DEF HelpOrVersion, Once, TakesValue, WrongArgument, BadInterval, Return,
                    NotRunning
<1>7. CASE EndOfRun \/ StopReturned \/ UNCHANGED agentVars
  BY <1>1, <1>7 DEF EndOfRun, StopReturned, agentVars, vars
<1>8. CASE Network
  BY <1>1, <1>8 DEF Network, ServerAccepts, RequestLost
<1> QED
  BY <1>2, <1>3, <1>4, <1>5, <1>6, <1>7, <1>8 DEF AgentNext, MainStep

-----------------------------------------------------------------------------
(* What the process does, from its first argument to its end *)

\* Every reachable state of the process satisfies the inductive invariant.
THEOREM AgentInvariantHolds == AgentSpec => []AgentInv
<1>1. AgentInv /\ [AgentNext]_agentVars => AgentInv'
  BY PhaseStep, StampStep DEF AgentInv
<1> QED
  BY <1>1, InitAgentInv, PTL DEF AgentSpec
\* No two events of a process have one id while the clock only goes forward:
\* the pause outlasts the resolution of the timestamps.
THEOREM EventIdsAreUnique == AgentSpec => []EventIdsUnique
<1>1. AgentInv => EventIdsUnique
  <2> SUFFICES ASSUME AgentInv, setBacks = 0, NEW e \in sent, NEW f \in sent,
                      EventId(e) = EventId(f)
               PROVE  e = f
    BY DEF EventIdsUnique
  <2>1. IInv
    BY DEF AgentInv, PhaseInv, NeverRan
  <2>2. e \in Events /\ f \in Events
    BY <2>1 DEF IInv, TypeOK
  <2>3. \A event \in sent : event.cycle \in 1 .. Len(stamps)
    <3>1. \A event \in sent : event.cycle <= store.cycle /\ event.cycle \in 1 .. MaxCycles
      BY <2>1 DEF IInv, TypeOK, CyclesInStep, Events
    <3>2. store.cycle <= Len(stamps) /\ Len(stamps) \in Nat /\ store.cycle \in Nat
      BY <2>1, MaxCyclesAssumption
         DEF IInv, TypeOK, CyclesInStep, Snapshots, AgentInv, OneStampPerCycle
    <3> QED
      BY <3>1, <3>2, MaxCyclesAssumption
  <2>4. e.metric = f.metric /\ stamps[e.cycle] = stamps[f.cycle]
    BY DEF EventId
  <2>5. e.cycle = f.cycle
    <3>1. \A i \in 1 .. Len(stamps) : stamps[i] \in Nat
      BY DEF AgentInv, OneStampPerCycle
    <3>2. \A i, j \in 1 .. Len(stamps) : i < j => stamps[i] < stamps[j]
      BY DEF AgentInv, StampsRise
    <3>3. e.cycle \in 1 .. Len(stamps) /\ f.cycle \in 1 .. Len(stamps)
      BY <2>3
    <3>4. ~(e.cycle < f.cycle) /\ ~(f.cycle < e.cycle)
      BY <2>4, <3>1, <3>2, <3>3
    <3> QED
      BY <3>3, <3>4
  <2> QED
    BY <2>2, <2>4, <2>5 DEF Events
<1> QED
  BY <1>1, AgentInvariantHolds, PTL

\* The Desktop sees a measurement before gRPC does, at every moment of the
\* process, one-shot runs and refused command lines included.
THEOREM AgentLocalFirst == AgentSpec => []LocalBeforeRemote
<1>1. AgentInv => LocalBeforeRemote
  BY LocalFromInv DEF AgentInv, PhaseInv, NeverRan, LocalBeforeRemote
<1> QED
  BY <1>1, AgentInvariantHolds, PTL

\* A RUNNING cycle was delivered, in the process as in the loop alone.
THEOREM AgentRunningIsDelivered == AgentSpec => []RunningMeansDelivered
<1>1. AgentInv => RunningMeansDelivered
  BY RunningFromInv DEF AgentInv, PhaseInv, NeverRan, RunningMeansDelivered, CycleDone
<1> QED
  BY <1>1, AgentInvariantHolds, PTL

\* A failure is in the error message and in the store, in the process too.
THEOREM AgentNoSilentFailure == AgentSpec => []FailuresReported
<1>1. AgentInv => FailuresReported
  BY FailuresFromInv DEF AgentInv, PhaseInv, NeverRan, FailuresReported, CycleDone
<1> QED
  BY <1>1, AgentInvariantHolds, PTL

\* guardian-agent --once, from the command line to its exit code, is honest.
THEOREM AgentOnceIsHonest == AgentSpec => []OnceExitHonest
<1>1. AgentInv => OnceExitHonest
  BY OnceFromInv DEF AgentInv, PhaseInv, NeverRan, OnceExitHonest
<1> QED
  BY <1>1, AgentInvariantHolds, PTL
=============================================================================
