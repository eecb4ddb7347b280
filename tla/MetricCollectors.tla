---------------------------- MODULE MetricCollectors ---------------------------
(***************************************************************************)
(* One collection of the two metrics,                                      *)
(* agent/src/windows/system_metrics_collector.cpp, and the events built    *)
(* from them.  The machine's counters and its memory are external: the     *)
(* true times grow without end, the counters hold them modulo Limit.       *)
(***************************************************************************)
EXTENDS Telemetry

CONSTANT MaxMemory  \* bound: amounts of memory, in units; at most Limit - 1

ASSUME MaxMemoryAssumption == MaxMemory \in Nat /\ MaxMemory < Limit

VARIABLES
  pc,
  began,     \* the true CPU times at the first reading
  ended,     \* and at the second
  previous,  \* an optional: the first reading
  cpu,       \* an optional CpuMetric
  status,    \* what GlobalMemoryStatusEx says
  memory     \* an optional MemoryMetric
vars == <<pc, began, ended, previous, cpu, status, memory>>

Times == [idle : UInt64, kernel : UInt64, user : UInt64]
Init ==
  /\ pc = "first"
  /\ began \in Times /\ ended = began
  /\ previous = {} /\ cpu = {} /\ memory = {}
  /\ status = [total |-> 0, available |-> 0]

\* GetSystemTimes: the true time as far as 64 bits hold it.
Counter(time) == IF time < Limit THEN time ELSE time - Limit
read_cpu_times(times) == [counter \in DOMAIN times |-> Counter(times[counter])]

-----------------------------------------------------------------------------
(* calculate_cpu_metric *)

WrapAround(difference) == IF difference < 0 THEN difference + Limit ELSE difference

\* The deltas of unsigned counters; a counter that went back ends the function.
Deltas(first, second) ==
  [counter \in DOMAIN first |-> WrapAround(second[counter] - first[counter])]
WentBack(first, second) == \E counter \in DOMAIN first : second[counter] < first[counter]

\* kernel_delta > max - user_delta: the sum would not fit.
SumAlwaysFits(delta) == TRUE
SumFits(delta) == delta.kernel <= Limit - 1 - delta.user
Total(delta) ==
  IF delta.kernel + delta.user < Limit THEN delta.kernel + delta.user
  ELSE delta.kernel + delta.user - Limit

calculate_cpu_metric(first, second) ==
  LET delta == Deltas(first, second) IN
    IF /\ ~WentBack(first, second)
       /\ SumFits(delta)
       /\ Total(delta) # 0 /\ delta.idle <= Total(delta)
    THEN {CpuMetric([num |-> Total(delta) - delta.idle, den |-> Total(delta)])}
    ELSE {}

-----------------------------------------------------------------------------
(* collect_cpu_metric and collect_memory_metric *)

FirstReading ==
  /\ pc = "first"
  /\ \/ previous' = {read_cpu_times(began)} /\ pc' = "sample"
     \/ previous' = {} /\ pc' = "memory"
  /\ UNCHANGED <<began, ended, cpu, status, memory>>

\* The machine runs during the sample, for less than a whole round of a counter.
Sample ==
  /\ pc = "sample"
  /\ \E spent \in Times : ended' = [c \in DOMAIN began |-> began[c] + spent[c]]
  /\ pc' = "second"
  /\ UNCHANGED <<began, previous, cpu, status, memory>>

SecondReading ==
  /\ pc = "second"
  /\ \/ cpu' = UNION {calculate_cpu_metric(first, read_cpu_times(ended)) : first \in previous}
     \/ cpu' = {}
  /\ pc' = "memory"
  /\ UNCHANGED <<began, ended, previous, status, memory>>

AnyMemory(now) == {MemoryMetric(now.total, now.available)}
MemoryMetricOf(now) ==
  IF now.total # 0 /\ now.available <= now.total
  THEN {MemoryMetric(now.total, now.available)} ELSE {}

CollectMemory ==
  /\ pc = "memory"
  /\ status' \in [total : 0 .. MaxMemory, available : 0 .. MaxMemory]
  /\ \/ memory' = MemoryMetricOf(status')
     \/ memory' = {}
  /\ pc' = "done"
  /\ UNCHANGED <<began, ended, previous, cpu>>

Next == FirstReading \/ Sample \/ SecondReading \/ CollectMemory
Spec == Init /\ [][Next]_vars

-----------------------------------------------------------------------------
(* Properties *)

\* What of the CPU's time was really spent during the sample.
Spent(counter) == ended[counter] - began[counter]

\* A counter that wraps, goes back or overflows the sum costs a measurement and
\* never yields a wrong one: a percentage, when there is one, is the true share
\* of the sample that was not idle (lines 45-65).
PercentIsTrue ==
  \A metric \in cpu :
    /\ metric.usage_percent.den = Spent("kernel") + Spent("user")
    /\ metric.usage_percent.num = metric.usage_percent.den - Spent("idle")

\* What the collectors return is never refused further on: not by to_proto, nor
\* by from_proto in the server, and it is there what it was here, whatever
\* the system reported (collector lines 61-73, 112-115; telemetry_event.cpp:46;
\* telemetry_conversion.cpp:26, 46).
CollectedIsAccepted ==
  \A event \in TelemetryEvent(cpu \cup memory) :
    event.id # "" /\ event.device_id # "" =>
      \E message \in to_proto(event) : from_proto(message) = {event}
=============================================================================
