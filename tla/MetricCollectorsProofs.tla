------------------------ MODULE MetricCollectorsProofs ------------------------
(***************************************************************************)
(* What a collected metric is worth, for counters of any width, any times  *)
(* on them and any amount of memory.                                       *)
(***************************************************************************)
EXTENDS MetricCollectors, TLAPS

-----------------------------------------------------------------------------
(* calculate_cpu_metric *)

\* The machine's true times after a sample in which it spent these.
After(times, spent) == [c \in DOMAIN times |-> times[c] + spent[c]]

\* A counter that did not go back has not wrapped: its difference is the true one.
LEMMA DifferenceIsTrue ==
  ASSUME NEW time \in UInt64, NEW spent \in UInt64,
         ~(Counter(time + spent) < Counter(time))
  PROVE  WrapAround(Counter(time + spent) - Counter(time)) = spent
BY LimitAssumption DEF UInt64, Counter, WrapAround

\* A sum that fits is the true sum.
LEMMA TotalIsTrue ==
  ASSUME NEW delta \in Times, SumFits(delta)
  PROVE  Total(delta) = delta.kernel + delta.user
BY LimitAssumption DEF Times, UInt64, SumFits, Total

\* The share of a sample that was not idle.
TotalOf(spent) == spent.kernel + spent.user
BusyShare(spent) == [num |-> TotalOf(spent) - spent.idle, den |-> TotalOf(spent)]

\* What the function returns is the share of the sample that was not idle.
LEMMA MetricIsTrue ==
  ASSUME NEW times \in Times, NEW spent \in Times,
         NEW metric \in calculate_cpu_metric(read_cpu_times(times),
                                             read_cpu_times(After(times, spent)))
  PROVE  /\ TotalOf(spent) > 0 /\ spent.idle <= TotalOf(spent)
         /\ metric = CpuMetric(BusyShare(spent))
<1> DEFINE first  == read_cpu_times(times)
           second == read_cpu_times(After(times, spent))
           delta  == Deltas(first, second)
<1>1. DOMAIN times = {"idle", "kernel", "user"}
  BY DEF Times
<1>2. \A c \in {"idle", "kernel", "user"} : times[c] \in UInt64 /\ spent[c] \in UInt64
  BY DEF Times
<1>3. /\ DOMAIN first = {"idle", "kernel", "user"}
      /\ \A c \in {"idle", "kernel", "user"} :
           first[c] = Counter(times[c]) /\ second[c] = Counter(times[c] + spent[c])
  BY <1>1 DEF read_cpu_times, After
<1>4. ~WentBack(first, second)
  BY DEF calculate_cpu_metric
<1>5. ASSUME NEW c \in {"idle", "kernel", "user"}
      PROVE  delta[c] = spent[c]
  <2>1. delta[c] = WrapAround(second[c] - first[c])
    BY <1>3 DEF Deltas
  <2>2. ~(second[c] < first[c])
    BY <1>3, <1>4 DEF WentBack
  <2> HIDE DEF first, second, delta
  <2> QED
    BY <1>2, <1>3, <2>1, <2>2, DifferenceIsTrue
<1>6. delta = [idle |-> spent.idle, kernel |-> spent.kernel, user |-> spent.user]
  <2>1. delta = [c \in {"idle", "kernel", "user"} |-> delta[c]]
    BY <1>3 DEF Deltas
  <2> HIDE DEF delta
  <2> QED
    BY <1>5, <2>1
<1>7. delta \in Times
  <2> HIDE DEF delta
  <2> QED
    BY <1>6, <1>2 DEF Times
<1>8. SumFits(delta) /\ Total(delta) # 0 /\ delta.idle <= Total(delta)
      /\ metric = CpuMetric([num |-> Total(delta) - delta.idle, den |-> Total(delta)])
  BY DEF calculate_cpu_metric
<1> HIDE DEF first, second, delta
<1>9. Total(delta) = delta.kernel + delta.user
  BY <1>7, <1>8, TotalIsTrue
<1>10. delta.idle = spent.idle /\ delta.kernel = spent.kernel /\ delta.user = spent.user
  BY <1>6
<1>11. spent.kernel \in Nat /\ spent.user \in Nat /\ spent.idle \in Nat
  BY <1>2, LimitAssumption DEF UInt64
<1>12. Total(delta) = TotalOf(spent) /\ TotalOf(spent) \in Nat
  BY <1>9, <1>10, <1>11 DEF TotalOf
<1>13. TotalOf(spent) > 0 /\ spent.idle <= TotalOf(spent)
  BY <1>8, <1>10, <1>11, <1>12
<1>14. metric = CpuMetric(BusyShare(spent))
  BY <1>8, <1>10, <1>12, Zenon DEF BusyShare
<1> QED
  BY <1>13, <1>14

-----------------------------------------------------------------------------
(* What is valid goes through the conversions unchanged *)

LEMMA PayloadRoundTrip ==
  ASSUME NEW metric \in MetricPayload
  PROVE  /\ Payload(PayloadMessage(metric)) = metric
         /\ PayloadMessage(metric).payload_case # "not_set"
<1>1. CASE metric \in [type : {"cpu"}, usage_percent : Double]
  BY <1>1 DEF Payload, PayloadMessage, CpuMetric, MemoryMetric
<1>2. CASE metric \in [type : {"memory"}, total_bytes : UInt64, available_bytes : UInt64]
  BY <1>2 DEF Payload, PayloadMessage, CpuMetric, MemoryMetric
<1> QED
  BY <1>1, <1>2 DEF MetricPayload

LEMMA RoundTrip ==
  ASSUME NEW event \in TelemetryEvent(MetricPayload), is_valid(event)
  PROVE  from_proto(Message(event)) = {event}
<1>1. event.payload \in MetricPayload
  BY DEF TelemetryEvent
<1>2. HasPayload(Message(event))
  BY <1>1, PayloadRoundTrip DEF HasPayload, Message
<1>3. Event(Message(event)) = event
  <2>1. Payload(Message(event).payload) = event.payload
    BY <1>1, PayloadRoundTrip DEF Message
  <2> QED
    BY <2>1 DEF Event, Message, TelemetryEvent
<1> QED
  BY <1>2, <1>3 DEF from_proto

-----------------------------------------------------------------------------
(* The inductive invariant *)

PCs == {"first", "sample", "second", "memory", "done"}

\* The readings so far, and the times the machine really had.
ReadingsTrue ==
  /\ began \in Times /\ ended \in [{"idle", "kernel", "user"} -> Int]
  /\ pc \in {"sample", "second"} => previous = {read_cpu_times(began)}
  /\ pc = "second" => \E spent \in Times : ended = After(began, spent)

\* Nothing is there before it was collected.
NotYet ==
  /\ pc \in {"first", "sample", "second"} => cpu = {}
  /\ pc # "done" => memory = {}

\* What was collected is a valid payload.
MetricsValid == \A metric \in cpu \cup memory : metric \in MetricPayload /\ ValidPayload(metric)

Inv == pc \in PCs /\ ReadingsTrue /\ NotYet /\ MetricsValid /\ PercentIsTrue

\* Init establishes the invariant: nothing was read.
LEMMA InitInv == Init => Inv
<1> SUFFICES ASSUME Init PROVE Inv
  OBVIOUS
<1>1. ended \in [{"idle", "kernel", "user"} -> Int]
  BY LimitAssumption DEF Init, Times, UInt64
<1>2. MetricsValid /\ PercentIsTrue
  BY DEF Init, MetricsValid, PercentIsTrue
<1> QED
  BY <1>1, <1>2 DEF Init, Inv, PCs, ReadingsTrue, NotYet

\* The metric of a sample is valid and true.
LEMMA CollectedCpu ==
  ASSUME Inv, pc = "second",
         NEW metric \in UNION {calculate_cpu_metric(first, read_cpu_times(ended)) :
                                 first \in previous}
  PROVE  /\ metric \in MetricPayload /\ ValidPayload(metric)
         /\ metric.usage_percent.den = Spent("kernel") + Spent("user")
         /\ metric.usage_percent.num = metric.usage_percent.den - Spent("idle")
<1>1. PICK spent \in Times : ended = After(began, spent)
  BY DEF Inv, ReadingsTrue
<1>2. metric \in calculate_cpu_metric(read_cpu_times(began), read_cpu_times(After(began, spent)))
  BY <1>1 DEF Inv, ReadingsTrue
<1> DEFINE ratio == BusyShare(spent)
<1>3. TotalOf(spent) > 0 /\ spent.idle <= TotalOf(spent) /\ metric = CpuMetric(ratio)
  <2>1. began \in Times
    BY DEF Inv, ReadingsTrue
  <2> QED
    BY <1>2, <2>1, MetricIsTrue
<1>4. /\ spent.idle \in Nat /\ spent.kernel \in Nat /\ spent.user \in Nat
      /\ began.idle \in Int /\ began.kernel \in Int /\ began.user \in Int
  BY LimitAssumption DEF Inv, ReadingsTrue, Times, UInt64
<1>5. ratio \in Double /\ ratio.num >= 0 /\ ratio.num <= ratio.den /\ ratio.den > 0
  BY <1>3, <1>4 DEF Double, BusyShare, TotalOf
<1>6. Spent("kernel") = spent.kernel /\ Spent("user") = spent.user /\ Spent("idle") = spent.idle
  BY <1>1, <1>4 DEF Spent, After, Inv, ReadingsTrue, Times
<1>7. ratio.den = Spent("kernel") + Spent("user") /\ ratio.num = ratio.den - Spent("idle")
  BY <1>6 DEF BusyShare, TotalOf
<1> HIDE DEF ratio
<1>8. metric = [type |-> "cpu", usage_percent |-> ratio]
  BY <1>3 DEF CpuMetric
<1>9. metric \in MetricPayload
  BY <1>5, <1>8 DEF MetricPayload
<1>10. ValidPayload(metric)
  BY <1>5, <1>8 DEF ValidPayload, isfinite, AtLeast0, AtMost100
<1> QED
  BY <1>7, <1>8, <1>9, <1>10

\* So is the amount of memory, whatever the system says.
LEMMA CollectedMemory ==
  ASSUME NEW now \in [total : 0 .. MaxMemory, available : 0 .. MaxMemory],
         NEW metric \in MemoryMetricOf(now)
  PROVE  metric \in MetricPayload /\ ValidPayload(metric)
<1>1. /\ now.total # 0 /\ now.available <= now.total
      /\ metric = [type |-> "memory", total_bytes |-> now.total,
                   available_bytes |-> now.available]
  BY DEF MemoryMetricOf, MemoryMetric
<1>2. now.total \in UInt64 /\ now.available \in UInt64
  BY MaxMemoryAssumption, LimitAssumption DEF UInt64
<1>3. now.total > 0
  BY <1>1, MaxMemoryAssumption
<1> QED
  BY <1>1, <1>2, <1>3 DEF MetricPayload, ValidPayload

\* Every step of the collection keeps the invariant.
LEMMA NextInv == Inv /\ [Next]_vars => Inv'
<1> SUFFICES ASSUME Inv, [Next]_vars PROVE Inv'
  OBVIOUS
<1>1. CASE UNCHANGED vars
  BY <1>1 DEF vars, Inv, ReadingsTrue, NotYet, MetricsValid, PercentIsTrue, Spent
<1>2. CASE FirstReading
  <2>1. UNCHANGED <<began, ended, cpu, memory>> /\ cpu = {} /\ memory = {}
    BY <1>2 DEF FirstReading, Inv, NotYet
  <2>2. pc' \in PCs /\ ReadingsTrue' /\ NotYet'
    BY <1>2, <2>1 DEF FirstReading, Inv, PCs, ReadingsTrue, NotYet
  <2> QED
    BY <2>1, <2>2 DEF Inv, MetricsValid, PercentIsTrue
<1>3. CASE Sample
  <2>1. PICK spent \in Times : ended' = After(began, spent)
    BY <1>3 DEF Sample, After
  <2>2. UNCHANGED <<began, previous, cpu, memory>> /\ cpu = {} /\ memory = {}
        /\ pc = "sample" /\ pc' = "second"
    BY <1>3 DEF Sample, Inv, NotYet
  <2>3. ended' \in [{"idle", "kernel", "user"} -> Int]
    BY <2>1, LimitAssumption DEF Inv, ReadingsTrue, After, Times, UInt64
  <2>4. ReadingsTrue' /\ NotYet'
    BY <2>1, <2>2, <2>3 DEF Inv, ReadingsTrue, NotYet
  <2> QED
    BY <2>2, <2>4 DEF Inv, MetricsValid, PercentIsTrue, PCs
<1>4. CASE SecondReading
  <2>1. UNCHANGED <<began, ended, previous, memory>> /\ memory = {}
        /\ pc = "second" /\ pc' = "memory"
    BY <1>4 DEF SecondReading, Inv, NotYet
  <2>2. ASSUME NEW metric \in cpu'
        PROVE  /\ metric \in MetricPayload /\ ValidPayload(metric)
               /\ metric.usage_percent.den = Spent("kernel") + Spent("user")
               /\ metric.usage_percent.num = metric.usage_percent.den - Spent("idle")
    BY <1>4, <2>1, CollectedCpu DEF SecondReading
  <2>3. PercentIsTrue'
    BY <2>1, <2>2 DEF PercentIsTrue, Spent
  <2>4. MetricsValid'
    BY <2>1, <2>2 DEF MetricsValid
  <2> QED
    BY <2>1, <2>3, <2>4 DEF Inv, PCs, ReadingsTrue, NotYet
<1>5. CASE CollectMemory
  <2>1. UNCHANGED <<began, ended, previous, cpu>> /\ pc = "memory" /\ pc' = "done"
    BY <1>5 DEF CollectMemory
  <2>2. \A metric \in memory' : metric \in MetricPayload /\ ValidPayload(metric)
    BY <1>5, CollectedMemory DEF CollectMemory
  <2>3. MetricsValid'
    BY <2>1, <2>2 DEF Inv, MetricsValid
  <2>4. PercentIsTrue'
    BY <2>1 DEF Inv, PercentIsTrue, Spent
  <2> QED
    BY <2>1, <2>3, <2>4 DEF Inv, PCs, ReadingsTrue, NotYet
<1> QED
  BY <1>1, <1>2, <1>3, <1>4, <1>5 DEF Next

-----------------------------------------------------------------------------
(* The theorems *)

\* Every reachable state satisfies the inductive invariant.
THEOREM InvariantHolds == Spec => []Inv
BY InitInv, NextInv, PTL DEF Spec

\* A percentage, when there is one, is the true share of the sample that was
\* not idle, however wide the counters are and wherever they wrap.
THEOREM PercentagesAreTrue == Spec => []PercentIsTrue
<1>1. Inv => PercentIsTrue
  BY DEF Inv
<1> QED
  BY <1>1, InvariantHolds, PTL

\* Whatever was collected passes to_proto and from_proto and arrives as it was.
THEOREM CollectedArrives == Spec => []CollectedIsAccepted
<1>1. Inv => CollectedIsAccepted
  <2> SUFFICES ASSUME Inv, NEW event \in TelemetryEvent(cpu \cup memory),
                      event.id # "" /\ event.device_id # ""
               PROVE  \E message \in to_proto(event) : from_proto(message) = {event}
    BY DEF CollectedIsAccepted
  <2>1. event.payload \in MetricPayload /\ ValidPayload(event.payload)
    BY DEF Inv, MetricsValid, TelemetryEvent
  <2>2. event \in TelemetryEvent(MetricPayload) /\ is_valid(event)
    BY <2>1 DEF TelemetryEvent, is_valid
  <2>3. Message(event) \in to_proto(event)
    BY <2>2 DEF to_proto
  <2> QED
    BY <2>2, <2>3, RoundTrip
<1> QED
  BY <1>1, InvariantHolds, PTL
=============================================================================
