------------------------------- MODULE Telemetry -------------------------------
(***************************************************************************)
(* Telemetry events, their protobuf messages and the conversions between   *)
(* them: common/src/telemetry_event.cpp and                                *)
(* proto/src/telemetry_conversion.cpp.  All of it is pure.                 *)
(*                                                                         *)
(* A std::optional is the set of its values.  Texts are what the code      *)
(* tells apart: empty or not.  A percentage, a double, is a ratio num/den: *)
(* with den = 0 it is an infinity or NaN.  Rounding is left out: it is     *)
(* monotone, so it keeps a quotient of at most 1 at most 1.                *)
(***************************************************************************)
EXTENDS Integers, FiniteSets

CONSTANTS
  Limit,      \* 2^64: one more than a std::uint64_t holds
  Names,      \* the non-empty event and device ids
  Timestamps,
  ProcessIds

ASSUME LimitAssumption == Limit \in Nat \ {0}
ASSUME NamesAssumption == "" \notin Names

UInt64 == 0 .. Limit - 1
Double == [num : Int, den : Nat]
Text == Names \cup {""}
OptionalOf(S) == {{}} \cup {{value} : value \in S}

-----------------------------------------------------------------------------
(* The model: std::variant<CpuMetric, MemoryMetric> and the event around it *)

CpuMetric(usage) == [type |-> "cpu", usage_percent |-> usage]
MemoryMetric(total, available) ==
  [type |-> "memory", total_bytes |-> total, available_bytes |-> available]

MetricPayload ==
  [type : {"cpu"}, usage_percent : Double]
    \cup [type : {"memory"}, total_bytes : UInt64, available_bytes : UInt64]

TelemetryEvent(payloads) ==
  [id : Text, timestamp : Timestamps, device_id : Text,
   process_id : OptionalOf(ProcessIds), payload : payloads]

isfinite(x) == x.den > 0
AtLeast0(x) == x.num >= 0
AtMost100(x) == x.num <= x.den

ValidPayload(metric) ==
  IF metric.type = "cpu"
  THEN isfinite(metric.usage_percent) /\ AtLeast0(metric.usage_percent)
         /\ AtMost100(metric.usage_percent)
  ELSE metric.total_bytes > 0 /\ metric.available_bytes <= metric.total_bytes

is_valid(event) ==
  event.id # "" /\ event.device_id # "" /\ ValidPayload(event.payload)

-----------------------------------------------------------------------------
(* guardian.v1.TelemetryEvent: a message can also lack its payload *)

NoPayload == [payload_case |-> "not_set"]

PayloadMessage(metric) ==
  IF metric.type = "cpu"
  THEN [payload_case |-> "cpu_metric", usage_percent |-> metric.usage_percent]
  ELSE [payload_case |-> "memory_metric", total_bytes |-> metric.total_bytes,
        available_bytes |-> metric.available_bytes]

Message(event) ==
  [event_id |-> event.id, timestamp_unix_ms |-> event.timestamp,
   device_id |-> event.device_id, process_id |-> event.process_id,
   payload |-> PayloadMessage(event.payload)]

ForgetProcess(event) ==
  IF is_valid(event) THEN {[Message(event) EXCEPT !.process_id = {}]} ELSE {}

to_proto(event) == IF is_valid(event) THEN {Message(event)} ELSE {}

Payload(message) ==
  IF message.payload_case = "cpu_metric" THEN CpuMetric(message.usage_percent)
  ELSE MemoryMetric(message.total_bytes, message.available_bytes)

Event(message) ==
  [id |-> message.event_id, timestamp |-> message.timestamp_unix_ms,
   device_id |-> message.device_id, process_id |-> message.process_id,
   payload |-> Payload(message.payload)]

HasPayload(message) == message.payload.payload_case # "not_set"

TrustPayload(message) == IF HasPayload(message) THEN {Event(message)} ELSE {}

from_proto(message) ==
  IF HasPayload(message) /\ is_valid(Event(message)) THEN {Event(message)} ELSE {}
=============================================================================
