---------------------------- MODULE MCTelemetryRpc ----------------------------
(* Payloads at the edge of what is valid, and messages the Agent never sends. *)
EXTENDS TelemetryRpc
MCPayloads == {CpuMetric([num |-> 1, den |-> 1]), CpuMetric([num |-> 0, den |-> 0])}
MCForeign ==
  {[event_id |-> "a", timestamp_unix_ms |-> 1, device_id |-> "a", process_id |-> {},
    payload |-> payload] :
     payload \in {NoPayload, PayloadMessage(MemoryMetric(1, 2)),
                  PayloadMessage(MemoryMetric(2, 2))}}
=============================================================================
