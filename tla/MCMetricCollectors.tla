-------------------------- MODULE MCMetricCollectors --------------------------
(* Counters of two bits: every pair of readings, with every wrap. *)
EXTENDS MetricCollectors
=============================================================================
