----------------------- MODULE MCSystemMetricsViewModel -----------------------
(***************************************************************************)
(* The responses make_response can build (agent/src/local_ipc_server.cpp,  *)
(* lines 80-139), each fresh or old on arrival.                            *)
(***************************************************************************)
EXTENDS SystemMetricsViewModel

AgentSnapshots ==
  {s \in SnapshotRecords :
     /\ ~s.has => ~s.cpu /\ ~s.memory /\ ~s.old
     /\ s.state = "Starting" <=> ~s.has
     /\ s.state = "Running" => s.cpu /\ s.memory}

\* The first answer, a complete one that is fresh or old, and a degraded one
\* that lacks a metric.  A degraded one that lacks none sets what a complete
\* one sets, but for the status text.
FewSnapshots ==
  {s \in AgentSnapshots :
     s.has => s.cpu /\ (s.memory <=> s.state = "Running") /\ ~(s.old /\ s.state = "Degraded")}
=============================================================================
