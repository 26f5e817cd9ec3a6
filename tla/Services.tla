------------------------------ MODULE Services ------------------------------
(* The services above the scheduler and the runtimes beside them, side by    *)
(* side.  They share no state.                                               *)
EXTENDS Supervisor, ThreatEngine, Edge, Peers, Engines, StoreWriters,
        Programs, Quantum, Cloud

ServicesSpec ==
  /\ SupervisorSpec /\ ThreatSpec /\ EdgeSpec /\ PeersSpec /\ EnginesSpec
  /\ WritersSpec /\ ProgramsSpec /\ QuantumSpec /\ CloudSpec

(* Each service's state is well-formed: its tables hold only what its         *)
(* operations put there, and its lists keep to their bounds.                 *)
ServicesTypeOK ==
  /\ SupervisorTypeOK /\ ThreatTypeOK /\ EdgeTypeOK /\ PeersTypeOK
  /\ MonitorTypeOK /\ CognitionTypeOK /\ WritersTypeOK /\ TelemetryTypeOK /\ CompositorTypeOK
=============================================================================
