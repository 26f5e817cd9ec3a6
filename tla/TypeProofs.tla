----------------------------- MODULE TypeProofs -----------------------------
(***************************************************************************)
(* The services, side by side, keep their state well-formed: each does by  *)
(* the invariant that is proved of it, and no step of one is a step of     *)
(* another.                                                                *)
(***************************************************************************)
EXTENDS Services, ServiceProofs, ClusterProofs, ProgramProofs

(* The registry, the table of containers and the tasks under way hold what    *)
(* exec_elf, kill and the container's calls put there (process.rs, virt.rs).  *)
THEOREM SupervisorTypes == SupervisorSpec => []SupervisorTypeOK
<1>1. IInv => SupervisorTypeOK
  BY DEF IInv
<1> QED
  BY <1>1, SupervisorInvariant, PTL

(* The engine's profiles, counters and events are those of processes it was   *)
(* told of (threat.rs).                                                       *)
THEOREM ThreatTypes == ThreatSpec => []ThreatTypeOK
<1>1. ASSUME ThreatInv PROVE ThreatTypeOK
  <2>1. /\ Known \subseteq Watched /\ profiles \in [Known -> Profile]
        /\ quarantined \subseteq Watched /\ stats \in Outcomes
    BY <1>1, Typed DEF ThreatInv
  <2>2. \A p \in Known : profiles[p] \in Profile
    BY <2>1
  <2>3. \A i \in DOMAIN log : log[i] \in Event
    BY <1>1 DEF ThreatInv
  <2> QED
    BY <1>1, <2>1, <2>2, <2>3 DEF ThreatInv, ThreatTypeOK, Outcomes
<1> QED
  BY <1>1, ThreatInvariant, PTL

(* The heads, sessions, clipboard and verdicts are those of the paths, texts  *)
(* and peers there are, and dated no later than the clock (dag_sig.rs,        *)
(* xdev.rs).                                                                  *)
THEOREM WritersTypes == WritersSpec => []WritersTypeOK
<1>1. ASSUME WritersInv PROVE WritersTypeOK
  <2>1. \A p \in DOMAIN head : head[p] \in [ts : 0 .. MaxClock, payload : Contents]
    BY <1>1 DEF WritersInv, HeadsTyped, Blocks
  <2>2. \A s \in DOMAIN bus.sessions :
          bus.sessions[s] \in [payload : Contents, current : Remote \cup {This},
                               state : {"active", "resumed"}]
    <3>1. bus.sessions \in Seq(SessionStates)
      BY <1>1 DEF WritersInv, BusTyped
    <3>2. \A s \in DOMAIN bus.sessions : bus.sessions[s] \in SessionStates
      BY <3>1
    <3> QED
      BY <3>2 DEF SessionStates, Devices
  <2>3. bus.clipboard \in Contents \cup {None}
    BY <1>1 DEF WritersInv, BusTyped
  <2>4. signing.at \in {"idle", "seq", "verify", "tick", "store"}
    BY <1>1 DEF WritersInv, SigningTyped, SignSteps
  <2>5. chain.ok \in Nat /\ chain.fail \in Nat
    BY <1>1 DEF WritersInv, VerdictsCounted
  <2>6. now \in 0 .. MaxClock /\ sequence \in 1 .. MaxWritten
    BY <1>1 DEF WritersInv, HeadsTyped
  <2> QED
    BY <2>1, <2>2, <2>3, <2>4, <2>5, <2>6 DEF WritersTypeOK
<1> QED
  BY <1>1, WritersInvariant, PTL

(* The services above the scheduler and the runtimes beside them, in any      *)
(* interleaving of theirs: the state of each is well-formed.                  *)
THEOREM ServicesAreTyped == ServicesSpec => []ServicesTypeOK
<1>1. EdgeSpec => []EdgeTypeOK
  BY SettledOnceAlways, PTL
<1>2. PeersSpec => []PeersTypeOK
  BY PeersAreReal, PTL
<1> QED
  BY SupervisorTypes, ThreatTypes, <1>1, <1>2, MonitorTypes, CognitionTypes, WritersTypes,
     TelemetryTypes, QueuesAndBuffersFit, PTL
  DEF ServicesSpec, EnginesSpec, ProgramsSpec, ServicesTypeOK
=============================================================================
