---------------------------- MODULE ThreatEngine ----------------------------
(* The defensive engine of threat.rs: a profile per registered process,      *)
(* counters raised by record_*, and analyze, which turns them into events,   *)
(* scores and responses once per window.  Every entry point holds the        *)
(* engine's lock to its end.                                                 *)
EXTENDS Integers, Sequences

CONSTANTS Watched,  \* pids somebody registers after boot
          MaxWatched,\* the greatest of them
          TrustOf,  \* pid -> trust level it is registered with
          Bursts,   \* for each counter, how many calls of record_* come at once
          MaxBursts,\* bound: bursts recorded
          ScanGap,  \* ticks between two calls of analyze
          MaxScans  \* bound: calls of analyze

ASSUME ThreatAssumption ==
  /\ MaxWatched \in Nat /\ Watched \subseteq 1 .. MaxWatched
  /\ TrustOf \in [Watched -> {"kernel", "system", "user", "untrusted"}]
  /\ Bursts \in [{"syscalls", "writes", "denied"} -> SUBSET Nat]
  /\ MaxBursts \in Nat /\ MaxScans \in Nat /\ ScanGap \in Nat

VARIABLES
  profiles,    \* pid -> profile
  quarantined, \* the engine's list of pids
  log,         \* the events of the last call of analyze
  stats,       \* the counters of ThreatStats that respond changes
  scans,       \* scans_run; the n-th call comes at tick n * ScanGap
  bursts,      \* bursts recorded so far
  fresh        \* ghost: pids with an offence recorded since their last window

threatVars == << profiles, quarantined, log, stats, scans, bursts, fresh >>

Counters == {"syscalls", "writes", "denied"}
WindowTicks == 120
SmallerOf(a, b) == IF a < b THEN a ELSE b
Saturating(a, b) == IF a > b THEN a - b ELSE 0

NewProfile == [syscalls |-> 0, prev |-> 0, writes |-> 0, denied |-> 0,
               score |-> 0, quarantined |-> FALSE, window |-> 0]

ThreatInit ==
  /\ profiles = << >> /\ quarantined = {} /\ log = << >>
  /\ stats = [terminated |-> 0, isolated |-> 0, alerts |-> 0]
  /\ scans = 0 /\ bursts = 0 /\ fresh = {}

Known == DOMAIN profiles

(* register_process: its callers give a pid that has no profile. *)
RegisterProcess(p) ==
  /\ p \notin Known
  /\ profiles' = [q \in Known \cup {p} |-> IF q = p THEN NewProfile ELSE profiles[q]]
  /\ UNCHANGED << quarantined, log, stats, scans, bursts, fresh >>

\* The profile goes and the list of quarantined pids stays.
ForgottenProfile(state, p) ==
  [state EXCEPT !.profiles = [q \in DOMAIN @ \ {p} |-> @[q]]]

(* unregister_process, on the pair it works on. *)
Forgotten(state, p) ==
  [state EXCEPT !.profiles = [q \in DOMAIN @ \ {p} |-> @[q]], !.quarantined = @ \ {p}]

Engine == [profiles |-> profiles, quarantined |-> quarantined, stats |-> stats]
Become(state) == /\ profiles' = state.profiles
                 /\ quarantined' = state.quarantined
                 /\ stats' = state.stats

UnregisterProcess(p) ==
  /\ p \in Known
  /\ Become(Forgotten(Engine, p))
  /\ fresh' = fresh \ {p}
  /\ UNCHANGED << log, scans, bursts >>

(* record_syscall, record_file_write and record_denied, n times in a row. *)
Record(p, counter, n) ==
  /\ p \in Known /\ bursts < MaxBursts
  /\ profiles' = [profiles EXCEPT ![p][counter] = @ + n]
  /\ bursts' = bursts + 1
  /\ fresh' = fresh \cup {p}
  /\ UNCHANGED << quarantined, log, stats, scans >>

ReleaseQuarantine(p) ==
  /\ p \in quarantined
  /\ quarantined' = quarantined \ {p}
  /\ profiles' = [profiles EXCEPT ![p].quarantined = FALSE]
  /\ UNCHANGED << log, stats, scans, bursts, fresh >>

----------------------------------------------------------------------------
(* The three heuristics.  Each takes the scan of one process so far, its     *)
(* profile and its events, and gives the scan after it.                      *)

(* score_to_action; -20i32 as u32 is 2^32 - 20, written here as a number     *)
(* that is over the scale as well.                                           *)
Adjusted(total, trust) == CASE trust = "system" -> total + 15
                            [] trust = "user" -> total
                            [] trust = "untrusted" -> 1000000
ScoreToAction(total, trust) ==
  LET a == Adjusted(total, trust)
  IN CASE a <= 20 -> "log" [] a \in 21 .. 50 -> "alert" [] a \in 51 .. 80 -> "throttle"
       [] a \in 81 .. 95 -> "quarantine" [] a > 95 -> "terminate"

AddThreat(profile, score) == [profile EXCEPT !.score = SmallerOf(@ + score, 100)]

Offence(p, scan, kind, score) ==
  [profile |-> AddThreat(scan.profile, score),
   events  |-> Append(scan.events, [pid |-> p, kind |-> kind, score |-> score,
                 action |-> ScoreToAction(scan.profile.score + score, TrustOf[p])])]

Flood(p, scan) ==
  LET delta == Saturating(scan.profile.syscalls, scan.profile.prev)
      after == IF delta > 500
               THEN Offence(p, scan, "flood", SmallerOf(delta \div 10, 60))
               ELSE scan
  IN [after EXCEPT !.profile.prev = scan.profile.syscalls]

Writes(p, scan) ==
  IF scan.profile.writes > 100
  THEN [Offence(p, scan, "writes", 50) EXCEPT !.profile.writes = 0]
  ELSE scan

\* The denied accesses that were charged are kept.
DeniedKept(p, scan) ==
  IF scan.profile.denied > 5
  THEN Offence(p, scan, "denied", SmallerOf(scan.profile.denied * 8, 70))
  ELSE scan

Denied(p, scan) ==
  IF scan.profile.denied > 5
  THEN [Offence(p, scan, "denied", SmallerOf(scan.profile.denied * 8, 70))
          EXCEPT !.profile.denied = 0]
  ELSE scan

DecayScore(profile) == [profile EXCEPT !.score = Saturating(@, 2)]

(* One process of analyze's loop, at a tick. *)
Due(p, tick) == TrustOf[p] # "kernel" /\ Saturating(tick, profiles[p].window) >= WindowTicks
Scan(p, tick) ==
  IF Due(p, tick)
  THEN LET opened == [profile |-> [profiles[p] EXCEPT !.window = tick], events |-> << >>]
           scan == Denied(p, Writes(p, Flood(p, opened)))
       IN [scan EXCEPT !.profile = DecayScore(@)]
  ELSE [profile |-> profiles[p], events |-> << >>]

(* respond, for one event after the other. *)
Quarantine(state, p) ==
  IF p \in state.quarantined THEN state
  ELSE [state EXCEPT !.quarantined = @ \cup {p}, !.stats.isolated = @ + 1,
          !.profiles = IF p \in DOMAIN @ THEN [@ EXCEPT ![p].quarantined = TRUE] ELSE @]
Terminate(state, p) == Forgotten([state EXCEPT !.stats.terminated = @ + 1], p)

Respond(state, event) ==
  CASE event.action = "log" -> state
    [] event.action \in {"alert", "throttle"} -> [state EXCEPT !.stats.alerts = @ + 1]
    [] event.action = "quarantine" -> Quarantine(state, event.pid)
    [] event.action = "terminate" -> Terminate(state, event.pid)

(* Every process in the order of the pids, then every event in that order.   *)
(* Both loops are recursive functions, so that one can prove what they do.   *)
Events(scanned) ==
  LET events[p \in 0 .. MaxWatched] ==
        IF p = 0 THEN << >>
        ELSE IF p \in DOMAIN scanned THEN events[p - 1] \o scanned[p].events
        ELSE events[p - 1]
  IN  events[MaxWatched]

RespondAll(state, events) ==
  LET after[i \in 0 .. Len(events)] ==
        IF i = 0 THEN state ELSE Respond(after[i - 1], events[i])
  IN  after[Len(events)]

Analyze ==
  /\ scans < MaxScans
  /\ scans' = scans + 1
  /\ LET tick == scans' * ScanGap
         scanned == [p \in Known |-> Scan(p, tick)]
         examined == [Engine EXCEPT !.profiles = [p \in Known |-> scanned[p].profile]]
     IN /\ log' = Events(scanned)
        /\ Become(RespondAll(examined, log'))
        /\ fresh' = fresh \ {p \in Known : Due(p, tick)}
  /\ UNCHANGED bursts

----------------------------------------------------------------------------
ThreatNext ==
  \/ \E p \in Watched : RegisterProcess(p)
  \/ \E p \in Watched : UnregisterProcess(p)
  \/ \E p \in Watched, counter \in Counters :
       \E n \in Bursts[counter] : Record(p, counter, n)
  \/ \E p \in Watched : ReleaseQuarantine(p)
  \/ Analyze

ThreatSpec == ThreatInit /\ [][ThreatNext]_threatVars

----------------------------------------------------------------------------
Profile == [syscalls : Nat, prev : Nat, writes : Nat, denied : Nat,
            score : 0 .. 100, quarantined : BOOLEAN, window : Nat]
Actions == {"log", "alert", "throttle", "quarantine", "terminate"}
Event == [pid : Watched, kind : {"flood", "writes", "denied"}, score : 1 .. 70,
          action : Actions]

ThreatTypeOK ==
  /\ Known \subseteq Watched
  /\ \A p \in Known : profiles[p] \in Profile
  /\ quarantined \subseteq Watched
  /\ \A i \in DOMAIN log : log[i] \in Event
  /\ stats \in [terminated : Nat, isolated : Nat, alerts : Nat]
  /\ scans \in 0 .. MaxScans /\ bursts \in 0 .. MaxBursts
  /\ fresh \subseteq Watched

(* The list of quarantined pids and the flags in the profiles are one fact:  *)
(* no pid stays in quarantine after its profile is gone, although responses  *)
(* run after the scan, in a row, and one of them may remove the process the  *)
(* next one is about (analyze, respond, unregister_process).                 *)
QuarantineKnown == quarantined = {p \in Known : profiles[p].quarantined}

(* A process is answered for offences once: a scan raises an event only for  *)
(* a process that did something since its previous window, whatever counts   *)
(* an earlier scan left below its thresholds (analyze, lines 269 to 305).    *)
NoDoubleJeopardy ==
  [][scans' # scans => \A i \in DOMAIN log' : log'[i].pid \in fresh]_threatVars
=============================================================================
