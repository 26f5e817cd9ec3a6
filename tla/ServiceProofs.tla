---------------------------- MODULE ServiceProofs ----------------------------
(* Theorems about the kernel's services: the monitor (module Monitor), the    *)
(* cognitive engine (Cognition), the prediction cycle (Telemetry), the        *)
(* registry of processes and the containers (Supervisor), and the engine that *)
(* watches the processes (ThreatEngine).                                     *)
EXTENDS Engines, Supervisor, ThreatEngine, SequenceFacts

-----------------------------------------------------------------------------
(***************************************************************************)
(* The monitor.  The alerts of a kind that are up are at most one, and     *)
(* once a snapshot is taken they are what that snapshot calls for: each    *)
(* step of check_alerts settles one kind and leaves the others alone.      *)
(***************************************************************************)
AlertKind == {"HeapCritical", "HeapHigh", "NoPeers"}
Alert == [kind : AlertKind, cleared : BOOLEAN]
Snapshots == [tick : Nat, taken : BOOLEAN, busy : BOOLEAN, heap : Nat, peers : BOOLEAN]
Up(alerts, kind) == {i \in DOMAIN alerts : alerts[i] = [kind |-> kind, cleared |-> FALSE]}

MonitorOK(m) ==
  /\ m.last \in Nat
  /\ m.current \in Snapshots /\ (m.current.taken => m.current.heap \in Heaps)
  /\ m.history \in Seq(Heaps) /\ Len(m.history) <= HistoryBound
  /\ m.alerts \in Seq(Alert)
  /\ \A kind \in AlertKind : \E i : Up(m.alerts, kind) \subseteq {i}
  /\ m.current.taken =>
       \A kind \in AlertKind : Up(m.alerts, kind) # {} <=> Wanted(kind, m.current)

LEMMA KeepsLast ==
  ASSUME NEW T, NEW s \in Seq(T), NEW bound \in Nat
  PROVE  /\ KeepLast(s, bound) \in Seq(T)
         /\ Len(KeepLast(s, bound)) <= bound
<1>1. Len(s) \in Nat /\ \A k \in 1 .. Len(s) : s[k] \in T
  BY ElementOfSeq, LenProperties
<1>2. CASE Len(s) > bound
  <2>1. Len(s) - bound + 1 \in Int /\ Len(s) - bound + 1 >= 1
    BY <1>1, <1>2
  <2>2. \A k \in (Len(s) - bound + 1) .. Len(s) : s[k] \in T
    BY <1>1, <2>1
  <2>3. /\ SubSeq(s, Len(s) - bound + 1, Len(s)) \in Seq(T)
        /\ Len(SubSeq(s, Len(s) - bound + 1, Len(s))) =
             IF Len(s) - bound + 1 <= Len(s) THEN Len(s) - (Len(s) - bound + 1) + 1 ELSE 0
    BY <1>1, <2>1, <2>2, SubSeqProperties
  <2> QED
    BY <1>1, <1>2, <2>3 DEF KeepLast
<1>3. CASE ~(Len(s) > bound)
  BY <1>1, <1>3 DEF KeepLast
<1> QED
  BY <1>2, <1>3

\* fire_alert raises one more, clear_alert lowers all of the kind.
LEMMA FireRaises ==
  ASSUME NEW alerts \in Seq(Alert), NEW kind \in AlertKind
  PROVE  /\ FireAlert(alerts, kind) \in Seq(Alert)
         /\ Up(FireAlert(alerts, kind), kind) = Up(alerts, kind) \cup {Len(alerts) + 1}
         /\ \A k \in AlertKind \ {kind} : Up(FireAlert(alerts, kind), k) = Up(alerts, k)
<1> DEFINE new == [kind |-> kind, cleared |-> FALSE]  a == Append(alerts, new)
<1>1. new \in Alert
  BY DEF Alert
<1>2. /\ a \in Seq(Alert) /\ Len(a) = Len(alerts) + 1 /\ Len(alerts) \in Nat
      /\ \A i \in 1 .. Len(alerts) : a[i] = alerts[i]
      /\ a[Len(alerts) + 1] = new
  BY <1>1, AppendProperties, LenProperties
<1>3. DOMAIN a = 1 .. Len(a) /\ DOMAIN alerts = 1 .. Len(alerts)
  BY <1>2, LenProperties
<1>4. DOMAIN a = DOMAIN alerts \cup {Len(alerts) + 1} /\ Len(alerts) + 1 \notin DOMAIN alerts
  BY <1>2, <1>3
<1>5. \A k : new = [kind |-> k, cleared |-> FALSE] <=> k = kind
  OBVIOUS
<1> HIDE DEF a, new
<1>6. Up(a, kind) = Up(alerts, kind) \cup {Len(alerts) + 1}
  BY <1>2, <1>3, <1>4, <1>5 DEF Up
<1>7. ASSUME NEW k \in AlertKind \ {kind}
      PROVE  Up(a, k) = Up(alerts, k)
  BY <1>2, <1>3, <1>4, <1>5 DEF Up
<1>8. FireAlert(alerts, kind) = a
  BY DEF FireAlert, a, new
<1> QED
  BY <1>2, <1>6, <1>7, <1>8

LEMMA ClearLowers ==
  ASSUME NEW alerts \in Seq(Alert), NEW kind \in AlertKind
  PROVE  /\ ClearAlert(alerts, kind) \in Seq(Alert)
         /\ Up(ClearAlert(alerts, kind), kind) = {}
         /\ \A k \in AlertKind \ {kind} : Up(ClearAlert(alerts, kind), k) = Up(alerts, k)
<1> DEFINE a == ClearAlert(alerts, kind)
<1>1. DOMAIN alerts = 1 .. Len(alerts) /\ Len(alerts) \in Nat /\ \A i \in DOMAIN alerts : alerts[i] \in Alert
  BY ElementOfSeq, LenProperties
<1>2. /\ DOMAIN a = DOMAIN alerts
      /\ \A i \in DOMAIN alerts :
           a[i] = IF alerts[i].kind = kind THEN [alerts[i] EXCEPT !.cleared = TRUE] ELSE alerts[i]
  BY DEF ClearAlert
<1>3. ASSUME NEW i \in DOMAIN alerts
      PROVE  /\ a[i] \in Alert
             /\ a[i].kind = kind => a[i].cleared
             /\ alerts[i].kind # kind => a[i] = alerts[i]
             /\ alerts[i].kind = a[i].kind
  BY <1>1, <1>2 DEF Alert
<1> HIDE DEF a
<1>4. a = [i \in 1 .. Len(alerts) |-> a[i]]
  BY <1>1, <1>2 DEF a, ClearAlert
<1>5. a \in Seq(Alert)
  BY <1>1, <1>3, <1>4
<1>6. Up(a, kind) = {}
  BY <1>2, <1>3 DEF Up
<1>7. ASSUME NEW k \in AlertKind \ {kind}
      PROVE  Up(a, k) = Up(alerts, k)
  <2>1. ASSUME NEW i \in DOMAIN alerts
        PROVE  a[i] = [kind |-> k, cleared |-> FALSE] <=> alerts[i] = [kind |-> k, cleared |-> FALSE]
    <3>1. CASE alerts[i].kind = kind
      <4>1. a[i].kind # k /\ alerts[i].kind # k
        BY <1>3, <3>1
      <4> QED
        BY <4>1
    <3>2. CASE alerts[i].kind # kind
      BY <1>3, <3>2
    <3> QED
      BY <3>1, <3>2
  <2> QED
    BY <1>2, <2>1 DEF Up
<1> QED
  BY <1>5, <1>6, <1>7 DEF a

\* What check_alerts has settled for a kind
Settled(alerts, snap, kind) ==
  /\ \E i : Up(alerts, kind) \subseteq {i}
  /\ Up(alerts, kind) # {} <=> Wanted(kind, snap)

SettlesOnly(alerts, checked, snap, kind) ==
  /\ checked \in Seq(Alert)
  /\ Settled(checked, snap, kind)
  /\ \A k \in AlertKind \ {kind} : Up(checked, k) = Up(alerts, k)

LEMMA CheckSettles ==
  ASSUME NEW alerts \in Seq(Alert), NEW snap, NEW kind \in AlertKind,
         \E i : Up(alerts, kind) \subseteq {i}
  PROVE  SettlesOnly(alerts, Checked(alerts, snap, kind), snap, kind)
<1>1. HasAlert(alerts, kind) <=> Up(alerts, kind) # {}
  BY DEF HasAlert, Up
<1>2. CASE Wanted(kind, snap) /\ ~HasAlert(alerts, kind)
  <2>1. Checked(alerts, snap, kind) = FireAlert(alerts, kind)
    BY <1>2 DEF Checked
  <2>2. Up(FireAlert(alerts, kind), kind) = {Len(alerts) + 1}
    BY <1>1, <1>2, FireRaises
  <2> QED
    BY <1>2, <2>1, <2>2, FireRaises DEF Settled, SettlesOnly
<1>3. CASE Wanted(kind, snap) /\ HasAlert(alerts, kind)
  <2>1. Checked(alerts, snap, kind) = alerts
    BY <1>3 DEF Checked
  <2> QED
    BY <1>1, <1>3, <2>1 DEF Settled, SettlesOnly
<1>4. CASE ~Wanted(kind, snap)
  <2>1. Checked(alerts, snap, kind) = ClearAlert(alerts, kind)
    BY <1>4 DEF Checked
  <2> QED
    BY <1>4, <2>1, ClearLowers DEF Settled, SettlesOnly
<1> QED
  BY <1>2, <1>3, <1>4

LEMMA AllSettled ==
  ASSUME NEW alerts \in Seq(Alert), NEW snap,
         \A kind \in AlertKind : \E i : Up(alerts, kind) \subseteq {i}
  PROVE  /\ CheckAlerts(alerts, snap) \in Seq(Alert)
         /\ \A kind \in AlertKind : Settled(CheckAlerts(alerts, snap), snap, kind)
<1> DEFINE a == Checked(alerts, snap, "HeapCritical")  b == Checked(a, snap, "HeapHigh")
           c == Checked(b, snap, "NoPeers")
<1>1. CheckAlerts(alerts, snap) = c
  BY DEF CheckAlerts, AlertKinds
<1>2. "HeapCritical" \in AlertKind /\ "HeapHigh" \in AlertKind /\ "NoPeers" \in AlertKind
  BY DEF AlertKind
<1>3. SettlesOnly(alerts, a, snap, "HeapCritical")
  <2>1. \E i : Up(alerts, "HeapCritical") \subseteq {i}
    BY <1>2
  <2> QED
    BY <1>2, <2>1, CheckSettles, Zenon
<1> HIDE DEF a
<1>4. \E i : Up(a, "HeapHigh") \subseteq {i}
  BY <1>2, <1>3 DEF SettlesOnly
<1>5. SettlesOnly(a, b, snap, "HeapHigh")
  <2>1. a \in Seq(Alert)
    BY <1>3 DEF SettlesOnly
  <2> QED
    BY <1>2, <1>4, <2>1, CheckSettles, Zenon
<1> HIDE DEF b
<1>6. \E i : Up(b, "NoPeers") \subseteq {i}
  BY <1>2, <1>3, <1>5 DEF SettlesOnly
<1>7. SettlesOnly(b, c, snap, "NoPeers")
  <2>1. b \in Seq(Alert)
    BY <1>5 DEF SettlesOnly
  <2> QED
    BY <1>2, <1>6, <2>1, CheckSettles, Zenon
<1> HIDE DEF c
<1>8. Settled(c, snap, "HeapCritical") /\ Settled(c, snap, "HeapHigh")
  BY <1>2, <1>3, <1>5, <1>7 DEF Settled, SettlesOnly
<1> QED
  BY <1>1, <1>7, <1>8 DEF AlertKind, SettlesOnly

LEMMA CaptureKeeps ==
  ASSUME NEW m, MonitorOK(m), NEW tick \in Nat, NEW seen \in Seen
  PROVE  MonitorOK(Captured(m, tick, seen))
<1> DEFINE snap == Snapshot(tick, seen)
           room == KeepLast(m.history, HistoryBound - 1)
           c == Captured(m, tick, seen)
           history == IF m.current.taken THEN Append(room, m.current.heap) ELSE room
<1>1. c = [last |-> tick, current |-> snap, alerts |-> CheckAlerts(m.alerts, snap),
           history |-> history]
  BY DEF Captured
<1>2. Heaps \subseteq Nat /\ HistoryBound - 1 \in Nat /\ HistoryBound \in Nat
  BY MonitorAssumption
<1>3. snap \in Snapshots /\ snap.taken /\ snap.heap \in Heaps
  BY <1>2 DEF Snapshot, Snapshots, Seen
<1>4. room \in Seq(Heaps) /\ Len(room) <= HistoryBound - 1 /\ Len(room) \in Nat
  BY <1>2, KeepsLast, LenProperties DEF MonitorOK
<1>5. history \in Seq(Heaps) /\ Len(history) <= HistoryBound
  <2>1. CASE m.current.taken
    <3>1. Append(room, m.current.heap) \in Seq(Heaps) /\ Len(Append(room, m.current.heap)) = Len(room) + 1
      BY <1>4, <2>1, AppendProperties DEF MonitorOK
    <3> QED
      BY <1>2, <1>4, <2>1, <3>1
  <2>2. CASE ~m.current.taken
    BY <1>2, <1>4, <2>2
  <2> QED
    BY <2>1, <2>2
<1>6. /\ CheckAlerts(m.alerts, snap) \in Seq(Alert)
      /\ \A kind \in AlertKind : Settled(CheckAlerts(m.alerts, snap), snap, kind)
  BY AllSettled DEF MonitorOK
<1> HIDE DEF snap, history
<1>7. /\ c.last = tick /\ c.current = snap /\ c.history = history
      /\ c.alerts = CheckAlerts(m.alerts, snap)
  BY <1>1
<1> QED
  BY <1>3, <1>5, <1>6, <1>7 DEF MonitorOK, Settled

LEMMA TickKeeps ==
  ASSUME NEW m, MonitorOK(m), NEW tick \in Nat, NEW seen \in Seen
  PROVE  MonitorOK(MonitorTick(m, tick, seen))
BY CaptureKeeps DEF MonitorTick

\* Forgetting when the last snapshot was taken changes nothing else.  The
\* monitor is a record of these four fields.
IsMonitor(m) == m = [last |-> m.last, current |-> m.current, history |-> m.history,
                     alerts |-> m.alerts]

LEMMA ForcedKeeps ==
  ASSUME NEW m, MonitorOK(m), IsMonitor(m), NEW tick \in Nat, NEW seen \in Seen
  PROVE  MonitorOK(Forced(m, tick, seen)) /\ IsMonitor(Forced(m, tick, seen))
<1> DEFINE z == [m EXCEPT !.last = 0]
<1>1. /\ z.last = 0 /\ z.current = m.current /\ z.history = m.history /\ z.alerts = m.alerts
      /\ IsMonitor(z)
  BY DEF IsMonitor
<1>2. MonitorOK(z)
  <2> HIDE DEF z
  <2> QED
    <3>1. 0 \in Nat
      OBVIOUS
    <3> QED
      BY <1>1, <3>1, Zenon DEF MonitorOK
<1>3. Forced(m, tick, seen) = MonitorTick(z, tick, seen)
  BY DEF Forced
<1> HIDE DEF z
<1>4. IsMonitor(MonitorTick(z, tick, seen))
  BY <1>1 DEF MonitorTick, Captured, IsMonitor
<1> QED
  BY <1>2, <1>3, <1>4, TickKeeps

LEMMA MonitorInvariant == MonitorSpec => [](MonitorOK(monitor) /\ IsMonitor(monitor))
<1>1. MonitorInit => MonitorOK(monitor) /\ IsMonitor(monitor)
  <2> SUFFICES ASSUME MonitorInit PROVE MonitorOK(monitor) /\ IsMonitor(monitor)
    OBVIOUS
  <2>1. /\ monitor.last = 0 /\ monitor.current = NoSnapshot /\ monitor.history = << >>
        /\ monitor.alerts = << >> /\ IsMonitor(monitor)
    BY DEF MonitorInit, IsMonitor
  <2>2. NoSnapshot \in Snapshots /\ ~NoSnapshot.taken
    BY DEF NoSnapshot, Snapshots
  <2>3. << >> \in Seq(Heaps) /\ << >> \in Seq(Alert) /\ Len(<< >>) = 0 /\ HistoryBound \in Nat
    BY MonitorAssumption, EmptySeq
  <2>4. \A kind \in AlertKind : Up(<< >>, kind) \subseteq {0}
    BY DEF Up
  <2> QED
    BY <2>1, <2>2, <2>3, <2>4 DEF MonitorOK
<1>2. MonitorOK(monitor) /\ IsMonitor(monitor) /\ [MonitorNext]_monitor
        => (MonitorOK(monitor) /\ IsMonitor(monitor))'
  <2> SUFFICES ASSUME MonitorOK(monitor), IsMonitor(monitor), [MonitorNext]_monitor
               PROVE  MonitorOK(monitor') /\ IsMonitor(monitor')
    BY DEF MonitorOK, IsMonitor, Up, Wanted
  <2>1. MonitorTicks \subseteq Nat /\ FarTick \in Nat
    BY MonitorAssumption
  <2>2. ASSUME NEW m, MonitorOK(m), IsMonitor(m), NEW tick \in Nat, NEW seen \in Seen
        PROVE  MonitorOK(MonitorTick(m, tick, seen)) /\ IsMonitor(MonitorTick(m, tick, seen))
    BY <2>2, TickKeeps DEF MonitorTick, Captured, IsMonitor
  <2>3. CASE LoopTick
    BY <2>1, <2>2, <2>3 DEF LoopTick
  <2>4. CASE CommandMonitor
    BY <2>1, <2>4, ForcedKeeps DEF CommandMonitor
  <2>5. CASE SelfTest
    <3>1. PICK tick \in MonitorTicks, far \in Seen, near \in Seen :
            monitor' = Forced(MonitorTick(monitor, tick + FarTick, far), tick, near)
      BY <2>5 DEF SelfTest
    <3>2. tick \in Nat /\ tick + FarTick \in Nat
      BY <2>1
    <3> QED
      BY <2>2, <3>1, <3>2, ForcedKeeps
  <2>6. CASE UNCHANGED monitor
    BY <2>6
  <2> QED
    BY <2>3, <2>4, <2>5, <2>6 DEF MonitorNext
<1> QED
  BY <1>1, <1>2, PTL DEF MonitorSpec

\* The monitor's types hold in every state: its history never outgrows
\* max_history, whichever clock monitor.rs is ticked with.
THEOREM MonitorTypes == MonitorSpec => []MonitorTypeOK
<1>1. MonitorOK(monitor) => MonitorTypeOK
  <2> SUFFICES ASSUME MonitorOK(monitor) PROVE MonitorTypeOK
    OBVIOUS
  <2>1. \A i \in DOMAIN monitor.history : monitor.history[i] \in Heaps
    BY ElementOfSeq, LenProperties DEF MonitorOK
  <2>2. \A i \in DOMAIN monitor.alerts : monitor.alerts[i] \in Alert
    BY ElementOfSeq, LenProperties DEF MonitorOK
  <2>3. {AlertKinds[k] : k \in 1 .. 3} = AlertKind
    BY DEF AlertKinds, AlertKind
  <2> QED
    BY <2>1, <2>2, <2>3 DEF MonitorOK, MonitorTypeOK, Alert
<1> QED
  BY <1>1, MonitorInvariant, PTL

\* The alerts that are up are those the current snapshot calls for, each once,
\* for any interval, history and heap: check_alerts of monitor.rs keeps every
\* alert there ever was and still finds and clears the right ones.
THEOREM AlertsStayTrue == MonitorSpec => []AlertsTrue
<1>1. MonitorOK(monitor) => AlertsTrue
  <2> SUFFICES ASSUME MonitorOK(monitor), monitor.current.taken, NEW kind \in AlertKind
               PROVE  Cardinality(Up(monitor.alerts, kind)) =
                        IF Wanted(kind, monitor.current) THEN 1 ELSE 0
    BY DEF AlertsTrue, AlertKind, Up
  <2>1. PICK i : Up(monitor.alerts, kind) \subseteq {i}
    BY DEF MonitorOK
  <2>2. CASE Wanted(kind, monitor.current)
    <3>1. Up(monitor.alerts, kind) = {i}
      BY <2>1, <2>2 DEF MonitorOK
    <3> QED
      BY <2>2, <3>1, FS_Singleton
  <2>3. CASE ~Wanted(kind, monitor.current)
    <3>1. Up(monitor.alerts, kind) = {}
      BY <2>3 DEF MonitorOK
    <3> QED
      BY <2>3, <3>1, FS_EmptySet
  <2> QED
    BY <2>2, <2>3
<1> QED
  BY <1>1, MonitorInvariant, PTL

-----------------------------------------------------------------------------
(***************************************************************************)
(* The cognitive engine.  Every entry of the log was earned, and no entry  *)
(* of a pattern is later than that pattern's last execution: so a cooldown *)
(* after the last execution is one after every entry, whichever clock the  *)
(* next cycle comes with.                                                  *)
(***************************************************************************)
LogEntry == [tick : Nat, pattern : PatternNames]
Counts == [PatternNames -> Nat]

Spaced(entries, executed) ==
  /\ entries \in Seq(LogEntry) /\ Len(entries) <= LogBound + 1
  /\ \A i \in 1 .. Len(entries) : entries[i].tick <= executed[entries[i].pattern]
  /\ \A i \in 1 .. Len(entries) : \A j \in i + 1 .. Len(entries) :
       entries[j].pattern = entries[i].pattern => entries[j].tick >= entries[i].tick + Cooldown[entries[i].pattern]

Deserved(entries, seen, approved) ==
  \A i \in 1 .. Len(entries) : entries[i].pattern \in approved /\ seen[entries[i].pattern] >= EarnedAt

LEMMA FivePatterns ==
  /\ Len(Patterns) = 5 /\ DOMAIN Patterns = 1 .. 5
  /\ \A k \in 1 .. 5 : Patterns[k] \in PatternNames
  /\ \A p \in PatternNames : \E k \in 1 .. 5 : Patterns[k] = p
  /\ \A k, m \in 1 .. 5 : Patterns[k] = Patterns[m] => k = m
BY DEF Patterns, PatternNames

LEMMA CooldownType == \A p \in PatternNames : Cooldown[p] \in Nat
BY CognitionAssumption

\* One entry more, and perhaps the oldest one less.
LEMMA EnteredFacts ==
  ASSUME NEW entries \in Seq(LogEntry), NEW entry \in LogEntry, Len(entries) <= LogBound + 1
  PROVE  /\ Entered(entries, entry) \in Seq(LogEntry)
         /\ Len(Entered(entries, entry)) <= LogBound + 1
         /\ \E n \in Nat, d \in Nat :
              /\ Len(Entered(entries, entry)) = n + 1 /\ n + d = Len(entries)
              /\ \A i \in 1 .. n : Entered(entries, entry)[i] = entries[i + d]
              /\ Entered(entries, entry)[n + 1] = entry
<1>1. Len(entries) \in Nat /\ LogBound \in Nat
  BY LenProperties, CognitionAssumption
<1>2. CASE Len(entries) > LogBound
  <2>1. entries # << >>
    BY <1>1, <1>2, EmptySeq
  <2>2. /\ Tail(entries) \in Seq(LogEntry) /\ Len(Tail(entries)) = Len(entries) - 1
        /\ \A i \in 1 .. Len(Tail(entries)) : Tail(entries)[i] = entries[i + 1]
    BY <2>1, HeadTailProperties
  <2> DEFINE a == Append(Tail(entries), entry)  n == Len(entries) - 1
  <2>3. /\ a \in Seq(LogEntry) /\ Len(a) = n + 1
        /\ \A i \in 1 .. n : a[i] = Tail(entries)[i]
        /\ a[n + 1] = entry
    BY <2>2, AppendProperties
  <2>4. Entered(entries, entry) = a /\ n \in Nat /\ n + 1 = Len(entries)
    BY <1>1, <1>2 DEF Entered
  <2>5. \A i \in 1 .. n : a[i] = entries[i + 1]
    BY <2>2, <2>3
  <2> HIDE DEF a, n
  <2> QED
    BY <1>1, <2>3, <2>4, <2>5
<1>3. CASE ~(Len(entries) > LogBound)
  <2> DEFINE a == Append(entries, entry)  n == Len(entries)
  <2>1. /\ a \in Seq(LogEntry) /\ Len(a) = n + 1
        /\ \A i \in 1 .. n : a[i] = entries[i]
        /\ a[n + 1] = entry
    BY AppendProperties
  <2>2. Entered(entries, entry) = a /\ n \in Nat /\ n + 0 = Len(entries) /\ n <= LogBound
    BY <1>1, <1>3 DEF Entered
  <2>3. \A i \in 1 .. n : a[i] = entries[i + 0]
    BY <2>1, <2>2
  <2> HIDE DEF a, n
  <2>4. \E m \in Nat, d \in Nat : /\ Len(a) = m + 1 /\ m + d = Len(entries)
                                /\ \A i \in 1 .. m : a[i] = entries[i + d]
                                /\ a[m + 1] = entry
    <3> n \in Nat /\ 0 \in Nat
      BY <2>2
    <3> WITNESS n \in Nat, 0 \in Nat
    <3> QED
      BY <2>1, <2>2, <2>3
  <2>5. Len(a) <= LogBound + 1
    BY <1>1, <2>1, <2>2
  <2> QED
    BY <2>1, <2>2, <2>4, <2>5
<1> QED
  BY <1>2, <1>3

LEMMA EnteredSpaced ==
  ASSUME NEW entries, NEW executed \in Counts, Spaced(entries, executed),
         NEW p \in PatternNames, NEW tick \in Nat, tick >= executed[p] + Cooldown[p],
         NEW later \in Counts, later = [executed EXCEPT ![p] = tick]
  PROVE  Spaced(Entered(entries, [tick |-> tick, pattern |-> p]), later)
<1> DEFINE entry == [tick |-> tick, pattern |-> p]  a == Entered(entries, entry)
<1>1. entry \in LogEntry /\ entry.tick = tick /\ entry.pattern = p
  BY DEF LogEntry
<1>2. entries \in Seq(LogEntry) /\ Len(entries) \in Nat /\ Len(entries) <= LogBound + 1
  BY LenProperties DEF Spaced
<1> HIDE DEF entry
<1>3. /\ a \in Seq(LogEntry) /\ Len(a) <= LogBound + 1
      /\ \E n \in Nat, d \in Nat :
              /\ Len(a) = n + 1 /\ n + d = Len(entries)
              /\ \A i \in 1 .. n : a[i] = entries[i + d]
              /\ a[n + 1] = entry
  BY <1>1, <1>2, EnteredFacts
<1> HIDE DEF a
<1>4. PICK n \in Nat, d \in Nat :
              /\ Len(a) = n + 1 /\ n + d = Len(entries)
              /\ \A i \in 1 .. n : a[i] = entries[i + d]
              /\ a[n + 1] = entry
  BY <1>3
<1>5. executed[p] \in Nat /\ Cooldown[p] \in Nat /\ later[p] = tick
      /\ \A q \in PatternNames : later[q] \in Nat /\ executed[q] \in Nat /\ later[q] >= executed[q]
  <2>1. executed[p] \in Nat /\ Cooldown[p] \in Nat
    BY CooldownType DEF Counts
  <2>2. tick >= executed[p]
    BY <2>1
  <2> QED
    BY <2>1, <2>2 DEF Counts
<1>6. \A i \in 1 .. n : /\ i + d \in 1 .. Len(entries) /\ a[i] = entries[i + d]
                        /\ a[i] \in LogEntry /\ a[i].tick \in Nat /\ a[i].pattern \in PatternNames
                        /\ a[i].tick <= executed[a[i].pattern]
  <2> SUFFICES ASSUME NEW i \in 1 .. n
               PROVE  /\ i + d \in 1 .. Len(entries) /\ a[i] = entries[i + d]
                      /\ a[i] \in LogEntry /\ a[i].tick \in Nat /\ a[i].pattern \in PatternNames
                      /\ a[i].tick <= executed[a[i].pattern]
    OBVIOUS
  <2>1. i + d \in 1 .. Len(entries) /\ a[i] = entries[i + d]
    BY <1>2, <1>4
  <2>2. entries[i + d] \in LogEntry
    BY <1>2, <2>1, ElementOfSeq
  <2> QED
    BY <2>1, <2>2 DEF Spaced, LogEntry
<1>7. \A i \in 1 .. n + 1 : a[i].tick <= later[a[i].pattern]
  <2> SUFFICES ASSUME NEW i \in 1 .. n + 1
               PROVE  a[i].tick <= later[a[i].pattern]
    OBVIOUS
  <2>1. CASE i = n + 1
    BY <1>1, <1>4, <1>5, <2>1
  <2>2. CASE i \in 1 .. n
    <3> DEFINE q == a[i].pattern
    <3>1. q \in PatternNames /\ a[i].tick \in Nat /\ a[i].tick <= executed[q]
      BY <1>6, <2>2
    <3>2. later[q] \in Nat /\ executed[q] \in Nat /\ later[q] >= executed[q]
      BY <1>5, <3>1
    <3> HIDE DEF q
    <3>3. \A x, y, z \in Nat : x <= y /\ z >= y => x <= z
      OBVIOUS
    <3>4. a[i].tick <= later[q]
      BY <3>1, <3>2, <3>3
    <3> QED
      BY <3>4 DEF q
  <2> QED
    BY <1>4, <2>1, <2>2
<1>8. ASSUME NEW i \in 1 .. n + 1, NEW j \in i + 1 .. n + 1, a[j].pattern = a[i].pattern
      PROVE  a[j].tick >= a[i].tick + Cooldown[a[i].pattern]
  <2>1. i \in 1 .. n
    BY <1>4
  <2>2. CASE j = n + 1
    <3>1. a[i].pattern = p /\ a[j].tick = tick
      BY <1>1, <1>4, <1>8, <2>2
    <3>2. a[i].tick <= executed[p] /\ a[i].tick \in Nat
      BY <1>6, <2>1, <3>1
    <3> DEFINE x == a[i].tick  c == Cooldown[p]  y == executed[p]
    <3>3. x \in Nat /\ c \in Nat /\ y \in Nat /\ x <= y /\ tick >= y + c
      BY <1>5, <3>2
    <3> HIDE DEF x, c, y
    <3>4. tick >= x + c
      BY <3>3
    <3> QED
      BY <3>1, <3>4 DEF x, c
  <2>3. CASE j # n + 1
    <3>1. j \in 1 .. n /\ i + d \in 1 .. Len(entries) /\ j + d \in (i + d) + 1 .. Len(entries)
      BY <1>2, <1>4, <2>1, <2>3
    <3>2. a[i] = entries[i + d] /\ a[j] = entries[j + d]
      BY <1>6, <2>1, <3>1
    <3> QED
      BY <1>8, <3>1, <3>2 DEF Spaced
  <2> QED
    BY <2>2, <2>3
<1> QED
  BY <1>3, <1>4, <1>7, <1>8 DEF Spaced, a, entry

LEMMA EnteredDeserved ==
  ASSUME NEW entries \in Seq(LogEntry), Len(entries) <= LogBound + 1, NEW seen, NEW approved,
         Deserved(entries, seen, approved),
         NEW p \in PatternNames, NEW tick \in Nat, p \in approved, seen[p] >= EarnedAt
  PROVE  Deserved(Entered(entries, [tick |-> tick, pattern |-> p]), seen, approved)
<1> DEFINE entry == [tick |-> tick, pattern |-> p]  a == Entered(entries, entry)
<1>1. entry \in LogEntry /\ entry.pattern = p
  BY DEF LogEntry
<1> HIDE DEF entry
<1>2. \E n \in Nat, d \in Nat :
              /\ Len(a) = n + 1 /\ n + d = Len(entries)
              /\ \A i \in 1 .. n : a[i] = entries[i + d]
              /\ a[n + 1] = entry
  BY <1>1, EnteredFacts
<1> HIDE DEF a
<1>3. PICK n \in Nat, d \in Nat :
              /\ Len(a) = n + 1 /\ n + d = Len(entries)
              /\ \A i \in 1 .. n : a[i] = entries[i + d]
              /\ a[n + 1] = entry
  BY <1>2
<1>4. ASSUME NEW i \in 1 .. n + 1
      PROVE  a[i].pattern \in approved /\ seen[a[i].pattern] >= EarnedAt
  <2>1. CASE i = n + 1
    BY <1>1, <1>3, <2>1
  <2>2. CASE i # n + 1
    <3>1. i \in 1 .. n /\ i + d \in 1 .. Len(entries)
      BY <1>3, <2>2
    <3>2. a[i] = entries[i + d]
      BY <1>3, <3>1
    <3> QED
      BY <3>1, <3>2 DEF Deserved
  <2> QED
    BY <2>1, <2>2
<1> QED
  BY <1>3, <1>4 DEF Deserved, a, entry

\* The log after k patterns, and what was last executed by then.
LogSteps(entries, run, tick, after) ==
  /\ after[0] = entries
  /\ \A k \in 1 .. 5 :
       after[k] = IF Patterns[k] \in run
                  THEN Entered(after[k - 1], [tick |-> tick, pattern |-> Patterns[k]])
                  ELSE after[k - 1]

LEMMA LoggedUnfold ==
  ASSUME NEW entries \in Seq(LogEntry), Len(entries) <= LogBound + 1, NEW run, NEW tick \in Nat
  PROVE  \E after : LogSteps(entries, run, tick, after) /\ Logged(entries, run, tick) = after[5]
<1> DEFINE S == {l \in Seq(LogEntry) : Len(l) <= LogBound + 1}
           next(k, l) == IF Patterns[k] \in run
                         THEN Entered(l, [tick |-> tick, pattern |-> Patterns[k]]) ELSE l
           step == [x \in (1 .. 5) \X S |-> next(x[1], x[2])]
           Def(f) == f = [k \in 0 .. Len(Patterns) |->
                            IF k = 0 THEN entries
                            ELSE IF Patterns[k] \in run
                                 THEN Entered(f[k - 1], [tick |-> tick, pattern |-> Patterns[k]])
                                 ELSE f[k - 1]]
<1>1. entries \in S /\ 5 \in Nat
  OBVIOUS
<1>2. step \in [(1 .. 5) \X S -> S]
  <2> SUFFICES ASSUME NEW k \in 1 .. 5, NEW l \in S PROVE next(k, l) \in S
    OBVIOUS
  <2>1. [tick |-> tick, pattern |-> Patterns[k]] \in LogEntry
    BY FivePatterns DEF LogEntry
  <2> QED
    BY <2>1, EnteredFacts
<1>3. PICK f : IsIterate(f, S, entries, 5, step)
  <2> HIDE DEF S, step
  <2> QED
    BY <1>1, <1>2, Iterates
<1>4. ASSUME NEW k \in 1 .. 5 PROVE f[k] = next(k, f[k - 1])
  <2>1. f[k - 1] \in S
    BY <1>3 DEF IsIterate
  <2>2. << k, f[k - 1] >> \in (1 .. 5) \X S
    BY <2>1
  <2>3. f[k] = step[<< k, f[k - 1] >>]
    BY <1>3 DEF IsIterate
  <2> QED
    BY <2>2, <2>3
<1> HIDE DEF step, S
<1>5. Def(f)
  <2>1. ASSUME NEW k \in 0 .. 5
        PROVE  f[k] = IF k = 0 THEN entries ELSE next(k, f[k - 1])
    <3>1. CASE k = 0
      BY <1>3, <3>1 DEF IsIterate
    <3>2. CASE k # 0
      <4>1. k \in 1 .. 5
        BY <3>2
      <4> QED
        BY <1>4, <3>2, <4>1
    <3> QED
      BY <3>1, <3>2
  <2>2. f \in [0 .. 5 -> S]
    BY <1>3 DEF IsIterate
  <2> QED
    BY <2>1, <2>2, FivePatterns
<1> DEFINE g == CHOOSE h : Def(h)
<1>6. Def(g)
  BY <1>5
<1>7. Logged(entries, run, tick) = g[5]
  BY FivePatterns DEF Logged
<1> HIDE DEF g
<1>8. LogSteps(entries, run, tick, g)
  <2>1. g = [k \in 0 .. 5 |-> IF k = 0 THEN entries ELSE next(k, g[k - 1])]
    BY <1>6, FivePatterns
  <2> QED
    BY <2>1 DEF LogSteps
<1> QED
  BY <1>7, <1>8

LEMMA LoggedKeeps ==
  ASSUME NEW entries, NEW executed \in Counts, Spaced(entries, executed),
         NEW seen, NEW approved, Deserved(entries, seen, approved),
         NEW tick \in Nat, NEW run \in SUBSET PatternNames,
         \A p \in run : /\ p \in approved /\ seen[p] >= EarnedAt
                        /\ tick >= executed[p] + Cooldown[p],
         NEW later \in Counts,
         later = [p \in PatternNames |-> IF p \in run THEN tick ELSE executed[p]]
  PROVE  /\ Spaced(Logged(entries, run, tick), later)
         /\ Deserved(Logged(entries, run, tick), seen, approved)
<1>1. entries \in Seq(LogEntry) /\ Len(entries) <= LogBound + 1
  BY DEF Spaced
<1>2. PICK after : LogSteps(entries, run, tick, after) /\ Logged(entries, run, tick) = after[5]
  BY <1>1, LoggedUnfold
<1> DEFINE done(k) == {Patterns[m] : m \in 1 .. k}
           then(k) == [p \in PatternNames |-> IF p \in run \cap done(k) THEN tick ELSE executed[p]]
           Good == {k \in 0 .. 5 : Spaced(after[k], then(k)) /\ Deserved(after[k], seen, approved)}
<1>3. \A k \in 0 .. 5 : then(k) \in Counts
  BY DEF Counts
<1>4. 0 \in Good
  <2>1. then(0) = executed
    BY DEF Counts
  <2> QED
    BY <1>2, <2>1 DEF LogSteps
<1>5. ASSUME NEW k \in 1 .. 5, k - 1 \in Good PROVE k \in Good
  <2> DEFINE p == Patterns[k]
  <2>1. /\ Spaced(after[k - 1], then(k - 1)) /\ Deserved(after[k - 1], seen, approved)
        /\ p \in PatternNames /\ k \in 0 .. 5 /\ k - 1 \in 0 .. 5
    BY <1>5, FivePatterns
  <2>2. p \notin done(k - 1) /\ \A q : q \in done(k) <=> q = p \/ q \in done(k - 1)
    BY FivePatterns
  <2>3. then(k - 1)[p] = executed[p]
    BY <2>1, <2>2
  <2>4. CASE p \in run
    <3>1. after[k] = Entered(after[k - 1], [tick |-> tick, pattern |-> p])
      BY <1>2, <2>4 DEF LogSteps
    <3>2. then(k) = [then(k - 1) EXCEPT ![p] = tick]
      <4> DEFINE e == [then(k - 1) EXCEPT ![p] = tick]
      <4>1. ASSUME NEW q \in PatternNames PROVE then(k)[q] = e[q]
        BY <2>1, <2>2, <2>4
      <4>2. /\ DOMAIN e = PatternNames /\ e = [q \in PatternNames |-> e[q]]
            /\ then(k) = [q \in PatternNames |-> then(k)[q]]
        OBVIOUS
      <4> HIDE DEF e, then
      <4>3. [q \in PatternNames |-> then(k)[q]] = [q \in PatternNames |-> e[q]]
        BY <4>1
      <4>4. then(k) = e
        BY <4>2, <4>3
      <4> QED
        BY <4>4 DEF e
    <3>3. then(k) \in Counts /\ then(k - 1) \in Counts
      BY <1>3, <2>1
    <3>4. tick >= then(k - 1)[p] + Cooldown[p] /\ p \in approved /\ seen[p] >= EarnedAt
      BY <2>3, <2>4
    <3>5. after[k - 1] \in Seq(LogEntry) /\ Len(after[k - 1]) <= LogBound + 1
      BY <2>1 DEF Spaced
    <3> HIDE DEF then, done, p
    <3>6. Spaced(after[k], then(k))
      BY <2>1, <3>1, <3>2, <3>3, <3>4, EnteredSpaced
    <3>7. Deserved(after[k], seen, approved)
      BY <2>1, <3>1, <3>4, <3>5, EnteredDeserved
    <3> QED
      BY <2>1, <3>6, <3>7
  <2>5. CASE p \notin run
    <3>1. after[k] = after[k - 1]
      BY <1>2, <2>5 DEF LogSteps
    <3>2. then(k) = then(k - 1)
      BY <2>2, <2>5
    <3> HIDE DEF then
    <3> QED
      BY <2>1, <3>1, <3>2
  <2> QED
    BY <2>4, <2>5
<1>6. 5 \in Good
  <2> HIDE DEF Good
  <2>1. 5 \in Nat
    OBVIOUS
  <2>2. \A k \in 0 .. 5 : k \in Good
    BY <1>4, <1>5, <2>1, InductUpTo
  <2> QED
    BY <2>2
<1>7. then(5) = later
  <2>1. \A p \in PatternNames : p \in done(5)
    BY FivePatterns
  <2> HIDE DEF done
  <2> QED
    BY <2>1
<1> HIDE DEF then
<1> QED
  BY <1>2, <1>6, <1>7

CognitiveState == [last : Nat, log : Seq(LogEntry), seen : Counts, approved : SUBSET PatternNames,
            executed : Counts]

EngineOK(e) ==
  /\ e \in CognitiveState
  /\ Spaced(e.log, e.executed)
  /\ Deserved(e.log, e.seen, e.approved)

CognitionInv ==
  /\ clock \in 0 .. MaxTick /\ loopTick \in 0 .. MaxTick
  /\ boot \in 0 .. BootCycles + 1
  /\ EngineOK(engine)
  /\ toasts \subseteq Nat

LEMMA CycledKeeps ==
  ASSUME NEW e, EngineOK(e), NEW t, t \subseteq Nat, clock \in Nat, NEW tick \in Nat, NEW ctx
  PROVE  LET s == Cycled([engine |-> e, toasts |-> t], tick, ctx)
         IN EngineOK(s.engine) /\ s.toasts \subseteq Nat
<1> DEFINE s == Cycled([engine |-> e, toasts |-> t], tick, ctx)
           matched == {p \in PatternNames : Triggered(p, tick, ctx)}
           run == ToRun(e, matched, tick)
           seen == Observed(e, matched)
           executed == Executed(e, run, tick)
           entries == Logged(e.log, run, tick)
           shown == t \cup (IF "mobile" \in run THEN {clock + ToastLife} ELSE {})
<1>1. /\ e.last \in Nat /\ e.log \in Seq(LogEntry) /\ e.seen \in Counts
      /\ e.approved \subseteq PatternNames /\ e.executed \in Counts
  BY DEF EngineOK, CognitiveState
<1>2. CASE tick < e.last + Interval
  <2>1. s = [engine |-> e, toasts |-> t]
    BY <1>2 DEF Cycled
  <2> HIDE DEF s
  <2>2. s.engine = e /\ s.toasts = t
    BY <2>1
  <2>3. EngineOK(s.engine) /\ s.toasts \subseteq Nat
    BY <2>2
  <2> QED
    BY <2>3 DEF s
<1>3. CASE ~(tick < e.last + Interval)
  <2>1. s = [engine |-> [last |-> tick, log |-> entries, seen |-> seen, approved |-> e.approved,
                         executed |-> executed],
             toasts |-> shown]
    BY <1>3 DEF Cycled
  <2>2. matched \subseteq PatternNames
    OBVIOUS
  <2> HIDE DEF matched
  <2>3. run \in SUBSET PatternNames
    BY <2>2 DEF ToRun
  <2>4. \A p \in PatternNames : e.seen[p] \in Nat /\ e.executed[p] \in Nat
    BY <1>1 DEF Counts
  <2>5. seen \in Counts /\ \A p \in PatternNames : seen[p] >= e.seen[p] /\ seen[p] \in Nat
    BY <2>4 DEF Observed, Counts
  <2>6. \A p \in run : /\ p \in e.approved /\ seen[p] >= EarnedAt
                       /\ tick >= e.executed[p] + Cooldown[p]
    BY DEF ToRun, CanExecute
  <2> HIDE DEF seen, run
  <2>7. /\ executed \in Counts
        /\ executed = [p \in PatternNames |-> IF p \in run THEN tick ELSE e.executed[p]]
    BY <2>4 DEF Executed, Counts
  <2> HIDE DEF executed
  <2>8. Deserved(e.log, seen, e.approved)
    <3> SUFFICES ASSUME NEW i \in 1 .. Len(e.log)
                 PROVE  e.log[i].pattern \in e.approved /\ seen[e.log[i].pattern] >= EarnedAt
      BY DEF Deserved
    <3> DEFINE p == e.log[i].pattern
    <3>1. p \in e.approved /\ e.seen[p] >= EarnedAt /\ p \in PatternNames
      BY <1>1 DEF EngineOK, Deserved
    <3>2. seen[p] >= e.seen[p] /\ seen[p] \in Nat /\ e.seen[p] \in Nat /\ EarnedAt \in Nat
      BY <2>4, <2>5, <3>1, CognitionAssumption
    <3> HIDE DEF p
    <3>3. seen[p] >= EarnedAt
      <4> DEFINE x == seen[p]  y == e.seen[p]
      <4>1. x \in Nat /\ y \in Nat /\ x >= y /\ y >= EarnedAt /\ EarnedAt \in Nat
        BY <3>1, <3>2
      <4> HIDE DEF x, y
      <4>2. x >= EarnedAt
        BY <4>1
      <4> QED
        BY <4>2 DEF x
    <3> QED
      BY <3>1, <3>3 DEF p
  <2>9. Spaced(entries, executed) /\ Deserved(entries, seen, e.approved)
    <3>1. Spaced(e.log, e.executed)
      BY DEF EngineOK
    <3> QED
      BY <1>1, <2>3, <2>6, <2>7, <2>8, <3>1, LoggedKeeps
  <2> HIDE DEF entries
  <2>10. shown \subseteq Nat
    BY CognitionAssumption
  <2> HIDE DEF shown, s
  <2>11. entries \in Seq(LogEntry)
    BY <2>9 DEF Spaced
  <2>12. /\ s.engine = [last |-> tick, log |-> entries, seen |-> seen, approved |-> e.approved,
                        executed |-> executed]
         /\ s.toasts = shown
    BY <2>1
  <2>13. s.engine \in CognitiveState
    BY <1>1, <2>5, <2>7, <2>11, <2>12 DEF CognitiveState
  <2>14. /\ s.engine.log = entries /\ s.engine.seen = seen /\ s.engine.approved = e.approved
         /\ s.engine.executed = executed
    BY <2>12
  <2>15. EngineOK(s.engine)
    BY <2>9, <2>13, <2>14 DEF EngineOK
  <2> QED
    BY <2>10, <2>12, <2>15 DEF s
<1> QED
  BY <1>2, <1>3

LEMMA CognitionInvariant == CognitionSpec => []CognitionInv
<1>1. CognitionInit => CognitionInv
  <2> SUFFICES ASSUME CognitionInit PROVE CognitionInv
    OBVIOUS
  <2>1. /\ clock \in 0 .. MaxTick /\ loopTick \in 0 .. MaxTick /\ boot \in 0 .. BootCycles + 1
        /\ toasts \subseteq Nat
    BY CognitionAssumption DEF CognitionInit
  <2>2. << >> \in Seq(LogEntry) /\ Len(<< >>) = 0 /\ LogBound \in Nat
    BY CognitionAssumption, EmptySeq
  <2>3. engine \in CognitiveState /\ engine.log = << >>
    BY <2>2, CognitionAssumption DEF CognitionInit, CognitiveState, Counts
  <2>4. Spaced(engine.log, engine.executed) /\ Deserved(engine.log, engine.seen, engine.approved)
    BY <2>2, <2>3 DEF Spaced, Deserved
  <2> QED
    BY <2>1, <2>3, <2>4 DEF CognitionInv, EngineOK
<1>2. CognitionInv /\ [CognitionNext]_cognitionVars => CognitionInv'
  <2> SUFFICES ASSUME CognitionInv, [CognitionNext]_cognitionVars
               PROVE  CognitionInv'
    OBVIOUS
  <2>1. /\ MaxTick \in Nat /\ BootCycles \in Nat /\ Interval \in Nat
        /\ clock \in Nat /\ loopTick \in Nat /\ boot \in Nat
    BY CognitionAssumption DEF CognitionInv
  <2>2. ASSUME NEW tick \in Nat, NEW ctx, Adopt(Cycled(Now, tick, ctx))
        PROVE  EngineOK(engine') /\ toasts' \subseteq Nat
    BY <2>1, <2>2, CycledKeeps DEF Adopt, Now, CognitionInv
  <2>3. CASE Timer
    <3>1. clock + 1 \in 0 .. MaxTick
      BY <2>1, <2>3 DEF Timer
    <3> QED
      BY <2>3, <3>1 DEF Timer, CognitionInv, EngineOK, Spaced, Deserved
  <2>4. CASE BootCycle
    <3>1. PICK ctx \in Contexts : Adopt(Cycled(Now, loopTick + boot * Interval, ctx))
      BY <2>4 DEF BootCycle
    <3>2. loopTick + boot * Interval \in Nat
      BY <2>1
    <3>3. EngineOK(engine') /\ toasts' \subseteq Nat
      BY <2>2, <3>1, <3>2
    <3>4. boot + 1 \in 0 .. BootCycles + 1
      BY <2>1, <2>4 DEF BootCycle
    <3> QED
      BY <2>4, <3>3, <3>4 DEF BootCycle, CognitionInv
  <2>5. CASE LoopStarts
    <3>1. BootCycles + 1 \in 0 .. BootCycles + 1
      BY <2>1
    <3> QED
      BY <2>5, <3>1 DEF LoopStarts, CognitionInv, EngineOK, Spaced, Deserved
  <2>6. CASE Pass
    <3>1. PICK ctx \in Contexts : Adopt(Expired(Cycled(Now, loopTick, ctx), loopTick))
      BY <2>6 DEF Pass
    <3> DEFINE s == Cycled(Now, loopTick, ctx)
    <3>2. EngineOK(s.engine) /\ s.toasts \subseteq Nat
      BY <2>1, CycledKeeps DEF Now, CognitionInv
    <3>3. \E e, t : s = [engine |-> e, toasts |-> t]
      BY DEF Cycled, Now
    <3> HIDE DEF s
    <3>4. engine' = s.engine /\ toasts' \subseteq s.toasts
      BY <3>1, <3>3 DEF Adopt, Expired, s
    <3>5. loopTick + 1 \in 0 .. MaxTick
      BY <2>1, <2>6 DEF Pass
    <3> QED
      BY <2>6, <3>2, <3>4, <3>5 DEF Pass, CognitionInv
  <2>7. ASSUME NEW p \in PatternNames, ApprovePattern(p) PROVE CognitionInv'
    <3> DEFINE e == [engine EXCEPT !.approved = @ \cup {p}]
    <3>1. engine \in CognitiveState
      BY DEF CognitionInv, EngineOK
    <3>2. /\ e \in CognitiveState /\ e.log = engine.log /\ e.executed = engine.executed
          /\ e.seen = engine.seen /\ engine.approved \subseteq e.approved
      BY <3>1 DEF CognitiveState
    <3> HIDE DEF e
    <3>3. EngineOK(e)
      BY <3>2 DEF CognitionInv, EngineOK, Spaced, Deserved
    <3>4. engine' = e /\ UNCHANGED << clock, loopTick, boot, toasts >>
      BY <2>7 DEF ApprovePattern, e
    <3> QED
      BY <3>3, <3>4 DEF CognitionInv
  <2>8. CASE CommandCycle
    <3>1. EngineOK(engine') /\ toasts' \subseteq Nat
      BY <2>1, <2>2, <2>8 DEF CommandCycle
    <3> QED
      BY <2>8, <3>1 DEF CommandCycle, CognitionInv
  <2>9. CASE UNCHANGED cognitionVars
    BY <2>9 DEF cognitionVars, CognitionInv, EngineOK, Spaced, Deserved
  <2> QED
    BY <2>3, <2>4, <2>5, <2>6, <2>7, <2>8, <2>9 DEF CognitionNext
<1> QED
  BY <1>1, <1>2, PTL DEF CognitionSpec

\* The types of the cognitive engine hold in every state: its log keeps to its
\* bound, one entry at a time.
THEOREM CognitionTypes == CognitionSpec => []CognitionTypeOK
<1>1. CognitionInv => CognitionTypeOK
  <2> SUFFICES ASSUME CognitionInv PROVE CognitionTypeOK
    OBVIOUS
  <2>1. \A i \in DOMAIN engine.log : engine.log[i] \in LogEntry
    BY ElementOfSeq, LenProperties DEF CognitionInv, EngineOK, CognitiveState
  <2> QED
    BY <2>1 DEF CognitionInv, EngineOK, CognitiveState, Spaced, CognitionTypeOK, LogEntry, Counts
<1> QED
  BY <1>1, CognitionInvariant, PTL

\* Every action the cognitive engine took was of an approved pattern seen often
\* enough, and two of one pattern are a cooldown apart, for any interval,
\* cooldowns and bounds, although kernel_loop, commands and self-tests call
\* tick of cognitive.rs with two clocks.
THEOREM ActionsAreEarned == CognitionSpec => []ActionsEarned
<1>1. CognitionInv => ActionsEarned
  <2> SUFFICES ASSUME CognitionInv PROVE ActionsEarned
    OBVIOUS
  <2>1. DOMAIN engine.log = 1 .. Len(engine.log)
    BY LenProperties DEF CognitionInv, EngineOK, CognitiveState
  <2> QED
    BY <2>1 DEF CognitionInv, EngineOK, Spaced, Deserved, ActionsEarned
<1> QED
  BY <1>1, CognitionInvariant, PTL

-----------------------------------------------------------------------------
(***************************************************************************)
(* Telemetry.  The ring holds the last samples, each at its own number's   *)
(* remainder, and head is where the next one goes.                         *)
(***************************************************************************)
Suggestion == [id : Nat, kind : {"network", "memory"}, seen : Readings]
RingPlace(p) == ((p - 1) % RingSize) + 1

LastIn(r, head, all) ==
  /\ all \in Seq(Readings) /\ r \in Seq(Readings)
  /\ head = Len(all) % RingSize
  /\ Len(r) = IF Len(all) < RingSize THEN Len(all) ELSE RingSize
  /\ \A p \in 1 .. Len(all) : Len(all) - p < RingSize => r[RingPlace(p)] = all[p]
RingOK == LastIn(ring, ringHead, samples)

LEMMA RingSizes ==
  /\ RingSize \in Nat \ {0} /\ RingSize \in Nat /\ WindowSize \in Nat /\ WindowSize >= 1
  /\ WindowSize <= RingSize /\ MaxSuggestions \in Nat \ {0}
BY TelemetryAssumption

LEMMA PlaceFacts ==
  ASSUME NEW p \in Nat \ {0}
  PROVE  /\ RingPlace(p) \in 1 .. RingSize
         /\ p <= RingSize => RingPlace(p) = p
         /\ RingPlace(p) = ((p + RingSize - 1) % RingSize) + 1
<1> DEFINE w == RingSize  a == p - 1
<1>1. w \in Nat \ {0} /\ a \in Int /\ a \in Nat
  BY RingSizes
<1>2. a % w \in 0 .. w - 1
  BY <1>1, Quotient
<1>3. p <= w => a % w = a
  <2> SUFFICES ASSUME p <= w PROVE a % w = a
    OBVIOUS
  <2>1. a \in 0 .. w - 1
    BY <1>1
  <2> QED
    BY <1>1, <2>1, SmallRemainder
<1>4. (a + w) % w = a % w
  <2>1. PICK q \in Int : a = w * q + (a % w)
    BY <1>1, Quotient
  <2> DEFINE r == a % w
  <2>2. r \in 0 .. w - 1 /\ a = w * q + r
    BY <1>2, <2>1
  <2> HIDE DEF r
  <2>3. q + 1 \in Int /\ a + w = w * (q + 1) + r
    BY <1>1, <2>2
  <2>4. (a + w) % w = r
    BY <1>1, <2>2, <2>3, Remainder
  <2> QED
    BY <2>4 DEF r
<1>5. p + w - 1 = a + w
  BY <1>1
<1> DEFINE x == a % w
<1>6. x \in 0 .. w - 1 /\ (p <= w => x = a) /\ (p + w - 1) % w = x /\ RingPlace(p) = x + 1
  BY <1>2, <1>3, <1>4, <1>5 DEF RingPlace
<1> HIDE DEF x
<1> QED
  BY <1>1, <1>6

\* Two samples that are both in the ring are not in one place.
LEMMA PlacesDiffer ==
  ASSUME NEW p \in Nat \ {0}, NEW q \in Nat \ {0}, p < q, q - p < RingSize
  PROVE  RingPlace(p) # RingPlace(q)
<1> DEFINE a == p - 1  b == q - 1  x == a % RingSize  y == b % RingSize
<1>1. a \in Int /\ b \in Int /\ a < b /\ b - a < RingSize
  BY RingSizes
<1>2. x # y
  BY <1>1, RingSizes, Residues
<1>3. x \in Nat /\ y \in Nat
  <2>1. x \in 0 .. RingSize - 1 /\ y \in 0 .. RingSize - 1
    BY <1>1, RingSizes, Quotient
  <2> HIDE DEF x, y
  <2> QED
    BY <2>1, RingSizes
<1>4. RingPlace(p) = x + 1 /\ RingPlace(q) = y + 1
  BY DEF RingPlace
<1> HIDE DEF x, y
<1> QED
  BY <1>2, <1>3, <1>4

\* The head is the place of the next sample.
LEMMA HeadFacts ==
  ASSUME NEW r, NEW head, NEW all, LastIn(r, head, all)
  PROVE  /\ head + 1 = RingPlace(Len(all) + 1)
         /\ NextHead(head) = (Len(all) + 1) % RingSize
         /\ head \in 0 .. RingSize - 1
<1> DEFINE n == Len(all)
<1>1. n \in Nat /\ n \in Int /\ 1 \in Int /\ head = n % RingSize
  BY LenProperties DEF LastIn
<1>2. head \in 0 .. RingSize - 1
  BY <1>1, RingSizes, Quotient
<1>3. n + 1 - 1 = n
  BY <1>1
<1>4. ((n % RingSize) + 1) % RingSize = (n + 1) % RingSize
  BY <1>1, RingSizes, RemainderPlus
<1> QED
  BY <1>1, <1>2, <1>3, <1>4 DEF RingPlace, NextHead

LEMMA PushKeeps ==
  ASSUME NEW r, NEW head, NEW all, LastIn(r, head, all), NEW s \in Readings
  PROVE  LastIn(Pushed(r, head, s), NextHead(head), Append(all, s))
<1> DEFINE n == Len(all) a == Append(all, s)  t == Pushed(r, head, s)
<1>1. /\ all \in Seq(Readings) /\ r \in Seq(Readings) /\ n \in Nat /\ RingSize \in Nat \ {0}
      /\ Len(r) = IF n < RingSize THEN n ELSE RingSize
      /\ \A p \in 1 .. n : n - p < RingSize => r[RingPlace(p)] = all[p]
  BY LenProperties, RingSizes DEF LastIn
<1>2. /\ a \in Seq(Readings) /\ Len(a) = n + 1 /\ a[n + 1] = s
      /\ \A p \in 1 .. n : a[p] = all[p]
  BY AppendProperties DEF LastIn
<1>3. head + 1 = RingPlace(n + 1) /\ NextHead(head) = (n + 1) % RingSize
  BY HeadFacts
<1>4. RingPlace(n + 1) \in 1 .. RingSize /\ (n + 1 <= RingSize => RingPlace(n + 1) = n + 1)
  <2> DEFINE q == n + 1
  <2>1. q \in Nat \ {0}
    BY <1>1
  <2> HIDE DEF q
  <2>2. RingPlace(q) \in 1 .. RingSize /\ (q <= RingSize => RingPlace(q) = q)
    BY <2>1, PlaceFacts
  <2> QED
    BY <2>2 DEF q
<1> HIDE DEF n, a
<1>5. /\ t \in Seq(Readings)
      /\ Len(t) = IF n + 1 < RingSize THEN n + 1 ELSE RingSize
      /\ t[RingPlace(n + 1)] = s
      /\ \A i \in 1 .. Len(r) : i # RingPlace(n + 1) => t[i] = r[i]
  <2>1. CASE Len(r) < RingSize
    <3>1. t = Append(r, s)
      BY <2>1 DEF Pushed
    <3>2. n < RingSize /\ Len(r) = n
      BY <1>1, <2>1
    <3>3. /\ t \in Seq(Readings) /\ Len(t) = n + 1 /\ t[n + 1] = s
          /\ \A i \in 1 .. n : t[i] = r[i]
      <4> DEFINE x == Append(r, s)
      <4>1. /\ x \in Seq(Readings) /\ Len(x) = Len(r) + 1 /\ x[Len(r) + 1] = s
            /\ \A i \in 1 .. Len(r) : x[i] = r[i]
        BY <1>1, AppendProperties
      <4> HIDE DEF x
      <4> QED
        BY <3>1, <3>2, <4>1 DEF x
    <3>4. RingPlace(n + 1) = n + 1 /\ n + 1 = IF n + 1 < RingSize THEN n + 1 ELSE RingSize
      BY <1>1, <1>4, <3>2
    <3> QED
      BY <3>2, <3>3, <3>4
  <2>2. CASE ~(Len(r) < RingSize)
    <3>1. t = [r EXCEPT ![head + 1] = s]
      BY <2>2 DEF Pushed
    <3>2. ~(n < RingSize) /\ Len(r) = RingSize /\ head + 1 \in 1 .. Len(r)
      BY <1>1, <1>3, <1>4, <2>2
    <3>3. /\ t \in Seq(Readings) /\ Len(t) = RingSize
          /\ \A i \in 1 .. RingSize : t[i] = IF i = head + 1 THEN s ELSE r[i]
      BY <1>1, <3>1, <3>2, ExceptSeq
    <3>4. RingSize = IF n + 1 < RingSize THEN n + 1 ELSE RingSize
      BY <1>1, <3>2
    <3> QED
      BY <1>3, <3>2, <3>3, <3>4
  <2> QED
    BY <2>1, <2>2
<1>6. ASSUME NEW p \in 1 .. n + 1, (n + 1) - p < RingSize PROVE t[RingPlace(p)] = a[p]
  <2>1. CASE p = n + 1
    BY <1>2, <1>5, <2>1
  <2>2. CASE p # n + 1
    <3>1. p \in 1 .. n /\ n - p < RingSize /\ p < n + 1 /\ p \in Nat \ {0} /\ n + 1 \in Nat \ {0}
      BY <1>1, <1>6, <2>2
    <3>2. RingPlace(p) # RingPlace(n + 1)
      <4> DEFINE q == n + 1
      <4>1. q - p < RingSize /\ p < q /\ q \in Nat \ {0}
        BY <1>1, <1>6, <3>1
      <4> HIDE DEF q
      <4>2. RingPlace(p) # RingPlace(q)
        BY <3>1, <4>1, PlacesDiffer
      <4> QED
        BY <4>2 DEF q
    <3>3. RingPlace(p) \in 1 .. Len(r)
      <4>1. CASE n < RingSize
        <5>1. p <= RingSize
          BY <1>1, <3>1, <4>1
        <5>2. RingPlace(p) = p
          BY <3>1, <5>1, PlaceFacts
        <5> QED
          BY <1>1, <3>1, <4>1, <5>2
      <4>2. CASE ~(n < RingSize)
        BY <1>1, <3>1, <4>2, PlaceFacts
      <4> QED
        BY <4>1, <4>2
    <3>4. t[RingPlace(p)] = r[RingPlace(p)]
      BY <1>5, <3>2, <3>3
    <3> QED
      BY <1>1, <1>2, <3>1, <3>4
  <2> QED
    BY <2>1, <2>2
<1> HIDE DEF t
<1>7. LastIn(t, (n + 1) % RingSize, a)
  <2> DEFINE k == n + 1
  <2>1. /\ k = Len(a) /\ a \in Seq(Readings) /\ t \in Seq(Readings)
        /\ Len(t) = IF k < RingSize THEN k ELSE RingSize
        /\ \A p \in 1 .. k : k - p < RingSize => t[RingPlace(p)] = a[p]
    BY <1>2, <1>5, <1>6
  <2> HIDE DEF k
  <2>2. LastIn(t, k % RingSize, a)
    BY <2>1 DEF LastIn
  <2> QED
    BY <2>2 DEF k
<1> QED
  BY <1>3, <1>7 DEF a, t

\* The last m samples of all, or all of them, are what recent_features gives.
IsWindow(w, all, m) ==
  LET n == Len(all)
      k == IF n < m THEN n ELSE m
  IN /\ w = SubSeq(all, n - k + 1, n) /\ w \in Seq(Readings) /\ Len(w) = k
     /\ \A i \in 1 .. k : w[i] = all[n - k + i]

\* recent_features and latest look where push put the samples.
LEMMA WindowFacts ==
  ASSUME NEW r, NEW head, NEW all, LastIn(r, head, all), NEW m \in 1 .. RingSize
  PROVE  IsWindow(Window(r, head, m), all, m)
<1> DEFINE n == Len(all)
           k == IF n < m THEN n ELSE m
           start == IF Len(r) < RingSize THEN 0 ELSE head
           w == Window(r, head, m)
           at(i) == ((start + Len(r) - k + i - 1) % RingSize) + 1
<1>1. /\ all \in Seq(Readings) /\ n \in Nat /\ m \in Nat /\ m <= RingSize /\ RingSize \in Nat \ {0}
      /\ Len(r) = IF n < RingSize THEN n ELSE RingSize
      /\ head = n % RingSize
  BY LenProperties, RingSizes DEF LastIn
<1>2. k \in Nat /\ k <= n /\ k <= RingSize /\ k = IF m < Len(r) THEN m ELSE Len(r)
  BY <1>1
<1>3. w = [i \in 1 .. k |-> r[at(i)]]
  BY <1>2 DEF Window
<1>4. \A p \in 1 .. n : n - p < RingSize => r[RingPlace(p)] = all[p]
  BY DEF LastIn
<1>5. \A i \in 1 .. n : all[i] \in Readings
  BY <1>1, ElementOfSeq
<1> HIDE DEF n, k, w
<1>6. ASSUME NEW i \in 1 .. k PROVE r[at(i)] = all[n - k + i]
  <2> DEFINE p == n - k + i
  <2>1. p \in 1 .. n /\ p \in Nat \ {0} /\ n - p < RingSize
    BY <1>1, <1>2
  <2>2. at(i) = RingPlace(p)
    <3>1. CASE n < RingSize
      <4>1. start + Len(r) - k + i - 1 = p - 1
        BY <1>1, <1>2, <3>1
      <4> QED
        BY <4>1 DEF RingPlace
    <3>2. CASE ~(n < RingSize)
      <4> DEFINE b == RingSize - k + i - 1
      <4>1. b \in Int /\ n \in Int /\ start = n % RingSize /\ Len(r) = RingSize
        BY <1>1, <1>2, <3>2
      <4>2. start + Len(r) - k + i - 1 = (n % RingSize) + b
        <5>1. n % RingSize \in 0 .. RingSize - 1
          BY <1>1, Quotient
        <5> DEFINE x == n % RingSize
        <5>2. x \in Nat /\ start = x /\ Len(r) = RingSize /\ RingSize \in Nat
          BY <1>1, <4>1, <5>1
        <5> HIDE DEF x, start
        <5>3. start + Len(r) - k + i - 1 = x + b
          BY <1>2, <5>2
        <5> QED
          BY <5>3 DEF x, start
      <4>3. n + b = p + RingSize - 1
        BY <1>1, <1>2
      <4> HIDE DEF b, p
      <4>4. ((n % RingSize) + b) % RingSize = (p + RingSize - 1) % RingSize
        <5>1. ((n % RingSize) + b) % RingSize = (n + b) % RingSize
          BY <1>1, <4>1, RemainderPlus
        <5> QED
          BY <4>3, <5>1, Zenon
      <4>5. at(i) = ((p + RingSize - 1) % RingSize) + 1
        BY <4>2, <4>4
      <4> QED
        BY <2>1, <4>5, PlaceFacts
    <3> QED
      BY <3>1, <3>2
  <2> HIDE DEF p, at
  <2>3. r[at(i)] = all[p]
    BY <1>4, <2>1, <2>2
  <2> QED
    BY <2>3 DEF p
<1> HIDE DEF at
<1>7. w = [i \in 1 .. k |-> all[n - k + i]]
  BY <1>3, <1>6
<1>8. \A i \in 1 .. k : n - k + i \in 1 .. n
  BY <1>1, <1>2
<1>9. /\ w \in [1 .. k -> Readings] /\ w \in Seq(Readings) /\ Len(w) = k
      /\ \A i \in 1 .. k : w[i] = all[n - k + i]
  BY <1>2, <1>5, <1>7, <1>8
<1>10. w = SubSeq(all, n - k + 1, n)
  <2> DEFINE t == SubSeq(all, n - k + 1, n)
  <2>1. n - k + 1 \in Int /\ n - k + 1 >= 1 /\ n - (n - k + 1) + 1 = k /\ (n - k + 1 <= n <=> k # 0)
        /\ \A i \in (n - k + 1) .. n : all[i] \in Readings
    BY <1>1, <1>2, <1>5
  <2>2. /\ t \in Seq(Readings)
        /\ Len(t) = IF n - k + 1 <= n THEN n - (n - k + 1) + 1 ELSE 0
        /\ \A i \in 1 .. n - (n - k + 1) + 1 : t[i] = all[(n - k + 1) + i - 1]
    BY <1>1, <2>1, SubSeqProperties
  <2>3. Len(t) = k /\ \A i \in 1 .. k : t[i] = all[n - k + i]
    <3>1. \A i \in 1 .. k : (n - k + 1) + i - 1 = n - k + i
      BY <1>1, <1>2
    <3>2. k \in Nat
      BY <1>2
    <3> HIDE DEF t
    <3>3. Len(t) = k
      BY <2>1, <2>2, <3>2
    <3>4. \A i \in 1 .. k : t[i] = all[n - k + i]
      BY <2>1, <2>2, <3>1
    <3> QED
      BY <3>3, <3>4
  <2> HIDE DEF t
  <2>4. w = t
    BY <1>2, <1>9, <2>2, <2>3, SeqEqual
  <2> QED
    BY <2>4 DEF t
<1> QED
  BY <1>9, <1>10 DEF n, k, w, IsWindow

LEMMA LatestFacts ==
  ASSUME NEW r, NEW head, NEW all, LastIn(r, head, all), all # << >>
  PROVE  Latest(r, head) = all[Len(all)] /\ all[Len(all)] \in Readings
<1> DEFINE n == Len(all)
<1>1. /\ all \in Seq(Readings) /\ n \in Nat /\ n >= 1 /\ RingSize \in Nat \ {0}
      /\ Len(r) = IF n < RingSize THEN n ELSE RingSize
      /\ head = n % RingSize
  BY LenProperties, EmptySeq, RingSizes DEF LastIn
<1>2. r[RingPlace(n)] = all[n] /\ all[n] \in Readings
  <2>1. n \in 1 .. n /\ n - n < RingSize
    BY <1>1
  <2> QED
    BY <1>1, <2>1, ElementOfSeq DEF LastIn
<1>3. RingPlace(n) = IF head = 0 THEN Len(r) ELSE head
  <2>1. CASE n < RingSize
    <3>1. n % RingSize = n
      <4>1. n \in 0 .. RingSize - 1
        BY <1>1, <2>1
      <4> QED
        BY <1>1, <4>1, SmallRemainder
    <3>2. RingPlace(n) = n
      <4>1. n \in Nat \ {0} /\ n <= RingSize
        BY <1>1, <2>1
      <4> QED
        BY <4>1, PlaceFacts
    <3> QED
      BY <1>1, <3>1, <3>2
  <2>2. CASE ~(n < RingSize)
    <3> DEFINE a == n - 1  x == a % RingSize
    <3>1. a \in Int /\ a \in Nat /\ 1 \in Int /\ a + 1 = n /\ Len(r) = RingSize
      BY <1>1, <2>2
    <3>2. x \in 0 .. RingSize - 1
      BY <1>1, <3>1, Quotient
    <3>3. (x + 1) % RingSize = n % RingSize
      <4>1. ((a % RingSize) + 1) % RingSize = (a + 1) % RingSize
        <5>1. RingSize \in Nat \ {0}
          BY <1>1
        <5> HIDE DEF a
        <5> QED
          BY <3>1, <5>1, RemainderPlus
      <4> QED
        BY <3>1, <4>1
    <3>4. RingPlace(n) = x + 1
      BY DEF RingPlace
    <3> HIDE DEF x, n
    <3>5. CASE x + 1 < RingSize
      <4>1. (x + 1) \in 0 .. RingSize - 1 /\ x + 1 # 0
        BY <1>1, <3>2, <3>5
      <4>2. (x + 1) % RingSize = x + 1
        BY <1>1, <4>1, SmallRemainder
      <4> QED
        BY <1>1, <3>3, <3>4, <4>1, <4>2
    <3>6. CASE ~(x + 1 < RingSize)
      <4>1. x + 1 = RingSize
        BY <1>1, <3>2, <3>6
      <4>2. RingSize % RingSize = 0
        <5>1. 0 \in 0 .. RingSize - 1 /\ 1 \in Int /\ RingSize \in Int /\ RingSize = RingSize * 1 + 0
          BY <1>1
        <5> QED
          BY <1>1, <5>1, Remainder
      <4> QED
        BY <1>1, <3>1, <3>3, <3>4, <4>1, <4>2
    <3> QED
      BY <3>5, <3>6
  <2> QED
    BY <2>1, <2>2
<1> QED
  BY <1>2, <1>3 DEF Latest

LEMMA ProductIsNat ==
  ASSUME NEW a \in Nat, NEW b \in Nat
  PROVE  a * b \in Nat
OBVIOUS

LEMMA QuotientIsNat ==
  ASSUME NEW a \in Nat, NEW d \in Nat \ {0}
  PROVE  a \div d \in Nat
<1>1. a \div d \in Int /\ a = d * (a \div d) + (a % d) /\ a % d \in 0 .. d - 1
  OBVIOUS
<1> DEFINE q == a \div d
<1> HIDE DEF q
<1>2. ASSUME q <= -1 PROVE FALSE
  <2> DEFINE e == -1 - q
  <2>1. e \in Nat /\ q = -1 - e
    BY <1>1, <1>2 DEF q
  <2>2. d * e \in Nat
    BY <2>1, ProductIsNat
  <2>3. d * q = (-d) - d * e
    <3> HIDE DEF e
    <3> QED
      BY <2>1
  <2> DEFINE x == d * e  y == d * q
  <2>4. a = y + (a % d) /\ y = (-d) - x /\ x \in Nat
    BY <1>1, <2>2, <2>3 DEF q
  <2> HIDE DEF x, y
  <2> QED
    BY <1>1, <2>4
<1> QED
  BY <1>1, <1>2 DEF q

\* A weighted mean of naturals is one.
LEMMA MeanIsNat ==
  ASSUME NEW values \in Seq(Nat), values # << >>
  PROVE  Mean(values) \in Nat
<1> DEFINE n == Len(values)
           next(i, x) == x + (n - i + 1) * values[i]
           step == [y \in (1 .. n) \X Nat |-> next(y[1], y[2])]
           Def(f) == f = [i \in 0 .. n |->
                            IF i = 0 THEN 0 ELSE f[i - 1] + (n - i + 1) * values[i]]
<1>1. n \in Nat \ {0} /\ n \in Nat /\ 0 \in Nat /\ \A i \in 1 .. n : values[i] \in Nat
  BY EmptySeq, LenProperties, ElementOfSeq
<1> HIDE DEF n
<1>2. step \in [(1 .. n) \X Nat -> Nat]
  <2> SUFFICES ASSUME NEW i \in 1 .. n, NEW x \in Nat PROVE next(i, x) \in Nat
    OBVIOUS
  <2> DEFINE a == n - i + 1  b == values[i]
  <2>1. a \in Nat /\ b \in Nat
    BY <1>1
  <2> HIDE DEF a, b
  <2>2. a * b \in Nat
    BY <2>1, ProductIsNat
  <2> DEFINE c == a * b
  <2>3. x + c \in Nat
    <3> HIDE DEF c
    <3> QED
      BY <2>2 DEF c
  <2> QED
    BY <2>3 DEF a, b
<1>3. PICK f : IsIterate(f, Nat, 0, n, step)
  <2> HIDE DEF step
  <2> QED
    BY <1>1, <1>2, Iterates
<1>4. ASSUME NEW i \in 1 .. n PROVE f[i] = next(i, f[i - 1])
  <2>1. f[i - 1] \in Nat
    BY <1>1, <1>3 DEF IsIterate
  <2>2. << i, f[i - 1] >> \in (1 .. n) \X Nat
    BY <2>1
  <2>3. f[i] = step[<< i, f[i - 1] >>]
    BY <1>3 DEF IsIterate
  <2> HIDE DEF next
  <2> QED
    BY <2>2, <2>3
<1> HIDE DEF step
<1>5. Def(f)
  <2>1. ASSUME NEW i \in 0 .. n
        PROVE  f[i] = IF i = 0 THEN 0 ELSE next(i, f[i - 1])
    <3>1. CASE i = 0
      BY <1>3, <3>1 DEF IsIterate
    <3>2. CASE i # 0
      <4>1. i \in 1 .. n
        BY <1>1, <3>2
      <4> HIDE DEF next
      <4> QED
        BY <1>4, <3>2, <4>1
    <3> QED
      BY <3>1, <3>2
  <2>2. f \in [0 .. n -> Nat]
    BY <1>3 DEF IsIterate
  <2> QED
    BY <2>1, <2>2
<1> DEFINE g == CHOOSE h : Def(h)
<1>6. Def(g)
  BY <1>5
<1> DEFINE d == (n * (n + 1)) \div 2
<1>7. Mean(values) = g[n] \div d
  BY DEF Mean, n
<1>8. g[0] = 0 /\ \A i \in 1 .. n : g[i] = next(i, g[i - 1])
  <2> HIDE DEF g
  <2> QED
    BY <1>1, <1>6
<1> HIDE DEF g, Def
<1>9. \A i \in 0 .. n : i \in {k \in 0 .. n : g[k] \in Nat}
  <2> DEFINE Good == {k \in 0 .. n : g[k] \in Nat}
  <2>1. 0 \in Good
    BY <1>1, <1>8
  <2>2. ASSUME NEW i \in 1 .. n, i - 1 \in Good PROVE i \in Good
    <3> DEFINE a == n - i + 1  b == values[i]  c == a * b
    <3>1. a \in Nat /\ b \in Nat
      BY <1>1
    <3>2. c \in Nat
      <4> HIDE DEF a, b
      <4> QED
        BY <3>1, ProductIsNat
    <3>3. g[i] = g[i - 1] + c
      BY <1>8
    <3> HIDE DEF c
    <3> QED
      BY <2>2, <3>2, <3>3
  <2> HIDE DEF Good
  <2>3. \A i \in 0 .. n : i \in Good
    BY <1>1, <2>1, <2>2, InductUpTo
  <2> QED
    BY <2>3 DEF Good
<1>10. g[n] \in Nat
  BY <1>1, <1>9
<1>11. d \in Nat \ {0}
  <2> DEFINE m == n * (n + 1)
  <2>1. m \in Nat /\ m >= 2
    BY <1>1
  <2>2. d = m \div 2
    OBVIOUS
  <2> HIDE DEF m, d
  <2> QED
    BY <2>1, <2>2
<1> HIDE DEF d
<1> QED
  BY <1>7, <1>10, <1>11, QuotientIsNat

\* What the last sample of a window says of the decision.
LEMMA DecideFacts ==
  ASSUME NEW w \in Seq(Readings), w # << >>
  PROVE  /\ Decide(w) # "boost"
         /\ w[Len(w)].running = 0 => Decide(w) # "none"
<1> DEFINE n == Len(w)  s == w[n]
<1>1. n \in Nat \ {0} /\ \A i \in 1 .. n : w[i] \in Readings
  BY EmptySeq, LenProperties, ElementOfSeq
<1>2. s \in Readings /\ s.running \in Nat /\ s.heap \in 0 .. 100 /\ s.peers \in Nat
  BY <1>1, TelemetryAssumption
<1>3. s.running = 0 => Sync(w) = "sync"
  <2> SUFFICES ASSUME s.running = 0 PROVE SyncDecision(s) > 0
    BY DEF Sync
  <2> DEFINE p == Peering(s)  f == HeapFree(s)  c == CpuIdle(s)
             r == Relu(100 - p)
             x == (3 * p) \div 2  y == (c + f + p) \div 2
  <2>1. p \in Nat
    BY <1>2 DEF Peering
  <2>2. f \in Nat
    <3> DEFINE u == s.heap
    <3>1. f = 16 * (1000 - 10 * u) /\ u \in 0 .. 100
      BY <1>2 DEF HeapFree, HeapUsed
    <3> HIDE DEF f, u
    <3> QED
      BY <3>1
  <2>3. c = 950
    BY DEF CpuIdle, Busy
  <2>4. SyncDecision(s) = x + c + f + (c + p) + y - 2 * r - 1800
    BY DEF SyncDecision
  <2> HIDE DEF p, f, c
  <2>5. r \in 0 .. 100
    BY <2>1 DEF Relu
  <2>6. x \in Nat
    BY <2>1
  <2>7. y \in Nat /\ y >= 475
    BY <2>1, <2>2, <2>3
  <2> HIDE DEF r, x, y
  <2> QED
    BY <2>1, <2>2, <2>3, <2>4, <2>5, <2>6, <2>7
<1>4. s.running # 0 => Boost(w) = "none"
  <2> SUFFICES ASSUME s.running # 0
               PROVE  ~ (Forecast([i \in DOMAIN w |-> Busy(w[i])]) < -1734)
    BY DEF Boost
  <2> DEFINE v == [i \in DOMAIN w |-> Busy(w[i])]
  <2>1. v \in Seq(Nat) /\ Len(v) = n /\ \A i \in 1 .. n : v[i] \in {50, 400}
    <3>1. DOMAIN w = 1 .. n
      BY LenProperties
    <3>2. \A i \in 1 .. n : v[i] \in {50, 400}
      BY <3>1 DEF Busy
    <3>3. v \in [1 .. n -> Nat]
      BY <3>1, <3>2
    <3> QED
      BY <1>1, <3>2, <3>3
  <2>2. v[n] = 400
    BY <1>1, LenProperties DEF Busy
  <2> HIDE DEF v
  <2>3. Mean(v) \in Nat
    <3>1. v # << >>
      BY <1>1, <2>1, EmptySeq
    <3> QED
      BY <2>1, <3>1, MeanIsNat
  <2>4. Trend(v) \in Nat
    <3>1. n > 1 => v[n - 1] \in {50, 400}
      BY <1>1, <2>1
    <3> QED
      BY <1>1, <2>1, <2>2, <3>1 DEF Trend
  <2> DEFINE t == Trend(v)  h == (3 * t) \div 2  m == Mean(v)
  <2>5. Forecast(v) = 2 * v[n] + 2 * m + h - 2000
    BY <2>1 DEF Forecast
  <2>6. t \in Nat /\ m \in Nat
    BY <2>3, <2>4
  <2> HIDE DEF t, m
  <2>7. h \in Nat
    BY <2>6
  <2> HIDE DEF h
  <2>8. ~ (Forecast(v) < -1734)
    BY <2>2, <2>5, <2>6, <2>7
  <2> QED
    BY <2>8 DEF v
<1>5. Pressing(w) \in {"isolate", "trim", "none"} /\ Sync(w) \in {"sync", "none"}
      /\ Boost(w) \in {"boost", "none"}
  BY DEF Pressing, Sync, Boost
<1> HIDE DEF n, s
<1>6. /\ s.running = 0 => Decide(w) \in {"isolate", "trim", "sync"}
      /\ s.running # 0 => Decide(w) \in {"isolate", "trim", "sync", "none"}
  BY <1>3, <1>4, <1>5 DEF Decide, FirstOf
<1> QED
  BY <1>6 DEF n, s

IdleIn(all) == {i \in DOMAIN all : all[i].running = 0}

LEMMA IdleGrows ==
  ASSUME NEW all \in Seq(Readings), NEW s \in Readings
  PROVE  /\ Cardinality(IdleIn(all)) \in Nat
         /\ Cardinality(IdleIn(Append(all, s))) =
              Cardinality(IdleIn(all)) + (IF s.running = 0 THEN 1 ELSE 0)
<1> DEFINE n == Len(all)  a == Append(all, s)  old == IdleIn(all)
<1>1. /\ n \in Nat /\ Len(a) = n + 1 /\ a[n + 1] = s /\ DOMAIN all = 1 .. n
      /\ DOMAIN a = 1 .. n + 1 /\ \A i \in 1 .. n : a[i] = all[i]
  BY AppendProperties, LenProperties
<1>2. IdleIn(a) = old \cup (IF s.running = 0 THEN {n + 1} ELSE {})
  <2> HIDE DEF a, n
  <2> QED
    BY <1>1 DEF IdleIn
<1>3. old \subseteq 1 .. n /\ n + 1 \notin old
  <2> HIDE DEF a, n
  <2> QED
    BY <1>1 DEF IdleIn
<1> HIDE DEF old, a, n
<1>5. Cardinality(old) \in Nat /\ Cardinality(old \cup {n + 1}) = Cardinality(old) + 1
  BY <1>1, <1>3, OneMore
<1>7. old \cup {} = old
  OBVIOUS
<1>8. CASE s.running = 0
  <2>1. Cardinality(IdleIn(a)) = Cardinality(old) + 1
    BY <1>2, <1>5, <1>8
  <2> QED
    BY <1>5, <1>8, <2>1 DEF old, a
<1>9. CASE s.running # 0
  <2>1. Cardinality(IdleIn(a)) = Cardinality(old)
    BY <1>2, <1>7, <1>9
  <2> QED
    BY <1>5, <1>9, <2>1 DEF old, a
<1> QED
  BY <1>8, <1>9

\* add keeps the list short.
ListKept(g) ==
  /\ g.list \in Seq(Suggestion) /\ g.nextId \in Nat /\ Len(g.list) <= MaxSuggestions

LEMMA AddListed ==
  ASSUME NEW g, ListKept(g), NEW kind \in {"network", "memory"}, NEW s \in Readings
  PROVE  ListKept(AddSuggestion(g, kind, s))
<1> DEFINE kept == IF Len(g.list) >= MaxSuggestions THEN Tail(g.list) ELSE g.list
           e == [id |-> g.nextId, kind |-> kind, seen |-> s]
           h == AddSuggestion(g, kind, s)
<1>1. e \in Suggestion
  BY DEF Suggestion, ListKept
<1>2. kept \in Seq(Suggestion) /\ Len(kept) \in Nat /\ Len(kept) < MaxSuggestions
  <2>1. CASE Len(g.list) >= MaxSuggestions
    <3>1. g.list \in Seq(Suggestion) /\ g.list # << >>
      BY <2>1, EmptySeq, RingSizes DEF ListKept
    <3>2. Tail(g.list) \in Seq(Suggestion) /\ Len(Tail(g.list)) = Len(g.list) - 1
      BY <3>1, HeadTailProperties
    <3> QED
      BY <2>1, <3>2, LenProperties, RingSizes DEF ListKept
  <2>2. CASE ~(Len(g.list) >= MaxSuggestions)
    BY <2>2, LenProperties, RingSizes DEF ListKept
  <2> QED
    BY <2>1, <2>2
<1>3. h = [list |-> Append(kept, e), nextId |-> g.nextId + 1]
  BY DEF AddSuggestion
<1> HIDE DEF kept, e, h
<1>4. Append(kept, e) \in Seq(Suggestion) /\ Len(Append(kept, e)) = Len(kept) + 1
  BY <1>1, <1>2, AppendProperties
<1>5. ListKept(h)
  BY <1>2, <1>3, <1>4, RingSizes DEF ListKept
<1> QED
  BY <1>5 DEF h

LEMMA EvaluatedListed ==
  ASSUME NEW g, ListKept(g), NEW s \in Readings, NEW now
  PROVE  ListKept(Evaluated(g, s, now))
<1> DEFINE o == IF now % SuggestEvery = 0 /\ s.peers > 0
                THEN AddSuggestion(g, "network", s) ELSE g
<1>1. ListKept(AddSuggestion(g, "network", s))
  BY AddListed
<1>2. ListKept(o)
  BY <1>1
<1> HIDE DEF o
<1>3. ListKept(AddSuggestion(o, "memory", s))
  BY <1>2, AddListed
<1> QED
  BY <1>2, <1>3 DEF Evaluated, o

\* What was applied, against the samples there have been.
AppliedOK(o, all) ==
  /\ o.last # "boost" /\ o.applied \in Nat
  /\ Cardinality(IdleIn(all)) <= o.applied /\ o.applied <= Len(all)

TelemetryInv == RingOK /\ AppliedOK(optimized, samples) /\ ListKept(suggestions)

LEMMA TelemetryInvariant == TelemetrySpec => []TelemetryInv
<1>1. TelemetryInit => TelemetryInv
  <2> SUFFICES ASSUME TelemetryInit PROVE TelemetryInv
    OBVIOUS
  <2>1. /\ ring = << >> /\ ringHead = 0 /\ samples = << >>
        /\ << >> \in Seq(Readings) /\ << >> \in Seq(Suggestion) /\ Len(<< >>) = 0
    BY EmptySeq DEF TelemetryInit
  <2>2. RingOK
    <3>1. 0 % RingSize = 0
      BY RingSizes, SmallRemainder
    <3>2. LastIn(<< >>, 0, << >>)
      BY <2>1, <3>1, RingSizes DEF LastIn
    <3> QED
      BY <2>1, <3>2 DEF RingOK
  <2>3. AppliedOK(optimized, samples)
    <3>1. IdleIn(<< >>) = {}
      BY DEF IdleIn
    <3>2. Cardinality({}) = 0
      BY FS_EmptySet
    <3> QED
      BY <2>1, <3>1, <3>2 DEF AppliedOK, TelemetryInit
  <2>4. ListKept(suggestions)
    BY <2>1, RingSizes DEF ListKept, TelemetryInit
  <2> QED
    BY <2>2, <2>3, <2>4 DEF TelemetryInv
<1>2. TelemetryInv /\ [TelemetryNext]_telemetryVars => TelemetryInv'
  <2> SUFFICES ASSUME TelemetryInv, [TelemetryNext]_telemetryVars PROVE TelemetryInv'
    OBVIOUS
  <2>1. CASE UNCHANGED telemetryVars
    BY <2>1 DEF TelemetryInv, RingOK, telemetryVars
  <2>2. ASSUME NEW s \in Readings, IaTick(s) PROVE TelemetryInv'
    <3> DEFINE r == Pushed(ring, ringHead, s)  h == NextHead(ringHead)
               all == Append(samples, s)  n == Len(all)
               w == Window(r, h, WindowSize)
               o == Applied(optimized, Decide(w))
               g == Evaluated(suggestions, Latest(r, h), cycle')
    <3>1. /\ ring' = r /\ ringHead' = h /\ samples' = all
          /\ optimized' = o /\ suggestions' = g
      BY <2>2, Zenon DEF IaTick
    <3>2. LastIn(ring, ringHead, samples) /\ samples \in Seq(Readings)
      BY DEF TelemetryInv, RingOK, LastIn
    <3>3. LastIn(r, h, all)
      BY <3>2, PushKeeps
    <3>4. all \in Seq(Readings) /\ n = Len(samples) + 1 /\ n \in Nat \ {0} /\ all[n] = s
          /\ Len(samples) \in Nat /\ all # << >>
      BY <3>2, AppendProperties, LenProperties, EmptySeq
    <3> HIDE DEF r, h, all
    <3>5. Latest(r, h) \in Readings
      <4>1. Latest(r, h) = all[Len(all)] /\ all[Len(all)] \in Readings
        BY <3>3, <3>4, LatestFacts
      <4> QED
        BY <4>1
    <3>6. w \in Seq(Readings) /\ w # << >> /\ w[Len(w)] = s
      <4> DEFINE k == IF n < WindowSize THEN n ELSE WindowSize
      <4>1. k \in 1 .. n /\ k \in 1 .. k
        BY <3>4, RingSizes
      <4>2. /\ w \in Seq(Readings) /\ Len(w) = k
            /\ \A i \in 1 .. k : w[i] = all[n - k + i]
        <5>1. WindowSize \in 1 .. RingSize
          BY RingSizes
        <5>2. IsWindow(w, all, WindowSize)
          BY <3>3, <5>1, WindowFacts
        <5> HIDE DEF w
        <5> QED
          BY <5>2 DEF IsWindow
      <4> HIDE DEF w, k
      <4>3. w[k] = all[n - k + k] /\ n - k + k = n
        BY <3>4, <4>1, <4>2
      <4>4. Len(w) # 0
        BY <4>1, <4>2
      <4> QED
        BY <3>4, <4>2, <4>3, <4>4, EmptySeq
    <3>7. Decide(w) # "boost" /\ (s.running = 0 => Decide(w) # "none")
      BY <3>6, DecideFacts
    <3>8. AppliedOK(o, all)
      <4> DEFINE d == Decide(w)  c == Cardinality(IdleIn(samples))
      <4>1. /\ c \in Nat
            /\ Cardinality(IdleIn(all)) = c + (IF s.running = 0 THEN 1 ELSE 0)
        BY <3>2, IdleGrows DEF all
      <4>2. /\ optimized.applied \in Nat /\ c <= optimized.applied
            /\ optimized.applied <= Len(samples)
        BY DEF TelemetryInv, AppliedOK
      <4>3. o.last = d /\ o.applied = optimized.applied + (IF d = "none" THEN 0 ELSE 1)
        BY DEF Applied
      <4> HIDE DEF d, c, o
      <4>4. d # "boost" /\ (s.running = 0 => d # "none")
        BY <3>7 DEF d
      <4> QED
        BY <3>4, <4>1, <4>2, <4>3, <4>4 DEF AppliedOK
    <3>9. ListKept(g)
      <4>1. ListKept(suggestions)
        BY DEF TelemetryInv
      <4> HIDE DEF g
      <4> QED
        BY <3>5, <4>1, EvaluatedListed DEF g
    <3> HIDE DEF o, g
    <3>10. RingOK' /\ AppliedOK(optimized, samples)' /\ ListKept(suggestions)'
      BY <3>1, <3>3, <3>8, <3>9 DEF RingOK
    <3> QED
      BY <3>10 DEF TelemetryInv
  <2> QED
    BY <2>1, <2>2 DEF TelemetryNext
<1> QED
  BY <1>1, <1>2, PTL DEF TelemetrySpec

(* The ring is no longer than it may be, nor the list of suggestions, and no  *)
(* cycle acts twice.                                                         *)
THEOREM TelemetryTypes == TelemetrySpec => []TelemetryTypeOK
<1>1. TelemetryInv => TelemetryTypeOK
  <2> SUFFICES ASSUME TelemetryInv PROVE TelemetryTypeOK
    OBVIOUS
  <2>1. LastIn(ring, ringHead, samples)
    BY DEF TelemetryInv, RingOK
  <2>2. ringHead \in 0 .. RingSize - 1
    BY <2>1, HeadFacts
  <2>3. Len(ring) <= RingSize
    BY <2>1, LenProperties, RingSizes DEF LastIn
  <2> QED
    BY <2>2, <2>3 DEF TelemetryTypeOK, TelemetryInv, AppliedOK, ListKept
<1> QED
  BY <1>1, TelemetryInvariant, PTL

(* recent_features and latest give the last samples, in order, for every size *)
(* of the ring and of the window.                                            *)
THEOREM WindowsAreTrue == TelemetrySpec => []WindowTrue
<1>1. TelemetryInv => WindowTrue
  <2> SUFFICES ASSUME TelemetryInv PROVE WindowTrue
    OBVIOUS
  <2>1. LastIn(ring, ringHead, samples) /\ samples \in Seq(Readings)
    BY DEF TelemetryInv, RingOK, LastIn
  <2>2. WindowSize \in 1 .. RingSize
    BY RingSizes
  <2>3. Len(samples) > 0 => Latest(ring, ringHead) = samples[Len(samples)]
    <3> SUFFICES ASSUME Len(samples) > 0
                 PROVE  Latest(ring, ringHead) = samples[Len(samples)]
      OBVIOUS
    <3>1. samples # << >>
      BY EmptySeq
    <3> QED
      BY <2>1, <3>1, LatestFacts
  <2>4. IsWindow(Window(ring, ringHead, WindowSize), samples, WindowSize)
    BY <2>1, <2>2, WindowFacts
  <2> QED
    BY <2>3, <2>4 DEF WindowTrue, IsWindow
<1> QED
  BY <1>1, TelemetryInvariant, PTL

(* decide never reaches its boost, and every cycle that finds no process      *)
(* running applies an action.                                                *)
THEOREM IdleCyclesAct == TelemetrySpec => []IdleActs
<1>1. TelemetryInv => IdleActs
  BY DEF TelemetryInv, AppliedOK, IdleActs, IdleIn
<1> QED
  BY <1>1, TelemetryInvariant, PTL

-----------------------------------------------------------------------------
(* The engines side by side, as kernel_loop ticks them, whatever clock, bounds *)
(* and readings each has.                                                     *)
THEOREM EnginesStayTrue == EnginesSpec => []EnginesTrue
BY AlertsStayTrue, ActionsAreEarned, WindowsAreTrue, IdleCyclesAct, PTL
DEF EnginesSpec, EnginesTrue


-----------------------------------------------------------------------------
(***************************************************************************)
(* The registry and the containers, for any number of pids, containers and *)
(* modules.                                                                *)
(*                                                                         *)
(* KillOnce rests on where a pid is between two locks: in the registry, on *)
(* its way into it or on its way to exit_process, and then it has not been *)
(* ended yet (PidOnce).  ContainerEndsAll rests on what a container still  *)
(* holds: whatever it started is ended or held, and only a running one     *)
(* holds anything (BoxHolds).                                              *)
(***************************************************************************)
OnItsWay == shell.at \in {"register", "exit"}

PidOnce ==
  /\ \A e \in registry : e.pid \in 1 .. lastPid /\ killed[e.pid] = 0
  /\ OnItsWay => /\ shell.pid \in 1 .. lastPid
                 /\ killed[shell.pid] = 0
                 /\ \A e \in registry : e.pid # shell.pid
  /\ \A p \in Pids : p > lastPid => killed[p] = 0

BoxHolds ==
  \A b \in Boxes :
    /\ b \in DOMAIN boxes =>
         /\ startedBy[b] \subseteq ended \cup boxes[b].pids
         /\ boxes[b].state # "running" => boxes[b].pids = {}
    /\ b \notin DOMAIN boxes => startedBy[b] \subseteq ended
    /\ b >= nextBox => b \notin DOMAIN boxes

IInv == SupervisorTypeOK /\ PidOnce /\ KillOnce /\ BoxHolds

----------------------------------------------------------------------------
(* The two invariants follow from the inductive one.                         *)
LEMMA InitIInv == SupervisorInit => IInv
<1> SUFFICES ASSUME SupervisorInit PROVE IInv
  OBVIOUS
<1> USE SupervisorAssumption
<1>1. SupervisorTypeOK
  BY DEF SupervisorInit, SupervisorTypeOK, Pids, Boxes, Idle, Shell, NoModule, Box
<1>2. PidOnce /\ KillOnce
  BY DEF SupervisorInit, PidOnce, OnItsWay, KillOnce, Idle, Pids
<1>3. BoxHolds
  BY DEF SupervisorInit, BoxHolds, Boxes
<1> QED
  BY <1>1, <1>2, <1>3 DEF IInv

LEMMA HoldsImpliesEnds == BoxHolds => ContainerEndsAll
BY DEF BoxHolds, ContainerEndsAll

----------------------------------------------------------------------------
(* Steps of the registry leave the containers alone, except that a task may   *)
(* end; steps of the containers leave the registry alone.                     *)
RegistryStep ==
  /\ ended \subseteq ended'
  /\ UNCHANGED << boxes, nextBox, toStart, startedBy >>

LEMMA RegistryKeepsBoxes ==
  ASSUME BoxHolds, RegistryStep
  PROVE  BoxHolds'
BY DEF BoxHolds, RegistryStep

BoxesStep ==
  /\ lastPid' \in Nat /\ lastPid <= lastPid'
  /\ UNCHANGED << registry, shell, killed >>

LEMMA BoxesKeepPids ==
  ASSUME SupervisorTypeOK, PidOnce, KillOnce, BoxesStep
  PROVE  PidOnce' /\ KillOnce'
<1>1. lastPid \in Nat /\ Pids \subseteq Nat
  BY SupervisorAssumption DEF SupervisorTypeOK, Pids
<1> QED
  BY <1>1 DEF PidOnce, KillOnce, BoxesStep, OnItsWay

LEMMA PidFacts ==
  ASSUME SupervisorTypeOK
  PROVE  /\ lastPid \in Nat /\ MaxPid \in Nat
         /\ CanSpawn => Fresh \in Pids /\ Fresh \in 1 .. Fresh
         /\ \A p \in Pids : p \in Nat
BY SupervisorAssumption DEF SupervisorTypeOK, Pids, CanSpawn, Fresh

RegistryNext ==
  \/ \E m \in Modules : ExecLoad(m)
  \/ TaskBegin \/ SpawnStep \/ RegisterStep \/ KillExit
  \/ \E p \in Pids : KillRemove(p) \/ IrqKill(p) \/ TaskReturns(p)
  \/ \E n \in Modules \cup {NoModule} : IrqExec(n)

LEMMA RegistrySteps ==
  ASSUME IInv, RegistryNext
  PROVE  IInv'
<1> USE DEF IInv
<1>p. /\ lastPid \in Nat /\ MaxPid \in Nat
      /\ CanSpawn => Fresh \in Pids /\ Fresh \in 1 .. Fresh
      /\ \A q \in Pids : q \in Nat
  BY PidFacts
<1>r. RegistryStep
  BY DEF RegistryNext, RegistryStep, ExecLoad, TaskBegin, SpawnStep, RegisterStep, KillRemove,
         KillExit, IrqExec, IrqKill, TaskReturns, boxVars, ExitProcess
<1>b. BoxHolds'
  BY <1>r, RegistryKeepsBoxes
<1>x. /\ UNCHANGED << boxes, nextBox, toStart, startedBy >>
      /\ SupervisorTypeOK
  BY <1>r DEF RegistryStep
<1>1. ASSUME TaskBegin \/ \E m \in Modules : ExecLoad(m)
      PROVE  SupervisorTypeOK' /\ PidOnce' /\ KillOnce'
  <2>1. SupervisorTypeOK'
    <3>1. shell' \in Shell
      <4>1. PICK elf \in Modules \cup {NoModule} : shell' = [at |-> "spawn", pid |-> 0, elf |-> elf]
        BY <1>1 DEF ExecLoad, TaskBegin, Idle
      <4> QED
        BY <4>1 DEF Shell
    <3>2. loaded' \subseteq Modules
      BY <1>1, <1>x DEF ExecLoad, TaskBegin, SupervisorTypeOK
    <3>3. UNCHANGED << lastPid, ended, registry, killed >>
      BY <1>1 DEF ExecLoad, TaskBegin
    <3> QED
      BY <1>x, <3>1, <3>2, <3>3 DEF SupervisorTypeOK
  <2>2. PidOnce'
    BY <1>1, <1>x DEF ExecLoad, TaskBegin, PidOnce, OnItsWay, Idle, Shell
  <2>3. KillOnce'
    BY <1>1, <1>x DEF ExecLoad, TaskBegin, KillOnce
  <2> QED
    BY <2>1, <2>2, <2>3
<1>2. ASSUME SpawnStep
      PROVE  SupervisorTypeOK' /\ PidOnce' /\ KillOnce'
  <2>1. /\ CanSpawn /\ lastPid' = lastPid + 1 /\ Fresh = lastPid + 1
        /\ shell' = [shell EXCEPT !.at = "register", !.pid = Fresh]
        /\ UNCHANGED << ended, registry, loaded, killed >>
    BY <1>2 DEF SpawnStep, Fresh
  <2>2. shell \in Shell /\ shell'.at = "register" /\ shell'.pid = Fresh /\ shell' \in Shell
    BY <2>1, <1>p, <1>x DEF SupervisorTypeOK, Shell
  <2>3. lastPid' \in 0 .. MaxPid
    BY <2>1, <1>p DEF CanSpawn
  <2>4. SupervisorTypeOK'
    BY <2>1, <2>2, <2>3, <1>x DEF SupervisorTypeOK
  <2>5. PidOnce' /\ KillOnce'
    BY <2>1, <2>2, <1>p DEF PidOnce, KillOnce, OnItsWay
  <2> QED
    BY <2>4, <2>5
<1>3. ASSUME RegisterStep
      PROVE  SupervisorTypeOK' /\ PidOnce' /\ KillOnce'
  <2>1. /\ shell.at = "register" /\ shell.pid \in 1 .. lastPid /\ killed[shell.pid] = 0
        /\ shell.pid \in Pids
    BY <1>3, <1>p DEF RegisterStep, PidOnce, OnItsWay, SupervisorTypeOK, Pids
  <2>2. shell.elf \in Modules \cup {NoModule}
    BY DEF SupervisorTypeOK, Shell
  <2>3. /\ registry' = registry \cup {[pid |-> shell.pid, elf |-> shell.elf]}
        /\ shell' = Idle
        /\ UNCHANGED << lastPid, ended, loaded, killed >>
    BY <1>3 DEF RegisterStep, Register, Entry
  <2>4. SupervisorTypeOK'
    BY <2>1, <2>2, <2>3, <1>x DEF SupervisorTypeOK, Idle, Shell
  <2>5. PidOnce' /\ KillOnce'
    BY <2>1, <2>3 DEF PidOnce, KillOnce, OnItsWay, Idle
  <2> QED
    BY <2>4, <2>5
<1>4. ASSUME NEW p \in Pids, KillRemove(p)
      PROVE  SupervisorTypeOK' /\ PidOnce' /\ KillOnce'
  <2>1. PICK e \in registry : e.pid = p
    BY <1>4 DEF KillRemove, Found, Without
  <2>2. /\ registry' = {d \in registry : d.pid # p}
        /\ shell' = [Idle EXCEPT !.at = "exit", !.pid = p]
        /\ UNCHANGED << lastPid, ended, loaded, killed >>
    BY <1>4 DEF KillRemove, Without
  <2>3. shell'.at = "exit" /\ shell'.pid = p /\ shell' \in Shell
    BY <2>2, <1>p DEF Idle, Shell
  <2>4. SupervisorTypeOK'
    BY <2>2, <2>3, <1>x DEF SupervisorTypeOK
  <2>5. PidOnce' /\ KillOnce'
    BY <2>1, <2>2, <2>3 DEF PidOnce, KillOnce, OnItsWay
  <2> QED
    BY <2>4, <2>5
<1>5. ASSUME KillExit
      PROVE  SupervisorTypeOK' /\ PidOnce' /\ KillOnce'
  <2>1. /\ shell.pid \in 1 .. lastPid /\ killed[shell.pid] = 0
        /\ \A e \in registry : e.pid # shell.pid
        /\ shell.pid \in Pids
    BY <1>5, <1>p DEF KillExit, PidOnce, OnItsWay, SupervisorTypeOK, Pids
  <2>2. /\ killed' = [killed EXCEPT ![shell.pid] = @ + 1]
        /\ ended' = ended \cup {shell.pid} /\ shell' = Idle
        /\ UNCHANGED << lastPid, registry, loaded >>
    BY <1>5 DEF KillExit, ExitProcess
  <2>3. \A q \in Pids : killed'[q] = IF q = shell.pid THEN 1 ELSE killed[q]
    BY <2>1, <2>2 DEF SupervisorTypeOK
  <2>4. SupervisorTypeOK'
    BY <2>1, <2>2, <1>x DEF SupervisorTypeOK, Idle, Shell
  <2>5. PidOnce' /\ KillOnce'
    <3>1. \A e \in registry : e.pid \in Pids
      BY DEF SupervisorTypeOK
    <3> QED
      BY <2>1, <2>2, <2>3, <3>1, <1>p DEF PidOnce, KillOnce, OnItsWay, Idle
  <2> QED
    BY <2>4, <2>5
<1>6. ASSUME NEW n \in Modules \cup {NoModule}, IrqExec(n)
      PROVE  SupervisorTypeOK' /\ PidOnce' /\ KillOnce'
  <2>1. /\ CanSpawn /\ lastPid' = lastPid + 1 /\ Fresh = lastPid + 1
        /\ registry' = registry \cup {[pid |-> Fresh, elf |-> n]}
        /\ loaded' = loaded \cup (IF n = NoModule THEN {} ELSE {n})
        /\ UNCHANGED << ended, shell, killed >>
    BY <1>6 DEF IrqExec, Register, Entry, Fresh
  <2>2. killed[Fresh] = 0 /\ lastPid' \in 0 .. MaxPid
    BY <2>1, <1>p DEF PidOnce, CanSpawn
  <2>3. loaded' \subseteq Modules
    BY <2>1 DEF SupervisorTypeOK
  <2>4. SupervisorTypeOK'
    BY <2>1, <2>2, <2>3, <1>p, <1>x DEF SupervisorTypeOK
  <2>5. PidOnce' /\ KillOnce'
    BY <2>1, <2>2, <1>p DEF PidOnce, KillOnce, OnItsWay
  <2> QED
    BY <2>4, <2>5
<1>7. ASSUME NEW p \in Pids, IrqKill(p)
      PROVE  SupervisorTypeOK' /\ PidOnce' /\ KillOnce'
  <2>1. PICK e \in registry : e.pid = p
    BY <1>7 DEF IrqKill, Found, Without
  <2>2. /\ registry' = {d \in registry : d.pid # p}
        /\ killed' = [killed EXCEPT ![p] = @ + 1]
        /\ ended' = ended \cup {p}
        /\ UNCHANGED << lastPid, loaded, shell >>
    BY <1>7 DEF IrqKill, Without, ExitProcess
  <2>3. /\ \A q \in Pids : killed'[q] = IF q = p THEN 1 ELSE killed[q]
        /\ p \in 1 .. lastPid
        /\ OnItsWay => shell.pid # p
    BY <2>1, <2>2 DEF SupervisorTypeOK, PidOnce
  <2>4. SupervisorTypeOK'
    BY <2>2, <1>x DEF SupervisorTypeOK
  <2>5. PidOnce' /\ KillOnce'
    <3>1. /\ \A d \in registry : d.pid \in Pids
          /\ OnItsWay => shell.pid \in Pids
      BY <1>p DEF SupervisorTypeOK, PidOnce, Pids
    <3> QED
      BY <2>2, <2>3, <3>1, <1>p DEF PidOnce, KillOnce, OnItsWay
  <2> QED
    BY <2>4, <2>5
<1>8. ASSUME NEW p \in Pids, TaskReturns(p)
      PROVE  SupervisorTypeOK' /\ PidOnce' /\ KillOnce'
  BY <1>8, <1>x DEF TaskReturns, SupervisorTypeOK, PidOnce, KillOnce, OnItsWay
<1> QED
  BY <1>b, <1>1, <1>2, <1>3, <1>4, <1>5, <1>6, <1>7, <1>8 DEF RegistryNext

----------------------------------------------------------------------------
(* What a step of the containers must establish besides BoxHolds.             *)
LEMMA ContainerStepsKeepPids ==
  ASSUME IInv,
         Create \/ VirtTick \/ \E b \in Boxes : DemoStart(b) \/ Stop(b) \/ RemoveBox(b)
  PROVE  PidOnce' /\ KillOnce'
<1>1. BoxesStep
  <2>1. lastPid \in Nat
    BY PidFacts DEF IInv
  <2>2. ASSUME NEW b \in Boxes, DemoStart(b) PROVE BoxesStep
    <3>1. UNCHANGED << registry, shell, killed >>
      BY <2>2 DEF DemoStart, taskVars
    <3>2. lastPid' = lastPid \/ lastPid' = lastPid + 1
      BY <2>2 DEF DemoStart, Start, Fresh
    <3> QED
      BY <2>1, <3>1, <3>2 DEF BoxesStep
  <2>3. ASSUME Create \/ VirtTick PROVE BoxesStep
    BY <2>1, <2>3 DEF BoxesStep, Create, VirtTick, taskVars
  <2>4. ASSUME NEW b \in Boxes, Stop(b) \/ RemoveBox(b) PROVE BoxesStep
    BY <2>1, <2>4 DEF BoxesStep, Stop, RemoveBox, taskVars
  <2> QED
    BY <2>2, <2>3, <2>4
<1> QED
  BY <1>1, BoxesKeepPids DEF IInv

LEMMA CreateKeeps ==
  ASSUME IInv, Create
  PROVE  SupervisorTypeOK' /\ BoxHolds'
<1>1. /\ nextBox \in Boxes /\ nextBox' = nextBox + 1 /\ nextBox \in Nat
      /\ DOMAIN boxes' = DOMAIN boxes \cup {nextBox}
      /\ \A c \in DOMAIN boxes' : boxes'[c] = IF c = nextBox THEN NewBox ELSE boxes[c]
      /\ UNCHANGED << lastPid, ended, toStart, startedBy, registry, loaded, shell, killed >>
  BY SupervisorAssumption DEF Create, IInv, SupervisorTypeOK, Boxes, taskVars
<1>2. NewBox \in Box /\ NewBox.state = "created" /\ NewBox.pids = {}
  BY DEF NewBox, Box, BoxStates
<1>3. SupervisorTypeOK'
  <2>1. nextBox' \in 1 .. NumBoxes + 1
    BY <1>1, SupervisorAssumption DEF Boxes
  <2>2. \A c \in DOMAIN boxes' : boxes'[c] \in Box
    BY <1>1, <1>2 DEF IInv, SupervisorTypeOK
  <2> QED
    BY <1>1, <2>1, <2>2 DEF IInv, SupervisorTypeOK
<1>4. BoxHolds'
  <2> SUFFICES ASSUME NEW c \in Boxes
               PROVE  /\ c \in DOMAIN boxes' =>
                           /\ startedBy'[c] \subseteq ended' \cup boxes'[c].pids
                           /\ boxes'[c].state # "running" => boxes'[c].pids = {}
                      /\ c \notin DOMAIN boxes' => startedBy'[c] \subseteq ended'
                      /\ c >= nextBox' => c \notin DOMAIN boxes'
    BY DEF BoxHolds
  <2>1. c \in Nat
    BY DEF Boxes
  <2>2. CASE c = nextBox
    <3>1. c \notin DOMAIN boxes /\ startedBy[c] \subseteq ended
      BY <2>1, <2>2, <1>1 DEF IInv, BoxHolds
    <3> QED
      BY <1>1, <1>2, <2>1, <2>2, <3>1
  <2>3. CASE c # nextBox
    BY <1>1, <2>1, <2>3 DEF IInv, BoxHolds
  <2> QED
    BY <2>2, <2>3
<1> QED
  BY <1>3, <1>4

LEMMA DemoStartKeeps ==
  ASSUME IInv, NEW b \in Boxes, DemoStart(b)
  PROVE  SupervisorTypeOK' /\ BoxHolds'
<1>1. /\ toStart' = toStart \ {b}
      /\ UNCHANGED << ended, nextBox, registry, loaded, shell, killed >>
  BY DEF DemoStart, taskVars
<1>2. CASE b \notin DOMAIN boxes
  BY <1>1, <1>2 DEF DemoStart, IInv, SupervisorTypeOK, BoxHolds
<1>3. CASE b \in DOMAIN boxes
  <2>1. /\ CanSpawn /\ lastPid' = Fresh /\ Fresh \in Pids /\ lastPid' \in 0 .. MaxPid
        /\ boxes' = [boxes EXCEPT ![b].state = "running", ![b].pids = @ \cup {Fresh}]
        /\ startedBy' = [startedBy EXCEPT ![b] = @ \cup {Fresh}]
    BY <1>3, PidFacts DEF DemoStart, Start, IInv, Fresh, CanSpawn
  <2>2. /\ DOMAIN boxes' = DOMAIN boxes
        /\ \A c \in DOMAIN boxes : c # b => boxes'[c] = boxes[c]
        /\ boxes[b] \in Box
        /\ boxes'[b] = [boxes[b] EXCEPT !.state = "running", !.pids = @ \cup {Fresh}]
    BY <1>3, <2>1 DEF IInv, SupervisorTypeOK
  <2>3. /\ boxes'[b] \in Box
        /\ boxes'[b].state = "running"
        /\ boxes'[b].pids = boxes[b].pids \cup {Fresh}
    <3>1. PICK r \in [state : BoxStates, pids : SUBSET Pids, used : Nat] : r = boxes[b]
      BY <2>2 DEF Box
    <3>2. boxes'[b] = [state |-> "running", pids |-> r.pids \cup {Fresh}, used |-> r.used]
      BY <2>2, <3>1
    <3>3. r.pids \cup {Fresh} \in SUBSET Pids /\ r.used \in Nat /\ "running" \in BoxStates
      BY <2>1, <3>1 DEF BoxStates
    <3> QED
      BY <3>1, <3>2, <3>3 DEF Box
  <2>4. /\ startedBy' \in [Boxes -> SUBSET Pids]
        /\ startedBy'[b] = startedBy[b] \cup {Fresh}
        /\ \A c \in Boxes : c # b => startedBy'[c] = startedBy[c]
    BY <2>1 DEF IInv, SupervisorTypeOK
  <2>5. SupervisorTypeOK'
    BY <1>1, <2>1, <2>2, <2>3, <2>4 DEF IInv, SupervisorTypeOK
  <2>6. BoxHolds'
    BY <1>1, <1>3, <2>2, <2>3, <2>4 DEF IInv, BoxHolds
  <2> QED
    BY <2>5, <2>6
<1> QED
  BY <1>2, <1>3

LEMMA StopKeeps ==
  ASSUME IInv, NEW b \in Boxes, Stop(b)
  PROVE  SupervisorTypeOK' /\ BoxHolds'
<1>1. /\ b \in DOMAIN boxes
      /\ ended' = ended \cup boxes[b].pids
      /\ boxes' = [boxes EXCEPT ![b].pids = {}, ![b].state = "stopped"]
      /\ UNCHANGED << lastPid, nextBox, toStart, startedBy, registry, loaded, shell, killed >>
  BY DEF Stop, StopBox, Halted, taskVars
<1>2. /\ DOMAIN boxes' = DOMAIN boxes
      /\ \A c \in DOMAIN boxes : c # b => boxes'[c] = boxes[c]
      /\ boxes[b] \in Box
      /\ boxes'[b] = [boxes[b] EXCEPT !.pids = {}, !.state = "stopped"]
  BY <1>1 DEF IInv, SupervisorTypeOK
<1>3. /\ boxes'[b] \in Box /\ boxes'[b].pids = {} /\ boxes'[b].state = "stopped"
      /\ boxes[b].pids \subseteq Pids
  BY <1>2 DEF Box, BoxStates
<1>4. SupervisorTypeOK'
  BY <1>1, <1>2, <1>3 DEF IInv, SupervisorTypeOK
<1>5. BoxHolds'
  BY <1>1, <1>2, <1>3 DEF IInv, BoxHolds
<1> QED
  BY <1>4, <1>5

LEMMA RemoveBoxKeeps ==
  ASSUME IInv, NEW b \in Boxes, RemoveBox(b)
  PROVE  SupervisorTypeOK' /\ BoxHolds'
<1>1. /\ b \in DOMAIN boxes /\ boxes[b].state \in {"stopped", "created"}
      /\ DOMAIN boxes' = DOMAIN boxes \ {b}
      /\ \A c \in DOMAIN boxes' : boxes'[c] = boxes[c]
      /\ UNCHANGED << lastPid, ended, nextBox, toStart, startedBy,
                      registry, loaded, shell, killed >>
  BY DEF RemoveBox, Removable, taskVars
<1>2. startedBy[b] \subseteq ended
  BY <1>1 DEF IInv, BoxHolds
<1>3. SupervisorTypeOK'
  BY <1>1 DEF IInv, SupervisorTypeOK
<1>4. BoxHolds'
  BY <1>1, <1>2 DEF IInv, BoxHolds
<1> QED
  BY <1>3, <1>4

LEMMA VirtTickKeeps ==
  ASSUME IInv, VirtTick
  PROVE  SupervisorTypeOK' /\ BoxHolds'
<1> DEFINE charged == [c \in DOMAIN boxes |-> Charged(boxes[c])]
           over == {c \in DOMAIN boxes : Over(charged[c])}
<1>1. /\ ended' = ended \cup UNION {Halted(boxes[c]) : c \in over}
      /\ boxes' = [c \in DOMAIN boxes |->
                     IF c \in over THEN Failed(charged[c]) ELSE charged[c]]
      /\ UNCHANGED << lastPid, nextBox, toStart, startedBy, registry, loaded, shell, killed >>
  BY DEF VirtTick, taskVars
<1>2. \A c \in DOMAIN boxes :
        /\ charged[c] \in Box
        /\ charged[c].pids = boxes[c].pids /\ charged[c].state = boxes[c].state
        /\ boxes[c].pids \subseteq Pids
  BY DEF IInv, SupervisorTypeOK, Box, Charged
<1>3. \A c \in DOMAIN boxes :
        /\ Failed(charged[c]) \in Box
        /\ Failed(charged[c]).pids = {}
  BY <1>2 DEF Box, BoxStates, Failed
<1>4. /\ DOMAIN boxes' = DOMAIN boxes
      /\ \A c \in DOMAIN boxes :
           /\ boxes'[c] \in Box
           /\ c \in over => boxes'[c].pids = {} /\ boxes[c].pids \subseteq ended'
           /\ c \notin over => /\ boxes'[c].pids = boxes[c].pids
                               /\ boxes'[c].state = boxes[c].state
  <2>1. \A c \in over : boxes[c].pids \subseteq ended'
    BY <1>1 DEF Halted
  <2> HIDE DEF charged, over
  <2> QED
    BY <2>1, <1>1, <1>2, <1>3
<1>5. ended \subseteq ended' /\ ended' \subseteq Pids
  BY <1>1, <1>2 DEF IInv, SupervisorTypeOK, Halted
<1>6. SupervisorTypeOK'
  BY <1>1, <1>4, <1>5 DEF IInv, SupervisorTypeOK
<1>7. BoxHolds'
  <2> HIDE DEF charged, over
  <2> QED
    BY <1>1, <1>4, <1>5 DEF IInv, BoxHolds
<1> QED
  BY <1>6, <1>7

LEMMA StutterKeeps ==
  ASSUME IInv, UNCHANGED supervisorVars
  PROVE  IInv'
BY DEF IInv, supervisorVars, SupervisorTypeOK, PidOnce, OnItsWay, KillOnce, BoxHolds

LEMMA NextKeeps == IInv /\ [SupervisorNext]_supervisorVars => IInv'
<1> SUFFICES ASSUME IInv, [SupervisorNext]_supervisorVars PROVE IInv'
  OBVIOUS
<1>0. CASE UNCHANGED supervisorVars
  BY <1>0, StutterKeeps
<1>1. CASE RegistryNext
  BY <1>1, RegistrySteps
<1>2. CASE Create
  BY <1>2, CreateKeeps, ContainerStepsKeepPids DEF IInv
<1>3. CASE \E b \in Boxes : DemoStart(b)
  BY <1>3, DemoStartKeeps, ContainerStepsKeepPids DEF IInv
<1>4. CASE \E b \in Boxes : Stop(b)
  BY <1>4, StopKeeps, ContainerStepsKeepPids DEF IInv
<1>5. CASE \E b \in Boxes : RemoveBox(b)
  BY <1>5, RemoveBoxKeeps, ContainerStepsKeepPids DEF IInv
<1>6. CASE VirtTick
  BY <1>6, VirtTickKeeps, ContainerStepsKeepPids DEF IInv
<1> QED
  BY <1>0, <1>1, <1>2, <1>3, <1>4, <1>5, <1>6 DEF SupervisorNext, RegistryNext

----------------------------------------------------------------------------
(* The inductive invariant of the registry and the containers.               *)
THEOREM SupervisorInvariant == SupervisorSpec => []IInv
BY InitIInv, NextKeeps, PTL DEF SupervisorSpec

(* Two shells that kill the same pid end it once, whatever the keyboard       *)
(* interrupt does between the removal from PROC_REGISTRY and exit_process.    *)
THEOREM KillsAreOnce == SupervisorSpec => []KillOnce
<1>1. IInv => KillOnce
  BY DEF IInv
<1> QED
  BY <1>1, SupervisorInvariant, PTL

(* A container that does not run, or is gone, has left no task behind         *)
(* (Container::stop, ContainerManager::remove and tick), in any order of      *)
(* start, stop, remove and limit check.                                       *)
THEOREM ContainersEndTheirTasks == SupervisorSpec => []ContainerEndsAll
<1>1. IInv => ContainerEndsAll
  BY HoldsImpliesEnds DEF IInv
<1> QED
  BY <1>1, SupervisorInvariant, PTL

-----------------------------------------------------------------------------
(***************************************************************************)
(* The threat engine, for any watched processes, trust and bursts.         *)
(*                                                                         *)
(* A scan lists what it finds of each process in the order of the pids, and *)
(* only afterwards is every event answered, the later ones of a process that *)
(* an earlier one terminated among them.  Once the score calls for          *)
(* termination so does every later event of the scan (Final), and an answer *)
(* to a process that is gone changes no profile: what is quarantined always *)
(* has a profile that says so (Consistent).                                 *)
(***************************************************************************)
Outcomes == [terminated : Nat, isolated : Nat, alerts : Nat]
Tables == UNION {[D -> Profile] : D \in SUBSET Watched}
Engines == [profiles : Tables, quarantined : SUBSET Watched, stats : Outcomes]

(* The counters of a profile call for no event.                              *)
Quiet(profile) ==
  /\ Saturating(profile.syscalls, profile.prev) <= 500
  /\ profile.writes <= 100 /\ profile.denied <= 5

SameCounts(a, b) ==
  /\ a.syscalls = b.syscalls /\ a.prev = b.prev /\ a.writes = b.writes /\ a.denied = b.denied

\* A profile that is marked, or no longer, keeps what it counts.
Marked(a, v) ==
  LET new == [a EXCEPT !.quarantined = v]
  IN new \in Profile /\ SameCounts(new, a) /\ new.quarantined = v

LEMMA MarkedProfile ==
  ASSUME NEW a \in Profile, NEW v \in BOOLEAN
  PROVE  Marked(a, v)
<1> DEFINE new == [a EXCEPT !.quarantined = v]
<1>1. new \in Profile
  BY DEF Profile
<1>2. /\ new.syscalls = a.syscalls /\ new.prev = a.prev /\ new.writes = a.writes
      /\ new.denied = a.denied /\ new.quarantined = v
  BY DEF Profile
<1> HIDE DEF new
<1>3. SameCounts(new, a)
  BY <1>2 DEF SameCounts
<1> QED
  BY <1>1, <1>2, <1>3 DEF Marked, new

(* Once an event has a process terminated, so does every later one about it. *)
Final(events) ==
  \A i, j \in 1 .. Len(events) :
    /\ i < j /\ events[i].pid = events[j].pid /\ events[i].action = "terminate"
    => events[j].action = "terminate"

ScanStates == [profile : Profile, events : Seq(Event)]

(* A scan of process p so far.  If one of its events has it terminated, the  *)
(* score is so high that any other would, although the scale stops at 100.   *)
Exceeds(p, score) == Adjusted(score + 1, TrustOf[p]) > 95
Scanned(p, scan) ==
  /\ scan \in ScanStates
  /\ \A i \in 1 .. Len(scan.events) : scan.events[i].pid = p
  /\ Final(scan.events)
  /\ \A i \in 1 .. Len(scan.events) :
       scan.events[i].action = "terminate" => Exceeds(p, scan.profile.score)

LEMMA WatchedAreNumbers == \A p \in Watched : p \in Nat
<1> SUFFICES ASSUME NEW p \in Watched PROVE p \in Nat
  OBVIOUS
<1>1. p \in 1 .. MaxWatched /\ MaxWatched \in Nat
  BY ThreatAssumption
<1> QED
  BY <1>1

LEMMA ActionOf ==
  ASSUME NEW total \in Nat, NEW p \in Watched, TrustOf[p] # "kernel"
  PROVE  /\ Adjusted(total, TrustOf[p]) \in Nat
         /\ ScoreToAction(total, TrustOf[p]) \in Actions
         /\ ScoreToAction(total, TrustOf[p]) = "terminate" <=> Adjusted(total, TrustOf[p]) > 95
<1>1. TrustOf[p] \in {"system", "user", "untrusted"}
  BY ThreatAssumption
<1> DEFINE a == Adjusted(total, TrustOf[p])
<1>2. a \in Nat
  BY <1>1 DEF Adjusted
<1> HIDE DEF a
<1>3. ScoreToAction(total, TrustOf[p]) =
        CASE a <= 20 -> "log" [] a \in 21 .. 50 -> "alert" [] a \in 51 .. 80 -> "throttle"
          [] a \in 81 .. 95 -> "quarantine" [] a > 95 -> "terminate"
  BY DEF ScoreToAction, a
<1>4. CASE a <= 20
  <2>1. ~ (a \in 21 .. 50) /\ ~ (a \in 51 .. 80) /\ ~ (a \in 81 .. 95) /\ ~ (a > 95)
    BY <1>2, <1>4
  <2> QED
    BY <1>2, <1>3, <1>4, <2>1 DEF Actions, a
<1>5. CASE a \in 21 .. 50
  <2>1. ~ (a <= 20) /\ ~ (a \in 51 .. 80) /\ ~ (a \in 81 .. 95) /\ ~ (a > 95)
    BY <1>2, <1>5
  <2> QED
    BY <1>2, <1>3, <1>5, <2>1 DEF Actions, a
<1>6. CASE a \in 51 .. 80
  <2>1. ~ (a <= 20) /\ ~ (a \in 21 .. 50) /\ ~ (a \in 81 .. 95) /\ ~ (a > 95)
    BY <1>2, <1>6
  <2> QED
    BY <1>2, <1>3, <1>6, <2>1 DEF Actions, a
<1>7. CASE a \in 81 .. 95
  <2>1. ~ (a <= 20) /\ ~ (a \in 51 .. 80) /\ ~ (a \in 21 .. 50) /\ ~ (a > 95)
    BY <1>2, <1>7
  <2> QED
    BY <1>2, <1>3, <1>7, <2>1 DEF Actions, a
<1>8. CASE a > 95
  <2>1. ~ (a <= 20) /\ ~ (a \in 51 .. 80) /\ ~ (a \in 81 .. 95) /\ ~ (a \in 21 .. 50)
    BY <1>2, <1>8
  <2> QED
    BY <1>2, <1>3, <1>8, <2>1 DEF Actions, a
<1> QED
  BY <1>2, <1>4, <1>5, <1>6, <1>7, <1>8

(* The scores of one process only rise within a scan.                        *)
LEMMA Rises ==
  ASSUME NEW p \in Watched, TrustOf[p] # "kernel", NEW old \in 0 .. 100, NEW score \in 1 .. 70
  PROVE  /\ Exceeds(p, old) => Adjusted(old + score, TrustOf[p]) > 95
         /\ Adjusted(old + score, TrustOf[p]) > 95 => Exceeds(p, SmallerOf(old + score, 100))
<1>1. TrustOf[p] \in {"system", "user", "untrusted"}
  BY ThreatAssumption
<1>2. CASE TrustOf[p] = "system"
  BY <1>2 DEF Exceeds, Adjusted, SmallerOf
<1>3. CASE TrustOf[p] = "user"
  BY <1>3 DEF Exceeds, Adjusted, SmallerOf
<1>4. CASE TrustOf[p] = "untrusted"
  BY <1>4 DEF Exceeds, Adjusted, SmallerOf
<1> QED
  BY <1>1, <1>2, <1>3, <1>4

LEMMA OffenceFacts ==
  ASSUME NEW p \in Watched, TrustOf[p] # "kernel", NEW scan, Scanned(p, scan),
         NEW kind \in {"flood", "writes", "denied"}, NEW score \in 1 .. 70
  PROVE  /\ Scanned(p, Offence(p, scan, kind, score))
         /\ SameCounts(Offence(p, scan, kind, score).profile, scan.profile)
         /\ Offence(p, scan, kind, score).profile.quarantined = scan.profile.quarantined
<1> DEFINE new == SmallerOf(scan.profile.score + score, 100)
           action == ScoreToAction(scan.profile.score + score, TrustOf[p])
           e == [pid |-> p, kind |-> kind, score |-> score, action |-> action]
           n == Len(scan.events)
           profile == [scan.profile EXCEPT !.score = new]
           events == Append(scan.events, e)
<1>1. /\ scan.profile \in Profile /\ scan.events \in Seq(Event) /\ n \in Nat
      /\ scan.profile.score \in 0 .. 100
  BY LenProperties DEF Scanned, ScanStates, Profile
<1>2. scan.profile.score + score \in Nat /\ new \in 0 .. 100
  <2> DEFINE old == scan.profile.score
  <2>1. old \in 0 .. 100
    BY <1>1
  <2> HIDE DEF old
  <2>2. old + score \in Nat /\ SmallerOf(old + score, 100) \in 0 .. 100
    BY <2>1 DEF SmallerOf
  <2> QED
    BY <2>2 DEF old
<1>3. /\ action \in Actions /\ e \in Event /\ e.pid = p /\ e.action = action
      /\ action = "terminate" <=> Adjusted(scan.profile.score + score, TrustOf[p]) > 95
  BY <1>2, ActionOf DEF Event
<1> HIDE DEF action, new
<1>4. /\ profile \in Profile /\ SameCounts(profile, scan.profile) /\ profile.score = new
      /\ profile.quarantined = scan.profile.quarantined
  BY <1>1, <1>2 DEF Profile, SameCounts
<1> HIDE DEF e, profile
<1>5. /\ events \in Seq(Event) /\ Len(events) = n + 1 /\ events[n + 1] = e
      /\ \A i \in 1 .. n : events[i] = scan.events[i]
  BY <1>1, <1>3, AppendProperties
<1> HIDE DEF events, n
<1>6. Offence(p, scan, kind, score) = [profile |-> profile, events |-> events]
  BY DEF Offence, AddThreat, profile, events, e, action, new
<1>7. \A i \in 1 .. n + 1 : i \in 1 .. n \/ i = n + 1
  BY <1>1
<1>8. \A i \in 1 .. n + 1 : events[i].pid = p
  BY <1>3, <1>5, <1>7 DEF Scanned, n
<1>9. \A i \in 1 .. n : events[i].action = "terminate" => action = "terminate"
  BY <1>1, <1>3, <1>5, Rises DEF Scanned, n
<1>10. action = "terminate" => Exceeds(p, new)
  BY <1>1, <1>3, Rises DEF new
<1>11. Final(events)
  <2> SUFFICES ASSUME NEW i \in 1 .. n + 1, NEW j \in 1 .. n + 1,
                      i < j, events[i].pid = events[j].pid, events[i].action = "terminate"
               PROVE  events[j].action = "terminate"
    BY <1>5 DEF Final
  <2>1. i \in 1 .. n
    BY <1>1
  <2>2. CASE j = n + 1
    BY <1>3, <1>5, <1>9, <2>1, <2>2
  <2>3. CASE j \in 1 .. n
    BY <1>5, <2>1, <2>3 DEF Scanned, Final, n
  <2> QED
    BY <1>7, <2>2, <2>3
<1>12. \A i \in 1 .. n + 1 : events[i].action = "terminate" => Exceeds(p, new)
  BY <1>3, <1>5, <1>7, <1>9, <1>10
<1>13. [profile |-> profile, events |-> events] \in ScanStates
  BY <1>4, <1>5 DEF ScanStates
<1> QED
  BY <1>4, <1>5, <1>6, <1>8, <1>11, <1>12, <1>13 DEF Scanned

(* A change to the profile that leaves the score alone.                      *)
LEMMA CountChange ==
  ASSUME NEW p, NEW scan, Scanned(p, scan), NEW profile \in Profile,
         profile.score = scan.profile.score, NEW after,
         after = [profile |-> profile, events |-> scan.events]
  PROVE  Scanned(p, after)
<1>1. after \in ScanStates /\ after.events = scan.events /\ after.profile = profile
  BY DEF Scanned, ScanStates
<1> QED
  BY <1>1 DEF Scanned, Final
(* What one heuristic does to a scan of p that began with profile start: the *)
(* events it adds are for a count that was over its threshold.               *)
Stage(p, start, from, to) ==
  /\ Scanned(p, to)
  /\ to.profile.quarantined = from.profile.quarantined
  /\ to.events # from.events => ~ Quiet(start)

LEMMA FloodFacts ==
  ASSUME NEW p \in Watched, TrustOf[p] # "kernel", NEW scan, Scanned(p, scan)
  PROVE  /\ Stage(p, scan.profile, scan, Flood(p, scan))
         /\ Flood(p, scan).profile.prev = Flood(p, scan).profile.syscalls
         /\ Flood(p, scan).profile.writes = scan.profile.writes
         /\ Flood(p, scan).profile.denied = scan.profile.denied
<1> DEFINE delta == Saturating(scan.profile.syscalls, scan.profile.prev)
           score == SmallerOf(delta \div 10, 60)
           after == IF delta > 500 THEN Offence(p, scan, "flood", score) ELSE scan
           old == scan.profile.syscalls
           profile == [after.profile EXCEPT !.prev = old]
<1>1. scan.profile \in Profile /\ scan.profile.syscalls \in Nat /\ scan.profile.prev \in Nat
  BY DEF Scanned, ScanStates, Profile
<1>2. delta \in Nat
  BY <1>1 DEF Saturating
<1>3. /\ Scanned(p, after) /\ SameCounts(after.profile, scan.profile)
      /\ after.profile.quarantined = scan.profile.quarantined
      /\ after.events # scan.events => ~ Quiet(scan.profile)
  <2>1. CASE delta > 500
    <3> HIDE DEF delta
    <3>1. score \in 1 .. 70
      BY <1>2, <2>1 DEF SmallerOf
    <3> HIDE DEF score
    <3>2. after = Offence(p, scan, "flood", score)
      BY <2>1
    <3>3. ~ Quiet(scan.profile)
      BY <1>2, <2>1 DEF Quiet, delta
    <3> HIDE DEF after
    <3> QED
      BY <3>1, <3>2, <3>3, OffenceFacts
  <2>2. CASE ~ (delta > 500)
    <3>1. after = scan
      BY <2>2
    <3> QED
      BY <3>1 DEF SameCounts
  <2> QED
    BY <2>1, <2>2
<1>4. Flood(p, scan) = [after EXCEPT !.profile.prev = old]
  BY DEF Flood
<1> HIDE DEF delta, score, after
<1>5. after.profile \in Profile /\ after = [profile |-> after.profile, events |-> after.events]
  BY <1>3 DEF Scanned, ScanStates
<1>6. Flood(p, scan) = [profile |-> profile, events |-> after.events]
  BY <1>4, <1>5
<1>7. /\ profile \in Profile /\ profile.score = after.profile.score
      /\ profile.prev = old /\ profile.quarantined = after.profile.quarantined
      /\ profile.syscalls = after.profile.syscalls
      /\ profile.writes = after.profile.writes /\ profile.denied = after.profile.denied
  BY <1>1, <1>5 DEF Profile
<1> HIDE DEF profile
<1>8. Scanned(p, Flood(p, scan))
  BY <1>3, <1>6, <1>7, CountChange
<1> QED
  BY <1>3, <1>6, <1>7, <1>8 DEF Stage, SameCounts

LEMMA WritesFacts ==
  ASSUME NEW p \in Watched, TrustOf[p] # "kernel", NEW scan, Scanned(p, scan)
  PROVE  /\ Stage(p, scan.profile, scan, Writes(p, scan))
         /\ Writes(p, scan).profile.writes <= 100
         /\ Writes(p, scan).profile.syscalls = scan.profile.syscalls
         /\ Writes(p, scan).profile.prev = scan.profile.prev
         /\ Writes(p, scan).profile.denied = scan.profile.denied
<1>1. scan.profile \in Profile /\ scan.profile.writes \in Nat
  BY DEF Scanned, ScanStates, Profile
<1>2. CASE scan.profile.writes > 100
  <2> DEFINE after == Offence(p, scan, "writes", 50)
             profile == [after.profile EXCEPT !.writes = 0]
  <2>1. 50 \in 1 .. 70
    OBVIOUS
  <2>2. /\ Scanned(p, after) /\ SameCounts(after.profile, scan.profile)
        /\ after.profile.quarantined = scan.profile.quarantined
    BY <2>1, OffenceFacts
  <2>3. Writes(p, scan) = [after EXCEPT !.profile.writes = 0]
    BY <1>2 DEF Writes
  <2> HIDE DEF after
  <2>4. after.profile \in Profile /\ after = [profile |-> after.profile, events |-> after.events]
    BY <2>2 DEF Scanned, ScanStates
  <2>5. Writes(p, scan) = [profile |-> profile, events |-> after.events]
    BY <2>3, <2>4
  <2>6. /\ profile \in Profile /\ profile.score = after.profile.score
        /\ profile.writes = 0 /\ profile.quarantined = after.profile.quarantined
        /\ profile.syscalls = after.profile.syscalls
        /\ profile.prev = after.profile.prev /\ profile.denied = after.profile.denied
    BY <2>4 DEF Profile
  <2> HIDE DEF profile
  <2>7. Scanned(p, Writes(p, scan))
    BY <2>2, <2>5, <2>6, CountChange
  <2>8. ~ Quiet(scan.profile)
    BY <1>1, <1>2 DEF Quiet
  <2> QED
    BY <2>2, <2>5, <2>6, <2>7, <2>8 DEF Stage, SameCounts
<1>3. CASE ~ (scan.profile.writes > 100)
  <2>1. Writes(p, scan) = scan /\ scan.profile.writes <= 100
    BY <1>1, <1>3 DEF Writes
  <2> QED
    BY <2>1 DEF Stage
<1> QED
  BY <1>2, <1>3

LEMMA DeniedFacts ==
  ASSUME NEW p \in Watched, TrustOf[p] # "kernel", NEW scan, Scanned(p, scan)
  PROVE  /\ Stage(p, scan.profile, scan, Denied(p, scan))
         /\ Denied(p, scan).profile.denied <= 5
         /\ Denied(p, scan).profile.syscalls = scan.profile.syscalls
         /\ Denied(p, scan).profile.prev = scan.profile.prev
         /\ Denied(p, scan).profile.writes = scan.profile.writes
<1>1. scan.profile \in Profile /\ scan.profile.denied \in Nat
  BY DEF Scanned, ScanStates, Profile
<1>2. CASE scan.profile.denied > 5
  <2> DEFINE n == scan.profile.denied
             score == SmallerOf(n * 8, 70)
             after == Offence(p, scan, "denied", score)
             profile == [after.profile EXCEPT !.denied = 0]
  <2>1. score \in 1 .. 70
    <3>1. n \in Nat /\ n > 5
      BY <1>1, <1>2
    <3> HIDE DEF n
    <3> QED
      BY <3>1 DEF SmallerOf
  <2>2. Denied(p, scan) = [after EXCEPT !.profile.denied = 0]
    BY <1>2 DEF Denied
  <2> HIDE DEF score
  <2>3. /\ Scanned(p, after) /\ SameCounts(after.profile, scan.profile)
        /\ after.profile.quarantined = scan.profile.quarantined
    BY <2>1, OffenceFacts
  <2> HIDE DEF after
  <2>4. after.profile \in Profile /\ after = [profile |-> after.profile, events |-> after.events]
    BY <2>3 DEF Scanned, ScanStates
  <2>5. Denied(p, scan) = [profile |-> profile, events |-> after.events]
    BY <2>2, <2>4
  <2>6. /\ profile \in Profile /\ profile.score = after.profile.score
        /\ profile.denied = 0 /\ profile.quarantined = after.profile.quarantined
        /\ profile.syscalls = after.profile.syscalls
        /\ profile.prev = after.profile.prev /\ profile.writes = after.profile.writes
    BY <2>4 DEF Profile
  <2> HIDE DEF profile
  <2>7. Scanned(p, Denied(p, scan))
    BY <2>3, <2>5, <2>6, CountChange
  <2>8. ~ Quiet(scan.profile)
    BY <1>1, <1>2 DEF Quiet
  <2> QED
    BY <2>3, <2>5, <2>6, <2>7, <2>8 DEF Stage, SameCounts
<1>3. CASE ~ (scan.profile.denied > 5)
  <2>1. Denied(p, scan) = scan /\ scan.profile.denied <= 5
    BY <1>1, <1>3 DEF Denied
  <2> QED
    BY <2>1 DEF Stage
<1> QED
  BY <1>2, <1>3

(* A scan of one process: what it was charged for is not charged again, and  *)
(* a process below every threshold is not charged.                           *)
LEMMA ScanFacts ==
  ASSUME NEW p \in Watched, NEW tick \in Nat, profiles[p] \in Profile
  PROVE  /\ Scan(p, tick).profile \in Profile /\ Scan(p, tick).events \in Seq(Event)
         /\ \A i \in 1 .. Len(Scan(p, tick).events) : Scan(p, tick).events[i].pid = p
         /\ Final(Scan(p, tick).events)
         /\ Scan(p, tick).profile.quarantined = profiles[p].quarantined
         /\ Scan(p, tick).events # << >> => ~ Quiet(profiles[p])
         /\ IF Due(p, tick) THEN Quiet(Scan(p, tick).profile)
            ELSE Scan(p, tick).profile = profiles[p]
<1>1. << >> \in Seq(Event) /\ Len(<< >>) = 0
  BY EmptySeq
<1>2. Final(<< >>) /\ \A i \in 1 .. Len(<< >>) : << >>[i].pid = p
  BY <1>1 DEF Final
<1>3. CASE Due(p, tick)
  <2>1. TrustOf[p] # "kernel"
    BY <1>3 DEF Due
  <2> DEFINE profile == [profiles[p] EXCEPT !.window = tick]
             s0 == [profile |-> profile, events |-> << >>]
             s1 == Flood(p, s0)  s2 == Writes(p, s1)  s3 == Denied(p, s2)
  <2>2. /\ profile \in Profile /\ SameCounts(profile, profiles[p])
        /\ profile.quarantined = profiles[p].quarantined
    BY DEF Profile, SameCounts
  <2> HIDE DEF profile
  <2>3. Scanned(p, s0) /\ s0.profile = profile /\ s0.events = << >>
    BY <1>1, <1>2, <2>2 DEF Scanned, ScanStates
  <2>4. Scan(p, tick) = [s3 EXCEPT !.profile = DecayScore(@)]
    BY <1>3 DEF Scan, profile
  <2> HIDE DEF s0
  <2>5. /\ Stage(p, s0.profile, s0, s1) /\ s1.profile.prev = s1.profile.syscalls
        /\ s1.profile.writes = s0.profile.writes /\ s1.profile.denied = s0.profile.denied
    BY <2>1, <2>3, FloodFacts
  <2> HIDE DEF s1
  <2>6. /\ Stage(p, s1.profile, s1, s2) /\ s2.profile.writes <= 100
        /\ s2.profile.syscalls = s1.profile.syscalls /\ s2.profile.prev = s1.profile.prev
        /\ s2.profile.denied = s1.profile.denied
    BY <2>1, <2>5, WritesFacts DEF Stage
  <2> HIDE DEF s2
  <2>7. /\ Stage(p, s2.profile, s2, s3) /\ s3.profile.denied <= 5
        /\ s3.profile.syscalls = s2.profile.syscalls /\ s3.profile.prev = s2.profile.prev
        /\ s3.profile.writes = s2.profile.writes
    BY <2>1, <2>6, DeniedFacts DEF Stage
  <2> HIDE DEF s3
  <2>8. Scanned(p, s3) /\ s3.profile \in Profile /\ s3.events \in Seq(Event)
        /\ s3 = [profile |-> s3.profile, events |-> s3.events]
    BY <2>7 DEF Stage, Scanned, ScanStates
  <2>9. Scan(p, tick) = [profile |-> DecayScore(s3.profile), events |-> s3.events]
    BY <2>4, <2>8
  <2>10. /\ DecayScore(s3.profile) \in Profile /\ SameCounts(DecayScore(s3.profile), s3.profile)
         /\ DecayScore(s3.profile).quarantined = s3.profile.quarantined
    <3> DEFINE new == Saturating(s3.profile.score, 2)
    <3>1. s3.profile.score \in 0 .. 100
      BY <2>8 DEF Profile
    <3>2. new \in 0 .. 100
      BY <3>1 DEF Saturating
    <3>3. DecayScore(s3.profile) = [s3.profile EXCEPT !.score = new]
      BY DEF DecayScore
    <3> HIDE DEF new
    <3> QED
      BY <2>8, <3>2, <3>3 DEF Profile, SameCounts
  <2>11. Quiet(s3.profile)
    <3>1. s3.profile.syscalls \in Nat /\ s3.profile.prev = s3.profile.syscalls
      BY <2>5, <2>6, <2>7, <2>8 DEF Profile
    <3>2. Saturating(s3.profile.syscalls, s3.profile.prev) <= 500
      BY <3>1 DEF Saturating
    <3> QED
      BY <2>6, <2>7, <3>2 DEF Quiet
  <2>12. s3.events # << >> => ~ Quiet(profiles[p])
    <3>1. s1.events # s0.events => ~ Quiet(s0.profile)
      BY <2>5 DEF Stage
    <3>2. s2.events # s1.events => ~ Quiet(s0.profile)
      <4>1. s2.events # s1.events => ~ Quiet(s1.profile)
        BY <2>6 DEF Stage
      <4>2. ~ Quiet(s1.profile) => ~ Quiet(s0.profile)
        <5>1. s1.profile.syscalls \in Nat /\ s1.profile.prev = s1.profile.syscalls
          BY <2>5 DEF Stage, Scanned, ScanStates, Profile
        <5>2. Saturating(s1.profile.syscalls, s1.profile.prev) <= 500
          BY <5>1 DEF Saturating
        <5> QED
          BY <2>5, <5>2 DEF Quiet
      <4> QED
        BY <4>1, <4>2
    <3>3. s3.events # s2.events => ~ Quiet(s0.profile)
      <4>1. s3.events # s2.events => ~ Quiet(s2.profile)
        BY <2>7 DEF Stage
      <4>2. ~ Quiet(s2.profile) => ~ Quiet(s0.profile)
        <5>1. s2.profile.syscalls \in Nat /\ s2.profile.prev = s2.profile.syscalls
          BY <2>5, <2>6 DEF Stage, Scanned, ScanStates, Profile
        <5>2. Saturating(s2.profile.syscalls, s2.profile.prev) <= 500
          BY <5>1 DEF Saturating
        <5> QED
          BY <2>5, <2>6, <5>2 DEF Quiet
      <4> QED
        BY <4>1, <4>2
    <3>4. Quiet(profiles[p]) => Quiet(s0.profile)
      BY <2>2, <2>3 DEF Quiet, SameCounts
    <3> QED
      BY <2>3, <3>1, <3>2, <3>3, <3>4
  <2>13. Quiet(DecayScore(s3.profile))
    BY <2>10, <2>11 DEF Quiet, SameCounts
  <2>14. s3.profile.quarantined = profiles[p].quarantined
    BY <2>2, <2>3, <2>5, <2>6, <2>7 DEF Stage
  <2> QED
    BY <1>3, <2>8, <2>9, <2>10, <2>12, <2>13, <2>14 DEF Scanned
<1>4. CASE ~ Due(p, tick)
  <2>1. Scan(p, tick) = [profile |-> profiles[p], events |-> << >>]
    BY <1>4 DEF Scan
  <2> QED
    BY <1>1, <1>2, <1>4, <2>1
<1> QED
  BY <1>3, <1>4

-----------------------------------------------------------------------------
(* The loop over the processes.                                              *)
EventsSteps(scanned, f) ==
  /\ f[0] = << >>
  /\ \A p \in 1 .. MaxWatched :
       f[p] = IF p \in DOMAIN scanned THEN f[p - 1] \o scanned[p].events ELSE f[p - 1]

LEMMA EventsUnfold ==
  ASSUME NEW scanned, \A p \in DOMAIN scanned : scanned[p].events \in Seq(Event)
  PROVE  \E f : EventsSteps(scanned, f) /\ Events(scanned) = f[MaxWatched]
<1> DEFINE n == MaxWatched
           S == Seq(Event)
           step == [x \in (1 .. n) \X S |->
                      IF x[1] \in DOMAIN scanned THEN x[2] \o scanned[x[1]].events ELSE x[2]]
           Def(f) == f = [p \in 0 .. n |->
                            IF p = 0 THEN << >>
                            ELSE IF p \in DOMAIN scanned THEN f[p - 1] \o scanned[p].events
                            ELSE f[p - 1]]
<1>1. n \in Nat /\ << >> \in S
  BY ThreatAssumption, EmptySeq
<1>2. step \in [(1 .. n) \X S -> S]
  <2> SUFFICES ASSUME NEW i \in 1 .. n, NEW s \in S
               PROVE  (IF i \in DOMAIN scanned THEN s \o scanned[i].events ELSE s) \in S
    OBVIOUS
  <2> QED
    BY ConcatProperties
<1>3. PICK f : IsIterate(f, S, << >>, n, step)
  <2> HIDE DEF S, step, n
  <2> QED
    BY <1>1, <1>2, Iterates
<1>4. ASSUME NEW i \in 1 .. n
      PROVE  f[i] = IF i \in DOMAIN scanned THEN f[i - 1] \o scanned[i].events ELSE f[i - 1]
  <2>1. i - 1 \in 0 .. n
    BY <1>1
  <2>2. f[i - 1] \in S
    BY <1>3, <2>1 DEF IsIterate
  <2>3. << i, f[i - 1] >> \in (1 .. n) \X S
    BY <2>2
  <2>4. f[i] = step[<< i, f[i - 1] >>]
    BY <1>3 DEF IsIterate
  <2> QED
    BY <2>3, <2>4
<1> HIDE DEF step, S
<1>5. Def(f)
  <2>1. ASSUME NEW i \in 0 .. n
        PROVE  f[i] = IF i = 0 THEN << >>
                      ELSE IF i \in DOMAIN scanned THEN f[i - 1] \o scanned[i].events
                      ELSE f[i - 1]
    <3>1. CASE i = 0
      BY <1>3, <3>1 DEF IsIterate
    <3>2. CASE i # 0
      <4>1. i \in 1 .. n
        BY <1>1, <3>2
      <4> QED
        BY <1>4, <3>2, <4>1
    <3> QED
      BY <3>1, <3>2
  <2>2. f \in [0 .. n -> S]
    BY <1>3 DEF IsIterate
  <2> QED
    BY <2>1, <2>2
<1> DEFINE g == CHOOSE h : Def(h)
<1>6. Def(g)
  BY <1>5
<1>7. Events(scanned) = g[n]
  BY DEF Events
<1> HIDE DEF g
<1>8. EventsSteps(scanned, g)
  <2>1. g = [p \in 0 .. n |->
               IF p = 0 THEN << >>
               ELSE IF p \in DOMAIN scanned THEN g[p - 1] \o scanned[p].events ELSE g[p - 1]]
    BY <1>6
  <2>2. 0 \in 0 .. n /\ \A i \in 1 .. n : i \in 0 .. n /\ i # 0
    BY <1>1
  <2> HIDE DEF n
  <2>3. \A p \in 0 .. n :
          g[p] = IF p = 0 THEN << >>
                 ELSE IF p \in DOMAIN scanned THEN g[p - 1] \o scanned[p].events ELSE g[p - 1]
    BY <2>1, Zenon
  <2> QED
    BY <2>2, <2>3 DEF EventsSteps, n
<1> QED
  BY <1>7, <1>8

(* What a list of the events of the first processes keeps.                   *)
Listed(scanned, k, events) ==
  /\ events \in Seq(Event) /\ Final(events)
  /\ \A i \in 1 .. Len(events) :
       /\ events[i].pid \in DOMAIN scanned /\ events[i].pid <= k
       /\ scanned[events[i].pid].events # << >>

LEMMA ListedOn ==
  ASSUME NEW scanned, NEW k \in Nat, NEW events, Listed(scanned, k - 1, events),
         k \in DOMAIN scanned, NEW more, more = scanned[k].events, more \in Seq(Event),
         Final(more), \A i \in 1 .. Len(more) : more[i].pid = k
  PROVE  Listed(scanned, k, events \o more)
<1> DEFINE n == Len(events)  m == Len(more)  all == events \o more
<1>1. /\ events \in Seq(Event) /\ n \in Nat /\ m \in Nat
      /\ all \in Seq(Event) /\ Len(all) = n + m
      /\ \A i \in 1 .. n + m : all[i] = IF i <= n THEN events[i] ELSE more[i - n]
  BY ConcatProperties, LenProperties DEF Listed
<1> HIDE DEF all
<1>2. \A i \in 1 .. n + m :
        (i \in 1 .. n /\ i <= n) \/ (i - n \in 1 .. m /\ ~ (i <= n))
  <2> HIDE DEF n, m
  <2> QED
    BY <1>1
<1>3. ASSUME NEW i \in 1 .. n
      PROVE  /\ all[i] = events[i] /\ events[i].pid \in DOMAIN scanned
             /\ events[i].pid \in Nat /\ events[i].pid < k
             /\ scanned[events[i].pid].events # << >>
  <2>1. i \in 1 .. n + m /\ i <= n
    BY <1>1
  <2>2. events[i] \in Event
    BY <1>1, ElementOfSeq
  <2>3. events[i].pid \in Nat
    BY <2>2, WatchedAreNumbers DEF Event
  <2>4. events[i].pid <= k - 1 /\ events[i].pid \in DOMAIN scanned
        /\ scanned[events[i].pid].events # << >>
    BY DEF Listed
  <2> QED
    BY <1>1, <2>1, <2>3, <2>4
<1>4. ASSUME NEW i \in 1 .. n + m, ~ (i <= n)
      PROVE  /\ i - n \in 1 .. m /\ all[i] = more[i - n] /\ all[i].pid = k /\ more # << >>
  <2>1. i - n \in 1 .. m
    BY <1>2, <1>4
  <2>2. more # << >>
    BY <1>1, <2>1, EmptySeq
  <2> QED
    BY <1>1, <1>4, <2>1, <2>2
<1>5. ASSUME NEW i \in 1 .. n + m
      PROVE  /\ all[i].pid \in DOMAIN scanned /\ all[i].pid <= k
             /\ scanned[all[i].pid].events # << >>
  <2>1. CASE i \in 1 .. n
    BY <1>3, <2>1
  <2>2. CASE ~ (i <= n)
    BY <1>4, <2>2
  <2> QED
    BY <1>2, <2>1, <2>2
<1>6. Final(all)
  <2> SUFFICES ASSUME NEW i \in 1 .. n + m, NEW j \in 1 .. n + m,
                      i < j, all[i].pid = all[j].pid, all[i].action = "terminate"
               PROVE  all[j].action = "terminate"
    BY <1>1 DEF Final
  <2>1. CASE i \in 1 .. n /\ j \in 1 .. n
    BY <1>3, <2>1 DEF Listed, Final
  <2>2. CASE i \in 1 .. n /\ ~ (j <= n)
    <3>1. all[j].pid = k /\ all[i].pid \in Nat /\ all[i].pid < k
      BY <1>3, <1>4, <2>2
    <3> QED
      BY <3>1
  <2>3. CASE ~ (i <= n) /\ ~ (j <= n)
    <3>1. /\ i - n \in 1 .. m /\ all[i] = more[i - n]
          /\ j - n \in 1 .. m /\ all[j] = more[j - n] /\ i - n < j - n
      <4>1. i - n < j - n
        <5> HIDE DEF n, m
        <5> QED
          BY <1>1
      <4> QED
        BY <1>4, <2>3, <4>1
    <3> QED
      BY <3>1 DEF Final
  <2>4. ~ (i <= n) => ~ (j <= n)
    <3> HIDE DEF n, m
    <3> QED
      BY <1>1
  <2> QED
    BY <1>2, <2>1, <2>2, <2>3, <2>4
<1> QED
  BY <1>1, <1>5, <1>6 DEF Listed, all

LEMMA EventsFacts ==
  ASSUME NEW scanned, DOMAIN scanned \subseteq Watched,
         \A p \in DOMAIN scanned :
           /\ scanned[p].events \in Seq(Event) /\ Final(scanned[p].events)
           /\ \A i \in 1 .. Len(scanned[p].events) : scanned[p].events[i].pid = p
  PROVE  Listed(scanned, MaxWatched, Events(scanned))
<1>1. PICK f : EventsSteps(scanned, f) /\ Events(scanned) = f[MaxWatched]
  BY EventsUnfold
<1> DEFINE Good == {k \in 0 .. MaxWatched : Listed(scanned, k, f[k])}
<1>2. MaxWatched \in Nat
  BY ThreatAssumption
<1>3. 0 \in Good
  <2>1. << >> \in Seq(Event) /\ Len(<< >>) = 0
    BY EmptySeq
  <2>2. Listed(scanned, 0, << >>)
    BY <2>1 DEF Listed, Final
  <2> QED
    BY <1>1, <1>2, <2>2 DEF EventsSteps
<1>4. ASSUME NEW k \in 1 .. MaxWatched, k - 1 \in Good PROVE k \in Good
  <2>1. Listed(scanned, k - 1, f[k - 1]) /\ k \in Nat
    BY <1>4
  <2>2. CASE k \in DOMAIN scanned
    <3>1. f[k] = f[k - 1] \o scanned[k].events
      BY <1>1, <2>2 DEF EventsSteps
    <3>2. Listed(scanned, k, f[k - 1] \o scanned[k].events)
      BY <2>1, <2>2, ListedOn
    <3>3. k \in 0 .. MaxWatched /\ Listed(scanned, k, f[k])
      BY <1>2, <3>1, <3>2
    <3> QED
      BY <3>3
  <2>3. CASE k \notin DOMAIN scanned
    <3>1. f[k] = f[k - 1]
      BY <1>1, <2>3 DEF EventsSteps
    <3>2. \A i \in 1 .. Len(f[k - 1]) : f[k - 1][i].pid <= k
      <4> TAKE i \in 1 .. Len(f[k - 1])
      <4>1. f[k - 1][i].pid \in DOMAIN scanned /\ f[k - 1][i].pid <= k - 1
        BY <2>1 DEF Listed
      <4>2. f[k - 1][i].pid \in Nat
        BY <4>1, WatchedAreNumbers
      <4> QED
        BY <4>1, <4>2
    <3>3. Listed(scanned, k, f[k - 1])
      BY <2>1, <3>2 DEF Listed
    <3> QED
      BY <1>2, <3>1, <3>3
  <2> QED
    BY <2>2, <2>3
<1> HIDE DEF Good
<1>5. \A k \in 0 .. MaxWatched : k \in Good
  BY <1>2, <1>3, <1>4, InductUpTo
<1>6. MaxWatched \in Good
  BY <1>2, <1>5
<1> QED
  BY <1>1, <1>6 DEF Good

-----------------------------------------------------------------------------
(* The responses.                                                            *)
(* The list of quarantined pids and the flags in the profiles are one fact.  *)
Consistent(s) == s.quarantined = {p \in DOMAIN s.profiles : s.profiles[p].quarantined}

\* Profiles may go, and keep their counters.
Shrunk(s, r, gone) ==
  /\ DOMAIN r.profiles \subseteq DOMAIN s.profiles
  /\ DOMAIN s.profiles \ DOMAIN r.profiles \subseteq gone
  /\ \A q \in DOMAIN r.profiles : SameCounts(r.profiles[q], s.profiles[q])

LEMMA TableFacts ==
  ASSUME NEW t
  PROVE  t \in Tables <=> /\ DOMAIN t \subseteq Watched /\ t \in [DOMAIN t -> Profile]
BY DEF Tables

LEMMA EngineFacts ==
  ASSUME NEW s \in Engines
  PROVE  /\ s = [profiles |-> s.profiles, quarantined |-> s.quarantined, stats |-> s.stats]
         /\ DOMAIN s.profiles \subseteq Watched
         /\ s.profiles \in [DOMAIN s.profiles -> Profile]
         /\ s.quarantined \subseteq Watched /\ s.stats \in Outcomes
<1>1. s.profiles \in Tables
  BY DEF Engines
<1>2. DOMAIN s.profiles \subseteq Watched /\ s.profiles \in [DOMAIN s.profiles -> Profile]
  BY <1>1, TableFacts
<1> QED
  BY <1>2 DEF Engines

LEMMA ForgottenFacts ==
  ASSUME NEW s \in Engines, NEW p
  PROVE  /\ Forgotten(s, p) \in Engines
         /\ Forgotten(s, p).stats = s.stats
         /\ DOMAIN Forgotten(s, p).profiles = DOMAIN s.profiles \ {p}
         /\ Shrunk(s, Forgotten(s, p), {p})
         /\ \A q \in DOMAIN s.profiles \ {p} : Forgotten(s, p).profiles[q] = s.profiles[q]
         /\ Consistent(s) => Consistent(Forgotten(s, p))
<1> DEFINE D == DOMAIN s.profiles \ {p}
           table == [q \in D |-> s.profiles[q]]
           r == Forgotten(s, p)
<1>1. r = [profiles |-> table, quarantined |-> s.quarantined \ {p}, stats |-> s.stats]
  <2>1. s = [profiles |-> s.profiles, quarantined |-> s.quarantined, stats |-> s.stats]
    BY EngineFacts
  <2> HIDE DEF table
  <2>2. r = [s EXCEPT !.profiles = table, !.quarantined = s.quarantined \ {p}]
    BY DEF Forgotten, table
  <2> QED
    BY <2>1, <2>2
<1>2. DOMAIN table = D /\ table \in [D -> Profile] /\ \A q \in D : table[q] = s.profiles[q]
  BY EngineFacts
<1>3. table \in Tables
  BY <1>2, EngineFacts, TableFacts
<1> HIDE DEF table, r
<1>4. r \in Engines
  BY <1>1, <1>3, EngineFacts DEF Engines
<1>5. Shrunk(s, r, {p})
  BY <1>1, <1>2 DEF Shrunk, SameCounts
<1>6. Consistent(s) => Consistent(r)
  BY <1>1, <1>2 DEF Consistent
<1> QED
  BY <1>1, <1>2, <1>4, <1>5, <1>6 DEF r

LEMMA QuarantineFacts ==
  ASSUME NEW s \in Engines, NEW p \in Watched
  PROVE  /\ Quarantine(s, p) \in Engines
         /\ Shrunk(s, Quarantine(s, p), {})
         /\ Consistent(s) /\ p \in DOMAIN s.profiles => Consistent(Quarantine(s, p))
<1> DEFINE r == Quarantine(s, p)
<1>1. CASE p \in s.quarantined
  <2>1. r = s
    BY <1>1 DEF Quarantine
  <2> QED
    BY <2>1 DEF Shrunk, SameCounts
<1>2. CASE p \notin s.quarantined
  <2> DEFINE T == s.profiles
             table == IF p \in DOMAIN T THEN [T EXCEPT ![p].quarantined = TRUE] ELSE T
             counts == [s.stats EXCEPT !.isolated = @ + 1]
  <2>1. /\ s = [profiles |-> T, quarantined |-> s.quarantined, stats |-> s.stats]
        /\ DOMAIN T \subseteq Watched /\ T \in [DOMAIN T -> Profile]
        /\ s.quarantined \subseteq Watched /\ s.stats \in Outcomes
    BY EngineFacts
  <2>2. r = [profiles |-> table, quarantined |-> s.quarantined \cup {p}, stats |-> counts]
    BY <1>2, <2>1 DEF Quarantine
  <2>3. counts \in Outcomes
    BY <2>1 DEF Outcomes
  <2>4. /\ DOMAIN table = DOMAIN T
        /\ \A q \in DOMAIN T : table[q] \in Profile /\ SameCounts(table[q], T[q])
        /\ \A q \in DOMAIN T : table[q].quarantined = IF q = p THEN TRUE ELSE T[q].quarantined
    <3>1. CASE p \in DOMAIN T
      <4> DEFINE new == [T[p] EXCEPT !.quarantined = TRUE]
      <4>1. table = [q \in DOMAIN T |-> IF q = p THEN new ELSE T[q]]
        BY <2>1, <3>1
      <4>2. new \in Profile /\ SameCounts(new, T[p]) /\ new.quarantined = TRUE
        <5>1. T[p] \in Profile
          BY <2>1, <3>1
        <5>2. Marked(T[p], TRUE)
          BY <5>1, MarkedProfile
        <5> QED
          BY <5>2 DEF Marked
      <4> HIDE DEF new, table
      <4> QED
        BY <2>1, <4>1, <4>2 DEF SameCounts
    <3>2. CASE p \notin DOMAIN T
      <4>1. table = T
        BY <3>2
      <4> QED
        BY <2>1, <3>2, <4>1 DEF SameCounts
    <3> QED
      BY <3>1, <3>2
  <2>5. table \in [DOMAIN T -> Profile]
    <3>1. table = [q \in DOMAIN T |-> table[q]]
      BY <2>1
    <3> HIDE DEF table
    <3> QED
      BY <2>4, <3>1
  <2> HIDE DEF table, counts, r
  <2>6. table \in Tables
    BY <2>1, <2>4, <2>5, TableFacts
  <2>7. r \in Engines
    BY <2>1, <2>2, <2>3, <2>6 DEF Engines
  <2>8. Shrunk(s, r, {})
    BY <2>2, <2>4 DEF Shrunk
  <2>9. Consistent(s) /\ p \in DOMAIN T => Consistent(r)
    <3>1. r.profiles = table /\ r.quarantined = s.quarantined \cup {p} /\ s.profiles = T
      BY <2>1, <2>2
    <3>2. \A q \in DOMAIN T : T[q].quarantined \in BOOLEAN
      BY <2>1 DEF Profile
    <3> QED
      BY <2>1, <2>4, <3>1, <3>2 DEF Consistent
  <2> QED
    BY <2>7, <2>8, <2>9 DEF r
<1> QED
  BY <1>1, <1>2

LEMMA RespondFacts ==
  ASSUME NEW s \in Engines, NEW e \in Event
  PROVE  /\ Respond(s, e) \in Engines
         /\ Shrunk(s, Respond(s, e), IF e.action = "terminate" THEN {e.pid} ELSE {})
         /\ Consistent(s) /\ (e.action = "quarantine" => e.pid \in DOMAIN s.profiles)
            => Consistent(Respond(s, e))
<1>1. e.action \in Actions /\ e.pid \in Watched
  BY DEF Event
<1>2. /\ s = [profiles |-> s.profiles, quarantined |-> s.quarantined, stats |-> s.stats]
      /\ s.stats \in Outcomes
  BY EngineFacts
<1>3. CASE e.action = "log"
  <2>1. Respond(s, e) = s
    BY <1>3 DEF Respond
  <2> QED
    BY <1>3, <2>1 DEF Shrunk, SameCounts
<1>4. CASE e.action \in {"alert", "throttle"}
  <2> DEFINE counts == [s.stats EXCEPT !.alerts = @ + 1]
  <2>1. Respond(s, e) = [s EXCEPT !.stats = counts]
    BY <1>2, <1>4 DEF Respond
  <2>2. counts \in Outcomes
    BY <1>2 DEF Outcomes
  <2> HIDE DEF counts
  <2>3. /\ Respond(s, e) \in Engines /\ Respond(s, e).profiles = s.profiles
        /\ Respond(s, e).quarantined = s.quarantined
    BY <1>2, <2>1, <2>2 DEF Engines
  <2> QED
    BY <1>4, <2>3 DEF Shrunk, SameCounts, Consistent
<1>5. CASE e.action = "quarantine"
  <2>1. Respond(s, e) = Quarantine(s, e.pid)
    BY <1>5 DEF Respond
  <2> QED
    BY <1>1, <1>5, <2>1, QuarantineFacts
<1>6. CASE e.action = "terminate"
  <2> DEFINE counts == [s.stats EXCEPT !.terminated = @ + 1]
             t == [s EXCEPT !.stats = counts]
  <2>1. Respond(s, e) = Forgotten(t, e.pid)
    BY <1>2, <1>6 DEF Respond, Terminate
  <2>2. counts \in Outcomes
    BY <1>2 DEF Outcomes
  <2> HIDE DEF counts
  <2>3. t \in Engines /\ t.profiles = s.profiles /\ t.quarantined = s.quarantined
    BY <1>2, <2>2 DEF Engines
  <2> HIDE DEF t
  <2>4. /\ Forgotten(t, e.pid) \in Engines /\ Shrunk(t, Forgotten(t, e.pid), {e.pid})
        /\ Consistent(t) => Consistent(Forgotten(t, e.pid))
    BY <2>3, ForgottenFacts
  <2> QED
    BY <1>6, <2>1, <2>3, <2>4 DEF Shrunk, Consistent
<1> QED
  BY <1>1, <1>3, <1>4, <1>5, <1>6 DEF Actions

AnswerSteps(s, events, f) ==
  /\ f[0] = s
  /\ \A i \in 1 .. Len(events) : f[i] = Respond(f[i - 1], events[i])

LEMMA AnswersUnfold ==
  ASSUME NEW s \in Engines, NEW events \in Seq(Event)
  PROVE  \E f : AnswerSteps(s, events, f) /\ RespondAll(s, events) = f[Len(events)]
<1> DEFINE n == Len(events)
           step == [x \in (1 .. n) \X Engines |-> Respond(x[2], events[x[1]])]
           Def(f) == f = [i \in 0 .. n |->
                            IF i = 0 THEN s ELSE Respond(f[i - 1], events[i])]
<1>1. n \in Nat /\ \A i \in 1 .. n : events[i] \in Event
  BY LenProperties, ElementOfSeq
<1>2. step \in [(1 .. n) \X Engines -> Engines]
  <2> SUFFICES ASSUME NEW i \in 1 .. n, NEW x \in Engines
               PROVE  Respond(x, events[i]) \in Engines
    OBVIOUS
  <2> QED
    BY <1>1, RespondFacts
<1>3. PICK f : IsIterate(f, Engines, s, n, step)
  <2> HIDE DEF step, n
  <2> QED
    BY <1>1, <1>2, Iterates
<1>4. ASSUME NEW i \in 1 .. n
      PROVE  f[i] = Respond(f[i - 1], events[i])
  <2>1. i - 1 \in 0 .. n
    BY <1>1
  <2>2. f[i - 1] \in Engines
    BY <1>3, <2>1 DEF IsIterate
  <2>3. << i, f[i - 1] >> \in (1 .. n) \X Engines
    BY <2>2
  <2>4. f[i] = step[<< i, f[i - 1] >>]
    BY <1>3 DEF IsIterate
  <2> QED
    BY <2>3, <2>4
<1> HIDE DEF step
<1>5. Def(f)
  <2>1. ASSUME NEW i \in 0 .. n
        PROVE  f[i] = IF i = 0 THEN s ELSE Respond(f[i - 1], events[i])
    <3>1. CASE i = 0
      BY <1>3, <3>1 DEF IsIterate
    <3>2. CASE i # 0
      <4>1. i \in 1 .. n
        BY <1>1, <3>2
      <4> QED
        BY <1>4, <3>2, <4>1
    <3> QED
      BY <3>1, <3>2
  <2>2. f \in [0 .. n -> Engines]
    BY <1>3 DEF IsIterate
  <2> QED
    BY <2>1, <2>2
<1> DEFINE g == CHOOSE h : Def(h)
<1>6. Def(g)
  BY <1>5
<1>7. RespondAll(s, events) = g[n]
  BY DEF RespondAll
<1> HIDE DEF g
<1>8. AnswerSteps(s, events, g)
  <2>1. g = [i \in 0 .. n |-> IF i = 0 THEN s ELSE Respond(g[i - 1], events[i])]
    BY <1>6
  <2>2. 0 \in 0 .. n /\ \A i \in 1 .. n : i \in 0 .. n /\ i # 0
    BY <1>1
  <2> HIDE DEF n
  <2>3. \A i \in 0 .. n : g[i] = IF i = 0 THEN s ELSE Respond(g[i - 1], events[i])
    BY <2>1, Zenon
  <2> QED
    BY <2>2, <2>3 DEF AnswerSteps, n
<1> QED
  BY <1>7, <1>8

(* The responses in a row.  A quarantine never comes after the termination   *)
(* that took the profile, since the events about one process are final.      *)
LEMMA AnswersFacts ==
  ASSUME NEW s \in Engines, Consistent(s), NEW events \in Seq(Event), Final(events),
         \A i \in 1 .. Len(events) : events[i].pid \in DOMAIN s.profiles
  PROVE  /\ RespondAll(s, events) \in Engines /\ Consistent(RespondAll(s, events))
         /\ DOMAIN RespondAll(s, events).profiles \subseteq DOMAIN s.profiles
         /\ \A q \in DOMAIN RespondAll(s, events).profiles :
              SameCounts(RespondAll(s, events).profiles[q], s.profiles[q])
<1> DEFINE n == Len(events)
           gone(i) == {p \in DOMAIN s.profiles : \E j \in 1 .. i :
                         events[j].pid = p /\ events[j].action = "terminate"}
<1>1. PICK f : AnswerSteps(s, events, f) /\ RespondAll(s, events) = f[n]
  BY AnswersUnfold
<1> DEFINE Good == {i \in 0 .. n : f[i] \in Engines /\ Consistent(f[i]) /\ Shrunk(s, f[i], gone(i))}
<1>2. n \in Nat /\ \A i \in 1 .. n : events[i] \in Event /\ events[i].pid \in DOMAIN s.profiles
  BY LenProperties, ElementOfSeq
<1>3. 0 \in Good
  BY <1>1, <1>2 DEF AnswerSteps, Shrunk, SameCounts
<1>4. ASSUME NEW i \in 1 .. n, i - 1 \in Good PROVE i \in Good
  <2> DEFINE e == events[i]  old == f[i - 1]  new == Respond(old, e)
             T == IF e.action = "terminate" THEN {e.pid} ELSE {}
  <2>1. old \in Engines /\ Consistent(old) /\ Shrunk(s, old, gone(i - 1))
    BY <1>4
  <2>2. e \in Event /\ e.pid \in DOMAIN s.profiles /\ f[i] = new /\ i - 1 \in Nat
    BY <1>1, <1>2 DEF AnswerSteps
  <2>3. e.action = "quarantine" => e.pid \in DOMAIN old.profiles
    <3> SUFFICES ASSUME e.action = "quarantine", e.pid \in gone(i - 1) PROVE FALSE
      BY <2>1, <2>2 DEF Shrunk
    <3>1. PICK j \in 1 .. i - 1 : events[j].pid = e.pid /\ events[j].action = "terminate"
      OBVIOUS
    <3>2. j \in 1 .. n /\ j < i
      BY <1>2
    <3>3. e.action = "terminate"
      BY <3>1, <3>2 DEF Final
    <3> QED
      BY <3>3
  <2>4. new \in Engines /\ Consistent(new) /\ Shrunk(old, new, T)
    <3> HIDE DEF e, old
    <3> QED
      BY <2>1, <2>2, <2>3, RespondFacts
  <2>5. gone(i - 1) \subseteq gone(i) /\ T \subseteq gone(i)
    <3>1. \A j \in 1 .. i - 1 : j \in 1 .. i
      BY <1>2
    <3>2. i \in 1 .. i
      BY <1>2
    <3> QED
      BY <2>2, <3>1, <3>2
  <2>6. Shrunk(s, new, gone(i))
    <3> HIDE DEF old, new, T, gone
    <3> QED
      BY <2>1, <2>4, <2>5 DEF Shrunk, SameCounts
  <2> HIDE DEF new, gone
  <2>7. i \in 0 .. n
    BY <1>2
  <2> QED
    BY <2>2, <2>4, <2>6, <2>7
<1> HIDE DEF Good
<1>5. \A i \in 0 .. n : i \in Good
  <2> HIDE DEF n
  <2> QED
    BY <1>2, <1>3, <1>4, InductUpTo
<1>6. n \in Good
  BY <1>2, <1>5
<1> QED
  BY <1>1, <1>6 DEF Good, Shrunk

-----------------------------------------------------------------------------
(* The inductive invariant: types, the one fact of quarantine, and that a    *)
(* process without a fresh offence is below every threshold.                 *)
ThreatInv ==
  /\ Engine \in Engines /\ Consistent(Engine)
  /\ log \in Seq(Event)
  /\ scans \in 0 .. MaxScans /\ bursts \in 0 .. MaxBursts
  /\ fresh \subseteq Watched
  /\ \A p \in Known \ fresh : Quiet(profiles[p])

(* The engine's variables, from what is known of the three as a record.      *)
LEMMA EngineIs ==
  ASSUME NEW s, Become(s), s \in Engines
  PROVE  /\ profiles' = s.profiles /\ quarantined' = s.quarantined /\ stats' = s.stats
         /\ Engine' = s /\ Known' = DOMAIN s.profiles
BY EngineFacts DEF Become, Engine, Known

LEMMA Typed ==
  ASSUME Engine \in Engines
  PROVE  /\ Known \subseteq Watched /\ profiles \in [Known -> Profile]
         /\ quarantined \subseteq Watched /\ stats \in Outcomes
BY EngineFacts DEF Engine, Known

LEMMA ThreatInitially == ThreatInit => ThreatInv
<1> SUFFICES ASSUME ThreatInit PROVE ThreatInv
  OBVIOUS
<1>1. /\ profiles = << >> /\ quarantined = {} /\ log = << >> /\ scans = 0 /\ bursts = 0
      /\ fresh = {} /\ stats = [terminated |-> 0, isolated |-> 0, alerts |-> 0]
  BY DEF ThreatInit
<1>2. DOMAIN profiles = {} /\ log \in Seq(Event)
  BY <1>1, EmptySeq
<1>3. profiles \in [DOMAIN profiles -> Profile]
  BY <1>1, <1>2
<1>4. profiles \in Tables
  BY <1>2, <1>3, TableFacts
<1>5. Engine \in Engines /\ Consistent(Engine)
  BY <1>1, <1>2, <1>4 DEF Engine, Engines, Outcomes, Consistent
<1> QED
  BY <1>1, <1>2, <1>5, ThreatAssumption DEF ThreatInv, Known

LEMMA RegisterKeeps ==
  ASSUME ThreatInv, NEW p \in Watched, RegisterProcess(p)
  PROVE  ThreatInv'
<1> DEFINE D == Known \cup {p}
<1>1. /\ p \notin Known
      /\ profiles' = [q \in D |-> IF q = p THEN NewProfile ELSE profiles[q]]
      /\ UNCHANGED << quarantined, log, stats, scans, bursts, fresh >>
  BY DEF RegisterProcess
<1>2. /\ Known \subseteq Watched /\ profiles \in [Known -> Profile]
      /\ quarantined \subseteq Watched /\ stats \in Outcomes
  BY Typed DEF ThreatInv
<1>3. NewProfile \in Profile /\ Quiet(NewProfile) /\ NewProfile.quarantined = FALSE
  BY DEF NewProfile, Profile, Quiet, Saturating
<1> HIDE DEF NewProfile
<1>4. /\ Known' = D /\ DOMAIN profiles' = D /\ profiles'[p] = NewProfile
      /\ \A q \in Known : profiles'[q] = profiles[q]
  BY <1>1 DEF Known
<1>5. profiles' \in [D -> Profile]
  BY <1>1, <1>2, <1>3
<1>6. profiles' \in Tables
  BY <1>2, <1>4, <1>5, TableFacts
<1>7. Engine' \in Engines
  BY <1>1, <1>2, <1>6 DEF Engine, Engines
<1>8. Consistent(Engine)'
  BY <1>1, <1>3, <1>4 DEF ThreatInv, Consistent, Engine, Known
<1>9. \A q \in Known' \ fresh' : Quiet(profiles'[q])
  BY <1>1, <1>3, <1>4 DEF ThreatInv
<1> QED
  BY <1>1, <1>7, <1>8, <1>9 DEF ThreatInv

LEMMA UnregisterKeeps ==
  ASSUME ThreatInv, NEW p \in Watched, UnregisterProcess(p)
  PROVE  ThreatInv'
<1> DEFINE r == Forgotten(Engine, p)
<1>1. /\ Become(r) /\ fresh' = fresh \ {p} /\ UNCHANGED << log, scans, bursts >>
  BY DEF UnregisterProcess
<1>2. Engine.profiles = profiles
  BY DEF Engine
<1>3. /\ r \in Engines /\ Consistent(r) /\ DOMAIN r.profiles = Known \ {p}
      /\ \A q \in Known \ {p} : r.profiles[q] = profiles[q]
  BY <1>2, ForgottenFacts DEF ThreatInv, Known
<1> HIDE DEF r
<1>4. Engine' = r /\ profiles' = r.profiles /\ Known' = DOMAIN r.profiles
  BY <1>1, <1>3, EngineIs
<1>5. Consistent(Engine)'
  BY <1>3, <1>4 DEF Consistent
<1>6. \A q \in Known' \ fresh' : Quiet(profiles'[q])
  BY <1>1, <1>3, <1>4 DEF ThreatInv
<1> QED
  BY <1>1, <1>3, <1>4, <1>5, <1>6 DEF ThreatInv

LEMMA RecordKeeps ==
  ASSUME ThreatInv, NEW p \in Watched, NEW counter \in Counters, NEW n \in Bursts[counter],
         Record(p, counter, n)
  PROVE  ThreatInv'
<1> DEFINE new == [profiles[p] EXCEPT ![counter] = @ + n]
<1>1. /\ p \in Known /\ bursts < MaxBursts
      /\ profiles' = [profiles EXCEPT ![p] = new]
      /\ bursts' = bursts + 1 /\ fresh' = fresh \cup {p}
      /\ UNCHANGED << quarantined, log, stats, scans >>
  BY DEF Record
<1>2. /\ Known \subseteq Watched /\ profiles \in [Known -> Profile]
      /\ quarantined \subseteq Watched /\ stats \in Outcomes
  BY Typed DEF ThreatInv
<1>3. n \in Nat
  BY ThreatAssumption DEF Counters
<1>4. new \in Profile /\ new.quarantined = profiles[p].quarantined
  <2>1. profiles[p] \in Profile
    BY <1>1, <1>2
  <2>2. CASE counter = "syscalls"
    <3>1. new = [profiles[p] EXCEPT !.syscalls = @ + n]
      BY <2>2
    <3> QED
      BY <1>3, <2>1, <3>1 DEF Profile
  <2>3. CASE counter = "writes"
    <3>1. new = [profiles[p] EXCEPT !.writes = @ + n]
      BY <2>3
    <3> QED
      BY <1>3, <2>1, <3>1 DEF Profile
  <2>4. CASE counter = "denied"
    <3>1. new = [profiles[p] EXCEPT !.denied = @ + n]
      BY <2>4
    <3> QED
      BY <1>3, <2>1, <3>1 DEF Profile
  <2> QED
    BY <2>2, <2>3, <2>4 DEF Counters
<1> HIDE DEF new
<1>5. /\ Known' = Known /\ profiles' \in [Known -> Profile] /\ DOMAIN profiles' = Known
      /\ \A q \in Known : profiles'[q] = IF q = p THEN new ELSE profiles[q]
  BY <1>1, <1>2, <1>4 DEF Known
<1>6. profiles' \in Tables
  BY <1>2, <1>5, TableFacts
<1>7. Engine' \in Engines
  BY <1>1, <1>2, <1>6 DEF Engine, Engines
<1>8. Consistent(Engine)'
  BY <1>1, <1>4, <1>5 DEF ThreatInv, Consistent, Engine, Known
<1>9. \A q \in Known' \ fresh' : Quiet(profiles'[q])
  BY <1>1, <1>5 DEF ThreatInv
<1>10. bursts' \in 0 .. MaxBursts
  BY <1>1, ThreatAssumption DEF ThreatInv
<1> QED
  BY <1>1, <1>7, <1>8, <1>9, <1>10 DEF ThreatInv

LEMMA ReleaseKeeps ==
  ASSUME ThreatInv, NEW p \in Watched, ReleaseQuarantine(p)
  PROVE  ThreatInv'
<1> DEFINE new == [profiles[p] EXCEPT !.quarantined = FALSE]
<1>1. /\ p \in quarantined /\ quarantined' = quarantined \ {p}
      /\ profiles' = [profiles EXCEPT ![p] = new]
      /\ UNCHANGED << log, stats, scans, bursts, fresh >>
  BY DEF ReleaseQuarantine
<1>2. /\ Known \subseteq Watched /\ profiles \in [Known -> Profile]
      /\ quarantined \subseteq Watched /\ stats \in Outcomes
  BY Typed DEF ThreatInv
<1>3. p \in Known
  BY <1>1 DEF ThreatInv, Consistent, Engine, Known
<1>4. new \in Profile /\ new.quarantined = FALSE /\ SameCounts(new, profiles[p])
  <2>1. profiles[p] \in Profile
    BY <1>2, <1>3
  <2>2. Marked(profiles[p], FALSE)
    BY <2>1, MarkedProfile
  <2> QED
    BY <2>2 DEF Marked
<1> HIDE DEF new
<1>5. /\ Known' = Known /\ profiles' \in [Known -> Profile] /\ DOMAIN profiles' = Known
      /\ \A q \in Known : profiles'[q] = IF q = p THEN new ELSE profiles[q]
  BY <1>1, <1>2, <1>4 DEF Known
<1>6. profiles' \in Tables
  BY <1>2, <1>5, TableFacts
<1>7. Engine' \in Engines
  BY <1>1, <1>2, <1>6 DEF Engine, Engines
<1>8. Consistent(Engine)'
  BY <1>1, <1>4, <1>5 DEF ThreatInv, Consistent, Engine, Known
<1>9. \A q \in Known' \ fresh' : Quiet(profiles'[q])
  BY <1>1, <1>4, <1>5 DEF ThreatInv, Quiet, SameCounts
<1> QED
  BY <1>1, <1>7, <1>8, <1>9 DEF ThreatInv

(* A scan answers only for fresh offences, and leaves nothing of them.       *)
LEMMA AnalyzeKeeps ==
  ASSUME ThreatInv, Analyze
  PROVE  ThreatInv' /\ \A i \in DOMAIN log' : log'[i].pid \in fresh
<1> DEFINE tick == scans' * ScanGap
           scanned == [p \in Known |-> Scan(p, tick)]
           table == [p \in Known |-> scanned[p].profile]
           examined == [Engine EXCEPT !.profiles = table]
           r == RespondAll(examined, log')
<1>1. /\ scans < MaxScans /\ scans' = scans + 1 /\ log' = Events(scanned) /\ Become(r)
      /\ fresh' = fresh \ {p \in Known : Due(p, tick)} /\ bursts' = bursts
  BY DEF Analyze
<1>2. /\ Known \subseteq Watched /\ profiles \in [Known -> Profile]
      /\ quarantined \subseteq Watched /\ stats \in Outcomes
      /\ Engine = [profiles |-> profiles, quarantined |-> quarantined, stats |-> stats]
  BY Typed DEF ThreatInv, Engine
<1>3. scans' \in 0 .. MaxScans /\ tick \in Nat
  <2>1. scans' \in 0 .. MaxScans /\ scans' \in Nat /\ ScanGap \in Nat
    BY <1>1, ThreatAssumption DEF ThreatInv
  <2>2. \A a, b \in Nat : a * b \in Nat
    OBVIOUS
  <2>3. tick \in Nat
    BY <2>1, <2>2, Zenon
  <2> QED
    BY <2>1, <2>3
<1> HIDE DEF tick
<1>4. ASSUME NEW p \in Known
      PROVE  /\ scanned[p].profile \in Profile /\ scanned[p].events \in Seq(Event)
             /\ \A i \in 1 .. Len(scanned[p].events) : scanned[p].events[i].pid = p
             /\ Final(scanned[p].events)
             /\ scanned[p].profile.quarantined = profiles[p].quarantined
             /\ scanned[p].events # << >> => ~ Quiet(profiles[p])
             /\ IF Due(p, tick) THEN Quiet(scanned[p].profile)
                ELSE scanned[p].profile = profiles[p]
  <2>1. p \in Watched /\ profiles[p] \in Profile /\ scanned[p] = Scan(p, tick)
    BY <1>2
  <2> HIDE DEF scanned
  <2> QED
    BY <1>3, <2>1, ScanFacts
<1>5. DOMAIN scanned = Known
  OBVIOUS
<1> HIDE DEF scanned
<1>6. Listed(scanned, MaxWatched, log')
  BY <1>1, <1>2, <1>4, <1>5, EventsFacts
<1>7. /\ DOMAIN table = Known /\ table \in [Known -> Profile]
      /\ \A p \in Known : table[p] = scanned[p].profile
  BY <1>4
<1> HIDE DEF table
<1>8. /\ examined = [profiles |-> table, quarantined |-> quarantined, stats |-> stats]
      /\ examined \in Engines
  <2>1. table \in Tables
    BY <1>2, <1>7, TableFacts
  <2> QED
    BY <1>2, <2>1 DEF Engines
<1>9. Consistent(examined)
  BY <1>2, <1>4, <1>7, <1>8 DEF ThreatInv, Consistent, Known
<1> HIDE DEF examined
<1>10. /\ log' \in Seq(Event) /\ Final(log')
       /\ \A i \in 1 .. Len(log') : /\ log'[i].pid \in DOMAIN examined.profiles
                                    /\ scanned[log'[i].pid].events # << >>
  BY <1>5, <1>6, <1>7, <1>8 DEF Listed
<1>11. /\ r \in Engines /\ Consistent(r) /\ DOMAIN r.profiles \subseteq Known
       /\ \A q \in DOMAIN r.profiles : SameCounts(r.profiles[q], table[q])
  BY <1>7, <1>8, <1>9, <1>10, AnswersFacts
<1> HIDE DEF r
<1>12. Engine' = r /\ profiles' = r.profiles /\ Known' = DOMAIN r.profiles
  BY <1>1, <1>11, EngineIs
<1>13. Engine' \in Engines /\ Consistent(Engine)'
  BY <1>11, <1>12 DEF Consistent
<1>14. \A q \in Known' \ fresh' : Quiet(profiles'[q])
  <2> TAKE q \in Known' \ fresh'
  <2>1. q \in Known /\ (q \notin fresh \/ Due(q, tick)) /\ SameCounts(profiles'[q], table[q])
    BY <1>1, <1>11, <1>12
  <2>2. Quiet(table[q])
    <3>1. CASE Due(q, tick)
      BY <1>4, <1>7, <2>1, <3>1
    <3>2. CASE ~ Due(q, tick)
      BY <1>4, <1>7, <2>1, <3>2 DEF ThreatInv
    <3> QED
      BY <3>1, <3>2
  <2> QED
    BY <2>1, <2>2 DEF Quiet, SameCounts
<1>15. ThreatInv'
  BY <1>1, <1>3, <1>10, <1>13, <1>14 DEF ThreatInv
<1>16. \A i \in DOMAIN log' : log'[i].pid \in fresh
  <2> TAKE i \in DOMAIN log'
  <2>1. i \in 1 .. Len(log')
    BY <1>10, LenProperties
  <2>2. log'[i].pid \in Known /\ scanned[log'[i].pid].events # << >>
    BY <1>7, <1>8, <1>10, <2>1
  <2>3. ~ Quiet(profiles[log'[i].pid])
    BY <1>4, <2>2
  <2> QED
    BY <2>2, <2>3 DEF ThreatInv
<1> QED
  BY <1>15, <1>16

LEMMA ThreatKeeps ==
  ASSUME ThreatInv, [ThreatNext]_threatVars
  PROVE  ThreatInv'
<1>1. CASE UNCHANGED threatVars
  BY <1>1 DEF threatVars, ThreatInv, Engine, Known, Consistent
<1>2. ASSUME NEW p \in Watched, NEW counter \in Counters, NEW n \in Bursts[counter],
             Record(p, counter, n)
      PROVE  ThreatInv'
  BY <1>2, RecordKeeps
<1> QED
  BY <1>1, <1>2, RegisterKeeps, UnregisterKeeps, ReleaseKeeps, AnalyzeKeeps DEF ThreatNext

(* The inductive invariant of the threat engine.                             *)
THEOREM ThreatInvariant == ThreatSpec => []ThreatInv
  BY ThreatInitially, ThreatKeeps, PTL DEF ThreatSpec

(* Whatever offences a scan finds and however many responses it runs in a    *)
(* row, the quarantined pids are those with a flagged profile: a process is  *)
(* never put in quarantine after the same scan has terminated it (analyze,   *)
(* respond, unregister_process).                                             *)
THEOREM QuarantineIsKnown == ThreatSpec => []QuarantineKnown
<1>1. ThreatInv => QuarantineKnown
  BY DEF ThreatInv, Consistent, Engine, Known, QuarantineKnown
<1> QED
  BY <1>1, ThreatInvariant, PTL

(* A scan raises events only for processes that did something since their    *)
(* previous window: what one was charged for is not charged again (analyze). *)
THEOREM ChargedOnce == ThreatSpec => NoDoubleJeopardy
<1>1. ThreatInv /\ [ThreatNext]_threatVars
      => [scans' # scans => \A i \in DOMAIN log' : log'[i].pid \in fresh]_threatVars
  <2> SUFFICES ASSUME ThreatInv, ThreatNext, scans' # scans
               PROVE  \A i \in DOMAIN log' : log'[i].pid \in fresh
    OBVIOUS
  <2>1. Analyze
    BY DEF ThreatNext, RegisterProcess, UnregisterProcess, Record, ReleaseQuarantine
  <2> QED
    BY <2>1, AnalyzeKeeps
<1> QED
  BY <1>1, ThreatInvariant, PTL DEF ThreatSpec, NoDoubleJeopardy
=============================================================================
