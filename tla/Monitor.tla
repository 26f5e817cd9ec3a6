------------------------------- MODULE Monitor -------------------------------
(* The resource monitor (monitor.rs): a snapshot every interval, a history of *)
(* the last ones and the alerts they call for.  kernel_loop ticks it with its *)
(* own counter, the monitor command and the self-tests with the scheduler's   *)
(* tick, which may be ahead or behind.                                       *)
EXTENDS Naturals, Sequences, FiniteSets

CONSTANTS CaptureInterval, \* interval (60)
          HistoryBound,    \* max_history (60)
          FarTick,         \* how far ahead a self-test ticks the monitor (9999)
          Heaps,           \* heap_used_pct, the values considered
          MonitorTicks,    \* bound: ticks of either clock
          MaxAlerts        \* bound: alerts in the list, which nothing shortens

ASSUME MonitorAssumption ==
  /\ CaptureInterval \in Nat \ {0} /\ HistoryBound \in Nat \ {0} /\ FarTick \in Nat
  /\ Heaps \subseteq 0 .. 100 /\ MonitorTicks \subseteq Nat /\ MaxAlerts \in Nat

VARIABLE monitor   \* MONITOR: last_capture, current, history and alerts

(* The snapshots the monitor takes; busy when idle is estimated at 10 %. *)
NoSnapshot == [tick |-> 0, taken |-> FALSE, busy |-> FALSE, heap |-> 0, peers |-> FALSE]
Seen == [busy : BOOLEAN, heap : Heaps, peers : BOOLEAN]
Snapshot(tick, seen) == [tick |-> tick, taken |-> TRUE, busy |-> seen.busy,
                         heap |-> seen.heap, peers |-> seen.peers]

MonitorInit ==
  monitor = [last |-> 0, current |-> NoSnapshot, history |-> << >>, alerts |-> << >>]

\* With > where the code has >=.
KeepLastLate(s, bound) ==
  IF Len(s) > bound + 1 THEN SubSeq(s, Len(s) - bound + 1, Len(s)) ELSE s

KeepLast(s, bound) == IF Len(s) > bound THEN SubSeq(s, Len(s) - bound + 1, Len(s)) ELSE s

Wanted(kind, snap) == CASE kind = "HeapCritical" -> snap.heap > 85
                        [] kind = "HeapHigh" -> snap.heap > 70 /\ snap.heap <= 85
                        [] kind = "NoPeers" -> ~snap.peers
AlertKinds == << "HeapCritical", "HeapHigh", "NoPeers" >>

HasAlert(alerts, kind) == \E i \in DOMAIN alerts : alerts[i] = [kind |-> kind, cleared |-> FALSE]
FireAlert(alerts, kind) == Append(alerts, [kind |-> kind, cleared |-> FALSE])
\* find instead of iter_mut: the first alert of the kind, cleared or not.
ClearFirstAlert(alerts, kind) ==
  [i \in DOMAIN alerts |->
     IF alerts[i].kind = kind /\ \A j \in 1 .. i - 1 : alerts[j].kind # kind
     THEN [alerts[i] EXCEPT !.cleared = TRUE] ELSE alerts[i]]

ClearAlert(alerts, kind) ==
  [i \in DOMAIN alerts |->
     IF alerts[i].kind = kind THEN [alerts[i] EXCEPT !.cleared = TRUE] ELSE alerts[i]]

Checked(alerts, snap, kind) ==
  CASE Wanted(kind, snap) /\ ~HasAlert(alerts, kind) -> FireAlert(alerts, kind)
    [] Wanted(kind, snap) /\ HasAlert(alerts, kind) -> alerts
    [] ~Wanted(kind, snap) -> ClearAlert(alerts, kind)

CheckAlerts(alerts, snap) ==
  Checked(Checked(Checked(alerts, snap, AlertKinds[1]), snap, AlertKinds[2]), snap, AlertKinds[3])

(* ResourceMonitor::tick; the snapshot before goes into the history, which    *)
(* has made room for it.                                                     *)
Captured(m, tick, seen) ==
  LET snap == Snapshot(tick, seen)
      room == KeepLast(m.history, HistoryBound - 1)
  IN [last |-> tick, current |-> snap, alerts |-> CheckAlerts(m.alerts, snap),
      history |-> IF m.current.taken THEN Append(room, m.current.heap) ELSE room]
MonitorTick(m, tick, seen) ==
  IF tick >= m.last + CaptureInterval THEN Captured(m, tick, seen) ELSE m

(* The monitor command, and a self-test, clear last_capture first.           *)
Forced(m, tick, seen) == MonitorTick([m EXCEPT !.last = 0], tick, seen)

----------------------------------------------------------------------------
RoomForAlerts == Len(monitor.alerts) < MaxAlerts

(* kernel_loop's monitor_tick *)
LoopTick ==
  /\ RoomForAlerts
  /\ \E tick \in MonitorTicks, seen \in Seen : monitor' = MonitorTick(monitor, tick, seen)

(* the monitor command *)
CommandMonitor ==
  /\ RoomForAlerts
  /\ \E tick \in MonitorTicks, seen \in Seen : monitor' = Forced(monitor, tick, seen)

(* the self-tests, at boot and by command: far ahead, then from zero; the two *)
(* ticks after that are like kernel_loop's.                                  *)
SelfTest ==
  /\ RoomForAlerts
  /\ \E tick \in MonitorTicks, far, near \in Seen :
       monitor' = Forced(MonitorTick(monitor, tick + FarTick, far), tick, near)

MonitorNext == LoopTick \/ CommandMonitor \/ SelfTest
MonitorSpec == MonitorInit /\ [][MonitorNext]_monitor

----------------------------------------------------------------------------
MonitorTypeOK ==
  /\ monitor.last \in Nat /\ Len(monitor.history) <= HistoryBound
  /\ \A i \in DOMAIN monitor.history : monitor.history[i] \in Heaps
  /\ \A i \in DOMAIN monitor.alerts :
       monitor.alerts[i] \in [kind : {AlertKinds[k] : k \in 1 .. 3}, cleared : BOOLEAN]

(* The alerts that are up are the ones the current snapshot calls for, each   *)
(* once, although the list keeps every alert there ever was (check_alerts,    *)
(* has_alert, clear_alert).                                                  *)
AlertsTrue ==
  monitor.current.taken =>
    \A kind \in {"HeapCritical", "HeapHigh", "NoPeers"} :
      Cardinality({i \in DOMAIN monitor.alerts :
                     monitor.alerts[i] = [kind |-> kind, cleared |-> FALSE]})
        = IF Wanted(kind, monitor.current) THEN 1 ELSE 0
=============================================================================
