------------------------------ MODULE Telemetry ------------------------------
(* The prediction cycle of ia/: a sample of the kernel's counters goes into a *)
(* ring (collector.rs), the last of them through three small networks         *)
(* (model.rs), and their outputs choose an action (optimizer.rs) and          *)
(* suggestions to the user (suggest.rs).                                      *)
(* Features are in thousandths, rounded down.  The sigmoid of an output unit  *)
(* is monotone: it is compared through its argument, 0.5 being 0, 0.8 being   *)
(* ln 4 = 1.386, 0.85 being 1.734 and 0.15 being -1.734.                      *)
EXTENDS Integers, Sequences, FiniteSets

CONSTANTS Readings,      \* what a collection may read: [running, heap, ...]
          RingSize,      \* capacity of the collector (512)
          WindowSize,    \* samples the models are given (10)
          MaxSuggestions,\* suggestions kept (10)
          SuggestEvery,  \* cycles between two offers to synchronise (60)
          MaxCycles      \* bound: cycles of ia::tick

ASSUME TelemetryAssumption ==
  /\ RingSize \in Nat \ {0} /\ WindowSize \in 1 .. RingSize
  /\ MaxSuggestions \in Nat \ {0} /\ SuggestEvery \in Nat \ {0} /\ MaxCycles \in Nat
  /\ \A r \in Readings : /\ r.running \in Nat /\ r.heap \in 0 .. 100 /\ r.peers \in Nat
                         /\ r.violations \in Nat /\ r.switches \in Nat

VARIABLES
  ring,         \* buffer
  ringHead,     \* head: where the next sample goes once the ring is full
  samples,      \* history: every sample, in order
  optimized,    \* last_action, and how many that were not NoAction
  suggestions,  \* SuggestEngine: [list, nextId], each with its cycle's reading
  cycle         \* real_tick, in thousands

telemetryVars == << ring, ringHead, samples, optimized, suggestions, cycle >>

TelemetryInit ==
  /\ ring = << >> /\ ringHead = 0 /\ samples = << >> /\ cycle = 0
  /\ optimized = [last |-> "none", applied |-> 0]
  /\ suggestions = [list |-> << >>, nextId |-> 1]

----------------------------------------------------------------------------
(* push, of a ring that a Vec backs: appended to until it is as long as the   *)
(* ring, overwritten at head from then on.                                   *)
Pushed(r, head, s) ==
  IF Len(r) < RingSize THEN Append(r, s) ELSE [r EXCEPT ![head + 1] = s]
NextHead(head) == (head + 1) % RingSize

\* The oldest sample is taken to be at index 0, full or not.
WindowFromZero(r, head, n) ==
  LET k == IF n < Len(r) THEN n ELSE Len(r)
  IN [i \in 1 .. k |-> r[Len(r) - k + i]]

(* recent_features: the last n samples, oldest first. *)
Window(r, head, n) ==
  LET k == IF n < Len(r) THEN n ELSE Len(r)
      start == IF Len(r) < RingSize THEN 0 ELSE head
  IN [i \in 1 .. k |-> r[((start + Len(r) - k + i - 1) % RingSize) + 1]]

Latest(r, head) == r[IF head = 0 THEN Len(r) ELSE head]

(* collect and to_features: the processor counts as 60% idle or 95%, by       *)
(* whether a process runs; the heap is of 16 MB; the rest are ratios.         *)
Busy(s) == IF s.running = 0 THEN 50 ELSE 400
CpuIdle(s) == 1000 - Busy(s)
HeapUsed(s) == 10 * s.heap
HeapFree(s) == 16 * (1000 - HeapUsed(s))
Peering(s) == (1000 * s.peers) \div 16
Violations(s) == 10 * s.violations
Relu(x) == IF x > 0 THEN x ELSE 0

(* temporal_features: the mean, in which the oldest weighs most, and the last *)
(* difference.                                                               *)
Mean(values) ==
  LET n == Len(values)
      weighted[i \in 0 .. n] ==
        IF i = 0 THEN 0 ELSE weighted[i - 1] + (n - i + 1) * values[i]
  IN weighted[n] \div ((n * (n + 1)) \div 2)
Trend(values) ==
  IF Len(values) < 2 THEN 0 ELSE values[Len(values)] - values[Len(values) - 1]

(* The arguments of the sigmoids: a resource in a second (ResourcePredictor), *)
(* the anomaly score and the decision to synchronise.                        *)
Forecast(values) ==
  2 * values[Len(values)] + 2 * Mean(values) + (3 * Trend(values)) \div 2 - 2000
Anomaly(s) ==
  5 * Violations(s) + Relu(500 - Peering(s) \div 2) \div 2
    + (300 * s.running) \div 32 + (400 * (s.switches % 1000)) \div 1000 - 3000
SyncDecision(s) ==
  LET p == Peering(s) IN
  (3 * p) \div 2 + CpuIdle(s) + HeapFree(s) + (CpuIdle(s) + p)
    + (CpuIdle(s) + HeapFree(s) + p) \div 2 - 2 * Relu(100 - p) - 1800

(* decide: the first of four conditions that holds. *)
Pressing(w) ==
  IF Anomaly(w[Len(w)]) > 1386 THEN "isolate"
  ELSE IF Forecast([i \in DOMAIN w |-> HeapUsed(w[i])]) > 1734 THEN "trim" ELSE "none"
Boost(w) == IF Forecast([i \in DOMAIN w |-> Busy(w[i])]) < -1734 THEN "boost" ELSE "none"
Sync(w) == IF SyncDecision(w[Len(w)]) > 0 THEN "sync" ELSE "none"

FirstOf(a, b, c) == IF a # "none" THEN a ELSE IF b # "none" THEN b ELSE c

\* An idle processor is looked at before the decision to synchronise.
DecideIdleFirst(w) == FirstOf(Pressing(w), Boost(w), Sync(w))

Decide(w) == FirstOf(Pressing(w), Sync(w), Boost(w))

Applied(o, action) ==
  [last |-> action, applied |-> o.applied + (IF action = "none" THEN 0 ELSE 1)]

(* add: an id of its own, and the oldest of ten gives way. *)
AddSuggestion(g, kind, s) ==
  LET kept == IF Len(g.list) >= MaxSuggestions THEN Tail(g.list) ELSE g.list
  IN [list |-> Append(kept, [id |-> g.nextId, kind |-> kind, seen |-> s]),
      nextId |-> g.nextId + 1]

(* evaluate: peers to synchronise with, once a minute, and a heap that fills. *)
Evaluated(g, s, now) ==
  LET offered == IF now % SuggestEvery = 0 /\ s.peers > 0
                 THEN AddSuggestion(g, "network", s) ELSE g
  IN IF s.heap > 80 THEN AddSuggestion(offered, "memory", s) ELSE offered

(* ia::tick, in a pass of kernel_loop that meets a multiple of 1000 ticks:    *)
(* some are missed.                                                          *)
IaTick(s) ==
  /\ Len(samples) < MaxCycles
  /\ \E gap \in 1 .. 2 : cycle' = cycle + gap
  /\ ring' = Pushed(ring, ringHead, s) /\ ringHead' = NextHead(ringHead)
  /\ samples' = Append(samples, s)
  /\ optimized' = Applied(optimized, Decide(Window(ring', ringHead', WindowSize)))
  /\ suggestions' = Evaluated(suggestions, Latest(ring', ringHead'), cycle')

TelemetryNext == \E s \in Readings : IaTick(s)
TelemetrySpec == TelemetryInit /\ [][TelemetryNext]_telemetryVars

----------------------------------------------------------------------------
TelemetryTypeOK ==
  /\ Len(ring) <= RingSize /\ ringHead \in 0 .. RingSize - 1
  /\ Len(suggestions.list) <= MaxSuggestions
  /\ optimized.applied <= Len(samples)

(* Whatever has been overwritten in the ring, the models are given the last   *)
(* samples in the order they were collected (recent_features, latest).       *)
WindowTrue ==
  LET n == Len(samples)
      k == IF n < WindowSize THEN n ELSE WindowSize
  IN /\ Window(ring, ringHead, WindowSize) = SubSeq(samples, n - k + 1, n)
     /\ n > 0 => Latest(ring, ringHead) = samples[n]

(* A cycle that finds the processor idle always acts, and never by the boost  *)
(* that decide keeps for it: such a processor has something to synchronise    *)
(* first.  A busy one may have nothing to do (decide).                       *)
IdleActs ==
  /\ optimized.last # "boost"
  /\ optimized.applied >= Cardinality({i \in DOMAIN samples : samples[i].running = 0})
=============================================================================
