------------------------------ MODULE Cognition ------------------------------
(* The cognitive engine (cognitive.rs): patterns observed once a cycle, the   *)
(* actions of those that are approved, seen often enough and not cooling     *)
(* down, and the toasts they show in the AR scene (ar.rs).  kernel_loop calls *)
(* it with a counter of its own passes, commands and self-tests with the     *)
(* scheduler's tick: two clocks reach one last_tick.                         *)
EXTENDS Naturals, Sequences

CONSTANTS Interval,   \* cycle_interval (60)
          Cooldown,   \* pattern -> ticks between two executions
          Period,     \* interval_ticks of the periodic pattern (18000)
          PresetSeen, \* occurrences init gives each pattern (10)
          EarnedAt,   \* least occurrences with a confidence of 0.7 (24)
          LogBound,   \* entries action_log is trimmed at (50)
          ToastLife,  \* duration_ticks of a notification (180)
          BootCycles, \* cycles the demonstration runs at boot (5)
          MaxTick     \* bound: both clocks

Patterns == << "offload", "isolate", "sync", "mobile", "gc" >>
PatternNames == {Patterns[i] : i \in DOMAIN Patterns}

ASSUME CognitionAssumption ==
  /\ Interval \in Nat \ {0} /\ Period \in Nat \ {0}
  /\ Cooldown \in [PatternNames -> Nat \ {0}]
  /\ PresetSeen \in Nat /\ EarnedAt \in Nat /\ LogBound \in Nat /\ ToastLife \in Nat
  /\ BootCycles \in Nat /\ MaxTick \in Nat \ {0}

VARIABLES
  clock,    \* the scheduler's current_tick
  loopTick, \* kernel_loop's counter; before it, the tick the demo started at
  boot,     \* demonstration cycles run; BootCycles + 1 once the loop runs
  engine,   \* COGNITIVE: last_tick, action_log, and each pattern's state
  toasts    \* ticks at which the holograms that expire do

cognitionVars == << clock, loopTick, boot, engine, toasts >>

CognitionInit ==
  /\ clock \in 0 .. 1 /\ loopTick = clock /\ boot = 0
  /\ engine = [last |-> 0, log |-> << >>,
               seen |-> [p \in PatternNames |-> PresetSeen],
               approved |-> PatternNames \ {"gc"},
               executed |-> [p \in PatternNames |-> 0]]
  /\ toasts = {}

----------------------------------------------------------------------------
(* CognitiveContext::snapshot: what a cycle sees of the others.  A mobile is  *)
(* among the devices since xdev's run_demo.                                  *)
Contexts == [busy : BOOLEAN, pressed : BOOLEAN, threats : BOOLEAN]

(* PatternTrigger::evaluate, of the five patterns of init. *)
Triggered(p, tick, ctx) ==
  CASE p = "offload" -> ctx.busy
    [] p = "isolate" -> ctx.threats
    [] p = "sync" -> tick % Period = 0
    [] p = "mobile" -> TRUE
    [] p = "gc" -> ctx.pressed

(* observe comes before is_confident and computes the confidence anew, so the *)
(* 0.9 that init writes is never looked at.                                  *)
Observed(e, matched) == [p \in PatternNames |-> e.seen[p] + (IF p \in matched THEN 1 ELSE 0)]
CanExecute(e, p, tick) == tick >= e.executed[p] + Cooldown[p]
ToRun(e, matched, tick) ==
  {p \in matched : /\ Observed(e, matched)[p] >= EarnedAt
                   /\ p \in e.approved /\ CanExecute(e, p, tick)}

\* last_executed is left as it was.
ExecutedNever(e, run, tick) == e.executed

Executed(e, run, tick) == [p \in PatternNames |-> IF p \in run THEN tick ELSE e.executed[p]]

(* The log drops its oldest entry when it is over its bound. *)
Entered(log, entry) == Append(IF Len(log) > LogBound THEN Tail(log) ELSE log, entry)

Logged(log, run, tick) ==
  LET after[k \in 0 .. Len(Patterns)] ==
        IF k = 0 THEN log
        ELSE IF Patterns[k] \in run
             THEN Entered(after[k - 1], [tick |-> tick, pattern |-> Patterns[k]])
             ELSE after[k - 1]
  IN after[Len(Patterns)]

(* CognitiveEngine::tick: perceive, reason, act.  Of the actions, mobile's    *)
(* shows a toast, for ToastLife ticks of the scheduler's clock.              *)
Cycled(s, tick, ctx) ==
  LET e == s.engine
      matched == {p \in PatternNames : Triggered(p, tick, ctx)}
      run == ToRun(e, matched, tick)
  IN IF tick < e.last + Interval THEN s
     ELSE [engine |-> [last |-> tick,
                       log |-> Logged(e.log, run, tick),
                       seen |-> Observed(e, matched),
                       approved |-> e.approved,
                       executed |-> Executed(e, run, tick)],
           toasts |-> s.toasts \cup (IF "mobile" \in run THEN {clock + ToastLife} ELSE {})]

(* ar_tick holds a toast against the loop's tick, not the clock it was timed  *)
(* with.                                                                     *)
Expired(s, tick) == [s EXCEPT !.toasts = {e \in @ : tick < e}]

Now == [engine |-> engine, toasts |-> toasts]
Adopt(s) == engine' = s.engine /\ toasts' = s.toasts

----------------------------------------------------------------------------
Timer ==
  /\ clock < MaxTick
  /\ clock' = clock + 1
  /\ UNCHANGED << loopTick, boot, engine, toasts >>

(* run_demo's cycles, an interval apart although no time passes. *)
BootCycle ==
  /\ boot < BootCycles
  /\ \E ctx \in Contexts : Adopt(Cycled(Now, loopTick + boot * Interval, ctx))
  /\ boot' = boot + 1
  /\ UNCHANGED << clock, loopTick >>

LoopStarts ==
  /\ boot = BootCycles
  /\ boot' = BootCycles + 1
  /\ loopTick' = clock
  /\ UNCHANGED << clock, engine, toasts >>

Running == boot > BootCycles

(* One pass of the loop: cognitive_tick, ar_tick, and the loop's counter.    *)
Pass ==
  /\ Running /\ loopTick < MaxTick
  /\ \E ctx \in Contexts : Adopt(Expired(Cycled(Now, loopTick, ctx), loopTick))
  /\ loopTick' = loopTick + 1
  /\ UNCHANGED << clock, boot >>

(* cogn approve *)
ApprovePattern(p) ==
  /\ Running
  /\ engine' = [engine EXCEPT !.approved = @ \cup {p}]
  /\ UNCHANGED << clock, loopTick, boot, toasts >>

(* cogn tick, and the self-test of the engine *)
CommandCycle ==
  /\ Running
  /\ \E ctx \in Contexts : Adopt(Cycled(Now, clock, ctx))
  /\ UNCHANGED << clock, loopTick, boot >>

CognitionNext ==
  \/ Timer \/ BootCycle \/ LoopStarts \/ Pass
  \/ \E p \in PatternNames : ApprovePattern(p)
  \/ CommandCycle

CognitionSpec == CognitionInit /\ [][CognitionNext]_cognitionVars

----------------------------------------------------------------------------
CognitionTypeOK ==
  /\ clock \in 0 .. MaxTick /\ loopTick \in 0 .. MaxTick
  /\ boot \in 0 .. BootCycles + 1
  /\ engine.last \in Nat /\ Len(engine.log) <= LogBound + 1
  /\ \A i \in DOMAIN engine.log : engine.log[i] \in [tick : Nat, pattern : PatternNames]
  /\ engine.seen \in [PatternNames -> Nat] /\ engine.executed \in [PatternNames -> Nat]
  /\ engine.approved \subseteq PatternNames
  /\ toasts \subseteq Nat

(* Every action in the log is of an approved pattern that was seen often      *)
(* enough, and two of one pattern are a cooldown apart, whichever of the two  *)
(* clocks their cycles came with (CognitiveEngine::tick, can_execute).       *)
ActionsEarned ==
  \A i \in DOMAIN engine.log :
    LET entry == engine.log[i]
    IN /\ entry.pattern \in engine.approved
       /\ engine.seen[entry.pattern] >= EarnedAt
       /\ \A j \in i + 1 .. Len(engine.log) :
            engine.log[j].pattern = entry.pattern =>
              engine.log[j].tick >= entry.tick + Cooldown[entry.pattern]
=============================================================================
