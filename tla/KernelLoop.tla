------------------------------ MODULE KernelLoop ------------------------------
(***************************************************************************)
(* kernel_loop (main.rs), the body of process kernel_main, on the machine  *)
(* of module Scheduler.  An iteration reads the tick the timer counts and  *)
(* does the periodic work whose period divides it; then it halts until an  *)
(* interrupt.  What happens to a multiple that passes while another task   *)
(* has the CPU is the question of this module.                             *)
(*                                                                         *)
(* The work itself is in the modules of its subsystems (Edge, Peers, Nic,  *)
(* Gossip); here it is a name.  An iteration is over before the next tick, *)
(* the case in which the loop misses the fewest.                           *)
(***************************************************************************)
EXTENDS Scheduler

Work == {"background", "shell", "poll"}

\* discovery, gossip, ia and edge; the user's shell; the network card.
Period == [background |-> 1000, shell |-> 16, poll |-> 20]

\* Bound: the tick is kept modulo the least common multiple of the periods.
TickCycle == 2000

VARIABLES
  tick,        \* arch::interrupts::TICK_COUNT
  lastBgTick,  \* last_bg_tick
  served       \* the work of the last iteration that saw a new tick

loopVars == << tick, lastBgTick, served >>

LoopInit == Init /\ tick = 0 /\ lastBgTick = 0 /\ served = {}

\* kernel_main has the CPU and a tick to look at.
Awake == boot = "up" /\ cpu = MainPid /\ tick # lastBgTick

\* One iteration: the sampled tick is all that decides.
Iterate ==
  /\ Awake
  /\ lastBgTick' = tick
  /\ served' = {w \in Work : tick % Period[w] = 0}
  /\ UNCHANGED << vars, tick >>

\* timer_interrupt_handler: the tick is counted, then the tasks are preempted.
Timer ==
  /\ ~ Awake
  /\ tick' = (tick + 1) % TickCycle
  /\ Preempt
  /\ UNCHANGED << lastBgTick, served >>

\* What the boot code, the commands and the other tasks do: kernel_main itself
\* neither yields nor ends.
Others ==
  /\ \/ SchedulerInit \/ RegisterCurrentAsTask
     \/ \E c \in SpawnPriority : Spawn(c)
     \/ cpu # MainPid /\ (YieldNow \/ ExitCurrent)
  /\ UNCHANGED loopVars

LoopNext == Iterate \/ Timer \/ Others

\* The timer keeps firing, and the boot code and the loop execute while they have
\* the CPU.
LoopSpec ==
  /\ LoopInit /\ [][LoopNext]_<< vars, loopVars >>
  /\ WF_<< vars, loopVars >>(Timer)
  /\ WF_<< vars, loopVars >>(Iterate)
  /\ WF_<< vars, loopVars >>((SchedulerInit \/ RegisterCurrentAsTask) /\ UNCHANGED loopVars)

\* Whatever else runs, the periodic work is done again and again: the loop takes
\* the tick of the hardware "para manter a mesma cadência de antes" (to keep the
\* cadence it had in the timer handler, main.rs:260-262).
CadenceKept == \A w \in Work : boot = "up" ~> w \in served
=============================================================================
