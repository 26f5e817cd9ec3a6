----------------------------- MODULE MCScheduler -----------------------------
(***************************************************************************)
(* Small instances of Scheduler for TLC: idle, kernel_main and one or two  *)
(* more processes, quanta of one to four ticks instead of 2, 5, 10, 20 and *)
(* 2^32 - 1.                                                               *)
(***************************************************************************)
EXTENDS Scheduler

MCQuantum == [c \in Priority |-> CASE c = 1 -> 1 [] c = 4 -> 3 [] OTHER -> 2]

MCHighOnly == {1}
MCNormalOnly == {NormalPriority}

MCWorkers == Pid \ {IdlePid, MainPid}
MCNone == {}
MCFirst == {MainPid + 1}
=============================================================================
