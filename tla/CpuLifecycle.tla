----------------------------- MODULE CpuLifecycle -----------------------------
(***************************************************************************)
(* What a scheduler promises of its processes' lives, read off ProcessState *)
(* (modules/scheduler.rs): a process is created once, gets the CPU from     *)
(* whoever has it, hands it back by being put among the ready ones, and     *)
(* ends for good, from the CPU.  At most one has the CPU.                   *)
(***************************************************************************)
CONSTANT Procs

VARIABLE life

Running == {p \in Procs : life[p] = "Running"}

Init == life = [p \in Procs |-> "None"]

\* A new process waits for the CPU, or is the code that executes already.
Create(p) ==
  /\ life[p] = "None"
  /\ \/ life' = [life EXCEPT ![p] = "New"]
     \/ life' = [life EXCEPT ![p] = "Ready"]
     \/ Running = {} /\ life' = [life EXCEPT ![p] = "Running"]

\* The CPU passes to p; the process that had it, if any, is ready again.
Dispatch(p) ==
  /\ life[p] \in {"New", "Ready"}
  /\ life' = [q \in Procs |-> CASE q = p -> "Running"
                                [] q \in Running /\ q # p -> "Ready"
                                [] OTHER -> life[q]]

End(p) ==
  /\ p \in Running
  /\ life' = [life EXCEPT ![p] = "Dead"]

Next == \E p \in Procs : Create(p) \/ Dispatch(p) \/ End(p)

Spec == Init /\ [][Next]_life
=============================================================================
