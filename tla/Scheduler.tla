------------------------------ MODULE Scheduler ------------------------------
(***************************************************************************)
(* The preemptive scheduler of the kernel (modules/scheduler.rs) with the  *)
(* timer interrupt that drives it (arch/interrupts.rs) and the stack       *)
(* switch it ends in (arch/context_switch.rs).                             *)
(*                                                                         *)
(* One core.  Every entry point holds the SCHEDULER lock with interrupts   *)
(* disabled, so each is one step; what interleaves is the timer, which     *)
(* fires between any two of them.  (What happens when an entry point       *)
(* forgets to disable interrupts is the subject of module KernelLocks.)    *)
(*                                                                         *)
(* The bookkeeping (current) and the machine (cpu: whose stack the CPU is  *)
(* on) are kept apart, as they are in the code: current_pid is a field     *)
(* that exit_process clears while the dead task goes on executing, and     *)
(* boot code executes before any process is current.                       *)
(*                                                                         *)
(* A sleeper's absolute wake_at_tick is kept as the number of ticks left.  *)
(***************************************************************************)
EXTENDS Naturals, Sequences, FiniteSets

CONSTANTS
  MaxPid,         \* bound: number of processes ever created (alloc_pid)
  MaxSleep,       \* bound: longest sleep, in ticks
  Quantum,        \* Priority::quantum, one value per priority
  SpawnPriority,  \* the priorities spawn is called with
  Waiters,        \* the processes that call sleep or block_current
  Killable        \* the processes kill is called on

Priority == 0 .. 4            \* Critical, High, Normal, Low, Idle
NormalPriority == 2
IdlePriority == 4

Pid == 1 .. MaxPid
IdlePid == 1                  \* created by Scheduler::init
MainPid == 2                  \* kernel_main, by register_current_as_task
NoPid == 0                    \* current_pid = None

ASSUME SchedulerAssumption ==
  /\ MaxPid \in Nat /\ MaxPid >= 2
  /\ MaxSleep \in Nat \ {0}
  /\ Quantum \in [Priority -> Nat \ {0}]
  /\ SpawnPriority \subseteq Priority
  /\ Waiters \subseteq Pid
  /\ Killable \subseteq Pid \ {IdlePid, MainPid}

VARIABLES
  boot,       \* how far kernel_main is: "early", "idle_only", "up"
  lastPid,    \* NEXT_PID - 1: the processes are 1 .. lastPid, in Vec order
  state,      \* PCB.state; "None" where there is no PCB yet
  prio,       \* PCB.priority
  quantum,    \* PCB.quantum_remaining
  wake,       \* Sleeping.wake_at_tick - tick
  queue,      \* ready_queues, one FIFO per priority
  current,    \* current_pid
  cpu,        \* whose stack the CPU is executing on
  resumable   \* PCB.context.kernel_rsp is a point the task can be resumed at

vars == << boot, lastPid, state, prio, quantum, wake, queue, current, cpu,
           resumable >>

States == {"None", "New", "Ready", "Running", "Blocked", "Sleeping", "Dead"}

TypeOK ==
  /\ boot \in {"early", "idle_only", "up"}
  /\ lastPid \in 0 .. MaxPid
  /\ state \in [Pid -> States]
  /\ prio \in [Pid -> Priority]
  /\ quantum \in [Pid -> Nat]
  /\ wake \in [Pid -> 0 .. MaxSleep]
  /\ queue \in [Priority -> Seq(Pid)]
  /\ current \in Pid \cup {NoPid}
  /\ cpu \in Pid
  /\ resumable \in [Pid -> BOOLEAN]
  /\ \A p \in Pid : quantum[p] <= Quantum[prio[p]]

(***************************************************************************)
(* The boot code runs on the stack that becomes kernel_main's.  Interrupts *)
(* are already enabled (main.rs:61) and there is no process.               *)
(***************************************************************************)
Init ==
  /\ boot = "early"
  /\ lastPid = 0
  /\ state = [p \in Pid |-> "None"]
  /\ prio = [p \in Pid |-> IdlePriority]
  /\ quantum = [p \in Pid |-> 0]
  /\ wake = [p \in Pid |-> 0]
  /\ queue = [c \in Priority |-> << >>]
  /\ current = NoPid
  /\ cpu = MainPid
  /\ resumable = [p \in Pid |-> FALSE]

-----------------------------------------------------------------------------
(***************************************************************************)
(* The ready queues.                                                       *)
(***************************************************************************)
Holds(s, p) == \E i \in 1 .. Len(s) : s[i] = p

Queued(q, p) == Holds(q[prio[p]], p)

\* Mutants: no check for a second entry; the entry goes to the head.
EnqueueAgain(q, p, c) == [q EXCEPT ![c] = Append(@, p)]
EnqueueFront(q, p, c) ==
  IF Holds(q[c], p) THEN q ELSE [q EXCEPT ![c] = << p >> \o @]

Enqueue(q, p, c) ==
  IF Holds(q[c], p) THEN q ELSE [q EXCEPT ![c] = Append(@, p)]

Empty(q) == \A c \in Priority : q[c] = << >>

\* Mutant: the least urgent queue that is not empty.
TopLast(q) ==
  CHOOSE c \in Priority : q[c] # << >> /\ \A d \in Priority : d > c => q[d] = << >>

\* The queue dequeue() takes from: the first of the five that is not empty.
Top(q) ==
  CHOOSE c \in Priority : q[c] # << >> /\ \A d \in Priority : d < c => q[d] = << >>

\* The members of S in pid order, which is their order in Scheduler.processes.
InPidOrder(S) ==
  [i \in 1 .. Cardinality(S) |->
     CHOOSE p \in S : Cardinality({r \in S : r <= p}) = i]

\* wake_sleeping_processes: every Ready process is put in its queue if it is
\* not there, whether it woke now or not.
RequeueRunning(st, q) ==   \* mutant: the executing process too
  [c \in Priority |->
     q[c] \o InPidOrder({p \in Pid : /\ st[p] \in {"Ready", "Running"}
                                     /\ prio[p] = c
                                     /\ ~ Holds(q[c], p)})]

Requeue(st, q) ==
  [c \in Priority |->
     q[c] \o InPidOrder({p \in Pid : /\ st[p] = "Ready"
                                     /\ prio[p] = c
                                     /\ ~ Holds(q[c], p)})]

-----------------------------------------------------------------------------
(***************************************************************************)
(* schedule(), and the stack switch that preempt() and yield_now() make    *)
(* when it picks another task.  With no current process the outgoing       *)
(* context goes to DUMMY_RSP, which nothing ever resumes.                  *)
(***************************************************************************)
\* The current process goes back to its queue only if it is still Running.
PreemptibleRunnable(s) == s \in {"Ready", "New"}   \* mutant: is_runnable()
Preemptible(s) == s = "Running"

KeepQuantum(qn, p) == qn   \* mutant: reset_quantum forgotten
ResetQuantum(qn, p) == [qn EXCEPT ![p] = Quantum[prio[p]]]

SwitchContextUnsaved(next) ==   \* mutant: the outgoing context is not saved
  resumable' = [p \in Pid |-> resumable[p] /\ p # next]

SwitchContext(next) ==
  resumable' = IF next = current
               THEN resumable
               ELSE [p \in Pid |-> (p = current \/ resumable[p]) /\ p # next]

Reschedule(st, qn, q) ==
  LET requeue == current # NoPid /\ Preemptible(st[current])
      st1 == IF requeue THEN [st EXCEPT ![current] = "Ready"] ELSE st
      q1  == IF requeue THEN Enqueue(q, current, prio[current]) ELSE q
      next == Head(q1[Top(q1)])
  IN  /\ quantum' = IF requeue THEN ResetQuantum(qn, current) ELSE qn
      /\ \/ /\ Empty(q1)
            /\ state' = st1
            /\ queue' = q1
            /\ UNCHANGED << current, cpu, resumable >>
         \/ /\ ~ Empty(q1)
            /\ state' = [st1 EXCEPT ![next] = "Running"]
            /\ queue' = [q1 EXCEPT ![Top(q1)] = Tail(@)]
            /\ current' = next
            /\ cpu' = next
            /\ SwitchContext(next)

\* tick(): sleepers wake, the current quantum shrinks.
Woken(p) == state[p] = "Sleeping" /\ wake[p] <= 1

AfterWakeButLast ==   \* mutant: the loop stops one process short
  [p \in Pid |-> IF Woken(p) /\ p # lastPid THEN "Ready" ELSE state[p]]

AfterWake == [p \in Pid |-> IF Woken(p) THEN "Ready" ELSE state[p]]

AfterTickUnchecked ==   \* mutant: the quantum is not checked before it shrinks
  IF current = NoPid THEN quantum ELSE [quantum EXCEPT ![current] = @ - 1]

AfterTick ==
  IF current = NoPid
  THEN quantum
  ELSE [quantum EXCEPT ![current] = IF @ > 0 THEN @ - 1 ELSE 0]

\* The timer interrupt: preempt().
Preempt ==
  LET st == AfterWake
      qn == AfterTick
      q  == Requeue(st, queue)
      expired == current # NoPid => qn[current] = 0
  IN  /\ wake' = [p \in Pid |-> IF wake[p] > 0 THEN wake[p] - 1 ELSE 0]
      /\ \/ expired /\ Reschedule(st, qn, q)
         \/ /\ ~ expired
            /\ state' = st
            /\ quantum' = qn
            /\ queue' = q
            /\ UNCHANGED << current, cpu, resumable >>
      /\ UNCHANGED << boot, lastPid, prio >>

\* The executing task gives the CPU up: yield_now().  A task that has exited
\* still executes, and its trampoline calls yield_now in a loop.
YieldNow ==
  /\ boot = "up" /\ cpu # IdlePid
  /\ Reschedule(state, quantum, queue)
  /\ UNCHANGED << boot, lastPid, prio, wake >>

-----------------------------------------------------------------------------
(***************************************************************************)
(* Creation.                                                               *)
(***************************************************************************)
\* Scheduler::init: the idle process, queued but still New.
SchedulerInit ==
  /\ boot = "early" /\ cpu = MainPid
  /\ boot' = "idle_only"
  /\ lastPid' = IdlePid
  /\ state' = [state EXCEPT ![IdlePid] = "New"]
  /\ prio' = [prio EXCEPT ![IdlePid] = IdlePriority]
  /\ quantum' = [quantum EXCEPT ![IdlePid] = Quantum[IdlePriority]]
  /\ queue' = Enqueue(queue, IdlePid, IdlePriority)
  /\ resumable' = [resumable EXCEPT ![IdlePid] = TRUE]
  /\ UNCHANGED << wake, current, cpu >>

\* register_current_as_task: the boot code becomes process kernel_main.  Its
\* kernel_rsp is 0 until it is switched out for the first time.
RegisterCurrentAsTask ==
  /\ boot = "idle_only" /\ cpu = MainPid
  /\ boot' = "up"
  /\ lastPid' = MainPid
  /\ state' = [state EXCEPT ![MainPid] = "Running"]
  /\ prio' = [prio EXCEPT ![MainPid] = NormalPriority]
  /\ quantum' = [quantum EXCEPT ![MainPid] = Quantum[NormalPriority]]
  /\ current' = MainPid
  /\ UNCHANGED << wake, queue, cpu, resumable >>

\* spawn(): called by tasks, and by shell commands in the keyboard interrupt.
Spawn(c) ==
  /\ boot = "up" /\ lastPid < MaxPid
  /\ LET p == lastPid + 1
     IN  /\ lastPid' = p
         /\ state' = [state EXCEPT ![p] = "Ready"]
         /\ prio' = [prio EXCEPT ![p] = c]
         /\ quantum' = [quantum EXCEPT ![p] = Quantum[c]]
         /\ queue' = Enqueue(queue, p, c)
         /\ resumable' = [resumable EXCEPT ![p] = TRUE]
  /\ UNCHANGED << boot, wake, current, cpu >>

-----------------------------------------------------------------------------
(***************************************************************************)
(* Waiting and ending.  sleep and block_current change the state of the    *)
(* current process and return: it goes on executing until it is preempted. *)
(***************************************************************************)
Executing(p) == current = p /\ cpu = p

Sleep(n) ==
  /\ Executing(cpu) /\ cpu \in Waiters
  /\ state' = [state EXCEPT ![current] = "Sleeping"]
  /\ wake' = [wake EXCEPT ![current] = n]
  /\ UNCHANGED << boot, lastPid, prio, quantum, queue, current, cpu, resumable >>

BlockCurrent ==
  /\ Executing(cpu) /\ cpu \in Waiters
  /\ state' = [state EXCEPT ![current] = "Blocked"]
  /\ UNCHANGED << boot, lastPid, prio, quantum, wake, queue, current, cpu,
                  resumable >>

UnblockUnqueued(p) ==   \* mutant: the process is made Ready and not queued
  /\ state[p] = "Blocked"
  /\ state' = [state EXCEPT ![p] = "Ready"]
  /\ UNCHANGED << boot, lastPid, prio, quantum, wake, queue, current, cpu,
                  resumable >>

Unblock(p) ==
  /\ state[p] = "Blocked"
  /\ state' = [state EXCEPT ![p] = "Ready"]
  /\ queue' = Enqueue(queue, p, prio[p])
  /\ UNCHANGED << boot, lastPid, prio, quantum, wake, current, cpu, resumable >>

\* exit_process: the PCB stays, and so does the process's place in a queue.
ExitProcess(p) ==
  /\ state' = [state EXCEPT ![p] = "Dead"]
  /\ current' = IF current = p THEN NoPid ELSE current
  /\ UNCHANGED << boot, lastPid, prio, quantum, wake, queue, cpu, resumable >>

\* exit_current: sys_exit, or the task's function returned.  kernel_main and
\* the idle task loop for ever.
ExitCurrent ==
  /\ Executing(cpu) /\ cpu \notin {IdlePid, MainPid}
  /\ ExitProcess(current)

\* kill: from a shell command (interrupt), Container::stop or the threat engine.
Kill(p) ==
  /\ p <= lastPid
  /\ ExitProcess(p)

Next ==
  \/ SchedulerInit
  \/ RegisterCurrentAsTask
  \/ Preempt
  \/ YieldNow
  \/ \E c \in SpawnPriority : Spawn(c)
  \/ \E n \in 1 .. MaxSleep : Sleep(n)
  \/ BlockCurrent
  \/ \E p \in Pid : Unblock(p)
  \/ ExitCurrent
  \/ \E p \in Killable : Kill(p)

Spec == Init /\ [][Next]_vars

\* The timer keeps firing, and the boot code executes while it has the CPU.
FairSpec ==
  Spec /\ WF_vars(Preempt) /\ WF_vars(SchedulerInit \/ RegisterCurrentAsTask)

-----------------------------------------------------------------------------
(***************************************************************************)
(* Safety, whatever the tasks do.                                          *)
(***************************************************************************)
\* No ready task is lost: a process in state Ready is in the queue of its
\* priority, through every path that makes it Ready (spawn, preemption, wake-up,
\* unblock), also when it becomes Ready while it still has the CPU.
ReadyIsQueued == \A p \in Pid : state[p] = "Ready" => Queued(queue, p)

\* The bookkeeping agrees with the machine: what is Running is the current
\* process, the current process is the one on the CPU, and when there is none the
\* CPU executes a task that has exited (or the boot code).
CpuOwner ==
  /\ \A p \in Pid : state[p] = "Running" => current = p
  /\ current # NoPid => cpu = current
  /\ current = NoPid => state[cpu] \in {"Dead", "None"}

\* A process is in no queue but its own priority's and there at most once, so
\* that the queues never hold more entries than there are processes.
QueuesSound ==
  \A c \in Priority : \A i, j \in 1 .. Len(queue[c]) :
    /\ state[queue[c][i]] # "None"
    /\ prio[queue[c][i]] = c
    /\ queue[c][i] = queue[c][j] => i = j

\* A process that can still run and is not on the CPU has a saved context to
\* resume: no path switches away from a live task without saving it.
LiveContextSaved ==
  \A p \in Pid :
    state[p] \notin {"None", "Dead"} /\ p # cpu => resumable[p]

\* Strict priority: the process given the CPU has no more urgent one left Ready.
StrictPriority ==
  [][ /\ current' # current /\ current' # NoPid
      => \A p \in Pid : state'[p] = "Ready" => prio'[p] >= prio'[current'] ]_vars

\* Processes wait in turn: one in a queue keeps its place or moves up by one, and
\* the first leaves it only to be given the CPU, whatever is woken, unblocked,
\* killed or preempted meanwhile.
Turn ==
  \A c \in Priority : \A i \in 1 .. Len(queue[c]) :
    LET p == queue[c][i]
    IN  \/ i <= Len(queue'[c]) /\ queue'[c][i] = p
        \/ i > 1 /\ i - 1 <= Len(queue'[c]) /\ queue'[c][i - 1] = p
        \/ i = 1 /\ current' = p

InTurn == [][Turn]_vars

\* Who waits is given the CPU in the order of the queues and of their entries.
DispatchOrder == StrictPriority /\ InTurn

\* A sleeper stops sleeping even if it is never killed and calls sleep again.
SleepersWake ==
  \A p \in Pid : state[p] = "Sleeping" ~> state[p] # "Sleeping"

-----------------------------------------------------------------------------
(***************************************************************************)
(* What holds only while no process waits without yielding and none is     *)
(* killed (Waiters = Killable = {}).                                       *)
(***************************************************************************)
\* The queues hold exactly processes that may be dispatched, never one that is
\* executing or has ended.
OnlyRunnableQueued ==
  \A p \in Pid : Queued(queue, p) =>
    state[p] \in {"Ready", "New"} /\ p # cpu

\* A process is dispatched with the whole quantum of its priority.
FullQuantum ==
  [][ current' # current /\ current' # NoPid
      => quantum'[current'] = Quantum[prio'[current']] ]_vars

\* The CPU never switches to a stack that is not suspended (a stack that is in
\* use, or one abandoned by a task that exited).
NoStaleResume ==
  [][ current' # current /\ current' # NoPid /\ boot' = boot
      => resumable[current'] ]_vars

\* Whoever is given the CPU goes on where it stopped and has a quantum to spend.
DispatchSound == FullQuantum /\ NoStaleResume

\* Round-robin: while every task has the same priority none waits for ever.
RoundRobin ==
  \A p \in Pid :
    state[p] = "Ready" /\ prio[p] = NormalPriority ~> state[p] # "Ready"

\* The life of a process, as the comments of ProcessState describe it.
Lifecycle == INSTANCE CpuLifecycle WITH life <- state, Procs <- Pid

ImplementsLifecycle == Lifecycle!Spec

-----------------------------------------------------------------------------
(***************************************************************************)
(* What comments say and the code does not do.                             *)
(***************************************************************************)
\* A process that ended does not come back: "Execucao concluida, aguardando
\* coleta" (ProcessState::Dead, scheduler.rs:70).
DeadIsFinal ==
  [][\A p \in Pid : state[p] = "Dead" => state'[p] = "Dead"]_vars

\* The boot code becomes kernel_main: register_current_as_task guarantees that
\* there is always a current task to save ("garante sempre uma tarefa actual",
\* scheduler.rs:667-669).
BootCompletes == <>(boot = "up")
=============================================================================
