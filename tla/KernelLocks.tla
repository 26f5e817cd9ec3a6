----------------------------- MODULE KernelLocks -----------------------------
(***************************************************************************)
(* Spinlocks and interrupts on the kernel's single core.                   *)
(*                                                                         *)
(* Module Scheduler takes each entry point of the kernel as one step.      *)
(* Here an entry point is the sequence of what it does to locks, to the    *)
(* interrupt flag and to the stack, and the timer and the keyboard can     *)
(* interrupt it between any two of them.  A handler runs on the stack of   *)
(* the task it interrupts, with interrupts disabled; it can switch to      *)
(* another task, and is then suspended in the middle as a task is.  With   *)
(* one core, a lock awaited with interrupts disabled must be free: whoever *)
(* holds it cannot execute until the wait is over.                         *)
(*                                                                         *)
(* What the code reads and writes is left out, and so are its branches: an *)
(* entry point does all the locking it can do.                             *)
(***************************************************************************)
EXTENDS Naturals, Sequences

CONSTANTS
  Tasks,      \* the tasks
  Entries,    \* the entry points that tasks call
  Handlers    \* the interrupt handlers that fire

-----------------------------------------------------------------------------
(***************************************************************************)
(* Instructions.                                                           *)
(***************************************************************************)
Locks == {"SCHEDULER", "TICK_COUNT", "PICS", "HEAP", "SERIAL1", "WRITER",
          "KEYBOARD", "CMD_BUFFER", "SANDBOX_MANAGER", "PROC_REGISTRY",
          "CONTAINERS"}

Lock(L)   == [op |-> "lock", on |-> L]
Unlock(L) == [op |-> "unlock", on |-> L]
Mask      == [op |-> "mask", on |-> "-"]
Unmask    == [op |-> "unmask", on |-> "-"]
Switch    == [op |-> "switch", on |-> "-"]

Held(L, body) == << Lock(L) >> \o body \o << Unlock(L) >>
Use(L) == << Lock(L), Unlock(L) >>
WithoutInterrupts(body) == << Mask >> \o body \o << Unmask >>

-----------------------------------------------------------------------------
(***************************************************************************)
(* The entry points.  Where interrupts are disabled already, a nested      *)
(* without_interrupts changes nothing and is left out.                     *)
(***************************************************************************)
\* schedule() appends to a VecDeque, which can grow; the lock is dropped before
\* the stack switch.
YieldNowCode ==
  WithoutInterrupts(Held("SCHEDULER", Use("HEAP")) \o << Switch >>)

SleepCode == WithoutInterrupts(Use("SCHEDULER"))

\* The mutant is what the note at spawn tells of: interrupts not disabled.
SpawnCodeUnmasked ==
  Held("SCHEDULER", Held("SANDBOX_MANAGER", Use("HEAP")) \o Use("HEAP")
                    \o Use("SERIAL1"))

\* The sandbox, the 64 KB stack and the log line, all under the scheduler lock.
SpawnCode ==
  WithoutInterrupts(
    Held("SCHEDULER", Held("SANDBOX_MANAGER", Use("HEAP")) \o Use("HEAP")
                      \o Use("SERIAL1")))

\* scheduler::kill, which logs under the lock.
SchedulerKillCode == WithoutInterrupts(Held("SCHEDULER", Use("SERIAL1")))

SerialPrintCode == WithoutInterrupts(Use("SERIAL1"))

\* virt::stop: the containers stay locked while their processes are killed.
ContainerStopCode == Held("CONTAINERS", SchedulerKillCode \o SerialPrintCode)

\* process::kill takes the scheduler lock directly.
ProcessKillCode ==
  SerialPrintCode \o Use("PROC_REGISTRY") \o Held("SCHEDULER", SerialPrintCode)
  \o SerialPrintCode

CurrentTickCode == Use("TICK_COUNT")

CheckPermissionCode == Held("SANDBOX_MANAGER", SerialPrintCode)

\* Any Box, Vec or String of a task.
AllocCode == Use("HEAP")

\* The mutant: preempt() keeps the scheduler lock across the stack switch.
TimerCodeLockKept ==
  Use("TICK_COUNT") \o Use("PICS")
  \o Held("SCHEDULER", Use("HEAP") \o << Switch >>)

\* timer_interrupt_handler.  Under the lock, wake_sleeping_processes collects
\* the ready processes in a Vec.
TimerCode ==
  Use("TICK_COUNT") \o Use("PICS")
  \o Held("SCHEDULER", Use("HEAP")) \o << Switch >>

\* keyboard_interrupt_handler, for a character that goes to the buffer.
KeyCode ==
  Held("KEYBOARD", Held("CMD_BUFFER", Use("HEAP") \o Use("WRITER")))
  \o Use("PICS")

\* The same for the enter key after "ct stop": the handler runs the command.
KeyCommandCode ==
  Held("KEYBOARD", Use("CMD_BUFFER")
                   \o Held("CONTAINERS", Held("SCHEDULER", Use("SERIAL1"))
                                         \o Use("SERIAL1")))
  \o Use("PICS")

Code ==
  [ yield_now        |-> YieldNowCode,
    sleep            |-> SleepCode,
    spawn            |-> SpawnCode,
    scheduler_kill   |-> SchedulerKillCode,
    serial_print     |-> SerialPrintCode,
    container_stop   |-> ContainerStopCode,
    process_kill     |-> ProcessKillCode,
    current_tick     |-> CurrentTickCode,
    check_permission |-> CheckPermissionCode,
    alloc            |-> AllocCode,
    timer            |-> TimerCode,
    key              |-> KeyCode,
    key_command      |-> KeyCommandCode ]

ASSUME KernelLocksAssumption ==
  Entries \subseteq DOMAIN Code /\ Handlers \subseteq DOMAIN Code

-----------------------------------------------------------------------------
(***************************************************************************)
(* The machine.  A task's stack has at most two frames: the entry point it *)
(* called and, on top, the handler that interrupted it.                    *)
(***************************************************************************)
Frame == Tasks \X {"task", "irq"}
NoFrame == << >>
NoCode == "none"

VARIABLES
  cpu,      \* the task whose stack the CPU is on
  code,     \* what each frame runs, or NoCode
  pc,       \* the instruction each frame is at
  masked,   \* interrupts disabled by the task itself (its RFLAGS.IF)
  holder    \* the frame that holds each lock, or NoFrame

vars == << cpu, code, pc, masked, holder >>

TypeOK ==
  /\ cpu \in Tasks
  /\ code \in [Frame -> Entries \cup Handlers \cup {NoCode}]
  /\ pc \in [Frame -> Nat \ {0}]
  /\ masked \in [Tasks -> BOOLEAN]
  /\ holder \in [Locks -> Frame \cup {NoFrame}]

Init ==
  /\ cpu \in Tasks
  /\ code = [f \in Frame |-> NoCode]
  /\ pc = [f \in Frame |-> 1]
  /\ masked = [t \in Tasks |-> FALSE]
  /\ holder = [L \in Locks |-> NoFrame]

Irq(t) == << t, "irq" >>
Own(t) == << t, "task" >>

\* The frame that executes.
Active == IF code[Irq(cpu)] # NoCode THEN Irq(cpu) ELSE Own(cpu)

InterruptsEnabled == code[Irq(cpu)] = NoCode /\ ~ masked[cpu]

\* Frame f is at instruction i.
At(f, i) ==
  code[f] # NoCode /\ pc[f] <= Len(Code[code[f]]) /\ Code[code[f]][pc[f]] = i

Advance == pc' = [pc EXCEPT ![Active] = @ + 1]

Call(e) ==
  /\ Active = Own(cpu) /\ code[Active] = NoCode
  /\ code' = [code EXCEPT ![Active] = e]
  /\ pc' = [pc EXCEPT ![Active] = 1]
  /\ UNCHANGED << cpu, masked, holder >>

Interrupt(h) ==
  /\ InterruptsEnabled
  /\ code' = [code EXCEPT ![Irq(cpu)] = h]
  /\ pc' = [pc EXCEPT ![Irq(cpu)] = 1]
  /\ UNCHANGED << cpu, masked, holder >>

\* The end of an entry point, or a handler's return to what it interrupted.
Return ==
  /\ code[Active] # NoCode /\ pc[Active] > Len(Code[code[Active]])
  /\ code' = [code EXCEPT ![Active] = NoCode]
  /\ UNCHANGED << cpu, pc, masked, holder >>

SetMask(op, on) ==
  /\ At(Active, op)
  /\ masked' = [masked EXCEPT ![cpu] = on]
  /\ Advance
  /\ UNCHANGED << cpu, code, holder >>

Disable == SetMask(Mask, TRUE)
Enable  == SetMask(Unmask, FALSE)

\* A lock that is held is waited for by spinning: no step.
Acquire(L) ==
  /\ At(Active, Lock(L)) /\ holder[L] = NoFrame
  /\ holder' = [holder EXCEPT ![L] = Active]
  /\ Advance
  /\ UNCHANGED << cpu, code, masked >>

Release(L) ==
  /\ At(Active, Unlock(L))
  /\ holder' = [holder EXCEPT ![L] = NoFrame]
  /\ Advance
  /\ UNCHANGED << cpu, code, masked >>

\* switch_context, to any task (which one is module Scheduler's subject), or none.
SwitchTo(t) ==
  /\ At(Active, Switch)
  /\ cpu' = t
  /\ Advance
  /\ UNCHANGED << code, masked, holder >>

Next ==
  \/ \E e \in Entries : Call(e)
  \/ \E h \in Handlers : Interrupt(h)
  \/ Return
  \/ Disable
  \/ Enable
  \/ \E L \in Locks : Acquire(L)
  \/ \E L \in Locks : Release(L)
  \/ \E t \in Tasks : SwitchTo(t)

Spec == Init /\ [][Next]_vars

-----------------------------------------------------------------------------
(***************************************************************************)
(* The discipline, a property of the code alone: a lock that is ever       *)
(* awaited with interrupts disabled is only held with interrupts disabled, *)
(* and not across a stack switch.                                          *)
(***************************************************************************)
\* Interrupts are disabled, or lock L is held, before instruction i of code c.
MaskedAt(c, i) ==
  \E j \in 1 .. i - 1 : /\ Code[c][j] = Mask
                        /\ \A k \in j + 1 .. i - 1 : Code[c][k] # Unmask

HeldAt(c, i, L) ==
  \E j \in 1 .. i - 1 : /\ Code[c][j] = Lock(L)
                        /\ \A k \in j + 1 .. i - 1 : Code[c][k] # Unlock(L)

\* The locks awaited with interrupts disabled.
MaskedLocks ==
  {L \in Locks :
     \/ \E h \in Handlers : \E i \in 1 .. Len(Code[h]) : Code[h][i] = Lock(L)
     \/ \E e \in Entries : \E i \in 1 .. Len(Code[e]) :
          Code[e][i] = Lock(L) /\ MaskedAt(e, i)}

\* Locks are taken and released in pairs, within one entry point or handler.
Paired ==
  \A c \in Entries \cup Handlers : \A L \in Locks :
    /\ \A i \in 1 .. Len(Code[c]) : Code[c][i] = Lock(L) => ~ HeldAt(c, i, L)
    /\ \A i \in 1 .. Len(Code[c]) : Code[c][i] = Unlock(L) => HeldAt(c, i, L)
    /\ ~ HeldAt(c, Len(Code[c]) + 1, L)

Disciplined ==
  /\ Paired
  /\ \A c \in Entries \cup Handlers :
       /\ \A i \in 1 .. Len(Code[c]) : Code[c][i] = Switch =>
            \A L \in MaskedLocks : ~ HeldAt(c, i, L)
       /\ ~ MaskedAt(c, Len(Code[c]) + 1)
  /\ \A e \in Entries : \A i \in 1 .. Len(Code[e]) : \A L \in MaskedLocks :
       HeldAt(e, i, L) => MaskedAt(e, i)
  /\ \A h \in Handlers : \A i \in 1 .. Len(Code[h]) : Code[h][i] \notin {Mask, Unmask}

-----------------------------------------------------------------------------
(***************************************************************************)
(* Properties.                                                             *)
(***************************************************************************)
\* No deadlock with interrupts disabled: a lock awaited where the timer cannot
\* take the CPU away is free ("um deadlock cujo ponto de paragem parecia
\* aleatorio", scheduler.rs:643-650).
NoMaskedSpin ==
  \A L \in Locks :
    At(Active, Lock(L)) /\ ~ InterruptsEnabled => holder[L] = NoFrame

\* Whoever is suspended, by a switch or by a handler on top of it, holds only
\* locks that are awaited with interrupts enabled.
SuspendedHoldsNone ==
  \A L \in MaskedLocks : holder[L] # NoFrame => holder[L] = Active
=============================================================================
