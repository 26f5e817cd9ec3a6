-------------------------- MODULE KernelLocksProofs --------------------------
(***************************************************************************)
(* Proof that the interrupt discipline is enough: for any tasks, and any   *)
(* entry points and handlers of KernelLocks that keep it, no lock is       *)
(* awaited with interrupts disabled while another frame holds it.          *)
(***************************************************************************)
EXTENDS KernelLocks, TLAPS

-----------------------------------------------------------------------------
(***************************************************************************)
(* What one instruction does to the locks held and to the mask.            *)
(***************************************************************************)
LEMMA InstructionsDiffer ==
  \A L, M :
    /\ Lock(L) = Lock(M) <=> L = M
    /\ Unlock(L) = Unlock(M) <=> L = M
    /\ Lock(L) # Unlock(M)
    /\ Lock(L) \notin {Mask, Unmask, Switch}
    /\ Unlock(L) \notin {Mask, Unmask, Switch}
    /\ Mask # Unmask /\ Mask # Switch /\ Unmask # Switch
BY DEF Lock, Unlock, Mask, Unmask, Switch

LEMMA MaskedStep ==
  ASSUME NEW c, NEW i \in Nat \ {0}
  PROVE  /\ ~ MaskedAt(c, 1)
         /\ MaskedAt(c, i + 1) <=>
              Code[c][i] = Mask \/ (MaskedAt(c, i) /\ Code[c][i] # Unmask)
<1>1. ~ MaskedAt(c, 1)
  BY DEF MaskedAt
<1>2. ASSUME Code[c][i] = Mask
      PROVE  MaskedAt(c, i + 1)
  BY <1>2 DEF MaskedAt
<1>3. ASSUME MaskedAt(c, i), Code[c][i] # Unmask
      PROVE  MaskedAt(c, i + 1)
  <2>1. PICK j \in 1 .. i - 1 : /\ Code[c][j] = Mask
                                /\ \A k \in j + 1 .. i - 1 : Code[c][k] # Unmask
    BY <1>3 DEF MaskedAt
  <2>2. \A k \in j + 1 .. (i + 1) - 1 : k = i \/ k \in j + 1 .. i - 1
    OBVIOUS
  <2>3. \A k \in j + 1 .. (i + 1) - 1 : Code[c][k] # Unmask
    BY <1>3, <2>1, <2>2
  <2>4. j \in 1 .. (i + 1) - 1
    OBVIOUS
  <2> QED
    BY <2>1, <2>3, <2>4 DEF MaskedAt
<1>4. ASSUME MaskedAt(c, i + 1), Code[c][i] # Mask
      PROVE  MaskedAt(c, i) /\ Code[c][i] # Unmask
  <2>1. PICK j \in 1 .. (i + 1) - 1 :
          /\ Code[c][j] = Mask
          /\ \A k \in j + 1 .. (i + 1) - 1 : Code[c][k] # Unmask
    BY <1>4 DEF MaskedAt
  <2>2. j # i
    BY <1>4, <2>1
  <2>3. j \in 1 .. i - 1 /\ i \in j + 1 .. (i + 1) - 1
        /\ \A k \in j + 1 .. i - 1 : k \in j + 1 .. (i + 1) - 1
    BY <2>2
  <2> QED
    BY <2>1, <2>3 DEF MaskedAt
<1> QED
  BY <1>1, <1>2, <1>3, <1>4

LEMMA HeldStep ==
  ASSUME NEW c, NEW i \in Nat \ {0}, NEW L
  PROVE  /\ ~ HeldAt(c, 1, L)
         /\ HeldAt(c, i + 1, L) <=>
              Code[c][i] = Lock(L) \/ (HeldAt(c, i, L) /\ Code[c][i] # Unlock(L))
<1>1. ~ HeldAt(c, 1, L)
  BY DEF HeldAt
<1>2. ASSUME Code[c][i] = Lock(L)
      PROVE  HeldAt(c, i + 1, L)
  BY <1>2 DEF HeldAt
<1>3. ASSUME HeldAt(c, i, L), Code[c][i] # Unlock(L)
      PROVE  HeldAt(c, i + 1, L)
  <2>1. PICK j \in 1 .. i - 1 : /\ Code[c][j] = Lock(L)
                                /\ \A k \in j + 1 .. i - 1 : Code[c][k] # Unlock(L)
    BY <1>3 DEF HeldAt
  <2>2. \A k \in j + 1 .. (i + 1) - 1 : k = i \/ k \in j + 1 .. i - 1
    OBVIOUS
  <2>3. \A k \in j + 1 .. (i + 1) - 1 : Code[c][k] # Unlock(L)
    BY <1>3, <2>1, <2>2
  <2>4. j \in 1 .. (i + 1) - 1
    OBVIOUS
  <2> QED
    BY <2>1, <2>3, <2>4 DEF HeldAt
<1>4. ASSUME HeldAt(c, i + 1, L), Code[c][i] # Lock(L)
      PROVE  HeldAt(c, i, L) /\ Code[c][i] # Unlock(L)
  <2>1. PICK j \in 1 .. (i + 1) - 1 :
          /\ Code[c][j] = Lock(L)
          /\ \A k \in j + 1 .. (i + 1) - 1 : Code[c][k] # Unlock(L)
    BY <1>4 DEF HeldAt
  <2>2. j # i
    BY <1>4, <2>1
  <2>3. j \in 1 .. i - 1 /\ i \in j + 1 .. (i + 1) - 1
        /\ \A k \in j + 1 .. i - 1 : k \in j + 1 .. (i + 1) - 1
    BY <2>2
  <2> QED
    BY <2>1, <2>3 DEF HeldAt
<1> QED
  BY <1>1, <1>2, <1>3, <1>4

LEMMA NoCodeIsNone == NoCode \notin Entries /\ NoCode \notin Handlers
BY KernelLocksAssumption DEF Code, NoCode

Instruction ==
  [op : {"lock", "unlock", "mask", "unmask", "switch"}, on : Locks \cup {"-"}]

LEMMA BodiesAreSequences ==
  /\ \A L \in Locks : Use(L) \in Seq(Instruction)
  /\ \A L \in Locks : \A b \in Seq(Instruction) : Held(L, b) \in Seq(Instruction)
  /\ \A b \in Seq(Instruction) : WithoutInterrupts(b) \in Seq(Instruction)
  /\ \A a, b \in Seq(Instruction) : a \o b \in Seq(Instruction)
  /\ << Switch >> \in Seq(Instruction)
<1>1. /\ \A L \in Locks : Lock(L) \in Instruction /\ Unlock(L) \in Instruction
      /\ Mask \in Instruction /\ Unmask \in Instruction /\ Switch \in Instruction
  BY DEF Lock, Unlock, Mask, Unmask, Switch, Instruction
<1>2. \A a, b \in Seq(Instruction) : a \o b \in Seq(Instruction)
  OBVIOUS
<1>3. \A i \in Instruction : << i >> \in Seq(Instruction)
  OBVIOUS
<1>4. \A i, j \in Instruction : << i, j >> \in Seq(Instruction)
  OBVIOUS
<1> QED
  BY <1>1, <1>2, <1>3, <1>4 DEF Use, Held, WithoutInterrupts

LEMMA CodeLengths == \A c \in Entries \cup Handlers : Len(Code[c]) \in Nat
<1>1. \A L \in {"SCHEDULER", "TICK_COUNT", "PICS", "HEAP", "SERIAL1", "WRITER",
                "KEYBOARD", "CMD_BUFFER", "SANDBOX_MANAGER", "PROC_REGISTRY",
                "CONTAINERS"} : L \in Locks
  BY DEF Locks
<1> USE <1>1, BodiesAreSequences
<1>2. YieldNowCode \in Seq(Instruction)
  BY DEF YieldNowCode
<1>3. SleepCode \in Seq(Instruction) /\ AllocCode \in Seq(Instruction)
      /\ CurrentTickCode \in Seq(Instruction)
  BY DEF SleepCode, AllocCode, CurrentTickCode
<1>4. SpawnCode \in Seq(Instruction)
  BY DEF SpawnCode
<1>5. SchedulerKillCode \in Seq(Instruction) /\ SerialPrintCode \in Seq(Instruction)
  BY DEF SchedulerKillCode, SerialPrintCode
<1>6. ContainerStopCode \in Seq(Instruction) /\ CheckPermissionCode \in Seq(Instruction)
  BY <1>5 DEF ContainerStopCode, CheckPermissionCode
<1>7. ProcessKillCode \in Seq(Instruction)
  BY <1>5 DEF ProcessKillCode
<1>8. TimerCode \in Seq(Instruction)
  BY DEF TimerCode
<1>9. KeyCode \in Seq(Instruction)
  BY DEF KeyCode
<1>10. KeyCommandCode \in Seq(Instruction)
  BY DEF KeyCommandCode
<1> HIDE <1>1, BodiesAreSequences
<1>11. \A c \in DOMAIN Code : Code[c] \in Seq(Instruction)
  <2>1. DOMAIN Code = {"yield_now", "sleep", "spawn", "scheduler_kill", "serial_print",
                      "container_stop", "process_kill", "current_tick", "check_permission",
                      "alloc", "timer", "key", "key_command"}
    BY DEF Code
  <2>2. /\ Code["yield_now"] = YieldNowCode
        /\ Code["sleep"] = SleepCode
        /\ Code["spawn"] = SpawnCode
        /\ Code["scheduler_kill"] = SchedulerKillCode
        /\ Code["serial_print"] = SerialPrintCode
        /\ Code["container_stop"] = ContainerStopCode
        /\ Code["process_kill"] = ProcessKillCode
        /\ Code["current_tick"] = CurrentTickCode
        /\ Code["check_permission"] = CheckPermissionCode
        /\ Code["alloc"] = AllocCode
        /\ Code["timer"] = TimerCode
        /\ Code["key"] = KeyCode
        /\ Code["key_command"] = KeyCommandCode
    BY DEF Code
  <2> QED
    BY <2>1, <2>2, <1>2, <1>3, <1>4, <1>5, <1>6, <1>7, <1>8, <1>9, <1>10
<1> QED
  BY <1>11, KernelLocksAssumption

LEMMA FrameFacts ==
  /\ \A t \in Tasks : Own(t) \in Frame /\ Irq(t) \in Frame /\ Own(t) # Irq(t)
  /\ \A t, u \in Tasks : Own(t) # Irq(u) /\ (Own(t) = Own(u) => t = u)
                         /\ (Irq(t) = Irq(u) => t = u)
  /\ \A f \in Frame : \E t \in Tasks : f = Own(t) \/ f = Irq(t)
  /\ NoFrame \notin Frame
BY DEF Frame, Own, Irq, NoFrame

-----------------------------------------------------------------------------
(***************************************************************************)
(* The invariant: mask and holders are what the code before each frame's   *)
(* instruction makes them, and a task that is not on the CPU is just       *)
(* behind a stack switch.                                                  *)
(***************************************************************************)
Positions ==
  /\ \A t \in Tasks : code[Own(t)] \in Entries \cup {NoCode}
                      /\ code[Irq(t)] \in Handlers \cup {NoCode}
  /\ \A f \in Frame : code[f] # NoCode => pc[f] <= Len(Code[code[f]]) + 1

Masks ==
  \A t \in Tasks :
    masked[t] <=> code[Own(t)] # NoCode /\ MaskedAt(code[Own(t)], pc[Own(t)])

Holders ==
  \A L \in Locks : \A f \in Frame :
    holder[L] = f <=> code[f] # NoCode /\ HeldAt(code[f], pc[f], L)

Interrupted == \A t \in Tasks : code[Irq(t)] # NoCode => ~ masked[t]

AfterSwitch(f) ==
  \E i \in Nat \ {0} : pc[f] = i + 1 /\ i <= Len(Code[code[f]])
                       /\ Code[code[f]][i] = Switch

Suspended ==
  \A t \in Tasks : t # cpu =>
    /\ code[Irq(t)] # NoCode => AfterSwitch(Irq(t))
    /\ code[Irq(t)] = NoCode /\ code[Own(t)] # NoCode => AfterSwitch(Own(t))

IInv ==
  TypeOK /\ Positions /\ Masks /\ Holders /\ Interrupted /\ Suspended

LEMMA ActiveFacts ==
  ASSUME TypeOK
  PROVE  /\ Active \in Frame
         /\ code[Irq(cpu)] = NoCode => Active = Own(cpu)
         /\ code[Irq(cpu)] # NoCode => Active = Irq(cpu)
BY FrameFacts DEF TypeOK, Active

LEMMA InitIInv == Init => IInv
<1> SUFFICES ASSUME Init PROVE IInv
  OBVIOUS
<1>1. /\ \A f \in Frame : code[f] = NoCode /\ pc[f] = 1
      /\ \A t \in Tasks : masked[t] = FALSE
      /\ \A L \in Locks : holder[L] = NoFrame
  BY DEF Init
<1>2. TypeOK
  <2>1. cpu \in Tasks /\ code \in [Frame -> Entries \cup Handlers \cup {NoCode}]
    BY DEF Init
  <2>2. pc \in [Frame -> Nat \ {0}] /\ holder \in [Locks -> Frame \cup {NoFrame}]
    BY DEF Init
  <2>3. masked \in [Tasks -> BOOLEAN]
    BY DEF Init
  <2> QED
    BY <2>1, <2>2, <2>3 DEF TypeOK
<1>3. Positions /\ Masks /\ Interrupted /\ Suspended
  BY <1>1, FrameFacts DEF Positions, Masks, Interrupted, Suspended
<1>4. Holders
  BY <1>1, FrameFacts DEF Holders
<1> QED
  BY <1>2, <1>3, <1>4 DEF IInv

\* An instruction of the frame that executes, as the static facts see it.
LEMMA InstructionOK ==
  ASSUME IInv, NEW op, At(Active, op), Advance, code' = code
  PROVE  /\ pc' \in [Frame -> Nat \ {0}]
         /\ Positions'
         /\ \A f \in Frame : f # Active => pc'[f] = pc[f]
         /\ pc'[Active] = pc[Active] + 1
         /\ MaskedAt(code[Active], pc'[Active]) <=>
              op = Mask \/ (MaskedAt(code[Active], pc[Active]) /\ op # Unmask)
         /\ \A L : HeldAt(code[Active], pc'[Active], L) <=>
              op = Lock(L) \/ (HeldAt(code[Active], pc[Active], L) /\ op # Unlock(L))
<1>1. TypeOK /\ Positions
  BY DEF IInv
<1>2. Active \in Frame /\ pc \in [Frame -> Nat \ {0}]
  BY <1>1, ActiveFacts DEF TypeOK
<1>3. /\ code[Active] # NoCode /\ pc[Active] <= Len(Code[code[Active]])
      /\ Code[code[Active]][pc[Active]] = op
  BY DEF At
<1>4. /\ pc' \in [Frame -> Nat \ {0}]
      /\ pc'[Active] = pc[Active] + 1
      /\ \A f \in Frame : f # Active => pc'[f] = pc[f]
  BY <1>2 DEF Advance
<1>5. Positions'
  <2>1. ASSUME NEW f \in Frame, code[f] # NoCode
        PROVE  pc'[f] <= Len(Code[code[f]]) + 1
    <3>1. CASE f = Active
      <4>1. Len(Code[code[Active]]) \in Nat
        BY <1>1, <1>2, <1>3, CodeLengths, FrameFacts DEF Positions
      <4> QED
        BY <1>2, <1>3, <1>4, <3>1, <4>1
    <3>2. CASE f # Active
      BY <1>1, <1>4, <2>1, <3>2 DEF Positions
    <3> QED
      BY <3>1, <3>2
  <2> QED
    BY <1>1, <2>1 DEF Positions
<1>6. pc[Active] \in Nat \ {0}
  BY <1>2
<1> DEFINE c == code[Active]
           i == pc[Active]
<1>7. MaskedAt(c, i + 1) <=> op = Mask \/ (MaskedAt(c, i) /\ op # Unmask)
  BY <1>3, <1>6, MaskedStep
<1>8. \A L : HeldAt(c, i + 1, L) <=> op = Lock(L) \/ (HeldAt(c, i, L) /\ op # Unlock(L))
  BY <1>3, <1>6, HeldStep
<1> QED
  BY <1>4, <1>5, <1>7, <1>8

\* Locks and unlocks leave the masks alone, and other instructions the holders.
LEMMA MasksOK ==
  ASSUME IInv, NEW op, At(Active, op), Advance, code' = code,
         op \notin {Mask, Unmask}, masked' = masked
  PROVE  Masks'
<1>1. TypeOK /\ Masks
  BY DEF IInv
<1>2. \A t \in Tasks : MaskedAt(code[Own(t)], pc'[Own(t)]) <=>
                       MaskedAt(code[Own(t)], pc[Own(t)])
  BY FrameFacts, InstructionOK
<1> QED
  BY <1>1, <1>2 DEF Masks

LEMMA HoldersOK ==
  ASSUME IInv, NEW op, At(Active, op), Advance, code' = code,
         \A L : op # Lock(L) /\ op # Unlock(L), holder' = holder
  PROVE  Holders'
<1>1. TypeOK /\ Holders
  BY DEF IInv
<1>2. \A L \in Locks : \A f \in Frame :
        HeldAt(code[f], pc'[f], L) <=> HeldAt(code[f], pc[f], L)
  BY InstructionOK
<1> QED
  BY <1>1, <1>2 DEF Holders

\* Who is suspended stays so while the CPU stays with its task.
LEMMA SuspendedOK ==
  ASSUME IInv, cpu' = cpu,
         \A t \in Tasks : t # cpu =>
           /\ code'[Own(t)] = code[Own(t)] /\ code'[Irq(t)] = code[Irq(t)]
           /\ pc'[Own(t)] = pc[Own(t)] /\ pc'[Irq(t)] = pc[Irq(t)]
  PROVE  Suspended'
BY DEF IInv, Suspended, AfterSwitch

-----------------------------------------------------------------------------
(***************************************************************************)
(* Every step keeps the invariant.                                         *)
(***************************************************************************)
\* A frame starts: nothing is held and nothing masked before its first
\* instruction.
LEMMA StartOK ==
  ASSUME IInv,
         NEW f \in Frame, code[f] = NoCode, f = Own(cpu) \/ f = Irq(cpu),
         NEW c \in Entries \cup Handlers,
         f = Own(cpu) => c \in Entries,
         f = Irq(cpu) => c \in Handlers /\ ~ masked[cpu],
         code' = [code EXCEPT ![f] = c],
         pc' = [pc EXCEPT ![f] = 1],
         UNCHANGED << cpu, masked, holder >>
  PROVE  IInv'
<1>1. TypeOK /\ Positions /\ Masks /\ Holders /\ Interrupted /\ Suspended
  BY DEF IInv
<1>2. /\ code'[f] = c /\ pc'[f] = 1 /\ c # NoCode
      /\ \A g \in Frame : g # f => code'[g] = code[g] /\ pc'[g] = pc[g]
  BY <1>1, NoCodeIsNone DEF TypeOK
<1>3. /\ cpu' \in Tasks /\ masked' \in [Tasks -> BOOLEAN]
      /\ holder' \in [Locks -> Frame \cup {NoFrame}]
  BY <1>1 DEF TypeOK
<1>4. /\ code' \in [Frame -> Entries \cup Handlers \cup {NoCode}]
      /\ pc' \in [Frame -> Nat \ {0}]
  BY <1>1 DEF TypeOK
<1>5. TypeOK'
  BY <1>3, <1>4 DEF TypeOK
<1>6. cpu \in Tasks
  BY <1>1 DEF TypeOK
<1>7. Positions'
  <2>1. \A t \in Tasks : code'[Own(t)] \in Entries \cup {NoCode}
                         /\ code'[Irq(t)] \in Handlers \cup {NoCode}
    BY <1>1, <1>2, <1>6, FrameFacts DEF Positions
  <2>2. \A g \in Frame : code'[g] # NoCode => pc'[g] <= Len(Code[code'[g]]) + 1
    BY <1>1, <1>2, CodeLengths DEF Positions
  <2> QED
    BY <2>1, <2>2 DEF Positions
<1>8. Masks'
  <2>1. ~ MaskedAt(c, 1)
    BY MaskedStep
  <2>2. \A t \in Tasks : f # Own(t) => code'[Own(t)] = code[Own(t)] /\ pc'[Own(t)] = pc[Own(t)]
    BY <1>2, FrameFacts
  <2>3. \A t \in Tasks : f = Own(t) => ~ masked[t]
    BY <1>1 DEF Masks
  <2> QED
    BY <1>1, <1>2, <2>1, <2>2, <2>3 DEF Masks
<1>9. Holders'
  <2>1. \A L \in Locks : ~ HeldAt(c, 1, L)
    BY HeldStep
  <2> QED
    BY <1>1, <1>2, <2>1 DEF Holders
<1>10. Interrupted'
  BY <1>1, <1>2, <1>6, FrameFacts DEF Interrupted
<1>11. Suspended'
  BY <1>2, <1>6, FrameFacts, SuspendedOK
<1> QED
  BY <1>5, <1>7, <1>8, <1>9, <1>10, <1>11 DEF IInv

LEMMA CallOK ==
  ASSUME IInv, NEW e \in Entries, Call(e)
  PROVE  IInv'
<1>1. TypeOK
  BY DEF IInv
<1> QED
  BY <1>1, StartOK, ActiveFacts, FrameFacts, NoCodeIsNone DEF Call, TypeOK

LEMMA InterruptOK ==
  ASSUME IInv, NEW h \in Handlers, Interrupt(h)
  PROVE  IInv'
<1>1. cpu \in Tasks
  BY DEF IInv, TypeOK
<1> QED
  BY <1>1, StartOK, FrameFacts DEF Interrupt, InterruptsEnabled

LEMMA ReturnOK ==
  ASSUME IInv, Disciplined, Return
  PROVE  IInv'
<1> DEFINE f == Active
           c == code[f]
<1>1. TypeOK /\ Positions /\ Masks /\ Holders /\ Interrupted /\ Suspended
  BY DEF IInv
<1>2. /\ c # NoCode /\ pc[f] > Len(Code[c])
      /\ code' = [code EXCEPT ![f] = NoCode]
      /\ UNCHANGED << cpu, pc, masked, holder >>
  BY DEF Return
<1>3. f \in Frame /\ (f = Own(cpu) \/ f = Irq(cpu)) /\ cpu \in Tasks
  BY <1>1, ActiveFacts DEF TypeOK
<1>4. c \in Entries \cup Handlers
  BY <1>1, <1>2, <1>3 DEF TypeOK
<1>5. pc[f] = Len(Code[c]) + 1
  <2>1. Len(Code[c]) \in Nat /\ pc[f] \in Nat /\ pc[f] <= Len(Code[c]) + 1
    BY <1>1, <1>2, <1>3, <1>4, CodeLengths DEF Positions, TypeOK
  <2> QED
    BY <1>2, <2>1
<1>6. ~ MaskedAt(c, pc[f]) /\ \A L \in Locks : ~ HeldAt(c, pc[f], L)
  BY <1>4, <1>5 DEF Disciplined, Paired
<1>7. /\ code'[f] = NoCode
      /\ \A g \in Frame : g # f => code'[g] = code[g]
  BY <1>1, <1>2, <1>3 DEF TypeOK
<1> HIDE DEF c, f
<1>8. TypeOK'
  <2>1. code' \in [Frame -> Entries \cup Handlers \cup {NoCode}]
    BY <1>1, <1>2 DEF TypeOK
  <2>2. /\ cpu' \in Tasks /\ pc' \in [Frame -> Nat \ {0}]
        /\ masked' \in [Tasks -> BOOLEAN]
        /\ holder' \in [Locks -> Frame \cup {NoFrame}]
    BY <1>1, <1>2 DEF TypeOK
  <2> QED
    BY <2>1, <2>2 DEF TypeOK
<1>9. Positions'
  <2>1. \A t \in Tasks : code'[Own(t)] \in Entries \cup {NoCode}
                         /\ code'[Irq(t)] \in Handlers \cup {NoCode}
    BY <1>1, <1>7, FrameFacts DEF Positions
  <2>2. \A g \in Frame : code'[g] # NoCode => pc'[g] <= Len(Code[code'[g]]) + 1
    BY <1>1, <1>2, <1>7 DEF Positions
  <2> QED
    BY <2>1, <2>2 DEF Positions
<1>10. Masks'
  <2>1. ASSUME NEW t \in Tasks
        PROVE  masked'[t] <=> code'[Own(t)] # NoCode /\ MaskedAt(code'[Own(t)], pc'[Own(t)])
    <3>1. CASE Own(t) = f
      BY <1>1, <1>2, <1>6, <1>7, <3>1 DEF Masks, c
    <3>2. CASE Own(t) # f
      BY <1>1, <1>2, <1>7, <3>2, FrameFacts DEF Masks
    <3> QED
      BY <3>1, <3>2
  <2> QED
    BY <2>1 DEF Masks
<1>11. Holders'
  <2>1. ASSUME NEW L \in Locks, NEW g \in Frame
        PROVE  holder'[L] = g <=> code'[g] # NoCode /\ HeldAt(code'[g], pc'[g], L)
    <3>1. CASE g = f
      BY <1>1, <1>2, <1>6, <1>7, <3>1 DEF Holders, c
    <3>2. CASE g # f
      BY <1>1, <1>2, <1>7, <3>2 DEF Holders
    <3> QED
      BY <3>1, <3>2
  <2> QED
    BY <2>1 DEF Holders
<1>12. Interrupted'
  BY <1>1, <1>2, <1>7, FrameFacts DEF Interrupted
<1>13. Suspended'
  BY <1>2, <1>3, <1>7, FrameFacts, SuspendedOK
<1> QED
  BY <1>8, <1>9, <1>10, <1>11, <1>12, <1>13 DEF IInv

\* What every instruction but the stack switch keeps.
LEMMA StayOK ==
  ASSUME IInv, NEW op, At(Active, op), Advance, UNCHANGED << cpu, code >>
  PROVE  Positions' /\ Suspended'
<1>1. cpu \in Tasks /\ TypeOK
  BY DEF IInv, TypeOK
<1>2. Active = Own(cpu) \/ Active = Irq(cpu)
  BY <1>1, ActiveFacts
<1>3. \A g \in Frame : g # Active => pc'[g] = pc[g]
  BY InstructionOK
<1>4. Suspended'
  BY <1>1, <1>2, <1>3, FrameFacts, SuspendedOK
<1> QED
  BY <1>4, InstructionOK

LEMMA SetMaskOK ==
  ASSUME IInv, Disciplined, Disable \/ Enable
  PROVE  IInv'
<1>1. TypeOK /\ Positions /\ Masks /\ Holders /\ Interrupted /\ Suspended
  BY DEF IInv
<1>2. PICK op \in {Mask, Unmask} : SetMask(op, op = Mask)
  BY InstructionsDiffer DEF Disable, Enable
<1>3. /\ At(Active, op) /\ Advance
      /\ masked' = [masked EXCEPT ![cpu] = (op = Mask)]
      /\ UNCHANGED << cpu, code, holder >>
  BY <1>2 DEF SetMask
<1>4. cpu \in Tasks /\ masked \in [Tasks -> BOOLEAN]
  BY <1>1 DEF TypeOK
\* A handler has no such instruction.
<1>5. Active = Own(cpu) /\ code[Irq(cpu)] = NoCode
  <2>1. code[Irq(cpu)] \notin Handlers
    <3>1. SUFFICES ASSUME code[Irq(cpu)] \in Handlers
                   PROVE  FALSE
      OBVIOUS
    <3>2. Active = Irq(cpu)
      BY <1>1, <3>1, ActiveFacts, NoCodeIsNone
    <3>3. pc[Active] \in 1 .. Len(Code[code[Active]])
      BY <1>1, <1>3, <3>1, <3>2, ActiveFacts, CodeLengths DEF At, TypeOK
    <3> QED
      BY <1>3, <3>1, <3>2, <3>3 DEF Disciplined, At
  <2> QED
    BY <1>1, <1>4, <2>1, ActiveFacts DEF Positions
<1>6. masked'[cpu] = (op = Mask) /\ \A t \in Tasks : t # cpu => masked'[t] = masked[t]
  BY <1>3, <1>4, Zenon
<1>7. masked' \in [Tasks -> BOOLEAN]
  <2>1. (op = Mask) \in BOOLEAN
    OBVIOUS
  <2> QED
    BY <1>3, <1>4, <2>1, Zenon
<1>8. TypeOK'
  <2>1. /\ cpu' \in Tasks /\ pc' \in [Frame -> Nat \ {0}]
        /\ code' \in [Frame -> Entries \cup Handlers \cup {NoCode}]
        /\ holder' \in [Locks -> Frame \cup {NoFrame}]
    BY <1>1, <1>3, InstructionOK DEF TypeOK
  <2> QED
    BY <1>7, <2>1 DEF TypeOK
<1>9. Masks'
  <2>1. ASSUME NEW t \in Tasks
        PROVE  masked'[t] <=> code'[Own(t)] # NoCode /\ MaskedAt(code'[Own(t)], pc'[Own(t)])
    <3>1. CASE t = cpu
      <4>1. code[Active] # NoCode
        BY <1>3 DEF At
      <4>2. MaskedAt(code[Active], pc'[Active]) <=> op = Mask
        BY <1>2, <1>3, InstructionOK, InstructionsDiffer
      <4> QED
        BY <1>3, <1>5, <1>6, <3>1, <4>1, <4>2
    <3>2. CASE t # cpu
      <4>1. pc'[Own(t)] = pc[Own(t)]
        BY <1>3, <1>4, <1>5, <3>2, FrameFacts, InstructionOK
      <4> QED
        BY <1>1, <1>3, <1>6, <3>2, <4>1 DEF Masks
    <3> QED
      BY <3>1, <3>2
  <2> QED
    BY <2>1 DEF Masks
<1>10. Holders'
  <2>1. \A L : op # Lock(L) /\ op # Unlock(L)
    BY <1>2, InstructionsDiffer
  <2> QED
    BY <1>3, <2>1, HoldersOK
<1>11. Interrupted'
  BY <1>1, <1>3, <1>5, <1>6 DEF Interrupted
<1> QED
  BY <1>3, <1>8, <1>9, <1>10, <1>11, StayOK DEF IInv

LEMMA AcquireOK ==
  ASSUME IInv, NEW L \in Locks, Acquire(L)
  PROVE  IInv'
<1>1. TypeOK /\ Positions /\ Masks /\ Holders /\ Interrupted /\ Suspended
  BY DEF IInv
<1>2. /\ At(Active, Lock(L)) /\ holder[L] = NoFrame /\ Advance
      /\ holder' = [holder EXCEPT ![L] = Active]
      /\ UNCHANGED << cpu, code, masked >>
  BY DEF Acquire
<1>3. Active \in Frame /\ code[Active] # NoCode
  BY <1>1, <1>2, ActiveFacts DEF At
<1>4. holder'[L] = Active /\ \A M \in Locks : M # L => holder'[M] = holder[M]
  BY <1>1, <1>2 DEF TypeOK
<1>5. TypeOK'
  <2>1. /\ cpu' \in Tasks /\ pc' \in [Frame -> Nat \ {0}]
        /\ code' \in [Frame -> Entries \cup Handlers \cup {NoCode}]
        /\ holder' \in [Locks -> Frame \cup {NoFrame}]
    BY <1>1, <1>2, <1>3, InstructionOK DEF TypeOK
  <2>2. masked' \in [Tasks -> BOOLEAN]
    BY <1>1, <1>2 DEF TypeOK
  <2> QED
    BY <2>1, <2>2 DEF TypeOK
<1>6. Holders'
  <2>1. ASSUME NEW M \in Locks, NEW g \in Frame
        PROVE  holder'[M] = g <=> code'[g] # NoCode /\ HeldAt(code'[g], pc'[g], M)
    <3>1. CASE g = Active
      <4>1. HeldAt(code[g], pc'[g], M) <=> M = L \/ HeldAt(code[g], pc[g], M)
        BY <1>2, <3>1, InstructionOK, InstructionsDiffer
      <4> QED
        BY <1>1, <1>2, <1>3, <1>4, <3>1, <4>1 DEF Holders
    <3>2. CASE g # Active
      <4>1. pc'[g] = pc[g]
        BY <1>2, <3>2, InstructionOK
      <4>2. M = L => ~ (code[g] # NoCode /\ HeldAt(code[g], pc[g], M))
        BY <1>1, <1>2, FrameFacts DEF Holders
      <4> QED
        BY <1>1, <1>2, <1>4, <3>2, <4>1, <4>2 DEF Holders
    <3> QED
      BY <3>1, <3>2
  <2> QED
    BY <2>1 DEF Holders
<1>7. Masks'
  BY <1>2, InstructionsDiffer, MasksOK
<1>8. Interrupted'
  BY <1>1, <1>2 DEF Interrupted
<1> QED
  BY <1>2, <1>5, <1>6, <1>7, <1>8, StayOK DEF IInv

LEMMA ReleaseOK ==
  ASSUME IInv, Disciplined, NEW L \in Locks, Release(L)
  PROVE  IInv'
<1>1. TypeOK /\ Positions /\ Masks /\ Holders /\ Interrupted /\ Suspended
  BY DEF IInv
<1>2. /\ At(Active, Unlock(L)) /\ Advance
      /\ holder' = [holder EXCEPT ![L] = NoFrame]
      /\ UNCHANGED << cpu, code, masked >>
  BY DEF Release
<1>3. Active \in Frame /\ code[Active] # NoCode
  BY <1>1, <1>2, ActiveFacts DEF At
<1>4. holder'[L] = NoFrame /\ \A M \in Locks : M # L => holder'[M] = holder[M]
  BY <1>1, <1>2 DEF TypeOK
\* It is the executing frame that holds the lock.
<1>5. holder[L] = Active
  <2>1. code[Active] \in Entries \cup Handlers
    BY <1>1, <1>3 DEF TypeOK
  <2>2. pc[Active] \in 1 .. Len(Code[code[Active]])
        /\ Code[code[Active]][pc[Active]] = Unlock(L)
    BY <1>1, <1>2, <1>3, <2>1, CodeLengths DEF At, TypeOK
  <2>3. HeldAt(code[Active], pc[Active], L)
    BY <2>1, <2>2 DEF Disciplined, Paired
  <2> QED
    BY <1>1, <1>3, <2>3 DEF Holders
<1>6. TypeOK'
  <2>1. /\ cpu' \in Tasks /\ pc' \in [Frame -> Nat \ {0}]
        /\ code' \in [Frame -> Entries \cup Handlers \cup {NoCode}]
        /\ holder' \in [Locks -> Frame \cup {NoFrame}]
    BY <1>1, <1>2, InstructionOK DEF TypeOK
  <2>2. masked' \in [Tasks -> BOOLEAN]
    BY <1>1, <1>2 DEF TypeOK
  <2> QED
    BY <2>1, <2>2 DEF TypeOK
<1>7. Holders'
  <2>1. ASSUME NEW M \in Locks, NEW g \in Frame
        PROVE  holder'[M] = g <=> code'[g] # NoCode /\ HeldAt(code'[g], pc'[g], M)
    <3>1. CASE g = Active
      <4>1. HeldAt(code[g], pc'[g], M) <=> M # L /\ HeldAt(code[g], pc[g], M)
        BY <1>2, <3>1, InstructionOK, InstructionsDiffer
      <4> QED
        BY <1>1, <1>2, <1>4, <3>1, <4>1, FrameFacts DEF Holders
    <3>2. CASE g # Active
      <4>1. pc'[g] = pc[g]
        BY <1>2, <3>2, InstructionOK
      <4>2. M = L => ~ (code[g] # NoCode /\ HeldAt(code[g], pc[g], M))
        BY <1>1, <1>5, <3>2 DEF Holders
      <4> QED
        BY <1>1, <1>2, <1>4, <3>2, <4>1, <4>2, FrameFacts DEF Holders
    <3> QED
      BY <3>1, <3>2
  <2> QED
    BY <2>1 DEF Holders
<1>8. Masks'
  BY <1>2, InstructionsDiffer, MasksOK
<1>9. Interrupted'
  BY <1>1, <1>2 DEF Interrupted
<1> QED
  BY <1>2, <1>6, <1>7, <1>8, <1>9, StayOK DEF IInv

LEMMA SwitchOK ==
  ASSUME IInv, NEW u \in Tasks, SwitchTo(u)
  PROVE  IInv'
<1>1. TypeOK /\ Positions /\ Masks /\ Holders /\ Interrupted /\ Suspended
  BY DEF IInv
<1>2. At(Active, Switch) /\ cpu' = u /\ Advance /\ UNCHANGED << code, masked, holder >>
  BY DEF SwitchTo
<1>3. TypeOK'
  <2>1. /\ cpu' \in Tasks /\ pc' \in [Frame -> Nat \ {0}]
        /\ code' \in [Frame -> Entries \cup Handlers \cup {NoCode}]
        /\ holder' \in [Locks -> Frame \cup {NoFrame}]
    BY <1>1, <1>2, InstructionOK DEF TypeOK
  <2>2. masked' \in [Tasks -> BOOLEAN]
    BY <1>1, <1>2 DEF TypeOK
  <2> QED
    BY <2>1, <2>2 DEF TypeOK
<1>4. Positions'
  BY <1>2, InstructionOK
<1>5. Masks' /\ Holders'
  BY <1>2, InstructionsDiffer, MasksOK, HoldersOK
<1>6. Interrupted'
  BY <1>1, <1>2 DEF Interrupted
<1>7. Suspended'
  <2>1. /\ Active \in Frame /\ cpu \in Tasks
        /\ \A g \in Frame : g # Active => pc'[g] = pc[g]
    BY <1>1, <1>2, ActiveFacts, InstructionOK DEF TypeOK
  <2>2. \E i \in Nat \ {0} : /\ pc'[Active] = i + 1
                             /\ i <= Len(Code[code[Active]])
                             /\ Code[code[Active]][i] = Switch
    <3>1. pc[Active] \in Nat \ {0} /\ pc'[Active] = pc[Active] + 1
      BY <1>1, <1>2, <2>1, InstructionOK DEF TypeOK
    <3> QED
      BY <1>2, <3>1 DEF At
  <2>3. ASSUME NEW t \in Tasks, t # cpu
        PROVE  /\ code'[Irq(t)] # NoCode => AfterSwitch(Irq(t))'
               /\ code'[Irq(t)] = NoCode /\ code'[Own(t)] # NoCode
                  => AfterSwitch(Own(t))'
    <3>1. pc'[Own(t)] = pc[Own(t)] /\ pc'[Irq(t)] = pc[Irq(t)]
      BY <1>1, <2>1, <2>3, ActiveFacts, FrameFacts
    <3> QED
      BY <1>1, <1>2, <2>3, <3>1 DEF Suspended, AfterSwitch
  <2>4. ASSUME NEW t \in Tasks, t = cpu
        PROVE  /\ code'[Irq(t)] # NoCode => AfterSwitch(Irq(t))'
               /\ code'[Irq(t)] = NoCode /\ code'[Own(t)] # NoCode
                  => AfterSwitch(Own(t))'
    <3>1. CASE code[Irq(t)] # NoCode
      <4>1. Active = Irq(t)
        BY <1>1, <2>4, <3>1, ActiveFacts
      <4> QED
        BY <1>2, <2>2, <3>1, <4>1 DEF AfterSwitch
    <3>2. CASE code[Irq(t)] = NoCode
      <4>1. Active = Own(t)
        BY <1>1, <2>4, <3>2, ActiveFacts
      <4> QED
        BY <1>2, <2>2, <3>2, <4>1 DEF AfterSwitch
    <3> QED
      BY <3>1, <3>2
  <2> QED
    BY <2>3, <2>4 DEF Suspended
<1> QED
  BY <1>3, <1>4, <1>5, <1>6, <1>7 DEF IInv

\* Every step preserves the invariant.
LEMMA NextIInv == IInv /\ Disciplined /\ [Next]_vars => IInv'
<1> SUFFICES ASSUME IInv, Disciplined, [Next]_vars
             PROVE  IInv'
  OBVIOUS
<1>1. CASE UNCHANGED vars
  <2>1. UNCHANGED << cpu, code, pc, masked, holder >>
    BY <1>1 DEF vars
  <2>2. TypeOK' /\ Positions' /\ Interrupted'
    BY <2>1 DEF IInv, TypeOK, Positions, Interrupted
  <2>3. Masks' /\ Holders'
    BY <2>1 DEF IInv, Masks, Holders
  <2>4. \A f \in Frame : AfterSwitch(f)' <=> AfterSwitch(f)
    BY <2>1 DEF AfterSwitch
  <2>5. Suspended'
    BY <2>1 DEF IInv, Suspended, AfterSwitch
  <2> QED
    BY <2>2, <2>3, <2>5 DEF IInv
<1> QED
  BY <1>1, CallOK, InterruptOK, ReturnOK, SetMaskOK, AcquireOK, ReleaseOK, SwitchOK
     DEF Next

-----------------------------------------------------------------------------
(***************************************************************************)
(* The theorems.                                                           *)
(***************************************************************************)
\* In a state of the invariant, a lock that is awaited with interrupts disabled
\* is held by nobody who is suspended.
LEMMA MaskedLocksStay ==
  ASSUME IInv, Disciplined
  PROVE  SuspendedHoldsNone
<1>1. TypeOK /\ Positions /\ Masks /\ Holders /\ Interrupted /\ Suspended
  BY DEF IInv
<1> SUFFICES ASSUME NEW L \in MaskedLocks, holder[L] # NoFrame
             PROVE  holder[L] = Active
  BY DEF SuspendedHoldsNone
<1> DEFINE f == holder[L]
           c == code[f]
           i == pc[f]
<1>2. L \in Locks
  BY DEF MaskedLocks
<1>3. f \in Frame /\ c # NoCode /\ HeldAt(c, i, L)
  BY <1>1, <1>2 DEF TypeOK, Holders
<1>4. c \in Entries \cup Handlers /\ i \in Nat \ {0} /\ Len(Code[c]) \in Nat
      /\ i <= Len(Code[c]) + 1
  BY <1>1, <1>3, CodeLengths DEF TypeOK, Positions
<1>5. PICK t \in Tasks : f = Own(t) \/ f = Irq(t)
  BY <1>3, FrameFacts
\* The end of the code is reached with no lock held.
<1>6. i \in 1 .. Len(Code[c])
  <2>1. i # Len(Code[c]) + 1
    BY <1>2, <1>3, <1>4 DEF Disciplined, Paired
  <2> QED
    BY <1>4, <2>1
<1>7. ~ AfterSwitch(f)
  <2>1. SUFFICES ASSUME NEW j \in Nat \ {0}, i = j + 1, j <= Len(Code[c]),
                        Code[c][j] = Switch
                 PROVE  FALSE
    BY DEF AfterSwitch
  <2>2. ~ HeldAt(c, j, L)
    BY <1>4, <2>1 DEF Disciplined
  <2>3. ~ HeldAt(c, j + 1, L)
    BY <2>1, <2>2, HeldStep, InstructionsDiffer
  <2> QED
    BY <1>3, <2>1, <2>3
<1> HIDE DEF f, c, i
<1>8. CASE f = Irq(t)
  <2>1. t = cpu
    BY <1>1, <1>3, <1>7, <1>8 DEF Suspended, c
  <2> QED
    BY <1>1, <1>3, <1>8, <2>1, ActiveFacts DEF f, c
<1>9. CASE f = Own(t)
  <2>1. c \in Entries
    BY <1>1, <1>3, <1>9 DEF Positions, c
  <2>2. MaskedAt(c, i)
    BY <1>3, <1>6, <2>1 DEF Disciplined
  <2>3. masked[t] /\ code[Irq(t)] = NoCode
    BY <1>1, <1>3, <1>9, <2>2 DEF Masks, Interrupted, c, i
  <2>4. t = cpu
    BY <1>1, <1>3, <1>7, <1>9, <2>3 DEF Suspended, c
  <2> QED
    BY <1>1, <1>9, <2>3, <2>4, ActiveFacts DEF f
<1> QED
  BY <1>5, <1>8, <1>9

LEMMA NeverSpinsMasked ==
  ASSUME IInv, Disciplined
  PROVE  NoMaskedSpin
<1>1. TypeOK /\ Positions /\ Masks /\ Holders
  BY DEF IInv
<1> SUFFICES ASSUME NEW L \in Locks, At(Active, Lock(L)), ~ InterruptsEnabled,
                    holder[L] # NoFrame
             PROVE  FALSE
  BY DEF NoMaskedSpin
<1> DEFINE c == code[Active]
           i == pc[Active]
<1>2. /\ Active \in Frame /\ c \in Entries \cup Handlers
      /\ i \in 1 .. Len(Code[c]) /\ Code[c][i] = Lock(L)
  BY <1>1, ActiveFacts, CodeLengths DEF At, TypeOK
<1>3. cpu \in Tasks
  BY <1>1 DEF TypeOK
<1>4. L \in MaskedLocks
  <2>1. CASE code[Irq(cpu)] # NoCode
    BY <1>1, <1>2, <1>3, <2>1, ActiveFacts DEF Positions, MaskedLocks
  <2>2. CASE code[Irq(cpu)] = NoCode
    <3>1. Active = Own(cpu) /\ masked[cpu]
      BY <1>1, <2>2, ActiveFacts DEF InterruptsEnabled
    <3>2. MaskedAt(c, i)
      BY <1>1, <1>3, <3>1 DEF Masks
    <3>3. c \in Entries
      BY <1>1, <1>2, <1>3, <3>1, NoCodeIsNone DEF Positions, At
    <3> QED
      BY <1>2, <3>2, <3>3 DEF MaskedLocks
  <2> QED
    BY <2>1, <2>2
<1>5. holder[L] = Active
  BY <1>4, MaskedLocksStay DEF SuspendedHoldsNone
<1>6. HeldAt(c, i, L)
  BY <1>1, <1>2, <1>5 DEF Holders
<1> QED
  BY <1>2, <1>6 DEF Disciplined, Paired

\* The invariant holds in every reachable state of a disciplined kernel.
THEOREM LocksInvariant ==
  ASSUME Disciplined
  PROVE  Spec => []IInv
<1>1. IInv /\ [Next]_vars => IInv'
  BY NextIInv
<1> QED
  BY <1>1, InitIInv, PTL DEF Spec

\* The discipline rules out deadlock with interrupts disabled.
THEOREM DisciplineSuffices ==
  ASSUME Disciplined
  PROVE  Spec => []NoMaskedSpin
<1>1. IInv => NoMaskedSpin
  BY NeverSpinsMasked
<1> QED
  BY <1>1, LocksInvariant, PTL

\* Nobody who is suspended holds a lock that is awaited with interrupts disabled.
THEOREM SuspendedAreHarmless ==
  ASSUME Disciplined
  PROVE  Spec => []SuspendedHoldsNone
<1>1. IInv => SuspendedHoldsNone
  BY MaskedLocksStay
<1> QED
  BY <1>1, LocksInvariant, PTL
=============================================================================
