----------------------------- MODULE Supervisor -----------------------------
(* Who starts and who ends tasks besides the scheduler itself: the registry  *)
(* of dynamic processes (process.rs), the ELF modules they come from         *)
(* (ElfModuleManager) and the containers (virt.rs).  The kernel's own task   *)
(* takes each lock on its own, so the keyboard interrupt, which runs the same *)
(* shell commands to their end, may come between two of its steps.           *)
EXTENDS Naturals, FiniteSets

CONSTANTS Modules,    \* names an exec command may give
          NumBoxes,   \* containers run_demo creates; their ids count from 1
          DemoBoxes,  \* those of them it starts
          MaxPid,     \* bound: tasks ever spawned
          CpuMargin   \* cpu_ticks * 1000, the limit of cpu_used

ASSUME SupervisorAssumption ==
  /\ MaxPid \in Nat /\ CpuMargin \in Nat /\ NumBoxes \in Nat
  /\ DemoBoxes \subseteq 1 .. NumBoxes

VARIABLES
  lastPid,   \* the pid scheduler::spawn gave last
  ended,     \* pids for which the scheduler's exit ran
  registry,  \* PROC_REGISTRY
  loaded,    \* names in ELF_MANAGER
  shell,     \* where the kernel's task is in a command
  boxes,     \* CONTAINERS: id -> container
  nextBox,   \* next_id
  toStart,   \* containers run_demo has still to start
  startedBy, \* ghost: container -> every pid it ever started
  killed     \* ghost: pid -> times kill handed it to exit_process

supervisorVars ==
  << lastPid, ended, registry, loaded, shell, boxes, nextBox,
     toStart, startedBy, killed >>

Pids == 1 .. MaxPid
Boxes == 1 .. NumBoxes
NoModule == "none"
Idle == [at |-> "idle", pid |-> 0, elf |-> NoModule]
BoxStates == {"created", "running", "stopped", "failed"}

SupervisorInit ==
  /\ lastPid = 0 /\ ended = {} /\ registry = {} /\ loaded = {}
  /\ shell = Idle
  /\ boxes = << >> /\ nextBox = 1
  /\ toStart = DemoBoxes
  /\ startedBy = [b \in Boxes |-> {}]
  /\ killed = [p \in Pids |-> 0]

(* scheduler::spawn, seen from its callers: a fresh pid. *)
Fresh == lastPid + 1
CanSpawn == lastPid < MaxPid
Entry(pid, elf) == [pid |-> pid, elf |-> elf]

Register(pid, elf) == registry' = registry \cup {Entry(pid, elf)}
Without(pid) == {e \in registry : e.pid # pid}
\* Found decided by a lookup that forgets an earlier removal.
FoundAlways(pid) == pid \in 1 .. lastPid

Found(pid) == Without(pid) # registry
ExitProcess(pid) == /\ ended' = ended \cup {pid}
                    /\ killed' = [killed EXCEPT ![pid] = @ + 1]

boxVars == << boxes, nextBox, toStart, startedBy >>

----------------------------------------------------------------------------
(* Commands of the kernel's own task: one lock at a time. *)

(* exec_elf, steps 1 and 2: the module is loaded unless one of that name is,  *)
(* and its base address is found in the list (nothing unloads modules).      *)
ExecLoad(m) ==
  /\ shell = Idle /\ CanSpawn
  /\ loaded' = loaded \cup {m}
  /\ shell' = [Idle EXCEPT !.at = "spawn", !.elf = m]
  /\ UNCHANGED << lastPid, ended, registry, killed, boxVars >>

(* exec_demo and spawn_kernel_task have no module. *)
TaskBegin ==
  /\ shell = Idle /\ CanSpawn
  /\ shell' = [Idle EXCEPT !.at = "spawn"]
  /\ UNCHANGED << lastPid, ended, registry, loaded, killed, boxVars >>

(* exec_elf, step 3; the task may run, and end, before it is registered. *)
SpawnStep ==
  /\ shell.at = "spawn" /\ CanSpawn
  /\ lastPid' = Fresh
  /\ shell' = [shell EXCEPT !.at = "register", !.pid = Fresh]
  /\ UNCHANGED << ended, registry, loaded, killed, boxVars >>

RegisterStep ==
  /\ shell.at = "register"
  /\ Register(shell.pid, shell.elf)
  /\ shell' = Idle
  /\ UNCHANGED << lastPid, ended, loaded, killed, boxVars >>

(* kill: the registry's lock is free again before the scheduler's is taken. *)
KillRemove(pid) ==
  /\ shell = Idle /\ Found(pid)
  /\ registry' = Without(pid)
  /\ shell' = [Idle EXCEPT !.at = "exit", !.pid = pid]
  /\ UNCHANGED << lastPid, ended, loaded, killed, boxVars >>

KillExit ==
  /\ shell.at = "exit"
  /\ ExitProcess(shell.pid)
  /\ shell' = Idle
  /\ UNCHANGED << lastPid, registry, loaded, boxVars >>

----------------------------------------------------------------------------
(* The same commands typed on the keyboard: whole, between two steps above. *)

IrqExec(m) ==
  /\ CanSpawn
  /\ loaded' = loaded \cup (IF m = NoModule THEN {} ELSE {m})
  /\ lastPid' = Fresh
  /\ Register(Fresh, m)
  /\ UNCHANGED << ended, shell, killed, boxVars >>

IrqKill(pid) ==
  /\ Found(pid)
  /\ registry' = Without(pid)
  /\ ExitProcess(pid)
  /\ UNCHANGED << lastPid, loaded, shell, boxVars >>

(* A task returns, or calls exit: PROC_REGISTRY does not hear of it. *)
TaskReturns(pid) ==
  /\ pid \in 1 .. lastPid \ ended
  /\ ended' = ended \cup {pid}
  /\ UNCHANGED << lastPid, registry, loaded, shell, killed, boxVars >>

----------------------------------------------------------------------------
(* Containers *)

taskVars == << registry, loaded, shell, killed >>
NewBox == [state |-> "created", pids |-> {}, used |-> 0]

(* ContainerManager::create; run_demo creates all its containers first. *)
Create ==
  /\ shell = Idle /\ nextBox <= NumBoxes
  /\ boxes' = [c \in DOMAIN boxes \cup {nextBox} |->
                 IF c = nextBox THEN NewBox ELSE boxes[c]]
  /\ nextBox' = nextBox + 1
  /\ UNCHANGED << lastPid, ended, toStart, startedBy, taskVars >>

(* ContainerManager::start: whatever the container's state is. *)
Start(b) ==
  /\ CanSpawn
  /\ lastPid' = Fresh
  /\ boxes' = [boxes EXCEPT ![b].state = "running", ![b].pids = @ \cup {Fresh}]
  /\ startedBy' = [startedBy EXCEPT ![b] = @ \cup {Fresh}]

(* run_demo's calls to start, after its calls to create; the keyboard may    *)
(* have stopped or removed the container in between.                         *)
DemoStart(b) ==
  /\ shell = Idle /\ nextBox > NumBoxes /\ b \in toStart
  /\ toStart' = toStart \ {b}
  /\ \/ b \in DOMAIN boxes /\ Start(b)
     \/ b \notin DOMAIN boxes /\ UNCHANGED << lastPid, boxes, startedBy >>
  /\ UNCHANGED << ended, nextBox, taskVars >>

(* Container::stop kills every pid it holds, then forgets them. *)
Halted(box) == box.pids
StopBox(b, state) ==
  /\ ended' = ended \cup Halted(boxes[b])
  /\ boxes' = [boxes EXCEPT ![b].pids = {}, ![b].state = state]

Stop(b) ==
  /\ b \in DOMAIN boxes
  /\ StopBox(b, "stopped")
  /\ UNCHANGED << lastPid, nextBox, toStart, startedBy, taskVars >>

\* The id alone decides.
RemovableAny(box) == box.state \in BoxStates

Removable(box) == box.state \in {"stopped", "created"}
RemoveBox(b) ==
  /\ b \in DOMAIN boxes /\ Removable(boxes[b])
  /\ boxes' = [c \in DOMAIN boxes \ {b} |-> boxes[c]]
  /\ UNCHANGED << lastPid, ended, nextBox, toStart, startedBy, taskVars >>

(* ContainerManager::tick, from kernel_loop: each running container is       *)
(* charged one tick, and stopped and failed over its limit.                  *)
Charged(box) == IF box.state = "running" THEN [box EXCEPT !.used = @ + 1] ELSE box
Over(box) == box.state = "running" /\ box.used > CpuMargin
Failed(box) == [box EXCEPT !.state = "failed", !.pids = {}]

VirtTick ==
  /\ shell = Idle /\ toStart = {}
  /\ LET charged == [b \in DOMAIN boxes |-> Charged(boxes[b])]
         over == {b \in DOMAIN boxes : Over(charged[b])}
     IN /\ ended' = ended \cup UNION {Halted(boxes[b]) : b \in over}
        /\ boxes' = [b \in DOMAIN boxes |->
                       IF b \in over THEN Failed(charged[b]) ELSE charged[b]]
  /\ UNCHANGED << lastPid, nextBox, toStart, startedBy, taskVars >>

----------------------------------------------------------------------------
SupervisorNext ==
  \/ \E m \in Modules : ExecLoad(m)
  \/ TaskBegin \/ SpawnStep \/ RegisterStep
  \/ \E p \in Pids : KillRemove(p)
  \/ KillExit
  \/ \E m \in Modules \cup {NoModule} : IrqExec(m)
  \/ \E p \in Pids : IrqKill(p)
  \/ \E p \in Pids : TaskReturns(p)
  \/ Create
  \/ \E b \in Boxes : DemoStart(b)
  \/ \E b \in Boxes : Stop(b)
  \/ \E b \in Boxes : RemoveBox(b)
  \/ VirtTick

SupervisorSpec == SupervisorInit /\ [][SupervisorNext]_supervisorVars

----------------------------------------------------------------------------
Box == [state : BoxStates, pids : SUBSET Pids, used : Nat]
Shell == [at : {"idle", "spawn", "register", "exit"}, pid : Nat,
          elf : Modules \cup {NoModule}]

SupervisorTypeOK ==
  /\ lastPid \in 0 .. MaxPid
  /\ ended \subseteq Pids
  /\ registry \subseteq [pid : Pids, elf : Modules \cup {NoModule}]
  /\ loaded \subseteq Modules
  /\ shell \in Shell
  /\ nextBox \in 1 .. NumBoxes + 1
  /\ DOMAIN boxes \subseteq Boxes
  /\ \A b \in DOMAIN boxes : boxes[b] \in Box
  /\ toStart \subseteq Boxes
  /\ startedBy \in [Boxes -> SUBSET Pids]
  /\ killed \in [Pids -> Nat]

(* A container that does not run, and one that is gone, leaves no task of    *)
(* its own behind, whatever order start, stop, remove and the limit check    *)
(* come in (Container::stop, ContainerManager::remove and tick).             *)
ContainerEndsAll ==
  \A b \in Boxes :
    (b \notin DOMAIN boxes \/ boxes[b].state # "running") => startedBy[b] \subseteq ended

(* Two shells that kill the same pid end it once: Found is decided under the *)
(* registry's lock, so the second of them is told that the pid is unknown.   *)
KillOnce == \A p \in Pids : killed[p] <= 1

=============================================================================
