------------------------------ MODULE Syscalls ------------------------------
(* The dispatcher of syscall/mod.rs and the sandboxes of security/sandbox.rs *)
(* it asks.  Processes call it and preempt each other between and inside the *)
(* calls; what a call hands to another subsystem (TcpSocket, Edge, Quantum)  *)
(* is here the handle it gets back.  The only caller in src/ is the          *)
(* keyboard's cmd_syscall (a write); the other calls are an external         *)
(* program's.                                                                *)
EXTENDS Integers, Sequences, FiniteSets

CONSTANTS Paths,          \* the files there are
          Permissions,    \* the permissions asked for
          WriteLengths,   \* lengths a write may have
          WriteCap,       \* 1024: what of it is printed
          MaxProcesses,   \* bound of the processes
          MaxAnswers      \* bound of the calls

ASSUME SyscallsAssumption ==
  WriteLengths \subseteq Nat /\ {WriteCap, MaxProcesses, MaxAnswers} \subseteq Nat

VARIABLES sandboxes,    \* contexts: [trust, violations] of sandbox 1, 2, ...
          pcbs,         \* [sandbox, live] of process 1, 2, ...
          onCpu,        \* current_pid
          openSockets, nextFd,
          jobDone,      \* the quantum jobs: number -> completed
          submitting,   \* process -> the job its call has submitted, 0 for none
          edgeIds,      \* tasks submitted
          printed,      \* lengths written to the console, in order
          answers       \* [by, call, arg, result] of every call (history)

others == << sandboxes, pcbs, onCpu, openSockets, nextFd, jobDone,
             submitting, edgeIds, printed >>
syscallsVars == << others, answers >>

\* What dispatch returns for an error.
ENOENT == -2
EBADF == -9
EPERM == -1
EAGAIN == -11
ENOSYS == -38

(* create_sandbox: the kernel's and then, as processes are made, theirs: all  *)
(* are system processes.  check_permission knows six names.                  *)
Sandbox(trust) == [trust |-> trust, violations |-> 0]
KnownPermissions == {"fs_read", "fs_write", "network", "ipc", "hardware_access", "load_modules"}
Granted(trust) ==
  CASE trust \in {"kernel", "system"} -> KnownPermissions
    [] trust = "user" -> KnownPermissions \ {"hardware_access", "load_modules"}
    [] trust = "untrusted" -> {}

(* Boot: sandbox 1 is the kernel's; the idle task and kernel_main are the     *)
(* processes 1 and 2, with the sandboxes 2 and 3.                            *)
SyscallsInit ==
  /\ sandboxes = << Sandbox("kernel"), Sandbox("system"), Sandbox("system") >>
  /\ pcbs = << [sandbox |-> 2, live |-> TRUE], [sandbox |-> 3, live |-> TRUE] >>
  /\ onCpu = 2
  /\ openSockets = {} /\ nextFd = 3
  /\ jobDone = << >> /\ submitting = << 0, 0 >>
  /\ edgeIds = 0 /\ printed = << >> /\ answers = << >>

Answer(call, arg, result) ==
  answers' = Append(answers, [by |-> onCpu, call |-> call, arg |-> arg, result |-> result])
MayCall == Len(answers) < MaxAnswers /\ submitting[onCpu] = 0
MayTry == MayCall /\ answers = << >>   \* bound: calls that hand nothing out are tried first

(* spawn: new_kernel_task makes a sandbox and takes a pid, all under the      *)
(* scheduler's lock.  exit_process leaves the sandbox and the handles.       *)
SpawnTask ==
  /\ Len(pcbs) < MaxProcesses
  /\ sandboxes' = Append(sandboxes, Sandbox("system"))
  /\ pcbs' = Append(pcbs, [sandbox |-> Len(sandboxes'), live |-> TRUE])
  /\ submitting' = Append(submitting, 0)
  /\ UNCHANGED << onCpu, openSockets, nextFd, jobDone, edgeIds, printed,
                  answers >>
Switch(p) == p \notin {1, onCpu} /\ pcbs[p].live /\ onCpu' = p   \* the idle task calls nothing
Preempted ==
  /\ \E p \in DOMAIN pcbs : Switch(p)
  /\ UNCHANGED << sandboxes, pcbs, openSockets, nextFd, jobDone,
                  submitting, edgeIds, printed, answers >>
SysExit ==
  /\ MayCall /\ onCpu > 2
  /\ pcbs' = [pcbs EXCEPT ![onCpu].live = FALSE]
  /\ \E p \in DOMAIN pcbs : Switch(p)
  /\ UNCHANGED << sandboxes, openSockets, nextFd, jobDone, submitting,
                  edgeIds, printed, answers >>

----------------------------------------------------------------------------
(* The calls without an effect on what they name: every file is descriptor 4, *)
(* which read does not know.                                                 *)
PlainAnswer(call, arg) ==
  CASE call = "open" -> IF arg \in Paths THEN 4 ELSE ENOENT
    [] call = "read" -> IF arg = 0 THEN 0 ELSE EBADF
    [] call \in {"unlink", "mkdir"} -> EPERM
    [] call = "edge_result" -> EAGAIN
    [] call \in {"readdir", "wasm_call", "fork"} -> ENOSYS
    [] call \in {"close", "p2p_recv", "xr_end_frame", "get_stats"} -> 0
    [] call = "getpid" -> onCpu
PlainArgs(call) ==
  CASE call = "open" -> Paths \cup {"missing"} [] call = "read" -> {0, 4} [] OTHER -> {0}
SysPlain(call) ==
  /\ MayTry
  /\ \E arg \in PlainArgs(call) : Answer(call, arg, PlainAnswer(call, arg))
  /\ UNCHANGED others

(* sys_write: at most WriteCap bytes are printed, all are answered for.       *)
Least(a, b) == IF a < b THEN a ELSE b
SysWrite(fd, length) ==
  /\ MayTry
  /\ IF fd \in {1, 2}
     THEN Answer("write", fd, length) /\ printed' = Append(printed, Least(length, WriteCap))
     ELSE Answer("write", fd, EBADF) /\ UNCHANGED printed
  /\ UNCHANGED << sandboxes, pcbs, onCpu, openSockets, nextFd, jobDone,
                  submitting, edgeIds >>

(* sys_socket, sys_close_socket *)
FdReused == 3 + Cardinality(openSockets)
FdTaken == nextFd
SysSocket ==
  /\ MayCall
  /\ Answer("socket", 0, FdTaken)
  /\ openSockets' = openSockets \cup {FdTaken} /\ nextFd' = nextFd + 1
  /\ UNCHANGED << sandboxes, pcbs, onCpu, jobDone, submitting, edgeIds,
                  printed >>
SysCloseSocket(fd) ==
  /\ MayCall
  /\ Answer("close_socket", fd, 0)
  /\ openSockets' = openSockets \ {fd}
  /\ UNCHANGED << sandboxes, pcbs, onCpu, nextFd, jobDone, submitting,
                  edgeIds, printed >>

(* sys_edge_submit *)
SysEdgeSubmit ==
  /\ MayCall
  /\ Answer("edge_submit", 0, edgeIds + 1) /\ edgeIds' = edgeIds + 1
  /\ UNCHANGED << sandboxes, pcbs, onCpu, openSockets, nextFd, jobDone,
                  submitting, printed >>

(* sys_quantum_submit: the circuit is submitted under one lock of QUANTUM and *)
(* every queued job processed under the next.                                *)
SysQuantumSubmit ==
  /\ MayCall
  /\ jobDone' = Append(jobDone, FALSE)
  /\ submitting' = [submitting EXCEPT ![onCpu] = Len(jobDone')]
  /\ UNCHANGED << sandboxes, pcbs, onCpu, openSockets, nextFd, edgeIds,
                  printed, answers >>
OldestDone == LET queued == {j \in DOMAIN jobDone : ~jobDone[j]} IN
              [j \in DOMAIN jobDone |-> jobDone[j] \/ \A i \in queued : j <= i]
AllDone == [j \in DOMAIN jobDone |-> TRUE]
SysQuantumProcess ==
  /\ submitting[onCpu] # 0
  /\ jobDone' = AllDone
  /\ submitting' = [submitting EXCEPT ![onCpu] = 0]
  /\ Answer("quantum_submit", 0, submitting[onCpu])
  /\ UNCHANGED << sandboxes, pcbs, onCpu, openSockets, nextFd, edgeIds,
                  printed >>

(* sys_quantum_result *)
SysQuantumResult(j) ==
  /\ MayCall
  /\ Answer("quantum_result", j, IF j \in DOMAIN jobDone /\ jobDone[j] THEN 0 ELSE EAGAIN)
  /\ UNCHANGED others

(* sys_security_check: check_permission of the sandbox whose number is the    *)
(* caller's pid; a refusal is charged to it.                                 *)
Charging(p, perm) ==
  IF perm \in Granted(sandboxes[p].trust) THEN sandboxes
  ELSE [sandboxes EXCEPT ![p].violations = @ + 1]
SysSecurityCheck(perm) ==
  /\ MayCall
  /\ Answer("security_check", perm, IF perm \in Granted(sandboxes[onCpu].trust) THEN 1 ELSE 0)
  /\ sandboxes' = Charging(onCpu, perm)
  /\ UNCHANGED << pcbs, onCpu, openSockets, nextFd, jobDone, submitting,
                  edgeIds, printed >>

SyscallsNext ==
  \/ SpawnTask \/ Preempted \/ SysExit
  \/ \E call \in {"open", "read", "unlink", "mkdir", "edge_result", "readdir", "wasm_call",
                  "fork", "close", "p2p_recv", "xr_end_frame", "get_stats", "getpid"} :
       SysPlain(call)
  \/ \E fd \in {1, 4}, length \in WriteLengths : SysWrite(fd, length)
  \/ SysSocket
  \/ \E fd \in openSockets \cup {4} : SysCloseSocket(fd)
  \/ SysEdgeSubmit \/ SysQuantumSubmit \/ SysQuantumProcess
  \/ \E j \in 1 .. 2 : SysQuantumResult(j)
  \/ \E perm \in Permissions : SysSecurityCheck(perm)
SyscallsSpec == SyscallsInit /\ [][SyscallsNext]_syscallsVars

----------------------------------------------------------------------------
(* The permission checks that were refused.                                  *)
Refusals == {i \in DOMAIN answers : answers[i].call = "security_check" /\ answers[i].result = 0}

(* What calls were answered holds, whoever preempted them: no number is given *)
(* out twice, a socket is there until it is closed, a job whose number was   *)
(* returned is done and its result is never asked for in vain, and the       *)
(* violations add up: every refusal is counted once, against one sandbox     *)
(* (sys_socket, sys_quantum_submit, sys_security_check).  Which sandbox that *)
(* is, is left open here: it is not the caller's (RefusalsCharged).          *)
AnswersTrue ==
  /\ \A i, k \in DOMAIN answers :
       LET a == answers[i]
           b == answers[k]
       IN i < k =>
          /\ a.call = b.call /\ a.result = b.result
               => a.call \notin {"socket", "edge_submit", "quantum_submit"}
          /\ a.call = "quantum_submit" /\ b.call = "quantum_result" /\ b.arg = a.result
               => b.result = 0
  /\ \A i \in DOMAIN answers :
       /\ answers[i].call = "quantum_submit" => jobDone[answers[i].result]
       /\ answers[i].call = "socket" =>
            \/ answers[i].result \in openSockets
            \/ \E k \in i + 1 .. Len(answers) : answers[k].call = "close_socket"
                                                /\ answers[k].arg = answers[i].result
  /\ \E charged \in [Refusals -> DOMAIN sandboxes] :
       \A s \in DOMAIN sandboxes :
         sandboxes[s].violations = Cardinality({i \in Refusals : charged[i] = s})

(* What check_permission says of itself, and the code does not keep: a        *)
(* refusal is recorded against the process that asked, in the sandbox it was  *)
(* made with.  The pid is looked up as a sandbox's number, and sandboxes have *)
(* a numbering of their own, the kernel's being the first.                    *)
RefusalsCharged ==
  \A p \in DOMAIN pcbs :
    sandboxes[pcbs[p].sandbox].violations = Cardinality({i \in Refusals : answers[i].by = p})
=============================================================================
