# SOC-D kernel: TLA+ specifications, model checking and proofs

SOC-D is a `no_std` Rust kernel for one x86_64 core: a preemptive scheduler,
drivers, an in-memory file system, and on top of them a "personal cloud" (peers,
a versioned block store, edge computing), a defensive engine, containers, a WASM
runtime and user interfaces. This directory holds the specifications of the parts
that are hard to test, the TLC configurations that check them on small instances,
and the theorems that hold for every instance, with proofs checked by TLAPS.

Source references are relative to the crate (`modules/scheduler.rs` is
`src/modules/scheduler.rs` of the repository).

## 1. The system

| Component | State it keeps | Operations | Interacts with |
|---|---|---|---|
| scheduler (`modules/scheduler.rs`, `arch/context_switch.rs`) | PCBs, five ready queues, `current_pid`, tick; a stack per task | init, register_current_as_task, spawn, preempt, yield_now, sleep, block/unblock, exit, kill | timer interrupt; every subsystem that makes tasks |
| interrupts (`arch/interrupts.rs`) | `TICK_COUNT`, `PICS` | timer and keyboard handlers | scheduler, keyboard shell |
| locks (`spinning_top::Spinlock`, `without_interrupts`) | owner of each lock, interrupt flag | lock, unlock, mask, unmask | everything |
| versioned store (`p2p/dag.rs`) | blocks, head per path, pending broadcast | write, read, receive_block, sync_offer, sync_diff, tick | scheduler's tick, xdev, AR, cognitive engine |
| signed store (`p2p/dag_sig.rs`) | trusted keys, cached verdicts | write_signed, verify_block | store, node identity |
| peers, discovery, transport (`p2p/peer.rs`, `discovery.rs`, `transport.rs`) | peer table, sent and received packets | query, answer, send, dispatch | network card, kernel_loop |
| gossip, routing, secure channel (`p2p/gossip.rs`, `routing.rs`, `crypto.rs`) | seen messages, routes, sessions with counters | receive, heartbeat; upsert; encrypt, decrypt | kernel_loop; no receiver is connected |
| file system and disk (`modules/tmpfs.rs`, `drivers/virtio_blk.rs`) | inodes; one snapshot on disk; one request slot | read, write, save, load | boot |
| processes, ELF, containers (`modules/process.rs`, `elf_loader.rs`, `virt.rs`) | registries keyed by pid; loaded modules | exec_elf, kill; load, unload; create, start, stop, remove, tick | scheduler, keyboard shell |
| threats, sandboxes, system calls (`security/`, `syscall/mod.rs`) | profiles, quarantine; contexts; descriptors and jobs | record, analyze, release; check_permission; dispatch | processes, quantum, edge |
| network card, protocols (`net/`) | two rings; sockets | receive, transmit, dispatch; connect, send, recv, close | discovery, transport |
| edge, sessions (`edge/`, `modules/xdev.rs`) | tasks and nodes; devices and sessions | submit, process; handoff, clipboard | store, kernel_loop |
| IA and monitor (`ia/`, `modules/monitor.rs`) | a ring of samples, patterns, suggestions; snapshots, alerts | tick, approve; capture | kernel_loop, keyboard shell |
| WASM, quantum (`wasm/`, `quantum/`) | an instance; jobs | instantiate, call; submit, process | system calls |
| user interface (`ui/`, `xr/`) | surfaces, focus, damage; toasts | create, move, focus, click, render | cognitive engine |
| serial console (`drivers/serial_shell.rs`) | line, cursor, history, search | one per key | kernel_loop |

`kernel_main` boots on the stack that becomes process `kernel_main`, then runs
`kernel_loop`, which calls the subsystems' ticks. All shared state is behind
spinlocks on a single core; what makes it hard:

- **Preemption.** The timer fires between any two instructions that do not disable
  interrupts, and ends in a stack switch. A task that sleeps, blocks or exits keeps
  the CPU until it is switched out, so state and stack disagree for a while.
- **Spinning with interrupts disabled.** A handler, or a task under
  `without_interrupts`, that meets a held lock waits for ever.
- **Conflicts.** Nodes write the same path, and blocks arrive late, twice, out of
  order or not at all.
- **Values read before a lock** (a tick, a head) and used under it.
- **Names that disagree**: scheduler pids, sandbox pids and the threat engine's pids
  are three numberings.

`PROJECT.json` lists every component and, under `hazards`, each of these at its line.

What makes each component correct: the scheduler loses no ready task and no live
context, runs one task, dispatches by priority and lets sleepers wake; locking never
stops the core; the store converges and keeps complete histories; a kill reaches a pid
once, and a container that does not run has no process; the engines act on what they saw,
once; an edge task is settled once, and in the end; nodes find each other over a network that
loses frames; a snapshot reported as saved is on the disk, and boot restores it; a
stream is received without gaps unless the network made one; the console shows the line that Enter runs.

## 2. Modules

| Module | What it is |
|---|---|
| `Scheduler` | the scheduler, the timer interrupt and the stack switch |
| `CpuLifecycle` | what a scheduler promises of a process's life, abstractly |
| `KernelLocks` | entry points and handlers as sequences of lock, unlock, mask, unmask and switch, on one core |
| `Dag` | the versioned store on several nodes |
| `LineEditor`, `Storage`, `Nic`, `TcpSocket` | what talks to a device: the console, the disk, the network card, a TCP peer |
| `Supervisor`, `ElfLoader` | processes, containers and the modules processes come from |
| `ThreatEngine`, `Syscalls` | the defensive engine; system calls and the sandboxes they ask |
| `Edge`, `Peers`, `Gossip`, `SecureChannel`, `StoreWriters` | the cloud: tasks, discovery and packets, floods and routes, sessions, writers of the store |
| `Monitor`, `Cognition`, `Telemetry` | the engines `kernel_loop` ticks |
| `Devices`, `Services` | the components of the run of that name side by side, with their types |
| `Engines`, `Cloud` | the three of them side by side, and `Gossip` with `SecureChannel`: what they promise together |
| `Programs` | what programs meet of the kernel side by side: `ElfLoader`, `Syscalls`, `Wasm`, `Compositor` |
| `Wasm`, `Quantum`, `Compositor` | the runtimes and the screen |
| `KernelLoop` | `kernel_loop` on the machine of `Scheduler`: which ticks it gets to see |
| `MCScheduler`, `MCKernelLoop`, `MCKernelLocks`, `MCDag`, `MCDevices`, `MCTcp`, `MCServices` | instances for TLC |
| `Sifting` | the elements of a sequence that are in a set, used by `Nic`, `Peers`, `StoreWriters` and `ElfLoader` |
| `SchedulerProofs`, `KernelLocksProofs` | theorems of the module each is named after |
| `DeviceProofs` | theorems of `LineEditor`, `Storage`, `TcpSocket`, `Nic` and `Devices` |
| `ClusterProofs` | theorems of `Dag`, `Edge`, `Peers`, `SecureChannel`, `StoreWriters` and `Gossip` |
| `ServiceProofs` | theorems of `Supervisor` and `ThreatEngine`; of `Monitor`, `Cognition`, `Telemetry` and `Engines` |
| `ProgramProofs` | theorems of `ElfLoader`, `Syscalls`, `Wasm`, `Compositor`, `Programs` and `Quantum` |
| `TypeProofs` | the types of all services together (`Services`), from the invariants of the three modules above |
| `SequenceFacts` | lemmas on numbers, finite sets, sequences and rings that they share |

### Scheduler

Every entry point runs under the `SCHEDULER` lock with interrupts disabled, so each
is one action; between any two of them the timer may fire (`Preempt`).

| Code | Model |
|---|---|
| `PCB.state`, `.priority`, `.quantum_remaining` | `state`, `prio`, `quantum` |
| `Sleeping.wake_at_tick` | `wake`, as the ticks that are left |
| `ready_queues` | `queue`, a sequence per priority |
| `current_pid` | `current` |
| the stack pointer in use | `cpu` |
| `context.kernel_rsp` | `resumable`: it is the point the task stopped at |
| `tick` + `wake_sleeping_processes` + `schedule` + `switch_context` | `Preempt` = `AfterTick`, `AfterWake`, `Requeue`, `Reschedule`, `SwitchContext` |
| `yield_now`, `spawn`, `sleep`, `block_current`, `unblock`, `exit_current`, `kill`, `init`, `register_current_as_task` | the actions of those names |

`current` and `cpu` are separate because the code separates them: after `exit_process`
nothing is current and the dead task executes on, and during boot the CPU runs code that
is no process. `wake_sleeping_processes` looks only at the critical queue before it
enqueues, and `enqueue` itself refuses a second entry: `Requeue` is their composition.
Killable processes exclude idle and `kernel_main`: `process::kill` and `Container::stop`
reach only the pids they registered, and nothing is ever recorded against the threat
engine's pids 1 and 2.

`CpuLifecycle` says what a user of the scheduler expects: a process is created once,
gets the CPU from whoever has it, hands it back by being ready again, and ends for good,
from the CPU. `Scheduler` implements it (`ImplementsLifecycle`, with `life <- state`)
as long as tasks compute, yield and exit; sleeping, blocking and killing are outside it,
because a task that waits goes on executing, and a queued task that is killed comes back.

### KernelLoop

`KernelLoop` adds to `Scheduler` the tick of the hardware, `last_bg_tick` and one iteration of `kernel_loop`, which
sees a tick only if `kernel_main` has the CPU then, and does the work whose period divides *that* tick. Its other tasks are
`Scheduler`'s. It asks one question, whether the periodic work keeps its cadence beside another task; the answer is no (`loop_alias`).

### KernelLocks

An entry point is the sequence of what it does to locks, to the interrupt flag and to the
stack. Each of two tasks has a frame for the entry point it called and one for the handler
that interrupted it, on the same stack. A lock that is held is waited for by spinning, so the
action is disabled. With one core the waiter can be helped only by a preemption, and
with interrupts disabled there is none: `NoMaskedSpin` says such a lock is free.
Branches are left out: an entry point does all the locking it can do; of the commands the keyboard handler runs, `KeyCommandCode` is
one, `ct stop`.

`Disciplined` is the rule behind the code's own notes: a lock that is ever awaited with
interrupts disabled is held only with interrupts disabled, and not across a switch.
`yield_now`, `sleep`, `spawn`, `scheduler::kill`, the serial output and `Container::stop`
keep it; `process::kill`, `current_tick`, `check_permission` and the allocator do not.

### Dag

A block's hash is its content, so the model's block is the record of what is hashed,
its parents included. This takes the hash as injective; the code's concatenates its fields without a mark between them
(`p2p/dag.rs:111-112`), so two blocks could have one hash if a boundary between fields moved. The parent `[0u8; 32]` of a first version is the empty set of parents.
`dag::write` is two actions, because it reads the scheduler's tick before it takes
the lock: `ReadTick`, `Write`. No transport is connected at this commit, so `Receive` assumes
nothing: any block a node has may reach any other at any time. That covers every transport
with loss, duplication and reordering, since a block once stored stays. `insert` is
`Insert`: a duplicate or a block without its parent changes nothing. A restart draws a new
key pair, so the node comes back as another node. Left out: statistics, `seq` (not hashed),
and the interval of `SyncEngine::tick`, which is left open.

### LineEditor

`line`, `cursor`, `history`, `query` and the escape state are the code's; a key is an action's
disjunct. `terminal` is what the user sees, as the bytes the code writes leave it: that is
state outside the program, and the point of `EchoFaithful` is that relative cursor movements
never drift away from it. Four repaints are wrong in the code (a completion inside the line, Ctrl+W after a
blank, Ctrl+D on a line, a search begun over one); `stale` records that one of them came, until the next prompt.

### Storage

`request`, `sector` and `stage` are where `read_at` and `write_at` are for the chunk in hand;
`avail` entries that the device has not served stay `Outstanding` after `TimedOut`, because the
driver gives up waiting and not the request. The device takes entries in order (`DeviceTakes`) and
moves data with the buffers *as they are then* (`DeviceMoves`). `PowerLoss` keeps the disk and
nothing else. A snapshot is a header and the chunks behind it. `init` creates and saves a new file system whenever `load_from_disk` fails, be it that a
read failed (`Failed`, `NewFs`).

### Nic, TcpSocket

`Nic` has both rings with their free-running 16-bit indices, and the code's three-step receive
(`ReceiveBegin`, `ReceiveOne`, `ReceiveEnd`) between which the device may complete more. `transmit_real` takes its buffers in turn
and never looks at what the card has sent: `SentAsWritten` says what that comes to, for however many frames wait, and
`AcceptedIntact`, that the card sends what was accepted, is not so (section 3, *Promises the code does not keep*). A card whose queue is smaller than
`TX_BUF_COUNT` is left out (`NicAssumption`).

In `TcpSocket` a call of the socket interface reads the socket under the lock, transmits without it, and waits; the dispatcher
comes between any two of these steps (`SendData`, `SendTransmits`; `CloseEstablished`, `CloseTransmits`, `CloseMarks`). So a FIN of the
peer that is dispatched between our FIN and `state = FinWait1` is forgotten, and the close waits for its deadline. `Connect`, which inserts
the SynSent socket before it transmits, and `Reply`, which the dispatcher sends after it changed the state, stay one step each: until the SYN is on the
wire nothing is addressed to a new port; and only the dispatcher advances `ack_num`, so what the task sends between its lock and its reply
carries the same acknowledgement, in the other order. The peer is a TCP server that follows the protocol, and the network keeps order. Units of data stand for bytes.

### Supervisor, ElfLoader

`shell` is where the kernel's task is inside `exec_elf` or `kill`: looking a module up, spawning,
registering, removing and ending are under locks of their own, and a keyboard command
(`IrqExec`, `IrqKill`) runs to its end in between. `startedBy` and `killed` are history. A
process may return by itself (`TaskReturns`) and stays registered, as in the code.
`ElfLoader` lays sections out, gives symbols addresses and writes relocations over the bytes;
a byte is what it came from, so that a field split between a relocation and its neighbour shows. Relocations come in the file's
order and the last one that covers a byte decides it, as a loop that writes over the image does. `ModulesSound` says what a module may
count on and no more: a field is whole and leads to its symbol if no later relocation writes over it and, where it has four bytes, if they
are wide enough (`WideEnough`; an absolute 32-bit field holds no address of a heap above 4 GB, and the loader stores what is left of it without a
word); `load_elf` also skips a field of four bytes if less than eight of the image follow, and `FieldsWritten` says it does not
(not so, section 3); a name is the address of its byte if it is inside its section and the last of that name. Alignments are powers of two, as
compilers emit them: `load_elf` masks with `align - 1`.

### ThreatEngine, Syscalls

`analyze` is one action: the scan first, then `respond` for each event in its order, each on what the
former left (`RespondAll`). At most `MaxWatched` processes are watched. Scores are the code's integers, with the saturation of `-20i32 as u32`. In `Syscalls` a call is one
action, except the submission of a quantum job, which locks twice; `Preempted` changes
`onCpu` between. The sandbox a call consults is the one with the process's *number*, as in the code, which is
the one made for the process before it. `AnswersTrue` has every refusal counted once and leaves open where;
`RefusalsCharged`, that it is counted against who asked, is not so (section 3).

### Edge, Peers, Gossip, SecureChannel, StoreWriters

`Edge` is ticked only at the multiples of 1000 that kernel_loop happens to sample (`Rounds`). `Peers` has
whole nodes: a frame reaches every card on the segment, `Poll` is the dispatcher with all it calls, and the packet's
counts decide, as in `parse`, where its records end. `Gossip` and `SecureChannel` have no caller for
what arrives: messages, packets and their order are an external network's choice. `StoreWriters` has
`write_signed` in five steps, with the other writers between any two, over the heads that `Dag` describes.

### Monitor, Cognition, Telemetry

The first two are ticked by kernel_loop with a counter of its own and by commands and self-tests with the
scheduler's tick, so their clock may go backwards. `Telemetry` has the ring, the three
networks with the code's weights in thousandths, and the choice of an action from their outputs; sigmoid is
monotone, so a threshold on it is one on its argument.

### Wasm, Quantum, Compositor

One action of `Wasm` is one instruction of `execute_bytecode`; code is bytes, because the interpreter
skips over bytes to find the end of a block. Every opcode the code knows has its disjunct, and the others are
ignored as in the code; what is left open is the value of the i32 bit operations and shifts (any i32) and the content of 64-bit and float
values. A call that traps leaves its frames: `FramesOwned` speaks of the running function's frame only, and `FramesReturned`, that nothing
is left, is not so (section 3). `Quantum` keeps amplitudes exactly, as integers over a power of
the root of two; the run of a circuit, the cumulative sum of the probabilities and the powers of two are recursive functions, so that they can be reasoned
about. `CircuitsAssumption` has gates act on qubits of their circuit: `apply_x`, `apply_h` and the target of `apply_cnot` panic on another, at an index
beyond the state vector. `Compositor` has the frame as what each pixel was copied from. Boxes are of positive size:
`create_surface` refuses none, and `draw_window_decoration` computes `h - 1` (`ui/compositor.rs:197`). `FrameTrue` says that the focused window looks
active; `LooksTrue`, that no other does, is not so (section 3).

## 3. Runs

All passing runs are exhaustive for their bounds.

| Run | Instance | What it shows |
|---|---|---|
| `sched_any` | idle, kernel_main, two High workers that sleep up to 2 ticks, block and are killed anywhere; quanta 1 to 3 | `TypeOK`, `ReadyIsQueued`, `CpuOwner`, `QueuesSound`, `LiveContextSaved`, `DispatchOrder`, `SleepersWake` |
| `sched_plain` | idle, kernel_main, three Normal workers that compute, yield and exit | `OnlyRunnableQueued`, `DispatchSound`, `RoundRobin`, `ImplementsLifecycle` |
| `locks` | two tasks, six disciplined entry points, timer and keyboard | `NoMaskedSpin`, `SuspendedHoldsNone` |
| `dag` | two nodes, two writers on one and one on the other, three writes of two contents, timer values 0 and 1 | `TypeOK`, `HeadIsNewest`, `HistoryComplete`, `Converged`, `SyncProgresses`, `PendingIsStored` |
| `devices` | line editor, file system with its disk, network card and TCP socket, one per behaviour | `DevicesTypeOK`, `EchoFaithful`, `SavedIsOnDisk`, `BootRestores`, `FramesKept`, `NeverAcksUnsent`, `StreamIntact` |
| `services` | the fifteen services and runtimes, one per behaviour | `ServicesTypeOK`, `ContainerEndsAll`, `KillOnce`, `QuarantineKnown`, `NoDoubleJeopardy`, `SettledOnce`, `EveryTaskSettles`, `OnlyRealPeers`, `PeersLive`, `EnginesTrue`, `CloudTrue`, `ProgramsTrue`, `EvolutionTrue`, `TrailConnected` |
| `sched_kill` (violated) | a worker killed while queued | `DeadIsFinal`: a dead process runs again |
| `sched_boot` (violated) | the timer between `scheduler::init` and `register_current_as_task` | `BootCompletes`: the boot code is lost |
| `locks_open` (violated) | two tasks, the entry points that hold a lock with interrupts enabled, `spawn`, the timer and the command `ct stop` from the keyboard | `NoMaskedSpin`: a handler, or `spawn`, spins for ever |
| `loop_alias` (violated) | `kernel_loop` and one computing task of its priority, the source's quanta and periods | `CadenceKept`: from some tick on, periodic work is never done again |
| `dag_latest` (violated) | one node, two writes of a path in one tick | `ReadsLastWrite`: the second write is never read |
| `tcp_ack` (violated) | a socket and a peer, no faults | `AckEndsSend`: a send waits for its deadline although it was acknowledged |

`focus` names the component that moves in a behaviour of `devices` and `services`. Those components share no
state, so their product would show nothing more. Some properties are conjunctions, one promise each to the rest of the kernel:

| Conjunction | Its parts |
|---|---|
| `DispatchOrder` (`Scheduler`) | `StrictPriority`: no process more urgent than the one given the CPU is Ready. `InTurn`: nobody is overtaken in its queue |
| `DispatchSound` (`Scheduler`) | `FullQuantum`, `NoStaleResume`: whoever is given the CPU goes on where it stopped, with a whole quantum |
| `FramesKept` (`Nic`) | `ReceivedOnceInOrder`: every frame received is handled once and in order. `SentAsWritten`: for every frame accepted the card sends the one accepted last into its buffer, in the order of acceptance |
| `EnginesTrue` (`Engines`) | `AlertsTrue`: the alerts that are up are those the current snapshot calls for. `ActionsEarned`: every action in the log was earned, and two of a pattern are a cooldown apart. `WindowTrue`: the models are given the last samples in order, whatever the ring has overwritten. `IdleActs`: a cycle that finds the processor idle acts |
| `CloudTrue` (`Cloud`) | `FloodEnds`, `RoutesBest`: the cache stops floods as far as it reaches; the next hop is the best offer's. `NoncesFresh`: no key stream is used twice, and what `decrypt` lets through was sent |
| `ProgramsTrue` (`Programs`) | `ModulesSound`, `SymbolsLive`: relocated fields lead where the file says, names are found in loaded modules. `AnswersTrue`: numbers are given out once, what was answered as done is done, every refusal is counted once (not: against its caller). `WasmBounded`, `FramesOwned`: limits are kept over all calls, and the frame in use is the running function's. `FrameTrue`, `OneFocus`: an undamaged frame shows what a click would find, the focused window as active (not: no other), and one surface has the focus |

`IdleActs` replaces a stronger property, that every cycle acts. That one held on a window of two samples, and the
attempt to prove it for every window showed why: with three, a busy processor without peers whose heap filled two samples ago, and rises no
more, leaves every output below its threshold, and `decide` answers "none". What the weights do guarantee is that an idle
processor always has something to synchronise, so the boost that `decide` keeps for it is never what it does.

**Bounds.** `MaxPid`, `MaxSleep`, `MaxTick`, `MaxTicks` and `MaxWrites` appear only in the guards
that create processes, choose a sleep, advance a clock and make a block. Two
workers are the fewest for a duplicate queue entry, a wake-up during another's quantum and
a stale context; three Normal workers give round-robin an order to break. Two
sleeping ticks distinguish a sleeper that is due from one that is not. Quanta of 1 to 3
stand for 2 to 2^32 - 1: what matters is whether one expires before or after a wake-up. Priorities
are High workers over a Normal kernel_main over idle, so that strict priority has three levels.
Three writes are the fewest for two siblings of one parent with one timestamp. Two
clock values are the fewest for a timestamp read before another writer's newer block.
In `locks`, a task calls entry points for ever, so two tasks meet in all pairs. In `dag`, the two writers of one node are interchangeable (symmetry; only invariants are checked there).

In `devices`: lines of three characters over a blank and a letter hold every relation of cursor, word
and end of line; two words that share a prefix make completion extend, list and finish. Two faults let a second
request time out while the first is still in the ring; the ring's indices wrap at 4. A
snapshot of one file needs up to three chunks, so that power can be lost between header and data. Two buffers
a direction and three frames fill a ring and wrap it. Two units of data, one fault and one
retransmission give loss, repetition, and a repeat of what was already taken.

In `services`: two containers and three pids, so that two may end in one pass of the limit check; two watched
processes with trust of both ends and bursts below and above the thresholds; edge tasks of each fate (completed, timed out,
both in one pass) at rounds that skip; two nodes and one lost frame; clocks that go backwards by one and by
more than an interval; five cycles over a ring of four samples, which wraps, and a window of three, shorter than the ring; ELF files with every kind of relocation, fields over one another, two symbols of one name, two addresses and a failing header; WASM
programs with loops, nesting, recursion, traps at each limit and calls into the host; two surfaces that
overlap; circuits of up to three qubits; four messages for a cache of two; three messages a counter's width.

**Fairness.** `WF_vars(Preempt)`: the timer is programmed hardware and its interrupt is
enabled whenever a task executes. `WF_vars(SchedulerInit \/ RegisterCurrentAsTask)`: code
that has the CPU executes. No task is assumed to do anything. `SleepersWake` needs only the
first. `RoundRobin` is checked where all tasks have one priority; with several the code
starves the lower ones by design. `Edge`: `WF(EdgeTick)`, for kernel_loop never ends and calls `edge::tick` whenever it
samples a multiple of 1000; it may miss any of those as long as one is left, which is all that
`EveryTaskSettles` needs. That one is left is a condition, not a fact: `KernelLoop`, whose fairness is the timer's and that `kernel_main` executes
while it has the CPU, shows that the turns of two tasks can fall so that none is ever sampled. `Peers` has no fairness: `PeersLive` states its
condition itself (`TicksMet`: a node that can query or poll again and again does so in the end), and is about the protocol under it. The
network is not assumed to be fair, only to lose boundedly many frames. The other modules state safety only.

**Deadlock** is checked in all runs but `devices`, `services` and `tcp_ack`: there the
bounds on faults, frames, calls and clocks are all used up in the end.

**Locks.** `locks_open` stops at its shortest behaviour, a task interrupted inside `current_tick` while the timer handler waits for
`TICK_COUNT`. With any one of `current_tick`, `process_kill`, `alloc` and `container_stop` as its only entry point, or with `check_permission` and
`spawn`, it is violated as well: the handler waits for the scheduler's lock, the heap's, or (the keyboard's) the containers', and `spawn`
for the sandbox manager's.

**Promises the code does not keep.** Six definitions state what a comment of the code promises, or what its users would expect, beside the property that
does hold, so that it is plain what that one leaves open. They are in no configuration. Added to the one named here, as `INVARIANT` (`NewIsFirst`: `PROPERTY`), TLC
refutes each:

| Definition | Added to | What TLC finds |
|---|---|---|
| `AcceptedIntact` (`Nic`), the card sends what was accepted | `devices.cfg` | with all transmit buffers waiting, the next frame is written over the oldest one, which is never sent |
| `NewIsFirst` (`Storage`), a new file system is saved only where there was no snapshot | `devices.cfg` | one read of a boot times out, and a new file system replaces the snapshot |
| `RefusalsCharged` (`Syscalls`), a refusal counts against who asked | `services.cfg` | it is counted in the sandbox of the process created before |
| `FieldsWritten` (`ElfLoader`), a field inside the image is written | `services.cfg` | one of four bytes at the end of the image is skipped |
| `FramesReturned` (`Wasm`), no frame is left when no call runs | `services.cfg` | a call that traps leaves its frame, which counts against the depth of every later call |
| `LooksTrue` (`Compositor`), only the focused window looks active | `services.cfg` | the focus moves, a frame is composed, and both windows look active |

**Findings.** The six violated runs quote the comment or test that says otherwise, and `PROJECT.json` lists
twenty-seven more places where a comment and the code differ, or where the code does not keep what it promises: the six above, the locks above, and those met while the code was
translated, with the definition that has the code's side.

## 4. Proofs

`tlapm M.tla` for each module `M` whose name ends in `Proofs`, and for `SequenceFacts`. For each component, `Init => IInv` and
`IInv /\ [Next]_vars => IInv'` are proved with a lemma per group of actions, then the properties from `IInv`. TLC checked each
`IInv` first. The only assumptions are the modules' named `ASSUME`s on their constants, in `KernelLocks` `Disciplined`, and in some
theorems of the scheduler `Plain`.

**SequenceFacts.** The prover cannot instantiate the library's induction theorems, which take an operator as a parameter. What it can
use is that the order of numbers is well-founded: a set of counterexamples has a least member (`LeastExists`). From that follow
induction over a set of numbers (`InductUpTo`) and that a recursive function has the value its definition says, step by step (`Iterates`);
these carry the proofs about the models' folds: `Sift`, `respond` for each event, the records of a packet, `serialize` and
`deserialize`. `RingFacts` and `Residues` are about indices that wrap.

**Scheduler** (`TypeCorrect`, `NoReadyLost`, `QueuesAreSound`, `CpuAgrees`, `ContextsAreSaved`,
`PriorityIsStrict`, `WaitsInTurn`, `DispatchesAreOrdered`), for any number of processes, quanta, priorities, waiters and killable
processes. The queue properties are not inductive alone: that a Ready process is queued
needs that the head a dispatch removes is of its own priority and nowhere else in
a queue, that the processes beyond `lastPid` are in no queue, and that a context in a queue is
saved unless its owner executes. The lemmas `HoldsAppend`, `HoldsConcat`, `HoldsTail` and
`InPidOrderEnumerates` say what the queue operations do. `StrictPriority` follows
from the choice of queue (`TopIsFirst`, `ReschedulePicksFirst`) and from idle being the only process of
Idle priority that is queued before it is Ready (`IdleStaysLast`). `InTurn` is the part of round-robin that is a safety property: every operation but `dequeue`
leaves what is in a queue where it is (`Extends`), so of two that wait there the one ahead has the CPU first. That it gets it is liveness, and
checked by `RoundRobin`.

The remaining theorems assume `Plain`, that no task waits and none is killed, which is what the run `sched_plain` instantiates:
`LifecycleImplemented` (every step of `Scheduler` is a step of `CpuLifecycle` or changes no life), `QueuedAreRunnable`,
`QuantumIsFull` and `ResumesSaved` (together `DispatchesAreSound`). Without `Plain` they need not hold: a task that sleeps goes on executing until it is switched out, and one that
is killed may be queued. `PlainInv` adds that what is queued is New or Ready with its whole quantum, and that the current process is Running.

**KernelLocks** (`DisciplineSuffices`, `SuspendedAreHarmless`), for any tasks, entry points and
handlers: a disciplined kernel never spins with interrupts disabled. The invariant
ties what a frame holds and masks to its position in its code (`HeldAt`, `MaskedAt`), and says that
whoever is suspended holds no lock awaited with interrupts disabled. The run `locks` checks the
conclusion for six entry points; the theorem explains it, and says what a new entry point
must keep.

**Dag** (`Convergence`, `HeadsAreNewest`, `HistoriesAreComplete`, `WritesAreStored`,
`DagTypeCorrect`), for any nodes, paths, contents and writers. Convergence is not obvious:
timestamp and author do not order two writes of one node in one tick. The invariant
that is missing from the code is `OneBornNewest`: among the blocks of one path, author and timestamp
only one was newer than its parent when it was made. For if there is such a block already, its author has it
(`AuthorsKeepTheirs`), so the author's head is not older than it, and a new block alike follows
a head it does not beat. Only blocks born newest become heads (`HeadsBornNewest`, from
complete histories), and a head is a newest block, so two nodes with equal stores have the same.

`SyncsProgress` needs no induction on the ancestry of blocks, which the prover could not do: `Founded` says that of any
set of blocks ever made one follows none of the others, and a new block follows only blocks that were there and is followed by none,
so a step keeps it. Applied to what one node lacks, it gives a block whose parents that node has, which `sync_diff` sends
and `insert` takes.

**Supervisor** (`KillsAreOnce`, `ContainersEndTheirTasks`), for any pids, containers and modules. Whether a pid may still be killed
depends on where it is between two locks: `PidOnce` says it is in the registry, or on its way into it or out of it in the
kernel's task, never twice, and in all of these it has not been ended. `BoxHolds` says that what a container ever started is
ended or still held, and that only a running container holds anything; it survives a limit check that stops several at once.

**LineEditor** (`EditorTypeInvariant`, `EchoIsFaithful`), for any characters, commands and bounds: cursor and history index never leave their
sequences, so no `remove`, `insert` or slice of the code is out of bounds. The positions the editor looks for (the start of a
word, the newest match) are stated with CHOOSE; that they exist is `LeastExists` and `GreatestExists`. That the terminal shows the line
is then a fact about what is written where: `Typed`, `Moved`, `Erased` and `Repainted` say what each kind of write leaves on a row of
the terminal and of blanks. The invariant adds one thing that no key shows: a search that the user began on an empty line, and not `stale`, has an empty line under it.

**Storage** (`SavesAreOnDisk`, `BootsRestore`, `StorageTypes`), for any files and contents, any disk that holds a snapshot, and any number of
requests that time out or fail. `RoundTrip` says that what `serialize` writes `deserialize` accepts and gives back: where a file
starts is the sum of the lengths before it, which are read from the bytes themselves. `SavesAreOnDisk` is about requests that were
abandoned and are served later from the shared buffers. `StorageInv` says why they do no harm: a save polls until the device has
completed all there is in the ring, so abandoned writes are served while its first chunk is waited for, or not at all (`Alone`), and what
they spoil is written again by that save. The request that is waited for is the last one the device takes, with the header and data
of that chunk (`RingSound`, `SaveSound`). What it cannot exclude is a *read* that was abandoned and is served during a save: it overwrites the data buffer, and
`late` excepts it (the hazard at `virtio_blk.rs:299`). `BootsRestore` is then `RoundTrip` on what `LoadSound` says was read.

**Edge** (`SettledOnceAlways`), for any nodes, kinds and rounds. `PassFacts` splits what one pass does to the tasks into
disjoint sets, completed and timed out, which were running or queued before; the counters follow by cardinality of disjoint unions (`TaskSets`, `Grows`).

**TcpSocket** (`NothingUnsentIsAcknowledged`, `StreamsStayIntact`), for any number of units, of lost or repeated segments and of
retransmissions. `dispatch_tcp` looks at no sequence number, so what bounds its counts is what can be under way: every
segment ends within what its sender has made (`FromTask`, `FromPeers`). That is not inductive alone, because a FIN is counted on top of
whatever was acknowledged before: `Acks` says that an Established socket has acknowledged data only, never the FIN. Without loss or
repetition the segments to the socket follow one another from what it expects to what the peer sends next (`Chain`), which is why
the data is in order although nobody sorts it. A call transmits with the numbers it read before it released the lock; `Prepared` says that its sequence
number is still the socket's then (only the calls and the handshake change it). Its acknowledgement may be old by then, which no promise needs.

**Nic** (`FramesArriveOnce`, `FramesSentAsWritten`; together `FramesAreKept`), for any ring and index widths, buffers and frames. The driver's and the device's indices
run freely and wrap, so nothing can be said of them but how far each is ahead of the other (`Ahead`), and that only while the distance
stays below the width; `NicInv` bounds the distances by the rings' sizes and says which buffer and which element each slot between
two indices holds. That no receive buffer is in two slots is what keeps a received frame from being overwritten before it is read. A transmit buffer may be in
two: since the buffers are taken in turn, those slots are a multiple of `TX_BUF_COUNT` apart, and both send the frame that was written last.

**ThreatEngine** (`QuarantineIsKnown`, `ChargedOnce`), for any processes, scores and windows. `analyze` answers a sequence of
events, each on what the response to the former left. `Final` says that once an event has a process terminated every later one about it does too,
so that no response quarantines a process that is gone; `Consistent` that the quarantined are the profiles marked so, which each response keeps; and `Quiet` that a process
that did nothing since its last window has no counter above its threshold, so that a scan charges nobody for old deeds.

**Peers** (`PeersAreReal`), for any nodes, any number of lost frames and queries, and any order of arrival: a node lists only other
nodes of the segment, although answers are parsed by counts that the packet itself gives. `Genuine` says that every
frame under way was made by a node of what it had to say, and `ParseIsInverse` that parsing what was built gives back what went in.

**StoreWriters** (`TrailsFollow`), for any sessions, devices and contents, with other writers between any two of `write_signed`'s five steps: the
handoffs of a session lead from this device to the one that has it, its state is in the store for that device, and every block is judged once.
`WritersInv` has the typing of heads and the parts of the property; that a session's write is not beaten by an earlier one is `WriteFacts`.

**SecureChannel** (`NoncesStayFresh`), for any peers, texts and ticks of one boot, assuming (`ChannelAssumption`) that a tick has room for fewer
messages than the 2^32 values a nonce keeps of the counter. Nonces of different ticks differ in the tick; those of one tick are, by
`Recent`, among the session's last counts, as many as messages were sent in the tick, so they are less than 2^32 apart (`Residues`). What
`decrypt` lets through is the text that was sent (`OnlyTheEmptyReturns`): it is the empty text only, as the finding about its tag says.

**Gossip** (`FloodsEnd`, `RoutesAreBest`), for any origins, hops, versions, offers and cache sizes. The cache is dropped from its old end only, so it is a
suffix of what was let through: all of it, or more than `SeenLimit - SeenDrained` of it. A message as old as one passed on before is therefore let through
only when that one is further back. The routing table has one route per destination, which was offered and is bettered by no other offer.

**Engines, Cloud, Programs** (`EnginesStayTrue`, `CloudStaysTrue`, `ProgramsStayTrue`) put the theorems of `Monitor`, `Cognition` and `Telemetry`, those of
`Gossip` and `SecureChannel`, and those of `ElfLoader`, `Syscalls`, `Wasm` and `Compositor` side by side; the paragraphs on these modules give the arguments.

**Monitor** (`AlertsStayTrue`), for any heaps, ticks and bounds: the list grows for ever and `has_alert` looks for an alert that is not cleared, so what is needed is that
there is at most one such alert of each kind; raising and clearing them in the order of `check_alerts` keeps it.

**Cognition** (`ActionsAreEarned`), for any cooldowns, periods and clocks that go backwards. Counts and approvals only grow; that two actions of a
pattern are a cooldown apart is not inductive until the log is tied to the pattern: no entry of it is later than the pattern's last execution, since `can_execute`
refuses a tick before it.

**Telemetry** (`WindowsAreTrue`, `IdleCyclesAct`), for any ring, window and readings. Sample number `i` is in slot `i % RingSize` as long as it is among the last `RingSize`,
so the window read backwards from the head is the samples' tail. `IdleActs` is arithmetic on the code's weights: of an idle processor the output that asks for a
synchronisation is above its threshold whatever the other features are, and applied optimisations are counted by cardinality.

**Syscalls** (`AnswersStayTrue`), for any processes, permissions and preemptions: every number given out is below the counter it came from; a job whose submission is
between its two locks has been answered to nobody; and the refusals a sandbox counts are the answers to the one process that is charged there.

**ElfLoader** (`ModulesAreSound`, `SymbolsAreLive`), for any files and addresses of the allocator. A section starts where the sections before it end,
rounded up, so `Ends` only grows: sections are apart and inside the image, and an offset rounded up to a power of two is a multiple of it. A byte of a section that was
copied is then that section's own, whatever was copied after it. For a field, the addend and the place that `apply_relocation` adds and takes away cancel
modulo 2^32; that what comes out is the target, and not just congruent to it, is `WideEnough`. `ElfInv` says that every module in the list is what `LoadedModule`
makes of its file at its address, which unloading others keeps (`Sift`).

**Wasm** (`WasmStaysBounded`, `FramesAreOwned`), for any modules and byte code, well formed or not. No fact about the code can be used, since nothing validates it:
each instruction is shown to keep `WasmInv` from what it checks itself. The frames an instance holds are those of the calls under way on top of those that
failed calls have left (`abandoned`, of which the theorem says nothing), so that an index from the end is always the running function's; a trap moves the frames
of all the calls under way to the others at once.

**Compositor** (`FrameIsTrue`, `FocusIsOne`, `QueuesAndBuffersFit`), for any surfaces, boxes, moves and layers. A pixel is the top's of the surfaces under it in the order they are
drawn, and a click finds the highest: both exist because the surfaces are finitely many, and they are equally high although ties are resolved differently. `CompositorInv` says
that a focused window that is not dirty is drawn as the active one, and that an undamaged frame was composed from the surfaces as they still are. The converse of the first does not
hold: `focus_surface` marks the surface that gains the focus and not the one that loses it.

**Quantum** (`EvolutionIsTrue`), for any circuits, jobs and draws. The sum of the weights `|a|^2` over all 2^n amplitudes is multiplied by 1 or 2 at
each gate, as `halvings` says: flipping a bit is a permutation of the indices and a sum does not depend on the order of its terms (`TotalRearranged`), and the
Hadamard gate gives each pair of amplitudes the sum and the difference, whose weights are twice those of the pair. A gate done and undone, from the last to the
first, gives the state before it times a power of two (`Undone`), so what is left at the end is a multiple of the ground state. An outcome
is where the cumulative sum first exceeds the draw: the sum rises there, so the weight is positive; that it exceeds the draw somewhere is the total
being one and the draw less than a half. With `<=` in place of `<`, as in the mutant, the outcome 0 is measured of states that do not have it.

**Devices, Services** (`DevicesAreTyped`, `ServicesAreTyped`) conjoin the type invariants of what runs side by side. Each follows from the inductive invariant of its module; for
the line editor and the compositor it says that no position computed from keys and boxes is out of bounds.

**Only model-checked.** Liveness: `SleepersWake`, `RoundRobin`, `EveryTaskSettles` and `PeersLive`, which are out of this prover's reach. Every invariant and every
action property that a passing run checks is a theorem. `KernelLoop` is there for its counterexample and has no theorem.

## 5. Not modelled

- **Order of nested locks.** `KernelLocks` has the locks that meet interrupts disabled. A second discipline, that the order of
  all the others has no cycle, needs the nesting of every entry point of every subsystem.
- **Protocols without a state of their own**: ARP, DHCP and DNS are one request and one answer in a boot that goes on
  without them; UDP ports deliver a payload to a handler.
- **stat, connect, send, recv and p2p_send of the system calls** only pass their arguments on.
- **Code without a caller**: `pause` and `resume` of containers, the result collector and the edge messages, `update_score`, the
  optimiser's statistics, `destroy_sandbox`, the volumes of `virt.rs`.
- **Boot as one sequence.** Each module's Init is the state after the initialisation of its component and the demonstration it
  runs; the demonstrations' output is not modelled.
- **Data**: fonts, colours, layouts and text, the ciphers and hashes (a key, a hash or a text is what it is computed from),
  angles of a quantum gate that are not multiples of half a turn, values of WASM types other than i32, and what
the bit operations and shifts of i32 compute.
- **Boot-time hardware setup**: paging, the frame allocator, descriptor tables, feature negotiation.
- **The ARM port**, which the default target does not build.

`Gossip.ReceiveGossip`, `SecureChannel.EncryptFor` and `Decrypt`, the system calls other than the keyboard's write, and the compositor's frame and
mouse have no caller in the repository: they are modelled as the interfaces they are, called in any order.
