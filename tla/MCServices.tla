----------------------------- MODULE MCServices -----------------------------
(* The services above the scheduler, checked side by side: processes and     *)
(* containers, the threat engine, edge computing, discovery and transport,   *)
(* the monitor, the cognitive engine and the writers of the store; and the   *)
(* runtimes beside them.  They share no state; focus names the one that       *)
(* moves.                                                                    *)
EXTENDS Services

VARIABLE focus

MCTrustOf == [p \in {10, 12} |-> CASE p = 10 -> "system"
                                      [] p = 12 -> "untrusted"]
MCBursts == [syscalls |-> {300, 600}, writes |-> {60}, denied |-> {5}]

Phone == [cpu |-> 88, mem |-> 50, gpu |-> 25, load |-> 20, latency |-> 0, hot |-> FALSE,
          lowBattery |-> FALSE,
          supported |-> {"Compute", "MLInference", "Render3D", "DataProcessing"}]
Computer == [cpu |-> 80, mem |-> 0, gpu |-> 0, load |-> 10, latency |-> 0, hot |-> FALSE,
             lowBattery |-> FALSE,
             supported |-> {"Compute", "MLInference", "DataProcessing", "Compression",
                            "Encryption"}]
MCProfileOf == << Phone, Computer >>
MCStateOf == << "online", "online" >>

Segment(type, alloc, align, size) ==
  [type |-> type, alloc |-> alloc, align |-> align, size |-> size, inFile |-> TRUE]
Symbol(name, section, value, global) ==
  [name |-> name, section |-> section, value |-> value, global |-> global]
Relocation(target, offset, type, sym, addend) ==
  [target |-> target, offset |-> offset, type |-> type, sym |-> sym, addend |-> addend]
(* ELF files: two modules that name each other and the kernel, with fields of   *)
(* every type, one of them the last of the image, and one that is refused.     *)
MCFiles ==
  [a |-> [faults |-> {},
          sections |-> << Segment("progbits", TRUE, 4, 14), Segment("rela", FALSE, 8, 72),
                          Segment("progbits", TRUE, 8, 8), Segment("nobits", TRUE, 8, 12) >>,
          symbols |-> << Symbol("init", 1, 3, TRUE), Symbol("table", 3, 0, TRUE),
                         Symbol("print", 0, 0, TRUE), Symbol("count", 4, 4, TRUE),
                         Symbol("lost", 0, 0, TRUE) >>,
          relas |-> << Relocation(1, 0, "PC32", 2, -4), Relocation(1, 6, "64", 3, 0),
                       Relocation(3, 0, "64", 1, 0), Relocation(4, 0, "PLT32", 3, -4) >>],
   b |-> [faults |-> {},
          sections |-> << Segment("progbits", TRUE, 1, 18), Segment("progbits", TRUE, 4, 8) >>,
          symbols |-> << Symbol("init", 1, 0, TRUE), Symbol("exit", 2, 3, TRUE),
                         Symbol("local", 1, 5, FALSE), Symbol("exit", 2, 8, TRUE) >>,
          relas |-> << Relocation(1, 1, "32", 1, 2), Relocation(1, 6, "other", 1, 0),
                       Relocation(1, 5, "32", 1, 0), Relocation(1, 7, "32S", 1, 1),
                       Relocation(2, 0, "32S", 4, -1), Relocation(2, 4, "32", 1, 0) >>],
   c |-> [faults |-> {"NotElf64", "WrongArchitecture"}, sections |-> << >>, symbols |-> << >>,
          relas |-> << >>]]
MCKernelExports == [print |-> 40]

Function(params, locals, results, code) ==
  [params |-> params, locals |-> locals, results |-> results, code |-> code]
Program(imports, functions, pages, data) ==
  [faults |-> {}, imports |-> imports, functions |-> functions, typed |-> TRUE,
   pages |-> pages, data |-> data]
(* WASM programs: a sum in a loop, a recursion with two branches, blocks left *)
(* early, memory, globals, calls, bits and floats, nothing at all.           *)
Sum == Function(1, 1, 1, << 3, 64, 32, 1, 32, 0, 106, 33, 1, 32, 0, 65, 1, 107, 34, 0, 13, 0, 11,
                            32, 1 >>)
Deep == Function(1, 0, 1, << 32, 0, 4, 64, 32, 0, 65, 1, 107, 16, 2, 26, 5, 65, 11, 26, 11,
                             32, 0 >>)
Choice == Function(1, 0, 0, << 65, 1, 2, 64, 12, 0, 32, 0, 69, 4, 64, 15, 11, 11, 26, 1, 66, 0 >>)
Cells == Function(2, 0, 1, << 32, 0, 32, 1, 54, 2, 0, 32, 0, 40, 2, 1, 26, 63, 0, 64, 0, 32, 1,
                              32, 0, 109, 34, 3 >>)
Globals == Function(1, 0, 1, << 32, 0, 36, 1, 35, 1, 35, 0, 65, 1, 27 >>)
Bare == Function(0, 0, 0, << 0 >>)
Calls == Function(1, 0, 1, << 32, 0, 16, 0, 32, 0, 16, 1, 32, 0, 16, 2, 74 >>)
Bits == Function(0, 0, 0, << 65, 1, 65, 2, 113, 26, 67, 0, 0, 0, 0, 192, 0, 68, 1 >>)
Empty == Function(0, 0, 0, << >>)
MCWasmModules ==
  [demo |-> Program(<< "log", "value" >>,
                    << Deep, Sum, Choice, Cells, Calls, Empty, Bare, Globals >>, 1,
                    << [offset |-> 2, bytes |-> << 1, 2 >>] >>),
   host |-> Program(<< "abort" >>, << Bare, Sum, Bits >>, 2, << >>),
   big |-> Program(<< >>, << Sum >>, 5, << >>),
   broken |-> [Program(<< >>, << Sum >>, 1, << >>) EXCEPT !.faults = {"InvalidMagic"}]]
Int32(n) == [i32 |-> TRUE, n |-> n]
MCArguments == {<< >>, << Int32(2), Int32(5) >>, << Int32(-3), Int32(1), Int32(4) >>,
                << Int32(0) >>}

MCSurfaceBoxes == {[x |-> 0, y |-> 0, w |-> 2, h |-> 2], [x |-> -1, y |-> 1, w |-> 3, h |-> 3]}
MCMoves == {<< -2, -1 >>, << 2, 0 >>}

Reading(busy, heap, near, refusals) ==
  [running |-> busy, heap |-> heap, peers |-> near, violations |-> refusals, switches |-> 500]
MCReadings == {Reading(0, 50, 0, 0), Reading(1, 97, 0, 0), Reading(1, 99, 0, 0),
               Reading(0, 95, 3, 85), Reading(1, 20, 0, 0)}

MCCircuits ==
  [bell |-> [qubits |-> 2, gates |-> << << "H", 0 >>, << "CNOT", 0, 1 >>,
                                        << "Measure", 0 >>, << "Measure", 1 >> >>],
   mixed |-> [qubits |-> 3, gates |-> << << "X", 1 >>, << "H", 0 >>, << "Rz", 0 >>, << "H", 0 >>,
                                         << "CNOT", 1, 2 >>, << "CNOT", 2, 0 >>,
                                         << "CCX", 0, 1, 2 >>, << "H", 2 >> >>],
   wide |-> [qubits |-> 4, gates |-> << >>]]

MCRouteOffers == {<< "a", "a", 1, 9 >>, << "a", "b", 2, 1 >>, << "a", "c", 1, 5 >>}

MCCooldown == [p \in PatternNames |-> IF p = "mobile" THEN 2 ELSE 3]

Others(name) ==
  /\ name # "supervisor" => UNCHANGED supervisorVars
  /\ name # "threat" => UNCHANGED threatVars
  /\ name # "edge" => UNCHANGED edgeVars
  /\ name # "peers" => UNCHANGED peersVars
  /\ name # "monitor" => UNCHANGED monitor
  /\ name # "cognition" => UNCHANGED cognitionVars
  /\ name # "writers" => UNCHANGED writersVars
  /\ name # "telemetry" => UNCHANGED telemetryVars
  /\ name # "elf" => UNCHANGED elfVars
  /\ name # "wasm" => UNCHANGED wasmVars
  /\ name # "compositor" => UNCHANGED compositorVars
  /\ name # "quantum" => UNCHANGED quantumVars
  /\ name # "gossip" => UNCHANGED gossipVars
  /\ name # "channel" => UNCHANGED channelVars
  /\ name # "syscalls" => UNCHANGED syscallsVars

Init ==
  /\ focus \in {"supervisor", "threat", "edge", "peers", "monitor", "cognition", "writers",
               "telemetry", "elf", "wasm", "compositor", "quantum", "gossip", "channel",
               "syscalls"}
  /\ SupervisorInit /\ ThreatInit /\ EdgeInit /\ PeersInit
  /\ MonitorInit /\ CognitionInit /\ WritersInit
  /\ TelemetryInit /\ ElfInit /\ WasmInit /\ CompositorInit /\ QuantumInit
  /\ GossipInit /\ ChannelInit /\ SyscallsInit
  /\ focus # "cognition" => clock = 0

Next ==
  /\ focus' = focus
  /\ \/ focus = "supervisor" /\ SupervisorNext
     \/ focus = "threat" /\ ThreatNext
     \/ focus = "edge" /\ EdgeNext
     \/ focus = "peers" /\ PeersNext
     \/ focus = "monitor" /\ MonitorNext
     \/ focus = "cognition" /\ CognitionNext
     \/ focus = "writers" /\ WritersNext
     \/ focus = "telemetry" /\ TelemetryNext
     \/ focus = "elf" /\ ElfNext
     \/ focus = "wasm" /\ WasmNext
     \/ focus = "compositor" /\ CompositorNext
     \/ focus = "quantum" /\ QuantumNext
     \/ focus = "gossip" /\ GossipNext
     \/ focus = "channel" /\ ChannelNext
     \/ focus = "syscalls" /\ SyscallsNext
  /\ Others(focus)

vars == << focus, supervisorVars, threatVars, edgeVars, peersVars, monitor,
           cognitionVars, writersVars, telemetryVars, elfVars, wasmVars, compositorVars,
           quantumVars, gossipVars, channelVars, syscallsVars >>

(* The fairness of Edge, for the service that moves. *)
Fairness == WF_edgeVars(focus = "edge" /\ EdgeTick)

Spec == Init /\ [][Next]_vars /\ Fairness

(* What a node does from ticks it must not keep missing: kernel_loop reads a  *)
(* multiple of 1000 again and again, and of 20 while frames wait.  This is a  *)
(* condition and not a fact (KernelLoop!CadenceKept is violated).             *)
TicksMet ==
  \A n \in Nodes : /\ WF_peersVars(focus = "peers" /\ Query(n))
                  /\ WF_peersVars(focus = "peers" /\ Poll(n))

(* In a behaviour of Peers in which no node misses those ticks for ever, every *)
(* two nodes get to know each other, although the announcement made at boot is *)
(* not sent and frames are lost (discovery::tick, handle_packet).             *)
PeersLive == focus = "peers" /\ TicksMet => EventuallyKnown
=============================================================================
