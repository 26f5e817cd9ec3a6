------------------------------- MODULE Quantum -------------------------------
(* Quantum circuits (quantum/mod.rs): jobs are submitted and simulated on a   *)
(* state vector.  An amplitude is [re, im] in units of 1/sqrt(2)^halvings;    *)
(* the angle of Rz is half a turn, which keeps it exact.  A draw is one of    *)
(* Resolution equal steps of [0, 1).                                         *)
EXTENDS Integers, Sequences

CONSTANTS Circuits,    \* name -> [qubits, gates]
          Backends,    \* where a job may run: "local" and others
          MaxQubits,   \* 20
          Resolution,  \* steps a random number in [0, 1) may take
          MaxJobs      \* bound: jobs submitted

ASSUME QuantumAssumption ==
  MaxQubits \in Nat /\ Resolution \in Nat \ {0} /\ MaxJobs \in Nat

(* A gate acts on qubits of its circuit: the simulation of another panics,    *)
(* at an index beyond the state vector.                                      *)
Acts(gate, qubits) ==
  /\ gate[1] \in {"H", "X"} => gate[2] \in 0 .. qubits - 1
  /\ gate[1] = "CNOT" => gate[2] \in Nat /\ gate[3] \in 0 .. qubits - 1
  /\ gate[1] = "Rz" => gate[2] \in Nat

ASSUME CircuitsAssumption ==
  \A c \in DOMAIN Circuits :
    /\ Circuits[c].qubits \in Nat /\ Len(Circuits[c].gates) \in Nat
    /\ \A k \in 1 .. Len(Circuits[c].gates) : Acts(Circuits[c].gates[k], Circuits[c].qubits)

VARIABLE jobs   \* QuantumEngine.jobs, by id: [circuit, backend, state, outcomes]
quantumVars == << jobs >>
QuantumInit == jobs = << >>

----------------------------------------------------------------------------
(* Powers and sums are recursive functions: what a library's fold returns     *)
(* cannot be proved.                                                         *)
TwoTo(k) ==
  LET power[i \in 0 .. k] == IF i = 0 THEN 1 ELSE 2 * power[i - 1]
  IN  power[k]

\* The sum of the first n values of w, from w[0] on.
Total(w, n) ==
  LET sum[i \in 0 .. n] == IF i = 0 THEN 0 ELSE sum[i - 1] + w[i - 1]
  IN  sum[n]

Bit(i, q) == (i \div TwoTo(q)) % 2
Flipped(i, q) == IF Bit(i, q) = 0 THEN i + TwoTo(q) ELSE i - TwoTo(q)

Amp(re, im) == [re |-> re, im |-> im]
Plus(a, b) == Amp(a.re + b.re, a.im + b.im)
Minus(a, b) == Amp(a.re - b.re, a.im - b.im)
MagnitudeSq(a) == a.re * a.re + a.im * a.im
Weights(s) == [i \in DOMAIN s.amps |-> MagnitudeSq(s.amps[i])]

Ground(n) == [amps |-> [i \in 0 .. TwoTo(n) - 1 |-> IF i = 0 THEN Amp(1, 0) ELSE Amp(0, 0)],
              halvings |-> 0]

\* The difference is taken the other way round in both halves.
HadamardSum(s, q) ==
  [amps |-> [i \in DOMAIN s.amps |-> Plus(s.amps[i], s.amps[Flipped(i, q)])],
   halvings |-> s.halvings + 1]

(* apply_h: the sum in the half where the qubit is 0, the difference in the other. *)
Hadamard(s, q) ==
  [amps |-> [i \in DOMAIN s.amps |->
               IF Bit(i, q) = 0 THEN Plus(s.amps[i], s.amps[Flipped(i, q)])
               ELSE Minus(s.amps[Flipped(i, q)], s.amps[i])],
   halvings |-> s.halvings + 1]

(* apply_x and apply_cnot: pairs are swapped once, when met from below, and   *)
(* for cnot only if the control is set there.                                *)
Below(i, q) == IF i < Flipped(i, q) THEN i ELSE Flipped(i, q)
NotGate(s, q) == [s EXCEPT !.amps = [i \in DOMAIN @ |-> @[Flipped(i, q)]]]
ControlledNot(s, c, q) ==
  [s EXCEPT !.amps = [i \in DOMAIN @ |-> IF Bit(Below(i, q), c) = 1 THEN @[Flipped(i, q)]
                                         ELSE @[i]]]

(* apply_rz by half a turn: -i where the qubit is 0, i where it is 1. *)
HalfTurn(s, q) ==
  [s EXCEPT !.amps = [i \in DOMAIN @ |-> IF Bit(i, q) = 0 THEN Amp(@[i].im, -@[i].re)
                                         ELSE Amp(-@[i].im, @[i].re)]]

(* run: the gates it does not know, and measurements, change nothing. *)
AppliedGate(s, gate) ==
  CASE gate[1] = "H" -> Hadamard(s, gate[2])
    [] gate[1] = "X" -> NotGate(s, gate[2])
    [] gate[1] = "CNOT" -> ControlledNot(s, gate[2], gate[3])
    [] gate[1] = "Rz" -> HalfTurn(s, gate[2])
    [] OTHER -> s
Evolved(n, gates) ==
  LET state[k \in 0 .. Len(gates)] ==
        IF k = 0 THEN Ground(n) ELSE AppliedGate(state[k - 1], gates[k])
  IN  state[Len(gates)]

Smallest(K) == CHOOSE k \in K : \A l \in K : k <= l

\* An outcome whose probabilities up to it only reach the draw.
SampledAtLeast(s, draw) ==
  LET reach == {i \in DOMAIN s.amps :
                 draw * TwoTo(s.halvings) <= Resolution * Total(Weights(s), i + 1)}
  IN IF reach = {} THEN 0 ELSE Smallest(reach)

(* A shot: the first outcome with which the probabilities exceed the draw, or *)
(* 0.  The draws have 31 bits and are divided by 2^32: they are below a half. *)
Sampled(s, draw) ==
  LET exceed == {i \in DOMAIN s.amps :
                  draw * TwoTo(s.halvings) < Resolution * Total(Weights(s), i + 1)}
  IN IF exceed = {} THEN 0 ELSE Smallest(exceed)
Draws == {d \in 0 .. Resolution - 1 : 2 * d < Resolution}

----------------------------------------------------------------------------
SubmitJob(c, backend) ==
  /\ Len(jobs) < MaxJobs
  /\ jobs' = Append(jobs, [circuit |-> c, backend |-> backend, state |-> "queued",
                           outcomes |-> {}])

(* process_jobs: of every queued job, in one go; the outcomes are those of    *)
(* some draws.                                                               *)
Finished(job, draws) ==
  LET c == Circuits[job.circuit] IN
  IF job.backend # "local" \/ c.qubits > MaxQubits THEN [job EXCEPT !.state = "failed"]
  ELSE [job EXCEPT !.state = "completed",
                   !.outcomes = {Sampled(Evolved(c.qubits, c.gates), d) : d \in draws}]
ProcessJobs ==
  /\ \E k \in DOMAIN jobs : jobs[k].state = "queued"
  /\ \E draws \in (SUBSET Draws) \ {{}} :
       jobs' = [k \in DOMAIN jobs |-> IF jobs[k].state = "queued"
                                      THEN Finished(jobs[k], draws) ELSE jobs[k]]

QuantumNext ==
  \/ \E c \in DOMAIN Circuits, backend \in Backends : SubmitJob(c, backend)
  \/ ProcessJobs

QuantumSpec == QuantumInit /\ [][QuantumNext]_quantumVars

(* The gates undone from the last to the first: each is its own inverse but   *)
(* for half a turn, which three more complete.                               *)
UndoneGate(s, gate) ==
  IF gate[1] = "Rz" THEN HalfTurn(HalfTurn(HalfTurn(s, gate[2]), gate[2]), gate[2])
  ELSE AppliedGate(s, gate)
Undone(s, gates) ==
  LET back[k \in 0 .. Len(gates)] ==
        IF k = 0 THEN s ELSE UndoneGate(back[k - 1], gates[Len(gates) + 1 - k])
  IN  back[Len(gates)]

(* A completed job was simulated by a unitary evolution: the probabilities    *)
(* sum up to one, the circuit undone leads back to the ground state, and no   *)
(* outcome is one the circuit cannot give (apply_h, apply_x, apply_cnot,     *)
(* apply_rz, run).                                                           *)
EvolutionTrue ==
  \A k \in DOMAIN jobs : jobs[k].state = "completed" =>
    LET c == Circuits[jobs[k].circuit]
        s == Evolved(c.qubits, c.gates)
        back == Undone(s, c.gates)
    IN /\ Total(Weights(s), TwoTo(c.qubits)) = TwoTo(s.halvings)
       /\ MagnitudeSq(back.amps[0]) = TwoTo(back.halvings)
       /\ jobs[k].outcomes # {}
       /\ \A o \in jobs[k].outcomes : MagnitudeSq(s.amps[o]) > 0
=============================================================================
