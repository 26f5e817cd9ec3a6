---------------------------- MODULE StoreWriters ----------------------------
(* Those who leave their state in the versioned store: cross-device sessions  *)
(* and the clipboard (xdev.rs), and write_signed with its trust chain         *)
(* (dag_sig.rs).  The kernel's task signs in four critical sections; the      *)
(* keyboard's commands run, each to its end, between any two of them.  The    *)
(* store is what module Dag says of one node: the head of each path.         *)
EXTENDS Naturals, FiniteSets, Sifting

CONSTANTS Remote,     \* devices simulate_cluster registers
          SignedPaths,\* paths write_signed is called with
          Contents,   \* contents: of the clipboard, of sessions and of files
          MaxSessions,\* bound
          MaxHandoffs,\* bound
          MaxWritten, \* bound: blocks in the store
          MaxClock    \* bound

This == "this"
None == "none"

ASSUME StoreWritersAssumption ==
  /\ This \notin Remote /\ None \notin Contents
  /\ MaxSessions \in Nat /\ MaxHandoffs \in Nat
  /\ MaxWritten \in Nat \ {0} /\ MaxClock \in Nat \ {0}

VARIABLES
  now,      \* the scheduler's current_tick
  head,     \* Dag.heads: path -> the block that is read
  sequence, \* Dag.sequence, the number of blocks inserted
  bus,      \* XDEV: sessions, events, clipboard
  copies,   \* ghost: copies to the clipboard in the tick of the last one
  chain,    \* TRUST_CHAIN: verdicts and counters
  signing   \* where the kernel's task is in write_signed

writersVars == << now, head, sequence, bus, copies, chain, signing >>

Session(s) == << "sessions", s >>
Clipboard == << "clipboard", 0 >>
File(p) == << "file", p >>
NotSigning == [at |-> "idle", path |-> None, payload |-> None, parent |-> << >>, seq |-> 0, ts |-> 0]

(* After init and run_demo's simulate_cluster. *)
WritersInit ==
  /\ now = 1 /\ head = << >> /\ sequence = 1
  /\ bus = [sessions |-> << >>, events |-> << >>, clipboard |-> None]
  /\ copies = 0
  /\ chain = [verdicts |-> << >>, ok |-> 0, fail |-> 0]
  /\ signing = NotSigning

(* dag::write with the tick it read: a block is always inserted, and becomes  *)
(* the head of its path if it is newer (module Dag).                         *)
HeadBlock(ts, payload) == [ts |-> ts, payload |-> payload]
TakesHead(ts, path) == path \notin DOMAIN head \/ ts > head[path].ts
DagWrite(ts, path, payload) ==
  /\ sequence < MaxWritten
  /\ sequence' = sequence + 1
  /\ head' = IF TakesHead(ts, path)
             THEN [q \in DOMAIN head \cup {path} |->
                     IF q = path THEN HeadBlock(ts, payload) ELSE head[q]]
             ELSE head

TimePasses ==
  /\ now < MaxClock
  /\ now' = now + 1
  /\ UNCHANGED << head, sequence, bus, copies, chain, signing >>

----------------------------------------------------------------------------
(* Sessions and the clipboard *)

CreateSession(payload) ==
  /\ Len(bus.sessions) < MaxSessions
  /\ bus' = [bus EXCEPT !.sessions =
               Append(@, [payload |-> payload, current |-> This, state |-> "active"])]
  /\ UNCHANGED << now, head, sequence, copies, chain, signing >>

(* handoff; a session or a device that is not known is an error, and nothing  *)
(* changes.                                                                  *)
\* from is read after the assignment to current.
FromTarget(s, target) == target

From(s, target) == bus.sessions[s].current

Handoff(s, target) ==
  /\ s \in DOMAIN bus.sessions /\ Len(bus.events) < MaxHandoffs
  /\ bus' = [bus EXCEPT
               !.sessions[s] = [@ EXCEPT !.current = target, !.state = "resumed"],
               !.events = Append(@, [session |-> s, from |-> From(s, target), to |-> target])]
  /\ DagWrite(now, Session(s), bus.sessions[s].payload)
  /\ UNCHANGED << now, copies, chain, signing >>

LastCopy == IF Clipboard \in DOMAIN head THEN head[Clipboard].ts ELSE 0
ClipboardCopy(content) ==
  /\ DagWrite(now, Clipboard, content)
  /\ bus' = [bus EXCEPT !.clipboard = content]
  /\ copies' = IF LastCopy = now THEN copies + 1 ELSE 1
  /\ UNCHANGED << now, chain, signing >>

----------------------------------------------------------------------------
(* write_signed.  A hash stands for what is hashed; the node's own key is the *)
(* Owner's, so no author of a block is unknown or revoked.                   *)
HashOf(step) == [path |-> step.path, payload |-> step.payload, parent |-> step.parent,
                 seq |-> step.seq, ts |-> step.ts]

(* The tick, then the head of the path. *)
ReadHead(path, payload) ==
  /\ signing.at = "idle"
  /\ signing' = [NotSigning EXCEPT !.at = "seq", !.path = path, !.payload = payload, !.ts = now,
                   !.parent = IF File(path) \in DOMAIN head THEN << head[File(path)] >> ELSE << >>]
  /\ UNCHANGED << now, head, sequence, bus, copies, chain >>

ReadSequence ==
  /\ signing.at = "seq"
  /\ signing' = [signing EXCEPT !.at = "verify", !.seq = sequence]
  /\ UNCHANGED << now, head, sequence, bus, copies, chain >>

(* verify_block: a verdict is given once for each hash. *)
Judged(hash) == hash \in DOMAIN chain.verdicts
WithVerdict(hash, ok) ==
  [h \in DOMAIN chain.verdicts \cup {hash} |-> IF h = hash THEN ok ELSE chain.verdicts[h]]
\* The counters move with every call.
VerifiedAgain(hash, genuine) ==
  [verdicts |-> IF Judged(hash) THEN chain.verdicts ELSE WithVerdict(hash, genuine),
   ok |-> chain.ok + (IF genuine THEN 1 ELSE 0),
   fail |-> chain.fail + (IF genuine THEN 0 ELSE 1)]

Verified(hash, genuine) ==
  IF Judged(hash) THEN chain
  ELSE [verdicts |-> WithVerdict(hash, genuine),
        ok |-> chain.ok + (IF genuine THEN 1 ELSE 0),
        fail |-> chain.fail + (IF genuine THEN 0 ELSE 1)]

Verify ==
  /\ signing.at = "verify"
  /\ chain' = Verified(HashOf(signing), TRUE)
  /\ signing' = IF Judged(HashOf(signing)) /\ ~chain.verdicts[HashOf(signing)]
                THEN NotSigning ELSE [signing EXCEPT !.at = "tick"]
  /\ UNCHANGED << now, head, sequence, bus, copies >>

(* dag::write makes a block of its own, with a parent and a tick of its own.  *)
SampleTick ==
  /\ signing.at = "tick"
  /\ signing' = [signing EXCEPT !.at = "store", !.ts = now]
  /\ UNCHANGED << now, head, sequence, bus, copies, chain >>

Store ==
  /\ signing.at = "store"
  /\ DagWrite(signing.ts, File(signing.path), signing.payload)
  /\ signing' = NotSigning
  /\ UNCHANGED << now, bus, copies, chain >>

(* run_demo and the self-test verify a block whose signature is zero; its     *)
(* hash is the same every time, and no other's.                              *)
FakeHash == HashOf([NotSigning EXCEPT !.path = "fake"])
VerifyFake ==
  /\ chain' = Verified(FakeHash, FALSE)
  /\ UNCHANGED << now, head, sequence, bus, copies, signing >>

WritersNext ==
  \/ TimePasses
  \/ \E payload \in Contents : CreateSession(payload)
  \/ \E s \in 1 .. MaxSessions, target \in Remote \cup {This} : Handoff(s, target)
  \/ \E content \in Contents : ClipboardCopy(content)
  \/ \E path \in SignedPaths, payload \in Contents : ReadHead(path, payload)
  \/ ReadSequence \/ Verify \/ SampleTick \/ Store
  \/ VerifyFake

WritersSpec == WritersInit /\ [][WritersNext]_writersVars

----------------------------------------------------------------------------
WritersTypeOK ==
  /\ now \in 0 .. MaxClock /\ sequence \in 1 .. MaxWritten
  /\ \A p \in DOMAIN head : head[p] \in [ts : 0 .. MaxClock, payload : Contents]
  /\ \A s \in DOMAIN bus.sessions :
       bus.sessions[s] \in [payload : Contents, current : Remote \cup {This},
                            state : {"active", "resumed"}]
  /\ bus.clipboard \in Contents \cup {None}
  /\ chain.ok \in Nat /\ chain.fail \in Nat
  /\ signing.at \in {"idle", "seq", "verify", "tick", "store"}

Devices == Remote \cup {This}
EventsOf(s) == Sift(bus.events, [session : {s}, from : Devices, to : Devices])
Judgements(ok) == {h \in DOMAIN chain.verdicts : chain.verdicts[h] = ok}

(* What the writers leave is a trail one can follow.  The handoffs of a       *)
(* session, in the order of the events, lead from this device to the one that *)
(* has it, and its state is in the store for that device to fetch (handoff);  *)
(* a copy is in the store unless another was made in the same tick            *)
(* (clipboard_copy); and every hash was judged and counted once, however      *)
(* often it comes and whatever was written meanwhile (verify_block).         *)
TrailConnected ==
  /\ \A s \in DOMAIN bus.sessions :
       LET trail == EventsOf(s)
       IN /\ \A i \in DOMAIN trail :
               trail[i].from = IF i = 1 THEN This ELSE trail[i - 1].to
          /\ bus.sessions[s].current = IF trail = << >> THEN This ELSE trail[Len(trail)].to
          /\ trail # << >> => /\ Session(s) \in DOMAIN head
                              /\ head[Session(s)].payload = bus.sessions[s].payload
  /\ copies = 1 => head[Clipboard].payload = bus.clipboard
  /\ chain.ok = Cardinality(Judgements(TRUE)) /\ chain.fail = Cardinality(Judgements(FALSE))
=============================================================================
