--------------------------------- MODULE Dag ---------------------------------
(***************************************************************************)
(* The versioned store of the personal cloud (p2p/dag.rs): every write of  *)
(* a path is a block that names the block it follows, nodes exchange       *)
(* blocks, and each node keeps one head per path, chosen by timestamp and  *)
(* then author (last writer wins).                                         *)
(*                                                                         *)
(* A block is identified by the hash of its content, here the content      *)
(* itself: two blocks with the same content are one.                       *)
(*                                                                         *)
(* The exchange is sync_offer, sync_diff and receive_block.  At this       *)
(* commit no transport carries it ("base para transport real", dag.rs:28), *)
(* so nothing is assumed of one: a block that some node has may reach any  *)
(* other node at any time, any number of times, in any order, or never.    *)
(* A node that restarts draws a new identity and an empty store: it is     *)
(* another node.                                                           *)
(***************************************************************************)
EXTENDS Naturals, FiniteSets

CONSTANTS
  Node,       \* node identities, compared as the 32-byte ids are
  Path,       \* paths
  Root,       \* "/", the path of the genesis blocks
  Payload,    \* contents
  Empty,      \* the content of a genesis block
  Writer,     \* the tasks that write
  Home,       \* the node each of them runs on
  MaxTicks,   \* bound: timer ticks of a node
  MaxWrites   \* bound: blocks that are not genesis blocks

ASSUME DagAssumption ==
  /\ Node \subseteq Nat
  /\ Root \in Path
  /\ Empty \in Payload
  /\ Home \in [Writer -> Node]
  /\ MaxTicks \in Nat
  /\ MaxWrites \in Nat

NoTick == MaxTicks + 1

VARIABLES
  ticks,     \* Scheduler.tick of each node
  blocks,    \* Dag.blocks of each node
  heads,     \* Dag.heads of each node: for a path no block or one
  pending,   \* SyncEngine.pending_broadcast of each node
  tick       \* the tick a writer has read and not used yet

vars == << ticks, blocks, heads, pending, tick >>

\* parents is empty for the parent [0u8; 32] of a first version.
Block(parents, author, ts, path, payload) ==
  [parents |-> parents, author |-> author, ts |-> ts, path |-> path,
   payload |-> payload]

Genesis(n) == Block({}, n, 0, Root, Empty)

Tick == 0 .. MaxTicks

BlockOK(b) ==
  /\ b.author \in Node
  /\ b.ts \in Tick
  /\ b.path \in Path
  /\ b.payload \in Payload

AllBlocks == UNION {blocks[n] : n \in Node}

TypeOK ==
  /\ ticks \in [Node -> Tick]
  /\ blocks \in [Node -> SUBSET AllBlocks]
  /\ \A b \in AllBlocks : BlockOK(b)
  /\ heads \in [Node -> [Path -> SUBSET AllBlocks]]
  /\ \A n \in Node, p \in Path : heads[n][p] \subseteq blocks[n]
  /\ pending \in [Node -> SUBSET AllBlocks]
  /\ tick \in [Writer -> Tick \cup {NoTick}]

\* Every node has started: SyncEngine::init inserted its genesis block.
Init ==
  /\ ticks = [n \in Node |-> 0]
  /\ blocks = [n \in Node |-> {Genesis(n)}]
  /\ heads = [n \in Node |->
                [p \in Path |-> IF p = Root THEN {Genesis(n)} ELSE {}]]
  /\ pending = [n \in Node |-> {}]
  /\ tick = [w \in Writer |-> NoTick]

-----------------------------------------------------------------------------
(***************************************************************************)
(* Dag::insert.                                                            *)
(***************************************************************************)
\* Mutants: parents not looked up; looked up among the heads; a first version
\* refused.
AcceptableAlways(n, b) == TRUE
AcceptableAtHead(n, b) == b.parents \subseteq heads[n][b.path]
AcceptableLater(n, b) == b.parents # {} /\ b.parents \subseteq blocks[n]

Acceptable(n, b) == b.parents \subseteq blocks[n]

\* Mutants: no tie-break; the later arrival wins.
WinsUntied(b, h) == b.ts > h.ts
WinsLast(b, h) == b.ts >= h.ts

\* The block becomes the head of its path.
Wins(b, h) == b.ts > h.ts \/ (b.ts = h.ts /\ b.author > h.author)

InsertHeadFirst(n, b) ==   \* mutant: the head moves before the parents are checked
  /\ heads' = IF \A h \in heads[n][b.path] : Wins(b, h)
              THEN [heads EXCEPT ![n][b.path] = {b}]
              ELSE heads
  /\ blocks' = IF Acceptable(n, b) THEN [blocks EXCEPT ![n] = @ \cup {b}] ELSE blocks

Insert(n, b) ==
  \/ /\ b \notin blocks[n] /\ Acceptable(n, b)
     /\ blocks' = [blocks EXCEPT ![n] = @ \cup {b}]
     /\ heads' = IF \A h \in heads[n][b.path] : Wins(b, h)
                 THEN [heads EXCEPT ![n][b.path] = {b}]
                 ELSE heads
  \/ \* a duplicate, or MissingParent
     /\ b \in blocks[n] \/ ~ Acceptable(n, b)
     /\ UNCHANGED << blocks, heads >>

-----------------------------------------------------------------------------
(***************************************************************************)
(* Operations.                                                             *)
(***************************************************************************)
TimerTick(n) ==
  /\ ticks[n] < MaxTicks
  /\ ticks' = [ticks EXCEPT ![n] = @ + 1]
  /\ UNCHANGED << blocks, heads, pending, tick >>

\* dag::write, up to the lock: the tick is read first, and is old by the time
\* the block is made if another writer gets in between.
ReadTick(w) ==
  /\ tick[w] = NoTick
  /\ tick' = [tick EXCEPT ![w] = ticks[Home[w]]]
  /\ UNCHANGED << ticks, blocks, heads, pending >>

\* The new block follows the head of its path.
NewBlock(w, p, d) ==
  Block(heads[Home[w]][p], Home[w], tick[w], p, d)

Written == AllBlocks \ {Genesis(n) : n \in Node}

\* The rest of dag::write, under the lock: SyncEngine::write.  What insert
\* answers is ignored.
Write(w, p, d) ==
  /\ tick[w] # NoTick
  /\ Cardinality(Written) < MaxWrites
  /\ Insert(Home[w], NewBlock(w, p, d))
  /\ pending' = [pending EXCEPT ![Home[w]] = @ \cup {NewBlock(w, p, d)}]
  /\ tick' = [tick EXCEPT ![w] = NoTick]
  /\ UNCHANGED ticks

\* receive_block, for a block of m's: a member of sync_diff against the offer n
\* makes now or made before.
Receive(n, m) ==
  /\ \E b \in blocks[m] : Insert(n, b)
  /\ UNCHANGED << ticks, pending, tick >>

\* SyncEngine::tick once the interval is over: broadcast_pending forgets.
SyncTick(n) ==
  /\ pending[n] # {}
  /\ pending' = [pending EXCEPT ![n] = {}]
  /\ UNCHANGED << ticks, blocks, heads, tick >>

Next ==
  \/ \E n \in Node : TimerTick(n)
  \/ \E w \in Writer : ReadTick(w)
  \/ \E w \in Writer, p \in Path \ {Root}, d \in Payload : Write(w, p, d)
  \/ \E n, m \in Node : Receive(n, m)
  \/ \E n \in Node : SyncTick(n)

Spec == Init /\ [][Next]_vars

-----------------------------------------------------------------------------
(***************************************************************************)
(* Properties.                                                             *)
(***************************************************************************)
\* Older in the order that decides conflicts: "timestamp + lexicographic
\* node_id" (dag.rs:25).
Older(x, y) == x.ts < y.ts \/ (x.ts = y.ts /\ x.author < y.author)

\* A node's head of a path is one of its blocks of that path and none of them is
\* newer, in whatever order they arrived.
HeadIsNewest ==
  \A n \in Node, p \in Path :
    LET mine == {b \in blocks[n] : b.path = p}
    IN  IF mine = {}
        THEN heads[n][p] = {}
        ELSE \E h \in mine : /\ heads[n][p] = {h}
                             /\ \A b \in mine : ~ Older(h, b)

\* A node has every ancestor of every block it has, and all are versions of one
\* path: history() goes back to the first version.
HistoryComplete ==
  \A n \in Node : \A b \in blocks[n] :
    \A a \in b.parents : a \in blocks[n] /\ a.path = b.path

\* Conflict resolution is a CRDT: two nodes with the same blocks have the same
\* heads, although one author may write a path twice in one tick, and the later
\* of the two then loses wherever the first came first.
Converged ==
  \A m, n \in Node : blocks[m] = blocks[n] => heads[m] = heads[n]

\* Blocks are sent in hash order and one that comes before its parent is dropped,
\* yet a sync is never in vain: some block of the difference can be inserted.
SyncProgresses ==
  \A m, n \in Node :
    blocks[m] \subseteq blocks[n]
    \/ \E b \in blocks[m] \ blocks[n] : Acceptable(n, b)

\* write() ignores what insert answers; the block it hands to the broadcast and
\* to its caller is stored all the same.
PendingIsStored == \A n \in Node : pending[n] \subseteq blocks[n]

\* What a comment says and the code does not do: read() returns "o conteudo mais
\* recente de um path" (dag.rs:428), so what a node of its own has just written.
ReadsLastWrite ==
  [][\A w \in Writer, p \in Path \ {Root}, d \in Payload :
       Write(w, p, d) => \A h \in heads'[Home[w]][p] : h.payload = d]_vars
=============================================================================
