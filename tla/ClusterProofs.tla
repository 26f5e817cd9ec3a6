--------------------------- MODULE ClusterProofs ---------------------------
(* Theorems about what nodes share: the versioned store (module Dag), edge    *)
(* computing (Edge), finding peers and exchanging packets (Peers), the        *)
(* sessions of p2p/crypto.rs (SecureChannel), what a node leaves in the       *)
(* store (StoreWriters), and gossip and its routes (Gossip).                 *)
EXTENDS Dag, Edge, Peers, StoreWriters, Cloud, SequenceFacts,
        FiniteSetTheorems

-----------------------------------------------------------------------------
(***************************************************************************)
(* The block store, for any nodes, paths, contents and writers.            *)
(*                                                                         *)
(* Convergence rests on one fact that is not in the code: of the blocks of *)
(* a path with one author and one timestamp, only one was newer than its   *)
(* parent when it was made (OneBornNewest).  Such blocks are the only ones *)
(* that ever become heads (HeadsBornNewest), and the head is a newest      *)
(* block of the path, so equal stores leave no choice of head.             *)
(* SyncProgresses rests on the order in which blocks are made: whatever    *)
(* blocks are missing, one of them follows none of the others (Founded).   *)
(***************************************************************************)
\* The block was newer than the head it follows.
BornNewest(b) == \A a \in b.parents : Older(a, b)

\* An author has every block it made.
AuthorsKeepTheirs == \A b \in AllBlocks : b \in blocks[b.author]

HeadsBornNewest ==
  \A n \in Node, p \in Path : \A h \in heads[n][p] : BornNewest(h)

Alike(x, y) == x.path = y.path /\ x.ts = y.ts /\ x.author = y.author

OneBornNewest ==
  \A x, y \in AllBlocks :
    Alike(x, y) /\ BornNewest(x) /\ BornNewest(y) => x = y

\* No block is among its own ancestors: of any blocks, one follows none of them.
Founded ==
  \A some \in SUBSET AllBlocks :
    some # {} => \E b \in some : \A a \in b.parents : a \notin some

DagInv ==
  /\ TypeOK
  /\ HeadIsNewest
  /\ HistoryComplete
  /\ PendingIsStored
  /\ AuthorsKeepTheirs
  /\ HeadsBornNewest
  /\ OneBornNewest
  /\ Founded

\* The order of blocks is a total preorder.
LEMMA OlderIsAnOrder ==
  ASSUME NEW x, NEW y, NEW z, BlockOK(x), BlockOK(y), BlockOK(z)
  PROVE  /\ Older(x, y) => ~ Older(y, x)
         /\ ~ Older(x, x)
         /\ ~ Older(x, y) /\ ~ Older(y, x) => x.ts = y.ts /\ x.author = y.author
         /\ Older(x, y) /\ ~ Older(z, y) => Older(x, z)
         /\ ~ Older(x, y) /\ ~ Older(y, z) => ~ Older(x, z)
         /\ Wins(x, y) <=> Older(y, x)
<1>1. /\ x.ts \in Nat /\ y.ts \in Nat /\ z.ts \in Nat
      /\ x.author \in Nat /\ y.author \in Nat /\ z.author \in Nat
  <2>1. Node \subseteq Nat /\ \A i \in Tick : i \in Nat
    BY DagAssumption DEF Tick
  <2> QED
    BY <2>1, Zenon DEF BlockOK
<1>2. PICK i \in Nat, j \in Nat, k \in Nat : i = x.ts /\ j = y.ts /\ k = z.ts
  BY <1>1
<1>3. PICK a \in Nat, b \in Nat, c \in Nat :
        a = x.author /\ b = y.author /\ c = z.author
  BY <1>1
<1>4. /\ Older(x, y) <=> i < j \/ (i = j /\ a < b)
      /\ Older(y, x) <=> j < i \/ (i = j /\ b < a)
      /\ Older(x, x) <=> i < i \/ (i = i /\ a < a)
      /\ Older(x, z) <=> i < k \/ (i = k /\ a < c)
      /\ Older(z, y) <=> k < j \/ (k = j /\ c < b)
      /\ Older(y, z) <=> j < k \/ (j = k /\ b < c)
      /\ Wins(x, y) <=> i > j \/ (i = j /\ a > b)
  BY <1>2, <1>3 DEF Older, Wins
<1> QED
  BY <1>2, <1>3, <1>4

\* The head of a path where there is one, and none where there is no block.
LEMMA NewestHead ==
  ASSUME TypeOK, HeadIsNewest, NEW n \in Node, NEW p \in Path
  PROVE  /\ \A h \in heads[n][p] : /\ h \in blocks[n] /\ h.path = p
                                   /\ heads[n][p] = {h}
                                   /\ \A b \in blocks[n] : b.path = p => ~ Older(h, b)
         /\ heads[n][p] = {} => \A b \in blocks[n] : b.path # p
BY DEF HeadIsNewest

\* The initial states satisfy the invariant.
LEMMA DagInit == Init => DagInv
<1> SUFFICES ASSUME Init PROVE DagInv
  OBVIOUS
<1>1. \A n \in Node : /\ BlockOK(Genesis(n))
                      /\ Genesis(n).parents = {}
                      /\ Genesis(n).author = n
                      /\ Genesis(n).ts = 0
                      /\ Genesis(n).path = Root
  BY DagAssumption DEF BlockOK, Genesis, Block, Tick
<1>2. /\ \A n \in Node : blocks[n] = {Genesis(n)}
      /\ AllBlocks = {Genesis(n) : n \in Node}
  BY DEF Init, AllBlocks
<1>3. \A n \in Node, p \in Path :
        heads[n][p] = IF p = Root THEN {Genesis(n)} ELSE {}
  BY DEF Init
<1>4. TypeOK
  <2>1. ticks \in [Node -> Tick] /\ tick \in [Writer -> Tick \cup {NoTick}]
    BY DagAssumption DEF Init, Tick
  <2>2. blocks \in [Node -> SUBSET AllBlocks] /\ pending \in [Node -> SUBSET AllBlocks]
    BY <1>2 DEF Init
  <2>3. heads \in [Node -> [Path -> SUBSET AllBlocks]]
    BY <1>2 DEF Init
  <2>4. \A n \in Node, p \in Path : heads[n][p] \subseteq blocks[n]
    BY <1>2, <1>3
  <2>5. \A b \in AllBlocks : BlockOK(b)
    BY <1>1, <1>2
  <2> QED
    BY <2>1, <2>2, <2>3, <2>4, <2>5 DEF TypeOK
<1>5. HeadIsNewest
  <2> SUFFICES ASSUME NEW n \in Node, NEW p \in Path
               PROVE  LET mine == {b \in blocks[n] : b.path = p}
                      IN  IF mine = {}
                          THEN heads[n][p] = {}
                          ELSE \E h \in mine : /\ heads[n][p] = {h}
                                               /\ \A b \in mine : ~ Older(h, b)
    BY DEF HeadIsNewest
  <2> DEFINE g == Genesis(n)
  <2>1. ~ Older(g, g)
    BY <1>1, OlderIsAnOrder
  <2>2. g.path = Root /\ blocks[n] = {g} /\ heads[n][p] = IF p = Root THEN {g} ELSE {}
    BY <1>1, <1>2, <1>3
  <2> HIDE DEF g
  <2>3. CASE p = Root
    <3>1. {b \in blocks[n] : b.path = p} = {g} /\ heads[n][p] = {g}
      BY <2>2, <2>3
    <3> QED
      BY <2>1, <3>1
  <2>4. CASE p # Root
    <3>1. {b \in blocks[n] : b.path = p} = {} /\ heads[n][p] = {}
      BY <2>2, <2>4
    <3> QED
      BY <3>1
  <2> QED
    BY <2>3, <2>4
<1>6. HistoryComplete /\ PendingIsStored
  BY <1>1, <1>2 DEF HistoryComplete, PendingIsStored, Init
<1>7. AuthorsKeepTheirs
  BY <1>1, <1>2 DEF AuthorsKeepTheirs
<1>8. HeadsBornNewest
  <2> SUFFICES ASSUME NEW n \in Node, NEW p \in Path, NEW h \in heads[n][p]
               PROVE  BornNewest(h)
    BY DEF HeadsBornNewest
  <2>1. h = Genesis(n)
    <3>1. heads[n][p] = IF p = Root THEN {Genesis(n)} ELSE {}
      BY <1>3
    <3> QED
      BY <3>1
  <2> QED
    BY <1>1, <2>1 DEF BornNewest
<1>9. OneBornNewest
  BY <1>1, <1>2 DEF OneBornNewest, Alike
<1>10. Founded
  BY <1>1, <1>2 DEF Founded
<1> QED
  BY <1>4, <1>5, <1>6, <1>7, <1>8, <1>9, <1>10 DEF DagInv

-----------------------------------------------------------------------------
(***************************************************************************)
(* insert.                                                                 *)
(***************************************************************************)
Accepted(n, b) == b \notin blocks[n] /\ Acceptable(n, b)

\* What insert changes.
LEMMA InsertEffect ==
  ASSUME TypeOK, NEW n \in Node, NEW b, BlockOK(b), Insert(n, b)
  PROVE  /\ Accepted(n, b) =>
              /\ \A m \in Node :
                   blocks'[m] = IF m = n THEN blocks[n] \cup {b} ELSE blocks[m]
              /\ \A m \in Node, p \in Path :
                   heads'[m][p] =
                     IF m = n /\ p = b.path /\ \A h \in heads[n][p] : Wins(b, h)
                     THEN {b}
                     ELSE heads[m][p]
              /\ AllBlocks' = AllBlocks \cup {b}
              /\ blocks' \in [Node -> SUBSET AllBlocks']
              /\ heads' \in [Node -> [Path -> SUBSET AllBlocks']]
         /\ ~ Accepted(n, b) => UNCHANGED << blocks, heads >>
<1>1. CASE Accepted(n, b)
  <2>1. /\ blocks' = [blocks EXCEPT ![n] = @ \cup {b}]
        /\ heads' = IF \A h \in heads[n][b.path] : Wins(b, h)
                    THEN [heads EXCEPT ![n][b.path] = {b}]
                    ELSE heads
    BY <1>1 DEF Accepted, Insert
  <2>2. /\ blocks \in [Node -> SUBSET AllBlocks]
        /\ heads \in [Node -> [Path -> SUBSET AllBlocks]]
        /\ b.path \in Path
    BY DEF TypeOK, BlockOK
  <2>3. \A m \in Node :
          blocks'[m] = IF m = n THEN blocks[n] \cup {b} ELSE blocks[m]
    BY <2>1, <2>2
  <2>4. AllBlocks' = AllBlocks \cup {b}
    BY <2>3 DEF AllBlocks
  <2>5. blocks' \in [Node -> SUBSET AllBlocks']
    BY <2>1, <2>2, <2>4
  <2>6. heads' \in [Node -> [Path -> SUBSET AllBlocks']]
    <3>1. heads \in [Node -> [Path -> SUBSET AllBlocks']]
      BY <2>2, <2>4
    <3>2. {b} \in SUBSET AllBlocks'
      BY <2>4
    <3>3. [heads EXCEPT ![n][b.path] = {b}] \in [Node -> [Path -> SUBSET AllBlocks']]
      BY <2>2, <3>1, <3>2
    <3> QED
      BY <2>1, <3>1, <3>3
  <2>7. \A m \in Node, p \in Path :
          heads'[m][p] =
            IF m = n /\ p = b.path /\ \A h \in heads[n][p] : Wins(b, h)
            THEN {b}
            ELSE heads[m][p]
    BY <2>1, <2>2
  <2> QED
    BY <1>1, <2>3, <2>4, <2>5, <2>6, <2>7
<1>2. CASE ~ Accepted(n, b)
  BY <1>2 DEF Accepted, Insert
<1> QED
  BY <1>1, <1>2

\* An accepted block leaves the heads newest and the histories complete, and is
\* itself a head only if it was newer than what it follows.
LEMMA InsertOK ==
  ASSUME DagInv, NEW n \in Node, NEW b, BlockOK(b), Insert(n, b), Accepted(n, b),
         \A a \in b.parents : a.path = b.path
  PROVE  /\ HeadIsNewest'
         /\ HistoryComplete'
         /\ HeadsBornNewest'
         /\ \A m \in Node, p \in Path : heads'[m][p] \subseteq blocks'[m]
         /\ \A x \in AllBlocks' : BlockOK(x)
<1> TypeOK /\ HeadIsNewest /\ HistoryComplete /\ HeadsBornNewest
  BY DEF DagInv
<1>1. /\ \A m \in Node :
           blocks'[m] = IF m = n THEN blocks[n] \cup {b} ELSE blocks[m]
      /\ \A m \in Node, p \in Path :
           heads'[m][p] =
             IF m = n /\ p = b.path /\ \A h \in heads[n][p] : Wins(b, h)
             THEN {b}
             ELSE heads[m][p]
      /\ AllBlocks' = AllBlocks \cup {b}
  BY InsertEffect
<1>2. /\ \A x \in AllBlocks : BlockOK(x)
      /\ \A m \in Node : blocks[m] \subseteq AllBlocks
      /\ \A m \in Node, p \in Path : heads[m][p] \subseteq blocks[m]
  BY DEF TypeOK, AllBlocks
<1>3. \A m \in Node, p \in Path : heads'[m][p] \subseteq blocks'[m]
  BY <1>1, <1>2
<1>4. HistoryComplete'
  <2> SUFFICES ASSUME NEW m \in Node, NEW x \in blocks'[m], NEW a \in x.parents
               PROVE  a \in blocks'[m] /\ a.path = x.path
    BY DEF HistoryComplete
  <2>1. CASE x \in blocks[m]
    BY <1>1, <2>1 DEF HistoryComplete
  <2>2. CASE x = b /\ m = n
    BY <1>1, <2>2 DEF Accepted, Acceptable
  <2> QED
    BY <1>1, <2>1, <2>2
\* The head of the path in n, if it had one, and how it compares.
<1>5. ASSUME NEW h \in heads[n][b.path]
      PROVE  /\ BlockOK(h)
             /\ Wins(b, h) <=> Older(h, b)
             /\ \A x \in blocks[n] : x.path = b.path /\ Older(h, b) =>
                   Older(x, b) /\ ~ Older(b, x)
  <2>1. b.path \in Path
    BY DEF BlockOK
  <2>2. BlockOK(h)
    BY <1>2, <2>1
  <2>3. Wins(b, h) <=> Older(h, b)
    BY <2>2, OlderIsAnOrder
  <2>4. ASSUME NEW x \in blocks[n], x.path = b.path, Older(h, b)
        PROVE  Older(x, b) /\ ~ Older(b, x)
    <3>1. BlockOK(x)
      BY <1>2
    <3>2. ~ Older(h, x)
      BY <2>1, <2>4, NewestHead
    <3>3. Older(h, b) /\ ~ Older(x, b) => Older(h, x)
      BY <2>2, <3>1, OlderIsAnOrder
    <3>4. Older(x, b) => ~ Older(b, x)
      BY <3>1, OlderIsAnOrder
    <3> QED
      BY <2>4, <3>2, <3>3, <3>4
  <2> QED
    BY <2>2, <2>3, <2>4
<1>6. HeadIsNewest'
  <2> SUFFICES ASSUME NEW m \in Node, NEW p \in Path
               PROVE  LET mine == {x \in blocks'[m] : x.path = p}
                      IN  IF mine = {}
                          THEN heads'[m][p] = {}
                          ELSE \E h \in mine : /\ heads'[m][p] = {h}
                                               /\ \A x \in mine : ~ Older(h, x)
    BY DEF HeadIsNewest
  <2>1. CASE m # n \/ p # b.path
    <3>1. heads'[m][p] = heads[m][p]
      BY <1>1, <2>1
    <3>2. {x \in blocks'[m] : x.path = p} = {x \in blocks[m] : x.path = p}
      BY <1>1, <2>1
    <3> QED
      BY <3>1, <3>2 DEF HeadIsNewest
  <2>2. CASE m = n /\ p = b.path
    <3>1. b \in {x \in blocks'[m] : x.path = p}
      BY <1>1, <2>2
    <3>2. ~ Older(b, b)
      BY OlderIsAnOrder
    <3>3. CASE \A h \in heads[n][p] : Wins(b, h)
      <4>1. heads'[m][p] = {b}
        BY <1>1, <2>2, <3>3
      <4>2. ASSUME NEW x \in blocks[n], x.path = p PROVE ~ Older(b, x)
        <5>1. PICK h \in heads[n][p] : TRUE
          BY <4>2, NewestHead
        <5> QED
          BY <1>5, <2>2, <3>3, <4>2, <5>1
      <4>3. \A x \in blocks'[m] : x.path = p => ~ Older(b, x)
        BY <1>1, <2>2, <3>2, <4>2
      <4> QED
        BY <3>1, <4>1, <4>3
    <3>4. CASE ~ \A h \in heads[n][p] : Wins(b, h)
      <4>1. PICK h \in heads[n][p] : ~ Wins(b, h)
        BY <3>4
      <4>2. heads'[m][p] = heads[n][p] /\ heads[n][p] = {h} /\ h \in blocks[n]
            /\ h.path = p /\ \A x \in blocks[n] : x.path = p => ~ Older(h, x)
        BY <1>1, <2>2, <3>4, <4>1, NewestHead
      <4>3. ~ Older(h, b)
        BY <1>5, <2>2, <4>1
      <4>4. \A x \in blocks'[m] : x.path = p => ~ Older(h, x)
        BY <1>1, <2>2, <4>2, <4>3
      <4>5. h \in {x \in blocks'[m] : x.path = p}
        BY <1>1, <2>2, <4>2
      <4> QED
        BY <4>2, <4>4, <4>5
    <3> QED
      BY <3>3, <3>4
  <2> QED
    BY <2>1, <2>2
<1>7. HeadsBornNewest'
  <2> SUFFICES ASSUME NEW m \in Node, NEW p \in Path, NEW h \in heads'[m][p]
               PROVE  BornNewest(h)
    BY DEF HeadsBornNewest, BornNewest, Older
  <2>1. CASE h \in heads[m][p]
    BY <2>1 DEF HeadsBornNewest
  <2>2. CASE h \notin heads[m][p]
    <3>1. m = n /\ p = b.path /\ h = b /\ \A k \in heads[n][p] : Wins(b, k)
      BY <1>1, <2>2
    <3>2. ASSUME NEW a \in b.parents PROVE Older(a, b)
      <4>1. a \in blocks[n] /\ a.path = p
        BY <3>1 DEF Accepted, Acceptable
      <4>2. PICK k \in heads[n][p] : TRUE
        BY <4>1, NewestHead
      <4> QED
        BY <1>5, <3>1, <4>1, <4>2
    <3> QED
      BY <3>1, <3>2 DEF BornNewest
  <2> QED
    BY <2>1, <2>2
<1> QED
  BY <1>1, <1>2, <1>3, <1>4, <1>6, <1>7

-----------------------------------------------------------------------------
(***************************************************************************)
(* The steps.                                                              *)
(***************************************************************************)
\* What the invariant says of blocks and heads, in a step that changes neither.
LEMMA SameStore ==
  ASSUME DagInv, UNCHANGED << blocks, heads >>
  PROVE  /\ AllBlocks' = AllBlocks
         /\ HeadIsNewest' /\ HistoryComplete' /\ HeadsBornNewest'
         /\ AuthorsKeepTheirs' /\ OneBornNewest' /\ Founded'
         /\ \A n \in Node, p \in Path : heads'[n][p] \subseteq blocks'[n]
         /\ \A b \in AllBlocks' : BlockOK(b)
<1>1. AllBlocks' = AllBlocks
  BY DEF AllBlocks
<1>2. HeadIsNewest' /\ HistoryComplete'
  BY DEF DagInv, HeadIsNewest, HistoryComplete
<1>3. AuthorsKeepTheirs' /\ HeadsBornNewest' /\ OneBornNewest' /\ Founded'
  BY <1>1 DEF DagInv, AuthorsKeepTheirs, HeadsBornNewest, OneBornNewest, Founded
<1>4. \A n \in Node, p \in Path : heads'[n][p] \subseteq blocks'[n]
  BY DEF DagInv, TypeOK
<1>5. \A b \in AllBlocks' : BlockOK(b)
  BY <1>1 DEF DagInv, TypeOK
<1> QED
  BY <1>1, <1>2, <1>3, <1>4, <1>5

\* The steps that touch no block.
LEMMA OtherOK ==
  ASSUME DagInv, UNCHANGED << blocks, heads >>,
         ticks' \in [Node -> Tick], tick' \in [Writer -> Tick \cup {NoTick}],
         pending' \in [Node -> SUBSET AllBlocks],
         \A n \in Node : pending'[n] \subseteq pending[n]
  PROVE  DagInv'
<1>1. TypeOK' /\ PendingIsStored'
  BY SameStore DEF DagInv, TypeOK, PendingIsStored
<1> QED
  BY <1>1, SameStore DEF DagInv

\* A block from another node brings nothing new to the set of all blocks.
LEMMA ReceiveOK ==
  ASSUME DagInv, NEW n \in Node, NEW m \in Node, Receive(n, m)
  PROVE  DagInv'
<1>1. PICK b \in blocks[m] : Insert(n, b)
  BY DEF Receive
<1>2. b \in AllBlocks /\ BlockOK(b) /\ b.author \in Node /\ b \in blocks[b.author]
  BY DEF DagInv, TypeOK, AllBlocks, AuthorsKeepTheirs, BlockOK
<1>3. \A a \in b.parents : a.path = b.path
  BY DEF DagInv, HistoryComplete
<1>4. TypeOK /\ UNCHANGED << ticks, pending, tick >>
  BY DEF DagInv, Receive
<1>5. CASE Accepted(n, b)
  <2>1. /\ HeadIsNewest' /\ HistoryComplete' /\ HeadsBornNewest'
        /\ \A k \in Node, p \in Path : heads'[k][p] \subseteq blocks'[k]
        /\ \A x \in AllBlocks' : BlockOK(x)
    BY <1>1, <1>2, <1>3, <1>5, InsertOK
  <2>2. /\ \A k \in Node : blocks[k] \subseteq blocks'[k]
        /\ AllBlocks' = AllBlocks
        /\ blocks' \in [Node -> SUBSET AllBlocks']
        /\ heads' \in [Node -> [Path -> SUBSET AllBlocks']]
    <3>1. /\ \A k \in Node :
               blocks'[k] = IF k = n THEN blocks[n] \cup {b} ELSE blocks[k]
          /\ AllBlocks' = AllBlocks \cup {b}
          /\ blocks' \in [Node -> SUBSET AllBlocks']
          /\ heads' \in [Node -> [Path -> SUBSET AllBlocks']]
      BY <1>1, <1>2, <1>4, <1>5, InsertEffect
    <3>2. AllBlocks' = AllBlocks
      BY <1>2, <3>1
    <3> QED
      BY <3>1, <3>2
  <2>3. TypeOK'
    BY <1>4, <2>1, <2>2 DEF TypeOK
  <2>4. PendingIsStored'
    BY <1>4, <2>2 DEF DagInv, PendingIsStored
  <2>5. AuthorsKeepTheirs'
    BY <2>1, <2>2 DEF DagInv, AuthorsKeepTheirs, BlockOK
  <2>6. OneBornNewest'
    BY <2>2 DEF DagInv, OneBornNewest, Alike, BornNewest, Older
  <2>7. Founded'
    BY <2>2 DEF DagInv, Founded
  <2> QED
    BY <2>1, <2>3, <2>4, <2>5, <2>6, <2>7 DEF DagInv
<1>6. CASE ~ Accepted(n, b)
  <2>1. UNCHANGED << blocks, heads >>
    BY <1>1, <1>2, <1>4, <1>6, InsertEffect
  <2> QED
    BY <1>4, <2>1, OtherOK DEF TypeOK
<1> QED
  BY <1>5, <1>6

\* A new block that is newer than the head it follows is the first of its author
\* and timestamp to be so: the head would not have been the newest otherwise.
LEMMA WriteOK ==
  ASSUME DagInv, NEW w \in Writer, NEW p \in Path, NEW d \in Payload, Write(w, p, d)
  PROVE  DagInv'
<1> DEFINE n == Home[w]
           b == NewBlock(w, p, d)
<1>1. n \in Node /\ tick[w] \in Tick
  BY DagAssumption DEF DagInv, TypeOK, Write
<1>2. /\ b.parents = heads[n][p] /\ b.author = n /\ b.ts = tick[w]
      /\ b.path = p /\ b.payload = d
  BY DEF NewBlock, Block
<1>3. BlockOK(b)
  BY <1>1, <1>2 DEF BlockOK
<1> HIDE DEF b, n
<1>4. /\ Insert(n, b)
      /\ pending' = [pending EXCEPT ![n] = @ \cup {b}]
      /\ tick' = [tick EXCEPT ![w] = NoTick]
      /\ ticks' = ticks
  BY DEF Write, b, n
<1> TypeOK /\ HeadIsNewest
  BY DEF DagInv
<1>5. /\ \A a \in b.parents : a \in blocks[n] /\ a.path = b.path
      /\ Acceptable(n, b)
  BY <1>1, <1>2, NewestHead DEF Acceptable
<1>6. /\ \A k \in Node : blocks'[k] = IF k = n THEN blocks[n] \cup {b} ELSE blocks[k]
      /\ AllBlocks' = AllBlocks \cup {b}
      /\ blocks' \in [Node -> SUBSET AllBlocks']
      /\ heads' \in [Node -> [Path -> SUBSET AllBlocks']]
  <2>1. CASE Accepted(n, b)
    BY <1>1, <1>3, <1>4, <2>1, InsertEffect
  <2>2. CASE ~ Accepted(n, b)
    <3>1. b \in blocks[n] /\ UNCHANGED << blocks, heads >>
      BY <1>1, <1>3, <1>4, <1>5, <2>2, InsertEffect DEF Accepted
    <3>2. b \in AllBlocks /\ AllBlocks' = AllBlocks
      BY <1>1, <3>1 DEF AllBlocks
    <3> QED
      BY <3>1, <3>2 DEF TypeOK
  <2> QED
    BY <2>1, <2>2
<1>7. /\ HeadIsNewest' /\ HistoryComplete' /\ HeadsBornNewest'
      /\ \A k \in Node, q \in Path : heads'[k][q] \subseteq blocks'[k]
      /\ \A x \in AllBlocks' : BlockOK(x)
  <2>1. CASE Accepted(n, b)
    BY <1>1, <1>3, <1>4, <1>5, <2>1, InsertOK
  <2>2. CASE ~ Accepted(n, b)
    <3>1. UNCHANGED << blocks, heads >>
      BY <1>1, <1>3, <1>4, <2>2, InsertEffect
    <3> QED
      BY <3>1, SameStore
  <2> QED
    BY <2>1, <2>2
<1>8. TypeOK'
  <2>1. pending' \in [Node -> SUBSET AllBlocks']
    <3>1. pending \in [Node -> SUBSET AllBlocks']
      BY <1>6 DEF TypeOK
    <3>2. pending[n] \cup {b} \in SUBSET AllBlocks'
      BY <1>1, <1>6, <3>1
    <3> QED
      BY <1>1, <1>4, <3>1, <3>2
  <2>2. tick' \in [Writer -> Tick \cup {NoTick}] /\ ticks' \in [Node -> Tick]
    BY <1>4 DEF TypeOK
  <2> QED
    BY <1>6, <1>7, <2>1, <2>2 DEF TypeOK
<1>9. PendingIsStored'
  <2>1. \A k \in Node : pending[k] \subseteq blocks[k]
    BY DEF DagInv, PendingIsStored
  <2>2. \A k \in Node :
          pending'[k] = IF k = n THEN pending[n] \cup {b} ELSE pending[k]
    BY <1>4 DEF TypeOK
  <2> QED
    BY <1>6, <2>1, <2>2 DEF PendingIsStored
<1>10. AuthorsKeepTheirs'
  BY <1>1, <1>2, <1>6, <1>7 DEF DagInv, AuthorsKeepTheirs, BlockOK
<1>11. OneBornNewest'
  <2>1. ASSUME NEW y \in AllBlocks, Alike(b, y), BornNewest(b) PROVE FALSE
    <3>1. y \in blocks[n] /\ y.path = p
      BY <1>2, <2>1 DEF DagInv, AuthorsKeepTheirs, Alike
    <3>2. PICK h \in heads[n][p] : ~ Older(h, y)
      BY <1>1, <3>1, NewestHead
    <3>3. Older(h, b)
      BY <1>2, <2>1, <3>2 DEF BornNewest
    <3> QED
      BY <2>1, <3>2, <3>3 DEF Older, Alike
  <2>2. ASSUME NEW x \in AllBlocks', NEW y \in AllBlocks',
               Alike(x, y), BornNewest(x), BornNewest(y)
        PROVE  x = y
    <3>1. CASE x \in AllBlocks /\ y \in AllBlocks
      BY <2>2, <3>1 DEF DagInv, OneBornNewest
    <3>2. CASE x = b /\ y \in AllBlocks
      BY <2>1, <2>2, <3>2
    <3>3. CASE y = b /\ x \in AllBlocks
      <4>1. Alike(b, x) /\ BornNewest(b)
        BY <2>2, <3>3 DEF Alike
      <4> QED
        BY <2>1, <3>3, <4>1
    <3> QED
      BY <1>6, <3>1, <3>2, <3>3
  <2> QED
    BY <2>2 DEF OneBornNewest, Alike, BornNewest, Older
<1>12. Founded'
  <2> SUFFICES ASSUME NEW some \in SUBSET (AllBlocks \cup {b}), some # {}
               PROVE  \E x \in some : \A a \in x.parents : a \notin some
    BY <1>6 DEF Founded
  <2>1. Founded /\ \A x \in AllBlocks : \A a \in x.parents : a \in AllBlocks
    BY DEF DagInv, HistoryComplete, AllBlocks
  <2>2. \A a \in b.parents : a \in AllBlocks
    BY <1>1, <1>5 DEF AllBlocks
  <2> DEFINE older == some \ {b}
  <2>3. CASE b \in AllBlocks
    BY <2>1, <2>3 DEF Founded
  <2>4. CASE b \notin AllBlocks /\ older = {}
    BY <2>2, <2>4
  <2>5. CASE b \notin AllBlocks /\ older # {}
    <3>1. PICK x \in older : \A a \in x.parents : a \notin older
      BY <2>1, <2>5 DEF Founded
    <3> QED
      BY <2>1, <2>5, <3>1
  <2> QED
    BY <2>3, <2>4, <2>5
<1> QED
  BY <1>7, <1>8, <1>9, <1>10, <1>11, <1>12 DEF DagInv

\* Every step preserves the invariant.
LEMMA DagNext == DagInv /\ [Next]_vars => DagInv'
<1> SUFFICES ASSUME DagInv, [Next]_vars PROVE DagInv'
  OBVIOUS
<1> TypeOK
  BY DEF DagInv
<1>1. ASSUME NEW n \in Node, TimerTick(n) PROVE DagInv'
  <2>1. ticks' \in [Node -> Tick]
    BY <1>1, DagAssumption DEF TimerTick, TypeOK, Tick
  <2> QED
    BY <1>1, <2>1, OtherOK DEF TimerTick, TypeOK
<1>2. ASSUME NEW w \in Writer, ReadTick(w) PROVE DagInv'
  <2>1. tick' \in [Writer -> Tick \cup {NoTick}]
    BY <1>2, DagAssumption DEF ReadTick, TypeOK
  <2> QED
    BY <1>2, <2>1, OtherOK DEF ReadTick, TypeOK
<1>3. ASSUME NEW w \in Writer, NEW p \in Path \ {Root}, NEW d \in Payload,
             Write(w, p, d)
      PROVE  DagInv'
  BY <1>3, WriteOK
<1>4. ASSUME NEW n \in Node, NEW m \in Node, Receive(n, m) PROVE DagInv'
  BY <1>4, ReceiveOK
<1>5. ASSUME NEW n \in Node, SyncTick(n) PROVE DagInv'
  BY <1>5, OtherOK DEF SyncTick, TypeOK
<1>6. CASE UNCHANGED vars
  BY <1>6, OtherOK DEF vars, TypeOK
<1> QED
  BY <1>1, <1>2, <1>3, <1>4, <1>5, <1>6 DEF Next

-----------------------------------------------------------------------------
(***************************************************************************)
(* The theorems.                                                           *)
(***************************************************************************)
\* The inductive invariant.
THEOREM DagInvariant == Spec => []DagInv
BY DagInit, DagNext, PTL DEF Spec

\* The variables keep their types, and a node's heads are blocks it has.
THEOREM DagTypeCorrect == Spec => []TypeOK
<1>1. DagInv => TypeOK
  BY DEF DagInv
<1> QED
  BY <1>1, DagInvariant, PTL

\* Whatever the order of arrival, the head of a path is a newest block of it.
THEOREM HeadsAreNewest == Spec => []HeadIsNewest
<1>1. DagInv => HeadIsNewest
  BY DEF DagInv
<1> QED
  BY <1>1, DagInvariant, PTL

\* A node has all the ancestors of what it has.
THEOREM HistoriesAreComplete == Spec => []HistoryComplete
<1>1. DagInv => HistoryComplete
  BY DEF DagInv
<1> QED
  BY <1>1, DagInvariant, PTL

\* What write() announces is in the store.
THEOREM WritesAreStored == Spec => []PendingIsStored
<1>1. DagInv => PendingIsStored
  BY DEF DagInv
<1> QED
  BY <1>1, DagInvariant, PTL

\* A block that another node has and this one lacks is never out of reach: one of
\* those with all their ancestors here is among them (sync_diff, receive_block).
THEOREM SyncsProgress == Spec => []SyncProgresses
<1>1. ASSUME DagInv PROVE SyncProgresses
  <2> SUFFICES ASSUME NEW m \in Node, NEW n \in Node, ~ (blocks[m] \subseteq blocks[n])
               PROVE  \E b \in blocks[m] \ blocks[n] : Acceptable(n, b)
    BY DEF SyncProgresses
  <2> DEFINE missing == blocks[m] \ blocks[n]
  <2>1. missing \in SUBSET AllBlocks /\ missing # {}
    BY DEF AllBlocks
  <2>2. PICK b \in missing : \A a \in b.parents : a \notin missing
    BY <1>1, <2>1 DEF DagInv, Founded
  <2>3. \A a \in b.parents : a \in blocks[m]
    BY <1>1 DEF DagInv, HistoryComplete
  <2> QED
    BY <2>2, <2>3 DEF Acceptable
<1> QED
  BY <1>1, DagInvariant, PTL

\* Nodes with the same blocks have the same heads.
THEOREM Convergence == Spec => []Converged
<1>1. ASSUME DagInv PROVE Converged
  <2> SUFFICES ASSUME NEW m \in Node, NEW n \in Node, blocks[m] = blocks[n],
                      NEW p \in Path
               PROVE  heads[m][p] = heads[n][p]
    BY <1>1 DEF Converged, DagInv, TypeOK
  <2> TypeOK /\ HeadIsNewest
    BY <1>1 DEF DagInv
  <2>1. CASE heads[m][p] = {}
    <3>1. \A b \in blocks[n] : b.path # p
      BY <2>1, NewestHead
    <3> QED
      BY <2>1, <3>1, NewestHead
  <2>2. CASE heads[m][p] # {}
    <3>1. PICK x \in heads[m][p] : TRUE
      BY <2>2
    <3>2. /\ heads[m][p] = {x} /\ x \in blocks[n] /\ x.path = p
          /\ \A b \in blocks[n] : b.path = p => ~ Older(x, b)
      BY <3>1, NewestHead
    <3>3. PICK y \in heads[n][p] : TRUE
      BY <3>2, NewestHead
    <3>4. /\ heads[n][p] = {y} /\ y \in blocks[n] /\ y.path = p
          /\ \A b \in blocks[n] : b.path = p => ~ Older(y, b)
      BY <3>3, NewestHead
    <3>5. x \in AllBlocks /\ y \in AllBlocks /\ BlockOK(x) /\ BlockOK(y)
      BY <3>2, <3>4 DEF AllBlocks, TypeOK
    <3>6. x.ts = y.ts /\ x.author = y.author
      BY <3>2, <3>4, <3>5, OlderIsAnOrder
    <3>7. BornNewest(x) /\ BornNewest(y)
      BY <1>1, <3>1, <3>3 DEF DagInv, HeadsBornNewest
    <3>8. x = y
      BY <1>1, <3>2, <3>4, <3>5, <3>6, <3>7 DEF DagInv, OneBornNewest, Alike
    <3> QED
      BY <3>2, <3>4, <3>8
  <2> QED
    BY <2>1, <2>2
<1> QED
  BY <1>1, DagInvariant, PTL

-----------------------------------------------------------------------------
(***************************************************************************)
(* Edge computing, for any nodes, kinds, number of tasks and rounds.       *)
(*                                                                         *)
(* A task's state is final once it is completed or timed out (PassFacts), so *)
(* a pass of process counts each task where it settles and never again; the *)
(* counters are sizes of disjoint unions.                                  *)
(***************************************************************************)
Numbered == \E n \in Nat : DOMAIN tasks = 1 .. n

EdgeInv == EdgeTypeOK /\ Numbered /\ SettledOnce

LEMMA TaskSets ==
  ASSUME Numbered
  PROVE  /\ IsFiniteSet(DOMAIN tasks) /\ Cardinality(DOMAIN tasks) \in Nat
         /\ DOMAIN tasks = 1 .. Cardinality(DOMAIN tasks)
<1>1. PICK n \in Nat : DOMAIN tasks = 1 .. n
  BY DEF Numbered
<1>2. IsFiniteSet(1 .. n) /\ Cardinality(1 .. n) = n
  <2>1. n \in Int /\ 1 \in Int
    BY <1>1
  <2>2. /\ IsFiniteSet(1 .. n)
        /\ Cardinality(1 .. n) = IF 1 > n THEN 0 ELSE n - 1 + 1
    BY <2>1, FS_Interval
  <2> QED
    BY <1>1, <2>2
<1> QED
  BY <1>1, <1>2

(* What one pass does to one task.                                            *)
LEMMA PassFacts ==
  ASSUME NEW t \in Task, NEW time \in Nat
  PROVE  /\ Processed(t, time) \in Task
         /\ Processed(t, time).state = "completed" <=>
              \/ t.state = "completed"
              \/ t.state = "running" /\ Advanced(t, time).state = "completed"
         /\ Processed(t, time).state = "timed_out" <=>
              t.state = "timed_out" \/ GivesUp(Advanced(t, time), time)
         /\ t.state = "timed_out" => ~ GivesUp(Advanced(t, time), time)
<1> DEFINE a == Advanced(t, time)
<1>1. t.state \in {"queued", "running", "completed", "timed_out"}
  BY DEF Task
<1>2. /\ Dispatched(t, time) \in Task
      /\ t.state = "queued" => Dispatched(t, time).state \in {"queued", "running"}
  <2>1. CASE BestFor(t.kind) = {}
    BY <2>1 DEF Dispatched
  <2>2. CASE BestFor(t.kind) # {}
    <3>1. (CHOOSE n \in BestFor(t.kind) : TRUE) \in EdgeNodes
      BY <2>2 DEF BestFor
    <3>2. PICK n \in EdgeNodes :
            Dispatched(t, time) =
              [t EXCEPT !.state = "running", !.started = time, !.node = n]
      BY <2>2, <3>1 DEF Dispatched
    <3>3. Dispatched(t, time) =
            [kind |-> t.kind, state |-> "running", node |-> n, started |-> time]
      BY <3>2 DEF Task
    <3> QED
      BY <3>3 DEF Task
  <2> QED
    BY <2>1, <2>2
<1>3. /\ a \in Task
      /\ t.state = "queued" => a.state \in {"queued", "running"}
      /\ t.state = "running" => a.state \in {"running", "completed"}
      /\ t.state \in {"completed", "timed_out"} => a = t
  <2>1. CASE t.state = "queued"
    BY <1>2, <2>1 DEF Advanced
  <2>2. CASE t.state = "running" /\ time - t.started >= BaseDuration(t.kind)
    <3>1. a = [t EXCEPT !.state = "completed"]
      BY <2>2 DEF Advanced
    <3> QED
      BY <2>2, <3>1 DEF Task
  <2>3. CASE t.state = "running" /\ ~ (time - t.started >= BaseDuration(t.kind))
    BY <2>3 DEF Advanced
  <2>4. CASE t.state \in {"completed", "timed_out"}
    BY <2>4 DEF Advanced
  <2> QED
    BY <1>1, <2>1, <2>2, <2>3, <2>4
<1> HIDE DEF a
<1>4. /\ GivesUp(a, time) => a.state \in {"queued", "running"}
      /\ GivesUp(a, time) => Processed(t, time) = [a EXCEPT !.state = "timed_out"]
      /\ ~ GivesUp(a, time) => Processed(t, time) = a
  BY DEF GivesUp, Processed, GivenUp, a
<1>5. [a EXCEPT !.state = "timed_out"] \in Task
      /\ [a EXCEPT !.state = "timed_out"].state = "timed_out"
  BY <1>3 DEF Task
<1> QED
  BY <1>1, <1>3, <1>4, <1>5 DEF a

(* A set that grows by new members only.                                      *)
LEMMA Grows ==
  ASSUME NEW S, NEW T, IsFiniteSet(S), IsFiniteSet(T), S \cap T = {}
  PROVE  /\ Cardinality(S \cup T) = Cardinality(S) + Cardinality(T)
         /\ Cardinality(S) \in Nat /\ Cardinality(T) \in Nat
<1>1. Cardinality({}) = 0
  BY FS_EmptySet
<1>2. /\ Cardinality(S \cup T) =
           Cardinality(S) + Cardinality(T) - Cardinality(S \cap T)
      /\ Cardinality(S) \in Nat /\ Cardinality(T) \in Nat
  BY FS_Union, FS_CardinalityType
<1>3. \A k, m \in Nat : k + m - 0 = k + m
  OBVIOUS
<1> QED
  BY <1>1, <1>2, <1>3, Zenon

----------------------------------------------------------------------------
LEMMA InitKeeps == EdgeInit => EdgeInv
<1> SUFFICES ASSUME EdgeInit PROVE EdgeInv
  OBVIOUS
<1>1. DOMAIN tasks = {} /\ completed = {}
  BY DEF EdgeInit
<1>2. Numbered
  <2>1. 0 \in Nat /\ 1 .. 0 = {}
    OBVIOUS
  <2> QED
    BY <1>1, <2>1 DEF Numbered
<1>3. EdgeTypeOK
  BY <1>1, EdgeAssumption DEF EdgeInit, EdgeTypeOK
<1>4. SettledOnce
  BY <1>1, FS_EmptySet DEF EdgeInit, SettledOnce, InState
<1> QED
  BY <1>2, <1>3, <1>4 DEF EdgeInv

LEMMA SubmissionKeeps ==
  ASSUME EdgeInv, NEW kind \in Kinds, Submit(kind)
  PROVE  EdgeInv'
<1> DEFINE n == Cardinality(DOMAIN tasks)
<1>1. n \in Nat /\ DOMAIN tasks = 1 .. n /\ n < MaxTasks /\ MaxTasks \in Nat
  BY TaskSets, EdgeAssumption DEF EdgeInv, Submit
<1>2. /\ tasks' = [i \in 1 .. n + 1 |-> IF i \in DOMAIN tasks THEN tasks[i] ELSE NewTask(kind)]
      /\ uncounted' = uncounted + 1
      /\ UNCHANGED << round, completed, edgeState >>
  BY DEF Submit
<1> HIDE DEF n
<1>3. /\ DOMAIN tasks' = 1 .. n + 1
      /\ \A i \in DOMAIN tasks : i \in DOMAIN tasks' /\ tasks'[i] = tasks[i]
      /\ \A i \in DOMAIN tasks' : i \notin DOMAIN tasks => tasks'[i] = NewTask(kind)
  BY <1>1, <1>2
<1>4. NewTask(kind) \in Task /\ NewTask(kind).state = "queued"
  BY DEF NewTask, Task, NoNode
<1>5. Numbered'
  <2>1. n + 1 \in Nat
    BY <1>1
  <2> QED
    BY <1>3, <2>1 DEF Numbered
<1>6. Cardinality(DOMAIN tasks') = n + 1
  <2>1. /\ n + 1 \in Int /\ 1 \in Int /\ ~ (1 > n + 1) /\ (n + 1) - 1 + 1 = n + 1
    BY <1>1
  <2> QED
    BY <1>3, <2>1, FS_Interval
<1>7. EdgeTypeOK'
  <2>1. DOMAIN tasks' \subseteq 1 .. MaxTasks
    BY <1>1, <1>3
  <2>2. \A i \in DOMAIN tasks' : tasks'[i] \in Task
    BY <1>3, <1>4 DEF EdgeInv, EdgeTypeOK
  <2>3. completed' \subseteq DOMAIN tasks'
    BY <1>2, <1>3 DEF EdgeInv, EdgeTypeOK
  <2> QED
    BY <1>2, <2>1, <2>2, <2>3 DEF EdgeInv, EdgeTypeOK
<1>8. InState("completed")' = InState("completed") /\ InState("timed_out")' = InState("timed_out")
  BY <1>3, <1>4 DEF InState
<1>9. SettledOnce'
  <2>1. /\ edgeState.submitted \in Nat /\ uncounted \in Nat
        /\ edgeState.submitted + uncounted = n
    BY DEF EdgeInv, EdgeTypeOK, SettledOnce, n
  <2> QED
    BY <1>1, <1>2, <1>6, <1>8, <2>1 DEF EdgeInv, SettledOnce
<1> QED
  BY <1>5, <1>7, <1>9 DEF EdgeInv

LEMMA CountKeeps ==
  ASSUME EdgeInv, CountSubmitted
  PROVE  EdgeInv'
<1>1. /\ uncounted > 0 /\ uncounted' = uncounted - 1 /\ uncounted \in Nat
      /\ edgeState \in [submitted : Nat, completed : Nat, failed : Nat]
      /\ edgeState' = [edgeState EXCEPT !.submitted = @ + 1]
      /\ UNCHANGED << round, tasks, completed >>
  BY DEF CountSubmitted, EdgeInv, EdgeTypeOK
<1>2. /\ edgeState' \in [submitted : Nat, completed : Nat, failed : Nat]
      /\ edgeState'.submitted = edgeState.submitted + 1
      /\ edgeState'.completed = edgeState.completed
      /\ edgeState'.failed = edgeState.failed
  BY <1>1
<1>3. EdgeTypeOK' /\ Numbered'
  BY <1>1, <1>2 DEF EdgeInv, EdgeTypeOK, Numbered
<1>4. InState("completed")' = InState("completed") /\ InState("timed_out")' = InState("timed_out")
  BY <1>1 DEF InState
<1>5. edgeState'.submitted + uncounted' = edgeState.submitted + uncounted
  <2>1. edgeState.submitted \in Nat
    BY <1>1
  <2> QED
    BY <1>1, <1>2, <2>1
<1>6. SettledOnce'
  BY <1>1, <1>2, <1>4, <1>5 DEF EdgeInv, SettledOnce
<1> QED
  BY <1>3, <1>6 DEF EdgeInv

LEMMA EdgeTickKeeps ==
  ASSUME EdgeInv, EdgeTick
  PROVE  EdgeInv'
<1>1. PICK r \in {x \in Rounds : x > round} :
        LET after == [i \in DOMAIN tasks |-> Processed(tasks[i], 1000 * r)]
            finished == {i \in DOMAIN tasks : /\ tasks[i].state = "running"
                                              /\ Advanced(tasks[i], 1000 * r).state = "completed"}
            lost == {i \in DOMAIN tasks : GivesUp(Advanced(tasks[i], 1000 * r), 1000 * r)}
        IN /\ round' = r
           /\ tasks' = after
           /\ completed' = completed \cup finished
           /\ edgeState' = [edgeState EXCEPT !.completed = @ + Cardinality(finished),
                                             !.failed = @ + Cardinality(lost)]
           /\ UNCHANGED uncounted
  BY Zenon DEF EdgeTick
<1> DEFINE time == 1000 * r
           finished == {i \in DOMAIN tasks : /\ tasks[i].state = "running"
                                             /\ Advanced(tasks[i], time).state = "completed"}
           lost == {i \in DOMAIN tasks : GivesUp(Advanced(tasks[i], time), time)}
<1>2. /\ round' = r
      /\ tasks' = [i \in DOMAIN tasks |-> Processed(tasks[i], time)]
      /\ completed' = completed \cup finished
      /\ edgeState' = [edgeState EXCEPT !.completed = @ + Cardinality(finished),
                                        !.failed = @ + Cardinality(lost)]
      /\ uncounted' = uncounted
  BY <1>1
<1>3. time \in Nat
  BY EdgeAssumption
<1> HIDE DEF time
<1>4. \A i \in DOMAIN tasks : tasks[i] \in Task
  BY DEF EdgeInv, EdgeTypeOK
<1>5. /\ DOMAIN tasks' = DOMAIN tasks
      /\ \A i \in DOMAIN tasks :
           /\ tasks'[i] \in Task
           /\ tasks'[i].state = "completed" <=> i \in InState("completed") \/ i \in finished
           /\ tasks'[i].state = "timed_out" <=> i \in InState("timed_out") \/ i \in lost
           /\ i \in InState("timed_out") => i \notin lost
  BY <1>2, <1>3, <1>4, PassFacts DEF InState
<1>6. /\ InState("completed")' = InState("completed") \cup finished
      /\ InState("timed_out")' = InState("timed_out") \cup lost
      /\ InState("completed") \cap finished = {}
      /\ InState("timed_out") \cap lost = {}
  <2>1. /\ InState("completed") \subseteq DOMAIN tasks /\ finished \subseteq DOMAIN tasks
        /\ InState("timed_out") \subseteq DOMAIN tasks /\ lost \subseteq DOMAIN tasks
    BY DEF InState
  <2>2. InState("completed") \cap finished = {}
    BY DEF InState
  <2> HIDE DEF finished, lost
  <2>3. InState("completed")' = {i \in DOMAIN tasks' : tasks'[i].state = "completed"}
        /\ InState("timed_out")' = {i \in DOMAIN tasks' : tasks'[i].state = "timed_out"}
    BY DEF InState
  <2> QED
    BY <1>5, <2>1, <2>2, <2>3
<1>7. /\ IsFiniteSet(InState("completed")) /\ IsFiniteSet(finished)
      /\ IsFiniteSet(InState("timed_out")) /\ IsFiniteSet(lost)
  <2>1. IsFiniteSet(DOMAIN tasks)
    BY TaskSets DEF EdgeInv
  <2>2. /\ InState("completed") \subseteq DOMAIN tasks /\ finished \subseteq DOMAIN tasks
        /\ InState("timed_out") \subseteq DOMAIN tasks /\ lost \subseteq DOMAIN tasks
    BY DEF InState
  <2> HIDE DEF finished, lost
  <2> QED
    BY <2>1, <2>2, FS_Subset
<1> HIDE DEF finished, lost
<1>8. /\ Cardinality(InState("completed") \cup finished) =
           Cardinality(InState("completed")) + Cardinality(finished)
      /\ Cardinality(InState("timed_out") \cup lost) =
           Cardinality(InState("timed_out")) + Cardinality(lost)
      /\ Cardinality(finished) \in Nat /\ Cardinality(lost) \in Nat
  BY <1>6, <1>7, Grows
<1>9. /\ edgeState \in [submitted : Nat, completed : Nat, failed : Nat]
      /\ completed = InState("completed")
      /\ edgeState.completed = Cardinality(completed)
      /\ edgeState.failed = Cardinality(InState("timed_out"))
      /\ edgeState.submitted + uncounted = Cardinality(DOMAIN tasks)
  BY DEF EdgeInv, EdgeTypeOK, SettledOnce
<1>10. /\ edgeState' \in [submitted : Nat, completed : Nat, failed : Nat]
       /\ edgeState'.submitted = edgeState.submitted
       /\ edgeState'.completed = edgeState.completed + Cardinality(finished)
       /\ edgeState'.failed = edgeState.failed + Cardinality(lost)
  <2>1. PICK a \in Nat, b \in Nat, c \in Nat :
          edgeState = [submitted |-> a, completed |-> b, failed |-> c]
    BY <1>9
  <2>2. edgeState' = [submitted |-> a, completed |-> b + Cardinality(finished),
                      failed |-> c + Cardinality(lost)]
    BY <1>2, <2>1
  <2> QED
    BY <1>8, <2>1, <2>2
<1>11. SettledOnce'
  BY <1>2, <1>5, <1>6, <1>8, <1>9, <1>10 DEF SettledOnce
<1>12. EdgeTypeOK'
  <2>1. completed' \subseteq DOMAIN tasks'
    BY <1>2, <1>5, <1>6, <1>9 DEF InState
  <2> QED
    BY <1>2, <1>5, <1>10, <2>1 DEF EdgeInv, EdgeTypeOK
<1>13. Numbered'
  BY <1>5 DEF EdgeInv, Numbered
<1> QED
  BY <1>11, <1>12, <1>13 DEF EdgeInv

----------------------------------------------------------------------------
(* The counters of EDGE_STATE, the list of completed tasks and the states of  *)
(* the tasks agree for any number of tasks, whatever ticks kernel_loop meets  *)
(* and however far the submission counter lags.                               *)
THEOREM SettledOnceAlways == EdgeSpec => [](EdgeTypeOK /\ SettledOnce)
<1>1. EdgeInv /\ [EdgeNext]_edgeVars => EdgeInv'
  <2>1. EdgeInv /\ EdgeNext => EdgeInv'
    BY SubmissionKeeps, CountKeeps, EdgeTickKeeps DEF EdgeNext
  <2>2. EdgeInv /\ UNCHANGED edgeVars => EdgeInv'
    BY DEF edgeVars, EdgeInv, EdgeTypeOK, Numbered, SettledOnce, InState
  <2> QED
    BY <2>1, <2>2
<1>2. EdgeInv => EdgeTypeOK /\ SettledOnce
  BY DEF EdgeInv
<1> QED
  BY InitKeeps, <1>1, <1>2, PTL DEF EdgeSpec

-----------------------------------------------------------------------------
(***************************************************************************)
(* The sessions, for any peers, texts and ticks.                           *)
(*                                                                         *)
(* A nonce keeps only the lower half of the session's counter, so that two *)
(* packets of one key differ is not plain: those of other ticks differ in  *)
(* the tick, and those of this tick by less than the half's modulus, because *)
(* the counter moves once for each message the tick has sent (Recent).     *)
(***************************************************************************)
Parties == ChannelPeers \cup BootPeers
Keys == {KeyOf(p, t) : p \in Parties, t \in Nat}
Sessions == [key : Keys, counter : Nat, received : Nat]

(* A session's key names its peer.                                            *)
SessionsTyped ==
  /\ channelTick \in Nat /\ sentNow \in 0 .. SendsPerTick
  /\ DOMAIN sessions \subseteq Parties
  /\ sessions \in [DOMAIN sessions -> Sessions]
  /\ \A p \in DOMAIN sessions : sessions[p].key[2] = p
  /\ \E S : packets \in Seq(S)

(* What a packet carries when the sessions are known, at a tick that has sent *)
(* so many: the nonce of a packet of this tick is one of the last counts.     *)
Recent(packet, known, time, made) ==
  packet.nonce[2] = time =>
    \E c \in Nat : /\ c <= known[packet.peer].counter
                   /\ c + made > known[packet.peer].counter
                   /\ packet.nonce[1] = c % CounterWord

MadeBy(packet, known, time, made) ==
  /\ packet.peer \in DOMAIN known
  /\ packet.key = known[packet.peer].key
  /\ packet.nonce[2] \in Nat /\ packet.nonce[2] <= time
  /\ packet.sealed = Encrypted(packet.key, packet.nonce, << packet.plain >>)
  /\ Recent(packet, known, time, made)

PacketsMade ==
  \A i \in 1 .. Len(packets) : MadeBy(packets[i], sessions, channelTick, sentNow)

Distinct ==
  \A i, j \in 1 .. Len(packets) :
    packets[i].key = packets[j].key /\ packets[i].nonce = packets[j].nonce => i = j

ChannelInv == SessionsTyped /\ PacketsMade /\ Distinct

----------------------------------------------------------------------------
(* The tag is of the wrong side: only the empty text passes.                   *)
LEMMA OnlyTheEmptyReturns ==
  ASSUME NEW key, NEW nonce, NEW plain, NEW other,
         NEW packet, packet.nonce = nonce,
         packet.sealed = Encrypted(key, nonce, << plain >>)
  PROVE  DecryptsTo(other, packet) \subseteq {<< plain >>}
<1> DEFINE text == Xored(key, nonce, << plain >>)
           back == Xored(other, nonce, text)
<1>1. packet.sealed.text = text /\ packet.sealed.tag = << key, text >>
  BY DEF Encrypted
<1>2. DecryptsTo(other, packet) \subseteq {back} /\
      (DecryptsTo(other, packet) # {} => << other, back >> = << key, text >>)
  BY <1>1 DEF DecryptsTo, Encrypted
<1>3. CASE plain = "empty"
  <2>1. text = << plain >> /\ back = << plain >>
    BY <1>3 DEF Xored
  <2> QED
    BY <1>2, <2>1
<1>4. CASE plain # "empty"
  <2>1. << plain >> # << "empty" >> /\ Len(<< plain >>) # 3
    BY <1>4
  <2>2. text = << plain, key, nonce >>
    BY <2>1 DEF Xored
  <2>3. text # << "empty" >> /\ Len(text) = 3 /\ text[1] = plain /\ text[2] = key /\ text[3] = nonce
        /\ text # << plain >>
    BY <2>2
  <2>4. other = key => back = << plain >>
    BY <2>3 DEF Xored
  <2> QED
    BY <1>2, <2>3, <2>4
<1> QED
  BY <1>3, <1>4

LEMMA SessionFacts ==
  ASSUME NEW p \in Parties, NEW time \in Nat
  PROVE  /\ SessionWith(p, time) \in Sessions /\ SessionWith(p, time).key[2] = p
         /\ SessionWith(p, time).counter = 0
<1>1. KeyOf(p, time) \in Keys /\ KeyOf(p, time)[2] = p
  BY DEF Keys, KeyOf
<1> QED
  BY <1>1 DEF SessionWith, Sessions

(* establish_session adds a session or keeps the one there is.                *)
LEMMA EstablishedFacts ==
  ASSUME SessionsTyped, NEW p \in Parties
  PROVE  LET known == Established(sessions, p, channelTick) IN
         /\ DOMAIN known = DOMAIN sessions \cup {p}
         /\ known \in [DOMAIN sessions \cup {p} -> Sessions]
         /\ \A q \in DOMAIN sessions : known[q] = sessions[q]
         /\ \A q \in DOMAIN sessions \cup {p} : known[q].key[2] = q
<1>1. CASE p \in DOMAIN sessions
  <2>1. /\ Established(sessions, p, channelTick) = sessions
        /\ DOMAIN sessions \cup {p} = DOMAIN sessions
    BY <1>1 DEF Established
  <2> QED
    BY <2>1 DEF SessionsTyped
<1>2. CASE p \notin DOMAIN sessions
  <2> DEFINE new == SessionWith(p, channelTick)
             known == [q \in DOMAIN sessions \cup {p} |-> IF q = p THEN new ELSE sessions[q]]
  <2>1. Established(sessions, p, channelTick) = known
    BY <1>2 DEF Established
  <2>2. new \in Sessions /\ new.key[2] = p
    BY SessionFacts DEF SessionsTyped
  <2> HIDE DEF new
  <2>3. \A q \in DOMAIN sessions : known[q] = sessions[q] /\ sessions[q] \in Sessions
    BY <1>2 DEF SessionsTyped
  <2>4. known[p] = new /\ DOMAIN known = DOMAIN sessions \cup {p}
    OBVIOUS
  <2>5. \A q \in DOMAIN sessions \cup {p} : known[q] \in Sessions /\ known[q].key[2] = q
    BY <2>2, <2>3, <2>4 DEF SessionsTyped
  <2>6. known \in [DOMAIN sessions \cup {p} -> Sessions]
    BY <2>5
  <2> QED
    BY <2>1, <2>3, <2>4, <2>5, <2>6
<1> QED
  BY <1>1, <1>2

LEMMA ChannelInitially == ChannelInit => ChannelInv
<1> SUFFICES ASSUME ChannelInit PROVE ChannelInv
  OBVIOUS
<1>1. sessions = [p \in BootPeers |-> SessionWith(p, 0)] /\ packets = << >>
      /\ channelTick = 0 /\ sentNow = 0
  BY DEF ChannelInit
<1>2. \A p \in BootPeers : SessionWith(p, 0) \in Sessions /\ SessionWith(p, 0).key[2] = p
  BY SessionFacts DEF Parties
<1>3. SessionsTyped
  <2>1. packets \in Seq({})
    BY <1>1
  <2>2. DOMAIN sessions = BootPeers /\ sessions \in [BootPeers -> Sessions]
        /\ \A p \in BootPeers : sessions[p].key[2] = p
    BY <1>1, <1>2
  <2> QED
    BY <1>1, <2>1, <2>2, ChannelAssumption DEF SessionsTyped, ChannelAssumption, Parties
<1> QED
  BY <1>1, <1>3 DEF ChannelInv, PacketsMade, Distinct

(* encrypt_for: the count is new for its tick, the older packets stay.        *)
LEMMA EncryptForKeeps ==
  ASSUME ChannelInv, NEW p \in ChannelPeers, NEW text \in Texts, EncryptFor(p, text)
  PROVE  ChannelInv'
<1> DEFINE known == Established(sessions, p, channelTick)
           count == known[p].counter + 1
           nonce == NonceOf(count, channelTick)
           new == [peer |-> p, key |-> known[p].key, nonce |-> nonce, plain |-> text,
                   sealed |-> Encrypted(known[p].key, nonce, << text >>)]
<1>1. /\ sentNow < SendsPerTick /\ sentNow' = sentNow + 1
      /\ sessions' = [known EXCEPT ![p].counter = count]
      /\ packets' = Append(packets, new)
      /\ channelTick' = channelTick
  BY DEF EncryptFor
<1>2. /\ DOMAIN known = DOMAIN sessions \cup {p}
      /\ known \in [DOMAIN sessions \cup {p} -> Sessions]
      /\ \A q \in DOMAIN sessions : known[q] = sessions[q]
      /\ \A q \in DOMAIN sessions \cup {p} : known[q].key[2] = q
  BY EstablishedFacts DEF ChannelInv, Parties
<1>3. PICK S : packets \in Seq(S)
  BY DEF ChannelInv, SessionsTyped
<1>4. /\ channelTick \in Nat /\ sentNow \in Nat /\ DOMAIN sessions \subseteq Parties
      /\ CounterWord \in Nat /\ SendsPerTick \in Nat /\ sentNow < CounterWord
  BY <1>1, ChannelAssumption DEF ChannelInv, SessionsTyped, ChannelAssumption
<1>5. /\ new.peer = p /\ new.key = known[p].key /\ new.nonce = nonce
      /\ new.sealed = Encrypted(new.key, new.nonce, << new.plain >>)
      /\ nonce[1] = count % CounterWord /\ nonce[2] = channelTick
  BY DEF NonceOf
<1> HIDE DEF known, nonce, new
<1>6. /\ known[p] \in Sessions /\ count \in Nat /\ known[p].counter \in Nat
      /\ count = known[p].counter + 1
  BY <1>2 DEF Sessions
<1> HIDE DEF count
<1>7. /\ DOMAIN sessions' = DOMAIN sessions \cup {p}
      /\ \A q \in DOMAIN sessions : q # p => sessions'[q] = sessions[q]
      /\ sessions'[p] = [known[p] EXCEPT !.counter = count]
  BY <1>1, <1>2
<1>8. sessions'[p] \in Sessions /\ sessions'[p].counter = count /\ sessions'[p].key = known[p].key
  BY <1>6, <1>7 DEF Sessions
<1>9. \A q \in DOMAIN sessions : sessions[q] \in Sessions
  BY DEF ChannelInv, SessionsTyped
<1>10. /\ packets' \in Seq(S \cup {new}) /\ Len(packets) \in Nat
       /\ Len(packets') = Len(packets) + 1
       /\ \A i \in 1 .. Len(packets) : packets'[i] = packets[i]
       /\ packets'[Len(packets) + 1] = new
  <2>1. packets \in Seq(S \cup {new})
    BY <1>3, SeqDef
  <2> QED
    BY <1>1, <2>1, AppendProperties, LenProperties
<1>11. SessionsTyped'
  <2>1. \A q \in DOMAIN sessions' : sessions'[q] \in Sessions /\ sessions'[q].key[2] = q
    BY <1>2, <1>7, <1>8, <1>9 DEF ChannelInv, SessionsTyped
  <2>2. sessions' \in [DOMAIN sessions' -> Sessions]
    <3>1. sessions' = [q \in DOMAIN sessions' |-> sessions'[q]]
      BY <1>1
    <3> QED
      BY <2>1, <3>1
  <2>3. DOMAIN sessions' \subseteq Parties /\ sentNow' \in 0 .. SendsPerTick
    BY <1>1, <1>4, <1>7 DEF Parties
  <2>4. \E T : packets' \in Seq(T)
    BY <1>10
  <2> QED
    BY <1>1, <1>4, <2>1, <2>2, <2>3, <2>4 DEF SessionsTyped
<1>12. ASSUME NEW i \in 1 .. Len(packets)
       PROVE  /\ MadeBy(packets[i], sessions', channelTick', sentNow')
              /\ ~(packets[i].key = new.key /\ packets[i].nonce = new.nonce)
  <2> DEFINE q == packets[i]
  <2>1. MadeBy(q, sessions, channelTick, sentNow)
    BY DEF ChannelInv, PacketsMade
  <2> HIDE DEF q
  <2>2. /\ q.peer \in DOMAIN sessions /\ q.key = sessions[q.peer].key
        /\ q.nonce[2] \in Nat /\ q.nonce[2] <= channelTick
        /\ q.sealed = Encrypted(q.key, q.nonce, << q.plain >>)
        /\ sessions[q.peer].counter \in Nat
        /\ sessions[q.peer].key[2] = q.peer
    BY <1>9, <2>1 DEF MadeBy, ChannelInv, SessionsTyped, Sessions
  <2>3. CASE q.peer # p
    <3>1. sessions'[q.peer] = sessions[q.peer]
      BY <1>7, <2>2, <2>3
    <3>2. Recent(q, sessions', channelTick', sentNow')
      <4> SUFFICES ASSUME q.nonce[2] = channelTick
                   PROVE  \E c \in Nat : /\ c <= sessions[q.peer].counter
                                         /\ c + (sentNow + 1) > sessions[q.peer].counter
                                         /\ q.nonce[1] = c % CounterWord
        BY <1>1, <3>1 DEF Recent
      <4>1. PICK c \in Nat : /\ c <= sessions[q.peer].counter
                             /\ c + sentNow > sessions[q.peer].counter
                             /\ q.nonce[1] = c % CounterWord
        BY <2>1 DEF MadeBy, Recent
      <4> QED
        BY <1>4, <2>2, <4>1
    <3>3. MadeBy(q, sessions', channelTick', sentNow')
      BY <1>1, <1>7, <2>2, <3>1, <3>2 DEF MadeBy
    <3>4. q.key # new.key
      BY <1>2, <1>5, <2>2, <2>3
    <3> QED
      BY <3>3, <3>4 DEF q
  <2>4. CASE q.peer = p
    <3>1. /\ known[p] = sessions[p] /\ sessions'[p].key = sessions[p].key
          /\ count = sessions[p].counter + 1
      BY <1>2, <1>6, <1>8, <2>2, <2>4
    <3>2. q.nonce[2] = channelTick =>
            \E c \in Nat : /\ c < count /\ count - c <= sentNow /\ q.nonce[1] = c % CounterWord
      <4> SUFFICES ASSUME q.nonce[2] = channelTick
                   PROVE  \E c \in Nat : /\ c < count /\ count - c <= sentNow
                                         /\ q.nonce[1] = c % CounterWord
        OBVIOUS
      <4>1. PICK c \in Nat : /\ c <= sessions[p].counter
                             /\ c + sentNow > sessions[p].counter
                             /\ q.nonce[1] = c % CounterWord
        BY <2>1, <2>4 DEF MadeBy, Recent
      <4>2. c < count /\ count - c <= sentNow
        <5> DEFINE k == sessions[p].counter
        <5>1. /\ k \in Nat /\ sentNow \in Nat /\ count = k + 1
              /\ c <= k /\ c + sentNow > k
          BY <1>4, <2>2, <2>4, <3>1, <4>1, Zenon
        <5> HIDE DEF k
        <5> QED
          BY <5>1
      <4> QED
        BY <4>1, <4>2
    <3>3. Recent(q, sessions', channelTick', sentNow')
      <4> SUFFICES ASSUME q.nonce[2] = channelTick
                   PROVE  \E c \in Nat : /\ c <= count /\ c + (sentNow + 1) > count
                                         /\ q.nonce[1] = c % CounterWord
        BY <1>1, <1>8, <2>4 DEF Recent
      <4>1. PICK c \in Nat : c < count /\ count - c <= sentNow /\ q.nonce[1] = c % CounterWord
        BY <3>2
      <4>2. c <= count /\ c + (sentNow + 1) > count
        <5>1. count \in Nat /\ sentNow \in Nat /\ c < count /\ count - c <= sentNow
          BY <1>4, <1>6, <4>1, Zenon
        <5> QED
          BY <5>1
      <4> QED
        BY <4>1, <4>2
    <3>4. MadeBy(q, sessions', channelTick', sentNow')
      BY <1>1, <1>7, <2>2, <2>4, <3>1, <3>3 DEF MadeBy
    <3>5. ASSUME q.nonce = new.nonce PROVE FALSE
      <4>1. q.nonce[1] = count % CounterWord /\ q.nonce[2] = channelTick
        BY <1>5, <3>5
      <4>2. PICK c \in Nat : c < count /\ count - c <= sentNow /\ q.nonce[1] = c % CounterWord
        BY <3>2, <4>1
      <4>3. count - c < CounterWord
        <5>1. /\ count \in Nat /\ sentNow \in Nat /\ CounterWord \in Nat
              /\ sentNow < CounterWord /\ count - c <= sentNow
          BY <1>4, <1>6, <4>2, Zenon
        <5> QED
          BY <5>1
      <4>4. c % CounterWord # count % CounterWord
        <5>1. c \in Int /\ count \in Int /\ CounterWord \in Nat
          BY <1>4, <1>6, <4>2, ChannelAssumption
        <5>2. c < count /\ count - c < CounterWord
          BY <4>2, <4>3
        <5> HIDE DEF count
        <5> QED
          BY <5>1, <5>2, Residues
      <4> QED
        BY <4>1, <4>2, <4>4
    <3> QED
      BY <3>4, <3>5 DEF q
  <2> QED
    BY <2>3, <2>4
<1>13. MadeBy(new, sessions', channelTick', sentNow')
  <2>1. count <= count /\ count + (sentNow + 1) > count
    BY <1>4, <1>6
  <2>2. Recent(new, sessions', channelTick', sentNow')
    BY <1>1, <1>5, <1>6, <1>8, <2>1 DEF Recent
  <2> QED
    BY <1>1, <1>4, <1>5, <1>7, <1>8, <2>2 DEF MadeBy
<1>14. PacketsMade'
  <2> SUFFICES ASSUME NEW i \in 1 .. Len(packets')
               PROVE  MadeBy(packets'[i], sessions', channelTick', sentNow')
    BY DEF PacketsMade
  <2>1. CASE i = Len(packets) + 1
    BY <1>10, <1>13, <2>1
  <2>2. CASE i # Len(packets) + 1
    BY <1>10, <1>12, <2>2
  <2> QED
    BY <2>1, <2>2
<1>15. Distinct'
  <2> SUFFICES ASSUME NEW i \in 1 .. Len(packets'), NEW j \in 1 .. Len(packets'),
                      packets'[i].key = packets'[j].key, packets'[i].nonce = packets'[j].nonce
               PROVE  i = j
    BY DEF Distinct
  <2>1. CASE i \in 1 .. Len(packets) /\ j \in 1 .. Len(packets)
    BY <1>10, <2>1 DEF ChannelInv, Distinct
  <2>2. CASE i \in 1 .. Len(packets) /\ j = Len(packets) + 1
    BY <1>10, <1>12, <2>2
  <2>3. CASE i = Len(packets) + 1 /\ j \in 1 .. Len(packets)
    BY <1>10, <1>12, <2>3
  <2> QED
    BY <1>10, <2>1, <2>2, <2>3
<1> QED
  BY <1>11, <1>14, <1>15 DEF ChannelInv

(* decrypt counts, and the next tick makes every packet old.                  *)
LEMMA DecryptKeeps ==
  ASSUME ChannelInv, NEW p \in ChannelPeers, NEW k \in DOMAIN packets, Decrypt(p, k)
  PROVE  ChannelInv'
<1>1. /\ p \in DOMAIN sessions /\ UNCHANGED << packets, channelTick, sentNow >>
      /\ sessions' = [sessions EXCEPT ![p].received = sessions[p].received + 1]
  BY DEF Decrypt
<1>2. sessions[p] \in Sessions /\ \A q \in DOMAIN sessions : sessions[q] \in Sessions
  BY <1>1 DEF ChannelInv, SessionsTyped
<1>3. /\ DOMAIN sessions' = DOMAIN sessions
      /\ \A q \in DOMAIN sessions : q # p => sessions'[q] = sessions[q]
      /\ sessions'[p] = [sessions[p] EXCEPT !.received = sessions[p].received + 1]
  BY <1>1
<1>4. /\ sessions'[p] \in Sessions /\ sessions'[p].key = sessions[p].key
      /\ sessions'[p].counter = sessions[p].counter
  BY <1>2, <1>3 DEF Sessions
<1>5. \A q \in DOMAIN sessions : /\ sessions'[q] \in Sessions
                                 /\ sessions'[q].key = sessions[q].key
                                 /\ sessions'[q].counter = sessions[q].counter
  BY <1>2, <1>3, <1>4
<1>6. SessionsTyped'
  <2>1. sessions' = [q \in DOMAIN sessions |-> sessions'[q]]
    BY <1>1
  <2>2. sessions' \in [DOMAIN sessions' -> Sessions]
    BY <1>3, <1>5, <2>1
  <2> QED
    BY <1>1, <1>3, <1>5, <2>2 DEF ChannelInv, SessionsTyped
<1>7. PacketsMade'
  BY <1>1, <1>3, <1>5 DEF ChannelInv, PacketsMade, MadeBy, Recent
<1> QED
  BY <1>1, <1>6, <1>7 DEF ChannelInv, Distinct

LEMMA ChannelTickKeeps == ChannelInv /\ ChannelTick => ChannelInv'
<1> SUFFICES ASSUME ChannelInv, ChannelTick PROVE ChannelInv'
  OBVIOUS
<1>1. UNCHANGED << sessions, packets >> /\ channelTick' = channelTick + 1 /\ sentNow' = 0
  BY DEF ChannelTick
<1>2. SessionsTyped'
  BY <1>1, ChannelAssumption DEF ChannelInv, SessionsTyped, ChannelAssumption
<1>3. PacketsMade'
  BY <1>1 DEF ChannelInv, SessionsTyped, PacketsMade, MadeBy, Recent
<1> QED
  BY <1>1, <1>2, <1>3 DEF ChannelInv, Distinct

----------------------------------------------------------------------------
LEMMA ChannelStepKeeps == ChannelInv /\ [ChannelNext]_channelVars => ChannelInv'
<1> SUFFICES ASSUME ChannelInv, [ChannelNext]_channelVars PROVE ChannelInv'
  OBVIOUS
<1>1. CASE \E p \in ChannelPeers, text \in Texts : EncryptFor(p, text)
  BY <1>1, EncryptForKeeps
<1>2. CASE \E p \in ChannelPeers, k \in DOMAIN packets : Decrypt(p, k)
  BY <1>2, DecryptKeeps
<1>3. CASE ChannelTick
  BY <1>3, ChannelTickKeeps
<1>4. CASE UNCHANGED channelVars
  <2>1. UNCHANGED << sessions, packets, channelTick, sentNow >>
    BY <1>4 DEF channelVars
  <2> QED
    BY <2>1 DEF ChannelInv, SessionsTyped, PacketsMade, Distinct
<1> QED
  BY <1>1, <1>2, <1>3, <1>4 DEF ChannelNext

(* A session's key is its peer's, and every packet was sealed with its        *)
(* session's key and a count that encrypt never gives out again in its tick.  *)
THEOREM ChannelInvariant == ChannelSpec => []ChannelInv
<1>1. ChannelInit => ChannelInv
  BY ChannelInitially
<1>2. ChannelInv /\ [ChannelNext]_channelVars => ChannelInv'
  BY ChannelStepKeeps
<1> QED
  BY <1>1, <1>2, PTL DEF ChannelSpec

(* generate_nonce never gives a key the same nonce twice as long as a tick    *)
(* has room for fewer messages than 2^32, and decrypt lets through nothing    *)
(* but the text that was sent.                                               *)
THEOREM NoncesStayFresh == ChannelSpec => []NoncesFresh
<1>1. ChannelInv => NoncesFresh
  <2> SUFFICES ASSUME ChannelInv PROVE NoncesFresh
    OBVIOUS
  <2>1. DOMAIN packets = 1 .. Len(packets)
    BY LenProperties DEF ChannelInv, SessionsTyped
  <2>2. ASSUME NEW p \in DOMAIN sessions, NEW k \in DOMAIN packets
        PROVE  DecryptsTo(sessions[p].key, packets[k]) \subseteq {<< packets[k].plain >>}
    <3>1. packets[k].sealed =
            Encrypted(packets[k].key, packets[k].nonce, << packets[k].plain >>)
      BY <2>1, <2>2 DEF ChannelInv, PacketsMade, MadeBy
    <3> QED
      BY <3>1, OnlyTheEmptyReturns
  <2> QED
    BY <2>1, <2>2 DEF ChannelInv, Distinct, NoncesFresh
<1> QED
  BY <1>1, ChannelInvariant, PTL
-----------------------------------------------------------------------------
(***************************************************************************)
(* The store's writers, for any devices, contents and bounds.              *)
(*                                                                         *)
(* The trail of a session is the events sifted by it (SequenceFacts): a    *)
(* handoff appends an event that starts where the trail ends (LeadsOn), and *)
(* the session's block, whether new or not newer than the one that is      *)
(* there, holds its payload, which no call changes.  The state the         *)
(* invariant adds is what another step of write_signed may have read, and  *)
(* that only a session that exists has events or a block.                  *)
(***************************************************************************)
Blocks == [ts : 0 .. MaxClock, payload : Contents]
SessionStates == [payload : Contents, current : Devices, state : {"active", "resumed"}]
Handoffs == [session : Nat \ {0}, from : Devices, to : Devices]
SignSteps == [at : {"idle", "seq", "verify", "tick", "store"}, path : SignedPaths \cup {None},
              payload : Contents \cup {None}, parent : Seq(Blocks), seq : Nat, ts : Nat]

HeadsTyped ==
  /\ now \in 1 .. MaxClock /\ sequence \in 1 .. MaxWritten
  /\ head \in [DOMAIN head -> Blocks]
  /\ \A p \in DOMAIN head : head[p].ts <= now

BusTyped ==
  /\ bus \in [sessions : Seq(SessionStates), events : Seq(Handoffs),
              clipboard : Contents \cup {None}]
  /\ copies \in Nat

SigningTyped ==
  /\ signing \in SignSteps
  /\ signing.at # "idle" =>
       signing.path \in SignedPaths /\ signing.payload \in Contents /\ signing.ts \in 0 .. now

(* The handoffs in trail lead from this device to current.                   *)
Leads(trail, current) ==
  /\ \A i \in 1 .. Len(trail) : trail[i].from = IF i = 1 THEN This ELSE trail[i - 1].to
  /\ current = IF trail = << >> THEN This ELSE trail[Len(trail)].to

Trails ==
  \A s \in Nat \ {0} :
    IF s <= Len(bus.sessions)
    THEN /\ Leads(EventsOf(s), bus.sessions[s].current)
         /\ EventsOf(s) # << >> => Session(s) \in DOMAIN head
    ELSE EventsOf(s) = << >>

StoredSessions ==
  \A s \in Nat \ {0} :
    Session(s) \in DOMAIN head =>
      s <= Len(bus.sessions) /\ head[Session(s)].payload = bus.sessions[s].payload

ClipboardKept ==
  /\ copies = 0 <=> Clipboard \notin DOMAIN head
  /\ copies = 1 => head[Clipboard].payload = bus.clipboard

VerdictsCounted ==
  /\ chain = [verdicts |-> chain.verdicts, ok |-> chain.ok, fail |-> chain.fail]
  /\ chain.verdicts \in [DOMAIN chain.verdicts -> BOOLEAN]
  /\ IsFiniteSet(DOMAIN chain.verdicts) /\ chain.ok \in Nat /\ chain.fail \in Nat
  /\ chain.ok = Cardinality(Judgements(TRUE)) /\ chain.fail = Cardinality(Judgements(FALSE))

WritersInv ==
  /\ HeadsTyped /\ BusTyped /\ SigningTyped
  /\ Trails /\ StoredSessions /\ ClipboardKept /\ VerdictsCounted

LEMMA WriteFacts ==
  ASSUME HeadsTyped, NEW ts \in 0 .. now, NEW path, NEW payload \in Contents,
         DagWrite(ts, path, payload), now' = now
  PROVE  /\ HeadsTyped'
         /\ DOMAIN head' = DOMAIN head \cup {path}
         /\ \A q \in DOMAIN head : q # path => head'[q] = head[q]
         /\ TakesHead(ts, path) => head'[path].payload = payload
         /\ ~ TakesHead(ts, path) => path \in DOMAIN head /\ head'[path] = head[path]
<1>1. /\ sequence < MaxWritten /\ sequence' = sequence + 1
      /\ head' = IF TakesHead(ts, path)
                 THEN [q \in DOMAIN head \cup {path} |->
                         IF q = path THEN HeadBlock(ts, payload) ELSE head[q]]
                 ELSE head
  BY DEF DagWrite
<1>2. /\ now \in 1 .. MaxClock /\ sequence \in 1 .. MaxWritten
      /\ MaxClock \in Nat \ {0} /\ MaxWritten \in Nat \ {0}
      /\ head \in [DOMAIN head -> Blocks]
      /\ \A p \in DOMAIN head : head[p].ts <= now
  BY StoreWritersAssumption DEF HeadsTyped
<1>3. HeadBlock(ts, payload) \in Blocks /\ HeadBlock(ts, payload).ts = ts
      /\ HeadBlock(ts, payload).payload = payload
  <2>1. ts \in 0 .. MaxClock
    BY <1>2
  <2> QED
    BY <2>1 DEF HeadBlock, Blocks
<1>4. sequence' \in 1 .. MaxWritten
  BY <1>1, <1>2
<1>5. CASE TakesHead(ts, path)
  <2> DEFINE D == DOMAIN head \cup {path}
  <2>1. head' = [q \in D |-> IF q = path THEN HeadBlock(ts, payload) ELSE head[q]]
    BY <1>1, <1>5
  <2>2. DOMAIN head' = D /\ head'[path] = HeadBlock(ts, payload)
        /\ \A q \in DOMAIN head : q # path => head'[q] = head[q]
    BY <2>1
  <2>3. \A q \in D : head'[q] \in Blocks /\ head'[q].ts <= now
    BY <1>2, <1>3, <2>2
  <2>4. head' \in [DOMAIN head' -> Blocks]
    BY <2>1, <2>2, <2>3
  <2>5. HeadsTyped'
    BY <1>2, <1>4, <2>2, <2>3, <2>4 DEF HeadsTyped
  <2> QED
    BY <1>3, <1>5, <2>2, <2>5
<1>6. CASE ~ TakesHead(ts, path)
  <2>1. head' = head /\ path \in DOMAIN head
    BY <1>1, <1>6 DEF TakesHead
  <2>2. HeadsTyped'
    BY <1>2, <1>4, <2>1 DEF HeadsTyped
  <2> QED
    BY <1>6, <2>1, <2>2
<1> QED
  BY <1>5, <1>6

LEMMA LeadsOn ==
  ASSUME NEW trail \in Seq(Handoffs), NEW e \in Handoffs, NEW current,
         Leads(trail, current), e.from = current
  PROVE  Leads(Append(trail, e), e.to) /\ Append(trail, e) # << >>
<1> DEFINE t == Append(trail, e)  n == Len(trail)
<1>1. /\ t \in Seq(Handoffs) /\ Len(t) = n + 1 /\ n \in Nat /\ t[n + 1] = e
      /\ \A i \in 1 .. n : t[i] = trail[i]
  BY AppendProperties, LenProperties
<1>2. t # << >>
  BY <1>1, EmptySeq
<1> HIDE DEF t
<1>3. ASSUME NEW i \in 1 .. n + 1
      PROVE  t[i].from = IF i = 1 THEN This ELSE t[i - 1].to
  <2>1. CASE i \in 1 .. n
    <3>1. i # 1 => i - 1 \in 1 .. n
      BY <1>1, <2>1
    <3> QED
      BY <1>1, <2>1, <3>1 DEF Leads
  <2>2. CASE i = n + 1
    <3>1. CASE n = 0
      <4>1. trail = << >>
        BY <3>1, EmptySeq
      <4> QED
        BY <1>1, <2>2, <3>1, <4>1 DEF Leads
    <3>2. CASE n # 0
      <4>1. trail # << >> /\ i # 1 /\ i - 1 = n /\ n \in 1 .. n
        BY <1>1, <2>2, <3>2, EmptySeq
      <4> QED
        BY <1>1, <2>2, <4>1 DEF Leads
    <3> QED
      BY <3>1, <3>2
  <2> QED
    BY <1>1, <2>1, <2>2
<1>4. Leads(t, e.to)
  BY <1>1, <1>2, <1>3 DEF Leads
<1> QED
  BY <1>2, <1>4 DEF t

(* The paths of different writers are different.                             *)
LEMMA PathsApart ==
  /\ \A s, r : Session(s) = Session(r) => s = r
  /\ \A s, p : Session(s) # File(p) /\ Session(s) # Clipboard /\ File(p) # Clipboard
BY DEF Session, File, Clipboard

LEMMA EventsType ==
  ASSUME BusTyped, NEW s \in Nat \ {0}
  PROVE  EventsOf(s) \in Seq(Handoffs)
<1> DEFINE K == [session : {s}, from : Devices, to : Devices]
<1>1. bus.events \in Seq(Handoffs)
  BY DEF BusTyped
<1>2. Sift(bus.events, K) \in Seq(Handoffs)
  <2> HIDE DEF K
  <2> QED
    BY <1>1, SiftType
<1> QED
  BY <1>2 DEF EventsOf

(* A verdict for a hash that had none moves one counter by one.              *)
LEMMA VerdictFacts ==
  ASSUME VerdictsCounted, NEW hash, NEW genuine \in BOOLEAN, chain' = Verified(hash, genuine)
  PROVE  VerdictsCounted'
<1>1. CASE Judged(hash)
  <2>1. chain' = chain
    BY <1>1 DEF Verified
  <2> QED
    BY <2>1 DEF VerdictsCounted, Judgements
<1>2. CASE ~ Judged(hash)
  <2> DEFINE V == chain.verdicts  D == DOMAIN chain.verdicts \cup {hash}
             W == [h \in D |-> IF h = hash THEN genuine ELSE V[h]]
  <2>1. /\ chain'.verdicts = W
        /\ chain'.ok = chain.ok + (IF genuine THEN 1 ELSE 0)
        /\ chain'.fail = chain.fail + (IF genuine THEN 0 ELSE 1)
        /\ chain' = [verdicts |-> chain'.verdicts, ok |-> chain'.ok, fail |-> chain'.fail]
    BY <1>2 DEF Verified, WithVerdict
  <2>2. hash \notin DOMAIN V
    BY <1>2 DEF Judged
  <2>3. DOMAIN W = D /\ IsFiniteSet(D) /\ W \in [D -> BOOLEAN]
    <3>1. IsFiniteSet(D)
      BY FS_AddElement DEF VerdictsCounted
    <3>2. \A h \in D : W[h] \in BOOLEAN
      BY DEF VerdictsCounted
    <3> QED
      BY <3>1, <3>2
  <2>4. \A b \in BOOLEAN :
          /\ IsFiniteSet(Judgements(b)) /\ hash \notin Judgements(b)
          /\ Judgements(b)' = IF b = genuine THEN Judgements(b) \cup {hash} ELSE Judgements(b)
    <3> TAKE b \in BOOLEAN
    <3>1. IsFiniteSet(Judgements(b))
      <4>1. Judgements(b) \subseteq DOMAIN V /\ IsFiniteSet(DOMAIN V)
        BY DEF Judgements, VerdictsCounted
      <4> QED
        BY <4>1, FS_Subset
    <3>2. hash \notin Judgements(b)
      BY <2>2 DEF Judgements
    <3>3. Judgements(b)' = {h \in D : W[h] = b}
      BY <2>1, <2>3 DEF Judgements
    <3>4. {h \in D : W[h] = b} =
            IF b = genuine THEN Judgements(b) \cup {hash} ELSE Judgements(b)
      BY <2>2 DEF Judgements
    <3> QED
      BY <3>1, <3>2, <3>3, <3>4
  <2>5. \A b \in BOOLEAN :
          Cardinality(Judgements(b))' =
            Cardinality(Judgements(b)) + (IF b = genuine THEN 1 ELSE 0)
          /\ Cardinality(Judgements(b)) \in Nat
    <3> TAKE b \in BOOLEAN
    <3>1. Cardinality(Judgements(b)) \in Nat
      BY <2>4, FS_CardinalityType
    <3>2. Cardinality(Judgements(b) \cup {hash}) = Cardinality(Judgements(b)) + 1
      BY <2>4, FS_AddElement
    <3> QED
      BY <2>4, <3>1, <3>2
  <2>6. /\ chain'.verdicts \in [DOMAIN chain'.verdicts -> BOOLEAN]
        /\ IsFiniteSet(DOMAIN chain'.verdicts)
    BY <2>1, <2>3
  <2> HIDE DEF W, D, V
  <2>7. chain'.ok = chain.ok + (IF TRUE = genuine THEN 1 ELSE 0)
        /\ chain'.fail = chain.fail + (IF FALSE = genuine THEN 1 ELSE 0)
    BY <2>1
  <2>8. TRUE \in BOOLEAN /\ FALSE \in BOOLEAN
    OBVIOUS
  <2>9. /\ chain'.ok = Cardinality(Judgements(TRUE))' /\ chain'.ok \in Nat
        /\ chain'.fail = Cardinality(Judgements(FALSE))' /\ chain'.fail \in Nat
    <3>1. /\ Cardinality(Judgements(TRUE))' =
               Cardinality(Judgements(TRUE)) + (IF TRUE = genuine THEN 1 ELSE 0)
          /\ Cardinality(Judgements(TRUE)) \in Nat
      BY <2>5, <2>8, Zenon
    <3>2. /\ Cardinality(Judgements(FALSE))' =
               Cardinality(Judgements(FALSE)) + (IF FALSE = genuine THEN 1 ELSE 0)
          /\ Cardinality(Judgements(FALSE)) \in Nat
      BY <2>5, <2>8, Zenon
    <3>3. (IF TRUE = genuine THEN 1 ELSE 0) \in Nat /\ (IF FALSE = genuine THEN 1 ELSE 0) \in Nat
      OBVIOUS
    <3>4. /\ chain.ok \in Nat /\ chain.ok = Cardinality(Judgements(TRUE))
          /\ chain.fail \in Nat /\ chain.fail = Cardinality(Judgements(FALSE))
      BY DEF VerdictsCounted
    <3> DEFINE t == IF TRUE = genuine THEN 1 ELSE 0
               u == IF FALSE = genuine THEN 1 ELSE 0
               n == Cardinality(Judgements(TRUE))
               m == Cardinality(Judgements(FALSE))
    <3>5. /\ n' = n + t /\ m' = m + u /\ t \in Nat /\ u \in Nat
          /\ chain.ok \in Nat /\ chain.ok = n /\ chain.fail \in Nat /\ chain.fail = m
          /\ chain'.ok = chain.ok + t /\ chain'.fail = chain.fail + u
      BY <2>7, <3>1, <3>2, <3>3, <3>4, Zenon
    <3> HIDE DEF t, u, n, m
    <3>6. chain'.ok = n' /\ chain'.ok \in Nat /\ chain'.fail = m' /\ chain'.fail \in Nat
      BY <3>5
    <3> QED
      BY <3>6, Zenon DEF n, m
  <2> QED
    BY <2>1, <2>6, <2>9 DEF VerdictsCounted
<1> QED
  BY <1>1, <1>2

(* A write to a path that no session has leaves the sessions' trails alone.  *)
LEMMA OtherWritesKeep ==
  ASSUME WritersInv, NEW path, UNCHANGED bus,
         DOMAIN head' = DOMAIN head \cup {path},
         \A q \in DOMAIN head : q # path => head'[q] = head[q],
         \A s \in Nat \ {0} : Session(s) # path
  PROVE  Trails' /\ StoredSessions'
<1>1. \A s \in Nat \ {0} : EventsOf(s)' = EventsOf(s)
  BY DEF EventsOf
<1>2. \A s \in Nat \ {0} :
        /\ Session(s) \in DOMAIN head' <=> Session(s) \in DOMAIN head
        /\ Session(s) \in DOMAIN head => head'[Session(s)] = head[Session(s)]
  OBVIOUS
<1>3. Trails'
  <2> SUFFICES ASSUME NEW s \in Nat \ {0}
               PROVE  IF s <= Len(bus'.sessions)
                      THEN /\ Leads(EventsOf(s)', bus'.sessions[s].current)
                           /\ EventsOf(s)' # << >> => Session(s) \in DOMAIN head'
                      ELSE EventsOf(s)' = << >>
    BY DEF Trails
  <2> QED
    BY <1>1, <1>2 DEF WritersInv, Trails
<1>4. StoredSessions'
  BY <1>2 DEF WritersInv, StoredSessions
<1> QED
  BY <1>3, <1>4

LEMMA CreateSessionKeeps ==
  ASSUME WritersInv, NEW payload \in Contents, CreateSession(payload)
  PROVE  WritersInv'
<1> DEFINE old == bus.sessions  n == Len(old)
           new == [payload |-> payload, current |-> This, state |-> "active"]
<1>1. /\ bus' = [bus EXCEPT !.sessions = Append(old, new)]
      /\ UNCHANGED << now, head, sequence, copies, chain, signing >>
  BY DEF CreateSession
<1>2. /\ bus \in [sessions : Seq(SessionStates), events : Seq(Handoffs),
                   clipboard : Contents \cup {None}]
      /\ old \in Seq(SessionStates) /\ n \in Nat
  BY LenProperties DEF WritersInv, BusTyped
<1>3. new \in SessionStates /\ new.current = This
  BY DEF SessionStates, Devices
<1> HIDE DEF new
<1>4. /\ bus'.sessions = Append(old, new) /\ bus'.events = bus.events
      /\ bus'.clipboard = bus.clipboard
      /\ bus'.sessions \in Seq(SessionStates) /\ Len(bus'.sessions) = n + 1
      /\ bus'.sessions[n + 1] = new /\ \A s \in 1 .. n : bus'.sessions[s] = old[s]
  BY <1>1, <1>2, <1>3, AppendProperties
<1>5. BusTyped'
  BY <1>1, <1>2, <1>4 DEF WritersInv, BusTyped
<1> HIDE DEF old, n
<1>6. \A s \in Nat \ {0} : EventsOf(s)' = EventsOf(s)
  BY <1>4 DEF EventsOf
<1>7. ASSUME NEW s \in Nat \ {0}
      PROVE  IF s <= n + 1
             THEN /\ Leads(EventsOf(s), bus'.sessions[s].current)
                  /\ EventsOf(s) # << >> => Session(s) \in DOMAIN head
             ELSE EventsOf(s) = << >>
  <2>1. IF s <= n THEN /\ Leads(EventsOf(s), old[s].current)
                       /\ EventsOf(s) # << >> => Session(s) \in DOMAIN head
        ELSE EventsOf(s) = << >>
    BY DEF WritersInv, Trails, old, n
  <2>2. CASE s <= n
    <3>1. s \in 1 .. n /\ s <= n + 1
      BY <1>2, <2>2
    <3> QED
      BY <1>4, <2>1, <2>2, <3>1
  <2>3. CASE s = n + 1
    <3>1. EventsOf(s) = << >> /\ s <= n + 1
      BY <1>2, <2>1, <2>3
    <3>2. Leads(<< >>, This)
      BY EmptySeq DEF Leads
    <3> QED
      BY <1>3, <1>4, <2>3, <3>1, <3>2
  <2>4. CASE s > n + 1
    BY <1>2, <2>1, <2>4
  <2> QED
    BY <1>2, <2>2, <2>3, <2>4
<1>8. Trails'
  BY <1>1, <1>4, <1>6, <1>7 DEF Trails
<1>9. StoredSessions'
  <2> SUFFICES ASSUME NEW s \in Nat \ {0}, Session(s) \in DOMAIN head
               PROVE  s <= n + 1 /\ head[Session(s)].payload = bus'.sessions[s].payload
    BY <1>1, <1>4 DEF StoredSessions
  <2>1. s <= n /\ head[Session(s)].payload = old[s].payload
    BY DEF WritersInv, StoredSessions, old, n
  <2>2. s \in 1 .. n
    BY <1>2, <2>1
  <2> QED
    BY <1>2, <1>4, <2>1, <2>2
<1>10. HeadsTyped' /\ SigningTyped' /\ ClipboardKept' /\ VerdictsCounted'
  BY <1>1, <1>4 DEF WritersInv, HeadsTyped, SigningTyped, ClipboardKept, VerdictsCounted, Judgements
<1> QED
  BY <1>5, <1>8, <1>9, <1>10 DEF WritersInv

LEMMA HandoffKeeps ==
  ASSUME WritersInv, NEW s \in 1 .. MaxSessions, NEW target \in Devices, Handoff(s, target)
  PROVE  WritersInv'
<1> DEFINE old == bus.sessions  n == Len(old)
           there == [old[s] EXCEPT !.current = target, !.state = "resumed"]
           moved == [old EXCEPT ![s] = there]
           e == [session |-> s, from |-> old[s].current, to |-> target]
<1>1. /\ s \in DOMAIN old
      /\ bus' = [bus EXCEPT
                   !.sessions[s] = [@ EXCEPT !.current = target, !.state = "resumed"],
                   !.events = Append(@, [session |-> s, from |-> old[s].current, to |-> target])]
      /\ DagWrite(now, Session(s), old[s].payload)
      /\ UNCHANGED << now, copies, chain, signing >>
  BY DEF Handoff, From
<1>2. /\ bus \in [sessions : Seq(SessionStates), events : Seq(Handoffs),
                   clipboard : Contents \cup {None}]
      /\ old \in Seq(SessionStates) /\ n \in Nat
      /\ bus.events \in Seq(Handoffs)
  BY LenProperties DEF WritersInv, BusTyped
<1>3. s \in 1 .. n /\ s \in Nat \ {0} /\ old[s] \in SessionStates
  <2>1. DOMAIN old = 1 .. n
    BY <1>2, LenProperties
  <2>2. s \in 1 .. n
    BY <1>1, <2>1
  <2> QED
    BY <1>2, <2>2, ElementOfSeq
<1>4. e \in Handoffs /\ e.from = old[s].current /\ e.to = target /\ e.session = s
  BY <1>3 DEF Handoffs, SessionStates
<1>5. /\ bus'.sessions = moved /\ bus'.events = Append(bus.events, e)
      /\ bus'.clipboard = bus.clipboard
      /\ bus' \in [sessions : {bus'.sessions}, events : {bus'.events}, clipboard : {bus'.clipboard}]
  BY <1>1, <1>2
<1>6. /\ moved \in Seq(SessionStates) /\ Len(moved) = n
      /\ moved[s].current = target /\ \A t \in 1 .. n : moved[t].payload = old[t].payload
      /\ \A t \in 1 .. n : t # s => moved[t] = old[t]
  <2>1. there \in SessionStates /\ there.payload = old[s].payload /\ there.current = target
    BY <1>3 DEF SessionStates
  <2> HIDE DEF there
  <2>2. moved \in Seq(SessionStates) /\ Len(moved) = n
        /\ \A t \in 1 .. n : moved[t] = IF t = s THEN there ELSE old[t]
    BY <1>2, <1>3, <2>1, ExceptSeq
  <2> QED
    BY <1>3, <2>1, <2>2
<1> HIDE DEF moved, e
<1>7. BusTyped'
  <2>1. bus'.events \in Seq(Handoffs)
    BY <1>2, <1>4, <1>5, AppendProperties
  <2> QED
    BY <1>1, <1>2, <1>5, <1>6, <2>1 DEF WritersInv, BusTyped
<1>8. now \in 0 .. now /\ old[s].payload \in Contents
  BY <1>3 DEF WritersInv, HeadsTyped, SessionStates
<1>9. /\ HeadsTyped' /\ DOMAIN head' = DOMAIN head \cup {Session(s)}
      /\ \A q \in DOMAIN head : q # Session(s) => head'[q] = head[q]
      /\ TakesHead(now, Session(s)) => head'[Session(s)].payload = old[s].payload
      /\ ~ TakesHead(now, Session(s)) => /\ Session(s) \in DOMAIN head
                                    /\ head'[Session(s)] = head[Session(s)]
  BY <1>1, <1>8, WriteFacts DEF WritersInv
<1> HIDE DEF old, n
<1>10. head'[Session(s)].payload = old[s].payload
  BY <1>3, <1>9 DEF WritersInv, StoredSessions, old
<1>11. \A t \in Nat \ {0} :
         EventsOf(t)' = IF t = s THEN Append(EventsOf(t), e) ELSE EventsOf(t)
  <2> TAKE t \in Nat \ {0}
  <2> DEFINE K == [session : {t}, from : Devices, to : Devices]
  <2>1. EventsOf(t) = Sift(bus.events, K) /\ EventsOf(t)' = Sift(bus'.events, K)
    BY DEF EventsOf
  <2>2. e \in K <=> t = s
    BY <1>4 DEF Handoffs
  <2> HIDE DEF K
  <2>3. Sift(Append(bus.events, e), K) =
          IF e \in K THEN Append(Sift(bus.events, K), e) ELSE Sift(bus.events, K)
    BY <1>2, <1>4, SiftAppend
  <2> QED
    BY <1>5, <2>1, <2>2, <2>3
<1>12. ASSUME NEW t \in Nat \ {0}
       PROVE  IF t <= n
              THEN /\ Leads(EventsOf(t)', moved[t].current)
                   /\ EventsOf(t)' # << >> => Session(t) \in DOMAIN head'
              ELSE EventsOf(t)' = << >>
  <2>1. IF t <= n THEN /\ Leads(EventsOf(t), old[t].current)
                       /\ EventsOf(t) # << >> => Session(t) \in DOMAIN head
        ELSE EventsOf(t) = << >>
    BY DEF WritersInv, Trails, old, n
  <2>2. CASE t = s
    <3>1. t <= n
      BY <1>2, <1>3, <2>2
    <3>2. EventsOf(t) \in Seq(Handoffs)
      BY EventsType DEF WritersInv
    <3>3. Leads(Append(EventsOf(t), e), e.to)
      BY <1>4, <2>1, <2>2, <3>1, <3>2, LeadsOn
    <3> QED
      BY <1>4, <1>6, <1>9, <1>11, <2>2, <3>1, <3>3
  <2>3. CASE t # s
    <3>1. t <= n => t \in 1 .. n
      BY <1>2
    <3> QED
      BY <1>6, <1>9, <1>11, <2>1, <2>3, <3>1
  <2> QED
    BY <2>2, <2>3
<1>13. Trails'
  BY <1>5, <1>6, <1>12 DEF Trails
<1>14. StoredSessions'
  <2> SUFFICES ASSUME NEW t \in Nat \ {0}, Session(t) \in DOMAIN head'
               PROVE  t <= n /\ head'[Session(t)].payload = moved[t].payload
    BY <1>5, <1>6 DEF StoredSessions
  <2>1. CASE t = s
    BY <1>2, <1>3, <1>6, <1>10, <2>1
  <2>2. CASE t # s
    <3>1. Session(t) # Session(s) /\ Session(t) \in DOMAIN head
      BY <1>9, <2>2, PathsApart
    <3>2. t <= n /\ head[Session(t)].payload = old[t].payload
      BY <3>1 DEF WritersInv, StoredSessions, old, n
    <3>3. t \in 1 .. n
      BY <1>2, <3>2
    <3> QED
      BY <1>6, <1>9, <3>1, <3>2, <3>3
  <2> QED
    BY <2>1, <2>2
<1>15. ClipboardKept'
  <2>1. Clipboard # Session(s)
    BY PathsApart
  <2> QED
    BY <1>1, <1>5, <1>9, <2>1 DEF WritersInv, ClipboardKept
<1>16. SigningTyped' /\ VerdictsCounted'
  BY <1>1 DEF WritersInv, SigningTyped, VerdictsCounted, Judgements
<1> QED
  BY <1>7, <1>9, <1>13, <1>14, <1>15, <1>16 DEF WritersInv

LEMMA CopyKeeps ==
  ASSUME WritersInv, NEW content \in Contents, ClipboardCopy(content)
  PROVE  WritersInv'
<1>1. /\ DagWrite(now, Clipboard, content) /\ bus' = [bus EXCEPT !.clipboard = content]
      /\ copies' = IF LastCopy = now THEN copies + 1 ELSE 1
      /\ UNCHANGED << now, chain, signing >>
  BY DEF ClipboardCopy
<1>2. now \in 0 .. now /\ now \in Nat /\ now >= 1
  BY StoreWritersAssumption DEF WritersInv, HeadsTyped
<1>3. /\ HeadsTyped' /\ DOMAIN head' = DOMAIN head \cup {Clipboard}
      /\ \A q \in DOMAIN head : q # Clipboard => head'[q] = head[q]
      /\ TakesHead(now, Clipboard) => head'[Clipboard].payload = content
  BY <1>1, <1>2, WriteFacts DEF WritersInv
<1>4. /\ bus \in [sessions : Seq(SessionStates), events : Seq(Handoffs),
                   clipboard : Contents \cup {None}]
      /\ copies \in Nat
  BY DEF WritersInv, BusTyped
<1>5. /\ bus'.sessions = bus.sessions /\ bus'.events = bus.events /\ bus'.clipboard = content
      /\ BusTyped' /\ copies' \in Nat \ {0}
  BY <1>1, <1>4 DEF BusTyped
<1>6. ClipboardKept'
  <2>1. CASE LastCopy = now
    <3>1. Clipboard \in DOMAIN head
      BY <1>2, <2>1 DEF LastCopy
    <3>2. copies # 0
      BY <3>1 DEF WritersInv, ClipboardKept
    <3>3. copies' # 0 /\ copies' # 1
      BY <1>1, <1>4, <2>1, <3>2
    <3> QED
      BY <1>3, <3>3 DEF ClipboardKept
  <2>2. CASE LastCopy # now
    <3>1. TakesHead(now, Clipboard)
      <4>1. Clipboard \in DOMAIN head => head[Clipboard].ts \in Nat /\ head[Clipboard].ts <= now
        BY DEF WritersInv, HeadsTyped, Blocks
      <4> QED
        BY <1>2, <2>2, <4>1 DEF LastCopy, TakesHead
    <3>2. copies' = 1
      BY <1>1, <2>2
    <3> QED
      BY <1>3, <1>5, <3>1, <3>2 DEF ClipboardKept
  <2> QED
    BY <2>1, <2>2
<1>7. \A t \in Nat \ {0} : EventsOf(t)' = EventsOf(t)
  BY <1>5 DEF EventsOf
<1>8. \A t \in Nat \ {0} :
        /\ Session(t) \in DOMAIN head' <=> Session(t) \in DOMAIN head
        /\ Session(t) \in DOMAIN head => head'[Session(t)] = head[Session(t)]
  BY <1>3, PathsApart
<1>9. Trails'
  <2> SUFFICES ASSUME NEW t \in Nat \ {0}
               PROVE  IF t <= Len(bus'.sessions)
                      THEN /\ Leads(EventsOf(t)', bus'.sessions[t].current)
                           /\ EventsOf(t)' # << >> => Session(t) \in DOMAIN head'
                      ELSE EventsOf(t)' = << >>
    BY DEF Trails
  <2> QED
    BY <1>5, <1>7, <1>8 DEF WritersInv, Trails
<1>10. StoredSessions'
  BY <1>5, <1>8 DEF WritersInv, StoredSessions
<1>11. SigningTyped' /\ VerdictsCounted'
  BY <1>1 DEF WritersInv, SigningTyped, VerdictsCounted, Judgements
<1> QED
  BY <1>3, <1>5, <1>6, <1>9, <1>10, <1>11 DEF WritersInv

LEMMA StoreKeeps ==
  ASSUME WritersInv, Store
  PROVE  WritersInv'
<1> DEFINE path == File(signing.path)
<1>1. /\ signing.at = "store" /\ DagWrite(signing.ts, path, signing.payload)
      /\ signing' = NotSigning /\ UNCHANGED << now, bus, copies, chain >>
  BY DEF Store
<1>2. signing.ts \in 0 .. now /\ signing.payload \in Contents
  BY <1>1 DEF WritersInv, SigningTyped
<1> HIDE DEF path
<1>3. /\ HeadsTyped' /\ DOMAIN head' = DOMAIN head \cup {path}
      /\ \A q \in DOMAIN head : q # path => head'[q] = head[q]
  BY <1>1, <1>2, WriteFacts DEF WritersInv
<1>4. Clipboard # path /\ \A s \in Nat \ {0} : Session(s) # path
  BY PathsApart DEF path
<1>5. Trails' /\ StoredSessions'
  BY <1>1, <1>3, <1>4, OtherWritesKeep
<1>6. ClipboardKept'
  BY <1>1, <1>3, <1>4 DEF WritersInv, ClipboardKept
<1>7. BusTyped' /\ VerdictsCounted'
  BY <1>1 DEF WritersInv, BusTyped, VerdictsCounted, Judgements
<1>8. SigningTyped'
  <2>1. << >> \in Seq(Blocks)
    BY EmptySeq
  <2> QED
    BY <1>1, <2>1 DEF SigningTyped, SignSteps, NotSigning
<1> QED
  BY <1>3, <1>5, <1>6, <1>7, <1>8 DEF WritersInv

(* The other steps of write_signed write nothing.                            *)
LEMMA SigningKeeps ==
  ASSUME WritersInv,
         \/ \E path \in SignedPaths, payload \in Contents : ReadHead(path, payload)
         \/ ReadSequence \/ Verify \/ SampleTick \/ VerifyFake
  PROVE  WritersInv'
<1>1. UNCHANGED << now, head, sequence, bus, copies >>
  BY DEF ReadHead, ReadSequence, Verify, SampleTick, VerifyFake
<1>2. signing \in SignSteps /\ now \in Nat /\ sequence \in Nat
  BY StoreWritersAssumption DEF WritersInv, SigningTyped, HeadsTyped
<1>3. << >> \in Seq(Blocks) /\ NotSigning \in SignSteps
  <2>1. << >> \in Seq(Blocks)
    BY EmptySeq
  <2> QED
    BY <2>1 DEF SignSteps, NotSigning
<1>4. SigningTyped'
  <2>1. ASSUME NEW path \in SignedPaths, NEW payload \in Contents, ReadHead(path, payload)
        PROVE  SigningTyped'
    <3> DEFINE parent == IF File(path) \in DOMAIN head THEN << head[File(path)] >> ELSE << >>
    <3>1. parent \in Seq(Blocks)
      <4>1. File(path) \in DOMAIN head => head[File(path)] \in Blocks
        BY DEF WritersInv, HeadsTyped
      <4> QED
        BY <1>3, <4>1
    <3> HIDE DEF parent
    <3>2. signing' = [at |-> "seq", path |-> path, payload |-> payload, parent |-> parent,
                      seq |-> 0, ts |-> now]
      BY <2>1 DEF ReadHead, NotSigning, parent
    <3> QED
      BY <1>1, <1>2, <3>1, <3>2 DEF SigningTyped, SignSteps
  <2>2. CASE ReadSequence
    <3>1. signing.at = "seq" /\ signing' = [signing EXCEPT !.at = "verify", !.seq = sequence]
      BY <2>2 DEF ReadSequence
    <3>2. /\ signing' \in SignSteps
          /\ signing'.path = signing.path /\ signing'.payload = signing.payload
          /\ signing'.ts = signing.ts
      BY <1>2, <3>1 DEF SignSteps
    <3> QED
      BY <1>1, <3>1, <3>2 DEF WritersInv, SigningTyped
  <2>3. CASE Verify
    <3>1. signing.at = "verify"
          /\ (signing' = NotSigning \/ signing' = [signing EXCEPT !.at = "tick"])
      BY <2>3 DEF Verify
    <3>2. CASE signing' = NotSigning
      BY <1>3, <3>2 DEF SigningTyped, NotSigning
    <3>3. CASE signing' = [signing EXCEPT !.at = "tick"]
      BY <1>1, <1>2, <3>1, <3>3 DEF WritersInv, SigningTyped, SignSteps
    <3> QED
      BY <3>1, <3>2, <3>3
  <2>4. CASE SampleTick
    <3>1. signing.at = "tick" /\ signing' = [signing EXCEPT !.at = "store", !.ts = now]
      BY <2>4 DEF SampleTick
    <3>2. /\ signing' \in SignSteps /\ signing'.ts = now
          /\ signing'.path = signing.path /\ signing'.payload = signing.payload
      BY <1>2, <3>1 DEF SignSteps
    <3> QED
      BY <1>1, <1>2, <3>1, <3>2 DEF WritersInv, SigningTyped
  <2>5. CASE VerifyFake
    BY <1>1, <2>5 DEF VerifyFake, WritersInv, SigningTyped
  <2> QED
    BY <2>1, <2>2, <2>3, <2>4, <2>5
<1>5. VerdictsCounted'
  <2>1. CASE chain' = chain
    BY <2>1 DEF WritersInv, VerdictsCounted, Judgements
  <2>2. CASE Verify
    <3>1. chain' = Verified(HashOf(signing), TRUE)
      BY <2>2 DEF Verify
    <3> QED
      BY <3>1, VerdictFacts DEF WritersInv
  <2>3. CASE VerifyFake
    <3>1. chain' = Verified(FakeHash, FALSE)
      BY <2>3 DEF VerifyFake
    <3> QED
      BY <3>1, VerdictFacts DEF WritersInv
  <2> QED
    BY <2>1, <2>2, <2>3 DEF ReadHead, ReadSequence, SampleTick
<1>6. Trails' /\ StoredSessions'
  <2>1. \A s \in Nat \ {0} : EventsOf(s)' = EventsOf(s)
    BY <1>1 DEF EventsOf
  <2> QED
    BY <1>1, <2>1 DEF WritersInv, Trails, StoredSessions
<1> QED
  BY <1>1, <1>4, <1>5, <1>6 DEF WritersInv, HeadsTyped, BusTyped, ClipboardKept

LEMMA WritersInitially == WritersInit => WritersInv
<1> SUFFICES ASSUME WritersInit PROVE WritersInv
  OBVIOUS
<1>1. /\ now = 1 /\ head = << >> /\ sequence = 1 /\ copies = 0
      /\ bus = [sessions |-> << >>, events |-> << >>, clipboard |-> None]
      /\ chain = [verdicts |-> << >>, ok |-> 0, fail |-> 0] /\ signing = NotSigning
  BY DEF WritersInit
<1>2. DOMAIN head = {} /\ DOMAIN chain.verdicts = {}
  BY <1>1, EmptySeq
<1>3. HeadsTyped
  BY <1>1, <1>2, StoreWritersAssumption DEF HeadsTyped
<1>4. BusTyped
  <2>1. << >> \in Seq(SessionStates) /\ << >> \in Seq(Handoffs)
    BY EmptySeq
  <2> QED
    BY <1>1, <2>1 DEF BusTyped
<1>5. SigningTyped
  <2>1. << >> \in Seq(Blocks)
    BY EmptySeq
  <2> QED
    BY <1>1, <2>1 DEF SigningTyped, SignSteps, NotSigning
<1>6. Trails
  <2> SUFFICES ASSUME NEW s \in Nat \ {0}
               PROVE  ~ (s <= Len(bus.sessions)) /\ EventsOf(s) = << >>
    BY DEF Trails
  <2>1. Len(bus.sessions) = 0
    BY <1>1, EmptySeq
  <2> DEFINE K == [session : {s}, from : Devices, to : Devices]
  <2> HIDE DEF K
  <2>2. Sift(<< >>, K) = << >>
    BY SiftEmpty
  <2>3. EventsOf(s) = << >>
    BY <1>1, <2>2 DEF EventsOf, K
  <2> QED
    BY <2>1, <2>3
<1>7. StoredSessions /\ ClipboardKept
  BY <1>1, <1>2 DEF StoredSessions, ClipboardKept
<1>8. VerdictsCounted
  <2>1. Judgements(TRUE) = {} /\ Judgements(FALSE) = {}
    BY <1>2 DEF Judgements
  <2>2. chain.verdicts \in [DOMAIN chain.verdicts -> BOOLEAN]
    BY <1>1, <1>2
  <2> QED
    BY <1>1, <1>2, <2>1, <2>2, FS_EmptySet DEF VerdictsCounted
<1> QED
  BY <1>3, <1>4, <1>5, <1>6, <1>7, <1>8 DEF WritersInv

LEMMA WritersRest ==
  ASSUME WritersInv, TimePasses \/ UNCHANGED writersVars
  PROVE  WritersInv'
<1>1. UNCHANGED << head, sequence, bus, copies, chain, signing >>
      /\ (now' = now \/ (now < MaxClock /\ now' = now + 1))
  BY DEF TimePasses, writersVars
<1>2. now \in 1 .. MaxClock /\ MaxClock \in Nat /\ 0 .. now \subseteq 0 .. now'
      /\ now' \in 1 .. MaxClock
  BY <1>1, StoreWritersAssumption DEF WritersInv, HeadsTyped
<1>3. HeadsTyped'
  <2>1. \A p \in DOMAIN head : head[p].ts \in Nat /\ head[p].ts <= now
    BY DEF WritersInv, HeadsTyped, Blocks
  <2> QED
    BY <1>1, <1>2, <2>1 DEF WritersInv, HeadsTyped
<1>4. SigningTyped'
  BY <1>1, <1>2 DEF WritersInv, SigningTyped
<1>5. Trails' /\ StoredSessions'
  <2>1. \A s \in Nat \ {0} : EventsOf(s)' = EventsOf(s)
    BY <1>1 DEF EventsOf
  <2> QED
    BY <1>1, <2>1 DEF WritersInv, Trails, StoredSessions
<1>6. BusTyped' /\ ClipboardKept' /\ VerdictsCounted'
  BY <1>1 DEF WritersInv, BusTyped, ClipboardKept, VerdictsCounted, Judgements
<1> QED
  BY <1>3, <1>4, <1>5, <1>6 DEF WritersInv

(* The invariant of the store's writers: what the heads, the handoffs, the   *)
(* clipboard and the verdicts say of one another, after any command and      *)
(* between any two critical sections of write_signed.                        *)
THEOREM WritersInvariant == WritersSpec => []WritersInv
<1>1. WritersInv /\ [WritersNext]_writersVars => WritersInv'
  <2> SUFFICES ASSUME WritersInv, [WritersNext]_writersVars PROVE WritersInv'
    OBVIOUS
  <2>1. CASE TimePasses \/ UNCHANGED writersVars
    BY <2>1, WritersRest
  <2>2. ASSUME NEW payload \in Contents, CreateSession(payload) PROVE WritersInv'
    BY <2>2, CreateSessionKeeps
  <2>3. ASSUME NEW s \in 1 .. MaxSessions, NEW target \in Remote \cup {This},
               Handoff(s, target)
        PROVE  WritersInv'
    BY <2>3, HandoffKeeps DEF Devices
  <2>4. ASSUME NEW content \in Contents, ClipboardCopy(content) PROVE WritersInv'
    BY <2>4, CopyKeeps
  <2>5. CASE \/ \E path \in SignedPaths, payload \in Contents : ReadHead(path, payload)
             \/ ReadSequence \/ Verify \/ SampleTick \/ VerifyFake
    BY <2>5, SigningKeeps
  <2>6. CASE Store
    BY <2>6, StoreKeeps
  <2> QED
    BY <2>1, <2>2, <2>3, <2>4, <2>5, <2>6 DEF WritersNext
<1> QED
  BY WritersInitially, <1>1, PTL DEF WritersSpec

(* The handoffs of a session lead from this device to the one that has it,   *)
(* and its state is in the store; the only copy of a tick is in the store;   *)
(* every hash was judged and counted once (handoff and clipboard_copy of     *)
(* xdev.rs, verify_block of dag_sig.rs).                                     *)
THEOREM TrailsFollow == WritersSpec => []TrailConnected
<1>1. WritersInv => TrailConnected
  <2> SUFFICES ASSUME WritersInv PROVE TrailConnected
    OBVIOUS
  <2>1. ASSUME NEW s \in DOMAIN bus.sessions
        PROVE  LET trail == EventsOf(s)
               IN /\ \A i \in DOMAIN trail :
                       trail[i].from = IF i = 1 THEN This ELSE trail[i - 1].to
                  /\ bus.sessions[s].current =
                       IF trail = << >> THEN This ELSE trail[Len(trail)].to
                  /\ trail # << >> => /\ Session(s) \in DOMAIN head
                                      /\ head[Session(s)].payload = bus.sessions[s].payload
    <3> DEFINE trail == EventsOf(s)
    <3>1. bus.sessions \in Seq(SessionStates)
      BY DEF WritersInv, BusTyped
    <3>2. s \in Nat \ {0} /\ s <= Len(bus.sessions)
      BY <3>1, LenProperties
    <3>3. trail \in Seq(Handoffs)
      BY <3>2, EventsType DEF WritersInv
    <3>4. DOMAIN trail = 1 .. Len(trail)
      BY <3>3, LenProperties
    <3>5. Leads(trail, bus.sessions[s].current) /\ (trail # << >> => Session(s) \in DOMAIN head)
      BY <3>2 DEF WritersInv, Trails
    <3>6. Session(s) \in DOMAIN head => head[Session(s)].payload = bus.sessions[s].payload
      BY <3>2 DEF WritersInv, StoredSessions
    <3> HIDE DEF trail
    <3> QED
      BY <3>4, <3>5, <3>6 DEF Leads, trail
  <2> QED
    BY <2>1 DEF TrailConnected, WritersInv, ClipboardKept, VerdictsCounted
<1> QED
  BY WritersInvariant, <1>1, PTL

-----------------------------------------------------------------------------
(***************************************************************************)
(* Discovery and transport, for any nodes, payloads and losses.            *)
(*                                                                         *)
(* Every frame in flight is a query, another node's announcement or a      *)
(* packet another node has sent (Genuine).  A packet is parsed to what was *)
(* serialised, whatever its lists hold (ParseIsInverse), so an announcement *)
(* tells of its sender and nobody else.                                    *)
(***************************************************************************)
(* What is parsed is what was serialised, whatever its lists hold: the counts *)
(* say where each list ends.                                                 *)
Joined(T, all, s, q, t, m) ==
  /\ all \in Seq(T) /\ Len(all) = q + m
  /\ \A i \in 1 .. q : all[i] = s[i]
  /\ \A i \in 1 .. m : all[q + i] = t[i]

LEMMA Halves ==
  ASSUME NEW T, NEW s \in Seq(T), NEW t \in Seq(T), NEW q \in Nat, NEW m \in Nat,
         Len(s) = q, Len(t) = m
  PROVE  Joined(T, s \o t, s, q, t, m)
<1>1. /\ s \o t \in Seq(T) /\ Len(s \o t) = q + m
      /\ \A i \in 1 .. q + m : (s \o t)[i] = IF i <= q THEN s[i] ELSE t[i - q]
  BY ConcatProperties
<1> DEFINE st == s \o t
<1> HIDE DEF st
<1>2. ASSUME NEW i \in 1 .. q PROVE st[i] = s[i]
  <2>1. i \in 1 .. q + m /\ i <= q
    OBVIOUS
  <2> QED
    BY <1>1, <2>1 DEF st
<1>3. ASSUME NEW i \in 1 .. m PROVE st[q + i] = t[i]
  <2>1. q + i \in 1 .. q + m /\ ~ (q + i <= q) /\ (q + i) - q = i
    OBVIOUS
  <2>2. st[q + i] = IF q + i <= q THEN s[q + i] ELSE t[(q + i) - q]
    BY <1>1, <2>1 DEF st
  <2> QED
    BY <2>1, <2>2
<1> QED
  BY <1>1, <1>2, <1>3 DEF st, Joined

LEMMA CutOut ==
  ASSUME NEW T, NEW all \in Seq(T), NEW r \in Seq(T), NEW q \in Nat, NEW m \in Nat,
         Len(r) = m, q + m <= Len(all), \A i \in 1 .. m : all[q + i] = r[i]
  PROVE  SubSeq(all, q + 1, q + m) = r
<1> DEFINE c == SubSeq(all, q + 1, q + m)  n == Len(all)
<1>1. n \in Nat /\ q + m <= n
  BY LenProperties
<1> HIDE DEF n
<1>2. q + 1 \in 1 .. n + 1 /\ q + m \in q + 1 - 1 .. n /\ (q + m) - (q + 1) + 1 = m
  BY <1>1
<1>3. /\ c \in Seq(T) /\ Len(c) = (q + m) - (q + 1) + 1
      /\ \A i \in 1 .. (q + m) - (q + 1) + 1 : c[i] = all[(q + 1) + i - 1]
  BY <1>2, SubSeqProperties DEF n
<1>4. \A i \in 1 .. m : (q + 1) + i - 1 = q + i
  OBVIOUS
<1> HIDE DEF c
<1>5. \A i \in 1 .. m : c[i] = r[i]
  BY <1>2, <1>3, <1>4
<1>6. Len(c) = Len(r) /\ Len(r) = m
  BY <1>2, <1>3
<1> QED
  BY <1>3, <1>5, <1>6, SeqEqual DEF c

Cut(all, s, q, t, m, u, k) ==
  /\ SubSeq(all, 1, q) = s
  /\ SubSeq(all, q + 1, q + m) = t
  /\ SubSeq(all, (q + m) + 1, (q + m) + k) = u

LEMMA Thirds ==
  ASSUME NEW T, NEW s \in Seq(T), NEW t \in Seq(T), NEW u \in Seq(T),
         NEW q \in Nat, NEW m \in Nat, NEW k \in Nat,
         Len(s) = q, Len(t) = m, Len(u) = k
  PROVE  Cut(s \o t \o u, s, q, t, m, u, k)
<1> DEFINE st == s \o t  all == st \o u
<1>1. /\ st \in Seq(T) /\ Len(st) = q + m
      /\ \A i \in 1 .. q : st[i] = s[i]
      /\ \A i \in 1 .. m : st[q + i] = t[i]
  <2>1. Joined(T, st, s, q, t, m)
    BY Halves
  <2> QED
    BY <2>1 DEF Joined
<1> HIDE DEF st
<1>2. q + m \in Nat
  OBVIOUS
<1>3. /\ all \in Seq(T) /\ Len(all) = (q + m) + k
      /\ \A i \in 1 .. q + m : all[i] = st[i]
      /\ \A i \in 1 .. k : all[(q + m) + i] = u[i]
  <2>1. Joined(T, all, st, q + m, u, k)
    <3>1. \A a \in Seq(T), b \in Seq(T), x \in Nat, y \in Nat :
             Len(a) = x /\ Len(b) = y => Joined(T, a \o b, a, x, b, y)
      BY Halves, Zenon
    <3> QED
      BY <1>1, <1>2, <3>1, Zenon
  <2> HIDE DEF all
  <2> QED
    BY <2>1 DEF Joined
<1> HIDE DEF all
<1>4. SubSeq(all, 0 + 1, 0 + q) = s
  <2>1. \A i \in 1 .. q : i \in 1 .. q + m /\ 0 + i = i
    OBVIOUS
  <2>2. \A i \in 1 .. q : all[0 + i] = s[i]
    BY <1>1, <1>3, <2>1
  <2>3. 0 \in Nat /\ 0 + q <= Len(all)
    BY <1>3
  <2> QED
    BY <1>3, <2>2, <2>3, CutOut
<1>5. SubSeq(all, q + 1, q + m) = t
  <2>1. \A i \in 1 .. m : q + i \in 1 .. q + m
    OBVIOUS
  <2>2. \A i \in 1 .. m : all[q + i] = t[i]
    BY <1>1, <1>3, <2>1
  <2>3. q + m <= Len(all)
    BY <1>3
  <2> QED
    BY <1>3, <2>2, <2>3, CutOut
<1>6. SubSeq(all, (q + m) + 1, (q + m) + k) = u
  <2>1. (q + m) + k <= Len(all)
    BY <1>3
  <2> QED
    BY <1>2, <1>3, <2>1, CutOut
<1>7. 0 + 1 = 1 /\ 0 + q = q
  OBVIOUS
<1> QED
  BY <1>4, <1>5, <1>6, <1>7 DEF all, st, Cut

LEMMA ParseIsInverse ==
  ASSUME NEW T, NEW pkt \in [questions : Seq(T), answers : Seq(T), additional : Seq(T)]
  PROVE  Parse(Serialize(pkt)) = pkt
<1>1. /\ pkt.questions \in Seq(T) /\ pkt.answers \in Seq(T) /\ pkt.additional \in Seq(T)
      /\ pkt = [questions |-> pkt.questions, answers |-> pkt.answers,
                additional |-> pkt.additional]
  OBVIOUS
<1> DEFINE w == Serialize(pkt)
<1>2. /\ w.counts[1] = Len(pkt.questions) /\ w.counts[2] = Len(pkt.answers)
      /\ w.counts[3] = Len(pkt.additional)
      /\ w.body = pkt.questions \o pkt.answers \o pkt.additional
  BY DEF Serialize
<1> DEFINE q == Len(pkt.questions)  m == Len(pkt.answers)  k == Len(pkt.additional)
<1>3. q \in Nat /\ m \in Nat /\ k \in Nat
  BY <1>1, LenProperties
<1>4. Parse(w) = [questions |-> SubSeq(w.body, 1, q), answers |-> SubSeq(w.body, q + 1, q + m),
                  additional |-> SubSeq(w.body, (q + m) + 1, (q + m) + k)]
  <2> HIDE DEF w
  <2> QED
    BY <1>2 DEF Parse
<1> HIDE DEF w
<1>5. /\ SubSeq(w.body, 1, q) = pkt.questions /\ SubSeq(w.body, q + 1, q + m) = pkt.answers
      /\ SubSeq(w.body, (q + m) + 1, (q + m) + k) = pkt.additional
  <2>1. \A a, b, c \in Seq(T), x, y, z \in Nat :
           Len(a) = x /\ Len(b) = y /\ Len(c) = z => Cut(a \o b \o c, a, x, b, y, c, z)
    BY Thirds, Zenon
  <2>2. Cut(pkt.questions \o pkt.answers \o pkt.additional, pkt.questions, q, pkt.answers, m,
            pkt.additional, k)
    BY <1>1, <1>3, <2>1, Zenon
  <2>3. Cut(w.body, pkt.questions, q, pkt.answers, m, pkt.additional, k)
    BY <1>2, <2>2, Zenon
  <2> QED
    BY <2>3 DEF Cut
<1> HIDE DEF q, m, k
<1> QED
  BY <1>1, <1>4, <1>5 DEF w

(* What the two arrived tell.                                                *)
LEMMA QueryTells ==
  LET pkt == Parse(Serialize(DiscoveryQuery))
  IN  DataOf(pkt, "TXT") = {} /\ DataOf(pkt, "SRV") = {}
<1> DEFINE q == [name |-> Service, type |-> "PTR"]
<1>1. /\ << q >> \in Seq({q}) /\ << >> \in Seq({q})
      /\ DiscoveryQuery = [questions |-> << q >>, answers |-> << >>, additional |-> << >>]
  BY EmptySeq DEF DiscoveryQuery
<1>2. Parse(Serialize(DiscoveryQuery)) = DiscoveryQuery
  <2>1. DiscoveryQuery \in [questions : Seq({q}), answers : Seq({q}), additional : Seq({q})]
    BY <1>1
  <2> QED
    BY <2>1, ParseIsInverse
<1>3. Records(DiscoveryQuery) = << >>
  BY <1>1 DEF Records
<1> QED
  BY <1>2, <1>3 DEF DataOf

LEMMA AnnouncementTells ==
  ASSUME NEW m
  PROVE  LET pkt == Parse(Serialize(Announcement(m)))
         IN  DataOf(pkt, "TXT") = {m} /\ DataOf(pkt, "SRV") = {SocdPort}
<1> DEFINE a == [type |-> "PTR", name |-> Service, data |-> m]
           s == [type |-> "SRV", name |-> m, data |-> SocdPort]
           x == [type |-> "TXT", name |-> m, data |-> m]
           T == {a, s, x}
<1>1. /\ << a >> \in Seq(T) /\ << s, x >> \in Seq(T) /\ << >> \in Seq(T)
      /\ Announcement(m) = [questions |-> << >>, answers |-> << a >>,
                            additional |-> << s, x >>]
  BY EmptySeq DEF Announcement
<1>2. Parse(Serialize(Announcement(m))) = Announcement(m)
  <2>1. Announcement(m) \in [questions : Seq(T), answers : Seq(T), additional : Seq(T)]
    BY <1>1
  <2> HIDE DEF T
  <2> QED
    BY <2>1, ParseIsInverse
<1> DEFINE R == << a >> \o << s, x >>
<1>3. Records(Announcement(m)) = R
  <2> HIDE DEF a, s, x
  <2> QED
    BY <1>1 DEF Records
<1>4. a.type = "PTR" /\ s.type = "SRV" /\ x.type = "TXT" /\ s.data = SocdPort /\ x.data = m
  OBVIOUS
<1> HIDE DEF a, s, x
<1>5. DOMAIN R = {1, 2, 3} /\ R[1] = a /\ R[2] = s /\ R[3] = x
  <2>1. Len(<< a >>) = 1 /\ Len(<< s, x >>) = 2 /\ << a >>[1] = a
        /\ << s, x >>[1] = s /\ << s, x >>[2] = x
    OBVIOUS
  <2>2. Joined(T, R, << a >>, 1, << s, x >>, 2)
    <3> HIDE DEF T
    <3> QED
      BY <1>1, <2>1, Halves
  <2> HIDE DEF R, T
  <2>3. R[1] = a /\ R[1 + 1] = s /\ R[1 + 2] = x /\ Len(R) = 3 /\ R \in Seq(T)
    BY <2>1, <2>2 DEF Joined
  <2> QED
    BY <2>3, LenProperties
<1> HIDE DEF R
<1>6. {j \in DOMAIN R : R[j].type = "TXT"} = {3} /\ {j \in DOMAIN R : R[j].type = "SRV"} = {2}
  BY <1>4, <1>5
<1>7. {R[i].data : i \in {3}} = {m} /\ {R[i].data : i \in {2}} = {SocdPort}
  BY <1>4, <1>5
<1> QED
  BY <1>2, <1>3, <1>6, <1>7 DEF DataOf

-----------------------------------------------------------------------------
(* The frames in flight: queries, announcements of other nodes, and arrived   *)
(* that some other node has sent.                                            *)
Packet == [dst : Nodes \cup Simulated, payload : Payloads]
PeerTables == UNION {[D -> Peer] : D \in SUBSET (Nodes \cup Simulated)}
Genuine(n, f, log) ==
  \/ f = MdnsFrame(DiscoveryQuery)
  \/ \E m \in Nodes \ {n} : f = MdnsFrame(Announcement(m))
  \/ \E m \in Nodes \ {n} : \E i \in DOMAIN log[m] :
       f = P2pFrame(WirePayload(m, log[m][i].payload))
RealNews(n) == [id : Nodes \ {n}, address : {OwnAddress}, port : {SocdPort}]
Truthful(n, table, arrived, log) ==
  /\ \A id \in DOMAIN table \ Simulated : id \in Nodes \ {n} /\ table[id].port = SocdPort
  /\ \A p \in arrived : /\ p.src \in Nodes \ {n}
                        /\ \E i \in DOMAIN log[p.src] : log[p.src][i].payload = p.payload

PeersInv ==
  /\ peers \in [Nodes -> PeerTables]
  /\ DOMAIN inbox = Nodes /\ DOMAIN received = Nodes
  /\ sent \in [Nodes -> Seq(Packet)]
  /\ transport \in [Nodes -> [sent : Nat, failures : Nat]]
  /\ \A n \in Nodes : Len(sent[n]) = transport[n].sent
  /\ losses \in 0 .. LossBound
  /\ \A n \in Nodes : \A f \in inbox[n] : Genuine(n, f, sent)
  /\ \A n \in Nodes : Truthful(n, peers[n], received[n], sent)

LEMMA GenuinePort ==
  ASSUME NEW n, NEW f, NEW log, Genuine(n, f, log)
  PROVE  f.port \in {"mdns", "p2p"}
BY DEF Genuine, MdnsFrame, P2pFrame

LEMMA NewsIsReal ==
  ASSUME NEW n, NEW f, NEW log, Genuine(n, f, log), f.port = "mdns"
  PROVE  News(n, f) \subseteq RealNews(n)
<1> DEFINE pkt == Parse(f.data)
<1>1. f.from = OwnAddress
  BY DEF Genuine, MdnsFrame, P2pFrame
<1>2. DataOf(pkt, "TXT") \subseteq Nodes /\ DataOf(pkt, "SRV") \subseteq {SocdPort}
  <2>1. CASE f = MdnsFrame(DiscoveryQuery)
    <3>1. f.data = Serialize(DiscoveryQuery)
      BY <2>1 DEF MdnsFrame
    <3>2. DataOf(pkt, "TXT") = {} /\ DataOf(pkt, "SRV") = {}
      BY <3>1, QueryTells
    <3> QED
      BY <3>2
  <2>2. CASE \E m \in Nodes \ {n} : f = MdnsFrame(Announcement(m))
    <3>1. PICK m \in Nodes \ {n} : f = MdnsFrame(Announcement(m))
      BY <2>2
    <3>2. f.data = Serialize(Announcement(m))
      BY <3>1 DEF MdnsFrame
    <3>3. DataOf(pkt, "TXT") = {m} /\ DataOf(pkt, "SRV") = {SocdPort}
      BY <3>2, AnnouncementTells
    <3> QED
      BY <3>3
  <2>3. CASE \E m \in Nodes \ {n} : \E i \in DOMAIN log[m] :
               f = P2pFrame(WirePayload(m, log[m][i].payload))
    BY <2>3 DEF P2pFrame
  <2> QED
    BY <2>1, <2>2, <2>3 DEF Genuine
<1>3. ASSUME NEW x \in News(n, f) PROVE x \in RealNews(n)
  <2>1. PICK id \in DataOf(pkt, "TXT") \ {n}, port \in DataOf(pkt, "SRV") :
          x = [id |-> id, address |-> f.from, port |-> port]
    BY <1>3, SMT DEF News
  <2>2. id \in Nodes \ {n} /\ port \in {SocdPort}
    BY <1>2
  <2> QED
    BY <1>1, <2>1, <2>2 DEF RealNews
<1> QED
  BY <1>3

LEMMA DiscoveredIsTrue ==
  ASSUME NEW n \in Nodes, NEW table \in PeerTables, NEW news, news \subseteq RealNews(n),
         \A id \in DOMAIN table \ Simulated : id \in Nodes \ {n} /\ table[id].port = SocdPort
  PROVE  /\ Discovered(table, news) \in PeerTables
         /\ \A id \in DOMAIN Discovered(table, news) \ Simulated :
              id \in Nodes \ {n} /\ Discovered(table, news)[id].port = SocdPort
<1> DEFINE D == DOMAIN table \cup {x.id : x \in news}
           entry(id) == IF id \notin DOMAIN table THEN NewPeer(CHOOSE x \in news : x.id = id)
                        ELSE IF \E x \in news : x.id = id
                             THEN [table[id] EXCEPT !.state = "discovered"]
                             ELSE table[id]
<1>1. PICK E \in SUBSET (Nodes \cup Simulated) : table \in [E -> Peer]
  BY DEF PeerTables
<1>2. D \subseteq Nodes \cup Simulated
  BY <1>1 DEF RealNews
<1>3. ASSUME NEW id \in D
      PROVE  /\ entry(id) \in Peer
             /\ id \notin Simulated => id \in Nodes \ {n} /\ entry(id).port = SocdPort
  <2>1. CASE id \notin DOMAIN table
    <3> DEFINE x == CHOOSE y \in news : y.id = id
    <3>1. x \in news /\ x.id = id
      <4>1. \E y \in news : y.id = id
        BY <2>1
      <4> QED
        BY <4>1
    <3>2. x.id \in Nodes \ {n} /\ x.address = OwnAddress /\ x.port = SocdPort
      <4> HIDE DEF x
      <4> QED
        BY <3>1 DEF RealNews
    <3>3. NewPeer(x) \in Peer /\ NewPeer(x).port = SocdPort
      <4> HIDE DEF x
      <4> QED
        BY <3>2 DEF NewPeer, Peer
    <3>4. entry(id) = NewPeer(x)
      BY <2>1
    <3> HIDE DEF x, entry
    <3> QED
      BY <3>1, <3>2, <3>3, <3>4
  <2>2. CASE id \in DOMAIN table
    <3>1. table[id] \in Peer
      BY <1>1, <2>2
    <3>2. /\ [table[id] EXCEPT !.state = "discovered"] \in Peer
          /\ [table[id] EXCEPT !.state = "discovered"].port = table[id].port
      BY <3>1 DEF Peer
    <3>3. entry(id) \in {table[id], [table[id] EXCEPT !.state = "discovered"]}
      BY <2>2
    <3> HIDE DEF entry
    <3> QED
      BY <2>2, <3>1, <3>2, <3>3
  <2> QED
    BY <2>1, <2>2
<1>4. Discovered(table, news) = [id \in D |-> entry(id)]
  BY DEF Discovered
<1> HIDE DEF D, entry
<1>5. [id \in D |-> entry(id)] \in [D -> Peer]
  BY <1>3
<1> QED
  BY <1>2, <1>3, <1>4, <1>5 DEF PeerTables

LEMMA ReceivedIsTrue ==
  ASSUME NEW n, NEW f, NEW log, Genuine(n, f, log), f.port = "p2p"
  PROVE  /\ Received(n, f).src \in Nodes \ {n}
         /\ \E i \in DOMAIN log[Received(n, f).src] :
              log[Received(n, f).src][i].payload = Received(n, f).payload
<1>1. f # MdnsFrame(DiscoveryQuery) /\ \A m : f # MdnsFrame(Announcement(m))
  BY DEF MdnsFrame
<1>2. PICK m \in Nodes \ {n} : \E i \in DOMAIN log[m] :
        f = P2pFrame(WirePayload(m, log[m][i].payload))
  BY <1>1 DEF Genuine
<1>3. PICK i \in DOMAIN log[m] : f.data = WirePayload(m, log[m][i].payload)
  BY <1>2 DEF P2pFrame
<1>4. Received(n, f).src = m /\ Received(n, f).payload = log[m][i].payload
  BY <1>3 DEF Received, WirePayload
<1> QED
  BY <1>4

LEMMA PeersInit0 == PeersInit => PeersInv
<1> SUFFICES ASSUME PeersInit PROVE PeersInv
  OBVIOUS
<1> USE DEF PeersInit
<1>1. BootTable \in PeerTables /\ DOMAIN BootTable = Simulated
  <2>1. BootTable \in [Simulated -> Peer]
    BY DEF BootTable, Peer
  <2> QED
    BY <2>1 DEF PeerTables
<1>2. /\ peers \in [Nodes -> PeerTables] /\ DOMAIN inbox = Nodes /\ DOMAIN received = Nodes
  BY <1>1
<1>3. /\ sent \in [Nodes -> Seq(Packet)] /\ transport \in [Nodes -> [sent : Nat, failures : Nat]]
      /\ \A n \in Nodes : Len(sent[n]) = transport[n].sent
  BY EmptySeq
<1>4. losses \in 0 .. LossBound
  BY PeersAssumption
<1>5. /\ \A n \in Nodes : \A f \in inbox[n] : Genuine(n, f, sent)
      /\ \A n \in Nodes : Truthful(n, peers[n], received[n], sent)
  BY <1>1 DEF Truthful
<1> QED
  BY <1>2, <1>3, <1>4, <1>5 DEF PeersInv

\* What another node broadcasts joins what was there.
LEMMA BroadcastKeeps ==
  ASSUME NEW n \in Nodes, NEW boxes, NEW frame, NEW log,
         \A m \in Nodes : \A f \in boxes[m] : Genuine(m, f, log),
         \A m \in Nodes \ {n} : Genuine(m, frame, log)
  PROVE  /\ DOMAIN Broadcast(n, boxes, frame) = Nodes
         /\ \A m \in Nodes : \A f \in Broadcast(n, boxes, frame)[m] : Genuine(m, f, log)
BY DEF Broadcast

LEMMA QueryKeeps ==
  ASSUME PeersInv, NEW n \in Nodes, Query(n)
  PROVE  PeersInv'
<1> DEFINE q == MdnsFrame(DiscoveryQuery)
<1>1. inbox' = Broadcast(n, inbox, q) /\ UNCHANGED << peers, sent, received, transport, losses >>
  BY DEF Query
<1>2. \A m \in Nodes \ {n} : Genuine(m, q, sent)
  BY DEF Genuine
<1> HIDE DEF q
<1>3. /\ DOMAIN Broadcast(n, inbox, q) = Nodes
      /\ \A m \in Nodes : \A f \in Broadcast(n, inbox, q)[m] : Genuine(m, f, sent)
  BY <1>2, BroadcastKeeps DEF PeersInv
<1> QED
  BY <1>1, <1>3 DEF PeersInv

LEMMA LoseKeeps ==
  ASSUME PeersInv, NEW n \in Nodes, NEW frame, Lose(n, frame)
  PROVE  PeersInv'
<1>1. /\ losses < LossBound /\ losses' = losses + 1
      /\ inbox' = [inbox EXCEPT ![n] = @ \ {frame}]
      /\ UNCHANGED << peers, sent, received, transport >>
  BY DEF Lose
<1>2. losses' \in 0 .. LossBound
  BY <1>1, PeersAssumption DEF PeersInv
<1>3. DOMAIN inbox' = Nodes /\ \A m \in Nodes : inbox'[m] \subseteq inbox[m]
  BY <1>1 DEF PeersInv
<1>4. \A m \in Nodes : \A f \in inbox'[m] : Genuine(m, f, sent')
  BY <1>1, <1>3 DEF PeersInv
<1> QED
  BY <1>1, <1>2, <1>3, <1>4 DEF PeersInv

LEMMA PollKeeps ==
  ASSUME PeersInv, NEW n \in Nodes, Poll(n)
  PROVE  PeersInv'
<1> DEFINE news == UNION {News(n, f) : f \in Frames(n, "mdns")}
           arrived == {Received(n, f) : f \in Frames(n, "p2p")}
           emptied == [inbox EXCEPT ![n] = {}]
           answer == MdnsFrame(Announcement(n))
<1>1. /\ peers' = [peers EXCEPT ![n] = Discovered(peers[n], news)]
      /\ received' = [received EXCEPT ![n] = received[n] \cup arrived]
      /\ UNCHANGED << sent, transport, losses >>
      /\ inbox' \in {emptied, Broadcast(n, emptied, answer)}
  BY DEF Poll
<1>2. news \subseteq RealNews(n)
  <2>1. ASSUME NEW f \in Frames(n, "mdns") PROVE News(n, f) \subseteq RealNews(n)
    BY NewsIsReal DEF Frames, PeersInv
  <2> QED
    BY <2>1
<1>3. \A p \in arrived : /\ p.src \in Nodes \ {n}
                         /\ \E i \in DOMAIN sent[p.src] : sent[p.src][i].payload = p.payload
  <2>1. ASSUME NEW f \in Frames(n, "p2p")
        PROVE  /\ Received(n, f).src \in Nodes \ {n}
               /\ \E i \in DOMAIN sent[Received(n, f).src] :
                    sent[Received(n, f).src][i].payload = Received(n, f).payload
    BY ReceivedIsTrue DEF Frames, PeersInv
  <2> QED
    BY <2>1
<1> HIDE DEF news, arrived
<1>4. /\ Discovered(peers[n], news) \in PeerTables
      /\ \A id \in DOMAIN Discovered(peers[n], news) \ Simulated :
           id \in Nodes \ {n} /\ Discovered(peers[n], news)[id].port = SocdPort
  BY <1>2, DiscoveredIsTrue DEF PeersInv, Truthful
<1>5. Truthful(n, Discovered(peers[n], news), received[n] \cup arrived, sent)
  <2>1. \A p \in received[n] : /\ p.src \in Nodes \ {n}
                               /\ \E i \in DOMAIN sent[p.src] : sent[p.src][i].payload = p.payload
    BY DEF PeersInv, Truthful
  <2> QED
    BY <1>3, <1>4, <2>1 DEF Truthful
<1>6. /\ peers' \in [Nodes -> PeerTables] /\ DOMAIN received' = Nodes
      /\ \A m \in Nodes : Truthful(m, peers'[m], received'[m], sent)
  <2>1. peers' \in [Nodes -> PeerTables] /\ DOMAIN received' = Nodes
    BY <1>1, <1>4 DEF PeersInv
  <2>2. ASSUME NEW m \in Nodes PROVE Truthful(m, peers'[m], received'[m], sent)
    <3>1. CASE m = n
      <4>1. peers'[m] = Discovered(peers[n], news) /\ received'[m] = received[n] \cup arrived
        BY <1>1, <3>1 DEF PeersInv
      <4> QED
        BY <1>5, <3>1, <4>1
    <3>2. CASE m # n
      <4>1. peers'[m] = peers[m] /\ received'[m] = received[m]
        BY <1>1, <3>2 DEF PeersInv
      <4> QED
        BY <4>1 DEF PeersInv
    <3> QED
      BY <3>1, <3>2
  <2> QED
    BY <2>1, <2>2
<1>7. DOMAIN inbox' = Nodes /\ \A m \in Nodes : \A f \in inbox'[m] : Genuine(m, f, sent)
  <2>1. DOMAIN emptied = Nodes /\ \A m \in Nodes : \A f \in emptied[m] : Genuine(m, f, sent)
    BY DEF PeersInv
  <2>2. \A m \in Nodes \ {n} : Genuine(m, answer, sent)
    BY DEF Genuine
  <2> HIDE DEF emptied, answer
  <2>3. /\ DOMAIN Broadcast(n, emptied, answer) = Nodes
        /\ \A m \in Nodes : \A f \in Broadcast(n, emptied, answer)[m] : Genuine(m, f, sent)
    BY <2>1, <2>2, BroadcastKeeps
  <2> QED
    BY <1>1, <2>1, <2>3
<1> QED
  BY <1>1, <1>6, <1>7 DEF PeersInv

LEMMA SendKeeps ==
  ASSUME PeersInv, NEW n \in Nodes, NEW dst \in Nodes \cup Simulated, NEW data \in Payloads,
         Send(n, dst, data)
  PROVE  PeersInv'
<1> DEFINE p == [dst |-> dst, payload |-> data]
           frame == P2pFrame(WirePayload(n, data))
           k == Len(sent[n])
<1>1. /\ sent' = [sent EXCEPT ![n] = Append(sent[n], p)]
      /\ UNCHANGED << peers, received, losses >>
      /\ inbox' \in {inbox, Broadcast(n, inbox, frame)}
  BY DEF Send
<1>2. /\ sent[n] \in Seq(Packet) /\ p \in Packet /\ k \in Nat
  BY LenProperties DEF PeersInv, Packet
<1>3. /\ Append(sent[n], p) \in Seq(Packet) /\ Len(Append(sent[n], p)) = k + 1
      /\ DOMAIN sent[n] \subseteq DOMAIN Append(sent[n], p)
      /\ \A i \in DOMAIN sent[n] : Append(sent[n], p)[i] = sent[n][i]
      /\ k + 1 \in DOMAIN Append(sent[n], p) /\ Append(sent[n], p)[k + 1].payload = data
  <2>1. /\ Append(sent[n], p) \in Seq(Packet) /\ Len(Append(sent[n], p)) = k + 1
        /\ \A i \in 1 .. k : Append(sent[n], p)[i] = sent[n][i]
        /\ Append(sent[n], p)[k + 1] = p
    <3> HIDE DEF p
    <3> QED
      BY <1>2, AppendProperties
  <2>2. DOMAIN sent[n] = 1 .. k /\ DOMAIN Append(sent[n], p) = 1 .. k + 1
    <3> HIDE DEF p
    <3> QED
      BY <1>2, <2>1, LenProperties
  <2> QED
    BY <1>2, <2>1, <2>2
<1>4. /\ sent' \in [Nodes -> Seq(Packet)]
      /\ \A m \in Nodes : /\ DOMAIN sent[m] \subseteq DOMAIN sent'[m]
                          /\ \A i \in DOMAIN sent[m] : sent'[m][i] = sent[m][i]
      /\ sent'[n] = Append(sent[n], p)
  <2> HIDE DEF p
  <2> QED
    BY <1>1, <1>3 DEF PeersInv
<1>5. ASSUME NEW m, NEW f, Genuine(m, f, sent) PROVE Genuine(m, f, sent')
  <2>1. CASE \E o \in Nodes \ {m} : \E i \in DOMAIN sent[o] :
               f = P2pFrame(WirePayload(o, sent[o][i].payload))
    <3>0. PICK o \in Nodes \ {m} : \E i \in DOMAIN sent[o] :
            f = P2pFrame(WirePayload(o, sent[o][i].payload))
      BY <2>1
    <3>1. PICK i \in DOMAIN sent[o] : f = P2pFrame(WirePayload(o, sent[o][i].payload))
      BY <3>0
    <3>2. i \in DOMAIN sent'[o] /\ sent'[o][i] = sent[o][i]
      BY <1>4
    <3>3. f = P2pFrame(WirePayload(o, sent'[o][i].payload))
      BY <3>1, <3>2
    <3> QED
      BY <3>2, <3>3, Zenon DEF Genuine
  <2> QED
    BY <1>5, <2>1, Zenon DEF Genuine
<1>6. \A m \in Nodes \ {n} : Genuine(m, frame, sent')
  <2>1. k + 1 \in DOMAIN sent'[n] /\ sent'[n][k + 1].payload = data
    BY <1>3, <1>4
  <2>2. frame = P2pFrame(WirePayload(n, sent'[n][k + 1].payload))
    BY <2>1
  <2> QED
    BY <2>1, <2>2, Zenon DEF Genuine
<1> HIDE DEF frame
<1>7. DOMAIN inbox' = Nodes /\ \A m \in Nodes : \A f \in inbox'[m] : Genuine(m, f, sent')
  <2>1. DOMAIN inbox = Nodes /\ \A m \in Nodes : \A f \in inbox[m] : Genuine(m, f, sent')
    BY <1>5 DEF PeersInv
  <2>2. /\ DOMAIN Broadcast(n, inbox, frame) = Nodes
        /\ \A m \in Nodes : \A f \in Broadcast(n, inbox, frame)[m] : Genuine(m, f, sent')
    BY <1>6, <2>1, BroadcastKeeps
  <2> QED
    BY <1>1, <2>1, <2>2
<1>8. \A m \in Nodes : Truthful(m, peers'[m], received'[m], sent')
  <2> SUFFICES ASSUME NEW m \in Nodes PROVE Truthful(m, peers[m], received[m], sent')
    BY <1>1
  <2>1. Truthful(m, peers[m], received[m], sent)
    BY DEF PeersInv
  <2>2. ASSUME NEW q \in received[m]
        PROVE  /\ q.src \in Nodes \ {m}
               /\ \E i \in DOMAIN sent'[q.src] : sent'[q.src][i].payload = q.payload
    <3>1. q.src \in Nodes \ {m}
      BY <2>1 DEF Truthful
    <3>2. PICK i \in DOMAIN sent[q.src] : sent[q.src][i].payload = q.payload
      BY <2>1 DEF Truthful
    <3>3. i \in DOMAIN sent'[q.src] /\ sent'[q.src][i] = sent[q.src][i]
      BY <1>4, <3>1
    <3> QED
      BY <3>1, <3>2, <3>3
  <2> QED
    BY <2>1, <2>2 DEF Truthful
<1>9. /\ transport' \in [Nodes -> [sent : Nat, failures : Nat]]
      /\ \A m \in Nodes : Len(sent'[m]) = transport'[m].sent
  <2> DEFINE old == transport[n]
             fails == IF dst \in DOMAIN peers[n] THEN old.failures ELSE old.failures + 1
  <2>1. old \in [sent : Nat, failures : Nat] /\ old.sent = k
    BY DEF PeersInv
  <2>2. transport' = [transport EXCEPT ![n] = [sent |-> k + 1, failures |-> fails]]
    BY <2>1 DEF Send
  <2>3. fails \in Nat
    BY <2>1
  <2> HIDE DEF fails
  <2>4. transport' \in [Nodes -> [sent : Nat, failures : Nat]]
    BY <1>2, <2>2, <2>3 DEF PeersInv
  <2>5. ASSUME NEW m \in Nodes PROVE Len(sent'[m]) = transport'[m].sent
    <3>1. CASE m = n
      <4>1. transport'[m].sent = k + 1
        BY <2>2, <3>1 DEF PeersInv
      <4> QED
        BY <1>3, <1>4, <3>1, <4>1
    <3>2. CASE m # n
      <4>1. transport'[m] = transport[m] /\ sent'[m] = sent[m]
        BY <1>1, <2>2, <3>2 DEF PeersInv
      <4> QED
        BY <4>1 DEF PeersInv
    <3> QED
      BY <3>1, <3>2
  <2> QED
    BY <2>4, <2>5
<1> QED
  BY <1>1, <1>4, <1>7, <1>8, <1>9 DEF PeersInv

(* The inductive invariant: types, the counter of what was sent, the frames   *)
(* in flight, and the tables and arrived they have led to.                   *)
THEOREM PeersInvariant == PeersSpec => []PeersInv
<1>1. PeersInit => PeersInv
  BY PeersInit0
<1>2. PeersInv /\ [PeersNext]_peersVars => PeersInv'
  <2> SUFFICES ASSUME PeersInv, [PeersNext]_peersVars PROVE PeersInv'
    OBVIOUS
  <2>1. CASE \E n \in Nodes : Query(n)
    BY <2>1, QueryKeeps
  <2>2. CASE \E n \in Nodes : Poll(n)
    BY <2>2, PollKeeps
  <2>3. CASE \E n \in Nodes, dst \in Nodes \cup Simulated, data \in Payloads :
               dst # n /\ Send(n, dst, data)
    BY <2>3, SendKeeps
  <2>4. CASE \E n \in Nodes : \E f \in inbox[n] : Lose(n, f)
    BY <2>4, LoseKeeps
  <2>5. CASE UNCHANGED peersVars
    BY <2>5 DEF PeersInv, peersVars
  <2> QED
    BY <2>1, <2>2, <2>3, <2>4, <2>5 DEF PeersNext
<1> QED
  BY <1>1, <1>2, PTL DEF PeersSpec

(* A node lists only other nodes of the segment, at the port they listen on,  *)
(* and every packet it hands to its receiver names the node that sent it and  *)
(* carries what that node gave to send, whichever frames were lost, joined or *)
(* overtaken (handle_packet, send_on_wire, poll_and_dispatch).                *)
THEOREM PeersAreReal == PeersSpec => [](PeersTypeOK /\ OnlyRealPeers)
<1>1. PeersInv => PeersTypeOK /\ OnlyRealPeers
  <2> SUFFICES ASSUME PeersInv PROVE PeersTypeOK /\ OnlyRealPeers
    OBVIOUS
  <2>1. OnlyRealPeers
    BY DEF PeersInv, Truthful, OnlyRealPeers
  <2>2. \A n \in Nodes : /\ DOMAIN peers[n] \subseteq Nodes \cup Simulated
                         /\ \A id \in DOMAIN peers[n] : peers[n][id] \in Peer
    <3> SUFFICES ASSUME NEW n \in Nodes
                 PROVE  /\ DOMAIN peers[n] \subseteq Nodes \cup Simulated
                        /\ \A id \in DOMAIN peers[n] : peers[n][id] \in Peer
      OBVIOUS
    <3>1. PICK E \in SUBSET (Nodes \cup Simulated) : peers[n] \in [E -> Peer]
      BY DEF PeersInv, PeerTables
    <3> QED
      BY <3>1
  <2>3. \A n \in Nodes : \A f \in inbox[n] : f.port \in {"mdns", "p2p"}
    BY GenuinePort DEF PeersInv
  <2> QED
    BY <2>1, <2>2, <2>3 DEF PeersInv, PeersTypeOK
<1> QED
  BY <1>1, PeersInvariant, PTL

-----------------------------------------------------------------------------
(***************************************************************************)
(* Gossip.  The cache is the end of what receive let through, all of it    *)
(* until it first overflowed and more than what an overflow leaves from    *)
(* then on.  The routing table has one entry of a destination, an offer    *)
(* that no offer made so far betters.                                      *)
(***************************************************************************)
Remembered(m) == << m.origin, m.version >>
Outgoing == [origin : Origins \cup {"self"}, version : Nat, hops : 0 .. MaxHops]

CacheOK ==
  /\ gossipTick \in Nat
  /\ processed \in Seq(Messages) /\ outbound \in Seq(Outgoing)
  /\ seenMessages \in Seq(Origins \X GossipVersions)
  /\ \E d \in Nat :
       /\ d + Len(seenMessages) = Len(processed)
       /\ d = 0 \/ Len(seenMessages) > SeenLimit - SeenDrained
       /\ \A k \in 1 .. Len(seenMessages) : seenMessages[k] = Remembered(processed[k + d])
  /\ \A j \in 1 .. Len(processed) : \A i \in 1 .. j - 1 :
       processed[i].origin = processed[j].origin /\ processed[j].version <= processed[i].version
         => j - i > SeenLimit - SeenDrained + 1

LEMMA GossipSizes ==
  /\ SeenLimit \in Nat /\ SeenDrained \in Nat /\ SeenDrained <= SeenLimit
  /\ MaxHops \in Nat /\ GossipVersions \subseteq Nat
BY GossipAssumption

LEMMA MessageFields ==
  ASSUME NEW m \in Messages
  PROVE  /\ m.origin \in Origins /\ m.version \in Nat /\ m.version \in GossipVersions
         /\ m.hops \in 0 .. MaxHops
         /\ Remembered(m) \in Origins \X GossipVersions
         /\ Remembered(m)[1] = m.origin /\ Remembered(m)[2] = m.version
BY GossipSizes DEF Messages, Remembered

\* The cache after one more message: what it drops is at its front.
LEMMA KeptSeenFacts ==
  ASSUME NEW T, NEW s \in Seq(T), s # << >>
  PROVE  /\ KeptSeen(s) \in Seq(T)
         /\ \E x \in Nat : /\ x + Len(KeptSeen(s)) = Len(s)
                           /\ x = 0 \/ Len(KeptSeen(s)) > SeenLimit - SeenDrained
                           /\ \A k \in 1 .. Len(KeptSeen(s)) : KeptSeen(s)[k] = s[k + x]
<1>1. Len(s) \in Nat /\ Len(s) >= 1 /\ \A k \in 1 .. Len(s) : s[k] \in T
  BY ElementOfSeq, LenProperties, EmptySeq
<1>2. CASE Len(s) > SeenLimit
  <2> DEFINE a == SubSeq(s, SeenDrained + 1, Len(s))
  <2>1. /\ SeenDrained + 1 \in Nat /\ SeenDrained + 1 >= 1 /\ SeenDrained + 1 <= Len(s)
        /\ \A k \in (SeenDrained + 1) .. Len(s) : s[k] \in T
    BY <1>1, <1>2, GossipSizes
  <2>2. /\ a \in Seq(T) /\ Len(a) = Len(s) - (SeenDrained + 1) + 1
        /\ \A k \in 1 .. Len(s) - (SeenDrained + 1) + 1 : a[k] = s[SeenDrained + 1 + k - 1]
    BY <1>1, <2>1, SubSeqProperties
  <2>3. KeptSeen(s) = a
    BY <1>2 DEF KeptSeen
  <2> HIDE DEF a
  <2>4. SeenDrained + Len(a) = Len(s) /\ Len(a) > SeenLimit - SeenDrained
    BY <1>1, <1>2, <2>2, GossipSizes
  <2>5. \A k \in 1 .. Len(a) : a[k] = s[k + SeenDrained]
    <3>1. \A k \in 1 .. Len(a) : SeenDrained + 1 + k - 1 = k + SeenDrained
                                 /\ k \in 1 .. Len(s) - (SeenDrained + 1) + 1
      BY <1>1, <2>2, GossipSizes
    <3> QED
      BY <2>2, <3>1
  <2> QED
    BY <2>2, <2>3, <2>4, <2>5, GossipSizes
<1>3. CASE ~(Len(s) > SeenLimit)
  <2>1. KeptSeen(s) = s
    BY <1>3 DEF KeptSeen
  <2>2. 0 \in Nat /\ 0 + Len(s) = Len(s) /\ \A k \in 1 .. Len(s) : s[k] = s[k + 0]
    BY <1>1
  <2> QED
    BY <2>1, <2>2
<1> QED
  BY <1>2, <1>3

LEMMA ReceiveKeeps ==
  ASSUME CacheOK, NEW m \in Messages, ReceiveGossip(m)
  PROVE  CacheOK'
<1> DEFINE n == Len(processed)  s == Append(seenMessages, Remembered(m))  kept == KeptSeen(s)
           p == Append(processed, m)  T == Origins \X GossipVersions
<1>1. /\ processed \in Seq(Messages) /\ outbound \in Seq(Outgoing) /\ seenMessages \in Seq(T)
      /\ gossipTick \in Nat /\ n \in Nat /\ Len(seenMessages) \in Nat
  BY LenProperties DEF CacheOK
<1>2. PICK d \in Nat :
       /\ d + Len(seenMessages) = n
       /\ d = 0 \/ Len(seenMessages) > SeenLimit - SeenDrained
       /\ \A k \in 1 .. Len(seenMessages) : seenMessages[k] = Remembered(processed[k + d])
  BY DEF CacheOK
<1>3. /\ s \in Seq(T) /\ Len(s) = Len(seenMessages) + 1
      /\ \A k \in 1 .. Len(seenMessages) : s[k] = seenMessages[k]
      /\ s[Len(seenMessages) + 1] = Remembered(m)
  BY <1>1, MessageFields, AppendProperties
<1>4. /\ p \in Seq(Messages) /\ Len(p) = n + 1
      /\ \A k \in 1 .. n : p[k] = processed[k]
      /\ p[n + 1] = m
  BY <1>1, AppendProperties
<1>5. processed' = p /\ seenMessages' = kept /\ gossipTick' = gossipTick
      /\ outbound' = outbound \o Forwarded(m)
  BY DEF ReceiveGossip, Remembered
<1>6. Forwarded(m) \in Seq(Outgoing)
  <2>1. CASE m.hops < MaxHops
    <3>1. [m EXCEPT !.hops = m.hops + 1] \in Outgoing
      <4>1. m.hops + 1 \in 0 .. MaxHops
        BY <2>1, MessageFields, GossipSizes
      <4> QED
        BY <4>1, GossipSizes DEF Messages, Outgoing
    <3> QED
      BY <2>1, <3>1 DEF Forwarded
  <2>2. CASE ~(m.hops < MaxHops)
    BY <2>2, EmptySeq DEF Forwarded
  <2> QED
    BY <2>1, <2>2
<1>7. outbound \o Forwarded(m) \in Seq(Outgoing)
  BY <1>1, <1>6, ConcatProperties
<1> HIDE DEF s, p, n
<1>8. s # << >>
  BY <1>1, <1>3, EmptySeq
<1>9. kept \in Seq(T) /\ Len(kept) \in Nat
  BY <1>3, <1>8, KeptSeenFacts, LenProperties
<1>10. PICK x \in Nat : /\ x + Len(kept) = Len(s)
                        /\ x = 0 \/ Len(kept) > SeenLimit - SeenDrained
                        /\ \A k \in 1 .. Len(kept) : kept[k] = s[k + x]
  BY <1>3, <1>8, KeptSeenFacts
<1> HIDE DEF kept
<1>11. ASSUME NEW k \in 1 .. Len(s) PROVE s[k] = Remembered(p[k + d])
  <2>1. CASE k = Len(seenMessages) + 1
    <3>1. k + d = n + 1
      BY <1>1, <1>2, <2>1
    <3> QED
      BY <1>3, <1>4, <2>1, <3>1
  <2>2. CASE k # Len(seenMessages) + 1
    <3>1. k \in 1 .. Len(seenMessages) /\ k + d \in 1 .. n
      BY <1>1, <1>2, <1>3, <2>2
    <3>2. s[k] = Remembered(processed[k + d])
      BY <1>2, <1>3, <3>1
    <3>3. p[k + d] = processed[k + d]
      BY <1>4, <3>1
    <3> QED
      BY <3>2, <3>3
  <2> QED
    BY <2>1, <2>2
<1>12. \E e \in Nat :
         /\ e + Len(kept) = Len(p)
         /\ e = 0 \/ Len(kept) > SeenLimit - SeenDrained
         /\ \A k \in 1 .. Len(kept) : kept[k] = Remembered(p[k + e])
  <2> x + d \in Nat
    OBVIOUS
  <2>1. (x + d) + Len(kept) = Len(p)
    <3> DEFINE a == Len(kept)  b == Len(s)  c == Len(seenMessages)
    <3>1. /\ a \in Nat /\ c \in Nat /\ n \in Nat /\ b = c + 1 /\ x + a = b /\ d + c = n
      BY <1>1, <1>2, <1>3, <1>9, <1>10
    <3> HIDE DEF a, b, c
    <3>2. (x + d) + a = n + 1
      BY <3>1
    <3> QED
      BY <1>4, <3>2 DEF a
  <2>2. x + d = 0 \/ Len(kept) > SeenLimit - SeenDrained
    <3>1. CASE x # 0
      BY <1>10, <3>1
    <3>2. CASE x = 0
      BY <1>1, <1>2, <1>3, <1>9, <1>10, <3>2, GossipSizes
    <3> QED
      BY <3>1, <3>2
  <2>3. ASSUME NEW k \in 1 .. Len(kept) PROVE kept[k] = Remembered(p[k + (x + d)])
    <3>1. k + x \in 1 .. Len(s) /\ (k + x) + d = k + (x + d)
      BY <1>1, <1>3, <1>9, <1>10
    <3> QED
      BY <1>10, <1>11, <3>1
  <2> WITNESS x + d \in Nat
  <2> QED
    BY <2>1, <2>2, <2>3
<1>13. ASSUME NEW j \in 1 .. n + 1, NEW i \in 1 .. j - 1,
              p[i].origin = p[j].origin, p[j].version <= p[i].version
       PROVE  j - i > SeenLimit - SeenDrained + 1
  <2>1. i \in 1 .. n /\ p[i] = processed[i] /\ p[i] \in Messages
    BY <1>1, <1>4, ElementOfSeq
  <2>2. CASE j \in 1 .. n
    <3>1. p[j] = processed[j]
      BY <1>4, <2>2
    <3> QED
      BY <1>13, <2>1, <2>2, <3>1 DEF CacheOK, n
  <2>3. CASE j = n + 1
    <3>1. p[j] = m
      BY <1>4, <2>3
    <3>2. ~(i > d)
      <4> SUFFICES ASSUME i > d PROVE FALSE
        OBVIOUS
      <4>1. i - d \in 1 .. Len(seenMessages) /\ (i - d) + d = i
        BY <1>1, <1>2, <2>1
      <4>2. seenMessages[i - d] = Remembered(p[i])
        BY <1>2, <2>1, <4>1
      <4>3. /\ seenMessages[i - d][1] = m.origin
            /\ seenMessages[i - d][2] = p[i].version
        BY <1>13, <2>1, <3>1, <4>2, MessageFields
      <4>4. p[i].version >= m.version
        <5>1. p[i].version \in Nat /\ m.version \in Nat /\ m.version <= p[i].version
          BY <1>13, <2>1, <3>1, MessageFields
        <5> QED
          BY <5>1
      <4>5. i - d \in DOMAIN seenMessages
        BY <1>1, <4>1, LenProperties
      <4>6. AlreadySeen(m)
        BY <4>3, <4>4, <4>5 DEF AlreadySeen
      <4> QED
        BY <4>6 DEF ReceiveGossip
    <3>3. d # 0
      BY <2>1, <3>2
    <3>4. Len(seenMessages) > SeenLimit - SeenDrained
      BY <1>2, <3>3
    <3> QED
      <4>1. d \in Nat /\ i \in Nat /\ i <= d /\ d + Len(seenMessages) = n
        BY <1>1, <1>2, <2>1, <3>2
      <4>2. Len(seenMessages) \in Nat /\ n \in Nat
        BY <1>1, LenProperties
      <4> QED
        BY <2>3, <3>4, <4>1, <4>2, GossipSizes
  <2> QED
    BY <1>1, <2>2, <2>3
<1>14. CacheOK' <=>
       /\ gossipTick' \in Nat
       /\ processed' \in Seq(Messages) /\ outbound' \in Seq(Outgoing)
       /\ seenMessages' \in Seq(T)
       /\ \E e \in Nat :
            /\ e + Len(seenMessages') = Len(processed')
            /\ e = 0 \/ Len(seenMessages') > SeenLimit - SeenDrained
            /\ \A k \in 1 .. Len(seenMessages') : seenMessages'[k] = Remembered(processed'[k + e])
       /\ \A j \in 1 .. Len(processed') : \A i \in 1 .. j - 1 :
            processed'[i].origin = processed'[j].origin
              /\ processed'[j].version <= processed'[i].version
              => j - i > SeenLimit - SeenDrained + 1
  BY DEF CacheOK, Remembered
<1> HIDE DEF T
<1> QED
  BY <1>1, <1>4, <1>5, <1>7, <1>9, <1>12, <1>13, <1>14

LEMMA GossipTickKeeps ==
  ASSUME CacheOK, GossipTick
  PROVE  CacheOK'
<1>1. gossipTick' \in Nat /\ UNCHANGED << seenMessages, processed >>
  BY DEF CacheOK, GossipTick
<1>2. outbound' \in Seq(Outgoing)
  <2>1. CASE outbound' = Append(outbound, Heartbeat)
    <3>1. Heartbeat \in Outgoing
      BY <1>1, GossipSizes DEF Heartbeat, Outgoing
    <3> QED
      BY <2>1, <3>1, AppendProperties DEF CacheOK
  <2>2. CASE outbound' = outbound
    BY <2>2 DEF CacheOK
  <2> QED
    BY <2>1, <2>2 DEF GossipTick
<1> QED
  BY <1>1, <1>2 DEF CacheOK, Remembered

TableOK(table, offers) ==
  /\ table \in Seq(RouteOffers) /\ offers \in Seq(RouteOffers)
  /\ \A k, l \in 1 .. Len(table) : table[k][1] = table[l][1] => k = l
  /\ \A l \in 1 .. Len(table) : \E i \in 1 .. Len(offers) : offers[i] = table[l]
  /\ \A i \in 1 .. Len(offers) : \E l \in 1 .. Len(table) :
       table[l][1] = offers[i][1] /\ ~BetterRoute(offers[i], table[l])
RoutesOK == TableOK(routes, offered)

\* The entry that find of routing.rs comes to is the only one.
EntryOf(d) == SelectInSeq(routes, LAMBDA e : e[1] = d)

LEMMA EntryFacts ==
  ASSUME RoutesOK, NEW d
  PROVE  /\ EntryOf(d) = 0 => \A k \in 1 .. Len(routes) : routes[k][1] # d
         /\ EntryOf(d) # 0 => EntryOf(d) \in 1 .. Len(routes) /\ routes[EntryOf(d)][1] = d
<1> DEFINE I == {k \in 1 .. Len(routes) : routes[k][1] = d}
<1>1. EntryOf(d) = IF I # {} THEN Min(I) ELSE 0
  BY DEF EntryOf, SelectInSeq
<1>2. Len(routes) \in Nat
  BY LenProperties DEF RoutesOK, TableOK
<1>3. CASE I # {}
  <2>1. I \subseteq Nat
    BY <1>2
  <2> HIDE DEF I
  <2>2. Min(I) \in I
    <3>1. \E x \in I : \A y \in I : x <= y
      BY <1>3, <2>1, LeastExists
    <3> QED
      BY <3>1 DEF Min
  <2>3. EntryOf(d) \in I
    BY <1>1, <1>3, <2>2
  <2> QED
    BY <1>2, <2>3 DEF I
<1>4. CASE I = {}
  BY <1>1, <1>4
<1> QED
  BY <1>3, <1>4

LEMMA BetterIsTransitive ==
  ASSUME NEW r \in RouteOffers, NEW s \in RouteOffers, NEW t \in RouteOffers,
         BetterRoute(s, t), ~BetterRoute(r, t)
  PROVE  ~BetterRoute(r, s)
<1> DEFINE r3 == r[3] r4 == r[4] s3 == s[3] s4 == s[4] t3 == t[3] t4 == t[4]
<1>1. /\ r3 \in Nat /\ r4 \in Nat /\ s3 \in Nat /\ s4 \in Nat /\ t3 \in Nat /\ t4 \in Nat
      /\ s3 < t3 \/ (s3 = t3 /\ s4 < t4)
      /\ ~(r3 < t3 \/ (r3 = t3 /\ r4 < t4))
  BY GossipAssumption DEF BetterRoute
<1> HIDE DEF r3, r4, s3, s4, t3, t4
<1>2. ~(r3 < s3 \/ (r3 = s3 /\ r4 < s4))
  BY <1>1
<1> QED
  BY <1>2 DEF BetterRoute, r3, r4, s3, s4

LEMMA BetterIsIrreflexive ==
  ASSUME NEW r \in RouteOffers
  PROVE  ~BetterRoute(r, r)
<1>1. r[3] \in Nat /\ r[4] \in Nat
  BY GossipAssumption
<1> QED
  BY <1>1 DEF BetterRoute

LEMMA UpsertKeeps ==
  ASSUME RoutesOK, NEW r \in RouteOffers, Upsert(r)
  PROVE  RoutesOK'
<1> DEFINE k == EntryOf(r[1])  n == Len(routes)  m == Len(offered)  o == Append(offered, r)
<1>1. routes \in Seq(RouteOffers) /\ offered \in Seq(RouteOffers) /\ n \in Nat /\ m \in Nat
  BY LenProperties DEF RoutesOK, TableOK
<1>2. /\ offered' = o
      /\ routes' = IF k = 0 THEN Append(routes, r)
                   ELSE IF BetterRoute(r, routes[k]) THEN [routes EXCEPT ![k] = r] ELSE routes
  BY DEF Upsert, EntryOf
<1>3. /\ o \in Seq(RouteOffers) /\ Len(o) = m + 1
      /\ \A i \in 1 .. m : o[i] = offered[i]
      /\ o[m + 1] = r
  BY <1>1, AppendProperties
<1>4. /\ k = 0 => \A l \in 1 .. n : routes[l][1] # r[1]
      /\ k # 0 => k \in 1 .. n /\ routes[k][1] = r[1]
  BY EntryFacts
<1>5. \A l \in 1 .. n : routes[l] \in RouteOffers
  BY <1>1, ElementOfSeq
<1>6. \A i \in 1 .. m : offered[i] \in RouteOffers
  BY <1>1, ElementOfSeq
<1> DEFINE ToShow(t) ==
             /\ t \in Seq(RouteOffers)
             /\ \A i, l \in 1 .. Len(t) : t[i][1] = t[l][1] => i = l
             /\ \A l \in 1 .. Len(t) : t[l] = r \/ \E i \in 1 .. n : t[l] = routes[i]
             /\ \A l \in 1 .. n : \E i \in 1 .. Len(t) :
                  t[i][1] = routes[l][1] /\ (t[i] = routes[l] \/ BetterRoute(t[i], routes[l]))
             /\ \E l \in 1 .. Len(t) : t[l][1] = r[1] /\ ~BetterRoute(r, t[l])
<1> HIDE DEF k, n, m, o
<1>7. ToShow(routes')
  <2>1. CASE k = 0
    <3> DEFINE t == Append(routes, r)
    <3>1. /\ t \in Seq(RouteOffers) /\ Len(t) = n + 1
          /\ \A i \in 1 .. n : t[i] = routes[i]
          /\ t[n + 1] = r
      BY <1>1, AppendProperties DEF n
    <3>2. routes' = t
      BY <1>2, <2>1
    <3> HIDE DEF t
    <3>3. \A i \in 1 .. Len(t) : i \in 1 .. n \/ i = n + 1
      BY <1>1, <3>1
    <3>4. n + 1 \in 1 .. Len(t) /\ \A i \in 1 .. n : i \in 1 .. Len(t)
      BY <1>1, <3>1
    <3>5. \A i \in 1 .. Len(t), l \in 1 .. Len(t) : t[i][1] = t[l][1] => i = l
      <4>1. \A i \in 1 .. n, l \in 1 .. n : routes[i][1] = routes[l][1] => i = l
        BY DEF RoutesOK, TableOK, n
      <4>2. \A l \in 1 .. n : t[l][1] = routes[l][1] /\ t[l][1] # r[1]
        BY <1>4, <2>1, <3>1
      <4>3. t[n + 1][1] = r[1]
        BY <3>1
      <4> TAKE i \in 1 .. Len(t), l \in 1 .. Len(t)
      <4>4. (i \in 1 .. n \/ i = n + 1) /\ (l \in 1 .. n \/ l = n + 1)
        BY <3>3
      <4> QED
        BY <4>1, <4>2, <4>3, <4>4
    <3>6. \A l \in 1 .. Len(t) : t[l] = r \/ \E i \in 1 .. n : t[l] = routes[i]
      BY <3>1, <3>3
    <3>7. \A l \in 1 .. n : \E i \in 1 .. Len(t) :
            t[i][1] = routes[l][1] /\ (t[i] = routes[l] \/ BetterRoute(t[i], routes[l]))
      BY <3>1, <3>4
    <3>8. \E l \in 1 .. Len(t) : t[l][1] = r[1] /\ ~BetterRoute(r, t[l])
      BY <3>1, <3>4, BetterIsIrreflexive
    <3> QED
      BY <3>1, <3>2, <3>5, <3>6, <3>7, <3>8
  <2>2. CASE k # 0 /\ BetterRoute(r, routes[k])
    <3> DEFINE t == [routes EXCEPT ![k] = r]
    <3>0. k \in 1 .. n /\ routes[k][1] = r[1]
      BY <1>4, <2>2
    <3>1. /\ t \in Seq(RouteOffers) /\ Len(t) = n
          /\ \A i \in 1 .. n : t[i] = IF i = k THEN r ELSE routes[i]
      BY <1>1, <3>0, ExceptSeq DEF n
    <3>2. routes' = t
      BY <1>2, <2>2
    <3> HIDE DEF t
    <3>4. \A i \in 1 .. n : t[i][1] = routes[i][1]
      BY <3>0, <3>1
    <3>5. \A i \in 1 .. Len(t), l \in 1 .. Len(t) : t[i][1] = t[l][1] => i = l
      BY <3>1, <3>4 DEF RoutesOK, TableOK, n
    <3>6. \A l \in 1 .. Len(t) : t[l] = r \/ \E i \in 1 .. n : t[l] = routes[i]
      BY <3>1
    <3>7. \A l \in 1 .. n : \E i \in 1 .. Len(t) :
            t[i][1] = routes[l][1] /\ (t[i] = routes[l] \/ BetterRoute(t[i], routes[l]))
      BY <2>2, <3>1, <3>4
    <3>8. \E l \in 1 .. Len(t) : t[l][1] = r[1] /\ ~BetterRoute(r, t[l])
      BY <3>0, <3>1, BetterIsIrreflexive
    <3> QED
      BY <3>1, <3>2, <3>5, <3>6, <3>7, <3>8
  <2>3. CASE k # 0 /\ ~BetterRoute(r, routes[k])
    <3>1. routes' = routes /\ k \in 1 .. n /\ routes[k][1] = r[1]
      BY <1>2, <1>4, <2>3
    <3>2. \A i \in 1 .. n, l \in 1 .. n : routes[i][1] = routes[l][1] => i = l
      BY DEF RoutesOK, TableOK, n
    <3> QED
      BY <1>1, <2>3, <3>1, <3>2 DEF n
  <2> QED
    BY <2>1, <2>2, <2>3
<1>8. Len(routes') \in Nat /\ \A l \in 1 .. Len(routes') : routes'[l] \in RouteOffers
  BY <1>7, ElementOfSeq, LenProperties
<1>9. ASSUME NEW l \in 1 .. Len(routes') PROVE \E i \in 1 .. m + 1 : o[i] = routes'[l]
  <2>1. CASE routes'[l] = r
    BY <1>1, <1>3, <2>1
  <2>2. CASE \E i \in 1 .. n : routes'[l] = routes[i]
    <3>1. PICK i \in 1 .. n : routes'[l] = routes[i]
      BY <2>2
    <3>2. PICK j \in 1 .. m : offered[j] = routes[i]
      BY DEF RoutesOK, TableOK, n, m
    <3>3. j \in 1 .. m + 1
      BY <1>1
    <3> QED
      BY <1>3, <3>1, <3>2, <3>3
  <2> QED
    BY <1>7, <2>1, <2>2
<1>10. ASSUME NEW i \in 1 .. m + 1
       PROVE  \E l \in 1 .. Len(routes') : routes'[l][1] = o[i][1] /\ ~BetterRoute(o[i], routes'[l])
  <2>1. CASE i = m + 1
    BY <1>3, <1>7, <2>1
  <2>2. CASE i # m + 1
    <3>1. i \in 1 .. m /\ o[i] = offered[i]
      BY <1>1, <1>3, <2>2
    <3>2. PICK l \in 1 .. n : routes[l][1] = offered[i][1] /\ ~BetterRoute(offered[i], routes[l])
      BY <3>1 DEF RoutesOK, TableOK, n, m
    <3>3. PICK j \in 1 .. Len(routes') : /\ routes'[j][1] = routes[l][1]
                                         /\ routes'[j] = routes[l] \/ BetterRoute(routes'[j], routes[l])
      BY <1>7
    <3>4. ~BetterRoute(offered[i], routes'[j])
      BY <1>5, <1>6, <1>8, <3>1, <3>2, <3>3, BetterIsTransitive
    <3> QED
      BY <3>1, <3>2, <3>3, <3>4
  <2> QED
    BY <2>1, <2>2
<1>11. /\ routes' \in Seq(RouteOffers)
       /\ \A i, l \in 1 .. Len(routes') : routes'[i][1] = routes'[l][1] => i = l
  BY <1>7
<1>12. TableOK(routes', o)
  BY <1>3, <1>9, <1>10, <1>11 DEF TableOK
<1> QED
  BY <1>2, <1>12 DEF RoutesOK

LEMMA GossipInvariant == GossipSpec => [](CacheOK /\ RoutesOK)
<1>1. GossipInit => CacheOK /\ RoutesOK
  <2> SUFFICES ASSUME GossipInit PROVE CacheOK /\ RoutesOK
    OBVIOUS
  <2>1. Len(<< >>) = 0 /\ \A T : << >> \in Seq(T)
    BY EmptySeq
  <2>2. 0 \in Nat /\ 0 + Len(<< >>) = Len(<< >>)
    BY <2>1
  <2>3. CacheOK
    BY <2>1, <2>2 DEF GossipInit, CacheOK
  <2>4. RoutesOK
    BY <2>1 DEF GossipInit, RoutesOK, TableOK
  <2> QED
    BY <2>3, <2>4
<1>2. CacheOK /\ RoutesOK /\ [GossipNext]_gossipVars => (CacheOK /\ RoutesOK)'
  <2> SUFFICES ASSUME CacheOK, RoutesOK, [GossipNext]_gossipVars
               PROVE  CacheOK' /\ RoutesOK'
    OBVIOUS
  <2>1. UNCHANGED << routes, offered >> => RoutesOK'
    BY DEF RoutesOK
  <2>2. CASE GossipTick
    BY <2>1, <2>2, GossipTickKeeps DEF GossipTick
  <2>3. ASSUME NEW m \in Messages, ReceiveGossip(m) PROVE CacheOK' /\ RoutesOK'
    BY <2>1, <2>3, ReceiveKeeps DEF ReceiveGossip
  <2>4. UNCHANGED << seenMessages, outbound, processed, gossipTick, lastHeartbeat >> => CacheOK'
    BY DEF CacheOK, Remembered
  <2>5. ASSUME NEW r \in RouteOffers, Upsert(r) PROVE CacheOK' /\ RoutesOK'
    BY <2>4, <2>5, UpsertKeeps DEF Upsert
  <2>6. CASE UNCHANGED gossipVars
    BY <2>1, <2>4, <2>6 DEF gossipVars
  <2> QED
    BY <2>2, <2>3, <2>5, <2>6 DEF GossipNext
<1> QED
  BY <1>1, <1>2, PTL DEF GossipSpec

\* Floods end, for any messages in any order and any cache: a message as old as
\* one already passed on is passed on again only after more others than an
\* overflow of seen_messages in gossip.rs leaves, and none makes more hops than
\* MAX_HOPS.
THEOREM FloodsEnd == GossipSpec => []FloodEnds
<1>1. CacheOK => FloodEnds
  <2> SUFFICES ASSUME CacheOK PROVE FloodEnds
    OBVIOUS
  <2>1. DOMAIN processed = 1 .. Len(processed) /\ Len(processed) \in Nat
    BY LenProperties DEF CacheOK
  <2>2. ASSUME NEW i \in DOMAIN processed, NEW j \in DOMAIN processed, i < j,
               processed[i].origin = processed[j].origin,
               processed[j].version <= processed[i].version
        PROVE  j - i > SeenLimit - SeenDrained + 1
    <3>1. j \in 1 .. Len(processed) /\ i \in 1 .. j - 1
      BY <2>1, <2>2
    <3> QED
      BY <2>2, <3>1 DEF CacheOK
  <2>3. ASSUME NEW k \in DOMAIN outbound PROVE outbound[k].hops <= MaxHops
    <3>1. outbound[k] \in Outgoing
      BY ElementOfSeq, LenProperties DEF CacheOK
    <3> QED
      BY <3>1, GossipSizes DEF Outgoing
  <2> QED
    BY <2>2, <2>3 DEF FloodEnds
<1> QED
  BY <1>1, GossipInvariant, PTL

\* The next hop is always that of the best offer, for any offers in any order:
\* upsert of routing.rs keeps one entry of a destination and never a worse one.
THEOREM RoutesAreBest == GossipSpec => []RoutesBest
<1>1. RoutesOK => RoutesBest
  <2> SUFFICES ASSUME RoutesOK, NEW k \in DOMAIN offered
               PROVE  LET d == offered[k][1]
                          same == {i \in DOMAIN offered : offered[i][1] = d}
                      IN \E i \in same : /\ NextHop(d) = {offered[i][2]}
                                         /\ \A j \in same : ~BetterRoute(offered[j], offered[i])
    BY DEF RoutesBest
  <2> DEFINE d == offered[k][1]
             same == {i \in DOMAIN offered : offered[i][1] = d}
  <2>1. DOMAIN offered = 1 .. Len(offered)
    BY LenProperties DEF RoutesOK, TableOK
  <2>2. PICK l \in 1 .. Len(routes) : routes[l][1] = d
    BY <2>1 DEF RoutesOK, TableOK
  <2>3. EntryOf(d) = l
    <3>1. EntryOf(d) # 0
      BY <2>2, EntryFacts
    <3>2. EntryOf(d) \in 1 .. Len(routes) /\ routes[EntryOf(d)][1] = d
      BY <3>1, EntryFacts
    <3> DEFINE e == EntryOf(d)
    <3> HIDE DEF d, e
    <3>3. \A i, h \in 1 .. Len(routes) : routes[i][1] = routes[h][1] => i = h
      BY DEF RoutesOK, TableOK
    <3>4. e \in 1 .. Len(routes) /\ routes[e][1] = routes[l][1]
      BY <2>2, <3>2 DEF e
    <3>5. e = l
      BY <3>3, <3>4
    <3> QED
      BY <3>5 DEF e
  <2>4. l # 0
    BY <2>2
  <2>5. NextHop(d) = {routes[l][2]}
    BY <2>3, <2>4 DEF NextHop, EntryOf
  <2>6. PICK i \in 1 .. Len(offered) : offered[i] = routes[l]
    BY <2>2 DEF RoutesOK, TableOK
  <2> HIDE DEF d
  <2>7. i \in same /\ NextHop(d) = {offered[i][2]}
    BY <2>1, <2>2, <2>5, <2>6
  <2>8. ASSUME NEW j \in same PROVE ~BetterRoute(offered[j], offered[i])
    <3>1. j \in 1 .. Len(offered) /\ offered[j][1] = d
      BY <2>1
    <3>2. PICK h \in 1 .. Len(routes) : routes[h][1] = d /\ ~BetterRoute(offered[j], routes[h])
      BY <3>1 DEF RoutesOK, TableOK
    <3>3. h = l
      BY <2>2, <3>2 DEF RoutesOK, TableOK
    <3> QED
      BY <2>6, <3>2, <3>3
  <2> QED
    BY <2>7, <2>8 DEF d
<1> QED
  BY <1>1, GossipInvariant, PTL

-----------------------------------------------------------------------------
(* Gossip, routes and sessions side by side, whatever arrives and in whatever *)
(* order.                                                                     *)
THEOREM CloudStaysTrue == CloudSpec => []CloudTrue
BY FloodsEnd, RoutesAreBest, NoncesStayFresh, PTL DEF CloudSpec, CloudTrue
=============================================================================
