---------------------------- MODULE SchedulerProofs ----------------------------
(***************************************************************************)
(* Proofs about Scheduler, for any number of processes, any quanta and any *)
(* tasks: type correctness, that no ready task is lost, that bookkeeping   *)
(* and machine agree, that no live task's context is lost, and that those  *)
(* who wait are served in turn.                                            *)
(***************************************************************************)
EXTENDS Scheduler, TLAPS, FiniteSetTheorems, SequenceTheorems

-----------------------------------------------------------------------------
(***************************************************************************)
(* Sequences as queues.                                                    *)
(***************************************************************************)
NoRepeat(s) == \A i, j \in 1 .. Len(s) : s[i] = s[j] => i = j

\* Appending to a queue adds that entry and no other.
LEMMA HoldsAppend ==
  ASSUME NEW s \in Seq(Pid), NEW e \in Pid
  PROVE  /\ Append(s, e) \in Seq(Pid)
         /\ \A p \in Pid : Holds(Append(s, e), p) <=> Holds(s, p) \/ p = e
         /\ NoRepeat(s) /\ ~ Holds(s, e) => NoRepeat(Append(s, e))
<1> DEFINE a == Append(s, e)
<1>1. /\ a \in Seq(Pid) /\ Len(a) = Len(s) + 1 /\ Len(s) \in Nat
      /\ \A i \in 1 .. Len(s) : a[i] = s[i]
      /\ a[Len(s) + 1] = e
  BY AppendProperties, LenProperties
<1> HIDE DEF a
<1>2. 1 .. Len(a) = (1 .. Len(s)) \cup {Len(s) + 1}
  BY <1>1
<1>3. \A p \in Pid : Holds(a, p) <=> Holds(s, p) \/ p = e
  BY <1>1, <1>2 DEF Holds
<1>4. NoRepeat(s) /\ ~ Holds(s, e) => NoRepeat(a)
  BY <1>1, <1>2 DEF Holds, NoRepeat
<1> QED
  BY <1>1, <1>3, <1>4 DEF a

\* Concatenating two queues with no entry in common.
LEMMA HoldsConcat ==
  ASSUME NEW s \in Seq(Pid), NEW t \in Seq(Pid)
  PROVE  /\ s \o t \in Seq(Pid)
         /\ \A p \in Pid : Holds(s \o t, p) <=> Holds(s, p) \/ Holds(t, p)
         /\ (NoRepeat(s) /\ NoRepeat(t) /\ \A p \in Pid : ~ (Holds(s, p) /\ Holds(t, p)))
            => NoRepeat(s \o t)
<1> DEFINE a == s \o t
<1>1. /\ a \in Seq(Pid) /\ Len(a) = Len(s) + Len(t)
      /\ Len(s) \in Nat /\ Len(t) \in Nat
      /\ \A i \in 1 .. Len(s) + Len(t) :
           a[i] = IF i <= Len(s) THEN s[i] ELSE t[i - Len(s)]
  BY ConcatProperties, LenProperties
<1>2. /\ \A i \in 1 .. Len(s) : s[i] \in Pid
      /\ \A i \in 1 .. Len(t) : t[i] \in Pid
  BY ElementOfSeq
<1> HIDE DEF a
<1>3. /\ \A i \in 1 .. Len(s) : i \in 1 .. Len(a) /\ a[i] = s[i]
      /\ \A i \in 1 .. Len(t) : i + Len(s) \in 1 .. Len(a) /\ a[i + Len(s)] = t[i]
  <2>1. ASSUME NEW i \in 1 .. Len(s)
        PROVE  i \in 1 .. Len(a) /\ a[i] = s[i]
    BY <1>1
  <2>2. ASSUME NEW i \in 1 .. Len(t)
        PROVE  i + Len(s) \in 1 .. Len(a) /\ a[i + Len(s)] = t[i]
    <3>1. i + Len(s) \in 1 .. Len(s) + Len(t) /\ ~ (i + Len(s) <= Len(s))
          /\ (i + Len(s)) - Len(s) = i
      BY <1>1
    <3> QED
      BY <1>1, <3>1
  <2> QED
    BY <2>1, <2>2
<1>4. ASSUME NEW i \in 1 .. Len(a)
      PROVE  IF i \in 1 .. Len(s)
             THEN a[i] = s[i]
             ELSE i - Len(s) \in 1 .. Len(t) /\ a[i] = t[i - Len(s)]
  BY <1>1
<1>5. \A p \in Pid : Holds(a, p) <=> Holds(s, p) \/ Holds(t, p)
  BY <1>3, <1>4 DEF Holds
<1>6. ASSUME NoRepeat(s), NoRepeat(t), \A p \in Pid : ~ (Holds(s, p) /\ Holds(t, p))
      PROVE  NoRepeat(a)
  <2> SUFFICES ASSUME NEW i \in 1 .. Len(a), NEW j \in 1 .. Len(a), a[i] = a[j]
               PROVE  i = j
    BY DEF NoRepeat
  <2>1. CASE i \in 1 .. Len(s) /\ j \in 1 .. Len(s)
    BY <1>3, <1>6, <2>1 DEF NoRepeat
  <2>2. CASE i \notin 1 .. Len(s) /\ j \notin 1 .. Len(s)
    <3>1. i - Len(s) \in 1 .. Len(t) /\ j - Len(s) \in 1 .. Len(t)
          /\ t[i - Len(s)] = t[j - Len(s)]
      BY <1>4, <2>2
    <3>2. i - Len(s) = j - Len(s)
      BY <1>6, <3>1 DEF NoRepeat
    <3> QED
      BY <1>1, <3>2
  <2>3. CASE i \in 1 .. Len(s) /\ j \notin 1 .. Len(s)
    BY <1>2, <1>4, <1>6, <2>3 DEF Holds
  <2>4. CASE i \notin 1 .. Len(s) /\ j \in 1 .. Len(s)
    BY <1>2, <1>4, <1>6, <2>4 DEF Holds
  <2> QED
    BY <2>1, <2>2, <2>3, <2>4
<1> QED
  BY <1>1, <1>5, <1>6 DEF a

\* Taking the head of a queue removes that entry and no other.
LEMMA HoldsTail ==
  ASSUME NEW s \in Seq(Pid), s # << >>
  PROVE  /\ Head(s) \in Pid
         /\ Holds(s, Head(s))
         /\ Tail(s) \in Seq(Pid)
         /\ \A p \in Pid : Holds(s, p) => p = Head(s) \/ Holds(Tail(s), p)
         /\ \A p \in Pid : Holds(Tail(s), p) => Holds(s, p)
         /\ NoRepeat(s) => NoRepeat(Tail(s))
<1> DEFINE t == Tail(s)
<1>1. /\ Head(s) \in Pid /\ Head(s) = s[1]
      /\ t \in Seq(Pid) /\ Len(t) = Len(s) - 1 /\ Len(s) \in Nat \ {0}
      /\ \A i \in 1 .. Len(t) : t[i] = s[i + 1]
  BY HeadTailProperties, EmptySeq, LenProperties
<1> HIDE DEF t
<1>2. \A i \in 1 .. Len(s) : i = 1 \/ (i - 1 \in 1 .. Len(t) /\ s[i] = t[i - 1])
  BY <1>1
<1>3. \A i \in 1 .. Len(t) : i + 1 \in 1 .. Len(s) /\ t[i] = s[i + 1]
  BY <1>1
<1>4. 1 \in 1 .. Len(s)
  BY <1>1
<1>5. Holds(s, Head(s))
  BY <1>1, <1>4 DEF Holds
<1>6. /\ \A p \in Pid : Holds(s, p) => p = Head(s) \/ Holds(t, p)
      /\ \A p \in Pid : Holds(t, p) => Holds(s, p)
  BY <1>1, <1>2, <1>3 DEF Holds
<1>7. NoRepeat(s) => NoRepeat(t)
  <2> SUFFICES ASSUME NoRepeat(s), NEW i \in 1 .. Len(t), NEW j \in 1 .. Len(t), t[i] = t[j]
               PROVE  i = j
    BY DEF NoRepeat
  <2>1. i + 1 = j + 1
    BY <1>3 DEF NoRepeat
  <2> QED
    BY <1>1, <2>1
<1> QED
  BY <1>1, <1>5, <1>6, <1>7 DEF t

\* InPidOrder enumerates the set it is given: the rank of a member is its
\* position.
LEMMA InPidOrderEnumerates ==
  ASSUME NEW S \in SUBSET Pid
  PROVE  /\ InPidOrder(S) \in Seq(Pid)
         /\ \A p \in Pid : Holds(InPidOrder(S), p) <=> p \in S
         /\ NoRepeat(InPidOrder(S))
<1> USE SchedulerAssumption
<1> DEFINE N == Cardinality(S)
           Upto(p) == {r \in S : r <= p}
           rank == [p \in S |-> Cardinality(Upto(p))]
           o == InPidOrder(S)
<1>1. IsFiniteSet(S) /\ N \in Nat
  <2>1. 1 \in Int /\ MaxPid \in Int
    OBVIOUS
  <2>2. IsFiniteSet(1 .. MaxPid)
    BY <2>1, FS_Interval
  <2>3. IsFiniteSet(S)
    BY <2>2, FS_Subset DEF Pid
  <2> QED
    BY <2>3, FS_CardinalityType
<1>2. \A p \in S : IsFiniteSet(Upto(p)) /\ Cardinality(Upto(p)) \in 1 .. N
  <2> SUFFICES ASSUME NEW p \in S
               PROVE  IsFiniteSet(Upto(p)) /\ Cardinality(Upto(p)) \in 1 .. N
    OBVIOUS
  <2>1. Upto(p) \in SUBSET S /\ p \in Upto(p)
    BY DEF Pid
  <2>2. IsFiniteSet(Upto(p)) /\ Cardinality(Upto(p)) <= N
    BY <1>1, <2>1, FS_Subset
  <2>3. Cardinality(Upto(p)) # 0 /\ Cardinality(Upto(p)) \in Nat
    BY <2>1, <2>2, FS_EmptySet, FS_CardinalityType
  <2> QED
    BY <1>1, <2>2, <2>3
<1>3. \A p, r \in S : rank[p] = rank[r] => p = r
  <2>1. ASSUME NEW p \in S, NEW r \in S, p < r
        PROVE  rank[p] # rank[r]
    <3>1. Upto(p) \in SUBSET Upto(r) /\ r \in Upto(r) /\ r \notin Upto(p)
      <4>1. \A x \in S : x \in Nat
        BY DEF Pid
      <4>2. \A x \in S : x <= p => x <= r
        BY <2>1, <4>1
      <4>3. r <= r /\ ~ (r <= p)
        BY <2>1, <4>1
      <4> QED
        BY <4>2, <4>3
    <3> HIDE DEF Upto
    <3>2. Cardinality(Upto(r)) # Cardinality(Upto(p))
      BY <1>2, <3>1, FS_Subset
    <3> QED
      BY <3>2
  <2> SUFFICES ASSUME NEW p \in S, NEW r \in S, p # r
               PROVE  rank[p] # rank[r]
    OBVIOUS
  <2>2. p < r \/ r < p
    BY DEF Pid
  <2> QED
    BY <2>1, <2>2
<1>4. rank \in [S -> 1 .. N]
  <2> HIDE DEF Upto
  <2> QED
    BY <1>2
<1>5. rank \in Surjection(S, 1 .. N)
  <2>1. rank \in Injection(S, 1 .. N)
    BY <1>3, <1>4 DEF Injection, IsInjective
  <2>2. IsFiniteSet(1 .. N) /\ Cardinality(1 .. N) = N
    BY <1>1, FS_Interval
  <2> QED
    BY <2>1, <2>2, FS_Injection
<1>6. \A i \in 1 .. N : \E p \in S : rank[p] = i
  BY <1>5 DEF Surjection
<1>7. o = [i \in 1 .. N |-> CHOOSE p \in S : rank[p] = i]
  BY DEF InPidOrder
<1> HIDE DEF rank, o
<1>8. \A i \in 1 .. N : o[i] \in S /\ rank[o[i]] = i
  BY <1>6, <1>7
<1>9. o \in Seq(Pid) /\ Len(o) = N
  <2>1. o \in [1 .. N -> Pid]
    BY <1>7, <1>8
  <2> QED
    BY <1>1, <2>1
<1>10. \A p \in S : rank[p] \in 1 .. N /\ o[rank[p]] = p
  BY <1>3, <1>4, <1>8
<1>11. \A p \in Pid : Holds(o, p) <=> p \in S
  BY <1>8, <1>9, <1>10 DEF Holds
<1>12. NoRepeat(o)
  BY <1>8, <1>9 DEF NoRepeat
<1> QED
  BY <1>9, <1>11, <1>12 DEF o

-----------------------------------------------------------------------------
(***************************************************************************)
(* The inductive invariant.                                                *)
(***************************************************************************)
\* ReadyIsQueued and QueuesSound, as a property of any states st, priorities pr
\* and queues q: the intermediate ones of a step are covered too.
QueueOK(st, pr, q) ==
  /\ q \in [Priority -> Seq(Pid)]
  /\ \A c \in Priority : NoRepeat(q[c])
  /\ \A c \in Priority : \A p \in Pid :
       Holds(q[c], p) => pr[p] = c /\ st[p] # "None"
  /\ \A p \in Pid : st[p] = "Ready" => Holds(q[pr[p]], p)

\* How far the boot is, which processes exist, and that a current process does.
BootStages ==
  /\ boot = "early" => lastPid = 0
  /\ boot = "idle_only" => lastPid = IdlePid
  /\ boot = "up" => lastPid >= MainPid /\ cpu <= lastPid
  /\ boot # "up" => cpu \in {IdlePid, MainPid}
  /\ \A p \in Pid : state[p] = "None" <=> p > lastPid
  /\ current # NoPid => state[current] # "None"

IInv ==
  /\ TypeOK
  /\ QueueOK(state, prio, queue)
  /\ CpuOwner
  /\ LiveContextSaved
  /\ BootStages

\* The invariant contains the two queue properties the runs check.
LEMMA QueueOKImplies ==
  ASSUME TypeOK, QueueOK(state, prio, queue)
  PROVE  ReadyIsQueued /\ QueuesSound
<1>1. ReadyIsQueued
  BY DEF QueueOK, ReadyIsQueued, Queued
<1>2. ASSUME NEW c \in Priority, NEW i \in 1 .. Len(queue[c]), NEW j \in 1 .. Len(queue[c])
      PROVE  /\ state[queue[c][i]] # "None"
             /\ prio[queue[c][i]] = c
             /\ queue[c][i] = queue[c][j] => i = j
  <2>1. queue[c] \in Seq(Pid) /\ queue[c][i] \in Pid
    BY ElementOfSeq DEF QueueOK
  <2>2. Holds(queue[c], queue[c][i])
    BY DEF Holds
  <2> QED
    BY <2>1, <2>2 DEF QueueOK, NoRepeat
<1> QED
  BY <1>1, <1>2 DEF QueuesSound

\* The initial state satisfies the invariant.
LEMMA InitIInv == Init => IInv
<1> USE SchedulerAssumption
<1> SUFFICES ASSUME Init PROVE IInv
  OBVIOUS
<1>1. MainPid \in Pid /\ IdlePid \in Pid
  BY DEF MainPid, IdlePid, Pid
<1>2. queue \in [Priority -> Seq(Pid)] /\ \A c \in Priority : queue[c] = << >>
  BY EmptySeq DEF Init
<1>3. \A c \in Priority : Len(queue[c]) = 0
  BY <1>2
<1>4. QueueOK(state, prio, queue)
  BY <1>2, <1>3 DEF Init, QueueOK, NoRepeat, Holds
<1>5. TypeOK
  BY <1>1, <1>2 DEF Init, TypeOK, States, Priority, IdlePriority
<1>6. CpuOwner /\ LiveContextSaved
  BY <1>1 DEF Init, CpuOwner, LiveContextSaved, NoPid
<1>7. BootStages
  BY <1>1 DEF Init, BootStages, NoPid, Pid, MainPid
<1> QED
  BY <1>4, <1>5, <1>6, <1>7 DEF IInv

\* enqueue keeps the queues sound and queues the process it is given.
LEMMA EnqueueOK ==
  ASSUME NEW st, NEW pr \in [Pid -> Priority], NEW q, QueueOK(st, pr, q),
         NEW p \in Pid, NEW c \in Priority, pr[p] = c, st[p] # "None"
  PROVE  /\ QueueOK(st, pr, Enqueue(q, p, c))
         /\ Holds(Enqueue(q, p, c)[c], p)
<1>1. CASE Holds(q[c], p)
  BY <1>1 DEF Enqueue
<1>2. CASE ~ Holds(q[c], p)
  <2> DEFINE e == Enqueue(q, p, c)
  <2>1. /\ e = [q EXCEPT ![c] = Append(@, p)]
        /\ q \in [Priority -> Seq(Pid)] /\ q[c] \in Seq(Pid)
    BY <1>2 DEF Enqueue, QueueOK
  <2>2. /\ Append(q[c], p) \in Seq(Pid)
        /\ \A r \in Pid : Holds(Append(q[c], p), r) <=> Holds(q[c], r) \/ r = p
        /\ NoRepeat(Append(q[c], p))
    BY <1>2, <2>1, HoldsAppend DEF QueueOK
  <2>3. /\ e \in [Priority -> Seq(Pid)]
        /\ e[c] = Append(q[c], p)
        /\ \A d \in Priority \ {c} : e[d] = q[d]
    BY <2>1, <2>2
  <2> HIDE DEF e
  <2>4. /\ \A d \in Priority : NoRepeat(e[d])
        /\ \A d \in Priority : \A r \in Pid :
             Holds(e[d], r) <=> Holds(q[d], r) \/ (d = c /\ r = p)
    <3>1. ASSUME NEW d \in Priority, d # c
          PROVE  NoRepeat(e[d]) /\ \A r \in Pid : Holds(e[d], r) <=> Holds(q[d], r)
      BY <2>3, <3>1 DEF QueueOK
    <3>2. NoRepeat(e[c]) /\ \A r \in Pid : Holds(e[c], r) <=> Holds(q[c], r) \/ r = p
      BY <2>2, <2>3
    <3> QED
      BY <3>1, <3>2
  <2>5. \A r \in Pid : st[r] = "Ready" => Holds(e[pr[r]], r)
    <3> SUFFICES ASSUME NEW r \in Pid, st[r] = "Ready"
                 PROVE  Holds(e[pr[r]], r)
      OBVIOUS
    <3>1. pr[r] \in Priority /\ Holds(q[pr[r]], r)
      BY DEF QueueOK
    <3> QED
      BY <2>4, <3>1
  <2>6. \A d \in Priority : \A r \in Pid :
          Holds(e[d], r) => pr[r] = d /\ st[r] # "None"
    BY <2>4 DEF QueueOK
  <2>7. QueueOK(st, pr, e) /\ Holds(e[c], p)
    BY <2>3, <2>4, <2>5, <2>6 DEF QueueOK
  <2> QED
    BY <2>7 DEF e
<1> QED
  BY <1>1, <1>2

\* After the wake-up pass of a tick every Ready process is queued.
LEMMA RequeueOK ==
  ASSUME NEW st, NEW q \in [Priority -> Seq(Pid)],
         prio \in [Pid -> Priority],
         \A c \in Priority : NoRepeat(q[c]),
         \A c \in Priority : \A p \in Pid :
           Holds(q[c], p) => prio[p] = c /\ st[p] # "None"
  PROVE  QueueOK(st, prio, Requeue(st, q))
<1> DEFINE Late(c) == {p \in Pid : st[p] = "Ready" /\ prio[p] = c /\ ~ Holds(q[c], p)}
           r == Requeue(st, q)
<1>1. \A c \in Priority :
        /\ InPidOrder(Late(c)) \in Seq(Pid)
        /\ \A p \in Pid : Holds(InPidOrder(Late(c)), p) <=> p \in Late(c)
        /\ NoRepeat(InPidOrder(Late(c)))
  <2>1. \A c \in Priority : Late(c) \in SUBSET Pid
    OBVIOUS
  <2> HIDE DEF Late
  <2> QED
    BY <2>1, InPidOrderEnumerates
<1>2. \A c \in Priority : r[c] = q[c] \o InPidOrder(Late(c))
  BY DEF Requeue
<1>3. r = [c \in Priority |-> r[c]]
  BY DEF Requeue
<1> HIDE DEF r
<1>4. ASSUME NEW c \in Priority
      PROVE  /\ r[c] \in Seq(Pid)
             /\ \A p \in Pid : Holds(r[c], p) <=> Holds(q[c], p) \/ p \in Late(c)
             /\ NoRepeat(r[c])
  <2> DEFINE s == q[c]
             t == InPidOrder(Late(c))
  <2>1. \A p \in Pid : ~ (Holds(s, p) /\ Holds(t, p))
    BY <1>1
  <2>2. s \in Seq(Pid) /\ NoRepeat(s)
    OBVIOUS
  <2>3. t \in Seq(Pid) /\ NoRepeat(t) /\ \A p \in Pid : Holds(t, p) <=> p \in Late(c)
    BY <1>1
  <2>4. r[c] = s \o t
    BY <1>2
  <2> HIDE DEF s, t, Late
  <2>5. /\ s \o t \in Seq(Pid)
        /\ \A p \in Pid : Holds(s \o t, p) <=> Holds(s, p) \/ Holds(t, p)
        /\ NoRepeat(s \o t)
    BY <2>1, <2>2, <2>3, HoldsConcat
  <2>6. /\ r[c] \in Seq(Pid)
        /\ \A p \in Pid : Holds(r[c], p) <=> Holds(s, p) \/ p \in Late(c)
        /\ NoRepeat(r[c])
    BY <2>3, <2>4, <2>5
  <2> QED
    BY <2>6 DEF s
<1>5. r \in [Priority -> Seq(Pid)]
  BY <1>3, <1>4
<1>6. \A c \in Priority : \A p \in Pid : Holds(r[c], p) => prio[p] = c /\ st[p] # "None"
  BY <1>4
<1>7. \A p \in Pid : st[p] = "Ready" => Holds(r[prio[p]], p)
  BY <1>4
<1>8. QueueOK(st, prio, r)
  BY <1>4, <1>5, <1>6, <1>7 DEF QueueOK
<1> QED
  BY <1>8 DEF r

\* dequeue takes the first entry of the most urgent queue that has one.
LEMMA TopIsFirst ==
  ASSUME NEW q, ~ Empty(q)
  PROVE  /\ Top(q) \in Priority
         /\ q[Top(q)] # << >>
         /\ \A d \in Priority : d < Top(q) => q[d] = << >>
<1>1. \E c \in Priority : q[c] # << >> /\ \A d \in Priority : d < c => q[d] = << >>
  <2> DEFINE First(c) == q[c] # << >> /\ \A d \in Priority : d < c => q[d] = << >>
  <2>1. Priority = {0, 1, 2, 3, 4}
    BY DEF Priority
  <2>2. CASE q[0] # << >>
    BY <2>1, <2>2
  <2>3. CASE q[0] = << >> /\ q[1] # << >>
    BY <2>1, <2>3
  <2>4. CASE q[0] = << >> /\ q[1] = << >> /\ q[2] # << >>
    BY <2>1, <2>4
  <2>5. CASE q[0] = << >> /\ q[1] = << >> /\ q[2] = << >> /\ q[3] # << >>
    BY <2>1, <2>5
  <2>6. CASE q[0] = << >> /\ q[1] = << >> /\ q[2] = << >> /\ q[3] = << >> /\ q[4] # << >>
    BY <2>1, <2>6
  <2> QED
    BY <2>1, <2>2, <2>3, <2>4, <2>5, <2>6 DEF Empty
<1> QED
  BY <1>1 DEF Top

-----------------------------------------------------------------------------
(***************************************************************************)
(* schedule() and the stack switch, from the states, quanta and queues st, *)
(* qn and q they are called with.                                          *)
(***************************************************************************)
LEMMA RescheduleOK ==
  ASSUME IInv,
         NEW st \in [Pid -> States],
         NEW qn \in [Pid -> Nat],
         NEW q, QueueOK(st, prio, q),
         \A p \in Pid : qn[p] <= Quantum[prio[p]],
         \A p \in Pid : st[p] = "Running" => current = p,
         \A p \in Pid : (st[p] = "None" <=> state[p] = "None")
                        /\ (st[p] = "Dead" <=> state[p] = "Dead"),
         Reschedule(st, qn, q),
         UNCHANGED << boot, lastPid, prio >>,
         wake' \in [Pid -> 0 .. MaxSleep]
  PROVE  IInv'
<1> USE SchedulerAssumption
<1> DEFINE requeue == current # NoPid /\ Preemptible(st[current])
           st1 == IF requeue THEN [st EXCEPT ![current] = "Ready"] ELSE st
           q1  == IF requeue THEN Enqueue(q, current, prio[current]) ELSE q
           top == Top(q1)
           next == Head(q1[top])
<1>1. TypeOK /\ CpuOwner /\ LiveContextSaved /\ BootStages
  BY DEF IInv
<1>2. /\ st1 \in [Pid -> States]
      /\ \A p \in Pid : st1[p] # "Running"
      /\ \A p \in Pid : (st1[p] = "None" <=> state[p] = "None")
                        /\ (st1[p] = "Dead" <=> state[p] = "Dead")
  <2>1. CASE requeue
    BY <1>1, <2>1 DEF Preemptible, States, TypeOK
  <2>2. CASE ~ requeue
    BY <1>1, <2>2 DEF Preemptible, NoPid, Pid
  <2> QED
    BY <2>1, <2>2
<1>3. QueueOK(st1, prio, q1)
  <2>1. CASE requeue
    <3>1. current \in Pid /\ st[current] # "None" /\ prio[current] \in Priority
          /\ prio \in [Pid -> Priority]
      BY <1>1, <2>1 DEF Preemptible, TypeOK
    <3>2. QueueOK(st, prio, q1) /\ Holds(q1[prio[current]], current)
      BY <2>1, <3>1, EnqueueOK
    <3> HIDE DEF q1
    <3>3. \A p \in Pid : /\ st1[p] = "Ready" => st[p] = "Ready" \/ p = current
                         /\ st[p] # "None" => st1[p] # "None"
      BY <2>1
    <3> QED
      BY <3>1, <3>2, <3>3 DEF QueueOK
  <2>2. CASE ~ requeue
    BY <2>2
  <2> QED
    BY <2>1, <2>2
<1>4. /\ quantum' \in [Pid -> Nat]
      /\ \A p \in Pid : quantum'[p] <= Quantum[prio[p]]
  <2>1. quantum' = IF requeue THEN ResetQuantum(qn, current) ELSE qn
    BY DEF Reschedule
  <2>2. CASE requeue
    <3>1. current \in Pid /\ prio[current] \in Priority /\ Quantum[prio[current]] \in Nat
      BY <1>1, <2>2 DEF TypeOK
    <3> QED
      BY <2>1, <2>2, <3>1 DEF ResetQuantum
  <2>3. CASE ~ requeue
    BY <2>1, <2>3
  <2> QED
    BY <2>2, <2>3
<1>5. CASE Empty(q1)
  <2>1. /\ state' = st1 /\ queue' = q1
        /\ UNCHANGED << current, cpu, resumable >>
    BY <1>5 DEF Reschedule
  <2> HIDE DEF st1, q1, requeue
  <2>2. QueueOK(state, prio, queue)' /\ TypeOK'
    BY <1>1, <1>2, <1>3, <1>4, <2>1 DEF QueueOK, TypeOK
  <2>3. CpuOwner' /\ LiveContextSaved' /\ BootStages'
    BY <1>1, <1>2, <2>1 DEF CpuOwner, LiveContextSaved, BootStages, NoPid, Pid, TypeOK
  <2> QED
    BY <2>2, <2>3 DEF IInv
<1>6. CASE ~ Empty(q1)
  <2>1. /\ state' = [st1 EXCEPT ![next] = "Running"]
        /\ queue' = [q1 EXCEPT ![top] = Tail(@)]
        /\ current' = next
        /\ cpu' = next
        /\ SwitchContext(next)
    BY <1>6 DEF Reschedule
  <2> HIDE DEF st1, q1, requeue
  <2>2. /\ top \in Priority /\ q1[top] \in Seq(Pid) /\ q1[top] # << >>
    BY <1>3, <1>6, TopIsFirst DEF QueueOK
  <2> HIDE DEF top
  <2>3. /\ next \in Pid /\ Holds(q1[top], next)
        /\ Tail(q1[top]) \in Seq(Pid)
        /\ \A p \in Pid : Holds(q1[top], p) => p = next \/ Holds(Tail(q1[top]), p)
        /\ \A p \in Pid : Holds(Tail(q1[top]), p) => Holds(q1[top], p)
        /\ NoRepeat(q1[top]) => NoRepeat(Tail(q1[top]))
    BY <2>2, HoldsTail
  <2>4. st1[next] # "None" /\ state[next] # "None"
    BY <1>2, <1>3, <2>2, <2>3 DEF QueueOK
  <2> HIDE DEF next
  <2>5. /\ queue' \in [Priority -> Seq(Pid)]
        /\ queue'[top] = Tail(q1[top])
        /\ \A c \in Priority : c # top => queue'[c] = q1[c]
    BY <1>3, <2>1, <2>2, <2>3 DEF QueueOK
  <2>6. /\ state' \in [Pid -> States]
        /\ state'[next] = "Running"
        /\ \A p \in Pid : p # next => state'[p] = st1[p]
    BY <1>2, <2>1, <2>3 DEF States
  <2>7. QueueOK(state, prio, queue)'
    <3>1. \A c \in Priority : NoRepeat(queue'[c])
      <4>1. \A c \in Priority : NoRepeat(q1[c])
        BY <1>3 DEF QueueOK
      <4>2. NoRepeat(queue'[top])
        BY <2>2, <2>3, <2>5, <4>1
      <4> QED
        BY <2>5, <4>1, <4>2
    <3>2. \A c \in Priority : \A p \in Pid :
            Holds(queue'[c], p) => prio[p] = c /\ state'[p] # "None"
      <4> SUFFICES ASSUME NEW c \in Priority, NEW p \in Pid, Holds(queue'[c], p)
                   PROVE  prio[p] = c /\ state'[p] # "None"
        OBVIOUS
      <4>1. Holds(q1[c], p)
        BY <2>3, <2>5
      <4>2. prio[p] = c /\ st1[p] # "None"
        BY <1>3, <4>1 DEF QueueOK
      <4> QED
        BY <2>6, <4>2
    <3>3. \A p \in Pid : state'[p] = "Ready" => Holds(queue'[prio[p]], p)
      <4> SUFFICES ASSUME NEW p \in Pid, state'[p] = "Ready"
                   PROVE  Holds(queue'[prio[p]], p)
        OBVIOUS
      <4>1. p # next /\ st1[p] = "Ready"
        BY <2>6
      <4>2. Holds(q1[prio[p]], p) /\ prio[p] \in Priority
        <5>1. prio[p] \in Priority
          BY <1>1 DEF TypeOK
        <5> QED
          BY <1>3, <4>1, <5>1 DEF QueueOK
      <4> QED
        BY <2>3, <2>5, <4>1, <4>2
    <3> QED
      BY <2>5, <3>1, <3>2, <3>3 DEF QueueOK
  <2>8. /\ resumable' \in [Pid -> BOOLEAN]
        /\ \A p \in Pid : p # next /\ (p = current \/ resumable[p]) => resumable'[p]
    <3>1. CASE next = current
      <4>1. resumable' = resumable
        BY <2>1, <3>1 DEF SwitchContext
      <4> QED
        BY <1>1, <3>1, <4>1, Zenon DEF TypeOK
    <3>2. CASE next # current
      <4>1. resumable' = [p \in Pid |-> (p = current \/ resumable[p]) /\ p # next]
        BY <2>1, <3>2 DEF SwitchContext
      <4> QED
        BY <4>1, Zenon
    <3> QED
      BY <3>1, <3>2
  <2>9. TypeOK'
    BY <1>1, <1>4, <2>1, <2>3, <2>5, <2>6, <2>8 DEF TypeOK
  <2>10. CpuOwner'
    BY <1>2, <2>1, <2>3, <2>6 DEF CpuOwner, NoPid, Pid
  <2>11. LiveContextSaved'
    <3> SUFFICES ASSUME NEW p \in Pid, state'[p] \notin {"None", "Dead"}, p # next
                 PROVE  resumable'[p]
      BY <2>1 DEF LiveContextSaved
    <3>1. state[p] \notin {"None", "Dead"}
      BY <1>2, <2>6
    <3>2. p # cpu => resumable[p]
      BY <1>1, <3>1 DEF LiveContextSaved
    <3>3. p = cpu => p = current
      BY <1>1, <3>1 DEF CpuOwner, NoPid, Pid
    <3> QED
      BY <2>8, <3>2, <3>3
  <2>12. BootStages'
    <3>1. next <= lastPid
      BY <1>1, <2>3, <2>4 DEF BootStages, Pid, TypeOK
    <3>2. \A p \in Pid : state'[p] = "None" <=> state[p] = "None"
      BY <1>2, <2>4, <2>6
    <3>3. boot # "up" => next \in {IdlePid, MainPid}
      BY <1>1, <2>3, <3>1 DEF BootStages, IdlePid, Pid, TypeOK
    <3> QED
      BY <1>1, <2>1, <2>6, <3>1, <3>2, <3>3 DEF BootStages
  <2> QED
    BY <2>7, <2>9, <2>10, <2>11, <2>12 DEF IInv
<1> QED
  BY <1>5, <1>6

-----------------------------------------------------------------------------
(***************************************************************************)
(* Every action keeps the invariant.                                       *)
(***************************************************************************)
LEMMA PreemptOK ==
  ASSUME IInv, Preempt
  PROVE  IInv'
<1> USE SchedulerAssumption
<1> DEFINE st == AfterWake
           qn == AfterTick
           q == Requeue(st, queue)
           expired == current # NoPid => qn[current] = 0
<1>1. TypeOK /\ CpuOwner /\ LiveContextSaved /\ BootStages /\ QueueOK(state, prio, queue)
  BY DEF IInv
<1>2. /\ st \in [Pid -> States]
      /\ \A p \in Pid : st[p] = state[p] \/ (state[p] = "Sleeping" /\ st[p] = "Ready")
  BY <1>1 DEF AfterWake, Woken, TypeOK, States
<1>3. /\ \A p \in Pid : st[p] = "Running" => current = p
      /\ \A p \in Pid : (st[p] = "None" <=> state[p] = "None")
                        /\ (st[p] = "Dead" <=> state[p] = "Dead")
  BY <1>1, <1>2 DEF CpuOwner
<1>4. /\ qn \in [Pid -> Nat]
      /\ \A p \in Pid : qn[p] <= quantum[p]
  <2>1. CASE current = NoPid
    BY <1>1, <2>1 DEF AfterTick, TypeOK
  <2>2. CASE current # NoPid
    <3>1. current \in Pid /\ quantum \in [Pid -> Nat]
      BY <1>1, <2>2 DEF TypeOK
    <3>2. qn = [quantum EXCEPT ![current] = IF @ > 0 THEN @ - 1 ELSE 0]
      BY <2>2 DEF AfterTick
    <3> QED
      BY <3>1, <3>2
  <2> QED
    BY <2>1, <2>2
<1>5. \A p \in Pid : qn[p] <= Quantum[prio[p]]
  <2>1. \A p \in Pid : /\ quantum[p] \in Nat /\ quantum[p] <= Quantum[prio[p]]
                       /\ Quantum[prio[p]] \in Nat
    BY <1>1 DEF TypeOK
  <2> HIDE DEF qn
  <2> QED
    BY <1>4, <2>1
<1>6. QueueOK(st, prio, q)
  <2>1. /\ queue \in [Priority -> Seq(Pid)] /\ prio \in [Pid -> Priority]
        /\ \A c \in Priority : NoRepeat(queue[c])
    BY <1>1 DEF QueueOK, TypeOK
  <2>2. \A c \in Priority : \A p \in Pid :
          Holds(queue[c], p) => prio[p] = c /\ st[p] # "None"
    BY <1>1, <1>3 DEF QueueOK
  <2> HIDE DEF st
  <2> QED
    BY <2>1, <2>2, RequeueOK
<1>7. /\ UNCHANGED << boot, lastPid, prio >>
      /\ wake' \in [Pid -> 0 .. MaxSleep]
  <2>1. wake' = [p \in Pid |-> IF wake[p] > 0 THEN wake[p] - 1 ELSE 0]
        /\ UNCHANGED << boot, lastPid, prio >>
    BY DEF Preempt
  <2> QED
    BY <1>1, <2>1 DEF TypeOK
<1>8. \/ expired /\ Reschedule(st, qn, q)
      \/ /\ ~ expired
         /\ state' = st /\ quantum' = qn /\ queue' = q
         /\ UNCHANGED << current, cpu, resumable >>
  BY DEF Preempt
<1> HIDE DEF st, qn, q, expired
<1>9. CASE Reschedule(st, qn, q)
  BY <1>2, <1>3, <1>4, <1>5, <1>6, <1>7, <1>9, RescheduleOK
<1>10. CASE /\ state' = st /\ quantum' = qn /\ queue' = q
            /\ UNCHANGED << current, cpu, resumable >>
  <2>1. QueueOK(state, prio, queue)' /\ TypeOK'
    BY <1>1, <1>2, <1>4, <1>5, <1>6, <1>7, <1>10 DEF QueueOK, TypeOK
  <2>2. CpuOwner' /\ LiveContextSaved' /\ BootStages'
    BY <1>1, <1>3, <1>7, <1>10
       DEF CpuOwner, LiveContextSaved, BootStages, NoPid, Pid, TypeOK
  <2> QED
    BY <2>1, <2>2 DEF IInv
<1> QED
  BY <1>8, <1>9, <1>10

LEMMA YieldNowOK ==
  ASSUME IInv, YieldNow
  PROVE  IInv'
<1>1. /\ TypeOK /\ CpuOwner /\ QueueOK(state, prio, queue)
      /\ Reschedule(state, quantum, queue)
      /\ UNCHANGED << boot, lastPid, prio, wake >>
  BY DEF IInv, YieldNow
<1>2. /\ state \in [Pid -> States] /\ quantum \in [Pid -> Nat]
      /\ \A p \in Pid : quantum[p] <= Quantum[prio[p]]
      /\ wake' \in [Pid -> 0 .. MaxSleep]
      /\ \A p \in Pid : state[p] = "Running" => current = p
  BY <1>1 DEF TypeOK, CpuOwner
<1> QED
  BY <1>1, <1>2, RescheduleOK

\* Scheduler::init, register_current_as_task and spawn create a process.
LEMMA CreateOK ==
  ASSUME IInv,
         SchedulerInit \/ RegisterCurrentAsTask \/ \E c \in SpawnPriority : Spawn(c)
  PROVE  IInv'
<1> USE SchedulerAssumption
<1>1. TypeOK /\ CpuOwner /\ LiveContextSaved /\ BootStages /\ QueueOK(state, prio, queue)
  BY DEF IInv
<1>2. /\ IdlePid \in Pid /\ MainPid \in Pid /\ IdlePid # MainPid
      /\ IdlePriority \in Priority /\ NormalPriority \in Priority
  BY DEF IdlePid, MainPid, Pid, IdlePriority, NormalPriority, Priority
\* A new process p of priority c in state s, with its entry in queue q.
<1>3. ASSUME NEW p \in Pid, NEW c \in Priority, NEW s \in States \ {"None"},
             state[p] = "None",
             state' = [state EXCEPT ![p] = s],
             prio' = [prio EXCEPT ![p] = c],
             queue' = Enqueue(queue, p, c)
      PROVE  QueueOK(state, prio, queue)'
  <2>1. QueueOK(state', prio', queue) \/ s = "Ready"
    BY <1>1, <1>3 DEF QueueOK, TypeOK
  <2>2. /\ queue \in [Priority -> Seq(Pid)] /\ ~ Holds(queue[c], p)
        /\ \A d \in Priority : NoRepeat(queue[d])
    BY <1>1, <1>3 DEF QueueOK
  <2>3. queue' = [queue EXCEPT ![c] = Append(@, p)]
    BY <1>3, <2>2 DEF Enqueue
  <2>4. /\ Append(queue[c], p) \in Seq(Pid)
        /\ \A r \in Pid : Holds(Append(queue[c], p), r) <=> Holds(queue[c], r) \/ r = p
        /\ NoRepeat(Append(queue[c], p))
    BY <2>2, HoldsAppend
  <2>5. /\ queue' \in [Priority -> Seq(Pid)]
        /\ queue'[c] = Append(queue[c], p)
        /\ \A d \in Priority : d # c => queue'[d] = queue[d]
    BY <2>2, <2>3, <2>4
  <2>6. /\ state'[p] = s /\ prio'[p] = c
        /\ \A r \in Pid : r # p => state'[r] = state[r] /\ prio'[r] = prio[r]
    BY <1>1, <1>3 DEF TypeOK
  <2>7. \A d \in Priority : NoRepeat(queue'[d])
    <3>1. NoRepeat(queue'[c])
      BY <2>4, <2>5
    <3> QED
      BY <2>2, <2>5, <3>1
  <2>8. \A d \in Priority : \A r \in Pid : Holds(queue'[d], r) => prio'[r] = d /\ state'[r] # "None"
    <3> SUFFICES ASSUME NEW d \in Priority, NEW r \in Pid, Holds(queue'[d], r)
                 PROVE  prio'[r] = d /\ state'[r] # "None"
      OBVIOUS
    <3>1. Holds(queue[d], r) \/ (d = c /\ r = p)
      BY <2>4, <2>5
    <3>2. Holds(queue[d], r) => prio[r] = d /\ state[r] # "None" /\ r # p
      BY <1>1, <1>3 DEF QueueOK
    <3> QED
      BY <1>3, <2>6, <3>1, <3>2
  <2>9. \A r \in Pid : state'[r] = "Ready" => Holds(queue'[prio'[r]], r)
    <3> SUFFICES ASSUME NEW r \in Pid, state'[r] = "Ready"
                 PROVE  Holds(queue'[prio'[r]], r)
      OBVIOUS
    <3>1. CASE r = p
      BY <2>4, <2>5, <2>6, <3>1
    <3>2. CASE r # p
      <4>1. Holds(queue[prio[r]], r) /\ prio[r] \in Priority /\ prio'[r] = prio[r]
        BY <1>1, <2>6, <3>2 DEF QueueOK, TypeOK
      <4>2. \A d \in Priority : Holds(queue[d], r) => Holds(queue'[d], r)
        BY <2>4, <2>5
      <4> QED
        BY <4>1, <4>2
    <3> QED
      BY <3>1, <3>2
  <2> QED
    BY <2>5, <2>7, <2>8, <2>9 DEF QueueOK
<1>4. ASSUME NEW p \in Pid, NEW c \in Priority,
             prio' = [prio EXCEPT ![p] = c],
             quantum' = [quantum EXCEPT ![p] = Quantum[c]]
      PROVE  /\ prio' \in [Pid -> Priority]
             /\ quantum' \in [Pid -> Nat]
             /\ \A r \in Pid : quantum'[r] <= Quantum[prio'[r]]
  <2>1. /\ quantum \in [Pid -> Nat] /\ prio \in [Pid -> Priority]
        /\ \A r \in Pid : quantum[r] <= Quantum[prio[r]]
        /\ Quantum[c] \in Nat
    BY <1>1 DEF TypeOK
  <2> QED
    BY <1>4, <2>1
<1>5. ASSUME NEW p \in Pid, resumable' = [resumable EXCEPT ![p] = TRUE]
      PROVE  /\ resumable' \in [Pid -> BOOLEAN]
             /\ resumable'[p]
             /\ \A r \in Pid : resumable[r] => resumable'[r]
  <2>1. resumable \in [Pid -> BOOLEAN]
    BY <1>1 DEF TypeOK
  <2> QED
    BY <1>5, <2>1, Zenon
<1>6. ASSUME NEW p \in Pid, NEW s \in States, state' = [state EXCEPT ![p] = s]
      PROVE  /\ state' \in [Pid -> States]
             /\ state'[p] = s
             /\ \A r \in Pid : r # p => state'[r] = state[r]
  BY <1>1, <1>6 DEF TypeOK
<1>7. CASE SchedulerInit
  <2>1. state[IdlePid] = "None" /\ state[MainPid] = "None" /\ current = NoPid
    BY <1>1, <1>2, <1>7
       DEF SchedulerInit, BootStages, IdlePid, MainPid, NoPid, TypeOK, Pid
  <2>2. QueueOK(state, prio, queue)'
    BY <1>2, <1>3, <1>7, <2>1 DEF SchedulerInit, States
  <2>3. /\ state' \in [Pid -> States] /\ state'[IdlePid] = "New"
        /\ \A r \in Pid : r # IdlePid => state'[r] = state[r]
    BY <1>2, <1>6, <1>7 DEF SchedulerInit, States
  <2>4. /\ prio' \in [Pid -> Priority] /\ quantum' \in [Pid -> Nat]
        /\ \A r \in Pid : quantum'[r] <= Quantum[prio'[r]]
    BY <1>2, <1>4, <1>7 DEF SchedulerInit
  <2>5. /\ resumable' \in [Pid -> BOOLEAN] /\ resumable'[IdlePid]
        /\ \A r \in Pid : resumable[r] => resumable'[r]
    BY <1>2, <1>5, <1>7 DEF SchedulerInit
  <2>6. TypeOK'
    <3>1. /\ boot' \in {"early", "idle_only", "up"} /\ lastPid' \in 0 .. MaxPid
          /\ UNCHANGED << wake, current, cpu >>
      BY <1>7 DEF SchedulerInit, IdlePid
    <3>2. /\ wake' \in [Pid -> 0 .. MaxSleep]
          /\ current' \in Pid \cup {NoPid} /\ cpu' \in Pid
      BY <1>1, <3>1 DEF TypeOK
    <3>3. queue' \in [Priority -> Seq(Pid)]
      BY <2>2 DEF QueueOK
    <3> QED
      BY <2>3, <2>4, <2>5, <3>1, <3>2, <3>3 DEF TypeOK
  <2>7. CpuOwner' /\ LiveContextSaved'
    BY <1>1, <1>2, <1>7, <2>1, <2>3, <2>5 DEF SchedulerInit, CpuOwner, LiveContextSaved
  <2>8. BootStages'
    <3>1. boot' = "idle_only" /\ lastPid' = IdlePid /\ cpu' = MainPid /\ current' = NoPid
      BY <1>7, <2>1 DEF SchedulerInit
    <3>2. \A r \in Pid : state[r] = "None" /\ r \in Nat /\ r >= 1
      BY <1>1, <1>7 DEF SchedulerInit, BootStages, Pid
    <3>3. \A r \in Pid : state'[r] = "None" <=> r # IdlePid
      BY <2>3, <3>2
    <3>4. \A r \in Pid : state'[r] = "None" <=> r > IdlePid
      BY <3>2, <3>3 DEF IdlePid
    <3> QED
      BY <3>1, <3>4 DEF BootStages
  <2> QED
    BY <2>2, <2>6, <2>7, <2>8 DEF IInv
<1>8. CASE RegisterCurrentAsTask
  <2>1. state[MainPid] = "None" /\ current = NoPid /\ lastPid = 1
    BY <1>1, <1>2, <1>8
       DEF RegisterCurrentAsTask, BootStages, CpuOwner, IdlePid, MainPid, NoPid, TypeOK
  <2>2. QueueOK(state, prio, queue)'
    BY <1>1, <1>2, <1>8, <2>1 DEF RegisterCurrentAsTask, QueueOK, TypeOK
  <2>3. /\ state' \in [Pid -> States] /\ state'[MainPid] = "Running"
        /\ \A r \in Pid : r # MainPid => state'[r] = state[r]
    BY <1>2, <1>6, <1>8 DEF RegisterCurrentAsTask, States
  <2>4. /\ prio' \in [Pid -> Priority] /\ quantum' \in [Pid -> Nat]
        /\ \A r \in Pid : quantum'[r] <= Quantum[prio'[r]]
    BY <1>2, <1>4, <1>8 DEF RegisterCurrentAsTask
  <2>5. /\ boot' = "up" /\ lastPid' = MainPid /\ current' = MainPid /\ cpu = MainPid
        /\ UNCHANGED << wake, queue, cpu, resumable >>
    BY <1>8 DEF RegisterCurrentAsTask
  <2>6. TypeOK'
    <3>1. boot' \in {"early", "idle_only", "up"} /\ lastPid' \in 0 .. MaxPid
      BY <2>5 DEF MainPid
    <3>2. /\ wake' \in [Pid -> 0 .. MaxSleep] /\ queue' \in [Priority -> Seq(Pid)]
          /\ current' \in Pid \cup {NoPid} /\ cpu' \in Pid
      BY <1>1, <1>2, <2>5 DEF TypeOK
    <3>3. resumable' \in [Pid -> BOOLEAN]
      BY <1>1, <2>5 DEF TypeOK
    <3> QED
      BY <2>3, <2>4, <3>1, <3>2, <3>3 DEF TypeOK
  <2>7. \A r \in Pid : state'[r] = "Running" => r = MainPid
    BY <1>1, <2>1, <2>3 DEF CpuOwner, NoPid, Pid
  <2>8. CpuOwner' /\ LiveContextSaved'
    BY <1>1, <1>2, <2>3, <2>5, <2>7 DEF CpuOwner, LiveContextSaved, NoPid, MainPid
  <2>9. \A r \in Pid : state'[r] = "None" <=> r > 2
    BY <1>1, <2>1, <2>3 DEF BootStages, MainPid, Pid
  <2>10. BootStages'
    BY <1>2, <2>3, <2>5, <2>9 DEF BootStages, MainPid
  <2> QED
    BY <2>2, <2>6, <2>8, <2>10 DEF IInv
<1>9. ASSUME NEW c \in SpawnPriority, Spawn(c)
      PROVE  IInv'
  <2> DEFINE p == lastPid + 1
  <2>1. /\ p \in Pid /\ c \in Priority /\ state[p] = "None" /\ p # cpu
        /\ p > lastPid /\ boot = "up"
    BY <1>1, <1>9 DEF Spawn, BootStages, TypeOK, Pid
  <2>2. /\ lastPid' = p
        /\ state' = [state EXCEPT ![p] = "Ready"]
        /\ prio' = [prio EXCEPT ![p] = c]
        /\ quantum' = [quantum EXCEPT ![p] = Quantum[c]]
        /\ queue' = Enqueue(queue, p, c)
        /\ resumable' = [resumable EXCEPT ![p] = TRUE]
        /\ UNCHANGED << boot, wake, current, cpu >>
    BY <1>9 DEF Spawn
  <2>3. lastPid \in Nat /\ p \in Nat /\ p <= MaxPid
    BY <1>1, <2>1 DEF TypeOK, Pid
  <2>4. \A r \in Pid : r > p <=> r > lastPid /\ r # p
    BY <2>3 DEF Pid
  <2> HIDE DEF p
  <2>5. QueueOK(state, prio, queue)'
    BY <1>3, <2>1, <2>2 DEF States
  <2>6. /\ state' \in [Pid -> States] /\ state'[p] = "Ready"
        /\ \A r \in Pid : r # p => state'[r] = state[r]
    BY <1>6, <2>1, <2>2 DEF States
  <2>7. /\ prio' \in [Pid -> Priority] /\ quantum' \in [Pid -> Nat]
        /\ \A r \in Pid : quantum'[r] <= Quantum[prio'[r]]
    BY <1>4, <2>1, <2>2
  <2>8. /\ resumable' \in [Pid -> BOOLEAN] /\ resumable'[p]
        /\ \A r \in Pid : resumable[r] => resumable'[r]
    BY <1>5, <2>1, <2>2
  <2>9. TypeOK'
    <3>1. /\ boot' \in {"early", "idle_only", "up"} /\ lastPid' \in 0 .. MaxPid
          /\ wake' \in [Pid -> 0 .. MaxSleep]
          /\ current' \in Pid \cup {NoPid} /\ cpu' \in Pid
      BY <1>1, <2>2, <2>3 DEF TypeOK
    <3>2. queue' \in [Priority -> Seq(Pid)]
      BY <2>5 DEF QueueOK
    <3> QED
      BY <2>6, <2>7, <2>8, <3>1, <3>2 DEF TypeOK
  <2>10. CpuOwner' /\ LiveContextSaved'
    BY <1>1, <2>1, <2>2, <2>6, <2>8 DEF CpuOwner, LiveContextSaved, TypeOK
  <2>11. \A r \in Pid : state'[r] = "None" <=> r > p
    BY <1>1, <2>1, <2>4, <2>6 DEF BootStages
  <2>12. p >= MainPid /\ cpu <= p
    <3>1. lastPid >= MainPid /\ cpu <= lastPid /\ cpu \in Nat
      BY <1>1, <2>1 DEF BootStages, TypeOK, Pid
    <3> QED
      BY <2>3, <3>1 DEF MainPid, p
  <2>13. BootStages'
    BY <1>1, <2>1, <2>2, <2>6, <2>11, <2>12 DEF BootStages, TypeOK
  <2> QED
    BY <2>5, <2>9, <2>10, <2>13 DEF IInv
<1> QED
  BY <1>7, <1>8, <1>9

\* A change of one existing process's state keeps the queues sound as long as a
\* process that is made Ready is in its queue.
LEMMA ChangeStateOK ==
  ASSUME NEW p \in Pid, NEW s \in States \ {"None"}, NEW q,
         state \in [Pid -> States], QueueOK(state, prio, q),
         s = "Ready" => Holds(q[prio[p]], p)
  PROVE  QueueOK([state EXCEPT ![p] = s], prio, q)
BY DEF QueueOK, States

\* Sleep, block and unblock.
LEMMA WaitOK ==
  ASSUME IInv,
         \/ \E n \in 1 .. MaxSleep : Sleep(n)
         \/ BlockCurrent
         \/ \E p \in Pid : Unblock(p)
  PROVE  IInv'
<1> USE SchedulerAssumption
<1>1. /\ TypeOK /\ CpuOwner /\ LiveContextSaved /\ BootStages
      /\ QueueOK(state, prio, queue)
  BY DEF IInv
<1>2. /\ state \in [Pid -> States] /\ prio \in [Pid -> Priority]
      /\ wake \in [Pid -> 0 .. MaxSleep] /\ cpu \in Pid
      /\ current \in Pid \cup {NoPid}
  BY <1>1 DEF TypeOK
\* An existing process p changes to state s, and the queues to q.
<1>3. ASSUME NEW p \in Pid, NEW s \in States \ {"None", "Running", "Dead"},
             state[p] # "None", p = cpu => current = p,
             p # cpu => state[p] # "Dead",
             state' = [state EXCEPT ![p] = s],
             QueueOK([state EXCEPT ![p] = s], prio, queue'),
             wake' \in [Pid -> 0 .. MaxSleep],
             UNCHANGED << boot, lastPid, prio, quantum, current, cpu, resumable >>
      PROVE  IInv'
  <2>1. /\ state' \in [Pid -> States] /\ state'[p] = s
        /\ \A r \in Pid : r # p => state'[r] = state[r]
    BY <1>2, <1>3
  <2>2. QueueOK(state, prio, queue)'
    BY <1>3
  <2>3. queue' \in [Priority -> Seq(Pid)]
    BY <2>2 DEF QueueOK
  <2>4. TypeOK'
    <3>1. /\ boot' \in {"early", "idle_only", "up"} /\ lastPid' \in 0 .. MaxPid
          /\ prio' \in [Pid -> Priority] /\ quantum' \in [Pid -> Nat]
          /\ current' \in Pid \cup {NoPid} /\ cpu' \in Pid
      BY <1>1, <1>3 DEF TypeOK
    <3>2. \A r \in Pid : quantum'[r] <= Quantum[prio'[r]]
      BY <1>1, <1>3 DEF TypeOK
    <3>3. resumable' \in [Pid -> BOOLEAN]
      BY <1>1, <1>3 DEF TypeOK
    <3> QED
      BY <1>3, <2>1, <2>3, <3>1, <3>2, <3>3 DEF TypeOK
  <2>5. CpuOwner'
    <3>1. \A r \in Pid : state'[r] = "Running" => current' = r
      BY <1>1, <1>3, <2>1 DEF CpuOwner
    <3>2. current' # NoPid => cpu' = current'
      BY <1>1, <1>3 DEF CpuOwner
    <3>3. current' = NoPid => state'[cpu'] \in {"Dead", "None"}
      BY <1>1, <1>2, <1>3, <2>1 DEF CpuOwner, NoPid, Pid
    <3> QED
      BY <3>1, <3>2, <3>3 DEF CpuOwner
  <2>6. LiveContextSaved'
    BY <1>1, <1>3, <2>1 DEF LiveContextSaved
  <2>7. BootStages'
    <3>1. \A r \in Pid : state'[r] = "None" <=> state[r] = "None"
      BY <1>3, <2>1
    <3>2. current \in Pid \/ current = NoPid
      BY <1>2
    <3> QED
      BY <1>1, <1>3, <3>1, <3>2 DEF BootStages
  <2> QED
    BY <2>2, <2>4, <2>5, <2>6, <2>7 DEF IInv
\* The executing process exists.
<1>4. Executing(cpu) => cpu = current /\ state[cpu] # "None"
  BY <1>1, <1>2 DEF Executing, BootStages, NoPid, Pid
<1>5. ASSUME NEW n \in 1 .. MaxSleep, Sleep(n)
      PROVE  IInv'
  <2>1. /\ state' = [state EXCEPT ![cpu] = "Sleeping"]
        /\ wake' = [wake EXCEPT ![cpu] = n]
        /\ UNCHANGED << boot, lastPid, prio, quantum, queue, current, cpu, resumable >>
    BY <1>4, <1>5 DEF Sleep
  <2>2. QueueOK([state EXCEPT ![cpu] = "Sleeping"], prio, queue)
    BY <1>1, <1>2, ChangeStateOK DEF States
  <2>3. wake' \in [Pid -> 0 .. MaxSleep]
    BY <1>2, <2>1
  <2>4. Executing(cpu)
    BY <1>5 DEF Sleep
  <2> QED
    BY <1>2, <1>3, <1>4, <2>1, <2>2, <2>3, <2>4 DEF States
<1>6. CASE BlockCurrent
  <2>1. /\ state' = [state EXCEPT ![cpu] = "Blocked"]
        /\ Executing(cpu)
        /\ UNCHANGED << boot, lastPid, prio, quantum, wake, queue, current, cpu, resumable >>
    BY <1>4, <1>6 DEF BlockCurrent
  <2>2. QueueOK([state EXCEPT ![cpu] = "Blocked"], prio, queue)
    BY <1>1, <1>2, ChangeStateOK DEF States
  <2> QED
    BY <1>2, <1>3, <1>4, <2>1, <2>2 DEF States
<1>7. ASSUME NEW p \in Pid, Unblock(p)
      PROVE  IInv'
  <2>1. /\ state[p] = "Blocked"
        /\ state' = [state EXCEPT ![p] = "Ready"]
        /\ queue' = Enqueue(queue, p, prio[p])
        /\ UNCHANGED << boot, lastPid, prio, quantum, wake, current, cpu, resumable >>
    BY <1>7 DEF Unblock
  <2>2. /\ QueueOK(state, prio, queue')
        /\ Holds(queue'[prio[p]], p)
    BY <1>1, <1>2, <2>1, EnqueueOK
  <2>3. QueueOK([state EXCEPT ![p] = "Ready"], prio, queue')
    BY <1>2, <2>2, ChangeStateOK DEF States
  <2>4. p = cpu => current = p
    BY <1>1, <1>2, <2>1 DEF CpuOwner
  <2> QED
    BY <1>2, <1>3, <2>1, <2>3, <2>4 DEF States
<1> QED
  BY <1>5, <1>6, <1>7

\* exit_process, for the process itself or for one that is killed.
LEMMA ExitOK ==
  ASSUME IInv, ExitCurrent \/ \E p \in Killable : Kill(p)
  PROVE  IInv'
<1> USE SchedulerAssumption
<1>1. /\ TypeOK /\ CpuOwner /\ LiveContextSaved /\ BootStages
      /\ QueueOK(state, prio, queue)
  BY DEF IInv
<1>2. /\ state \in [Pid -> States] /\ cpu \in Pid
      /\ current \in Pid \cup {NoPid} /\ lastPid \in 0 .. MaxPid
  BY <1>1 DEF TypeOK
<1>3. PICK p \in Pid : ExitProcess(p) /\ state[p] # "None"
  <2>1. CASE ExitCurrent
    BY <1>1, <1>2, <2>1 DEF ExitCurrent, Executing, BootStages, NoPid, Pid
  <2>2. ASSUME NEW p \in Killable, Kill(p)
        PROVE  ExitProcess(p) /\ state[p] # "None" /\ p \in Pid
    BY <1>1, <1>2, <2>2 DEF Kill, BootStages, Pid
  <2> QED
    BY <2>1, <2>2
<1>4. /\ state' = [state EXCEPT ![p] = "Dead"]
      /\ current' = IF current = p THEN NoPid ELSE current
      /\ UNCHANGED << boot, lastPid, prio, quantum, wake, queue, cpu, resumable >>
  BY <1>3 DEF ExitProcess
<1>5. /\ state' \in [Pid -> States] /\ state'[p] = "Dead"
      /\ \A r \in Pid : r # p => state'[r] = state[r]
  BY <1>2, <1>4 DEF States
<1>6. QueueOK(state, prio, queue)'
  <2>1. QueueOK([state EXCEPT ![p] = "Dead"], prio, queue)
    BY <1>1, <1>2, ChangeStateOK DEF States
  <2> QED
    BY <1>4, <2>1
<1>7. TypeOK'
  <2>1. /\ boot' \in {"early", "idle_only", "up"} /\ lastPid' \in 0 .. MaxPid
        /\ prio' \in [Pid -> Priority] /\ quantum' \in [Pid -> Nat]
        /\ wake' \in [Pid -> 0 .. MaxSleep] /\ queue' \in [Priority -> Seq(Pid)]
        /\ current' \in Pid \cup {NoPid} /\ cpu' \in Pid
    BY <1>1, <1>4 DEF TypeOK
  <2>2. \A r \in Pid : quantum'[r] <= Quantum[prio'[r]]
    BY <1>1, <1>4 DEF TypeOK
  <2>3. resumable' \in [Pid -> BOOLEAN]
    BY <1>1, <1>4 DEF TypeOK
  <2> QED
    BY <1>5, <2>1, <2>2, <2>3 DEF TypeOK
<1>8. CpuOwner'
  <2>1. \A r \in Pid : state'[r] = "Running" => current' = r
    BY <1>1, <1>4, <1>5 DEF CpuOwner
  <2>2. current' # NoPid => cpu' = current'
    BY <1>1, <1>4 DEF CpuOwner
  <2>3. current' = NoPid => state'[cpu'] \in {"Dead", "None"}
    BY <1>1, <1>2, <1>4, <1>5 DEF CpuOwner, NoPid, Pid
  <2> QED
    BY <2>1, <2>2, <2>3 DEF CpuOwner
<1>9. LiveContextSaved'
  BY <1>1, <1>4, <1>5 DEF LiveContextSaved
<1>10. BootStages'
  <2>1. \A r \in Pid : state'[r] = "None" <=> state[r] = "None"
    BY <1>3, <1>5
  <2>2. current' # NoPid => current' = current /\ current \in Pid
    BY <1>2, <1>4
  <2> QED
    BY <1>1, <1>4, <2>1, <2>2 DEF BootStages
<1> QED
  BY <1>6, <1>7, <1>8, <1>9, <1>10 DEF IInv

-----------------------------------------------------------------------------
(***************************************************************************)
(* The theorems.                                                           *)
(***************************************************************************)
\* Every step keeps the invariant.
LEMMA NextIInv == IInv /\ [Next]_vars => IInv'
<1> SUFFICES ASSUME IInv, [Next]_vars
             PROVE  IInv'
  OBVIOUS
<1>1. CASE SchedulerInit \/ RegisterCurrentAsTask \/ \E c \in SpawnPriority : Spawn(c)
  BY <1>1, CreateOK
<1>2. CASE Preempt
  BY <1>2, PreemptOK
<1>3. CASE YieldNow
  BY <1>3, YieldNowOK
<1>4. CASE \/ \E n \in 1 .. MaxSleep : Sleep(n)
           \/ BlockCurrent
           \/ \E p \in Pid : Unblock(p)
  BY <1>4, WaitOK
<1>5. CASE ExitCurrent \/ \E p \in Killable : Kill(p)
  BY <1>5, ExitOK
<1>6. CASE UNCHANGED vars
  BY <1>6 DEF vars, IInv, TypeOK, QueueOK, CpuOwner, LiveContextSaved, BootStages
<1> QED
  BY <1>1, <1>2, <1>3, <1>4, <1>5, <1>6 DEF Next

\* The inductive invariant holds in every reachable state.
THEOREM SchedulerInvariant == Spec => []IInv
<1> QED
  BY InitIInv, NextIInv, PTL DEF Spec

\* Every variable keeps its type, and no quantum exceeds its priority's.
THEOREM TypeCorrect == Spec => []TypeOK
<1>1. IInv => TypeOK
  BY DEF IInv
<1> QED
  BY <1>1, SchedulerInvariant, PTL

\* No ready process is ever outside its queue: no path of the scheduler loses one.
THEOREM NoReadyLost == Spec => []ReadyIsQueued
<1>1. IInv => ReadyIsQueued
  BY QueueOKImplies DEF IInv
<1> QED
  BY <1>1, SchedulerInvariant, PTL

\* Nothing is queued twice or in the wrong queue.
THEOREM QueuesAreSound == Spec => []QueuesSound
<1>1. IInv => QueuesSound
  BY QueueOKImplies DEF IInv
<1> QED
  BY <1>1, SchedulerInvariant, PTL

\* The scheduler's idea of the current process agrees with the CPU.
THEOREM CpuAgrees == Spec => []CpuOwner
<1>1. IInv => CpuOwner
  BY DEF IInv
<1> QED
  BY <1>1, SchedulerInvariant, PTL

\* Every live process that is off the CPU has a context to resume.
THEOREM ContextsAreSaved == Spec => []LiveContextSaved
<1>1. IInv => LiveContextSaved
  BY DEF IInv
<1> QED
  BY <1>1, SchedulerInvariant, PTL

-----------------------------------------------------------------------------
(***************************************************************************)
(* Strict priority.                                                        *)
(***************************************************************************)
\* schedule() gives the CPU to a process that no Ready one precedes: all of them
\* are in their queues, and it takes from the first that is not empty.
LEMMA ReschedulePicksFirst ==
  ASSUME TypeOK,
         NEW st \in [Pid -> States], NEW qn, NEW q,
         QueueOK(st, prio, q), Reschedule(st, qn, q),
         current' # current
  PROVE  \A p \in Pid : state'[p] = "Ready" => prio[p] >= prio[current']
<1> DEFINE requeue == current # NoPid /\ Preemptible(st[current])
           st1 == IF requeue THEN [st EXCEPT ![current] = "Ready"] ELSE st
           q1  == IF requeue THEN Enqueue(q, current, prio[current]) ELSE q
           top == Top(q1)
           next == Head(q1[top])
<1>1. prio \in [Pid -> Priority] /\ current \in Pid \cup {NoPid}
  BY DEF TypeOK
<1>2. /\ st1 \in [Pid -> States]
      /\ QueueOK(st1, prio, q1)
  <2>1. CASE requeue
    <3>1. current \in Pid /\ st[current] # "None" /\ prio[current] \in Priority
      BY <1>1, <2>1 DEF Preemptible
    <3>2. QueueOK(st, prio, q1) /\ Holds(q1[prio[current]], current)
      BY <1>1, <2>1, <3>1, EnqueueOK
    <3> HIDE DEF q1
    <3>3. st1 \in [Pid -> States]
          /\ \A p \in Pid : /\ st1[p] = "Ready" => st[p] = "Ready" \/ p = current
                            /\ st[p] # "None" => st1[p] # "None"
      BY <2>1 DEF States
    <3> QED
      BY <3>1, <3>2, <3>3 DEF QueueOK
  <2>2. CASE ~ requeue
    BY <2>2
  <2> QED
    BY <2>1, <2>2
<1>3. /\ ~ Empty(q1)
      /\ state' = [st1 EXCEPT ![next] = "Running"]
      /\ current' = next
  BY DEF Reschedule
<1> HIDE DEF st1, q1, requeue
<1>4. /\ top \in Priority /\ q1[top] \in Seq(Pid) /\ q1[top] # << >>
      /\ \A d \in Priority : d < top => q1[d] = << >>
  BY <1>2, <1>3, TopIsFirst DEF QueueOK
<1> HIDE DEF top
<1>5. next \in Pid /\ prio[next] = top
  BY <1>2, <1>4, HoldsTail DEF QueueOK
<1> HIDE DEF next
<1> SUFFICES ASSUME NEW p \in Pid, state'[p] = "Ready"
             PROVE  prio[p] >= top
  BY <1>3, <1>5
<1>6. st1[p] = "Ready"
  BY <1>2, <1>3, <1>5
<1>7. prio[p] \in Priority /\ Holds(q1[prio[p]], p)
  BY <1>1, <1>2, <1>6 DEF QueueOK
<1>8. q1[prio[p]] # << >>
  BY <1>7 DEF Holds
<1> QED
  BY <1>4, <1>7, <1>8 DEF Priority

\* The idle process keeps the least priority.
IdleIsLast == lastPid >= IdlePid => prio[IdlePid] = IdlePriority

LEMMA IdleStaysLast ==
  ASSUME IInv, IdleIsLast, [Next]_vars
  PROVE  IdleIsLast'
<1> USE SchedulerAssumption
<1>1. prio \in [Pid -> Priority] /\ BootStages /\ lastPid \in 0 .. MaxPid
  BY DEF IInv, TypeOK
<1>2. CASE UNCHANGED << lastPid, prio >>
  BY <1>2 DEF IdleIsLast
<1>3. CASE SchedulerInit
  BY <1>1, <1>3 DEF SchedulerInit, IdleIsLast, IdlePid, Pid
<1>4. CASE RegisterCurrentAsTask
  BY <1>1, <1>4
     DEF RegisterCurrentAsTask, IdleIsLast, BootStages, IdlePid, MainPid, Pid
<1>5. ASSUME NEW c \in SpawnPriority, Spawn(c)
      PROVE  IdleIsLast'
  <2>1. lastPid >= MainPid /\ prio' = [prio EXCEPT ![lastPid + 1] = c]
    BY <1>1, <1>5 DEF Spawn, BootStages
  <2> QED
    BY <1>1, <2>1 DEF IdleIsLast, IdlePid, MainPid, Pid
<1>6. ASSUME NEW p, ExitProcess(p)
      PROVE  UNCHANGED << lastPid, prio >>
  BY <1>6 DEF ExitProcess
<1> QED
  BY <1>2, <1>3, <1>4, <1>5, <1>6
     DEF Next, Preempt, YieldNow, Sleep, BlockCurrent, Unblock, ExitCurrent, Kill, vars

\* Whoever is given the CPU, no more urgent process is left Ready.
THEOREM PriorityIsStrict == Spec => StrictPriority
<1> DEFINE Strict == current' # current /\ current' # NoPid
             => \A p \in Pid : state'[p] = "Ready" => prio'[p] >= prio'[current']
<1>1. ASSUME IInv, IdleIsLast, [Next]_vars
      PROVE  [Strict]_vars
  <2> USE SchedulerAssumption
  <2> SUFFICES ASSUME current' # current, current' # NoPid
               PROVE  \A p \in Pid : state'[p] = "Ready" => prio'[p] >= prio'[current']
    OBVIOUS
  <2>1. TypeOK /\ CpuOwner /\ BootStages /\ QueueOK(state, prio, queue)
    BY <1>1 DEF IInv
  <2>2. state \in [Pid -> States] /\ prio \in [Pid -> Priority]
        /\ queue \in [Priority -> Seq(Pid)]
    BY <2>1 DEF TypeOK
  <2>3. CASE Preempt
    <3> DEFINE st == AfterWake
               q == Requeue(st, queue)
    <3>1. Reschedule(st, AfterTick, q) /\ prio' = prio
      BY <2>3 DEF Preempt
    <3>2. st \in [Pid -> States]
          /\ \A p \in Pid : state[p] # "None" => st[p] # "None"
      BY <2>2 DEF AfterWake, Woken, States
    <3> HIDE DEF st
    <3>3. QueueOK(st, prio, q)
      <4>1. /\ \A c \in Priority : NoRepeat(queue[c])
            /\ \A c \in Priority : \A p \in Pid :
                 Holds(queue[c], p) => prio[p] = c /\ st[p] # "None"
        BY <2>1, <3>2 DEF QueueOK
      <4> QED
        BY <2>2, <4>1, RequeueOK
    <3> HIDE DEF q
    <3>4. \A p \in Pid : state'[p] = "Ready" => prio[p] >= prio[current']
      <4> DEFINE qn == AfterTick
      <4>1. Reschedule(st, qn, q)
        BY <3>1
      <4> HIDE DEF qn
      <4> QED
        BY <2>1, <3>2, <3>3, <4>1, ReschedulePicksFirst
    <3> QED
      BY <3>1, <3>4
  <2>4. CASE YieldNow
    BY <2>1, <2>2, <2>4, ReschedulePicksFirst DEF YieldNow
  <2>5. CASE RegisterCurrentAsTask
    <3>1. /\ lastPid = IdlePid /\ state' = [state EXCEPT ![MainPid] = "Running"]
          /\ prio' = [prio EXCEPT ![MainPid] = NormalPriority]
          /\ current' = MainPid
          /\ \A p \in Pid : p > IdlePid => state[p] = "None"
      BY <2>1, <2>5 DEF RegisterCurrentAsTask, BootStages
    <3>2. prio'[IdlePid] = IdlePriority /\ prio'[current'] = NormalPriority
      BY <1>1, <2>2, <3>1 DEF IdleIsLast, IdlePid, MainPid, Pid
    <3>3. \A p \in Pid : state'[p] = "Ready" => p = IdlePid
      BY <2>2, <3>1 DEF IdlePid, MainPid, Pid
    <3> QED
      BY <3>2, <3>3 DEF IdlePriority, NormalPriority
  <2>6. ASSUME NEW p, ExitProcess(p)
        PROVE  FALSE
    BY <2>6 DEF ExitProcess
  <2> QED
    BY <1>1, <2>3, <2>4, <2>5, <2>6
       DEF Next, SchedulerInit, Spawn, Sleep, BlockCurrent, Unblock, ExitCurrent, Kill, vars
<1>2. Init => IdleIsLast
  BY DEF Init, IdleIsLast, IdlePid
<1> QED
  BY <1>1, <1>2, InitIInv, NextIInv, IdleStaysLast, PTL DEF Spec, StrictPriority
-----------------------------------------------------------------------------
(***************************************************************************)
(* Processes wait in turn, whatever they do.  Every operation but dequeue  *)
(* leaves what is in a queue where it is and puts what is new behind it.   *)
(***************************************************************************)
Extends(q, r) ==
  \A c \in Priority : /\ Len(q[c]) <= Len(r[c])
                      /\ \A i \in 1 .. Len(q[c]) : r[c][i] = q[c][i]

LEMMA ExtendedTwice ==
  ASSUME NEW q \in [Priority -> Seq(Pid)], NEW r \in [Priority -> Seq(Pid)],
         NEW s \in [Priority -> Seq(Pid)], Extends(q, r), Extends(r, s)
  PROVE  Extends(q, s)
<1> SUFFICES ASSUME NEW c \in Priority
             PROVE  /\ Len(q[c]) <= Len(s[c])
                    /\ \A i \in 1 .. Len(q[c]) : s[c][i] = q[c][i]
  BY DEF Extends
<1>1. Len(q[c]) \in Nat /\ Len(r[c]) \in Nat /\ Len(s[c]) \in Nat
  OBVIOUS
<1>2. Len(q[c]) <= Len(r[c]) /\ Len(r[c]) <= Len(s[c])
  BY DEF Extends
<1>3. ASSUME NEW i \in 1 .. Len(q[c]) PROVE s[c][i] = q[c][i]
  <2>1. i \in 1 .. Len(r[c])
    BY <1>1, <1>2
  <2> QED
    BY <2>1 DEF Extends
<1> QED
  BY <1>1, <1>2, <1>3

\* enqueue appends, or leaves the queues as they are.
LEMMA EnqueueExtends ==
  ASSUME NEW q \in [Priority -> Seq(Pid)], NEW p \in Pid, NEW c \in Priority
  PROVE  Enqueue(q, p, c) \in [Priority -> Seq(Pid)] /\ Extends(q, Enqueue(q, p, c))
<1>1. CASE Holds(q[c], p)
  BY <1>1 DEF Enqueue, Extends
<1>2. CASE ~ Holds(q[c], p)
  <2>1. Enqueue(q, p, c) = [q EXCEPT ![c] = Append(@, p)]
    BY <1>2 DEF Enqueue
  <2>2. /\ Append(q[c], p) \in Seq(Pid) /\ Len(Append(q[c], p)) = Len(q[c]) + 1
        /\ \A i \in 1 .. Len(q[c]) : Append(q[c], p)[i] = q[c][i]
    OBVIOUS
  <2> QED
    BY <2>1, <2>2 DEF Extends
<1> QED
  BY <1>1, <1>2

\* wake_sleeping_processes puts the processes it queues behind the others.
LEMMA RequeueExtends ==
  ASSUME NEW q \in [Priority -> Seq(Pid)], NEW st
  PROVE  Requeue(st, q) \in [Priority -> Seq(Pid)] /\ Extends(q, Requeue(st, q))
<1> DEFINE late(c) == {p \in Pid : st[p] = "Ready" /\ prio[p] = c /\ ~ Holds(q[c], p)}
           r == Requeue(st, q)
<1>1. /\ r = [c \in Priority |-> r[c]]
      /\ \A c \in Priority : r[c] = q[c] \o InPidOrder(late(c))
  BY DEF Requeue
<1>2. \A c \in Priority : late(c) \in SUBSET Pid
  OBVIOUS
<1> HIDE DEF late, r
<1>3. \A c \in Priority : InPidOrder(late(c)) \in Seq(Pid)
  BY <1>2, InPidOrderEnumerates
<1>4. ASSUME NEW c \in Priority
      PROVE  /\ r[c] \in Seq(Pid) /\ Len(q[c]) <= Len(r[c])
             /\ \A i \in 1 .. Len(q[c]) : r[c][i] = q[c][i]
  <2> DEFINE t == InPidOrder(late(c))
  <2>1. t \in Seq(Pid) /\ q[c] \in Seq(Pid) /\ r[c] = q[c] \o t
    BY <1>1, <1>3
  <2> HIDE DEF t
  <2> QED
    BY <2>1
<1>5. r \in [Priority -> Seq(Pid)] /\ Extends(q, r)
  BY <1>1, <1>4 DEF Extends
<1> QED
  BY <1>5 DEF r

\* dequeue takes the first of a queue; those behind it move up.
LEMMA RescheduleInTurn ==
  ASSUME TypeOK, NEW st, NEW qn, NEW q \in [Priority -> Seq(Pid)], Extends(queue, q),
         Reschedule(st, qn, q)
  PROVE  Turn
<1> DEFINE requeue == current # NoPid /\ Preemptible(st[current])
           q1  == IF requeue THEN Enqueue(q, current, prio[current]) ELSE q
           top == Top(q1)
<1>1. \/ Empty(q1) /\ queue' = q1
      \/ /\ ~ Empty(q1) /\ queue' = [q1 EXCEPT ![top] = Tail(@)]
         /\ current' = Head(q1[top])
  BY DEF Reschedule
<1>2. q1 \in [Priority -> Seq(Pid)] /\ Extends(q, q1)
  <2>1. CASE requeue
    <3>1. current \in Pid /\ prio[current] \in Priority
      BY <2>1 DEF TypeOK
    <3> QED
      BY <2>1, <3>1, EnqueueExtends
  <2>2. CASE ~ requeue
    BY <2>2 DEF Extends
  <2> QED
    BY <2>1, <2>2
<1> HIDE DEF requeue, q1, top
<1>3. queue \in [Priority -> Seq(Pid)]
  BY DEF TypeOK
<1>4. Extends(queue, q1)
  BY <1>2, <1>3, ExtendedTwice
<1> SUFFICES ASSUME NEW c \in Priority, NEW i \in 1 .. Len(queue[c])
             PROVE  \/ i <= Len(queue'[c]) /\ queue'[c][i] = queue[c][i]
                    \/ i > 1 /\ i - 1 <= Len(queue'[c]) /\ queue'[c][i - 1] = queue[c][i]
                    \/ i = 1 /\ current' = queue[c][i]
  BY DEF Turn
<1>5. /\ q1[c] \in Seq(Pid) /\ queue[c] \in Seq(Pid)
      /\ Len(queue[c]) <= Len(q1[c]) /\ q1[c][i] = queue[c][i]
  BY <1>2, <1>3, <1>4 DEF Extends
<1>6. i \in 1 .. Len(q1[c])
  BY <1>5
<1>7. CASE queue'[c] = q1[c]
  BY <1>5, <1>6, <1>7
<1>8. CASE c = top /\ queue' = [q1 EXCEPT ![top] = Tail(@)] /\ current' = Head(q1[top])
  <2>1. queue'[c] = Tail(q1[c]) /\ current' = q1[c][1]
    BY <1>2, <1>5, <1>6, <1>8
  <2>2. /\ Len(Tail(q1[c])) = Len(q1[c]) - 1
        /\ \A k \in 1 .. Len(q1[c]) - 1 : Tail(q1[c])[k] = q1[c][k + 1]
    BY <1>5, <1>6
  <2>3. CASE i = 1
    BY <1>5, <2>1, <2>3
  <2>4. CASE i > 1
    <3>1. i - 1 \in 1 .. Len(q1[c]) - 1 /\ (i - 1) + 1 = i
      BY <1>5, <1>6, <2>4
    <3> QED
      BY <1>5, <2>1, <2>2, <2>4, <3>1
  <2> QED
    BY <2>3, <2>4
<1>9. CASE c # top /\ queue' = [q1 EXCEPT ![top] = Tail(@)]
  BY <1>2, <1>7, <1>9
<1> QED
  BY <1>1, <1>7, <1>8, <1>9

\* Nobody is overtaken in its queue, and the first leaves it only to be given the
\* CPU: whatever the tasks, the timer and the interrupts do, those who wait in a
\* queue are dispatched in the order in which they came.
THEOREM WaitsInTurn == Spec => InTurn
<1>1. TypeOK /\ [Next]_vars => [Turn]_vars
  <2> SUFFICES ASSUME TypeOK, Next PROVE Turn
    OBVIOUS
  <2>1. queue \in [Priority -> Seq(Pid)] /\ prio \in [Pid -> Priority] /\ Extends(queue, queue)
    BY DEF TypeOK, Extends
  <2>2. ASSUME queue' \in [Priority -> Seq(Pid)], Extends(queue, queue') PROVE Turn
    <3> SUFFICES ASSUME NEW c \in Priority, NEW i \in 1 .. Len(queue[c])
                 PROVE  i <= Len(queue'[c]) /\ queue'[c][i] = queue[c][i]
      BY DEF Turn
    <3>1. Len(queue[c]) <= Len(queue'[c]) /\ Len(queue'[c]) \in Nat /\ Len(queue[c]) \in Nat
      BY <2>1, <2>2 DEF Extends
    <3> QED
      BY <2>2, <3>1 DEF Extends
  <2>3. CASE queue' = queue
    BY <2>1, <2>2, <2>3
  <2>4. ASSUME NEW p \in Pid, NEW c \in Priority, queue' = Enqueue(queue, p, c) PROVE Turn
    BY <2>1, <2>2, <2>4, EnqueueExtends
  <2>5. CASE Preempt
    <3> DEFINE q == Requeue(AfterWake, queue)
    <3>1. Reschedule(AfterWake, AfterTick, q) \/ queue' = q
      BY <2>5 DEF Preempt
    <3>2. q \in [Priority -> Seq(Pid)] /\ Extends(queue, q)
      BY <2>1, RequeueExtends
    <3> HIDE DEF q
    <3> QED
      BY <2>2, <3>1, <3>2, RescheduleInTurn
  <2>6. CASE YieldNow
    BY <2>1, <2>6, RescheduleInTurn DEF YieldNow
  <2>7. CASE SchedulerInit
    BY <2>4, <2>7, SchedulerAssumption DEF SchedulerInit, Pid, IdlePid, Priority, IdlePriority
  <2>8. ASSUME NEW c \in SpawnPriority, Spawn(c) PROVE Turn
    <3>1. lastPid + 1 \in Pid /\ c \in Priority
      BY <2>8, SchedulerAssumption DEF Spawn, TypeOK, Pid
    <3> QED
      BY <2>4, <2>8, <3>1 DEF Spawn
  <2>9. ASSUME NEW p \in Pid, Unblock(p) PROVE Turn
    BY <2>1, <2>4, <2>9 DEF Unblock
  <2>10. CASE \/ RegisterCurrentAsTask
              \/ \E n \in 1 .. MaxSleep : Sleep(n)
              \/ BlockCurrent
              \/ ExitCurrent
              \/ \E p \in Killable : Kill(p)
    BY <2>3, <2>10 DEF RegisterCurrentAsTask, Sleep, BlockCurrent, ExitCurrent, Kill, ExitProcess
  <2> QED
    BY <2>5, <2>6, <2>7, <2>8, <2>9, <2>10 DEF Next
<1> QED
  BY <1>1, TypeCorrect, PTL DEF Spec, InTurn

\* The CPU is given in the order of the queues and, within one, of its entries.
THEOREM DispatchesAreOrdered == Spec => DispatchOrder
BY PriorityIsStrict, WaitsInTurn DEF DispatchOrder

-----------------------------------------------------------------------------
(***************************************************************************)
(* Tasks that compute, yield and exit: no process waits without yielding   *)
(* and none is killed.                                                     *)
(***************************************************************************)
Plain == Waiters = {} /\ Killable = {}

\* What is queued may be dispatched, what may be dispatched has its whole
\* quantum, and the current process is Running (not asleep or blocked while it
\* still executes).
PlainInv ==
  /\ \A c \in Priority : \A p \in Pid :
       Holds(queue[c], p) => state[p] \in {"New", "Ready"}
  /\ \A p \in Pid : state[p] \in {"New", "Ready"} => quantum[p] = Quantum[prio[p]]
  /\ \A p \in Pid : state[p] \notin {"Sleeping", "Blocked"}
  /\ current # NoPid => state[current] = "Running"

\* The step switches the CPU, if at all, to a process that waits with its whole
\* quantum and a saved context.
SwitchOK ==
  current' # current /\ current' # NoPid =>
    /\ quantum'[current'] = Quantum[prio'[current']]
    /\ resumable[current']

\* An entry of a queue after enqueue was there before or is the one put in.
LEMMA EnqueueHolds ==
  ASSUME NEW q \in [Priority -> Seq(Pid)], NEW p \in Pid, NEW c \in Priority,
         NEW d \in Priority, NEW r \in Pid, Holds(Enqueue(q, p, c)[d], r)
  PROVE  Holds(q[d], r) \/ r = p
<1>1. CASE Holds(q[c], p)
  BY <1>1 DEF Enqueue
<1>2. CASE ~ Holds(q[c], p)
  <2>1. Enqueue(q, p, c) = [q EXCEPT ![c] = Append(@, p)]
    BY <1>2 DEF Enqueue
  <2>2. CASE d = c
    <3>1. Holds(Append(q[c], p), r)
      BY <2>1, <2>2
    <3> QED
      BY <2>2, <3>1, HoldsAppend
  <2>3. CASE d # c
    BY <2>1, <2>3
  <2> QED
    BY <2>2, <2>3
<1> QED
  BY <1>1, <1>2

\* The wake-up pass queues nothing but Ready processes.
LEMMA RequeueHolds ==
  ASSUME NEW st, NEW q \in [Priority -> Seq(Pid)],
         NEW c \in Priority, NEW p \in Pid, Holds(Requeue(st, q)[c], p)
  PROVE  Holds(q[c], p) \/ st[p] = "Ready"
<1> DEFINE late == {r \in Pid : st[r] = "Ready" /\ prio[r] = c /\ ~ Holds(q[c], r)}
           t == InPidOrder(late)
<1>1. Requeue(st, q)[c] = q[c] \o t
  BY DEF Requeue
<1>2. late \in SUBSET Pid /\ \A r \in late : st[r] = "Ready"
  OBVIOUS
<1> HIDE DEF late
<1>3. t \in Seq(Pid) /\ \A r \in Pid : Holds(t, r) <=> r \in late
  BY <1>2, InPidOrderEnumerates
<1> HIDE DEF t
<1>4. q[c] \in Seq(Pid) /\ Holds(q[c] \o t, p)
  BY <1>1
<1>5. Holds(q[c], p) \/ Holds(t, p)
  BY <1>3, <1>4, HoldsConcat
<1> QED
  BY <1>2, <1>3, <1>5

\* What dequeue takes out of a queue without repetitions is not left in it.
LEMMA HeadOnce ==
  ASSUME NEW s \in Seq(Pid), s # << >>, NoRepeat(s)
  PROVE  ~ Holds(Tail(s), Head(s))
<1> DEFINE t == Tail(s)
<1>1. /\ Head(s) = s[1]
      /\ Len(t) = Len(s) - 1 /\ Len(s) \in Nat \ {0}
      /\ \A i \in 1 .. Len(t) : t[i] = s[i + 1]
  BY HeadTailProperties, EmptySeq, LenProperties
<1> HIDE DEF t
<1>2. ASSUME NEW i \in 1 .. Len(t), t[i] = Head(s)
      PROVE  FALSE
  <2>1. i + 1 \in 1 .. Len(s) /\ 1 \in 1 .. Len(s) /\ s[i + 1] = s[1] /\ i + 1 # 1
    BY <1>1, <1>2
  <2> QED
    BY <2>1 DEF NoRepeat
<1>3. ~ Holds(t, Head(s))
  BY <1>2 DEF Holds
<1> QED
  BY <1>3 DEF t

\* schedule() among such tasks: what it leaves queued, whom it switches to, and
\* that in the eyes of CpuLifecycle it dispatches one process or none.
LEMMA PlainReschedule ==
  ASSUME IInv, PlainInv,
         NEW qn \in [Pid -> Nat],
         \A p \in Pid : p # current => qn[p] = quantum[p],
         NEW q, QueueOK(state, prio, q),
         \A c \in Priority : \A p \in Pid :
           Holds(q[c], p) => state[p] \in {"New", "Ready"},
         Reschedule(state, qn, q),
         prio' = prio
  PROVE  /\ PlainInv'
         /\ SwitchOK
         /\ state' = state \/ \E p \in Pid : Lifecycle!Dispatch(p)
<1> USE SchedulerAssumption
<1> DEFINE requeue == current # NoPid /\ Preemptible(state[current])
           st1 == IF requeue THEN [state EXCEPT ![current] = "Ready"] ELSE state
           q1  == IF requeue THEN Enqueue(q, current, prio[current]) ELSE q
           top == Top(q1)
           next == Head(q1[top])
<1>1. /\ state \in [Pid -> States] /\ prio \in [Pid -> Priority]
      /\ quantum \in [Pid -> Nat] /\ current \in Pid \cup {NoPid}
      /\ NoPid \notin Pid
      /\ CpuOwner /\ LiveContextSaved
  BY DEF IInv, TypeOK, NoPid, Pid
<1>2. requeue <=> current # NoPid
  BY DEF PlainInv, Preemptible
<1>3. \A p \in Pid : st1[p] = IF p = current THEN "Ready" ELSE state[p]
  BY <1>1, <1>2 DEF States
<1>4. st1 \in [Pid -> States] /\ \A p \in Pid : st1[p] \in {"None", "New", "Ready", "Dead"}
  <2>1. st1 \in [Pid -> States]
    BY <1>1 DEF States
  <2>2. \A p \in Pid : p # current => state[p] \in {"None", "New", "Ready", "Dead"}
    BY <1>1 DEF States, CpuOwner, PlainInv
  <2> HIDE DEF st1
  <2> QED
    BY <1>3, <2>1, <2>2
<1>5. quantum' = IF requeue THEN [qn EXCEPT ![current] = Quantum[prio[current]]] ELSE qn
  BY DEF Reschedule, ResetQuantum
<1>6. \A p \in Pid : st1[p] \in {"New", "Ready"} => quantum'[p] = Quantum[prio[p]]
  <2>1. \A p \in Pid : quantum'[p] = IF p = current THEN Quantum[prio[p]] ELSE quantum[p]
    BY <1>1, <1>2, <1>5
  <2> HIDE DEF st1, requeue
  <2> QED
    BY <1>3, <2>1 DEF PlainInv
<1>7. QueueOK(state, prio, q1) /\ (requeue => Holds(q1[prio[current]], current))
  <2>1. CASE requeue
    <3>1. current \in Pid /\ prio[current] \in Priority /\ state[current] # "None"
      BY <1>1, <2>1 DEF Preemptible
    <3> QED
      BY <1>1, <2>1, <3>1, EnqueueOK
  <2>2. CASE ~ requeue
    BY <2>2
  <2> QED
    BY <2>1, <2>2
<1>8. \A c \in Priority : \A p \in Pid : Holds(q1[c], p) => st1[p] \in {"New", "Ready"}
  <2>1. ASSUME NEW c \in Priority, NEW p \in Pid, Holds(q1[c], p)
        PROVE  Holds(q[c], p) \/ p = current
    <3>1. CASE requeue
      <4>1. current \in Pid /\ prio[current] \in Priority /\ q \in [Priority -> Seq(Pid)]
        BY <1>1, <3>1 DEF QueueOK
      <4>2. Holds(Enqueue(q, current, prio[current])[c], p)
        BY <2>1, <3>1
      <4> QED
        BY <4>1, <4>2, EnqueueHolds
    <3>2. CASE ~ requeue
      BY <2>1, <3>2
    <3> QED
      BY <3>1, <3>2
  <2> HIDE DEF st1, q1
  <2> QED
    BY <1>3, <2>1
<1>9. CASE Empty(q1)
  <2>1. ~ requeue
    <3>1. ASSUME requeue
          PROVE  FALSE
      <4>1. prio[current] \in Priority
        BY <1>1, <1>2, <3>1
      <4>2. q1[prio[current]] = << >>
        BY <1>9, <4>1 DEF Empty
      <4> QED
        BY <1>7, <3>1, <4>2 DEF Holds
    <3> QED
      BY <3>1
  <2>2. state' = state /\ queue' = q /\ quantum' = qn /\ current' = current
    BY <1>9, <2>1 DEF Reschedule
  <2>3. current = NoPid
    BY <1>2, <2>1
  <2>4. \A p \in Pid : qn[p] = quantum[p]
    BY <1>1, <2>3
  <2> QED
    BY <2>2, <2>3, <2>4 DEF PlainInv, SwitchOK
<1>10. CASE ~ Empty(q1)
  <2>1. /\ state' = [st1 EXCEPT ![next] = "Running"]
        /\ queue' = [q1 EXCEPT ![top] = Tail(@)]
        /\ current' = next
    BY <1>10 DEF Reschedule
  <2> HIDE DEF st1, q1, requeue
  <2>2. /\ top \in Priority /\ q1[top] \in Seq(Pid) /\ q1[top] # << >>
        /\ q1 \in [Priority -> Seq(Pid)] /\ NoRepeat(q1[top])
    BY <1>7, <1>10, TopIsFirst DEF QueueOK
  <2> HIDE DEF top
  <2>3. /\ next \in Pid /\ Holds(q1[top], next)
        /\ \A p \in Pid : Holds(Tail(q1[top]), p) => Holds(q1[top], p) /\ p # next
    BY <2>2, HoldsTail, HeadOnce
  <2>4. prio[next] = top /\ st1[next] \in {"New", "Ready"}
    BY <1>7, <1>8, <2>2, <2>3 DEF QueueOK
  <2> HIDE DEF next
  <2>5. \A c \in Priority : \A p \in Pid :
          Holds(queue'[c], p) => Holds(q1[c], p) /\ p # next
    <3> SUFFICES ASSUME NEW c \in Priority, NEW p \in Pid, Holds(queue'[c], p)
                 PROVE  Holds(q1[c], p) /\ p # next
      OBVIOUS
    <3>1. CASE c = top
      BY <2>1, <2>2, <2>3, <3>1
    <3>2. CASE c # top
      <4>1. Holds(q1[c], p)
        BY <2>1, <2>2, <3>2
      <4>2. prio[p] = c
        BY <1>7, <4>1 DEF QueueOK
      <4> QED
        BY <2>4, <3>2, <4>1, <4>2
    <3> QED
      BY <3>1, <3>2
  <2>6. \A p \in Pid : state'[p] = IF p = next THEN "Running" ELSE st1[p]
    BY <1>4, <2>1, <2>3 DEF States
  <2>7. PlainInv'
    <3>1. \A c \in Priority : \A p \in Pid :
            Holds(queue'[c], p) => state'[p] \in {"New", "Ready"}
      BY <1>8, <2>5, <2>6
    <3>2. \A p \in Pid : state'[p] \in {"New", "Ready"} => quantum'[p] = Quantum[prio'[p]]
      BY <1>6, <2>6
    <3>3. \A p \in Pid : state'[p] \notin {"Sleeping", "Blocked"}
      BY <1>4, <2>6
    <3>4. state'[current'] = "Running"
      BY <2>1, <2>3, <2>6
    <3> QED
      BY <3>1, <3>2, <3>3, <3>4 DEF PlainInv
  <2>8. next # current => state[next] \in {"New", "Ready"}
    BY <1>3, <2>3, <2>4
  <2>9. SwitchOK
    <3> SUFFICES ASSUME next # current
                 PROVE  quantum'[next] = Quantum[prio'[next]] /\ resumable[next]
      BY <2>1, <2>3 DEF SwitchOK
    <3>1. quantum'[next] = Quantum[prio'[next]]
      BY <1>6, <2>3, <2>4
    <3>2. next # cpu
      BY <1>1, <2>8 DEF CpuOwner
    <3>3. state[next] \notin {"None", "Dead"}
      BY <2>8
    <3>4. resumable[next]
      BY <1>1, <2>3, <3>2, <3>3 DEF LiveContextSaved
    <3> QED
      BY <3>1, <3>4
  <2>10. CASE next = current
    <3>1. state[current] = "Running"
      BY <1>1, <2>3, <2>10 DEF PlainInv
    <3>2. \A p \in Pid : state'[p] = state[p]
      BY <1>3, <2>6, <2>10, <3>1
    <3>3. state' \in [Pid -> States]
      BY <1>4, <2>1 DEF States
    <3>4. state' = state
      BY <1>1, <3>2, <3>3
    <3> QED
      BY <2>7, <2>9, <3>4
  <2>11. CASE next # current
    <3>1. \A p \in Pid : p \in Lifecycle!Running <=> p = current
      BY <1>1 DEF Lifecycle!Running, CpuOwner, PlainInv
    <3>2. \A p \in Pid : state'[p] = CASE p = next -> "Running"
                                       [] p \in Lifecycle!Running /\ p # next -> "Ready"
                                       [] OTHER -> state[p]
      BY <1>3, <2>6, <3>1
    <3>3. state' \in [Pid -> States]
      BY <1>4, <2>1 DEF States
    <3>4. state' = [p \in Pid |-> CASE p = next -> "Running"
                                    [] p \in Lifecycle!Running /\ p # next -> "Ready"
                                    [] OTHER -> state[p]]
      BY <3>2, <3>3
    <3>5. Lifecycle!Dispatch(next)
      BY <2>8, <2>11, <3>4 DEF Lifecycle!Dispatch
    <3> QED
      BY <2>3, <2>7, <2>9, <3>5
  <2> QED
    BY <2>10, <2>11
<1> QED
  BY <1>9, <1>10

\* Every step of such tasks keeps PlainInv, switches as it should, and is a step
\* of the life of one process or of none.
LEMMA PlainStep ==
  ASSUME Plain, IInv, PlainInv, [Next]_vars
  PROVE  /\ PlainInv'
         /\ boot' = boot => SwitchOK
         /\ current' # NoPid /\ current' # current
              => quantum'[current'] = Quantum[prio'[current']]
         /\ [Lifecycle!Next]_state
<1> USE SchedulerAssumption
<1>1. /\ state \in [Pid -> States] /\ prio \in [Pid -> Priority]
      /\ quantum \in [Pid -> Nat] /\ current \in Pid \cup {NoPid}
      /\ queue \in [Priority -> Seq(Pid)] /\ lastPid \in 0 .. MaxPid
      /\ NoPid \notin Pid
      /\ QueueOK(state, prio, queue) /\ CpuOwner /\ BootStages
  BY DEF IInv, TypeOK, NoPid, Pid
<1>2. \A p \in Pid : p \in Lifecycle!Running <=> p = current
  BY <1>1 DEF Lifecycle!Running, CpuOwner, PlainInv
\* A new process p, queued or not.
<1>3. ASSUME NEW p \in Pid, NEW s \in {"New", "Ready"}, NEW c \in Priority,
             state[p] = "None",
             state' = [state EXCEPT ![p] = s],
             prio' = [prio EXCEPT ![p] = c],
             quantum' = [quantum EXCEPT ![p] = Quantum[c]],
             queue' = Enqueue(queue, p, c),
             current' = current
      PROVE  PlainInv' /\ SwitchOK /\ Lifecycle!Create(p)
  <2>1. \A r \in Pid : state'[r] = IF r = p THEN s ELSE state[r]
    BY <1>1, <1>3
  <2>2. \A d \in Priority : \A r \in Pid : Holds(queue'[d], r) => state'[r] \in {"New", "Ready"}
    <3> SUFFICES ASSUME NEW d \in Priority, NEW r \in Pid, Holds(queue'[d], r)
                 PROVE  state'[r] \in {"New", "Ready"}
      OBVIOUS
    <3>1. Holds(queue[d], r) \/ r = p
      BY <1>1, <1>3, EnqueueHolds
    <3> QED
      BY <2>1, <3>1 DEF PlainInv
  <2>3. \A r \in Pid : state'[r] \in {"New", "Ready"} => quantum'[r] = Quantum[prio'[r]]
    BY <1>1, <1>3, <2>1 DEF PlainInv
  <2>4. /\ \A r \in Pid : state'[r] \notin {"Sleeping", "Blocked"}
        /\ current' # NoPid => state'[current'] = "Running"
    BY <1>1, <1>3, <2>1 DEF PlainInv
  <2>5. PlainInv'
    BY <2>2, <2>3, <2>4 DEF PlainInv
  <2>6. Lifecycle!Create(p)
    BY <1>3 DEF Lifecycle!Create
  <2> QED
    BY <1>3, <2>5, <2>6 DEF SwitchOK
<1>4. CASE SchedulerInit
  <2>1. IdlePid \in Pid /\ IdlePriority \in Priority /\ state[IdlePid] = "None"
    BY <1>1, <1>4 DEF SchedulerInit, BootStages, IdlePid, IdlePriority, Pid, Priority
  <2>2. PlainInv' /\ SwitchOK /\ Lifecycle!Create(IdlePid)
    BY <1>3, <1>4, <2>1 DEF SchedulerInit
  <2> QED
    BY <1>4, <2>1, <2>2 DEF SchedulerInit, Lifecycle!Next
<1>5. ASSUME NEW c \in SpawnPriority, Spawn(c)
      PROVE  PlainInv' /\ SwitchOK /\ Lifecycle!Next
  <2> DEFINE p == lastPid + 1
  <2>1. p \in Pid /\ c \in Priority /\ state[p] = "None"
    BY <1>1, <1>5 DEF Spawn, BootStages, Pid
  <2>2. PlainInv' /\ SwitchOK /\ Lifecycle!Create(p)
    BY <1>3, <1>5, <2>1 DEF Spawn
  <2> QED
    BY <2>1, <2>2 DEF Lifecycle!Next
<1>6. CASE RegisterCurrentAsTask
  <2>1. /\ boot = "idle_only" /\ cpu = MainPid /\ boot' = "up"
        /\ state' = [state EXCEPT ![MainPid] = "Running"]
        /\ prio' = [prio EXCEPT ![MainPid] = NormalPriority]
        /\ quantum' = [quantum EXCEPT ![MainPid] = Quantum[NormalPriority]]
        /\ current' = MainPid /\ queue' = queue
    BY <1>6 DEF RegisterCurrentAsTask
  <2>2. MainPid \in Pid /\ NormalPriority \in Priority /\ state[MainPid] = "None"
    BY <1>1, <2>1 DEF BootStages, MainPid, IdlePid, NormalPriority, Pid, Priority
  <2>3. current = NoPid
    BY <1>1, <2>1, <2>2 DEF CpuOwner, PlainInv
  <2>4. \A r \in Pid : state'[r] = IF r = MainPid THEN "Running" ELSE state[r]
    BY <1>1, <2>1, <2>2
  <2>5. PlainInv'
    <3>1. \A d \in Priority : \A r \in Pid :
            Holds(queue'[d], r) => state'[r] \in {"New", "Ready"}
      BY <2>1, <2>2, <2>4 DEF PlainInv
    <3>2. \A r \in Pid : state'[r] \in {"New", "Ready"} => quantum'[r] = Quantum[prio'[r]]
      BY <1>1, <2>1, <2>2, <2>4 DEF PlainInv
    <3> QED
      BY <2>1, <2>2, <2>4, <3>1, <3>2 DEF PlainInv
  <2>6. Lifecycle!Running = {}
    BY <1>1, <1>2, <2>3 DEF Lifecycle!Running
  <2>7. Lifecycle!Create(MainPid)
    BY <2>1, <2>2, <2>6 DEF Lifecycle!Create
  <2>8. quantum'[current'] = Quantum[prio'[current']]
    BY <1>1, <2>1, <2>2
  <2> QED
    BY <2>1, <2>2, <2>5, <2>7, <2>8 DEF Lifecycle!Next
<1>7. CASE Preempt
  <2> DEFINE qn == AfterTick
             q == Requeue(state, queue)
             expired == current # NoPid => qn[current] = 0
  <2>1. AfterWake = state
    <3>1. \A p \in Pid : ~ Woken(p)
      BY DEF PlainInv, Woken
    <3>2. \A p \in Pid : AfterWake[p] = state[p]
      BY <3>1 DEF AfterWake
    <3> QED
      BY <1>1, <3>2 DEF AfterWake
  <2>2. /\ qn \in [Pid -> Nat]
        /\ \A p \in Pid : p # current => qn[p] = quantum[p]
    <3>1. CASE current = NoPid
      BY <1>1, <3>1 DEF AfterTick
    <3>2. CASE current # NoPid
      <4>1. qn = [quantum EXCEPT ![current] = IF @ > 0 THEN @ - 1 ELSE 0]
        BY <3>2 DEF AfterTick
      <4>2. current \in Pid
        BY <1>1, <3>2
      <4> QED
        BY <1>1, <4>1, <4>2
    <3> QED
      BY <3>1, <3>2
  <2>3. QueueOK(state, prio, q)
    <3>1. /\ \A c \in Priority : NoRepeat(queue[c])
          /\ \A c \in Priority : \A p \in Pid :
               Holds(queue[c], p) => prio[p] = c /\ state[p] # "None"
      BY <1>1 DEF QueueOK
    <3> QED
      BY <1>1, <3>1, RequeueOK
  <2>4. \A c \in Priority : \A p \in Pid : Holds(q[c], p) => state[p] \in {"New", "Ready"}
    <3> SUFFICES ASSUME NEW c \in Priority, NEW p \in Pid, Holds(q[c], p)
                 PROVE  state[p] \in {"New", "Ready"}
      OBVIOUS
    <3>1. Holds(queue[c], p) \/ state[p] = "Ready"
      BY <1>1, RequeueHolds
    <3> QED
      BY <3>1 DEF PlainInv
  <2>5. /\ \/ expired /\ Reschedule(state, qn, q)
           \/ /\ ~ expired
              /\ state' = state /\ quantum' = qn /\ queue' = q
              /\ UNCHANGED << current, cpu, resumable >>
        /\ prio' = prio
    BY <1>7, <2>1 DEF Preempt
  <2> HIDE DEF q, qn, expired
  <2>6. CASE Reschedule(state, qn, q)
    <3>1. PlainInv' /\ SwitchOK /\ (state' = state \/ \E p \in Pid : Lifecycle!Dispatch(p))
      BY <2>2, <2>3, <2>4, <2>5, <2>6, PlainReschedule
    <3> QED
      BY <3>1 DEF SwitchOK, Lifecycle!Next
  <2>7. CASE state' = state /\ quantum' = qn /\ queue' = q /\ current' = current
    <3>1. \A p \in Pid : state[p] \in {"New", "Ready"} => p # current
      BY <1>1 DEF PlainInv
    <3>2. PlainInv'
      BY <2>2, <2>4, <2>5, <2>7, <3>1 DEF PlainInv
    <3> QED
      BY <2>7, <3>2 DEF SwitchOK
  <2> QED
    BY <2>5, <2>6, <2>7
<1>8. CASE YieldNow
  <2>1. Reschedule(state, quantum, queue) /\ prio' = prio
    BY <1>8 DEF YieldNow
  <2>2. \A c \in Priority : \A p \in Pid : Holds(queue[c], p) => state[p] \in {"New", "Ready"}
    BY DEF PlainInv
  <2>3. PlainInv' /\ SwitchOK /\ (state' = state \/ \E p \in Pid : Lifecycle!Dispatch(p))
    BY <1>1, <2>1, <2>2, PlainReschedule
  <2> QED
    BY <2>3 DEF SwitchOK, Lifecycle!Next
<1>9. CASE ExitCurrent
  <2>1. /\ current \in Pid /\ state' = [state EXCEPT ![current] = "Dead"]
        /\ current' = NoPid
        /\ UNCHANGED << prio, quantum, queue >>
    BY <1>1, <1>9 DEF ExitCurrent, ExitProcess, Executing, IInv, TypeOK
  <2>2. state[current] = "Running"
    BY <1>1, <2>1 DEF PlainInv
  <2>3. \A r \in Pid : state'[r] = IF r = current THEN "Dead" ELSE state[r]
    BY <1>1, <2>1
  <2>4. PlainInv'
    <3>1. \A d \in Priority : \A r \in Pid :
            Holds(queue'[d], r) => state'[r] \in {"New", "Ready"}
      BY <2>1, <2>2, <2>3 DEF PlainInv
    <3> QED
      BY <2>1, <2>3, <3>1 DEF PlainInv
  <2>5. Lifecycle!End(current)
    BY <1>2, <2>1 DEF Lifecycle!End
  <2>6. SwitchOK
    BY <2>1 DEF SwitchOK
  <2> QED
    BY <2>1, <2>4, <2>5, <2>6 DEF Lifecycle!Next
<1>10. CASE UNCHANGED vars
  BY <1>10 DEF vars, PlainInv, SwitchOK
<1>11. CASE \/ \E n \in 1 .. MaxSleep : Sleep(n)
            \/ BlockCurrent
            \/ \E p \in Pid : Unblock(p)
            \/ \E p \in Killable : Kill(p)
  BY <1>11 DEF Plain, Sleep, BlockCurrent, Unblock, PlainInv
<1> QED
  BY <1>4, <1>5, <1>6, <1>7, <1>8, <1>9, <1>10, <1>11 DEF Next, SwitchOK

\* Init is the initial state of CpuLifecycle, and no process is queued.
LEMMA PlainInit ==
  ASSUME Init
  PROVE  PlainInv /\ Lifecycle!Init
<1>1. /\ \A c \in Priority : Len(queue[c]) = 0
      /\ \A p \in Pid : state[p] = "None"
      /\ current = NoPid
  BY DEF Init
<1>2. PlainInv
  BY <1>1 DEF PlainInv, Holds
<1>3. Lifecycle!Init
  BY DEF Init, Lifecycle!Init
<1> QED
  BY <1>2, <1>3

\* The invariants hold together in every reachable state of such tasks.
THEOREM PlainInvariant == Plain => (Spec => [](IInv /\ PlainInv))
<1> SUFFICES ASSUME Plain PROVE Spec => [](IInv /\ PlainInv)
  OBVIOUS
<1>1. Init => IInv /\ PlainInv
  BY InitIInv, PlainInit
<1>2. IInv /\ PlainInv /\ [Next]_vars => (IInv /\ PlainInv)'
  BY NextIInv, PlainStep
<1> QED
  BY <1>1, <1>2, PTL DEF Spec

\* While no process waits without yielding and none is killed, the queues hold
\* only processes that may be dispatched: none that executes, none that ended.
THEOREM QueuedAreRunnable == Plain => (Spec => []OnlyRunnableQueued)
<1> SUFFICES ASSUME Plain PROVE Spec => []OnlyRunnableQueued
  OBVIOUS
<1>1. IInv /\ PlainInv => OnlyRunnableQueued
  <2> SUFFICES ASSUME IInv, PlainInv, NEW p \in Pid, Queued(queue, p)
               PROVE  state[p] \in {"Ready", "New"} /\ p # cpu
    BY DEF OnlyRunnableQueued
  <2>1. prio[p] \in Priority /\ CpuOwner
    BY DEF IInv, TypeOK
  <2>2. state[p] \in {"Ready", "New"}
    BY <2>1 DEF PlainInv, Queued
  <2> QED
    BY <2>1, <2>2 DEF CpuOwner, PlainInv
<1> QED
  BY <1>1, PlainInvariant, PTL

\* While no process waits without yielding and none is killed, whoever is given
\* the CPU starts with the whole quantum of its priority.
THEOREM QuantumIsFull == Plain => (Spec => FullQuantum)
<1> SUFFICES ASSUME Plain PROVE Spec => FullQuantum
  OBVIOUS
<1>1. IInv /\ PlainInv /\ [Next]_vars
      => [current' # current /\ current' # NoPid
          => quantum'[current'] = Quantum[prio'[current']]]_vars
  BY PlainStep
<1> QED
  BY <1>1, PlainInvariant, PTL DEF Spec, FullQuantum

\* While no process waits without yielding and none is killed, the stack the CPU
\* switches to is one that was saved and not used since.
THEOREM ResumesSaved == Plain => (Spec => NoStaleResume)
<1> SUFFICES ASSUME Plain PROVE Spec => NoStaleResume
  OBVIOUS
<1>1. IInv /\ PlainInv /\ [Next]_vars
      => [current' # current /\ current' # NoPid /\ boot' = boot
          => resumable[current']]_vars
  BY PlainStep DEF SwitchOK
<1> QED
  BY <1>1, PlainInvariant, PTL DEF Spec, NoStaleResume

\* While no process waits without yielding and none is killed, every behaviour of
\* the scheduler, seen through PCB.state alone, is a behaviour of CpuLifecycle.
THEOREM LifecycleImplemented == Plain => (Spec => ImplementsLifecycle)
<1> SUFFICES ASSUME Plain PROVE Spec => ImplementsLifecycle
  OBVIOUS
<1>1. Init => Lifecycle!Init
  BY PlainInit
<1>2. IInv /\ PlainInv /\ [Next]_vars => [Lifecycle!Next]_state
  BY PlainStep
<1> QED
  BY <1>1, <1>2, PlainInvariant, PTL DEF Spec, ImplementsLifecycle, Lifecycle!Spec

\* While no process waits without yielding and none is killed, whoever is given
\* the CPU goes on where it stopped, with a whole quantum.
THEOREM DispatchesAreSound == Plain => (Spec => DispatchSound)
BY QuantumIsFull, ResumesSaved, PTL DEF DispatchSound
=============================================================================
