---------------------------- MODULE SequenceFacts ----------------------------
(* What the other proof modules need of numbers and sequences: least and      *)
(* greatest members, functions defined by iterating a step, what Sift        *)
(* returns, positions in a ring, and what is counted.                        *)
(*                                                                           *)
(* The library's induction theorems take an operator as a parameter, which   *)
(* cannot be instantiated here.  Its theorem that the order of the naturals  *)
(* is well-founded does not: a claim about every number is proved by showing *)
(* that the set of its counterexamples has no least member.                  *)
EXTENDS Integers, Sifting, SequenceTheorems, FiniteSetTheorems, WellFoundedInduction, TLAPS

Less == {ss \in Nat \X Nat : ss[1] < ss[2]}

-----------------------------------------------------------------------------
(***************************************************************************)
(* Numbers.                                                                *)
(***************************************************************************)
LEMMA LessWellFounded == IsWellFoundedOn(Less, Nat)
BY NatLessThanWellFounded DEF OpToRel, Less

LEMMA LeastExists ==
  ASSUME NEW S, S \subseteq Nat, S # {}
  PROVE  \E x \in S : \A y \in S : x <= y
<1>1. PICK x \in S : \A y \in S : << y, x >> \notin Less
  BY LessWellFounded, WFMin
<1>2. \A a, b \in Nat : a < b => << a, b >> \in Less
  BY DEF Less
<1>3. ASSUME NEW y \in S, y < x PROVE FALSE
  <2>1. << y, x >> \in Less
    BY <1>2, <1>3
  <2> QED
    BY <1>1, <2>1, Zenon
<1> QED
  <2>1. S \subseteq Nat /\ x \in Nat
    OBVIOUS
  <2>2. \A y \in S : y \in Nat /\ ~ (y < x)
    BY <1>3, <2>1, Zenon
  <2>3. \A y \in Nat : ~ (y < x) => x <= y
    BY <2>1
  <2> QED
    BY <2>2, <2>3, Zenon

LEMMA GreatestExists ==
  ASSUME NEW n \in Nat, NEW S, S \subseteq 0 .. n, S # {}
  PROVE  \E x \in S : \A y \in S : y <= x
<1> DEFINE U == {k \in 0 .. n : \A y \in S : y <= k}
<1>1. n \in U
  OBVIOUS
<1>2. PICK m \in U : \A k \in U : m <= k
  <2>1. U \subseteq Nat
    OBVIOUS
  <2> HIDE DEF U
  <2> QED
    BY <1>1, <2>1, LeastExists
<1>3. m \in S
  <2> SUFFICES ASSUME m \notin S PROVE FALSE
    OBVIOUS
  <2>1. \A y \in S : y <= m /\ y # m /\ y \in Nat
    BY <1>2
  <2>2. m \in 0 .. n /\ m - 1 \in 0 .. n
    <3>1. PICK y \in S : TRUE
      OBVIOUS
    <3> QED
      BY <1>2, <2>1, <3>1
  <2>3. m - 1 \in U
    BY <2>1, <2>2
  <2> QED
    BY <1>2, <2>2, <2>3
<1> QED
  BY <1>2, <1>3

\* A set of the numbers up to n that holds 0, and each number after one it
\* holds, is all of them.
LEMMA InductUpTo ==
  ASSUME NEW n \in Nat, NEW Good, 0 \in Good,
         \A i \in 1 .. n : i - 1 \in Good => i \in Good
  PROVE  \A i \in 0 .. n : i \in Good
<1> DEFINE bad == {i \in 0 .. n : i \notin Good}
<1> SUFFICES ASSUME bad # {} PROVE FALSE
  OBVIOUS
<1>1. PICK m \in bad : \A k \in bad : m <= k
  <2>1. bad \subseteq Nat
    OBVIOUS
  <2> HIDE DEF bad
  <2> QED
    BY <2>1, LeastExists
<1>2. m \in 1 .. n /\ m - 1 \in 0 .. n /\ m - 1 \notin bad
  BY <1>1
<1> QED
  BY <1>1, <1>2

\* f begins with b and makes each of its values from the one before.
IsIterate(f, S, b, n, step) ==
  /\ f \in [0 .. n -> S]
  /\ f[0] = b
  /\ \A i \in 1 .. n : f[i] = step[<< i, f[i - 1] >>]

\* Such a function exists: a recursive definition on 0 .. n defines something.
LEMMA Iterates ==
  ASSUME NEW S, NEW b \in S, NEW n \in Nat, NEW step \in [(1 .. n) \X S -> S]
  PROVE  \E f : IsIterate(f, S, b, n, step)
<1> DEFINE bad == {k \in 0 .. n : ~ \E f : IsIterate(f, S, b, k, step)}
<1>1. bad = {}
  <2> SUFFICES ASSUME bad # {} PROVE FALSE
    OBVIOUS
  <2>1. PICK m \in bad : \A k \in bad : m <= k
    <3>1. bad \subseteq Nat
      OBVIOUS
    <3> HIDE DEF bad
    <3> QED
      BY <3>1, LeastExists
  <2>2. m \in 0 .. n /\ ~ \E f : IsIterate(f, S, b, m, step)
    BY <2>1
  <2>3. m # 0
    <3> SUFFICES ASSUME m = 0 PROVE FALSE
      OBVIOUS
    <3> DEFINE f == [i \in 0 .. 0 |-> b]
    <3>1. IsIterate(f, S, b, 0, step)
      BY DEF IsIterate
    <3> QED
      BY <2>2, <3>1
  <2>4. m - 1 \in 0 .. n /\ m - 1 \notin bad
    BY <2>1, <2>2, <2>3
  <2>5. PICK f : IsIterate(f, S, b, m - 1, step)
    BY <2>4
  <2> DEFINE g == [i \in 0 .. m |-> IF i = m THEN step[<< m, f[m - 1] >>] ELSE f[i]]
  <2>6. f[m - 1] \in S /\ step[<< m, f[m - 1] >>] \in S /\ f \in [0 .. m - 1 -> S]
    <3>1. m - 1 \in 0 .. m - 1 /\ m \in 1 .. n
      BY <2>2, <2>3
    <3>2. f \in [0 .. m - 1 -> S] /\ f[m - 1] \in S
      BY <2>5, <3>1 DEF IsIterate
    <3>3. << m, f[m - 1] >> \in (1 .. n) \X S
      BY <3>1, <3>2
    <3> QED
      BY <3>2, <3>3
  <2>7. g \in [0 .. m -> S]
    <3>1. ASSUME NEW i \in 0 .. m, i # m PROVE f[i] \in S
      <4>1. i \in 0 .. m - 1
        BY <2>2, <3>1
      <4> QED
        BY <2>6, <4>1
    <3> QED
      BY <2>6, <3>1
  <2>8. IsIterate(g, S, b, m, step)
    <3>1. g[0] = b
      BY <2>2, <2>3, <2>5 DEF IsIterate
    <3>2. ASSUME NEW i \in 1 .. m PROVE g[i] = step[<< i, g[i - 1] >>]
      <4>1. i \in 0 .. m /\ i - 1 \in 0 .. m /\ i - 1 # m
        BY <2>2, <3>2
      <4>2. g[i - 1] = f[i - 1]
        BY <4>1
      <4>3. CASE i = m
        BY <4>1, <4>2, <4>3
      <4>4. CASE i # m
        <5>1. i \in 1 .. m - 1
          BY <2>2, <3>2, <4>4
        <5> QED
          BY <2>5, <4>1, <4>2, <4>4, <5>1 DEF IsIterate
      <4> QED
        BY <4>3, <4>4
    <3> HIDE DEF g
    <3> QED
      BY <2>7, <3>1, <3>2 DEF IsIterate
  <2> QED
    BY <2>2, <2>8
<1>2. n \in 0 .. n
  OBVIOUS
<1> QED
  BY <1>1, <1>2

-----------------------------------------------------------------------------
(***************************************************************************)
(* Sift.                                                                   *)
(***************************************************************************)
\* kept: the elements of s among its first i that are in K.
SiftSteps(s, K, kept) ==
  /\ kept[0] = << >>
  /\ \A i \in 1 .. Len(s) :
       kept[i] = IF s[i] \in K THEN Append(kept[i - 1], s[i]) ELSE kept[i - 1]

\* The last of the steps, all of them sequences over T, is what Sift returns.
SiftedBy(kept, s, T, K) ==
  /\ SiftSteps(s, K, kept)
  /\ \A i \in 0 .. Len(s) : kept[i] \in Seq(T \cap K)
  /\ Sift(s, K) = kept[Len(s)]

LEMMA SiftUnfolds ==
  ASSUME NEW T, NEW K, NEW s \in Seq(T)
  PROVE  \E kept : SiftedBy(kept, s, T, K)
<1> DEFINE n == Len(s)
           S == Seq(T \cap K)
           step == [x \in (1 .. n) \X S |->
                      IF s[x[1]] \in K THEN Append(x[2], s[x[1]]) ELSE x[2]]
           Def(f) == f = [i \in 0 .. n |->
                            IF i = 0 THEN << >>
                            ELSE IF s[i] \in K THEN Append(f[i - 1], s[i])
                            ELSE f[i - 1]]
<1>1. n \in Nat /\ \A i \in 1 .. n : s[i] \in T
  BY ElementOfSeq, LenProperties
<1>2. << >> \in S
  BY EmptySeq
<1>3. step \in [(1 .. n) \X S -> S]
  <2> SUFFICES ASSUME NEW i \in 1 .. n, NEW t \in S
               PROVE  (IF s[i] \in K THEN Append(t, s[i]) ELSE t) \in S
    OBVIOUS
  <2> QED
    BY <1>1, AppendProperties
<1>4. PICK f : IsIterate(f, S, << >>, n, step)
  <2> HIDE DEF S, step, n
  <2> QED
    BY <1>1, <1>2, <1>3, Iterates
<1>5. ASSUME NEW i \in 1 .. n
      PROVE  f[i] = IF s[i] \in K THEN Append(f[i - 1], s[i]) ELSE f[i - 1]
  <2>1. i - 1 \in 0 .. n
    BY <1>1
  <2>2. f[i - 1] \in S
    BY <1>4, <2>1 DEF IsIterate
  <2>3. << i, f[i - 1] >> \in (1 .. n) \X S
    BY <2>2
  <2>4. f[i] = step[<< i, f[i - 1] >>]
    BY <1>4 DEF IsIterate
  <2> QED
    BY <2>3, <2>4
<1> HIDE DEF step, S
<1>6. Def(f)
  <2>1. ASSUME NEW i \in 0 .. n
        PROVE  f[i] = IF i = 0 THEN << >>
                      ELSE IF s[i] \in K THEN Append(f[i - 1], s[i])
                      ELSE f[i - 1]
    <3>1. CASE i = 0
      BY <1>4, <3>1 DEF IsIterate
    <3>2. CASE i # 0
      <4>1. i \in 1 .. n
        BY <1>1, <3>2
      <4> QED
        BY <1>5, <3>2, <4>1
    <3> QED
      BY <3>1, <3>2
  <2>2. f \in [0 .. n -> S]
    BY <1>4 DEF IsIterate
  <2> QED
    BY <2>1, <2>2
<1> DEFINE g == CHOOSE h : Def(h)
<1>7. Def(g)
  BY <1>6
<1>8. Sift(s, K) = g[n]
  BY DEF Sift
<1> HIDE DEF g
<1>9. /\ g[0] = << >>
      /\ \A i \in 1 .. n : g[i] = IF s[i] \in K THEN Append(g[i - 1], s[i]) ELSE g[i - 1]
  <2>1. g = [i \in 0 .. n |-> IF i = 0 THEN << >>
                              ELSE IF s[i] \in K THEN Append(g[i - 1], s[i])
                              ELSE g[i - 1]]
    BY <1>7
  <2>2. 0 \in 0 .. n /\ \A i \in 1 .. n : i \in 0 .. n /\ i # 0
    BY <1>1
  <2> HIDE DEF n
  <2>3. \A i \in 0 .. n : g[i] = IF i = 0 THEN << >>
                              ELSE IF s[i] \in K THEN Append(g[i - 1], s[i])
                              ELSE g[i - 1]
    BY <2>1, Zenon
  <2> QED
    BY <2>2, <2>3
<1> HIDE DEF Def
<1>10. \A i \in 0 .. n : g[i] \in S
  <2> DEFINE bad == {i \in 0 .. n : g[i] \notin S}
  <2> SUFFICES ASSUME bad # {} PROVE FALSE
    OBVIOUS
  <2>1. PICK m \in bad : \A k \in bad : m <= k
    <3>1. bad \subseteq Nat
      OBVIOUS
    <3> HIDE DEF bad
    <3> QED
      BY <3>1, LeastExists
  <2>2. m \in 1 .. n
    BY <1>2, <1>9, <2>1
  <2>3. m - 1 \in 0 .. n /\ m - 1 \notin bad
    BY <1>1, <2>1, <2>2
  <2>4. g[m - 1] \in S /\ s[m] \in T
    BY <1>1, <2>2, <2>3
  <2>5. s[m] \in K => Append(g[m - 1], s[m]) \in S
    BY <2>4, AppendProperties DEF S
  <2>6. g[m] \notin S
    BY <2>1
  <2> QED
    BY <1>9, <2>2, <2>4, <2>5, <2>6
<1>11. SiftSteps(s, K, g)
  BY <1>9 DEF SiftSteps
<1>12. SiftedBy(g, s, T, K)
  BY <1>8, <1>10, <1>11 DEF SiftedBy, S
<1> QED
  BY <1>12

\* Steps that begin alike are alike as far as they go.
LEMMA SiftUnique ==
  ASSUME NEW K, NEW s, NEW t, NEW f, NEW g, NEW n \in Nat,
         Len(s) \in Nat, Len(t) \in Nat, n <= Len(s), n <= Len(t),
         SiftSteps(s, K, f), SiftSteps(t, K, g),
         \A i \in 1 .. n : s[i] = t[i]
  PROVE  f[n] = g[n]
<1> DEFINE bad == {i \in 0 .. n : f[i] # g[i]}
<1> SUFFICES bad = {}
  OBVIOUS
<1> SUFFICES ASSUME bad # {} PROVE FALSE
  OBVIOUS
<1>1. PICK m \in bad : \A k \in bad : m <= k
  <2>1. bad \subseteq Nat
    OBVIOUS
  <2> HIDE DEF bad
  <2> QED
    BY <2>1, LeastExists
<1>2. m # 0
  BY <1>1 DEF SiftSteps
<1>3. m \in 1 .. n /\ m \in 1 .. Len(s) /\ m \in 1 .. Len(t)
  BY <1>1, <1>2
<1>4. m - 1 \in 0 .. n /\ m - 1 \notin bad
  BY <1>1, <1>3
<1>5. f[m - 1] = g[m - 1] /\ s[m] = t[m]
  BY <1>3, <1>4
<1> QED
  BY <1>1, <1>3, <1>5 DEF SiftSteps

LEMMA SiftType ==
  ASSUME NEW T, NEW K, NEW s \in Seq(T)
  PROVE  Sift(s, K) \in Seq(T \cap K) /\ Sift(s, K) \in Seq(T)
<1>1. PICK f : SiftedBy(f, s, T, K)
  BY SiftUnfolds
<1>2. Len(s) \in 0 .. Len(s)
  BY LenProperties
<1>3. Sift(s, K) \in Seq(T \cap K)
  BY <1>1, <1>2 DEF SiftedBy
<1>4. \A t : t \in Seq(T \cap K) => t \in Seq(T)
  OBVIOUS
<1> QED
  BY <1>3, <1>4

LEMMA SiftEmpty == \A K : Sift(<< >>, K) = << >>
<1> SUFFICES ASSUME NEW K PROVE Sift(<< >>, K) = << >>
  OBVIOUS
<1>1. << >> \in Seq({}) /\ Len(<< >>) = 0
  BY EmptySeq
<1>2. PICK f : SiftedBy(f, << >>, {}, K)
  BY <1>1, SiftUnfolds
<1> QED
  BY <1>1, <1>2 DEF SiftedBy, SiftSteps

\* An element put at the end is the last of what is kept, if it is kept.
LEMMA SiftAppend ==
  ASSUME NEW T, NEW K, NEW s \in Seq(T), NEW x \in T
  PROVE  Sift(Append(s, x), K) = IF x \in K THEN Append(Sift(s, K), x) ELSE Sift(s, K)
<1> DEFINE a == Append(s, x)  n == Len(s)
<1>1. /\ a \in Seq(T) /\ Len(a) = n + 1 /\ n \in Nat /\ a[n + 1] = x
      /\ \A i \in 1 .. n : a[i] = s[i]
  BY AppendProperties, LenProperties
<1> HIDE DEF a
<1>2. PICK f : SiftedBy(f, s, T, K)
  BY SiftUnfolds
<1>3. PICK g : SiftedBy(g, a, T, K)
  BY <1>1, SiftUnfolds
<1>4. f[n] = g[n]
  <2>1. n <= Len(s) /\ n <= Len(a) /\ Len(s) \in Nat /\ Len(a) \in Nat
    BY <1>1
  <2>2. SiftSteps(s, K, f) /\ SiftSteps(a, K, g)
    BY <1>2, <1>3 DEF SiftedBy
  <2> HIDE DEF n
  <2>3. n \in Nat /\ \A i \in 1 .. n : s[i] = a[i]
    BY <1>1
  <2> QED
    BY <2>1, <2>2, <2>3, SiftUnique
<1>5. g[n + 1] = IF x \in K THEN Append(g[n], x) ELSE g[n]
  <2>1. n + 1 \in 1 .. Len(a) /\ (n + 1) - 1 = n
    BY <1>1
  <2> QED
    BY <1>1, <1>3, <2>1 DEF SiftedBy, SiftSteps
<1>6. Sift(s, K) = f[n] /\ Sift(a, K) = g[n + 1]
  BY <1>1, <1>2, <1>3 DEF SiftedBy
<1> QED
  BY <1>4, <1>5, <1>6 DEF a

AppendsInside(a, b, x) == Append(a \o b, x) = a \o Append(b, x)

LEMMA AppendToConcat ==
  ASSUME NEW S, NEW a \in Seq(S), NEW b \in Seq(S), NEW x \in S
  PROVE  AppendsInside(a, b, x)
<1>1. << x >> \in Seq(S) /\ a \o b \in Seq(S)
  BY ConcatProperties
<1>2. Append(b, x) = b \o << x >> /\ Append(a \o b, x) = (a \o b) \o << x >>
  BY <1>1, AppendIsConcat
<1>3. (a \o b) \o << x >> = a \o (b \o << x >>)
  BY <1>1, ConcatAssociative
<1> QED
  BY <1>2, <1>3 DEF AppendsInside

GroupsRight(a, b, c) == (a \o b) \o c = a \o (b \o c)

LEMMA Grouped ==
  ASSUME NEW S, NEW a \in Seq(S), NEW b \in Seq(S), NEW c \in Seq(S)
  PROVE  GroupsRight(a, b, c)
BY ConcatAssociative DEF GroupsRight

JoinsInside(a, b, c, d) == (a \o b) \o (c \o d) = (a \o (b \o c)) \o d

LEMMA Regrouped ==
  ASSUME NEW S, NEW a \in Seq(S), NEW b \in Seq(S), NEW c \in Seq(S), NEW d \in Seq(S)
  PROVE  JoinsInside(a, b, c, d)
<1>1. a \o b \in Seq(S) /\ b \o c \in Seq(S)
  BY ConcatProperties
<1> DEFINE ab == a \o b
<1>2. ab \in Seq(S) /\ ab = a \o b
  BY <1>1
<1> HIDE DEF ab
<1>3. ab \o (c \o d) = (ab \o c) \o d
  <2>1. GroupsRight(ab, c, d)
    BY <1>2, Grouped
  <2> QED
    BY <2>1 DEF GroupsRight
<1>4. ab \o c = a \o (b \o c)
  <2>1. GroupsRight(a, b, c)
    BY Grouped
  <2> QED
    BY <1>2, <2>1 DEF GroupsRight
<1> QED
  BY <1>2, <1>3, <1>4, Zenon DEF JoinsInside

\* The first element is the first of what is kept, if it is kept.
LEMMA SiftHead ==
  ASSUME NEW T, NEW K, NEW s \in Seq(T), s # << >>
  PROVE  Sift(s, K) = (IF Head(s) \in K THEN << Head(s) >> ELSE << >>) \o Sift(Tail(s), K)
<1> DEFINE t == Tail(s)  n == Len(s)
           first == IF Head(s) \in K THEN << Head(s) >> ELSE << >>
<1>1. /\ t \in Seq(T) /\ Len(t) = n - 1 /\ n \in Nat \ {0} /\ Head(s) \in T
      /\ s[1] = Head(s) /\ \A i \in 1 .. n - 1 : t[i] = s[i + 1]
      /\ \A i \in 1 .. n - 1 : t[i] \in T
  BY HeadTailProperties, EmptySeq, LenProperties, ElementOfSeq
<1> HIDE DEF t
<1>2. first \in Seq(T \cap K)
  <2>1. Head(s) \in K => << Head(s) >> \in Seq(T \cap K)
    BY <1>1
  <2>2. << >> \in Seq(T \cap K)
    BY EmptySeq
  <2> QED
    BY <2>1, <2>2
<1>3. PICK f : SiftedBy(f, t, T, K)
  BY <1>1, SiftUnfolds
<1>4. PICK g : SiftedBy(g, s, T, K)
  BY SiftUnfolds
<1>5. /\ f[0] = << >> /\ g[0] = << >>
      /\ Sift(t, K) = f[n - 1] /\ Sift(s, K) = g[n]
      /\ \A i \in 0 .. n - 1 : f[i] \in Seq(T \cap K)
  BY <1>1, <1>3, <1>4 DEF SiftedBy, SiftSteps
<1>6. g[1] = first
  <2>1. 1 \in 1 .. Len(s) /\ 1 - 1 = 0
    BY <1>1
  <2>2. g[1] = IF s[1] \in K THEN Append(<< >>, s[1]) ELSE << >>
    BY <1>4, <1>5, <2>1 DEF SiftedBy, SiftSteps
  <2>3. Append(<< >>, s[1]) = << s[1] >>
    OBVIOUS
  <2> QED
    BY <1>1, <2>2, <2>3
<1> HIDE DEF first
<1> DEFINE bad == {i \in 0 .. n - 1 : g[i + 1] # first \o f[i]}
<1>7. bad = {}
  <2> SUFFICES ASSUME bad # {} PROVE FALSE
    OBVIOUS
  <2>1. PICK m \in bad : \A k \in bad : m <= k
    <3>1. bad \subseteq Nat
      OBVIOUS
    <3> HIDE DEF bad
    <3> QED
      BY <3>1, LeastExists
  <2>2. m # 0
    <3> SUFFICES ASSUME m = 0 PROVE FALSE
      OBVIOUS
    <3>1. first \o << >> = first
      BY <1>2, ConcatEmptySeq
    <3> QED
      BY <1>5, <1>6, <2>1, <3>1, 0 + 1 = 1
  <2>3. m \in 1 .. n - 1 /\ m \in 0 .. n - 1 /\ m - 1 \in 0 .. n - 1 /\ m \in Nat /\ (m - 1) + 1 = m
    BY <1>1, <2>1, <2>2
  <2>4. m - 1 \notin bad
    BY <2>1, <2>3
  <2>5. g[m] = first \o f[m - 1]
    BY <2>3, <2>4
  <2>6. f[m] = IF t[m] \in K THEN Append(f[m - 1], t[m]) ELSE f[m - 1]
    BY <1>1, <1>3, <2>3 DEF SiftedBy, SiftSteps
  <2>7. g[m + 1] = IF t[m] \in K THEN Append(g[m], t[m]) ELSE g[m]
    <3>1. m + 1 \in 1 .. Len(s) /\ (m + 1) - 1 = m /\ s[m + 1] = t[m]
      BY <1>1, <2>3
    <3> QED
      BY <1>4, <3>1 DEF SiftedBy, SiftSteps
  <2>8. t[m] \in K => Append(first \o f[m - 1], t[m]) = first \o Append(f[m - 1], t[m])
    <3> SUFFICES ASSUME t[m] \in K
                 PROVE  Append(first \o f[m - 1], t[m]) = first \o Append(f[m - 1], t[m])
      OBVIOUS
    <3>1. f[m - 1] \in Seq(T \cap K)
      BY <1>5, <2>3
    <3>2. t[m] \in T \cap K
      BY <1>1, <2>3
    <3> DEFINE S == T \cap K
    <3>3. f[m - 1] \in Seq(S) /\ first \in Seq(S) /\ t[m] \in S
      BY <1>2, <3>1, <3>2
    <3> HIDE DEF S
    <3>4. AppendsInside(first, f[m - 1], t[m])
      BY <3>3, AppendToConcat, Zenon
    <3> QED
      BY <3>4 DEF AppendsInside
  <2>9. g[m + 1] = first \o f[m]
    BY <2>5, <2>6, <2>7, <2>8
  <2> QED
    BY <2>1, <2>9
<1>8. g[n] = first \o f[n - 1]
  <2>1. n - 1 \in 0 .. n - 1 /\ (n - 1) + 1 = n
    BY <1>1
  <2>2. n - 1 \notin bad
    BY <1>7
  <2> QED
    BY <2>1, <2>2
<1> QED
  BY <1>5, <1>8 DEF first, t

-----------------------------------------------------------------------------
(***************************************************************************)
(* Remainders: positions in a ring, and how far one is ahead of another.   *)
(***************************************************************************)
LEMMA Quotient ==
  ASSUME NEW a \in Int, NEW w \in Nat \ {0}
  PROVE  /\ a % w \in 0 .. w - 1
         /\ \E q \in Int : a = w * q + (a % w)
<1>1. a % w \in 0 .. w - 1 /\ a \div w \in Int /\ a = w * (a \div w) + (a % w)
  OBVIOUS
<1> QED
  BY <1>1

LEMMA Remainder ==
  ASSUME NEW a \in Int, NEW w \in Nat \ {0}, NEW q \in Int, NEW r \in 0 .. w - 1,
         a = w * q + r
  PROVE  a % w = r
<1> DEFINE s == a % w
<1>1. PICK p \in Int : s \in 0 .. w - 1 /\ a = w * p + s
  BY Quotient
<1> HIDE DEF s
<1>2. w * (p - q) = r - s
  BY <1>1
<1>3. p - q >= 1 => w * (p - q) >= w
  BY <1>1
<1>4. q - p >= 1 => w * (q - p) >= w
  BY <1>1
<1>5. w * (q - p) = s - r
  BY <1>1
<1>6. p = q
  BY <1>1, <1>2, <1>3, <1>4, <1>5
<1> QED
  BY <1>1, <1>6 DEF s

LEMMA SmallRemainder ==
  ASSUME NEW w \in Nat \ {0}, NEW r \in 0 .. w - 1
  PROVE  r % w = r
<1>1. r = w * 0 + r
  OBVIOUS
<1> QED
  BY <1>1, Remainder

LEMMA RemainderPlus ==
  ASSUME NEW a \in Int, NEW b \in Int, NEW w \in Nat \ {0}
  PROVE  ((a % w) + b) % w = (a + b) % w
<1> DEFINE r == (a + b) % w
<1>1. PICK p \in Int : a = w * p + (a % w) /\ a % w \in 0 .. w - 1
  BY Quotient
<1>2. PICK q \in Int : a + b = w * q + r /\ r \in 0 .. w - 1
  <2>1. a + b \in Int
    OBVIOUS
  <2> QED
    BY <2>1, Quotient
<1> HIDE DEF r
<1> DEFINE c == (a % w) + b
<1>3. c = w * (q - p) + r /\ q - p \in Int /\ c \in Int
  <2> DEFINE s == a % w
  <2>1. a = w * p + s /\ s \in Int
    BY <1>1
  <2> HIDE DEF s
  <2>2. w * (q - p) = w * q - w * p
    OBVIOUS
  <2>3. s + b = w * (q - p) + r
    BY <1>2, <2>1, <2>2
  <2> QED
    BY <2>1, <2>3 DEF s
<1> HIDE DEF c
<1>4. c % w = r
  BY <1>2, <1>3, Remainder
<1> QED
  BY <1>4 DEF c, r

LEMMA RemainderOfRemainder ==
  ASSUME NEW a \in Int, NEW w \in Nat \ {0}, NEW n \in Nat \ {0}, w % n = 0
  PROVE  (a % w) % n = a % n
<1> DEFINE r == a % n  c == a % w
<1>1. PICK p \in Int : a = w * p + c /\ c \in 0 .. w - 1
  BY Quotient
<1>2. PICK q \in Int : a = n * q + r /\ r \in 0 .. n - 1
  BY Quotient
<1>3. PICK k \in Int : w = n * k
  <2>1. w \in Int
    OBVIOUS
  <2>2. PICK k \in Int : w = n * k + (w % n)
    BY <2>1, Quotient
  <2> QED
    BY <2>2
<1> HIDE DEF r, c
<1>4. w * p = n * (k * p)
  BY <1>3
<1>5. c = n * (q - k * p) + r /\ q - k * p \in Int /\ c \in Int
  BY <1>1, <1>2, <1>4
<1>6. c % n = r
  BY <1>2, <1>5, Remainder
<1> QED
  BY <1>6 DEF r, c

LEMMA Distance ==
  ASSUME NEW w \in Nat \ {0}, NEW i \in 0 .. w - 1, NEW j \in 0 .. w - 1
  PROVE  /\ (i + w - j) % w \in 0 .. w - 1
         /\ i = (j + ((i + w - j) % w)) % w
<1> DEFINE d == (i + w - j) % w
<1>1. i + w - j \in Int /\ i + w \in Int
  OBVIOUS
<1>2. d \in 0 .. w - 1
  BY <1>1, Quotient
<1>3. (d + j) % w = ((i + w - j) + j) % w
  <2> DEFINE a == i + w - j
  <2>1. a \in Int /\ j \in Int
    OBVIOUS
  <2> HIDE DEF a
  <2>2. ((a % w) + j) % w = (a + j) % w
    BY <2>1, RemainderPlus
  <2> QED
    BY <2>2 DEF a
<1>4. (i + w) % w = i
  <2>1. i + w = w * 1 + i
    OBVIOUS
  <2> QED
    BY <1>1, <2>1, Remainder
<1> HIDE DEF d
<1>5. (i + w - j) + j = i + w /\ d + j = j + d
  BY <1>2
<1> QED
  BY <1>2, <1>3, <1>4, <1>5 DEF d

LEMMA DistanceIs ==
  ASSUME NEW w \in Nat \ {0}, NEW j \in 0 .. w - 1, NEW d \in 0 .. w - 1
  PROVE  (((j + d) % w) + w - j) % w = d
<1> DEFINE i == (j + d) % w
<1>1. i \in 0 .. w - 1 /\ j + d \in Int /\ w - j \in Int
  <2>1. j + d \in Int
    OBVIOUS
  <2> QED
    BY <2>1, Quotient
<1>2. (i + (w - j)) % w = ((j + d) + (w - j)) % w
  BY <1>1, RemainderPlus
<1>3. (j + d) + (w - j) = w * 1 + d
  OBVIOUS
<1>4. (w * 1 + d) % w = d
  <2>1. w * 1 + d \in Int
    OBVIOUS
  <2> QED
    BY <2>1, Remainder
<1> HIDE DEF i
<1>5. i + w - j = i + (w - j)
  BY <1>1
<1> QED
  BY <1>2, <1>3, <1>4, <1>5 DEF i

\* Two positions i and j of a ring of w places, d = (i + w - j) % w apart: a step
\* of i is one place more, one of j is one less.
RingMoves(i, j, w) ==
  LET d == (i + w - j) % w
  IN  /\ d \in 0 .. w - 1 /\ i = (j + d) % w
      /\ d = 0 <=> i = j
      /\ (i + 1) % w \in 0 .. w - 1
      /\ d + 1 < w => (((i + 1) % w) + w - j) % w = d + 1
      /\ i # j => (i + w - ((j + 1) % w)) % w = d - 1

LEMMA RingFacts ==
  ASSUME NEW w \in Nat \ {0}, NEW i \in 0 .. w - 1, NEW j \in 0 .. w - 1
  PROVE  RingMoves(i, j, w)
<1> DEFINE d == (i + w - j) % w  next(k) == (k + 1) % w
<1>1. d \in 0 .. w - 1 /\ i = (j + d) % w
  BY Distance
<1>2. d = 0 <=> i = j
  <2>1. j % w = j
    BY SmallRemainder
  <2>2. d = 0 => i = j
    BY <1>1, <2>1
  <2>3. (((j + 0) % w) + w - j) % w = 0
    BY DistanceIs
  <2>4. i = j => d = 0
    BY <2>1, <2>3
  <2> QED
    BY <2>2, <2>4
<1>3. i + 1 \in Int /\ j + 1 \in Int /\ j + d \in Int /\ next(i) \in 0 .. w - 1
      /\ next(j) \in 0 .. w - 1
  <2>1. i + 1 \in Int /\ j + 1 \in Int /\ j + d \in Int
    BY <1>1
  <2> QED
    BY <2>1, Quotient
<1> HIDE DEF d
<1>4. ASSUME d + 1 < w PROVE (next(i) + w - j) % w = d + 1
  <2>1. (((j + d) % w) + 1) % w = ((j + d) + 1) % w
    BY <1>3, RemainderPlus
  <2>2. next(i) = (j + (d + 1)) % w
    <3>1. (j + d) + 1 = j + (d + 1)
      BY <1>1
    <3> QED
      BY <1>1, <2>1, <3>1
  <2>3. d + 1 \in 0 .. w - 1
    BY <1>1, <1>4
  <2>4. (((j + (d + 1)) % w) + w - j) % w = d + 1
    BY <2>3, DistanceIs
  <2> QED
    BY <2>2, <2>4
<1>5. ASSUME i # j PROVE (i + w - next(j)) % w = d - 1
  <2>1. d - 1 \in 0 .. w - 1 /\ d - 1 \in Int
    BY <1>1, <1>2, <1>5
  <2>2. (((j + 1) % w) + (d - 1)) % w = ((j + 1) + (d - 1)) % w
    BY <1>3, <2>1, RemainderPlus
  <2>3. (j + 1) + (d - 1) = j + d
    BY <1>1
  <2>4. i = (next(j) + (d - 1)) % w
    BY <1>1, <2>2, <2>3
  <2> HIDE DEF next
  <2>5. (((next(j) + (d - 1)) % w) + w - next(j)) % w = d - 1
    BY <1>3, <2>1, DistanceIs
  <2> QED
    BY <2>4, <2>5
<1> QED
  BY <1>1, <1>2, <1>3, <1>4, <1>5 DEF d, RingMoves

LEMMA Residues ==
  ASSUME NEW a \in Int, NEW b \in Int, NEW w \in Nat, a < b, b - a < w
  PROVE  a % w # b % w
<1> w \in Nat \ {0}
  OBVIOUS
<1>1. PICK p \in Int : a = w * p + (a % w) /\ a % w \in 0 .. w - 1
  BY Quotient
<1>2. PICK q \in Int : b = w * q + (b % w) /\ b % w \in 0 .. w - 1
  BY Quotient
<1> SUFFICES ASSUME a % w = b % w PROVE FALSE
  OBVIOUS
<1> DEFINE r == a % w
<1>3. a = w * p + r /\ b = w * q + r /\ r \in 0 .. w - 1
  BY <1>1, <1>2
<1> HIDE DEF r
<1>4. b - a = w * (q - p)
  BY <1>3
<1>5. q - p >= 1
  BY <1>3, <1>4
<1>6. w * (q - p) >= w
  BY <1>3, <1>5
<1> QED
  BY <1>3, <1>4, <1>6

-----------------------------------------------------------------------------
(* One more than a set of the numbers up to n, counted.                      *)
LEMMA OneMore ==
  ASSUME NEW n \in Nat, NEW S \in SUBSET (1 .. n)
  PROVE  Cardinality(S) \in Nat /\ Cardinality(S \cup {n + 1}) = Cardinality(S) + 1
<1>1. IsFiniteSet(S)
  <2>1. 1 \in Int /\ n \in Int
    OBVIOUS
  <2>2. IsFiniteSet(1 .. n)
    BY <2>1, FS_Interval
  <2> QED
    BY <2>2, FS_Subset
<1>2. n + 1 \notin S
  OBVIOUS
<1> QED
  BY <1>1, <1>2, FS_CardinalityType, FS_AddElement
=============================================================================
