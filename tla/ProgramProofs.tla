---------------------------- MODULE ProgramProofs ----------------------------
(* Theorems about what loads, runs and shows programs: the loader of modules  *)
(* (module ElfLoader), the system calls (Syscalls), the WASM interpreter      *)
(* (Wasm) and the compositor (Compositor); and the quantum circuits (Quantum). *)
EXTENDS Programs, Quantum, SequenceFacts

-----------------------------------------------------------------------------
(***************************************************************************)
(* The loader of modules.  What is loaded is what LoadedModule makes of a  *)
(* file, so the claims about it are claims about layouts and relocations.  *)
(***************************************************************************)
LEMMA AlignedIs ==
  ASSUME NEW end \in Nat, NEW align \in Nat
  PROVE  /\ Aligned(end, align) \in Nat /\ Aligned(end, align) >= end
         /\ align > 1 => Aligned(end, align) % align = 0
<1>1. CASE ~ (align > 1)
  BY <1>1 DEF Aligned
<1>2. CASE align > 1
  <2> DEFINE a == end + align - 1  q == a \div align  r == a % align  p == q * align
  <2>1. a \in Int /\ align \in Nat \ {0}
    BY <1>2
  <2>2. q \in Int /\ r \in 0 .. align - 1 /\ a = align * q + r
    <3> HIDE DEF a
    <3> QED
      BY <2>1
  <2>3. Aligned(end, align) = p
    BY <1>2 DEF Aligned
  <2> HIDE DEF q, r
  <2>4. p = align * q /\ p \in Int
    BY <2>2
  <2> HIDE DEF p
  <2>5. p = a - r
    BY <2>1, <2>2, <2>4
  <2>6. p >= end /\ p \in Nat
    BY <1>2, <2>2, <2>5
  <2>7. p = align * q + 0 /\ 0 \in 0 .. align - 1
    BY <1>2, <2>4
  <2>8. p % align = 0
    BY <2>1, <2>2, <2>4, <2>7, Remainder
  <2> QED
    BY <2>3, <2>6, <2>8
<1> QED
  BY <1>1, <1>2

LEMMA SizesOf ==
  ASSUME NEW s \in Seq(Section), NEW i \in 1 .. Len(s)
  PROVE  s[i].align \in Nat /\ s[i].size \in Nat /\ s[i].alloc \in BOOLEAN
<1>1. s[i] \in Section
  BY ElementOfSeq
<1> DEFINE sec == s[i]
<1> HIDE DEF sec
<1>2. sec \in Section
  BY <1>1 DEF sec
<1>3. sec.align \in Nat /\ sec.size \in Nat /\ sec.alloc \in BOOLEAN
  BY <1>2 DEF Section
<1> QED
  BY <1>3 DEF sec

(* Where the sections end, and that they follow one another.                 *)
EndsOf(e, s) ==
  /\ e \in [0 .. Len(s) -> Nat] /\ e[0] = 0
  /\ \A i \in 1 .. Len(s) :
       e[i] = IF s[i].alloc THEN Aligned(e[i - 1], s[i].align) + s[i].size ELSE e[i - 1]

LEMMA EndsUnfold ==
  ASSUME NEW s \in Seq(Section)
  PROVE  EndsOf(Ends(s), s)
<1> DEFINE n == Len(s)
           next(i, k) == IF s[i].alloc THEN Aligned(k, s[i].align) + s[i].size ELSE k
           step == [x \in (1 .. n) \X Nat |-> next(x[1], x[2])]
           Def(f) == f = [i \in 0 .. n |->
                            IF i = 0 THEN 0
                            ELSE IF s[i].alloc
                                 THEN Aligned(f[i - 1], s[i].align) + s[i].size
                            ELSE f[i - 1]]
<1>1. n \in Nat /\ 0 \in Nat
  BY LenProperties
<1>2. step \in [(1 .. n) \X Nat -> Nat]
  <2> SUFFICES ASSUME NEW i \in 1 .. n, NEW k \in Nat PROVE next(i, k) \in Nat
    OBVIOUS
  <2>1. s[i].align \in Nat /\ s[i].size \in Nat
    BY SizesOf
  <2>2. Aligned(k, s[i].align) \in Nat
    BY <2>1, AlignedIs
  <2> QED
    BY <2>1, <2>2
<1>3. PICK f : IsIterate(f, Nat, 0, n, step)
  <2> HIDE DEF step, n
  <2> QED
    BY <1>1, <1>2, Iterates
<1>4. ASSUME NEW i \in 1 .. n PROVE f[i] = next(i, f[i - 1])
  <2>1. f[i - 1] \in Nat
    BY <1>1, <1>3 DEF IsIterate
  <2>2. << i, f[i - 1] >> \in (1 .. n) \X Nat
    BY <2>1
  <2>3. f[i] = step[<< i, f[i - 1] >>]
    BY <1>3 DEF IsIterate
  <2> QED
    BY <2>2, <2>3
<1> HIDE DEF step
<1>5. Def(f)
  <2>1. ASSUME NEW i \in 0 .. n
        PROVE  f[i] = IF i = 0 THEN 0 ELSE next(i, f[i - 1])
    <3>1. CASE i = 0
      BY <1>3, <3>1 DEF IsIterate
    <3>2. CASE i # 0
      <4>1. i \in 1 .. n
        BY <1>1, <3>2
      <4> QED
        BY <1>4, <3>2, <4>1
    <3> QED
      BY <3>1, <3>2
  <2>2. f \in [0 .. n -> Nat]
    BY <1>3 DEF IsIterate
  <2> QED
    BY <2>1, <2>2
<1> DEFINE g == CHOOSE h : Def(h)
<1>6. Def(g)
  BY <1>5
<1>7. Ends(s) = g
  BY DEF Ends
<1> HIDE DEF g
<1>8. g[0] = 0 /\ \A i \in 1 .. n : g[i] = next(i, g[i - 1])
  <2>1. g = [i \in 0 .. n |-> IF i = 0 THEN 0 ELSE next(i, g[i - 1])]
    BY <1>6
  <2> HIDE DEF next
  <2>2. \A i \in 0 .. n : g[i] = IF i = 0 THEN 0 ELSE next(i, g[i - 1])
    BY <2>1, Zenon
  <2>3. 0 \in 0 .. n /\ \A i \in 1 .. n : i \in 0 .. n /\ i # 0
    BY <1>1
  <2> QED
    BY <2>2, <2>3, Zenon
<1>9. \A i \in 0 .. n : g[i] \in Nat
  <2> DEFINE Good == {i \in 0 .. n : g[i] \in Nat}
  <2>1. 0 \in Good
    BY <1>1, <1>8
  <2>2. ASSUME NEW i \in 1 .. n, i - 1 \in Good PROVE i \in Good
    <3>1. g[i - 1] \in Nat /\ g[i] = next(i, g[i - 1])
      BY <1>8, <2>2
    <3>2. s[i].align \in Nat /\ s[i].size \in Nat
      BY SizesOf
    <3>3. Aligned(g[i - 1], s[i].align) \in Nat
      BY <3>1, <3>2, AlignedIs
    <3> QED
      BY <3>1, <3>2, <3>3
  <2> HIDE DEF Good
  <2>3. \A i \in 0 .. n : i \in Good
    BY <1>1, <2>1, <2>2, InductUpTo
  <2> QED
    BY <2>3 DEF Good
<1>10. DOMAIN g = 0 .. n /\ g = [i \in DOMAIN g |-> g[i]]
  BY <1>6
<1>11. g \in [0 .. n -> Nat]
  BY <1>9, <1>10
<1> QED
  BY <1>7, <1>8, <1>11 DEF EndsOf

LEMMA EndsGrow ==
  ASSUME NEW s \in Seq(Section), NEW i \in 0 .. Len(s), NEW j \in 0 .. Len(s), i <= j
  PROVE  Ends(s)[i] <= Ends(s)[j]
<1> DEFINE e == Ends(s)  n == Len(s)
           Good == {k \in 0 .. n : k < i \/ e[i] <= e[k]}
<1>1. n \in Nat /\ EndsOf(e, s) /\ i \in 0 .. n /\ j \in 0 .. n
  BY LenProperties, EndsUnfold
<1> HIDE DEF e, n
<1>2. e \in [0 .. n -> Nat]
  BY <1>1 DEF EndsOf, n
<1>3. 0 \in Good
  BY <1>1, <1>2
<1>4. ASSUME NEW k \in 1 .. n, k - 1 \in Good PROVE k \in Good
  <2>1. e[k] >= e[k - 1]
    <3>1. s[k].align \in Nat /\ s[k].size \in Nat /\ e[k - 1] \in Nat
      <4>1. k \in 1 .. Len(s)
        BY DEF n
      <4>2. s[k].align \in Nat /\ s[k].size \in Nat
        BY <4>1, SizesOf
      <4>3. k - 1 \in 0 .. n
        BY <1>1
      <4>4. e[k - 1] \in Nat
        BY <1>2, <4>3
      <4> QED
        BY <4>2, <4>4
    <3>2. Aligned(e[k - 1], s[k].align) \in Nat /\ Aligned(e[k - 1], s[k].align) >= e[k - 1]
      BY <3>1, AlignedIs
    <3>3. e[k] = IF s[k].alloc THEN Aligned(e[k - 1], s[k].align) + s[k].size ELSE e[k - 1]
      BY <1>1 DEF EndsOf, n
    <3> QED
      BY <3>1, <3>2, <3>3
  <2>2. e[k] \in Nat /\ e[k - 1] \in Nat /\ e[i] \in Nat /\ k - 1 \in 0 .. n
    BY <1>1, <1>2
  <2>3. CASE k < i
    BY <2>3
  <2>4. CASE k = i
    BY <2>2, <2>4
  <2>5. CASE k > i
    <3>1. e[i] <= e[k - 1]
      BY <1>4, <2>5, <1>1
    <3> QED
      BY <2>1, <2>2, <3>1
  <2> QED
    BY <2>3, <2>4, <2>5, <1>1
<1> HIDE DEF Good
<1>5. \A k \in 0 .. n : k \in Good
  BY <1>1, <1>3, <1>4, InductUpTo
<1>6. j \in Good
  BY <1>1, <1>5
<1> QED
  BY <1>1, <1>6 DEF Good, e

LEMMA SectionsFollow ==
  ASSUME NEW s \in Seq(Section), NEW i \in DOMAIN s, s[i].alloc
  PROVE  /\ i \in 1 .. Len(s) /\ s[i].size \in Nat /\ s[i].align \in Nat
         /\ OffsetOf(s, i) \in Nat /\ TotalSize(s) \in Nat
         /\ OffsetOf(s, i) >= Ends(s)[i - 1] /\ Ends(s)[i - 1] \in Nat
         /\ OffsetOf(s, i) + s[i].size = Ends(s)[i] /\ Ends(s)[i] <= TotalSize(s)
         /\ s[i].align > 1 => OffsetOf(s, i) % s[i].align = 0
<1>1. EndsOf(Ends(s), s) /\ Len(s) \in Nat /\ i \in 1 .. Len(s)
  BY LenProperties, EndsUnfold
<1>2. s[i].align \in Nat /\ s[i].size \in Nat
  BY <1>1, SizesOf
<1>3. i - 1 \in 0 .. Len(s) /\ i \in 0 .. Len(s) /\ Len(s) \in 0 .. Len(s) /\ i <= Len(s)
  BY <1>1
<1>4. Ends(s)[i - 1] \in Nat /\ Ends(s)[Len(s)] \in Nat
  BY <1>1, <1>3 DEF EndsOf
<1>5. Ends(s)[i] <= Ends(s)[Len(s)]
  BY <1>3, EndsGrow
<1>6. Ends(s)[i] = Aligned(Ends(s)[i - 1], s[i].align) + s[i].size
  BY <1>1 DEF EndsOf
<1>7. LET at == Aligned(Ends(s)[i - 1], s[i].align)
      IN at \in Nat /\ at >= Ends(s)[i - 1] /\ (s[i].align > 1 => at % s[i].align = 0)
  BY <1>2, <1>4, AlignedIs, Zenon
<1> QED
  BY <1>1, <1>2, <1>4, <1>5, <1>6, <1>7 DEF OffsetOf, TotalSize

(* Two sections that are placed share no address.                            *)
LEMMA SpansApart ==
  ASSUME NEW s \in Seq(Section), NEW i \in DOMAIN s, NEW j \in DOMAIN s,
         s[i].alloc, s[j].alloc, NEW at \in Span(s, i), at \in Span(s, j)
  PROVE  i = j
<1>1. \A k, l \in DOMAIN s :
        s[k].alloc /\ s[l].alloc /\ at \in Span(s, k) /\ at \in Span(s, l) => ~ (k < l)
  <2> SUFFICES ASSUME NEW k \in DOMAIN s, NEW l \in DOMAIN s, s[k].alloc, s[l].alloc,
                      at \in Span(s, k), at \in Span(s, l), k < l
               PROVE  FALSE
    OBVIOUS
  <2>1. /\ k \in 1 .. Len(s) /\ OffsetOf(s, k) \in Nat /\ s[k].size \in Nat
        /\ OffsetOf(s, k) + s[k].size = Ends(s)[k]
    BY SectionsFollow
  <2>2. /\ l \in 1 .. Len(s) /\ OffsetOf(s, l) \in Nat /\ s[l].size \in Nat
        /\ OffsetOf(s, l) >= Ends(s)[l - 1] /\ Ends(s)[l - 1] \in Nat
    BY SectionsFollow
  <2>3. k \in 0 .. Len(s) /\ l - 1 \in 0 .. Len(s) /\ k <= l - 1
    BY <2>1, <2>2, LenProperties
  <2>4. Ends(s)[k] <= Ends(s)[l - 1]
    BY <2>3, EndsGrow
  <2> QED
    <3>1. at \in OffsetOf(s, k) .. Ends(s)[k] - 1 /\ at >= OffsetOf(s, l)
      BY <2>1, <2>2 DEF Span
    <3>2. Ends(s)[k] \in Nat
      BY <2>1
    <3> QED
      BY <2>2, <2>4, <3>1, <3>2
<1>2. ~ (i < j) /\ ~ (j < i)
  BY <1>1
<1> QED
  BY <1>2, LenProperties

LEMMA LastOf ==
  ASSUME NEW n \in Nat, NEW S, S \subseteq 1 .. n, S # {}
  PROVE  Max(S) \in S /\ \A y \in S : y <= Max(S)
<1>1. S \subseteq 0 .. n
  OBVIOUS
<1>2. PICK x \in S : \A y \in S : y <= x
  BY <1>1, GreatestExists
<1>3. \A y \in S : x >= y
  BY <1>2
<1>4. Max(S) \in S /\ \A y \in S : Max(S) >= y
  BY <1>2, <1>3 DEF Max
<1> QED
  BY <1>4

(* The bytes that are copied are there, and the rest is zero.                *)
LEMMA ImageIs ==
  ASSUME NEW s \in Seq(Section), NEW at \in 0 .. TotalSize(s) - 1
  PROVE  /\ DOMAIN Image(s) = 0 .. TotalSize(s) - 1
         /\ \A i \in Copied(s) :
              at \in Span(s, i) => Image(s)[at] = << "data", i, at - OffsetOf(s, i) >>
         /\ (\A i \in Copied(s) : at \notin Span(s, i)) => Image(s)[at] = << "zero" >>
<1>1. Image(s)[at] = IF \E i \in Copied(s) : at \in Span(s, i)
                     THEN LET i == CHOOSE j \in Copied(s) : at \in Span(s, j)
                          IN << "data", i, at - OffsetOf(s, i) >>
                     ELSE << "zero" >>
  BY DEF Image
<1>2. ASSUME NEW i \in Copied(s), at \in Span(s, i)
      PROVE  Image(s)[at] = << "data", i, at - OffsetOf(s, i) >>
  <2> DEFINE j == CHOOSE k \in Copied(s) : at \in Span(s, k)
  <2>1. j \in Copied(s) /\ at \in Span(s, j)
    BY <1>2
  <2>2. Image(s)[at] = << "data", j, at - OffsetOf(s, j) >>
    BY <1>1, <1>2
  <2> HIDE DEF j
  <2>3. i \in DOMAIN s /\ j \in DOMAIN s /\ s[i].alloc /\ s[j].alloc
    BY <2>1 DEF Copied
  <2>4. i = j
    BY <1>2, <2>1, <2>3, SpansApart
  <2> QED
    BY <2>2, <2>4
<1>3. DOMAIN Image(s) = 0 .. TotalSize(s) - 1
  BY DEF Image
<1> QED
  BY <1>1, <1>2, <1>3

(* A file's parts.                                                           *)
LEMMA PartsOf ==
  ASSUME NEW file \in ElfFile
  PROVE  /\ file.sections \in Seq(Section) /\ file.symbols \in Seq(ElfSymbol)
         /\ file.relas \in Seq(Rela) /\ TotalSize(file.sections) \in Nat
         /\ DOMAIN file.sections = 1 .. Len(file.sections) /\ Len(file.sections) \in Nat
         /\ DOMAIN file.symbols = 1 .. Len(file.symbols) /\ Len(file.symbols) \in Nat
         /\ DOMAIN file.relas = 1 .. Len(file.relas) /\ Len(file.relas) \in Nat
<1>1. /\ file.sections \in Seq(Section) /\ file.symbols \in Seq(ElfSymbol)
      /\ file.relas \in Seq(Rela)
  BY DEF ElfFile
<1>2. EndsOf(Ends(file.sections), file.sections) /\ Len(file.sections) \in Nat
  BY <1>1, LenProperties, EndsUnfold
<1>3. TotalSize(file.sections) \in Nat
  BY <1>2 DEF EndsOf, TotalSize
<1> QED
  BY <1>1, <1>3, LenProperties

LEMMA RelaOf ==
  ASSUME NEW file \in ElfFile, NEW k \in DOMAIN file.relas
  PROVE  /\ file.relas[k].offset \in Nat /\ file.relas[k].type \in RelocationTypes
         /\ file.relas[k].sym \in Nat /\ file.relas[k].addend \in Int
<1> DEFINE r == file.relas[k]
<1>1. r \in Rela
  BY PartsOf, ElementOfSeq
<1> HIDE DEF r
<1>2. r.offset \in Nat /\ r.type \in RelocationTypes /\ r.sym \in Nat /\ r.addend \in Int
  BY <1>1 DEF Rela
<1> QED
  BY <1>2 DEF r

LEMMA SymbolOf ==
  ASSUME NEW file \in ElfFile, NEW k \in DOMAIN file.symbols
  PROVE  file.symbols[k].section \in Nat /\ file.symbols[k].value \in Nat
<1> DEFINE sym == file.symbols[k]
<1>1. sym \in ElfSymbol
  BY PartsOf, ElementOfSeq
<1> HIDE DEF sym
<1>2. sym.section \in Nat /\ sym.value \in Nat
  BY <1>1 DEF ElfSymbol
<1> QED
  BY <1>2 DEF sym

(* Where a relocation that is not skipped writes.                            *)
LEMMA FieldIs ==
  ASSUME NEW file \in ElfFile, NEW k \in DOMAIN file.relas, Field(file, k) # {}
  PROVE  LET rela == file.relas[k]  at == Place(file, rela)
         IN /\ at \in Field(file, k) /\ at \in Nat /\ rela.type # "other"
            /\ Field(file, k) \subseteq 0 .. TotalSize(file.sections) - 1
<1> DEFINE rela == file.relas[k]  at == Place(file, rela)  width == FieldWidth(rela.type)
<1>1. /\ rela.offset \in Nat /\ rela.type \in RelocationTypes
  BY RelaOf
<1>2. ~ Skipped(file, rela)
  BY DEF Field
<1>3. /\ rela.target \in DOMAIN file.sections /\ file.sections[rela.target].alloc
      /\ ~ (at + 8 > TotalSize(file.sections))
  BY <1>2 DEF Skipped
<1>4. OffsetOf(file.sections, rela.target) \in Nat /\ TotalSize(file.sections) \in Nat
  BY <1>3, PartsOf, SectionsFollow
<1>5. at \in Nat
  BY <1>1, <1>4 DEF Place
<1>6. width \in {0, 4, 8} /\ (rela.type = "other" => width = 0)
  BY <1>1 DEF FieldWidth, RelocationTypes, SignedTypes
<1>7. Field(file, k) = at .. at + width - 1
  BY <1>2 DEF Field, FieldBytes
<1> HIDE DEF at, width
<1>8. width # 0
  BY <1>5, <1>7
<1>9. at \in Field(file, k) /\ rela.type # "other"
  BY <1>5, <1>6, <1>7, <1>8
<1>10. Field(file, k) \subseteq 0 .. TotalSize(file.sections) - 1
  BY <1>3, <1>4, <1>5, <1>6, <1>7
<1> QED
  BY <1>5, <1>9, <1>10 DEF at

ValueOf(file, base, k) ==
  LET rela == file.relas[k]
  IN FieldValue(rela.type, AddressOf(file, base, rela.sym), rela.addend,
                base + Place(file, rela))

(* A byte of the image, and of what the relocations make of it: it is the     *)
(* field's that was written last, or the image's.                            *)
ByteOf(relocated, image, file, base, at) ==
  /\ (\A k \in DOMAIN file.relas : at \notin Field(file, k)) => relocated[at] = image[at]
  /\ \A k \in DOMAIN file.relas :
       at \in Field(file, k) /\ (\A l \in DOMAIN file.relas : at \in Field(file, l) => l <= k)
         => relocated[at]
              = << "field", ValueOf(file, base, k), at - Place(file, file.relas[k]) >>

LEMMA RelocatedIs ==
  ASSUME NEW file \in ElfFile, NEW base, NEW memory, NEW at \in DOMAIN memory
  PROVE  ByteOf(Relocated(file, base, memory), memory, file, base, at)
<1> DEFINE over == {k \in DOMAIN file.relas : at \in Field(file, k)}
           made(k) == << "field", ValueOf(file, base, k), at - Place(file, file.relas[k]) >>
<1>1. Relocated(file, base, memory)[at] = IF over = {} THEN memory[at] ELSE made(Max(over))
  BY DEF Relocated, ValueOf
<1>3. ASSUME NEW k \in DOMAIN file.relas, k \in over, \A l \in over : l <= k
      PROVE  over # {} /\ Max(over) = k
  <2>1. over \subseteq 1 .. Len(file.relas) /\ Len(file.relas) \in Nat /\ over # {}
    BY <1>3, PartsOf
  <2> HIDE DEF over
  <2>2. Max(over) \in over /\ \A y \in over : y <= Max(over)
    BY <2>1, LastOf
  <2> QED
    BY <1>3, <2>1, <2>2
<1> HIDE DEF made
<1>4. \A k \in DOMAIN file.relas :
        at \in Field(file, k) /\ (\A l \in DOMAIN file.relas : at \in Field(file, l) => l <= k)
        => Relocated(file, base, memory)[at] = made(k)
  BY <1>1, <1>3
<1> QED
  BY <1>1, <1>4 DEF made, ByteOf

-----------------------------------------------------------------------------
(* What is loaded from a file.                                               *)
Loadable == {LoadedModule(name, base) : name \in DOMAIN Files, base \in Bases}
IsLoaded(m, file, base) ==
  /\ m.name \in DOMAIN Files /\ file = Files[m.name] /\ m.base = base
  /\ file \in ElfFile /\ base \in Nat
  /\ m.exports = Exports(file, base)
  /\ m.memory = Relocated(file, base, Image(file.sections))

LEMMA LoadedIs ==
  ASSUME NEW m \in Loadable
  PROVE  IsLoaded(m, Files[m.name], m.base)
<1>1. PICK name \in DOMAIN Files, base \in Bases : m = LoadedModule(name, base)
  BY DEF Loadable
<1>2. /\ m.name = name /\ m.base = base /\ m.exports = Exports(Files[name], base)
      /\ m.memory = Relocated(Files[name], base, Image(Files[name].sections))
  BY <1>1 DEF LoadedModule
<1> QED
  BY <1>2, ElfAssumption DEF IsLoaded

LEMMA MemoryIs ==
  ASSUME NEW m, NEW file, NEW base, IsLoaded(m, file, base),
         NEW at \in 0 .. TotalSize(file.sections) - 1
  PROVE  /\ DOMAIN m.memory = 0 .. TotalSize(file.sections) - 1
         /\ ByteOf(m.memory, Image(file.sections), file, base, at)
<1> DEFINE image == Image(file.sections)
<1>1. file \in ElfFile /\ m.memory = Relocated(file, base, image)
  BY DEF IsLoaded
<1>2. DOMAIN image = 0 .. TotalSize(file.sections) - 1
  BY DEF Image
<1> HIDE DEF image
<1>3. at \in DOMAIN image
  BY <1>2
<1> QED
  <2>1. ByteOf(Relocated(file, base, image), image, file, base, at)
    BY <1>1, <1>3, RelocatedIs
  <2>2. DOMAIN Relocated(file, base, image) = DOMAIN image
    BY DEF Relocated
  <2> QED
    BY <1>1, <1>2, <2>1, <2>2 DEF image

LEMMA LoadedApart ==
  ASSUME NEW m, NEW file, NEW base, IsLoaded(m, file, base)
  PROVE  SectionsApart(m, file)
<1> DEFINE s == file.sections
           placed == {i \in DOMAIN s : s[i].alloc}
<1>1. file \in ElfFile /\ s \in Seq(Section)
  BY PartsOf DEF IsLoaded
<1>2. DOMAIN m.memory = 0 .. TotalSize(s) - 1
  BY DEF IsLoaded, Relocated, Image
<1>3. ASSUME NEW i \in placed
      PROVE  /\ Span(s, i) \subseteq DOMAIN m.memory
             /\ s[i].align > 1 => OffsetOf(s, i) % s[i].align = 0
             /\ \A j \in placed \ {i} : Span(s, i) \cap Span(s, j) = {}
  <2>1. i \in DOMAIN s /\ s[i].alloc
    BY <1>3
  <2> HIDE DEF placed
  <2>2. /\ OffsetOf(s, i) \in Nat /\ s[i].size \in Nat /\ TotalSize(s) \in Nat
        /\ OffsetOf(s, i) + s[i].size <= TotalSize(s)
        /\ s[i].align > 1 => OffsetOf(s, i) % s[i].align = 0
    <3> HIDE DEF s
    <3>1. /\ OffsetOf(s, i) \in Nat /\ s[i].size \in Nat /\ TotalSize(s) \in Nat
          /\ OffsetOf(s, i) + s[i].size = Ends(s)[i] /\ Ends(s)[i] <= TotalSize(s)
          /\ s[i].align > 1 => OffsetOf(s, i) % s[i].align = 0
      BY <1>1, <2>1, SectionsFollow
    <3> QED
      BY <3>1
  <2>3. Span(s, i) \subseteq DOMAIN m.memory
    <3> HIDE DEF s
    <3> QED
      BY <1>2, <2>2 DEF Span
  <2>4. ASSUME NEW j \in placed \ {i}, NEW at \in Span(s, i) \cap Span(s, j) PROVE FALSE
    <3>1. j \in DOMAIN s /\ s[j].alloc /\ i # j
      BY <2>4 DEF placed
    <3> HIDE DEF s
    <3> QED
      BY <1>1, <2>1, <2>4, <3>1, SpansApart
  <2> QED
    BY <2>2, <2>3, <2>4
<1> QED
  BY <1>3 DEF SectionsApart

(* The address of an exported name.                                          *)
LEMMA ExportIs ==
  ASSUME NEW m, NEW file, NEW base, IsLoaded(m, file, base), NEW s, Named(file, s)
  PROVE  LET sym == file.symbols[s]
         IN /\ s \in DOMAIN file.symbols /\ sym.value \in Nat
            /\ sym.section \in DOMAIN file.sections /\ file.sections[sym.section].alloc
            /\ m.exports[sym.name] = AddressOf(file, base, s)
            /\ AddressOf(file, base, s)
                 = base + OffsetOf(file.sections, sym.section) + sym.value
<1> DEFINE sym == file.symbols[s]
<1>1. file \in ElfFile /\ m.exports = Exports(file, base)
  BY DEF IsLoaded
<1>2. s \in ExportedBy(file) /\ s = ExportOf(file, sym.name)
  BY DEF Named
<1>3. /\ s \in DOMAIN file.symbols /\ Defined(file, sym)
      /\ sym.section \in DOMAIN file.sections /\ file.sections[sym.section].alloc
  BY <1>2 DEF ExportedBy, Defined
<1>4. sym.value \in Nat
  BY <1>1, <1>3, SymbolOf
<1>5. m.exports[sym.name] = AddressOf(file, base, s)
  BY <1>1, <1>2 DEF Exports
<1>6. AddressOf(file, base, s) = base + OffsetOf(file.sections, sym.section) + sym.value
  BY <1>3 DEF AddressOf
<1> QED
  BY <1>3, <1>4, <1>5, <1>6

LEMMA LoadedNames ==
  ASSUME NEW m, NEW file, NEW base, IsLoaded(m, file, base)
  PROVE  ExportsNameBytes(m, file)
<1> SUFFICES ASSUME NEW s \in DOMAIN file.symbols, Named(file, s), Within(file, s)
             PROVE  LET sym == file.symbols[s]
                        at == m.exports[sym.name] - m.base
                    IN /\ at \in DOMAIN m.memory
                       /\ m.memory[at][1] = "data"
                            => m.memory[at] = << "data", sym.section, sym.value >>
                       /\ m.memory[at][1] = "zero" => sym.section \notin Copied(file.sections)
  BY DEF ExportsNameBytes
<1> DEFINE sym == file.symbols[s]
           all == file.sections
           i == sym.section
           at == m.exports[sym.name] - m.base
<1>1. file \in ElfFile /\ all \in Seq(Section) /\ base \in Nat
  BY PartsOf DEF IsLoaded
<1>2. /\ i \in DOMAIN all /\ all[i].alloc /\ sym.value \in Nat
      /\ m.exports[sym.name] = base + OffsetOf(all, i) + sym.value
  BY ExportIs
<1>3. sym.value < all[i].size
  BY DEF Within
<1>4. at = m.exports[sym.name] - base
  BY DEF IsLoaded
<1> HIDE DEF all, i, at, sym
<1>5. /\ OffsetOf(all, i) \in Nat /\ all[i].size \in Nat /\ TotalSize(all) \in Nat
      /\ OffsetOf(all, i) + all[i].size = Ends(all)[i] /\ Ends(all)[i] <= TotalSize(all)
  BY <1>1, <1>2, SectionsFollow
<1>6. at = OffsetOf(all, i) + sym.value
  BY <1>1, <1>2, <1>4, <1>5
<1>7. at \in 0 .. TotalSize(all) - 1 /\ at \in Span(all, i) /\ at - OffsetOf(all, i) = sym.value
  <2> DEFINE o == OffsetOf(all, i)  size == all[i].size  total == TotalSize(all)
  <2> HIDE DEF o, size, total
  <2>1. /\ o \in Nat /\ size \in Nat /\ total \in Nat /\ o + size <= total
        /\ sym.value \in Nat /\ sym.value < size /\ at = o + sym.value
    BY <1>2, <1>3, <1>5, <1>6 DEF o, size, total
  <2>2. at \in 0 .. total - 1 /\ at \in o .. o + size - 1 /\ at - o = sym.value
    BY <2>1
  <2> QED
    BY <2>2 DEF Span, o, size, total
<1>8. /\ DOMAIN m.memory = 0 .. TotalSize(all) - 1
      /\ ByteOf(m.memory, Image(all), file, base, at)
  BY <1>7, MemoryIs DEF all
<1>9. CASE \A k \in DOMAIN file.relas : at \notin Field(file, k)
  <2>1. m.memory[at] = Image(all)[at]
    BY <1>8, <1>9 DEF ByteOf
  <2>2. CASE i \in Copied(all)
    <3>1. Image(all)[at] = << "data", i, sym.value >>
      BY <1>1, <1>7, <2>2, ImageIs
    <3>2. m.memory[at] = << "data", i, sym.value >> /\ at \in DOMAIN m.memory
      BY <1>7, <1>8, <2>1, <3>1
    <3>3. m.memory[at][1] # "zero"
      BY <3>2
    <3> QED
      BY <3>2, <3>3 DEF all, i, at, sym
  <2>3. CASE i \notin Copied(all)
    <3>1. ASSUME NEW j \in Copied(all), at \in Span(all, j) PROVE FALSE
      <4>1. j \in DOMAIN all /\ all[j].alloc
        BY <3>1 DEF Copied
      <4>2. i = j
        BY <1>1, <1>2, <1>7, <3>1, <4>1, SpansApart
      <4> QED
        BY <2>3, <3>1, <4>2
    <3>2. Image(all)[at] = << "zero" >>
      BY <1>1, <1>7, <3>1, ImageIs
    <3>3. m.memory[at][1] # "data"
      BY <2>1, <3>2
    <3> QED
      BY <1>7, <1>8, <2>3, <3>3 DEF all, i, at, sym
  <2> QED
    BY <2>2, <2>3
<1>10. CASE ~ \A k \in DOMAIN file.relas : at \notin Field(file, k)
  <2> DEFINE over == {k \in DOMAIN file.relas : at \in Field(file, k)}
  <2>1. over \subseteq 1 .. Len(file.relas) /\ Len(file.relas) \in Nat /\ over # {}
    BY <1>1, <1>10, PartsOf
  <2>2. PICK k \in over : \A l \in over : l <= k
    <3> HIDE DEF over
    <3> QED
      BY <2>1, LastOf
  <2>3. m.memory[at] = << "field", ValueOf(file, base, k), at - Place(file, file.relas[k]) >>
    BY <1>8, <2>2 DEF ByteOf
  <2>4. m.memory[at][1] = "field"
    BY <2>3
  <2> QED
    BY <1>7, <1>8, <2>4 DEF all, i, at, sym
<1> QED
  BY <1>9, <1>10

(* A field wide enough for a number gives it back.                           *)
LEMMA SignedIs ==
  ASSUME NEW v \in -(Word32 \div 2) .. (Word32 \div 2) - 1
  PROVE  Signed32(v % Word32) = v
<1> DEFINE w == Word32  half == w \div 2
<1>1. w \in Nat \ {0} /\ half \in Nat /\ half + half <= w /\ v \in -half .. half - 1
  BY ElfAssumption
<1> HIDE DEF w, half
<1>2. CASE v >= 0
  <2>1. v \in 0 .. w - 1 /\ v < half
    BY <1>1, <1>2
  <2>2. v % w = v
    BY <1>1, <2>1, SmallRemainder
  <2> QED
    BY <2>1, <2>2, <1>1 DEF Signed32, w, half
<1>3. CASE v < 0
  <2> DEFINE r == v + w
  <2>1. r \in 0 .. w - 1 /\ r >= half /\ v \in Int /\ r \in Int
    BY <1>1, <1>3
  <2>2. v = w * (-1) + r /\ -1 \in Int /\ v = r - w
    BY <1>1, <2>1
  <2> HIDE DEF r
  <2>3. v % w = r
    BY <1>1, <2>1, <2>2, Remainder
  <2> QED
    BY <2>1, <2>2, <2>3 DEF Signed32, w, half
<1> QED
  BY <1>1, <1>2, <1>3

LEMMA FieldReaches ==
  ASSUME NEW type \in RelocationTypes \ {"other"}, NEW to \in Int, NEW addend \in Int,
         NEW place \in Int
  PROVE  LET v == FieldValue(type, to, addend, place)  half == Word32 \div 2
         IN /\ type \in {"PC32", "PLT32"} /\ to + addend - place \in -half .. half - 1
                 => Signed32(v) + place - addend = to
            /\ type = "32S" /\ to + addend \in -half .. half - 1 => Signed32(v) - addend = to
            /\ type = "32" /\ to + addend \in 0 .. Word32 - 1 => v - addend = to
            /\ type = "64" => v - addend = to
<1> DEFINE half == Word32 \div 2  v == FieldValue(type, to, addend, place)
<1>1. ASSUME type \in {"PC32", "PLT32"}, to + addend - place \in -half .. half - 1
      PROVE  Signed32(v) + place - addend = to
  <2>1. v = (to + addend - place) % Word32
    BY <1>1 DEF FieldValue
  <2>2. Signed32((to + addend - place) % Word32) = to + addend - place
    BY <1>1, SignedIs
  <2> HIDE DEF v
  <2>3. Signed32(v) = to + addend - place
    BY <2>1, <2>2
  <2> QED
    BY <2>3
<1>2. ASSUME type = "32S", to + addend \in -half .. half - 1 PROVE Signed32(v) - addend = to
  <2>1. v = (to + addend) % Word32
    BY <1>2 DEF FieldValue
  <2>2. Signed32((to + addend) % Word32) = to + addend
    BY <1>2, SignedIs
  <2> HIDE DEF v
  <2>3. Signed32(v) = to + addend
    BY <2>1, <2>2
  <2> QED
    BY <2>3
<1>3. ASSUME type = "32", to + addend \in 0 .. Word32 - 1 PROVE v - addend = to
  <2>1. v = (to + addend) % Word32
    BY <1>3 DEF FieldValue
  <2>2. (to + addend) % Word32 = to + addend
    BY <1>3, ElfAssumption, SmallRemainder
  <2> HIDE DEF v
  <2>3. v = to + addend
    BY <2>1, <2>2
  <2> QED
    BY <2>3
<1>4. type = "64" => v - addend = to
  BY DEF FieldValue
<1> HIDE DEF v, half
<1>5. /\ type \in {"PC32", "PLT32"} /\ to + addend - place \in -half .. half - 1
           => Signed32(v) + place - addend = to
      /\ type = "32S" /\ to + addend \in -half .. half - 1 => Signed32(v) - addend = to
      /\ type = "32" /\ to + addend \in 0 .. Word32 - 1 => v - addend = to
  BY <1>1, <1>2, <1>3
<1> QED
  BY <1>4, <1>5 DEF v, half

LEMMA TargetIs ==
  ASSUME NEW m, NEW file, NEW base, IsLoaded(m, file, base), NEW s,
         NEW target \in Targets(m, file, s)
  PROVE  target = AddressOf(file, base, s) /\ target \in Int
<1>1. file \in ElfFile /\ base \in Nat
  BY DEF IsLoaded
<1>2. CASE Named(file, s) /\ target = m.exports[file.symbols[s].name]
  <2> DEFINE sym == file.symbols[s]  all == file.sections
  <2>1. /\ sym.value \in Nat /\ sym.section \in DOMAIN all /\ all[sym.section].alloc
        /\ m.exports[sym.name] = AddressOf(file, base, s)
        /\ AddressOf(file, base, s) = base + OffsetOf(all, sym.section) + sym.value
    BY <1>2, ExportIs
  <2>2. OffsetOf(all, sym.section) \in Nat
    <3>1. all \in Seq(Section)
      BY <1>1, PartsOf
    <3> HIDE DEF all, sym
    <3> QED
      BY <2>1, <3>1, SectionsFollow
  <2>3. base + OffsetOf(all, sym.section) + sym.value \in Int
    <3> DEFINE o == OffsetOf(all, sym.section)  v == sym.value
    <3> HIDE DEF o, v
    <3>1. base + o + v \in Int
      BY <1>1, <2>1, <2>2 DEF o, v
    <3> QED
      BY <3>1 DEF o, v
  <2> QED
    BY <1>2, <2>1, <2>3
<1>3. CASE Imported(file, s) /\ target = KernelExports[file.symbols[s].name]
  <2>1. /\ s \in DOMAIN file.symbols /\ file.symbols[s].section = 0
        /\ file.symbols[s].name \in DOMAIN KernelExports
    BY <1>3 DEF Imported
  <2>2. ~ Defined(file, file.symbols[s])
    BY <1>1, <2>1, PartsOf DEF Defined
  <2>3. AddressOf(file, base, s) = KernelExports[file.symbols[s].name]
    BY <2>1, <2>2 DEF AddressOf
  <2> QED
    BY <1>3, <2>1, <2>3, ElfAssumption
<1>4. \/ Named(file, s) /\ target = m.exports[file.symbols[s].name]
      \/ Imported(file, s) /\ target = KernelExports[file.symbols[s].name]
  BY DEF Targets
<1> QED
  BY <1>2, <1>3, <1>4

\* A field of a known type with 8 bytes behind its place is not skipped.
LEMMA FieldIsWritten ==
  ASSUME NEW file \in ElfFile, NEW k \in DOMAIN file.relas, InMemory(file, file.relas[k]),
         Place(file, file.relas[k]) + 8 <= TotalSize(file.sections),
         file.relas[k].type # "other"
  PROVE  Field(file, k) = FieldBytes(file, file.relas[k]) /\ Field(file, k) # {}
<1> DEFINE rela == file.relas[k]  at == Place(file, rela)  width == FieldWidth(rela.type)
<1>1. rela.offset \in Nat /\ rela.type \in RelocationTypes
  BY RelaOf
<1>2. OffsetOf(file.sections, rela.target) \in Nat /\ TotalSize(file.sections) \in Nat
  BY PartsOf, SectionsFollow DEF InMemory
<1>3. at \in Nat
  BY <1>1, <1>2 DEF Place
<1>4. ~ Skipped(file, rela)
  <2>1. ~ (at + 8 > TotalSize(file.sections))
    BY <1>2, <1>3
  <2> QED
    BY <2>1 DEF Skipped, InMemory
<1>5. width \in {4, 8}
  BY <1>1 DEF FieldWidth, RelocationTypes, SignedTypes
<1>6. Field(file, k) = at .. at + width - 1 /\ FieldBytes(file, rela) = at .. at + width - 1
  BY <1>4 DEF Field, FieldBytes
<1> HIDE DEF at, width
<1>7. at \in at .. at + width - 1
  BY <1>3, <1>5
<1> QED
  BY <1>6, <1>7

LEMMA LoadedFields ==
  ASSUME NEW m, NEW file, NEW base, IsLoaded(m, file, base)
  PROVE  FieldsLead(m, file)
<1> SUFFICES ASSUME NEW k \in DOMAIN file.relas, Field(file, k) # {},
                    Field(file, k) = FieldBytes(file, file.relas[k]),
                    \A l \in k + 1 .. Len(file.relas) : Field(file, k) \cap Field(file, l) = {}
             PROVE  LET rela == file.relas[k]
                        at == Place(file, rela)
                    IN /\ \A b \in Field(file, k) :
                            m.memory[b] = << "field", m.memory[at][2], b - at >>
                       /\ \A target \in Targets(m, file, rela.sym) :
                            WideEnough(m, rela, target) => LeadsTo(m, rela) = target
  <2>1. file \in ElfFile
    BY DEF IsLoaded
  <2> QED
    BY <2>1, FieldIsWritten DEF FieldsLead
<1> DEFINE rela == file.relas[k]  at == Place(file, rela)  v == ValueOf(file, base, k)
<1>1. file \in ElfFile /\ base \in Nat /\ m.base = base /\ Files[m.name] = file
  BY DEF IsLoaded
<1>2. DOMAIN file.relas = 1 .. Len(file.relas) /\ Len(file.relas) \in Nat
  BY <1>1, PartsOf
<1>3. /\ at \in Field(file, k) /\ at \in Nat /\ rela.type # "other"
      /\ Field(file, k) \subseteq 0 .. TotalSize(file.sections) - 1
  BY <1>1, FieldIs
<1>4. /\ rela.offset \in Nat /\ rela.type \in RelocationTypes /\ rela.sym \in Nat
      /\ rela.addend \in Int
  BY <1>1, RelaOf
<1> HIDE DEF v, at
<1>5. ASSUME NEW b \in Field(file, k) PROVE m.memory[b] = << "field", v, b - at >>
  <2>1. ByteOf(m.memory, Image(file.sections), file, base, b)
    BY <1>3, MemoryIs
  <2>2. ASSUME NEW l \in DOMAIN file.relas, b \in Field(file, l) PROVE l <= k
    <3>1. l \notin k + 1 .. Len(file.relas)
      BY <2>2, <1>5
    <3> QED
      BY <1>2, <3>1
  <2> QED
    BY <2>1, <2>2 DEF ByteOf, v, at
<1>6. m.memory[at] = << "field", v, at - at >> /\ m.memory[at][2] = v
  BY <1>3, <1>5
<1>7. ASSUME NEW target \in Targets(m, file, rela.sym), WideEnough(m, rela, target)
      PROVE  LeadsTo(m, rela) = target
  <2> DEFINE type == rela.type  addend == rela.addend  half == Word32 \div 2
  <2>1. target = AddressOf(file, base, rela.sym) /\ target \in Int
    BY TargetIs
  <2>2. v = FieldValue(type, target, addend, base + at)
    BY <2>1 DEF v, ValueOf, at
  <2>3. base + at \in Int /\ type \in RelocationTypes \ {"other"} /\ addend \in Int
    BY <1>1, <1>3, <1>4
  <2>4. /\ type \in {"PC32", "PLT32"} => target + addend - base - at \in -half .. half - 1
        /\ type = "32S" => target + addend \in -half .. half - 1
        /\ type = "32" => target + addend \in 0 .. Word32 - 1
    <3>1. WideEnough(m, rela, target)
            = CASE type = "64" -> TRUE
                [] type \in {"PC32", "PLT32"} -> target + addend - base - at \in -half .. half - 1
                [] type = "32S" -> target + addend \in -half .. half - 1
                [] OTHER -> target + addend \in 0 .. Word32 - 1
      BY <1>1 DEF WideEnough, at
    <3> HIDE DEF type, addend, half
    <3> QED
      BY <1>7, <3>1
  <2>5. LeadsTo(m, rela) = CASE type \in {"PC32", "PLT32"} -> Signed32(v) + base + at - addend
                             [] type = "32S" -> Signed32(v) - addend
                             [] OTHER -> v - addend
    BY <1>1, <1>6 DEF LeadsTo, at
  <2> HIDE DEF type, addend
  <2>6. LET w == FieldValue(type, target, addend, base + at)
        IN /\ type \in {"PC32", "PLT32"} /\ target + addend - (base + at) \in -half .. half - 1
                => Signed32(w) + (base + at) - addend = target
           /\ type = "32S" /\ target + addend \in -half .. half - 1 => Signed32(w) - addend = target
           /\ type = "32" /\ target + addend \in 0 .. Word32 - 1 => w - addend = target
           /\ type = "64" => w - addend = target
    BY <2>1, <2>3, FieldReaches
  <2> HIDE DEF half
  <2>7. CASE type \in {"PC32", "PLT32"}
    <3>1. target + addend - (base + at) \in -half .. half - 1
      BY <1>1, <1>3, <2>1, <2>3, <2>4, <2>7
    <3>2. Signed32(v) + (base + at) - addend = target
      BY <2>2, <2>6, <2>7, <3>1
    <3>3. Signed32(v) \in Int
      <4>1. v = (target + addend - (base + at)) % Word32
        BY <2>2, <2>7 DEF FieldValue
      <4>2. target + addend - (base + at) \in Int /\ Word32 \in Nat \ {0}
        BY <2>1, <2>3, ElfAssumption
      <4>3. v \in Int
        <5> DEFINE d == target + addend - (base + at)
        <5> HIDE DEF d
        <5>1. d % Word32 \in 0 .. Word32 - 1
          BY <4>2, Quotient DEF d
        <5> QED
          BY <4>1, <4>2, <5>1 DEF d
      <4> QED
        BY <4>2, <4>3 DEF Signed32
    <3>4. Signed32(v) + base + at - addend = target
      <4> DEFINE x == Signed32(v)
      <4> HIDE DEF x
      <4>1. x + (base + at) - addend = target /\ x \in Int
        BY <3>2, <3>3 DEF x
      <4>2. x + base + at - addend = target
        BY <1>1, <1>3, <2>3, <4>1
      <4> QED
        BY <4>2 DEF x
    <3> QED
      BY <2>5, <2>7, <3>4
  <2>8. CASE type \notin {"PC32", "PLT32"}
    <3>1. type \in {"32S", "32", "64"}
      BY <2>3, <2>8 DEF RelocationTypes, SignedTypes
    <3> QED
      BY <2>2, <2>4, <2>5, <2>6, <3>1
  <2> QED
    BY <2>7, <2>8
<1> QED
  BY <1>5, <1>6, <1>7 DEF at

-----------------------------------------------------------------------------
(* The modules that are loaded are different, and each is what its file       *)
(* makes of it.                                                              *)
Different(list) ==
  \A i, j \in DOMAIN list : list[i].name = list[j].name => i = j
ElfInv == loadedModules \in Seq(Loadable) /\ Different(loadedModules)

(* What is left of a list keeps different names.                             *)
LEMMA SiftDifferent ==
  ASSUME NEW T, NEW K, NEW s \in Seq(T), Different(s)
  PROVE  Different(Sift(s, K))
<1>1. PICK kept : SiftedBy(kept, s, T, K)
  BY SiftUnfolds
<1> DEFINE n == Len(s)
           Good == {i \in 0 .. n :
                      /\ \A a \in DOMAIN kept[i] : \E p \in 1 .. i : kept[i][a] = s[p]
                      /\ Different(kept[i])}
<1>2. /\ n \in Nat /\ DOMAIN s = 1 .. n /\ kept[0] = << >> /\ Sift(s, K) = kept[n]
      /\ \A i \in 0 .. n : kept[i] \in Seq(T \cap K)
      /\ \A i \in 1 .. n : kept[i] = IF s[i] \in K THEN Append(kept[i - 1], s[i]) ELSE kept[i - 1]
  BY <1>1, LenProperties DEF SiftedBy, SiftSteps
<1>3. 0 \in Good
  BY <1>2 DEF Different
<1>4. ASSUME NEW i \in 1 .. n, i - 1 \in Good PROVE i \in Good
  <2> DEFINE before == kept[i - 1]  x == s[i]  after == kept[i]  l == Len(before)
  <2>1. /\ before \in Seq(T \cap K) /\ l \in Nat /\ DOMAIN before = 1 .. l /\ i \in 0 .. n
        /\ i - 1 \in 0 .. n
    BY <1>2, LenProperties
  <2>2. /\ \A a \in DOMAIN before : \E p \in 1 .. i - 1 : before[a] = s[p]
        /\ Different(before)
    BY <1>4
  <2>3. CASE x \notin K
    <3>1. after = before
      BY <1>2, <2>3
    <3>2. \A a \in DOMAIN before : \E p \in 1 .. i : before[a] = s[p]
      BY <2>2
    <3> QED
      BY <2>1, <2>2, <3>1, <3>2
  <2>4. CASE x \in K
    <3>1. after = Append(before, x)
      BY <1>2, <2>4
    <3>2. x \in T
      BY <1>2, ElementOfSeq
    <3> HIDE DEF before, x, after, l
    <3>3. /\ DOMAIN after = 1 .. l + 1 /\ after[l + 1] = x
          /\ \A a \in 1 .. l : after[a] = before[a]
      BY <2>1, <2>4, <3>1, <3>2, AppendProperties, LenProperties DEF l
    <3>4. \A a \in DOMAIN after : \E p \in 1 .. i : after[a] = s[p]
      <4> SUFFICES ASSUME NEW a \in 1 .. l + 1 PROVE \E p \in 1 .. i : after[a] = s[p]
        BY <3>3
      <4>1. CASE a = l + 1
        BY <3>3, <4>1 DEF x
      <4>2. CASE a \in 1 .. l
        <5>1. PICK p \in 1 .. i - 1 : before[a] = s[p]
          BY <2>1, <2>2, <4>2
        <5> QED
          BY <3>3, <4>2, <5>1
      <4> QED
        BY <2>1, <4>1, <4>2
    <3>5. Different(after)
      <4>1. ASSUME NEW a \in 1 .. l PROVE after[a].name # x.name
        <5>1. PICK p \in 1 .. i - 1 : before[a] = s[p]
          BY <2>1, <2>2
        <5>2. s[p].name = s[i].name => p = i
          BY <1>2 DEF Different
        <5> QED
          BY <3>3, <5>1, <5>2 DEF x
      <4>2. \A a, b \in 1 .. l : after[a].name = after[b].name => a = b
        BY <2>1, <2>2, <3>3 DEF Different
      <4> QED
        BY <2>1, <3>3, <4>1, <4>2 DEF Different
    <3> QED
      BY <2>1, <3>4, <3>5 DEF after
  <2> QED
    BY <2>3, <2>4
<1> HIDE DEF Good
<1>5. \A i \in 0 .. n : i \in Good
  BY <1>2, <1>3, <1>4, InductUpTo
<1> QED
  BY <1>2, <1>5 DEF Good

THEOREM ElfInvariant == ElfSpec => []ElfInv
<1>1. ElfInit => ElfInv
  <2> SUFFICES ASSUME ElfInit PROVE ElfInv
    OBVIOUS
  <2>1. loadedModules = << >>
    BY DEF ElfInit
  <2> QED
    BY <2>1, EmptySeq DEF ElfInv, Different
<1>2. ElfInv /\ [ElfNext]_elfVars => ElfInv'
  <2> SUFFICES ASSUME ElfInv, [ElfNext]_elfVars PROVE ElfInv'
    OBVIOUS
  <2>1. CASE UNCHANGED elfVars
    BY <2>1 DEF ElfInv, Different, elfVars
  <2>2. ASSUME NEW name \in DOMAIN Files, NEW base \in Bases, LoadModule(name, base)
        PROVE  ElfInv'
    <3> DEFINE m == LoadedModule(name, base)  l == Len(loadedModules)
    <3>1. /\ loadedModules' = Append(loadedModules, m)
          /\ \A i \in DOMAIN loadedModules : loadedModules[i].name # name
      BY <2>2 DEF LoadModule
    <3>2. m \in Loadable /\ m.name = name
      BY DEF Loadable, LoadedModule
    <3>3. loadedModules \in Seq(Loadable) /\ Different(loadedModules)
      BY DEF ElfInv
    <3> HIDE DEF m, l
    <3>4. /\ loadedModules' \in Seq(Loadable) /\ l \in Nat /\ DOMAIN loadedModules = 1 .. l
          /\ DOMAIN loadedModules' = 1 .. l + 1 /\ loadedModules'[l + 1] = m
          /\ \A i \in 1 .. l : loadedModules'[i] = loadedModules[i]
      BY <3>1, <3>2, <3>3, AppendProperties, LenProperties DEF l
    <3>5. Different(loadedModules')
      <4>1. \A i \in 1 .. l : loadedModules'[i].name # m.name
        BY <3>1, <3>2, <3>4
      <4>2. \A i, j \in 1 .. l : loadedModules'[i].name = loadedModules'[j].name => i = j
        BY <3>3, <3>4 DEF Different
      <4> QED
        BY <3>4, <4>1, <4>2 DEF Different
    <3> QED
      BY <3>4, <3>5 DEF ElfInv, Different
  <2>3. ASSUME NEW name \in DOMAIN Files, UnloadModule(name) PROVE ElfInv'
    <3> DEFINE K == {m \in {loadedModules[i] : i \in DOMAIN loadedModules} : m.name # name}
    <3>1. loadedModules' = Sift(loadedModules, K)
      BY <2>3 DEF UnloadModule
    <3> HIDE DEF K
    <3>2. loadedModules \in Seq(Loadable) /\ Different(loadedModules)
      BY DEF ElfInv
    <3>3. Sift(loadedModules, K) \in Seq(Loadable) /\ Different(Sift(loadedModules, K))
      BY <3>2, SiftType, SiftDifferent
    <3> QED
      BY <3>1, <3>3 DEF ElfInv, Different
  <2> QED
    BY <2>1, <2>2, <2>3 DEF ElfNext
<1> QED
  BY <1>1, <1>2, PTL DEF ElfSpec

(* Whatever files are loaded wherever, in any order: what is in memory is the *)
(* code the file describes, and what its relocations lead to is what they     *)
(* name.                                                                     *)
THEOREM ModulesAreSound == ElfSpec => []ModulesSound
<1>1. ElfInv => ModulesSound
  <2> SUFFICES ASSUME ElfInv, NEW n \in DOMAIN loadedModules
               PROVE  LET m == loadedModules[n] IN
                      /\ SectionsApart(m, Files[m.name])
                      /\ ExportsNameBytes(m, Files[m.name])
                      /\ FieldsLead(m, Files[m.name])
    BY DEF ModulesSound
  <2> DEFINE m == loadedModules[n]
  <2>1. m \in Loadable
    BY LenProperties, ElementOfSeq DEF ElfInv
  <2> HIDE DEF m
  <2>2. IsLoaded(m, Files[m.name], m.base)
    BY <2>1, LoadedIs
  <2>3. SectionsApart(m, Files[m.name]) /\ ExportsNameBytes(m, Files[m.name])
        /\ FieldsLead(m, Files[m.name])
    BY <2>2, LoadedApart, LoadedNames, LoadedFields
  <2> QED
    BY <2>3 DEF m
<1> QED
  BY <1>1, ElfInvariant, PTL

(* A module is in the list once, and the address find_symbol returns is one   *)
(* of the first module that has the name.                                    *)
THEOREM SymbolsAreLive == ElfSpec => []SymbolsLive
<1>1. ElfInv => SymbolsLive
  <2> SUFFICES ASSUME ElfInv PROVE SymbolsLive
    OBVIOUS
  <2>1. /\ loadedModules \in Seq(Loadable) /\ Different(loadedModules)
        /\ DOMAIN loadedModules = 1 .. Len(loadedModules) /\ Len(loadedModules) \in Nat
    BY LenProperties DEF ElfInv
  <2>2. ASSUME NEW i \in DOMAIN loadedModules, NEW symbol \in DOMAIN loadedModules[i].exports
        PROVE  \E j \in 1 .. i :
                 LET m == loadedModules[j]  file == Files[m.name] IN
                 /\ \E s \in ExportedBy(file) :
                      /\ file.symbols[s].name = symbol /\ Named(file, s)
                      /\ Within(file, s) => FindSymbol(symbol) - m.base \in DOMAIN m.memory
                 /\ \A k \in 1 .. j - 1 : symbol \notin DOMAIN loadedModules[k].exports
    <3> DEFINE those == {j \in DOMAIN loadedModules : symbol \in DOMAIN loadedModules[j].exports}
    <3>1. i \in those /\ those \subseteq Nat
      BY <2>1, <2>2
    <3>2. PICK j \in those : \A k \in those : j <= k
      <4> HIDE DEF those
      <4> QED
        BY <3>1, LeastExists
    <3>3. Min(those) = j
      <4> HIDE DEF those
      <4>1. \A k \in those : (\A y \in those : k <= y) => k = j
        BY <3>1, <3>2
      <4> QED
        BY <3>2, <4>1 DEF Min
    <3>4. /\ j \in 1 .. i /\ j \in DOMAIN loadedModules
          /\ symbol \in DOMAIN loadedModules[j].exports
      BY <2>1, <3>1, <3>2
    <3>5. \A k \in 1 .. j - 1 : symbol \notin DOMAIN loadedModules[k].exports
      BY <2>1, <3>2, <3>4
    <3>6. FindSymbol(symbol) = loadedModules[j].exports[symbol]
      BY <3>1, <3>3 DEF FindSymbol
    <3> DEFINE m == loadedModules[j]  file == Files[m.name]  s == ExportOf(file, symbol)
    <3>7. m \in Loadable
      BY <2>1, <3>4, ElementOfSeq
    <3>8. symbol \in DOMAIN m.exports /\ FindSymbol(symbol) = m.exports[symbol]
      BY <3>4, <3>6
    <3> HIDE DEF m, those
    <3>9. IsLoaded(m, file, m.base)
      BY <3>7, LoadedIs
    <3> HIDE DEF file
    <3>10. m.exports = Exports(file, m.base) /\ file \in ElfFile
      BY <3>9 DEF IsLoaded
    <3>11. PICK e \in ExportedBy(file) : file.symbols[e].name = symbol
      BY <3>8, <3>10 DEF Exports
    <3>12. s \in ExportedBy(file) /\ file.symbols[s].name = symbol
      <4> DEFINE same == {k \in ExportedBy(file) : file.symbols[k].name = symbol}
      <4>1. same \subseteq 1 .. Len(file.symbols) /\ Len(file.symbols) \in Nat /\ same # {}
        BY <3>10, <3>11, PartsOf DEF ExportedBy
      <4>2. s = Max(same)
        BY DEF ExportOf
      <4> HIDE DEF same
      <4>3. Max(same) \in same
        BY <4>1, LastOf
      <4> QED
        BY <4>2, <4>3 DEF same
    <3>13. Named(file, s)
      BY <3>12 DEF Named
    <3> HIDE DEF s
    <3>14. ASSUME Within(file, s) PROVE m.exports[symbol] - m.base \in DOMAIN m.memory
      <4>1. ExportsNameBytes(m, file)
        BY <3>9, LoadedNames
      <4>2. s \in DOMAIN file.symbols
        BY <3>12 DEF ExportedBy
      <4> QED
        BY <3>12, <3>13, <3>14, <4>1, <4>2 DEF ExportsNameBytes
    <3> QED
      BY <3>4, <3>5, <3>8, <3>12, <3>13, <3>14 DEF m, file
  <2> QED
    BY <2>1, <2>2 DEF SymbolsLive, Different
<1> QED
  BY <1>1, ElfInvariant, PTL

-----------------------------------------------------------------------------
(***************************************************************************)
(* System calls.  The numbers handed out are below the counters they come  *)
(* from; a job a call is still submitting has been answered to nobody; and *)
(* refusals are counted where they are charged.                            *)
(***************************************************************************)
PlainCalls ==
  {"open", "read", "unlink", "mkdir", "edge_result", "readdir", "wasm_call", "fork",
   "close", "p2p_recv", "xr_end_frame", "get_stats", "getpid"}
GivenNumbers == {"socket", "edge_submit", "quantum_submit"}
Calls == PlainCalls \cup GivenNumbers \cup {"write", "close_socket", "quantum_result", "security_check"}
Reply ==
  [by : Nat, call : Calls, arg : Int \cup Paths \cup Permissions \cup {"missing"}, result : Int]
SandboxRecord == [trust : {"kernel", "system", "user", "untrusted"}, violations : Nat]

ResultsExist(ans, fd, edge, queue) ==
  \A i \in DOMAIN ans :
    /\ ans[i].call = "socket" => ans[i].result < fd
    /\ ans[i].call = "edge_submit" => ans[i].result <= edge
    /\ ans[i].call = "quantum_submit" => ans[i].result \in DOMAIN queue /\ queue[ans[i].result]
NumbersApart(ans) ==
  \A i, k \in DOMAIN ans :
    i < k /\ ans[i].call = ans[k].call /\ ans[i].result = ans[k].result
      => ans[i].call \notin GivenNumbers
Kept(ans) ==
  \A i, k \in DOMAIN ans :
    i < k /\ ans[i].call = "quantum_submit" /\ ans[k].call = "quantum_result"
    /\ ans[k].arg = ans[i].result => ans[k].result = 0
Closed(ans, fd, i) ==
  \E k \in i + 1 .. Len(ans) : ans[k].call = "close_socket" /\ ans[k].arg = fd
StillOpen(ans, open) ==
  \A i \in DOMAIN ans :
    ans[i].call = "socket" => ans[i].result \in open \/ Closed(ans, ans[i].result, i)
Answered(ans, open, fd, edge, queue) ==
  /\ ans \in Seq(Reply)
  /\ ResultsExist(ans, fd, edge, queue) /\ NumbersApart(ans) /\ Kept(ans) /\ StillOpen(ans, open)

(* The jobs being submitted.                                                 *)
Unanswered(ans, j) == \A i \in DOMAIN ans : ans[i].call = "quantum_submit" => ans[i].result # j
Pending(sub, ans, queue) ==
  /\ \A p \in DOMAIN sub : sub[p] # 0 => sub[p] \in DOMAIN queue /\ Unanswered(ans, sub[p])
  /\ \A p, q \in DOMAIN sub : sub[p] # 0 /\ sub[p] = sub[q] => p = q

Refused(ans, p) ==
  {i \in DOMAIN ans : ans[i].call = "security_check" /\ ans[i].by = p /\ ans[i].result = 0}
CountedByPid(boxes, ans) ==
  \A p \in DOMAIN boxes : boxes[p].violations = Cardinality(Refused(ans, p))

SyscallsTypes ==
  /\ sandboxes \in Seq(SandboxRecord)
  /\ pcbs \in Seq([sandbox : Nat, live : BOOLEAN])
  /\ Len(sandboxes) = Len(pcbs) + 1
  /\ submitting \in Seq(Nat) /\ Len(submitting) = Len(pcbs)
  /\ onCpu \in 1 .. Len(pcbs)
  /\ openSockets \subseteq Int
  /\ nextFd \in Nat /\ edgeIds \in Nat /\ jobDone \in Seq(BOOLEAN)
  /\ \A i \in DOMAIN answers : answers[i].by \in 1 .. Len(pcbs)

SyscallsInv ==
  /\ SyscallsTypes
  /\ Answered(answers, openSockets, nextFd, edgeIds, jobDone)
  /\ Pending(submitting, answers, jobDone)
  /\ CountedByPid(sandboxes, answers)

-----------------------------------------------------------------------------
LEMMA ReplyAppended ==
  ASSUME NEW ans \in Seq(Reply), NEW a \in Reply
  PROVE  LET all == Append(ans, a)  n == Len(ans)
         IN /\ all \in Seq(Reply) /\ n \in Nat /\ Len(all) = n + 1
            /\ DOMAIN ans = 1 .. n /\ DOMAIN all = 1 .. n + 1 /\ all[n + 1] = a
            /\ \A i \in 1 .. n : all[i] = ans[i]
            /\ \A i \in 1 .. n : ans[i].result \in Int
            /\ \A i \in 1 .. n + 1 : i \in 1 .. n \/ i = n + 1
<1>1. /\ Append(ans, a) \in Seq(Reply) /\ Len(ans) \in Nat /\ DOMAIN ans = 1 .. Len(ans)
      /\ Len(Append(ans, a)) = Len(ans) + 1
      /\ DOMAIN Append(ans, a) = 1 .. Len(ans) + 1
      /\ Append(ans, a)[Len(ans) + 1] = a
      /\ \A i \in 1 .. Len(ans) : Append(ans, a)[i] = ans[i]
  BY AppendProperties, LenProperties
<1>2. \A i \in 1 .. Len(ans) : ans[i] \in Reply
  BY ElementOfSeq
<1>3. \A r \in Reply : r.result \in Int
  BY DEF Reply
<1> HIDE DEF Reply
<1> QED
  BY <1>1, <1>2, <1>3

\* What an answer must be, for all of them to hold together.
Fits(a, ans, open, fd, edge, queue, open2, fd2, edge2, jobs2) ==
  /\ fd <= fd2 /\ edge <= edge2
  /\ \A j \in DOMAIN queue : j \in DOMAIN jobs2 /\ (queue[j] => jobs2[j])
  /\ a.call = "socket" => a.result = fd /\ fd < fd2 /\ fd \in open2
  /\ a.call = "edge_submit" => a.result = edge + 1 /\ edge2 = edge + 1
  /\ a.call = "quantum_submit" =>
       a.result \in DOMAIN jobs2 /\ jobs2[a.result] /\ Unanswered(ans, a.result)
  /\ a.call = "quantum_result" => (a.arg \in DOMAIN queue /\ queue[a.arg] => a.result = 0)
  /\ \A s \in open : s \in open2 \/ (a.call = "close_socket" /\ a.arg = s)

LEMMA AnsweredGrows ==
  ASSUME NEW ans, NEW open, NEW fd \in Nat, NEW edge \in Nat, NEW queue,
         NEW open2, NEW fd2 \in Nat, NEW edge2 \in Nat, NEW jobs2, NEW a \in Reply,
         Answered(ans, open, fd, edge, queue),
         Fits(a, ans, open, fd, edge, queue, open2, fd2, edge2, jobs2)
  PROVE  Answered(Append(ans, a), open2, fd2, edge2, jobs2)
<1> DEFINE all == Append(ans, a)  n == Len(ans)
<1>1. /\ all \in Seq(Reply) /\ n \in Nat /\ Len(all) = n + 1
      /\ DOMAIN ans = 1 .. n /\ DOMAIN all = 1 .. n + 1 /\ all[n + 1] = a
      /\ \A i \in 1 .. n : all[i] = ans[i]
      /\ \A i \in 1 .. n : ans[i].result \in Int
      /\ \A i \in 1 .. n + 1 : i \in 1 .. n \/ i = n + 1
  <2>1. ans \in Seq(Reply)
    BY DEF Answered
  <2> QED
    BY <2>1, ReplyAppended
<1>2. ResultsExist(ans, fd, edge, queue) /\ NumbersApart(ans) /\ Kept(ans) /\ StillOpen(ans, open)
  BY DEF Answered
<1> HIDE DEF all, n
<1>3. ResultsExist(all, fd2, edge2, jobs2)
  <2> SUFFICES ASSUME NEW i \in 1 .. n + 1
               PROVE  /\ all[i].call = "socket" => all[i].result < fd2
                      /\ all[i].call = "edge_submit" => all[i].result <= edge2
                      /\ all[i].call = "quantum_submit" =>
                           all[i].result \in DOMAIN jobs2 /\ jobs2[all[i].result]
    BY <1>1 DEF ResultsExist
  <2>1. CASE i \in 1 .. n
    <3>1. /\ ans[i].call = "socket" => ans[i].result < fd
          /\ ans[i].call = "edge_submit" => ans[i].result <= edge
          /\ ans[i].call = "quantum_submit" =>
               ans[i].result \in DOMAIN queue /\ queue[ans[i].result]
      BY <1>1, <1>2, <2>1 DEF ResultsExist
    <3>2. all[i] = ans[i] /\ ans[i].result \in Int
      BY <1>1, <2>1
    <3> QED
      BY <3>1, <3>2 DEF Fits
  <2>2. CASE i = n + 1
    BY <1>1, <2>2 DEF Fits
  <2> QED
    BY <1>1, <2>1, <2>2
<1>4. NumbersApart(all)
  <2> SUFFICES ASSUME NEW i \in 1 .. n + 1, NEW k \in 1 .. n + 1, i < k,
                      all[i].call = all[k].call, all[i].result = all[k].result,
                      all[i].call \in GivenNumbers
               PROVE  FALSE
    BY <1>1 DEF NumbersApart
  <2>1. i \in 1 .. n
    BY <1>1
  <2>2. CASE k \in 1 .. n
    BY <1>1, <1>2, <2>1, <2>2 DEF NumbersApart
  <2>3. CASE k = n + 1
    <3>1. all[k] = a /\ all[i] = ans[i] /\ ans[i].result \in Int
      BY <1>1, <2>1, <2>3
    <3>2. /\ ans[i].call = "socket" => ans[i].result < fd
          /\ ans[i].call = "edge_submit" => ans[i].result <= edge
      BY <1>1, <1>2, <2>1 DEF ResultsExist
    <3>3. a.call # "socket"
      BY <3>1, <3>2 DEF Fits
    <3>4. a.call # "edge_submit"
      BY <3>1, <3>2 DEF Fits
    <3>5. a.call # "quantum_submit"
      BY <1>1, <2>1, <3>1 DEF Fits, Unanswered
    <3> QED
      BY <3>1, <3>3, <3>4, <3>5 DEF GivenNumbers
  <2> QED
    BY <1>1, <2>2, <2>3
<1>5. Kept(all)
  <2> SUFFICES ASSUME NEW i \in 1 .. n + 1, NEW k \in 1 .. n + 1, i < k,
                      all[i].call = "quantum_submit", all[k].call = "quantum_result",
                      all[k].arg = all[i].result
               PROVE  all[k].result = 0
    BY <1>1 DEF Kept
  <2>1. i \in 1 .. n
    BY <1>1
  <2>2. CASE k \in 1 .. n
    BY <1>1, <1>2, <2>1, <2>2 DEF Kept
  <2>3. CASE k = n + 1
    <3>1. all[k] = a /\ all[i] = ans[i]
      BY <1>1, <2>1, <2>3
    <3>2. ans[i].result \in DOMAIN queue /\ queue[ans[i].result]
      BY <1>1, <1>2, <2>1, <3>1 DEF ResultsExist
    <3> QED
      BY <3>1, <3>2 DEF Fits
  <2> QED
    BY <1>1, <2>2, <2>3
<1>6. StillOpen(all, open2)
  <2> SUFFICES ASSUME NEW i \in 1 .. n + 1, all[i].call = "socket",
                      all[i].result \notin open2
               PROVE  Closed(all, all[i].result, i)
    BY <1>1 DEF StillOpen
  <2>1. i \in 1 .. n
    BY <1>1 DEF Fits
  <2>2. all[i] = ans[i]
    BY <1>1, <2>1
  <2>3. CASE ans[i].result \in open
    <3>1. a.call = "close_socket" /\ a.arg = ans[i].result
      BY <2>2, <2>3 DEF Fits
    <3>2. n + 1 \in i + 1 .. n + 1
      BY <1>1, <2>1
    <3> QED
      BY <1>1, <2>2, <3>1, <3>2 DEF Closed
  <2>4. CASE ans[i].result \notin open
    <3>1. Closed(ans, ans[i].result, i)
      BY <1>1, <1>2, <2>1, <2>2, <2>4 DEF StillOpen
    <3>2. PICK k \in i + 1 .. n : ans[k].call = "close_socket" /\ ans[k].arg = ans[i].result
      BY <3>1 DEF Closed, n
    <3>3. k \in i + 1 .. n + 1 /\ all[k] = ans[k]
      BY <1>1, <2>1, <3>2
    <3> QED
      BY <1>1, <2>2, <3>2, <3>3 DEF Closed
  <2> QED
    BY <2>3, <2>4
<1>7. Answered(all, open2, fd2, edge2, jobs2)
  BY <1>1, <1>3, <1>4, <1>5, <1>6 DEF Answered
<1> QED
  BY <1>7 DEF all

LEMMA PendingGrows ==
  ASSUME NEW ans \in Seq(Reply), NEW sub, NEW queue, NEW a \in Reply,
         Pending(sub, ans, queue), a.call # "quantum_submit"
  PROVE  Pending(sub, Append(ans, a), queue)
<1> DEFINE all == Append(ans, a)  n == Len(ans)
<1>1. /\ n \in Nat /\ DOMAIN ans = 1 .. n /\ DOMAIN all = 1 .. n + 1 /\ all[n + 1] = a
      /\ \A i \in 1 .. n : all[i] = ans[i]
      /\ \A i \in 1 .. n + 1 : i \in 1 .. n \/ i = n + 1
  BY ReplyAppended
<1> HIDE DEF all, n
<1>2. \A j : Unanswered(ans, j) => Unanswered(all, j)
  BY <1>1 DEF Unanswered
<1>3. Pending(sub, all, queue)
  BY <1>2 DEF Pending
<1> QED
  BY <1>3 DEF all

LEMMA RefusedGrows ==
  ASSUME NEW ans \in Seq(Reply), NEW a \in Reply, NEW p
  PROVE  /\ Cardinality(Refused(ans, p)) \in Nat
         /\ Cardinality(Refused(Append(ans, a), p)) =
              Cardinality(Refused(ans, p))
              + (IF a.call = "security_check" /\ a.by = p /\ a.result = 0 THEN 1 ELSE 0)
<1> DEFINE all == Append(ans, a)  n == Len(ans)  old == Refused(ans, p)
           hit == a.call = "security_check" /\ a.by = p /\ a.result = 0
<1>1. /\ n \in Nat /\ DOMAIN ans = 1 .. n /\ DOMAIN all = 1 .. n + 1 /\ all[n + 1] = a
      /\ \A i \in 1 .. n : all[i] = ans[i]
      /\ \A i \in 1 .. n + 1 : i \in 1 .. n \/ i = n + 1
  BY ReplyAppended
<1>2. Refused(all, p) = old \cup (IF hit THEN {n + 1} ELSE {})
  <2> HIDE DEF all, n
  <2> QED
    BY <1>1 DEF Refused
<1>3. old \subseteq 1 .. n /\ n + 1 \notin old
  <2> HIDE DEF all, n
  <2> QED
    BY <1>1 DEF Refused
<1> HIDE DEF old, all, n, hit
<1>5. Cardinality(old) \in Nat /\ Cardinality(old \cup {n + 1}) = Cardinality(old) + 1
  BY <1>1, <1>3, OneMore
<1>7. old \cup {} = old
  OBVIOUS
<1>8. CASE hit
  <2>1. Cardinality(Refused(all, p)) = Cardinality(old) + 1
    BY <1>2, <1>5, <1>8
  <2> QED
    BY <1>5, <1>8, <2>1 DEF old, all, hit
<1>9. CASE ~hit
  <2>1. Cardinality(Refused(all, p)) = Cardinality(old)
    BY <1>2, <1>7, <1>9
  <2> QED
    BY <1>5, <1>9, <2>1 DEF old, all, hit
<1> QED
  BY <1>8, <1>9

\* An answer that refuses nothing charges nobody.
LEMMA ChargedGrows ==
  ASSUME NEW ans \in Seq(Reply), NEW a \in Reply, NEW boxes, CountedByPid(boxes, ans),
         ~ (a.call = "security_check" /\ a.result = 0)
  PROVE  CountedByPid(boxes, Append(ans, a))
<1> SUFFICES ASSUME NEW p \in DOMAIN boxes
             PROVE  boxes[p].violations = Cardinality(Refused(Append(ans, a), p))
  BY DEF CountedByPid
<1>1. boxes[p].violations = Cardinality(Refused(ans, p))
  BY DEF CountedByPid
<1>2. /\ Cardinality(Refused(ans, p)) \in Nat
      /\ Cardinality(Refused(Append(ans, a), p)) =
           Cardinality(Refused(ans, p))
           + (IF a.call = "security_check" /\ a.by = p /\ a.result = 0 THEN 1 ELSE 0)
  BY RefusedGrows
<1> QED
  BY <1>1, <1>2

\* A call of process onCpu that is not a submission's and charges nobody.
LEMMA Harmless ==
  ASSUME SyscallsInv, NEW a \in Reply, a.by = onCpu, answers' = Append(answers, a),
         a.call # "quantum_submit", ~ (a.call = "security_check" /\ a.result = 0),
         openSockets' \subseteq Int, nextFd' \in Nat, edgeIds' \in Nat,
         UNCHANGED << sandboxes, jobDone, submitting >>,
         UNCHANGED pcbs, onCpu' \in 1 .. Len(pcbs),
         Fits(a, answers, openSockets, nextFd, edgeIds, jobDone,
              openSockets', nextFd', edgeIds', jobDone)
  PROVE  SyscallsInv'
<1> DEFINE all == Append(answers, a)
<1>1. answers \in Seq(Reply) /\ SyscallsTypes
  BY DEF SyscallsInv, Answered
<1>2. Answered(all, openSockets', nextFd', edgeIds', jobDone)
  BY <1>1, AnsweredGrows DEF SyscallsInv, SyscallsTypes
<1>3. Pending(submitting, all, jobDone) /\ CountedByPid(sandboxes, all)
  BY <1>1, PendingGrows, ChargedGrows DEF SyscallsInv
<1>4. \A i \in DOMAIN all : all[i].by \in 1 .. Len(pcbs)
  <2>1. \A i \in DOMAIN answers : answers[i].by \in 1 .. Len(pcbs)
    BY <1>1 DEF SyscallsTypes
  <2>2. /\ DOMAIN answers = 1 .. Len(answers) /\ all[Len(answers) + 1] = a
        /\ \A i \in 1 .. Len(answers) : all[i] = answers[i]
        /\ DOMAIN all = 1 .. Len(answers) + 1
        /\ \A i \in 1 .. Len(answers) + 1 : i \in 1 .. Len(answers) \/ i = Len(answers) + 1
    BY <1>1, ReplyAppended
  <2>3. a.by \in 1 .. Len(pcbs)
    BY <1>1 DEF SyscallsTypes
  <2> HIDE DEF all
  <2> QED
    BY <2>1, <2>2, <2>3
<1> HIDE DEF all
<1>5. answers' = all /\ Len(pcbs') = Len(pcbs) /\ pcbs' \in Seq([sandbox : Nat, live : BOOLEAN])
  BY <1>1 DEF all, SyscallsTypes
<1>6. SyscallsTypes'
  BY <1>1, <1>4, <1>5 DEF SyscallsTypes
<1>7. /\ Answered(answers', openSockets', nextFd', edgeIds', jobDone')
      /\ Pending(submitting', answers', jobDone') /\ CountedByPid(sandboxes', answers')
  BY <1>2, <1>3, <1>5
<1> QED
  BY <1>6, <1>7 DEF SyscallsInv

LEMMA SyscallsStart == SyscallsInit => SyscallsInv
<1> SUFFICES ASSUME SyscallsInit PROVE SyscallsInv
  OBVIOUS
<1>1. /\ answers = << >> /\ << >> \in Seq(Reply) /\ << >> \in Seq(BOOLEAN)
      /\ DOMAIN answers = {} /\ jobDone = << >>
  BY EmptySeq DEF SyscallsInit
<1>2. Answered(answers, openSockets, nextFd, edgeIds, jobDone)
  BY <1>1 DEF Answered, ResultsExist, NumbersApart, Kept, StillOpen
<1>3. Pending(submitting, answers, jobDone)
  BY DEF SyscallsInit, Pending
<1>4. CountedByPid(sandboxes, answers)
  <2>1. \A p : Refused(answers, p) = {}
    BY <1>1 DEF Refused
  <2>2. \A p \in DOMAIN sandboxes : sandboxes[p].violations = 0
    BY DEF SyscallsInit, Sandbox
  <2>3. Cardinality({}) = 0
    BY FS_EmptySet
  <2> QED
    BY <2>1, <2>2, <2>3 DEF CountedByPid
<1>5. SyscallsTypes
  <2>1. Sandbox("system") \in SandboxRecord /\ Sandbox("kernel") \in SandboxRecord
    BY DEF Sandbox, SandboxRecord
  <2>2. sandboxes \in Seq(SandboxRecord) /\ Len(sandboxes) = 3
    BY <2>1 DEF SyscallsInit
  <2>3. pcbs \in Seq([sandbox : Nat, live : BOOLEAN]) /\ Len(pcbs) = 2
    BY DEF SyscallsInit
  <2>4. submitting \in Seq(Nat) /\ Len(submitting) = 2
    BY DEF SyscallsInit
  <2> QED
    BY <1>1, <2>2, <2>3, <2>4 DEF SyscallsInit, SyscallsTypes
<1> QED
  BY <1>2, <1>3, <1>4, <1>5 DEF SyscallsInv

LEMMA SpawnKeeps ==
  ASSUME SyscallsInv, SpawnTask
  PROVE  SyscallsInv'
<1> DEFINE boxes == Append(sandboxes, Sandbox("system"))
           procs == Append(pcbs, [sandbox |-> Len(boxes), live |-> TRUE])
           sub == Append(submitting, 0)
           n == Len(sandboxes)  m == Len(pcbs)
<1>1. /\ sandboxes' = boxes /\ pcbs' = procs /\ submitting' = sub
      /\ UNCHANGED << onCpu, openSockets, nextFd, jobDone, edgeIds, answers >>
  BY DEF SpawnTask
<1>2. SyscallsTypes /\ answers \in Seq(Reply) /\ DOMAIN answers = 1 .. Len(answers)
  BY LenProperties DEF SyscallsInv, Answered
<1>3. n \in Nat /\ m \in Nat /\ n = m + 1 /\ DOMAIN sandboxes = 1 .. n
      /\ DOMAIN submitting = 1 .. m /\ Len(submitting) = m
  BY <1>2, LenProperties DEF SyscallsTypes
<1>4. /\ boxes \in Seq(SandboxRecord) /\ Len(boxes) = n + 1
      /\ DOMAIN boxes = 1 .. n + 1 /\ boxes[n + 1].violations = 0
      /\ \A p \in 1 .. n : boxes[p] = sandboxes[p]
  <2>1. Sandbox("system") \in SandboxRecord /\ Sandbox("system").violations = 0
    BY DEF Sandbox, SandboxRecord
  <2>2. sandboxes \in Seq(SandboxRecord)
    BY <1>2 DEF SyscallsTypes
  <2> DEFINE b == Sandbox("system")
  <2>3. b \in SandboxRecord /\ b.violations = 0 /\ boxes = Append(sandboxes, b)
    BY <2>1
  <2> HIDE DEF boxes, b
  <2>4. /\ boxes \in Seq(SandboxRecord) /\ Len(boxes) = n + 1
        /\ DOMAIN boxes = 1 .. n + 1 /\ boxes[n + 1] = b
        /\ \A p \in 1 .. n : boxes[p] = sandboxes[p]
    BY <2>2, <2>3, AppendProperties, LenProperties
  <2> QED
    BY <2>3, <2>4
<1>5. /\ procs \in Seq([sandbox : Nat, live : BOOLEAN]) /\ Len(procs) = m + 1
  <2>1. [sandbox |-> Len(boxes), live |-> TRUE] \in [sandbox : Nat, live : BOOLEAN]
    BY <1>3, <1>4
  <2> HIDE DEF boxes
  <2> QED
    BY <1>2, <2>1, AppendProperties DEF SyscallsTypes
<1>6. /\ sub \in Seq(Nat) /\ Len(sub) = m + 1 /\ DOMAIN sub = 1 .. m + 1 /\ sub[m + 1] = 0
      /\ \A p \in 1 .. m : sub[p] = submitting[p]
  <2>1. 0 \in Nat /\ submitting \in Seq(Nat) /\ Len(submitting) = m
    BY <1>2 DEF SyscallsTypes
  <2>2. /\ sub \in Seq(Nat) /\ Len(sub) = Len(submitting) + 1
        /\ sub[Len(submitting) + 1] = 0 /\ DOMAIN sub = 1 .. Len(submitting) + 1
        /\ \A p \in 1 .. Len(submitting) : sub[p] = submitting[p]
    BY <2>1, AppendProperties, LenProperties
  <2> HIDE DEF sub, m
  <2> QED
    BY <2>1, <2>2
<1> HIDE DEF boxes, procs, sub, n, m
<1>7. Pending(sub, answers, jobDone)
  <2>1. Pending(submitting, answers, jobDone)
    BY DEF SyscallsInv
  <2>2. \A p \in 1 .. m + 1 : sub[p] # 0 => p \in 1 .. m
    BY <1>3, <1>6
  <2> QED
    BY <1>3, <1>6, <2>1, <2>2 DEF Pending
<1>8. CountedByPid(boxes, answers)
  <2> SUFFICES ASSUME NEW p \in 1 .. n + 1
               PROVE  boxes[p].violations = Cardinality(Refused(answers, p))
    BY <1>4 DEF CountedByPid
  <2>1. CASE p \in 1 .. n
    BY <1>3, <1>4, <2>1 DEF SyscallsInv, CountedByPid
  <2>2. CASE p = n + 1
    <3>1. \A i \in DOMAIN answers : answers[i].by # p
      <4>1. \A i \in DOMAIN answers : answers[i].by \in 1 .. m
        BY <1>2 DEF SyscallsTypes, m
      <4>2. p \notin 1 .. m
        BY <1>3, <2>2
      <4> QED
        BY <4>1, <4>2
    <3>2. Refused(answers, p) = {}
      BY <3>1 DEF Refused
    <3>3. Cardinality({}) = 0
      BY FS_EmptySet
    <3> QED
      BY <1>4, <2>2, <3>2, <3>3
  <2> QED
    BY <1>3, <2>1, <2>2
<1>9. SyscallsTypes'
  <2>1. \A i \in DOMAIN answers : answers[i].by \in 1 .. m + 1
    BY <1>2, <1>3 DEF SyscallsTypes, m
  <2>2. onCpu \in 1 .. m + 1
    BY <1>2, <1>3 DEF SyscallsTypes, m
  <2> QED
    BY <1>1, <1>2, <1>3, <1>4, <1>5, <1>6, <2>1, <2>2 DEF SyscallsTypes
<1>10. Answered(answers, openSockets, nextFd, edgeIds, jobDone)
  BY DEF SyscallsInv
<1>11. /\ Answered(answers', openSockets', nextFd', edgeIds', jobDone')
       /\ Pending(submitting', answers', jobDone') /\ CountedByPid(sandboxes', answers')
  BY <1>1, <1>7, <1>8, <1>10
<1> QED
  BY <1>9, <1>11 DEF SyscallsInv

\* One lock of QUANTUM: the job is queued, and nobody knows its number.
LEMMA SubmitKeeps ==
  ASSUME SyscallsInv, SysQuantumSubmit
  PROVE  SyscallsInv'
<1> DEFINE queue == Append(jobDone, FALSE)  j == Len(jobDone) + 1
           sub == [submitting EXCEPT ![onCpu] = j]  m == Len(pcbs)
<1>1. SyscallsTypes /\ answers \in Seq(Reply)
      /\ Answered(answers, openSockets, nextFd, edgeIds, jobDone)
      /\ Pending(submitting, answers, jobDone) /\ CountedByPid(sandboxes, answers)
  BY DEF SyscallsInv, Answered
<1>2. /\ queue \in Seq(BOOLEAN) /\ Len(queue) = j /\ j \in Nat \ {0}
      /\ DOMAIN queue = 1 .. j /\ DOMAIN jobDone = 1 .. j - 1
      /\ \A i \in 1 .. j - 1 : queue[i] = jobDone[i]
  <2>1. Len(jobDone) \in Nat /\ j - 1 = Len(jobDone)
    BY <1>1, LenProperties DEF SyscallsTypes
  <2>2. FALSE \in BOOLEAN /\ jobDone \in Seq(BOOLEAN)
    BY <1>1 DEF SyscallsTypes
  <2>3. /\ queue \in Seq(BOOLEAN) /\ Len(queue) = Len(jobDone) + 1
        /\ DOMAIN queue = 1 .. Len(jobDone) + 1 /\ DOMAIN jobDone = 1 .. Len(jobDone)
        /\ \A i \in 1 .. Len(jobDone) : queue[i] = jobDone[i]
    BY <2>2, AppendProperties, LenProperties
  <2> HIDE DEF queue
  <2> QED
    BY <2>1, <2>3
<1>3. /\ submitting \in Seq(Nat) /\ Len(submitting) = m /\ DOMAIN submitting = 1 .. m
      /\ onCpu \in 1 .. m /\ m \in Nat
  BY <1>1, LenProperties DEF SyscallsTypes
<1>4. /\ sub \in Seq(Nat) /\ Len(sub) = m /\ DOMAIN sub = 1 .. m
      /\ \A p \in 1 .. m : sub[p] = IF p = onCpu THEN j ELSE submitting[p]
  <2> HIDE DEF j, m
  <2> QED
    BY <1>2, <1>3
<1>5. /\ jobDone' = queue /\ submitting' = sub
      /\ UNCHANGED << sandboxes, pcbs, onCpu, openSockets, nextFd, edgeIds, answers >>
  <2>1. jobDone' = queue /\ submitting' = [submitting EXCEPT ![onCpu] = Len(jobDone')]
        /\ UNCHANGED << sandboxes, pcbs, onCpu, openSockets, nextFd, edgeIds, answers >>
    BY DEF SysQuantumSubmit
  <2>2. Len(jobDone') = j
    BY <1>2, <2>1
  <2> QED
    BY <2>1, <2>2
<1> HIDE DEF queue, j, sub, m
<1>6. Answered(answers, openSockets, nextFd, edgeIds, queue)
  <2>1. ResultsExist(answers, nextFd, edgeIds, jobDone)
    BY <1>1 DEF Answered
  <2>2. \A i \in DOMAIN jobDone : i \in DOMAIN queue /\ queue[i] = jobDone[i]
    BY <1>2
  <2>3. ResultsExist(answers, nextFd, edgeIds, queue)
    BY <2>1, <2>2 DEF ResultsExist
  <2> QED
    BY <1>1, <2>3 DEF Answered
<1>7. Pending(sub, answers, queue)
  <2>1. Unanswered(answers, j)
    <3>1. j \notin DOMAIN jobDone
      BY <1>2
    <3> QED
      BY <1>1, <3>1 DEF Answered, ResultsExist, Unanswered
  <2>2. \A p \in 1 .. m : submitting[p] # 0 => submitting[p] \in DOMAIN jobDone
                                               /\ Unanswered(answers, submitting[p])
    BY <1>1, <1>3 DEF Pending
  <2>3. \A p \in 1 .. m : submitting[p] # j
    BY <1>2, <2>2
  <2>4. \A i \in DOMAIN jobDone : i \in DOMAIN queue
    BY <1>2
  <2>5. j \in DOMAIN queue
    BY <1>2
  <2>6. \A p \in 1 .. m : sub[p] # 0 => sub[p] \in DOMAIN queue /\ Unanswered(answers, sub[p])
    BY <1>4, <2>1, <2>2, <2>4, <2>5
  <2>7. \A p, q \in 1 .. m : sub[p] # 0 /\ sub[p] = sub[q] => p = q
    <3>1. \A p, q \in 1 .. m : submitting[p] # 0 /\ submitting[p] = submitting[q] => p = q
      BY <1>1, <1>3 DEF Pending
    <3> QED
      BY <1>4, <2>3, <3>1
  <2> QED
    BY <1>4, <2>6, <2>7 DEF Pending
<1>8. SyscallsTypes'
  BY <1>1, <1>2, <1>4, <1>5 DEF SyscallsTypes, m
<1>9. /\ Answered(answers', openSockets', nextFd', edgeIds', jobDone')
      /\ Pending(submitting', answers', jobDone') /\ CountedByPid(sandboxes', answers')
  BY <1>1, <1>5, <1>6, <1>7
<1> QED
  BY <1>8, <1>9 DEF SyscallsInv

\* The next: every job is done, and the caller has its number.
LEMMA ProcessKeeps ==
  ASSUME SyscallsInv, SysQuantumProcess
  PROVE  SyscallsInv'
<1> DEFINE j == submitting[onCpu]  m == Len(pcbs)
           a == [by |-> onCpu, call |-> "quantum_submit", arg |-> 0, result |-> j]
           all == Append(answers, a)
           sub == [submitting EXCEPT ![onCpu] = 0]
<1>1. SyscallsTypes /\ answers \in Seq(Reply)
      /\ Answered(answers, openSockets, nextFd, edgeIds, jobDone)
      /\ Pending(submitting, answers, jobDone) /\ CountedByPid(sandboxes, answers)
  BY DEF SyscallsInv, Answered
<1>2. /\ j # 0 /\ jobDone' = AllDone /\ submitting' = sub /\ answers' = all
      /\ UNCHANGED << sandboxes, pcbs, onCpu, openSockets, nextFd, edgeIds >>
  BY DEF SysQuantumProcess, Answer
<1>3. /\ submitting \in Seq(Nat) /\ Len(submitting) = m /\ DOMAIN submitting = 1 .. m
      /\ onCpu \in 1 .. m /\ m \in Nat /\ j \in Nat
  BY <1>1, LenProperties, ElementOfSeq DEF SyscallsTypes
<1>4. /\ sub \in Seq(Nat) /\ Len(sub) = m /\ DOMAIN sub = 1 .. m
      /\ \A p \in 1 .. m : sub[p] = IF p = onCpu THEN 0 ELSE submitting[p]
  <2> HIDE DEF m
  <2> QED
    BY <1>3
<1>5. a \in Reply /\ a.by = onCpu /\ a.call = "quantum_submit" /\ a.result = j
  <2>1. onCpu \in Nat /\ 0 \in Int /\ j \in Int /\ "quantum_submit" \in Calls
    BY <1>3 DEF Calls, GivenNumbers
  <2> HIDE DEF j
  <2> QED
    BY <2>1 DEF Reply
<1>6. /\ AllDone \in Seq(BOOLEAN) /\ DOMAIN AllDone = DOMAIN jobDone
      /\ \A i \in DOMAIN jobDone : AllDone[i]
  <2>1. jobDone \in Seq(BOOLEAN) /\ DOMAIN jobDone = 1 .. Len(jobDone) /\ Len(jobDone) \in Nat
    BY <1>1, LenProperties DEF SyscallsTypes
  <2>2. AllDone \in [1 .. Len(jobDone) -> BOOLEAN]
    BY <2>1 DEF AllDone
  <2> QED
    BY <2>1, <2>2 DEF AllDone
<1>7. j \in DOMAIN jobDone /\ Unanswered(answers, j)
  BY <1>1, <1>2, <1>3 DEF Pending
<1> HIDE DEF j, m, a, all, sub
<1>8. Answered(all, openSockets, nextFd, edgeIds, AllDone)
  <2>1. Fits(a, answers, openSockets, nextFd, edgeIds, jobDone,
             openSockets, nextFd, edgeIds, AllDone)
    <3>1. nextFd \in Nat /\ edgeIds \in Nat
      BY <1>1 DEF SyscallsTypes
    <3> QED
      BY <1>5, <1>6, <1>7, <3>1 DEF Fits
  <2>2. nextFd \in Nat /\ edgeIds \in Nat
    BY <1>1 DEF SyscallsTypes
  <2> QED
    BY <1>1, <1>5, <2>1, <2>2, AnsweredGrows DEF all
<1>9. /\ DOMAIN answers = 1 .. Len(answers) /\ all[Len(answers) + 1] = a
      /\ \A i \in 1 .. Len(answers) : all[i] = answers[i]
      /\ DOMAIN all = 1 .. Len(answers) + 1
      /\ \A i \in 1 .. Len(answers) + 1 : i \in 1 .. Len(answers) \/ i = Len(answers) + 1
  BY <1>1, <1>5, ReplyAppended DEF all
<1>10. Pending(sub, all, AllDone)
  <2>1. /\ \A p \in 1 .. m : submitting[p] # 0 => submitting[p] \in DOMAIN jobDone
                                                  /\ Unanswered(answers, submitting[p])
        /\ \A p, q \in 1 .. m : submitting[p] # 0 /\ submitting[p] = submitting[q] => p = q
    BY <1>1, <1>3 DEF Pending
  <2>2. \A p \in 1 .. m : p # onCpu => submitting[p] # j
    BY <1>2, <1>3, <2>1 DEF j
  <2>3. \A i : i # j /\ Unanswered(answers, i) => Unanswered(all, i)
    BY <1>5, <1>9 DEF Unanswered
  <2>4. \A p \in 1 .. m : sub[p] # 0 => sub[p] \in DOMAIN AllDone /\ Unanswered(all, sub[p])
    BY <1>4, <1>6, <2>1, <2>2, <2>3
  <2>5. \A p, q \in 1 .. m : sub[p] # 0 /\ sub[p] = sub[q] => p = q
    BY <1>4, <2>1
  <2> QED
    BY <1>4, <2>4, <2>5 DEF Pending
<1>11. CountedByPid(sandboxes, all)
  BY <1>1, <1>5, ChargedGrows DEF all
<1>12. SyscallsTypes'
  <2>1. \A i \in DOMAIN all : all[i].by \in 1 .. Len(pcbs)
    BY <1>1, <1>3, <1>5, <1>9 DEF SyscallsTypes, m
  <2> QED
    BY <1>1, <1>2, <1>4, <1>6, <2>1 DEF SyscallsTypes, m
<1>13. /\ Answered(answers', openSockets', nextFd', edgeIds', jobDone')
       /\ Pending(submitting', answers', jobDone') /\ CountedByPid(sandboxes', answers')
  BY <1>2, <1>8, <1>10, <1>11
<1> QED
  BY <1>12, <1>13 DEF SyscallsInv

\* An answer that hands nothing out.
LEMMA PlainHarmless ==
  ASSUME SyscallsInv, NEW a \in Reply, a.by = onCpu, answers' = Append(answers, a),
         a.call \notin GivenNumbers \cup {"security_check"},
         a.call = "quantum_result" =>
           (a.arg \in DOMAIN jobDone /\ jobDone[a.arg] => a.result = 0),
         UNCHANGED << sandboxes, pcbs, onCpu, openSockets, nextFd, jobDone, submitting, edgeIds >>
  PROVE  SyscallsInv'
<1>1. SyscallsTypes
  BY DEF SyscallsInv
<1>2. openSockets \subseteq Int /\ nextFd \in Nat /\ edgeIds \in Nat /\ onCpu \in 1 .. Len(pcbs)
  BY <1>1 DEF SyscallsTypes
<1>3. Fits(a, answers, openSockets, nextFd, edgeIds, jobDone,
           openSockets', nextFd', edgeIds', jobDone)
  BY <1>2 DEF Fits, GivenNumbers
<1>4. a.call # "quantum_submit" /\ ~ (a.call = "security_check" /\ a.result = 0)
  BY DEF GivenNumbers
<1>5. openSockets' \subseteq Int /\ nextFd' \in Nat /\ edgeIds' \in Nat /\ onCpu' \in 1 .. Len(pcbs)
  BY <1>2
<1> QED
  BY <1>3, <1>4, <1>5, Harmless

\* The reply of a call of the process on the processor.
LEMMA Replies ==
  ASSUME SyscallsTypes, NEW call \in Calls,
         NEW arg \in Int \cup Paths \cup Permissions \cup {"missing"}, NEW result \in Int
  PROVE  LET a == [by |-> onCpu, call |-> call, arg |-> arg, result |-> result]
         IN  a \in Reply /\ a.by = onCpu /\ a.call = call /\ a.arg = arg /\ a.result = result
<1>1. onCpu \in Nat
  BY LenProperties DEF SyscallsTypes
<1> QED
  BY <1>1 DEF Reply

LEMMA PreemptKeeps ==
  ASSUME SyscallsInv,
         pcbs' \in Seq([sandbox : Nat, live : BOOLEAN]), Len(pcbs') = Len(pcbs),
         NEW p \in DOMAIN pcbs, Switch(p),
         UNCHANGED << sandboxes, openSockets, nextFd, jobDone, submitting, edgeIds, answers >>
  PROVE  SyscallsInv'
<1>1. SyscallsTypes
  BY DEF SyscallsInv
<1>2. onCpu' = p /\ p \in 1 .. Len(pcbs)
  BY <1>1, LenProperties DEF Switch, SyscallsTypes
<1>3. SyscallsTypes'
  BY <1>1, <1>2 DEF SyscallsTypes
<1>4. /\ Answered(answers', openSockets', nextFd', edgeIds', jobDone')
      /\ Pending(submitting', answers', jobDone') /\ CountedByPid(sandboxes', answers')
  BY DEF SyscallsInv
<1> QED
  BY <1>3, <1>4 DEF SyscallsInv

LEMMA PlainKeeps ==
  ASSUME SyscallsInv, NEW call \in PlainCalls, SysPlain(call)
  PROVE  SyscallsInv'
<1>1. SyscallsTypes
  BY DEF SyscallsInv
<1>2. PICK arg \in PlainArgs(call) : Answer(call, arg, PlainAnswer(call, arg))
  BY DEF SysPlain
<1> DEFINE result == PlainAnswer(call, arg)
           a == [by |-> onCpu, call |-> call, arg |-> arg, result |-> result]
<1>3. call \in Calls /\ call \notin GivenNumbers \cup {"security_check"} /\ call # "quantum_result"
  BY DEF PlainCalls, Calls, GivenNumbers
<1>4. result \in Int
  <2>1. onCpu \in Int
    BY <1>1, LenProperties DEF SyscallsTypes
  <2> QED
    BY <2>1 DEF PlainAnswer, PlainCalls, ENOENT, EBADF, EPERM, EAGAIN, ENOSYS
<1>5. arg \in Int \cup Paths \cup Permissions \cup {"missing"}
  BY <1>2 DEF PlainArgs, PlainCalls
<1>6. answers' = Append(answers, a)
      /\ UNCHANGED << sandboxes, pcbs, onCpu, openSockets, nextFd, jobDone, submitting, edgeIds >>
  BY <1>2 DEF SysPlain, others, Answer
<1> HIDE DEF result
<1>7. a \in Reply /\ a.by = onCpu /\ a.call = call
  BY <1>1, <1>3, <1>4, <1>5, Replies
<1> HIDE DEF a
<1> QED
  BY <1>3, <1>6, <1>7, PlainHarmless

LEMMA WriteKeeps ==
  ASSUME SyscallsInv, NEW fd \in {1, 4}, NEW length \in WriteLengths, SysWrite(fd, length)
  PROVE  SyscallsInv'
<1>1. SyscallsTypes /\ "write" \in Calls /\ "write" \notin GivenNumbers \cup {"security_check"}
  BY DEF SyscallsInv, Calls, GivenNumbers
<1>2. PICK result \in Int : Answer("write", fd, result)
  BY SyscallsAssumption DEF SysWrite, EBADF
<1> DEFINE a == [by |-> onCpu, call |-> "write", arg |-> fd, result |-> result]
<1>3. a \in Reply /\ a.by = onCpu /\ a.call = "write"
  BY <1>1, Replies
<1>4. answers' = Append(answers, a)
      /\ UNCHANGED << sandboxes, pcbs, onCpu, openSockets, nextFd, jobDone, submitting, edgeIds >>
  BY <1>2 DEF SysWrite, Answer
<1> HIDE DEF a
<1> QED
  BY <1>1, <1>3, <1>4, PlainHarmless

LEMMA SocketKeeps ==
  ASSUME SyscallsInv, SysSocket
  PROVE  SyscallsInv'
<1> DEFINE a == [by |-> onCpu, call |-> "socket", arg |-> 0, result |-> nextFd]
<1>1. SyscallsTypes /\ "socket" \in Calls
  BY DEF SyscallsInv, Calls, GivenNumbers
<1>2. openSockets \subseteq Int /\ nextFd \in Nat /\ nextFd \in Int /\ edgeIds \in Nat /\ onCpu \in 1 .. Len(pcbs)
  BY <1>1 DEF SyscallsTypes
<1>3. a \in Reply /\ a.by = onCpu /\ a.call = "socket" /\ a.result = nextFd
  BY <1>1, <1>2, Replies
<1>4. /\ answers' = Append(answers, a) /\ openSockets' = openSockets \cup {nextFd}
      /\ nextFd' = nextFd + 1
      /\ UNCHANGED << sandboxes, pcbs, onCpu, jobDone, submitting, edgeIds >>
  BY DEF SysSocket, Answer, FdTaken
<1> HIDE DEF a
<1>5. Fits(a, answers, openSockets, nextFd, edgeIds, jobDone,
           openSockets', nextFd', edgeIds', jobDone)
  BY <1>2, <1>3, <1>4 DEF Fits
<1>6. a.call # "quantum_submit" /\ ~ (a.call = "security_check" /\ a.result = 0)
  BY <1>3
<1>7. openSockets' \subseteq Int /\ nextFd' \in Nat /\ edgeIds' \in Nat /\ onCpu' \in 1 .. Len(pcbs)
  BY <1>2, <1>4
<1> QED
  BY <1>3, <1>4, <1>5, <1>6, <1>7, Harmless

LEMMA CloseKeeps ==
  ASSUME SyscallsInv, NEW fd \in Int, SysCloseSocket(fd)
  PROVE  SyscallsInv'
<1> DEFINE a == [by |-> onCpu, call |-> "close_socket", arg |-> fd, result |-> 0]
<1>1. SyscallsTypes /\ "close_socket" \in Calls
  BY DEF SyscallsInv, Calls
<1>2. openSockets \subseteq Int /\ nextFd \in Nat /\ edgeIds \in Nat /\ onCpu \in 1 .. Len(pcbs)
  BY <1>1 DEF SyscallsTypes
<1>3. a \in Reply /\ a.by = onCpu /\ a.call = "close_socket" /\ a.arg = fd
  BY <1>1, Replies
<1>4. /\ answers' = Append(answers, a) /\ openSockets' = openSockets \ {fd}
      /\ UNCHANGED << sandboxes, pcbs, onCpu, nextFd, jobDone, submitting, edgeIds >>
  BY DEF SysCloseSocket, Answer
<1> HIDE DEF a
<1>5. Fits(a, answers, openSockets, nextFd, edgeIds, jobDone,
           openSockets', nextFd', edgeIds', jobDone)
  BY <1>2, <1>3, <1>4 DEF Fits
<1>6. a.call # "quantum_submit" /\ ~ (a.call = "security_check" /\ a.result = 0)
  BY <1>3
<1>7. openSockets' \subseteq Int /\ nextFd' \in Nat /\ edgeIds' \in Nat /\ onCpu' \in 1 .. Len(pcbs)
  BY <1>2, <1>4
<1> QED
  BY <1>3, <1>4, <1>5, <1>6, <1>7, Harmless

LEMMA EdgeSubmitKeeps ==
  ASSUME SyscallsInv, SysEdgeSubmit
  PROVE  SyscallsInv'
<1> DEFINE next == edgeIds + 1
           a == [by |-> onCpu, call |-> "edge_submit", arg |-> 0, result |-> next]
<1>1. SyscallsTypes /\ "edge_submit" \in Calls
  BY DEF SyscallsInv, Calls, GivenNumbers
<1>2. openSockets \subseteq Int /\ nextFd \in Nat /\ edgeIds \in Nat /\ onCpu \in 1 .. Len(pcbs) /\ next \in Int
  BY <1>1 DEF SyscallsTypes
<1>3. /\ answers' = Append(answers, a) /\ edgeIds' = edgeIds + 1
      /\ UNCHANGED << sandboxes, pcbs, onCpu, openSockets, nextFd, jobDone, submitting >>
  BY DEF SysEdgeSubmit, Answer
<1>4. next = edgeIds + 1
  OBVIOUS
<1> HIDE DEF next
<1>5. a \in Reply /\ a.by = onCpu /\ a.call = "edge_submit" /\ a.result = next
  BY <1>1, <1>2, Replies
<1> HIDE DEF a
<1>6. Fits(a, answers, openSockets, nextFd, edgeIds, jobDone,
           openSockets', nextFd', edgeIds', jobDone)
  BY <1>2, <1>3, <1>4, <1>5 DEF Fits
<1>7. a.call # "quantum_submit" /\ ~ (a.call = "security_check" /\ a.result = 0)
  BY <1>5
<1>8. openSockets' \subseteq Int /\ nextFd' \in Nat /\ edgeIds' \in Nat /\ onCpu' \in 1 .. Len(pcbs)
  BY <1>2, <1>3
<1> QED
  BY <1>3, <1>5, <1>6, <1>7, <1>8, Harmless

LEMMA ResultKeeps ==
  ASSUME SyscallsInv, NEW j \in Int, SysQuantumResult(j)
  PROVE  SyscallsInv'
<1> DEFINE r == IF j \in DOMAIN jobDone /\ jobDone[j] THEN 0 ELSE EAGAIN
           a == [by |-> onCpu, call |-> "quantum_result", arg |-> j, result |-> r]
<1>1. SyscallsTypes /\ "quantum_result" \in Calls
      /\ "quantum_result" \notin GivenNumbers \cup {"security_check"}
  BY DEF SyscallsInv, Calls, GivenNumbers
<1>2. r \in Int /\ (j \in DOMAIN jobDone /\ jobDone[j] => r = 0)
  BY DEF EAGAIN
<1>3. answers' = Append(answers, a)
      /\ UNCHANGED << sandboxes, pcbs, onCpu, openSockets, nextFd, jobDone, submitting, edgeIds >>
  BY DEF SysQuantumResult, Answer, others
<1> HIDE DEF r
<1>4. a \in Reply /\ a.by = onCpu /\ a.call = "quantum_result" /\ a.arg = j /\ a.result = r
  BY <1>1, <1>2, Replies
<1> HIDE DEF a
<1> QED
  BY <1>1, <1>2, <1>3, <1>4, PlainHarmless

\* A refusal is charged, once, where it is counted.
LEMMA CheckKeeps ==
  ASSUME SyscallsInv, NEW perm \in Permissions, SysSecurityCheck(perm)
  PROVE  SyscallsInv'
<1> DEFINE granted == perm \in Granted(sandboxes[onCpu].trust)
           r == IF granted THEN 1 ELSE 0
           a == [by |-> onCpu, call |-> "security_check", arg |-> perm, result |-> r]
           all == Append(answers, a)
           boxes == [sandboxes EXCEPT ![onCpu].violations = @ + 1]
<1>1. SyscallsTypes /\ "security_check" \in Calls /\ answers \in Seq(Reply)
  BY DEF SyscallsInv, Calls, Answered
<1>2. /\ answers' = all /\ sandboxes' = IF granted THEN sandboxes ELSE boxes
      /\ UNCHANGED << pcbs, onCpu, openSockets, nextFd, jobDone, submitting, edgeIds >>
  BY DEF SysSecurityCheck, Answer, Charging
<1>3. r \in Int /\ (r = 0 <=> ~granted)
  OBVIOUS
<1> HIDE DEF granted, r
<1>4. a \in Reply /\ a.by = onCpu /\ a.call = "security_check" /\ a.result = r
  BY <1>1, <1>3, Replies
<1> HIDE DEF a, all
<1>5. /\ openSockets \subseteq Int /\ nextFd \in Nat /\ edgeIds \in Nat /\ onCpu \in 1 .. Len(pcbs)
      /\ sandboxes \in Seq(SandboxRecord) /\ onCpu \in 1 .. Len(sandboxes)
      /\ DOMAIN sandboxes = 1 .. Len(sandboxes)
  BY <1>1, LenProperties DEF SyscallsTypes
<1>6. Fits(a, answers, openSockets, nextFd, edgeIds, jobDone,
           openSockets, nextFd, edgeIds, jobDone)
  BY <1>4, <1>5 DEF Fits
<1>7. CASE granted
  <2>1. ~ (a.call = "security_check" /\ a.result = 0) /\ a.call # "quantum_submit"
    BY <1>3, <1>4, <1>7
  <2>2. sandboxes' = sandboxes /\ openSockets' \subseteq Int /\ nextFd' \in Nat /\ edgeIds' \in Nat /\ onCpu' \in 1 .. Len(pcbs)
    BY <1>2, <1>5, <1>7
  <2>3. Fits(a, answers, openSockets, nextFd, edgeIds, jobDone,
             openSockets', nextFd', edgeIds', jobDone)
    BY <1>2, <1>6
  <2> QED
    BY <1>2, <1>4, <2>1, <2>2, <2>3, Harmless DEF all
<1>8. CASE ~granted
  <2>1. sandboxes' = boxes
    BY <1>2, <1>8
  <2>2. /\ \A p \in 1 .. Len(sandboxes) : sandboxes[p].violations \in Nat
        /\ boxes \in Seq(SandboxRecord) /\ Len(boxes) = Len(sandboxes) /\ DOMAIN boxes = DOMAIN sandboxes
        /\ \A p \in 1 .. Len(sandboxes) :
             boxes[p].violations = sandboxes[p].violations + (IF p = onCpu THEN 1 ELSE 0)
    <3> DEFINE b == [sandboxes[onCpu] EXCEPT !.violations = @ + 1]
    <3>1. \A p \in 1 .. Len(sandboxes) : sandboxes[p] \in SandboxRecord
      BY <1>5, ElementOfSeq
    <3>2. sandboxes[onCpu] \in SandboxRecord
      BY <1>5, <3>1
    <3>3. b \in SandboxRecord /\ b.violations = sandboxes[onCpu].violations + 1
      BY <3>2 DEF SandboxRecord
    <3>4. \A p \in 1 .. Len(sandboxes) : sandboxes[p].violations \in Nat
      BY <3>1 DEF SandboxRecord
    <3>5. boxes = [sandboxes EXCEPT ![onCpu] = b]
      OBVIOUS
    <3> HIDE DEF b, boxes
    <3>6. /\ boxes \in Seq(SandboxRecord) /\ Len(boxes) = Len(sandboxes)
          /\ \A p \in 1 .. Len(sandboxes) : boxes[p] = IF p = onCpu THEN b ELSE sandboxes[p]
      BY <1>5, <3>3, <3>5, ExceptSeq
    <3>7. DOMAIN boxes = DOMAIN sandboxes
      BY <1>5, <3>6, LenProperties
    <3> QED
      BY <3>3, <3>4, <3>6, <3>7
  <2> HIDE DEF boxes
  <2>3. CountedByPid(boxes, all)
    <3> SUFFICES ASSUME NEW p \in DOMAIN sandboxes
                 PROVE  boxes[p].violations = Cardinality(Refused(all, p))
      BY <2>2 DEF CountedByPid
    <3>1. sandboxes[p].violations = Cardinality(Refused(answers, p))
      BY DEF SyscallsInv, CountedByPid
    <3>2. /\ Cardinality(Refused(answers, p)) \in Nat
          /\ Cardinality(Refused(all, p)) =
               Cardinality(Refused(answers, p))
               + (IF a.call = "security_check" /\ a.by = p /\ a.result = 0 THEN 1 ELSE 0)
      BY <1>1, <1>4, RefusedGrows DEF all
    <3>3. a.call = "security_check" /\ a.result = 0 /\ a.by = onCpu
      BY <1>3, <1>4, <1>8
    <3> QED
      BY <1>5, <2>2, <3>1, <3>2, <3>3
  <2>4. Answered(all, openSockets, nextFd, edgeIds, jobDone)
    BY <1>4, <1>5, <1>6, AnsweredGrows DEF SyscallsInv, all
  <2>5. Pending(submitting, all, jobDone)
    BY <1>1, <1>4, PendingGrows DEF SyscallsInv, all
  <2>6. SyscallsTypes'
    <3>1. /\ DOMAIN answers = 1 .. Len(answers) /\ all[Len(answers) + 1] = a
          /\ \A i \in 1 .. Len(answers) : all[i] = answers[i]
          /\ DOMAIN all = 1 .. Len(answers) + 1
          /\ \A i \in 1 .. Len(answers) + 1 : i \in 1 .. Len(answers) \/ i = Len(answers) + 1
      BY <1>1, <1>4, ReplyAppended DEF all
    <3>2. \A i \in DOMAIN all : all[i].by \in 1 .. Len(pcbs)
      BY <1>1, <1>4, <1>5, <3>1 DEF SyscallsTypes
    <3> QED
      BY <1>1, <1>2, <2>1, <2>2, <3>2 DEF SyscallsTypes
  <2>7. /\ Answered(answers', openSockets', nextFd', edgeIds', jobDone')
        /\ Pending(submitting', answers', jobDone') /\ CountedByPid(sandboxes', answers')
    BY <1>2, <2>1, <2>3, <2>4, <2>5
  <2> QED
    BY <2>6, <2>7 DEF SyscallsInv
<1> QED
  BY <1>7, <1>8

LEMMA SyscallsInvariant == SyscallsSpec => []SyscallsInv
<1>1. SyscallsInv /\ [SyscallsNext]_syscallsVars => SyscallsInv'
  <2> SUFFICES ASSUME SyscallsInv, [SyscallsNext]_syscallsVars PROVE SyscallsInv'
    OBVIOUS
  <2>1. CASE UNCHANGED syscallsVars
    BY <2>1 DEF SyscallsInv, SyscallsTypes, syscallsVars, others
  <2>2. CASE SpawnTask
    BY <2>2, SpawnKeeps
  <2>3. CASE Preempted
    <3>1. pcbs' \in Seq([sandbox : Nat, live : BOOLEAN]) /\ Len(pcbs') = Len(pcbs)
      BY <2>3 DEF Preempted, SyscallsInv, SyscallsTypes
    <3> QED
      BY <2>3, <3>1, PreemptKeeps DEF Preempted
  <2>4. CASE SysExit
    <3>1. pcbs \in Seq([sandbox : Nat, live : BOOLEAN]) /\ onCpu \in 1 .. Len(pcbs)
      BY DEF SyscallsInv, SyscallsTypes
    <3> DEFINE b == [pcbs[onCpu] EXCEPT !.live = FALSE]
    <3>2. pcbs[onCpu] \in [sandbox : Nat, live : BOOLEAN]
      BY <3>1, ElementOfSeq
    <3>3. b \in [sandbox : Nat, live : BOOLEAN] /\ pcbs' = [pcbs EXCEPT ![onCpu] = b]
      BY <2>4, <3>2 DEF SysExit
    <3> HIDE DEF b
    <3>4. pcbs' \in Seq([sandbox : Nat, live : BOOLEAN]) /\ Len(pcbs') = Len(pcbs)
      BY <3>1, <3>3, ExceptSeq
    <3> QED
      BY <2>4, <3>4, PreemptKeeps DEF SysExit
  <2>5. ASSUME NEW call \in PlainCalls, SysPlain(call) PROVE SyscallsInv'
    BY <2>5, PlainKeeps
  <2>6. ASSUME NEW fd \in {1, 4}, NEW length \in WriteLengths, SysWrite(fd, length)
        PROVE  SyscallsInv'
    BY <2>6, WriteKeeps
  <2>7. CASE SysSocket
    BY <2>7, SocketKeeps
  <2>8. ASSUME NEW fd \in openSockets \cup {4}, SysCloseSocket(fd) PROVE SyscallsInv'
    <3>1. fd \in Int
      BY DEF SyscallsInv, SyscallsTypes
    <3> QED
      BY <2>8, <3>1, CloseKeeps
  <2>9. CASE SysEdgeSubmit
    BY <2>9, EdgeSubmitKeeps
  <2>10. CASE SysQuantumSubmit
    BY <2>10, SubmitKeeps
  <2>11. CASE SysQuantumProcess
    BY <2>11, ProcessKeeps
  <2>12. ASSUME NEW j \in 1 .. 2, SysQuantumResult(j) PROVE SyscallsInv'
    BY <2>12, ResultKeeps
  <2>13. ASSUME NEW perm \in Permissions, SysSecurityCheck(perm) PROVE SyscallsInv'
    BY <2>13, CheckKeeps
  <2>14. SyscallsNext =>
           \/ SpawnTask \/ Preempted \/ SysExit \/ SysSocket \/ SysEdgeSubmit
           \/ SysQuantumSubmit \/ SysQuantumProcess
           \/ \E call \in PlainCalls : SysPlain(call)
           \/ \E fd \in {1, 4} : \E length \in WriteLengths : SysWrite(fd, length)
           \/ \E fd \in openSockets \cup {4} : SysCloseSocket(fd)
           \/ \E j \in 1 .. 2 : SysQuantumResult(j)
           \/ \E perm \in Permissions : SysSecurityCheck(perm)
    BY Zenon DEF SyscallsNext, PlainCalls
  <2> QED
    BY <2>1, <2>2, <2>3, <2>4, <2>5, <2>6, <2>7, <2>8, <2>9, <2>10, <2>11, <2>12, <2>13, <2>14,
       Zenon
<1> QED
  BY <1>1, SyscallsStart, PTL DEF SyscallsSpec

(* No number sys_socket, sys_edge_submit or sys_quantum_submit returns is     *)
(* returned again, what it names is there, and every refusal of              *)
(* sys_security_check is counted, however the callers preempt each other.    *)
THEOREM AnswersStayTrue == SyscallsSpec => []AnswersTrue
<1>1. ASSUME SyscallsInv
      PROVE  \E charged \in [Refusals -> DOMAIN sandboxes] :
               \A s \in DOMAIN sandboxes :
                 sandboxes[s].violations = Cardinality({i \in Refusals : charged[i] = s})
  <2> DEFINE asker == [i \in Refusals |-> answers[i].by]
  <2>1. /\ SyscallsTypes /\ CountedByPid(sandboxes, answers)
    BY <1>1 DEF SyscallsInv
  <2>2. \A i \in Refusals : answers[i].by \in DOMAIN sandboxes
    <3>1. DOMAIN sandboxes = 1 .. Len(sandboxes) /\ Len(sandboxes) = Len(pcbs) + 1
          /\ Len(pcbs) \in Nat
      BY <2>1, LenProperties DEF SyscallsTypes
    <3>2. \A i \in Refusals : answers[i].by \in 1 .. Len(pcbs)
      BY <2>1 DEF SyscallsTypes, Refusals
    <3> QED
      BY <3>1, <3>2
  <2>3. asker \in [Refusals -> DOMAIN sandboxes]
    BY <2>2
  <2>4. ASSUME NEW s \in DOMAIN sandboxes
        PROVE  sandboxes[s].violations = Cardinality({i \in Refusals : asker[i] = s})
    <3>1. {i \in Refusals : asker[i] = s} = Refused(answers, s)
      BY DEF Refusals, Refused
    <3> QED
      BY <2>1, <3>1 DEF CountedByPid
  <2> HIDE DEF asker
  <2> QED
    BY <2>3, <2>4
<1>2. SyscallsInv => AnswersTrue
  BY <1>1 DEF SyscallsInv, Answered, ResultsExist, NumbersApart, Kept, StillOpen, Closed,
         GivenNumbers, AnswersTrue
<1> QED
  BY <1>2, SyscallsInvariant, PTL

-----------------------------------------------------------------------------
(***************************************************************************)
(* The WASM interpreter.                                                   *)
(***************************************************************************)
CallFrame == [func : Nat, locals : Seq(WasmValue)]
ControlFrame == [loop : BOOLEAN, depth : Nat, start : Nat]
WasmInstance == [module : WasmModule, memory : Seq(Int), globals : Seq(WasmValue),
                 values : Seq(WasmValue), calls : Seq(CallFrame),
                 controls : Seq(ControlFrame), executed : Nat]
Activation(m) == [func : DOMAIN m.functions, pc : Nat, base : Nat]

InstanceOK(i) ==
  /\ i \in WasmInstance
  /\ i.executed <= MaxInstructions /\ Len(i.calls) <= MaxCallDepth
  /\ \E k \in i.module.pages .. MaxPages : Len(i.memory) = k * PageSize

(* After the frames that failed calls left come those of the activations.    *)
FramesMatch(frames, activations, left) ==
  /\ Len(frames) = left + Len(activations)
  /\ \A i \in 1 .. Len(activations) : frames[left + i].func = activations[i].func

WasmInv ==
  /\ abandoned \in Nat
  /\ instance = NoInstance => running = << >> /\ abandoned = 0
  /\ instance # NoInstance =>
       /\ InstanceOK(instance) /\ running \in Seq(Activation(instance.module))
       /\ FramesMatch(instance.calls, running, abandoned)

(* An instance whose frames are of the same functions, as many executed.     *)
SameFrames(now) ==
  /\ InstanceOK(now) /\ now.module = instance.module /\ now.executed = instance.executed
  /\ Len(now.calls) = Len(instance.calls)
  /\ \A i \in 1 .. Len(instance.calls) : now.calls[i].func = instance.calls[i].func

-----------------------------------------------------------------------------
LEMMA IsInstance ==
  ASSUME NEW i \in WasmInstance
  PROVE  i # NoInstance
<1>1. "memory" \in DOMAIN i
  BY DEF WasmInstance
<1>2. DOMAIN NoInstance = {"module"}
  BY DEF NoInstance
<1> QED
  BY <1>1, <1>2

(* An instruction is counted.                                                *)
LEMMA InstructionCounted ==
  ASSUME NEW now, InstanceOK(now), now.executed < MaxInstructions
  PROVE  LET i == [now EXCEPT !.executed = @ + 1] IN
         /\ InstanceOK(i) /\ i.module = now.module /\ i.calls = now.calls
         /\ i.executed = now.executed + 1 /\ i.values = now.values
<1> DEFINE i == [now EXCEPT !.executed = @ + 1]
<1>1. now \in WasmInstance /\ now.executed \in Nat /\ MaxInstructions \in Nat
  BY WasmAssumption DEF InstanceOK, WasmInstance
<1>2. i = [now EXCEPT !.executed = now.executed + 1]
  OBVIOUS
<1> HIDE DEF i
<1>3. i = [module |-> now.module, memory |-> now.memory, globals |-> now.globals,
           values |-> now.values, calls |-> now.calls, controls |-> now.controls,
           executed |-> now.executed + 1]
  BY <1>1, <1>2 DEF WasmInstance
<1>4. i \in WasmInstance
  BY <1>1, <1>3 DEF WasmInstance
<1>5. now.executed + 1 <= MaxInstructions
  BY <1>1
<1>6. InstanceOK(i)
  BY <1>3, <1>4, <1>5 DEF InstanceOK
<1> QED
  BY <1>3, <1>6 DEF i

LEMMA Fetched ==
  ASSUME WasmInv, running # << >>
  PROVE  /\ instance # NoInstance /\ InstanceOK(instance)
         /\ running \in Seq(Activation(instance.module)) /\ Len(running) \in Nat \ {0}
         /\ FramesMatch(instance.calls, running, abandoned)
         /\ Active = running[Len(running)] /\ Active \in Activation(instance.module)
         /\ At \in Nat /\ Bytecode \in Seq(0 .. 255) /\ Len(Bytecode) \in Nat
         /\ \A k \in Nat : Immediate(k) \in Nat
<1>1. instance # NoInstance /\ InstanceOK(instance)
      /\ running \in Seq(Activation(instance.module))
      /\ FramesMatch(instance.calls, running, abandoned)
  BY DEF WasmInv
<1>2. Len(running) \in Nat \ {0}
  BY <1>1, EmptySeq
<1>3. Active = running[Len(running)]
  BY DEF Active, Last
<1>4. Active \in Activation(instance.module)
  <2>1. Len(running) \in 1 .. Len(running)
    BY <1>2
  <2> QED
    BY <1>1, <1>3, <2>1, ElementOfSeq
<1>5. At \in Nat
  BY <1>4 DEF Activation, At
<1>6. Bytecode \in Seq(0 .. 255)
  <2> DEFINE fs == instance.module.functions
  <2>1. fs \in Seq(FuncBody)
    BY <1>1 DEF InstanceOK, WasmInstance, WasmModule
  <2>2. Active.func \in DOMAIN fs
    BY <1>4 DEF Activation
  <2> HIDE DEF fs
  <2>3. fs[Active.func] \in FuncBody
    BY <2>1, <2>2
  <2> QED
    BY <2>3 DEF FuncBody, Bytecode, fs
<1>7. \A k \in Nat : Immediate(k) \in Nat
  <2> TAKE k \in Nat
  <2>1. At + k < Len(Bytecode) => Bytecode[At + k + 1] \in 0 .. 255
    <3> DEFINE b == Bytecode  a == At
    <3>1. b \in Seq(0 .. 255) /\ a \in Nat
      BY <1>5, <1>6
    <3> HIDE DEF b, a
    <3>2. a + k < Len(b) => a + k + 1 \in 1 .. Len(b)
      BY <3>1, LenProperties
    <3>3. a + k < Len(b) => b[a + k + 1] \in 0 .. 255
      BY <3>1, <3>2, ElementOfSeq
    <3> QED
      BY <3>3 DEF a, b
  <2> QED
    <3> DEFINE b == Bytecode[At + k + 1]
    <3>1. At + k < Len(Bytecode) => b \in Nat
      <4>1. 0 .. 255 \subseteq Nat
        OBVIOUS
      <4> QED
        BY <2>1, <4>1, Zenon
    <3>2. Immediate(k) = IF At + k < Len(Bytecode) THEN b ELSE 0
      BY DEF Immediate
    <3> HIDE DEF b
    <3> QED
      BY <3>1, <3>2
<1> QED
  BY <1>1, <1>2, <1>3, <1>4, <1>5, <1>6, <1>7

LEMMA GoesKeeps ==
  ASSUME WasmInv, running # << >>, instance.executed < MaxInstructions,
         NEW pc \in Nat, NEW now, SameFrames(now), GoesTo(pc, now)
  PROVE  WasmInv'
<1> DEFINE i == [now EXCEPT !.executed = @ + 1]
           n == Len(running)
           there == [running EXCEPT ![n].pc = pc]
<1>1. instance' = i /\ running' = there /\ abandoned' = abandoned
  BY DEF GoesTo
<1>2. /\ running \in Seq(Activation(instance.module)) /\ n \in Nat \ {0}
      /\ FramesMatch(instance.calls, running, abandoned)
      /\ InstanceOK(instance) /\ abandoned \in Nat
  BY Fetched DEF WasmInv
<1>3. InstanceOK(i) /\ i.module = now.module /\ i.calls = now.calls
  BY InstructionCounted DEF SameFrames
<1>5. i.module = instance.module
  BY <1>3 DEF SameFrames
<1>6. /\ there \in Seq(Activation(instance.module)) /\ Len(there) = n
      /\ \A k \in 1 .. n : there[k].func = running[k].func
  <2> DEFINE last == [running[n] EXCEPT !.pc = pc]
  <2>1. there = [running EXCEPT ![n] = last]
    OBVIOUS
  <2>2. running[n] \in Activation(instance.module)
    BY <1>2
  <2>3. last \in Activation(instance.module) /\ last.func = running[n].func
    BY <2>2 DEF Activation
  <2> HIDE DEF last, there, n
  <2> QED
    BY <1>2, <2>1, <2>3, ExceptSeq DEF n
<1> HIDE DEF there, n, i
<1>7. FramesMatch(i.calls, there, abandoned)
  <2>1. Len(i.calls) = abandoned + n
    BY <1>2, <1>3 DEF FramesMatch, SameFrames, n
  <2>2. ASSUME NEW k \in 1 .. n PROVE i.calls[abandoned + k].func = there[k].func
    <3>1. abandoned + k \in 1 .. Len(instance.calls)
      BY <1>2 DEF FramesMatch, n
    <3> QED
      BY <1>2, <1>3, <1>6, <3>1 DEF FramesMatch, SameFrames, n
  <2> QED
    BY <1>6, <2>1, <2>2 DEF FramesMatch
<1>8. there # << >>
  BY <1>2, <1>6
<1> QED
  <2> SUFFICES /\ i # NoInstance
               /\ InstanceOK(i) /\ there \in Seq(Activation(i.module))
               /\ FramesMatch(i.calls, there, abandoned)
    BY <1>1, <1>2 DEF WasmInv
  <2>1. i # NoInstance
    BY <1>3, IsInstance DEF InstanceOK
  <2> QED
    BY <1>3, <1>5, <1>6, <1>7, <2>1

LEMMA EndsKeeps ==
  ASSUME WasmInv, instance # NoInstance, NEW error, NEW now, InstanceOK(now),
         Len(now.calls) = Len(instance.calls), Fails(error, now)
  PROVE  WasmInv'
<1>1. running \in Seq(Activation(instance.module)) /\ abandoned \in Nat
      /\ Len(instance.calls) = abandoned + Len(running)
  BY DEF WasmInv, FramesMatch
<1>2. instance' = now /\ running' = << >> /\ abandoned' = abandoned + Len(running)
  BY DEF Fails
<1>3. Len(running) \in Nat
  BY <1>1, LenProperties
<1>4. now # NoInstance
  BY IsInstance DEF InstanceOK
<1>5. << >> \in Seq(Activation(now.module)) /\ Len(<< >>) = 0
  OBVIOUS
<1> QED
  BY <1>1, <1>2, <1>3, <1>4, <1>5 DEF WasmInv, FramesMatch

LEMMA FailsKeeps ==
  ASSUME WasmInv, running # << >>, instance.executed < MaxInstructions,
         NEW error, NEW now, SameFrames(now), FailsAt(error, now)
  PROVE  WasmInv'
<1> DEFINE i == [now EXCEPT !.executed = @ + 1]
<1>1. Fails(error, i)
  BY DEF FailsAt
<1>2. InstanceOK(instance) /\ instance # NoInstance
  BY Fetched
<1>6. InstanceOK(i) /\ Len(i.calls) = Len(instance.calls)
  <2>1. InstanceOK(i) /\ i.calls = now.calls
    BY InstructionCounted DEF SameFrames
  <2> QED
    BY <2>1 DEF SameFrames
<1> HIDE DEF i
<1> QED
  BY <1>1, <1>2, <1>6, EndsKeeps

LEMMA HoldingSame ==
  ASSUME InstanceOK(instance), NEW values \in Seq(WasmValue)
  PROVE  SameFrames(Holding(values)) /\ Holding(values).values = values
<1> DEFINE now == Holding(values)
<1>1. now = [instance EXCEPT !.values = values] /\ instance \in WasmInstance
  BY DEF Holding, InstanceOK
<1> HIDE DEF now
<1>2. /\ now \in WasmInstance /\ now.module = instance.module
      /\ now.memory = instance.memory /\ now.calls = instance.calls
      /\ now.executed = instance.executed /\ now.values = values
  BY <1>1 DEF WasmInstance
<1> QED
  BY <1>2 DEF SameFrames, InstanceOK, now

-----------------------------------------------------------------------------
(* What the helpers return.                                                  *)
LEMMA WordIs == WasmWord \in Nat \ {0} /\ \A k \in 1 .. 4 : PlaceValue[k] \in Nat \ {0}
<1>1. Radix \in Nat \ {0}
  BY WasmAssumption
<1>2. \A a, b \in Nat \ {0} : a * b \in Nat \ {0}
  OBVIOUS
<1>3. Radix * Radix \in Nat \ {0}
  BY <1>1, <1>2
<1>4. Radix * Radix * Radix \in Nat \ {0}
  BY <1>1, <1>2, <1>3
<1>5. WasmWord \in Nat \ {0}
  BY <1>1, <1>2, <1>4 DEF WasmWord
<1> QED
  BY <1>1, <1>3, <1>4, <1>5 DEF PlaceValue

LEMMA WrapsToInt ==
  ASSUME NEW v \in Int
  PROVE  Wrap32(v) \in Int /\ I32(v) \in WasmValue
<1>1. WasmWord \in Nat \ {0}
  BY WordIs
<1>2. WasmWord \div 2 \in Int
  BY <1>1
<1>3. v + WasmWord \div 2 \in Int
  BY <1>2
<1>4. (v + WasmWord \div 2) % WasmWord \in 0 .. WasmWord - 1
  BY <1>1, <1>3, Quotient
<1>5. Wrap32(v) \in Int
  BY <1>1, <1>2, <1>4 DEF Wrap32
<1> QED
  BY <1>5 DEF I32, WasmValue

LEMMA DigitsAreInts ==
  ASSUME NEW v \in Int, NEW k \in 1 .. 4
  PROVE  DigitsOf(v)[k] \in Int
<1>1. v % WasmWord \in Int /\ PlaceValue[k] \in Nat \ {0} /\ Radix \in Nat \ {0}
  <2>1. WasmWord \in Nat \ {0} /\ PlaceValue[k] \in Nat \ {0} /\ Radix \in Nat \ {0}
    BY WordIs, WasmAssumption
  <2>2. v % WasmWord \in 0 .. WasmWord - 1
    BY <2>1, Quotient
  <2> QED
    BY <2>1, <2>2
<1>2. (v % WasmWord) \div PlaceValue[k] \in Int
  BY <1>1
<1>3. ((v % WasmWord) \div PlaceValue[k]) % Radix \in Int
  BY <1>1, <1>2, Quotient
<1> QED
  BY <1>3 DEF DigitsOf

LEMMA LargerIs ==
  ASSUME NEW n \in Int
  PROVE  Max({0, n}) = (IF n >= 0 THEN n ELSE 0)
<1> DEFINE m == IF n >= 0 THEN n ELSE 0
<1>1. m \in {0, n} /\ \A y \in {0, n} : m >= y
  OBVIOUS
<1>2. \A x \in {0, n} : (\A y \in {0, n} : x >= y) => x = m
  OBVIOUS
<1> QED
  BY <1>1, <1>2 DEF Max

LEMMA SmallerIs ==
  ASSUME NEW a \in Int, NEW b \in Int
  PROVE  Min({a, b}) = (IF a <= b THEN a ELSE b)
<1> DEFINE m == IF a <= b THEN a ELSE b
<1>1. m \in {a, b} /\ \A y \in {a, b} : m <= y
  OBVIOUS
<1>2. \A x \in {a, b} : (\A y \in {a, b} : x <= y) => x = m
  OBVIOUS
<1> QED
  BY <1>1, <1>2 DEF Min

LEMMA ConstantSeq ==
  ASSUME NEW S, NEW c \in S, NEW n \in Int
  PROVE  [k \in 1 .. n |-> c] \in Seq(S) /\ Len([k \in 1 .. n |-> c]) = (IF n >= 0 THEN n ELSE 0)
<1> DEFINE m == IF n >= 0 THEN n ELSE 0
<1>1. m \in Nat /\ 1 .. n = 1 .. m
  OBVIOUS
<1>2. [k \in 1 .. m |-> c] \in Seq(S) /\ Len([k \in 1 .. m |-> c]) = m
  BY <1>1
<1> QED
  BY <1>1, <1>2

(* The first of the values, or the last of them: none when n is too large.    *)
LEMMA PartOfValues ==
  ASSUME NEW S, NEW values \in Seq(S), NEW n \in Nat
  PROVE  /\ WithoutTop(values, n) \in Seq(S) /\ TopOf(values, n) \in Seq(S)
         /\ \A k \in Int : k <= Len(values) => SubSeq(values, 1, k) \in Seq(S)
<1> DEFINE l == Len(values)
           m == IF l - n >= 0 THEN l - n ELSE 0
<1>1. l \in Nat
  BY LenProperties
<1>2. \A i \in 1 .. l : values[i] \in S
  BY ElementOfSeq
<1> HIDE DEF l
<1>3. Max({0, l - n}) = m
  BY <1>1, LargerIs
<1>4. m \in 0 .. l
  BY <1>1
<1> HIDE DEF m
<1>5. \A k \in Int : k <= l => SubSeq(values, 1, k) \in Seq(S)
  <2> TAKE k \in Int
  <2> HAVE k <= l
  <2>1. \A i \in 1 .. k : values[i] \in S
    BY <1>1, <1>2
  <2> QED
    BY <2>1, SubSeqProperties
<1>6. SubSeq(values, m + 1, l) \in Seq(S)
  <2>1. \A i \in m + 1 .. l : values[i] \in S
    BY <1>1, <1>2, <1>4
  <2> QED
    BY <1>1, <1>4, <2>1, SubSeqProperties
<1>7. WithoutTop(values, n) \in Seq(S)
  BY <1>3, <1>4, <1>5 DEF WithoutTop, l
<1>8. TopOf(values, n) \in Seq(S)
  BY <1>3, <1>6 DEF TopOf, l
<1> QED
  BY <1>5, <1>7, <1>8 DEF l

LEMMA PaddedOK ==
  ASSUME NEW list \in Seq(WasmValue), NEW n \in Int
  PROVE  Padded(list, n) \in Seq(WasmValue) /\ n <= Len(Padded(list, n))
<1> DEFINE more == [k \in 1 .. n - Len(list) |-> I32(0)]
<1>1. n - Len(list) \in Int /\ Len(list) \in Nat
  BY LenProperties
<1>2. I32(0) \in WasmValue
  BY WrapsToInt
<1>3. more \in Seq(WasmValue)
      /\ Len(more) = (IF n - Len(list) >= 0 THEN n - Len(list) ELSE 0)
  BY <1>1, <1>2, ConstantSeq, Zenon
<1>4. Padded(list, n) = list \o more
  BY DEF Padded
<1> HIDE DEF more
<1>5. list \o more \in Seq(WasmValue) /\ Len(list \o more) = Len(list) + Len(more)
  BY <1>3, ConcatProperties
<1> QED
  BY <1>1, <1>3, <1>4, <1>5

LEMMA WrittenOK ==
  ASSUME NEW list \in Seq(WasmValue), NEW idx \in Nat, NEW v \in WasmValue
  PROVE  WrittenAt(list, idx, v) \in Seq(WasmValue)
<1> DEFINE p == Padded(list, idx + 1)
<1>1. p \in Seq(WasmValue) /\ idx + 1 <= Len(p) /\ idx + 1 \in Int
  BY PaddedOK
<1> HIDE DEF p
<1>2. [p EXCEPT ![idx + 1] = v] \in Seq(WasmValue)
  <2>1. idx + 1 \in 1 .. Len(p)
    BY <1>1, LenProperties
  <2> QED
    BY <1>1, <2>1, ExceptSeq
<1> QED
  BY <1>2 DEF WrittenAt, p

LEMMA LastOK ==
  ASSUME NEW values \in Seq(WasmValue)
  PROVE  LastOr0(values) \in WasmValue
<1>1. CASE values = << >>
  BY <1>1, WrapsToInt DEF LastOr0
<1>2. CASE values # << >>
  <2>1. Len(values) \in 1 .. Len(values)
    BY <1>2, EmptySeq
  <2>2. values[Len(values)] \in WasmValue
    BY <2>1, ElementOfSeq
  <2> QED
    BY <1>2, <2>2 DEF LastOr0, Last
<1> QED
  BY <1>1, <1>2

(* A pop that is not bad gives a number; the least bad one is one of the pops.*)
LEMMA PopsOK ==
  ASSUME NEW values \in Seq(WasmValue), NEW n \in Nat
  PROVE  /\ BadPops(values, n) = {} => \A j \in 1 .. n : Popped(values, j) \in Int
         /\ BadPops(values, n) # {} => Min(BadPops(values, n)) \in 1 .. n
<1> DEFINE bad == BadPops(values, n)
<1>1. bad \subseteq 1 .. n
  BY DEF BadPops
<1>2. ASSUME bad = {}, NEW j \in 1 .. n PROVE Popped(values, j) \in Int
  <2>1. ~ (j > Len(values))
    BY <1>2 DEF BadPops
  <2>2. Len(values) - j + 1 \in 1 .. Len(values)
    BY <2>1, LenProperties
  <2>3. values[Len(values) - j + 1] \in WasmValue
    BY <2>2, ElementOfSeq
  <2> QED
    BY <2>3 DEF Popped, WasmValue
<1>3. ASSUME bad # {} PROVE Min(bad) \in 1 .. n
  <2> HIDE DEF bad
  <2>1. bad \subseteq Nat
    BY <1>1
  <2>2. \E x \in bad : \A y \in bad : x <= y
    BY <1>3, <2>1, LeastExists
  <2>3. Min(bad) \in bad
    BY <2>2 DEF Min
  <2> QED
    BY <1>1, <2>3
<1> QED
  BY <1>2, <1>3

LEMMA SkipsTo ==
  ASSUME NEW from \in Nat, NEW stopAtElse \in BOOLEAN, Bytecode \in Seq(0 .. 255)
  PROVE  SkipFrom(from, stopAtElse) \in Nat
<1> DEFINE stops == {p \in from .. Len(Bytecode) - 1 : StopsAt(p, from, stopAtElse)}
<1>1. Len(Bytecode) \in Nat
  BY LenProperties
<1>2. stops \subseteq Nat
  BY <1>1
<1>3. SkipFrom(from, stopAtElse) = IF stops = {} THEN Len(Bytecode) ELSE Min(stops) + 1
  BY DEF SkipFrom
<1> HIDE DEF stops
<1>4. ASSUME stops # {} PROVE Min(stops) \in Nat
  <2>1. \E x \in stops : \A y \in stops : x <= y
    BY <1>2, <1>4, LeastExists
  <2>2. Min(stops) \in stops
    BY <2>1 DEF Min
  <2> QED
    BY <1>2, <2>2
<1> QED
  BY <1>1, <1>3, <1>4

-----------------------------------------------------------------------------
(* The instructions.  One that holds other values goes on or fails.          *)
LEMMA FetchesOne ==
  ASSUME WasmInv, NEW ops, Fetches(ops)
  PROVE  /\ running # << >> /\ instance.executed < MaxInstructions
         /\ At \in Nat /\ At + 1 \in Nat /\ At + 2 \in Nat /\ At + 3 \in Nat
         /\ \A k \in Nat : Immediate(k) \in Nat
         /\ Immediate(1) \in Nat /\ Immediate(2) \in Nat
         /\ Bytecode \in Seq(0 .. 255)
         /\ InstanceOK(instance) /\ instance.values \in Seq(WasmValue)
<1>1. running # << >> /\ instance.executed < MaxInstructions
  BY DEF Fetches
<1>2. InstanceOK(instance) /\ instance.values \in Seq(WasmValue)
  BY <1>1, Fetched DEF InstanceOK, WasmInstance
<1>3. At \in Nat /\ Bytecode \in Seq(0 .. 255) /\ \A k \in Nat : Immediate(k) \in Nat
  BY <1>1, Fetched, Zenon
<1>4. At + 1 \in Nat /\ At + 2 \in Nat /\ At + 3 \in Nat
  BY <1>3
<1>5. Immediate(1) \in Nat /\ Immediate(2) \in Nat
  BY <1>3
<1> QED
  BY <1>1, <1>2, <1>3, <1>4, <1>5, Zenon

LEMMA HoldsAndGoes ==
  ASSUME WasmInv, NEW ops, Fetches(ops), NEW values \in Seq(WasmValue), NEW pc \in Nat,
         GoesTo(pc, Holding(values))
  PROVE  WasmInv'
BY FetchesOne, HoldingSame, GoesKeeps

LEMMA HoldsAndFails ==
  ASSUME WasmInv, NEW ops, Fetches(ops), NEW values \in Seq(WasmValue), NEW error,
         FailsAt(error, Holding(values))
  PROVE  WasmInv'
BY FetchesOne, HoldingSame, FailsKeeps

LEMMA StaysAndGoes ==
  ASSUME WasmInv, NEW ops, Fetches(ops), NEW pc \in Nat, GoesTo(pc, instance)
  PROVE  WasmInv'
<1>1. SameFrames(instance)
  BY FetchesOne DEF SameFrames
<1> QED
  BY <1>1, FetchesOne, GoesKeeps

LEMMA StaysAndFails ==
  ASSUME WasmInv, NEW ops, Fetches(ops), NEW error, FailsAt(error, instance)
  PROVE  WasmInv'
<1>1. SameFrames(instance)
  BY FetchesOne DEF SameFrames
<1> QED
  BY <1>1, FetchesOne, FailsKeeps

(* Values that are taken are numbers; when one is not, the call fails.       *)
LEMMA TakesGood ==
  ASSUME WasmInv, NEW ops, Fetches(ops), NEW n \in Nat,
         BadPops(instance.values, n) = {}
  PROVE  /\ WithoutTop(instance.values, n) \in Seq(WasmValue)
         /\ \A j \in 1 .. n : Taken(j) \in Int
BY FetchesOne, PartOfValues, PopsOK DEF Taken

LEMMA TakesBad ==
  ASSUME WasmInv, NEW ops, Fetches(ops), NEW n \in Nat,
         BadPops(instance.values, n) # {},
         FailsAt("stack", Holding(WithoutTop(instance.values, Min(BadPops(instance.values, n)))))
  PROVE  WasmInv'
<1> DEFINE m == Min(BadPops(instance.values, n))
<1>1. instance.values \in Seq(WasmValue)
  BY FetchesOne
<1>2. m \in 1 .. n
  BY <1>1, PopsOK
<1> HIDE DEF m
<1>3. m \in Nat
  BY <1>2
<1>4. WithoutTop(instance.values, m) \in Seq(WasmValue)
  BY <1>1, <1>3, PartOfValues
<1> QED
  BY <1>4, HoldsAndFails DEF m

LEMMA PagesAre ==
  ASSUME InstanceOK(instance)
  PROVE  /\ PagesNow \in Nat /\ PagesNow \in instance.module.pages .. MaxPages
         /\ Len(instance.memory) = PagesNow * PageSize
         /\ instance.module.pages \in Nat /\ instance.memory \in Seq(Int)
<1>1. instance.module.pages \in Nat /\ instance.memory \in Seq(Int)
  BY DEF InstanceOK, WasmInstance, WasmModule
<1>2. PICK k \in instance.module.pages .. MaxPages : Len(instance.memory) = k * PageSize
  BY DEF InstanceOK
<1>3. k \in Nat /\ PageSize \in Nat \ {0}
  BY <1>1, <1>2, WasmAssumption
<1>4. (k * PageSize) \div PageSize = k
  BY <1>3
<1> QED
  BY <1>1, <1>2, <1>3, <1>4 DEF PagesNow

LEMMA GrowsMemory ==
  ASSUME WasmInv, GrowMemory
  PROVE  WasmInv'
<1> DEFINE values == WithoutTop(instance.values, 1)
<1>1. Fetches({Op.grow})
  BY DEF GrowMemory
<1>2. /\ running # << >> /\ instance.executed < MaxInstructions /\ At + 2 \in Nat
      /\ InstanceOK(instance)
  BY <1>1, FetchesOne
<1>3. CASE BadPops(instance.values, 1) # {}
  BY <1>1, <1>3, TakesBad DEF GrowMemory, Taking
<1>4. CASE BadPops(instance.values, 1) = {}
  <2>1. values \in Seq(WasmValue) /\ Taken(1) \in Int
    BY <1>1, <1>4, TakesGood
  <2>2. PagesNow \in Nat /\ PageSize \in Nat \ {0} /\ MaxPages \in Nat
    BY <1>2, PagesAre, WasmAssumption
  <2>3. CASE Taken(1) < 0
    <3>1. FailsAt("panic", Holding(values))
      BY <1>4, <2>3 DEF GrowMemory, Taking
    <3> HIDE DEF values
    <3> QED
      BY <1>1, <2>1, <3>1, HoldsAndFails
  <2>4. CASE ~ (Taken(1) < 0) /\ ~ Growable(Taken(1))
    <3>1. GoesTo(At + 2, Holding(Append(values, I32(-1))))
      BY <1>4, <2>4 DEF GrowMemory, Taking
    <3>2. I32(-1) \in WasmValue
      BY WrapsToInt
    <3> HIDE DEF values
    <3>3. Append(values, I32(-1)) \in Seq(WasmValue)
      BY <2>1, <3>2, AppendProperties
    <3> QED
      BY <1>1, <1>2, <3>1, <3>3, HoldsAndGoes
  <2>5. CASE ~ (Taken(1) < 0) /\ Growable(Taken(1))
    <3> DEFINE held == Append(values, I32(PagesNow))
               zeros == [k \in 1 .. Taken(1) * PageSize |-> 0]
               now == [Holding(held) EXCEPT !.memory = @ \o zeros]
    <3>1. GoesTo(At + 2, now)
      BY <1>4, <2>5 DEF GrowMemory, Taking
    <3>2. I32(PagesNow) \in WasmValue
      BY <2>2, WrapsToInt
    <3> HIDE DEF values
    <3>3. held \in Seq(WasmValue)
      BY <2>1, <3>2, AppendProperties
    <3>4. SameFrames(Holding(held)) /\ Holding(held).memory = instance.memory
      <4>1. Holding(held).memory = instance.memory
        BY <1>2 DEF Holding, InstanceOK, WasmInstance
      <4> QED
        BY <1>2, <3>3, <4>1, HoldingSame
    <3>5. zeros \in Seq(Int) /\ Len(zeros) = Taken(1) * PageSize
      <4>1. Taken(1) * PageSize \in Nat
        BY <2>1, <2>2, <2>5
      <4> QED
        BY <4>1, ConstantSeq
    <3> HIDE DEF zeros
    <3> DEFINE memory == instance.memory \o zeros
    <3>6. memory \in Seq(Int) /\ Len(memory) = (PagesNow + Taken(1)) * PageSize
      <4>1. instance.memory \in Seq(Int) /\ Len(instance.memory) = PagesNow * PageSize
        BY <1>2, PagesAre
      <4>2. memory \in Seq(Int) /\ Len(memory) = Len(instance.memory) + Len(zeros)
        BY <3>5, <4>1, ConcatProperties
      <4>3. (PagesNow + Taken(1)) * PageSize = PagesNow * PageSize + Taken(1) * PageSize
        BY <2>1, <2>2
      <4> QED
        BY <3>5, <4>1, <4>2, <4>3
    <3>7. PagesNow + Taken(1) \in instance.module.pages .. MaxPages
      BY <1>2, <2>1, <2>2, <2>5, PagesAre DEF Growable
    <3> DEFINE h == Holding(held)
    <3>8. h \in WasmInstance /\ now = [h EXCEPT !.memory = memory]
      BY <3>4 DEF SameFrames, InstanceOK
    <3> HIDE DEF h, now, memory
    <3>9. /\ now \in WasmInstance /\ now.memory = memory /\ now.module = h.module
          /\ now.executed = h.executed /\ now.calls = h.calls
      BY <3>6, <3>8 DEF WasmInstance
    <3>10. SameFrames(now)
      BY <3>4, <3>6, <3>7, <3>9 DEF SameFrames, InstanceOK, h
    <3> QED
      BY <1>2, <3>1, <3>10, GoesKeeps
  <2> QED
    BY <2>3, <2>4, <2>5
<1> QED
  BY <1>3, <1>4

LEMMA EntersSame ==
  ASSUME InstanceOK(instance), NEW values \in Seq(WasmValue), NEW isLoop \in BOOLEAN,
         NEW pc \in Nat
  PROVE  SameFrames(EnteredBlock(values, isLoop, pc))
<1> DEFINE c == [loop |-> isLoop, depth |-> Len(values), start |-> pc]
           controls == Append(instance.controls, c)
           now == EnteredBlock(values, isLoop, pc)
<1>1. instance \in WasmInstance /\ instance.controls \in Seq(ControlFrame)
  BY DEF InstanceOK, WasmInstance
<1>2. c \in ControlFrame
  BY LenProperties DEF ControlFrame
<1>3. now = [[instance EXCEPT !.values = values] EXCEPT !.controls = controls]
  BY DEF EnteredBlock
<1> HIDE DEF c
<1>4. controls \in Seq(ControlFrame)
  BY <1>1, <1>2, AppendProperties
<1> HIDE DEF controls, now
<1>5. /\ now \in WasmInstance /\ now.memory = instance.memory /\ now.module = instance.module
      /\ now.executed = instance.executed /\ now.calls = instance.calls
  BY <1>1, <1>3, <1>4 DEF WasmInstance
<1> QED
  BY <1>5 DEF SameFrames, InstanceOK, now

LEMMA LeavesSame ==
  ASSUME NEW now, SameFrames(now)
  PROVE  SameFrames(LeftBlock(now))
<1> DEFINE new == LeftBlock(now)
           controls == WithoutTop(now.controls, 1)
<1>1. now \in WasmInstance /\ now.controls \in Seq(ControlFrame)
  BY DEF SameFrames, InstanceOK, WasmInstance
<1>2. controls \in Seq(ControlFrame)
  BY <1>1, PartOfValues
<1>3. new = [now EXCEPT !.controls = controls]
  BY DEF LeftBlock
<1> HIDE DEF controls, new
<1>4. /\ new \in WasmInstance /\ new.memory = now.memory /\ new.module = now.module
      /\ new.executed = now.executed /\ new.calls = now.calls
  BY <1>1, <1>2, <1>3 DEF WasmInstance
<1> QED
  BY <1>4 DEF SameFrames, InstanceOK, new

LEMMA EntersBlocks ==
  ASSUME WasmInv, BlockOrLoop \/ IfThen
  PROVE  WasmInv'
<1>1. CASE BlockOrLoop
  <2> DEFINE now == EnteredBlock(instance.values, Opcode = Op.loop, At + 2)
  <2>1. Fetches({Op.block, Op.loop}) /\ GoesTo(At + 2, now)
    BY <1>1 DEF BlockOrLoop
  <2>2. SameFrames(now)
    BY <2>1, FetchesOne, EntersSame
  <2> HIDE DEF now
  <2> QED
    BY <2>1, <2>2, FetchesOne, GoesKeeps
<1>2. CASE IfThen
  <2> DEFINE values == WithoutTop(instance.values, 1)
             pc == IF Taken(1) = 0 THEN SkipFrom(At + 2, TRUE) ELSE At + 2
             now == EnteredBlock(values, FALSE, pc)
  <2>1. Fetches({Op.if})
    BY <1>2 DEF IfThen
  <2>2. CASE BadPops(instance.values, 1) # {}
    BY <1>2, <2>1, <2>2, TakesBad DEF IfThen, Taking
  <2>3. CASE BadPops(instance.values, 1) = {}
    <3>1. GoesTo(pc, now)
      BY <1>2, <2>3 DEF IfThen, Taking
    <3>2. values \in Seq(WasmValue)
      BY <2>1, <2>3, TakesGood
    <3>3. SkipFrom(At + 2, TRUE) \in Nat /\ At + 2 \in Nat
      BY <2>1, FetchesOne, SkipsTo
    <3>4. pc \in Nat
      BY <3>3
    <3> HIDE DEF values, pc
    <3>5. SameFrames(now)
      BY <2>1, <3>2, <3>4, FetchesOne, EntersSame
    <3> HIDE DEF now
    <3> QED
      BY <2>1, <3>1, <3>4, <3>5, FetchesOne, GoesKeeps
  <2> QED
    BY <2>2, <2>3
<1> QED
  BY <1>1, <1>2

LEMMA LeavesBlocks ==
  ASSUME WasmInv, ElseOrEnd
  PROVE  WasmInv'
<1>1. ASSUME Fetches({Op.else}), GoesTo(SkipFrom(At + 1, FALSE), LeftBlock(instance))
      PROVE  WasmInv'
  <2>1. SameFrames(instance)
    BY <1>1, FetchesOne DEF SameFrames
  <2>2. SameFrames(LeftBlock(instance))
    BY <2>1, LeavesSame
  <2>3. SkipFrom(At + 1, FALSE) \in Nat
    BY <1>1, FetchesOne, SkipsTo
  <2> QED
    BY <1>1, <2>2, <2>3, FetchesOne, GoesKeeps
<1>2. ASSUME Fetches({Op.end}), instance.controls = << >>, GoesTo(At + 1, instance)
      PROVE  WasmInv'
  BY <1>2, FetchesOne, StaysAndGoes
<1>3. ASSUME Fetches({Op.end}), FailsAt("panic", instance)
      PROVE  WasmInv'
  BY <1>3, StaysAndFails
<1>4. ASSUME Fetches({Op.end}), instance.controls # << >>,
             ~ (Last(instance.controls).depth > Len(instance.values)),
             GoesTo(At + 1, LeftBlock(Holding(
               SubSeq(instance.values, 1, Last(instance.controls).depth))))
      PROVE  WasmInv'
  <2> DEFINE depth == Last(instance.controls).depth
             values == SubSeq(instance.values, 1, depth)
  <2>1. instance.controls \in Seq(ControlFrame) /\ InstanceOK(instance)
        /\ instance.values \in Seq(WasmValue)
    BY <1>4, FetchesOne DEF InstanceOK, WasmInstance
  <2>2. depth \in Nat
    <3>1. Len(instance.controls) \in 1 .. Len(instance.controls)
      BY <1>4, <2>1, EmptySeq
    <3>2. instance.controls[Len(instance.controls)] \in ControlFrame
      BY <2>1, <3>1, ElementOfSeq
    <3> QED
      BY <3>2 DEF Last, ControlFrame
  <2>3. depth <= Len(instance.values) /\ Len(instance.values) \in Nat
    BY <1>4, <2>1, <2>2, LenProperties
  <2>4. GoesTo(At + 1, LeftBlock(Holding(values)))
    BY <1>4
  <2>5. values \in Seq(WasmValue)
    <3> HIDE DEF depth
    <3> QED
      BY <2>1, <2>2, <2>3, PartOfValues
  <2> HIDE DEF values
  <2>6. SameFrames(LeftBlock(Holding(values)))
    BY <2>1, <2>5, HoldingSame, LeavesSame
  <2> QED
    BY <1>4, <2>4, <2>6, FetchesOne, GoesKeeps
<1> QED
  BY <1>1, <1>2, <1>3, <1>4 DEF ElseOrEnd

LEMMA BranchesTo ==
  ASSUME WasmInv, running # << >>, NEW depth \in Nat
  PROVE  BranchTarget(depth) \in Nat
<1> DEFINE cs == instance.controls  n == Len(cs)
<1>1. cs \in Seq(ControlFrame) /\ At + 2 \in Nat
  <2>1. InstanceOK(instance)
    BY Fetched
  <2>2. At \in Nat
    BY Fetched
  <2> QED
    BY <2>1, <2>2 DEF InstanceOK, WasmInstance
<1>2. ASSUME depth < n PROVE cs[n - depth].start \in Nat
  <2>1. n - depth \in 1 .. n
    BY <1>1, <1>2, LenProperties
  <2>2. cs[n - depth] \in ControlFrame
    BY <1>1, <2>1, ElementOfSeq
  <2> QED
    BY <2>2 DEF ControlFrame
<1> QED
  BY <1>1, <1>2 DEF BranchTarget

LEMMA Branches ==
  ASSUME WasmInv, BranchTo
  PROVE  WasmInv'
<1>1. ASSUME Fetches({Op.br}), GoesTo(BranchTarget(Immediate(1)), instance)
      PROVE  WasmInv'
  BY <1>1, FetchesOne, BranchesTo, StaysAndGoes
<1>2. ASSUME Fetches({Op.brIf}), BadPops(instance.values, 1) = {},
             NEW pc \in {BranchTarget(Immediate(1)), At + 2},
             GoesTo(pc, Holding(WithoutTop(instance.values, 1)))
      PROVE  WasmInv'
  <2>1. WithoutTop(instance.values, 1) \in Seq(WasmValue)
    BY <1>2, TakesGood
  <2>2. pc \in Nat
    BY <1>2, FetchesOne, BranchesTo
  <2> QED
    BY <1>2, <2>1, <2>2, HoldsAndGoes
<1>3. ASSUME Fetches({Op.brIf}), BadPops(instance.values, 1) # {},
             FailsAt("stack", Holding(WithoutTop(instance.values,
                                                 Min(BadPops(instance.values, 1)))))
      PROVE  WasmInv'
  BY <1>3, TakesBad
<1> QED
  BY <1>1, <1>2, <1>3 DEF BranchTo, Taking

-----------------------------------------------------------------------------
(* Calls: callers and now are the activations and the instance as the call    *)
(* finds them.                                                               *)
CallFrom(callers, now) ==
  /\ InstanceOK(now) /\ now.module = instance.module
  /\ callers \in Seq(Activation(instance.module))
  /\ FramesMatch(now.calls, callers, abandoned)
  /\ Len(now.calls) = Len(instance.calls)

LEMMA PushesFrame ==
  ASSUME WasmInv, instance # NoInstance, NEW callers, NEW now, CallFrom(callers, now),
         Len(now.calls) < MaxCallDepth,
         NEW local \in DOMAIN instance.module.functions, NEW locals \in Seq(WasmValue),
         running' = Append(callers, [func |-> local, pc |-> 0, base |-> Len(now.values)]),
         instance' = [now EXCEPT !.calls = Append(@, [func |-> local, locals |-> locals])],
         UNCHANGED abandoned
  PROVE  WasmInv'
<1> DEFINE a == [func |-> local, pc |-> 0, base |-> Len(now.values)]
           top == [func |-> local, locals |-> locals]
           calls == Append(now.calls, top)
           pushed == Append(callers, a)
           i == [now EXCEPT !.calls = calls]
<1>1. instance' = i /\ running' = pushed /\ abandoned' = abandoned
  OBVIOUS
<1>2. /\ now \in WasmInstance /\ InstanceOK(now) /\ now.module = instance.module
      /\ now.calls \in Seq(CallFrame) /\ now.values \in Seq(WasmValue)
      /\ callers \in Seq(Activation(instance.module))
      /\ FramesMatch(now.calls, callers, abandoned) /\ abandoned \in Nat
      /\ MaxCallDepth \in Nat
  BY WasmAssumption DEF CallFrom, InstanceOK, WasmInstance, WasmInv
<1>3. local \in Nat
  <2>1. instance.module.functions \in Seq(FuncBody)
    BY <1>2 DEF WasmInstance, WasmModule
  <2> QED
    BY <2>1, LenProperties
<1>4. a \in Activation(instance.module) /\ a.func = local
  BY <1>2, LenProperties DEF Activation
<1>5. top \in CallFrame /\ top.func = local
  BY <1>3 DEF CallFrame
<1> HIDE DEF a, top
<1>6. /\ calls \in Seq(CallFrame) /\ Len(calls) = Len(now.calls) + 1
      /\ calls[Len(now.calls) + 1] = top
      /\ \A k \in 1 .. Len(now.calls) : calls[k] = now.calls[k]
  BY <1>2, <1>5, AppendProperties
<1>7. /\ pushed \in Seq(Activation(instance.module)) /\ Len(pushed) = Len(callers) + 1
      /\ pushed[Len(callers) + 1] = a /\ pushed # << >>
      /\ \A k \in 1 .. Len(callers) : pushed[k] = callers[k]
  BY <1>2, <1>4, AppendProperties
<1> HIDE DEF calls, pushed, i
<1>8. /\ i \in WasmInstance /\ i.memory = now.memory /\ i.module = now.module
      /\ i.executed = now.executed /\ i.calls = calls
  BY <1>2, <1>6 DEF WasmInstance, i
<1>9. InstanceOK(i)
  <2>1. Len(calls) <= MaxCallDepth
    BY <1>2, <1>6, LenProperties
  <2> QED
    BY <1>2, <1>8, <2>1 DEF InstanceOK
<1>10. FramesMatch(calls, pushed, abandoned)
  <2>1. Len(now.calls) = abandoned + Len(callers) /\ Len(callers) \in Nat
    BY <1>2, LenProperties DEF FramesMatch
  <2>2. ASSUME NEW k \in 1 .. Len(callers) + 1
        PROVE  calls[abandoned + k].func = pushed[k].func
    <3>1. CASE k = Len(callers) + 1
      BY <1>2, <1>4, <1>5, <1>6, <1>7, <2>1, <3>1
    <3>2. CASE k # Len(callers) + 1
      <4>1. k \in 1 .. Len(callers) /\ abandoned + k \in 1 .. Len(now.calls)
        BY <1>2, <2>1, <3>2
      <4> QED
        BY <1>2, <1>6, <1>7, <4>1 DEF FramesMatch
    <3> QED
      BY <3>1, <3>2
  <2> QED
    BY <1>2, <1>6, <1>7, <2>1, <2>2 DEF FramesMatch
<1>11. i # NoInstance
  BY <1>8, IsInstance
<1> QED
  BY <1>1, <1>2, <1>7, <1>8, <1>9, <1>10, <1>11 DEF WasmInv

(* A host function gives a value, when a function of the module called it.    *)
LEMMA HostReturns ==
  ASSUME WasmInv, instance # NoInstance, NEW callers, NEW now, CallFrom(callers, now),
         NEW result \in Seq(WasmValue), UNCHANGED abandoned, running' = callers,
         instance' = IF callers = << >> THEN now ELSE [now EXCEPT !.values = @ \o result]
  PROVE  WasmInv'
<1> DEFINE values == now.values \o result
           i == [now EXCEPT !.values = values]
<1>1. instance' \in {now, i}
  OBVIOUS
<1>2. now \in WasmInstance /\ now.values \in Seq(WasmValue) /\ InstanceOK(now)
      /\ abandoned \in Nat
  BY DEF CallFrom, InstanceOK, WasmInstance, WasmInv
<1>3. values \in Seq(WasmValue)
  BY <1>2, ConcatProperties
<1> HIDE DEF values, i
<1>4. /\ i \in WasmInstance /\ i.memory = now.memory /\ i.module = now.module
      /\ i.executed = now.executed /\ i.calls = now.calls
  BY <1>2, <1>3 DEF WasmInstance, i
<1>5. /\ InstanceOK(instance') /\ instance'.module = now.module
      /\ instance'.calls = now.calls
  BY <1>1, <1>2, <1>4 DEF InstanceOK
<1>6. instance' # NoInstance
  BY <1>5, IsInstance DEF InstanceOK
<1> QED
  BY <1>2, <1>5, <1>6 DEF CallFrom, WasmInv

LEMMA EntersFunction ==
  ASSUME WasmInv, instance # NoInstance, NEW f \in Nat, NEW args \in Seq(WasmValue),
         NEW callers, NEW now, CallFrom(callers, now), Enter(f, args, callers, now)
  PROVE  WasmInv'
<1> DEFINE local == f - Len(HostImports) + 1
           code == instance.module.functions[local]
           given == SubSeq(args, 1, Min({Len(args), code.params}))
           locals == Padded(given, code.params + code.locals)
           result == IF HostImports[f + 1] = "log" THEN << >> ELSE << I32(0) >>
<1>1. InstanceOK(now) /\ Len(now.calls) = Len(instance.calls)
  BY DEF CallFrom
<1>2. /\ HostImports \in Seq(HostNames) /\ Len(HostImports) \in Nat
      /\ instance.module.functions \in Seq(FuncBody)
      /\ now.calls \in Seq(CallFrame) /\ MaxCallDepth \in Nat
  BY WasmAssumption, LenProperties
     DEF CallFrom, InstanceOK, WasmInstance, WasmModule, HostImports
<1>3. ASSUME NEW error, Fails(error, now) PROVE WasmInv'
  BY <1>1, <1>3, EndsKeeps
<1>4. ASSUME UNCHANGED abandoned, running' = callers,
             instance' = IF callers = << >> THEN now ELSE [now EXCEPT !.values = @ \o result]
      PROVE  WasmInv'
  <2>1. I32(0) \in WasmValue
    BY WrapsToInt
  <2>2. result \in Seq(WasmValue)
    BY <2>1
  <2> HIDE DEF result
  <2> QED
    BY <1>4, <2>2, HostReturns
<1>5. ASSUME ~ (Len(now.calls) >= MaxCallDepth), ~ (f < Len(HostImports)),
             ~ (local > Len(instance.module.functions)), UNCHANGED abandoned,
             running' = Append(callers, [func |-> local, pc |-> 0, base |-> Len(now.values)]),
             instance' = [now EXCEPT !.calls = Append(@, [func |-> local, locals |-> locals])]
      PROVE  WasmInv'
  <2>1. Len(now.calls) < MaxCallDepth
    BY <1>2, <1>5, LenProperties
  <2>2. local \in DOMAIN instance.module.functions
    BY <1>2, <1>5, LenProperties
  <2>3. code \in FuncBody
    BY <1>2, <2>2, LenProperties, ElementOfSeq
  <2>4. locals \in Seq(WasmValue)
    <3> HIDE DEF code
    <3>1. code.params \in Nat /\ code.locals \in Nat /\ Len(args) \in Nat
      BY <2>3, LenProperties DEF FuncBody
    <3>2. Min({Len(args), code.params}) \in Int
          /\ Min({Len(args), code.params}) <= Len(args)
      BY <3>1, SmallerIs
    <3>3. given \in Seq(WasmValue)
      <4> DEFINE n == Min({Len(args), code.params})
      <4> HIDE DEF n
      <4>1. SubSeq(args, 1, n) \in Seq(WasmValue)
        BY <3>2, PartOfValues DEF n
      <4> QED
        BY <4>1 DEF n
    <3> HIDE DEF given
    <3> QED
      BY <3>1, <3>3, PaddedOK
  <2> HIDE DEF local, locals, code
  <2> QED
    BY <1>5, <2>1, <2>2, <2>4, PushesFrame
<1> QED
  BY <1>3, <1>4, <1>5 DEF Enter

LEMMA CallsExport ==
  ASSUME WasmInv, NEW f \in Nat, NEW args \in CallArguments, CallExport(f, args)
  PROVE  WasmInv'
<1>1. instance # NoInstance /\ running = << >> /\ Enter(f, args, << >>, instance)
  BY DEF CallExport
<1>2. CallFrom(<< >>, instance)
  BY <1>1 DEF WasmInv, CallFrom
<1>3. args \in Seq(WasmValue)
  BY WasmAssumption
<1> QED
  BY <1>1, <1>2, <1>3, EntersFunction

LEMMA CallsFunction ==
  ASSUME WasmInv, CallInstruction
  PROVE  WasmInv'
<1> DEFINE values == WithoutTop(instance.values, 4)
           n == Len(running)
           callers == [running EXCEPT ![n].pc = At + 2]
           held == Holding(values)
           now == [held EXCEPT !.executed = @ + 1]
<1>1. Fetches({Op.call}) /\ Enter(Immediate(1), TopOf(instance.values, 4), callers, now)
  BY DEF CallInstruction
<1>2. /\ running # << >> /\ instance.executed < MaxInstructions /\ At + 2 \in Nat
      /\ Immediate(1) \in Nat /\ InstanceOK(instance) /\ instance.values \in Seq(WasmValue)
  BY <1>1, FetchesOne
<1>3. /\ instance # NoInstance /\ running \in Seq(Activation(instance.module))
      /\ n \in Nat \ {0} /\ FramesMatch(instance.calls, running, abandoned)
      /\ abandoned \in Nat
  BY <1>2, Fetched DEF WasmInv
<1>4. values \in Seq(WasmValue) /\ TopOf(instance.values, 4) \in Seq(WasmValue)
  BY <1>2, PartOfValues
<1>5. /\ callers \in Seq(Activation(instance.module)) /\ Len(callers) = n
      /\ \A k \in 1 .. n : callers[k].func = running[k].func
  <2> DEFINE last == [running[n] EXCEPT !.pc = At + 2]
  <2>1. callers = [running EXCEPT ![n] = last]
    OBVIOUS
  <2>2. running[n] \in Activation(instance.module)
    BY <1>3
  <2>3. last \in Activation(instance.module) /\ last.func = running[n].func
    BY <1>2, <2>2 DEF Activation
  <2> HIDE DEF last, callers, n
  <2> QED
    BY <1>3, <2>1, <2>3, ExceptSeq DEF n
<1> HIDE DEF values, callers
<1>6. SameFrames(held)
  BY <1>2, <1>4, HoldingSame
<1> HIDE DEF held
<1>7. InstanceOK(now) /\ now.module = held.module /\ now.calls = held.calls
  BY <1>2, <1>6, InstructionCounted DEF SameFrames
<1> HIDE DEF now
<1>8. FramesMatch(now.calls, callers, abandoned)
  <2>1. Len(now.calls) = abandoned + n /\ Len(instance.calls) = abandoned + n
    BY <1>3, <1>6, <1>7 DEF FramesMatch, SameFrames, n
  <2>2. ASSUME NEW k \in 1 .. n PROVE now.calls[abandoned + k].func = callers[k].func
    <3>1. abandoned + k \in 1 .. Len(instance.calls)
      BY <1>3, <2>1
    <3> QED
      BY <1>3, <1>5, <1>6, <1>7, <3>1 DEF FramesMatch, SameFrames, n
  <2> QED
    BY <1>5, <2>1, <2>2 DEF FramesMatch
<1>9. CallFrom(callers, now)
  BY <1>5, <1>6, <1>7, <1>8 DEF CallFrom, SameFrames
<1> QED
  BY <1>1, <1>2, <1>3, <1>4, <1>9, EntersFunction

LEMMA FrontIs ==
  ASSUME NEW S, NEW seq \in Seq(S), seq # << >>
  PROVE  /\ Front(seq) \in Seq(S) /\ Len(Front(seq)) = Len(seq) - 1
         /\ \A k \in 1 .. Len(seq) - 1 : Front(seq)[k] = seq[k]
<1> DEFINE n == Len(seq)
<1>1. n \in Nat \ {0} /\ \A k \in 1 .. n : seq[k] \in S
  BY EmptySeq, ElementOfSeq
<1>2. Front(seq) = SubSeq(seq, 1, n - 1)
  BY DEF Front
<1> HIDE DEF n
<1>3. 1 \in Int /\ n - 1 \in Int /\ \A k \in 1 .. n - 1 : seq[k] \in S
  BY <1>1
<1>4. /\ SubSeq(seq, 1, n - 1) \in Seq(S)
      /\ Len(SubSeq(seq, 1, n - 1)) = IF 1 <= n - 1 THEN (n - 1) - 1 + 1 ELSE 0
      /\ \A k \in 1 .. (n - 1) - 1 + 1 : SubSeq(seq, 1, n - 1)[k] = seq[1 + k - 1]
  <2> DEFINE m == n - 1
  <2>1. m \in Int /\ \A k \in 1 .. m : seq[k] \in S
    BY <1>3
  <2> HIDE DEF m
  <2>2. /\ SubSeq(seq, 1, m) \in Seq(S)
        /\ Len(SubSeq(seq, 1, m)) = IF 1 <= m THEN m - 1 + 1 ELSE 0
        /\ \A k \in 1 .. m - 1 + 1 : SubSeq(seq, 1, m)[k] = seq[1 + k - 1]
    BY <2>1, SubSeqProperties
  <2> QED
    BY <2>2 DEF m
<1>5. ASSUME NEW k \in 1 .. n - 1 PROVE SubSeq(seq, 1, n - 1)[k] = seq[k]
  <2>1. k \in 1 .. (n - 1) - 1 + 1 /\ 1 + k - 1 = k
    BY <1>1
  <2> QED
    BY <1>4, <2>1
<1>6. Len(SubSeq(seq, 1, n - 1)) = n - 1
  BY <1>1, <1>4
<1> QED
  BY <1>2, <1>4, <1>5, <1>6 DEF n

(* A function that returns takes its own frame with it.                      *)
LEMMA LeavesFunction ==
  ASSUME WasmInv, running # << >>, NEW now, SameFrames(now) \/ CallFrom(running, now),
         Leave(now)
  PROVE  WasmInv'
<1> DEFINE arity == instance.module.functions[Active.func].results
           l == Len(now.values)
           kept == SubSeq(now.values, 1, Min({Active.base, Max({0, l - arity})}))
           result == IF Len(running) = 1 THEN kept ELSE kept \o TopOf(now.values, arity)
           calls == Front(now.calls)
           i == [now EXCEPT !.calls = calls, !.values = result]
           n == Len(running)
           rest == Front(running)
<1>1. instance' = i /\ running' = rest /\ abandoned' = abandoned
  BY DEF Leave, FramesLeft
<1>2. /\ instance # NoInstance /\ InstanceOK(instance)
      /\ running \in Seq(Activation(instance.module)) /\ n \in Nat \ {0}
      /\ FramesMatch(instance.calls, running, abandoned) /\ abandoned \in Nat
      /\ Active \in Activation(instance.module)
  BY Fetched DEF WasmInv
<1>3. /\ now \in WasmInstance /\ InstanceOK(now) /\ now.module = instance.module
      /\ now.calls \in Seq(CallFrame) /\ now.values \in Seq(WasmValue)
  BY DEF SameFrames, CallFrom, InstanceOK, WasmInstance
<1>4. FramesMatch(now.calls, running, abandoned)
  <2>1. CASE CallFrom(running, now)
    BY <2>1 DEF CallFrom
  <2>2. CASE SameFrames(now)
    <3>1. Len(now.calls) = abandoned + n /\ Len(instance.calls) = abandoned + n
      BY <1>2, <2>2 DEF FramesMatch, SameFrames
    <3>2. ASSUME NEW k \in 1 .. n PROVE now.calls[abandoned + k].func = running[k].func
      <4>1. abandoned + k \in 1 .. Len(instance.calls)
        BY <1>2, <3>1
      <4> QED
        BY <1>2, <2>2, <4>1 DEF FramesMatch, SameFrames
    <3> QED
      BY <3>1, <3>2 DEF FramesMatch
  <2> QED
    BY <2>1, <2>2
<1>5. result \in Seq(WasmValue)
  <2>1. arity \in Nat /\ Active.base \in Nat /\ l \in Nat
    <3> DEFINE fs == instance.module.functions
    <3>1. fs \in Seq(FuncBody) /\ Active.func \in DOMAIN fs /\ Active.base \in Nat
      BY <1>2 DEF InstanceOK, WasmInstance, WasmModule, Activation
    <3> HIDE DEF fs
    <3> DEFINE body == fs[Active.func]
    <3>2. body \in FuncBody
      BY <3>1
    <3>3. arity = body.results
      BY DEF fs
    <3> HIDE DEF body
    <3>4. body.results \in Nat
      BY <3>2 DEF FuncBody
    <3>5. l \in Nat
      BY <1>3, LenProperties
    <3> HIDE DEF arity, l
    <3> QED
      BY <3>1, <3>3, <3>4, <3>5
  <2> HIDE DEF arity, l
  <2> DEFINE m == Min({Active.base, Max({0, l - arity})})
  <2>2. m \in Int /\ m <= l
    <3> DEFINE most == Max({0, l - arity})
    <3>1. most \in Int /\ most <= l
      BY <2>1, LargerIs
    <3> HIDE DEF most
    <3>2. Min({Active.base, most}) = IF Active.base <= most THEN Active.base ELSE most
      BY <2>1, <3>1, SmallerIs
    <3> QED
      BY <2>1, <3>1, <3>2 DEF most
  <2> HIDE DEF m
  <2>3. SubSeq(now.values, 1, m) \in Seq(WasmValue)
    BY <1>3, <2>2, PartOfValues DEF l
  <2>4. kept \in Seq(WasmValue)
    BY <2>3 DEF m
  <2>5. TopOf(now.values, arity) \in Seq(WasmValue)
    BY <1>3, <2>1, PartOfValues
  <2> HIDE DEF kept
  <2>6. kept \o TopOf(now.values, arity) \in Seq(WasmValue)
    BY <2>4, <2>5, ConcatProperties
  <2> QED
    BY <2>4, <2>6
<1>6. now.calls # << >> /\ Len(now.calls) = abandoned + n
  <2>1. Len(now.calls) = abandoned + n
    BY <1>4 DEF FramesMatch
  <2>2. Len(now.calls) # 0
    BY <1>2, <2>1
  <2> QED
    BY <1>3, <2>1, <2>2
<1>7. /\ calls \in Seq(CallFrame) /\ Len(calls) = Len(now.calls) - 1
      /\ \A k \in 1 .. Len(now.calls) - 1 : calls[k] = now.calls[k]
  BY <1>3, <1>6, FrontIs
<1>8. /\ rest \in Seq(Activation(instance.module)) /\ Len(rest) = n - 1
      /\ \A k \in 1 .. n - 1 : rest[k] = running[k]
  BY <1>2, FrontIs
<1> HIDE DEF result, calls, rest, n
<1>9. i = [[now EXCEPT !.calls = calls] EXCEPT !.values = result]
  OBVIOUS
<1> HIDE DEF i
<1>10. /\ i \in WasmInstance /\ i.memory = now.memory /\ i.module = now.module
       /\ i.executed = now.executed /\ i.calls = calls
  BY <1>3, <1>5, <1>7, <1>9 DEF WasmInstance
<1>11. InstanceOK(i)
  <2>1. Len(calls) <= MaxCallDepth
    BY <1>3, <1>7, LenProperties, WasmAssumption DEF InstanceOK
  <2> QED
    BY <1>3, <1>10, <2>1 DEF InstanceOK
<1>12. FramesMatch(calls, rest, abandoned)
  <2>1. Len(calls) = abandoned + Len(rest)
    BY <1>2, <1>6, <1>7, <1>8
  <2>2. ASSUME NEW k \in 1 .. n - 1 PROVE calls[abandoned + k].func = rest[k].func
    <3>1. abandoned + k \in 1 .. Len(now.calls) - 1 /\ k \in 1 .. n
      BY <1>2, <1>6
    <3> QED
      BY <1>4, <1>7, <1>8, <3>1 DEF FramesMatch, n
  <2> QED
    BY <1>8, <2>1, <2>2 DEF FramesMatch
<1>13. i # NoInstance
  BY <1>10, IsInstance
<1> QED
  BY <1>1, <1>2, <1>3, <1>8, <1>10, <1>11, <1>12, <1>13 DEF WasmInv

LEMMA Returns ==
  ASSUME WasmInv, ReturnFrom
  PROVE  WasmInv'
<1>1. CASE Fetches({Op.return}) /\ Leave([instance EXCEPT !.executed = @ + 1])
  <2> DEFINE now == [instance EXCEPT !.executed = @ + 1]
  <2>1. running # << >> /\ instance.executed < MaxInstructions /\ InstanceOK(instance)
    BY <1>1, FetchesOne
  <2>2. InstanceOK(now) /\ now.module = instance.module /\ now.calls = instance.calls
    BY <2>1, InstructionCounted
  <2> HIDE DEF now
  <2>3. CallFrom(running, now)
    BY <2>1, <2>2, Fetched DEF CallFrom
  <2> QED
    BY <1>1, <2>1, <2>3, LeavesFunction DEF now
<1>2. CASE running # << >> /\ At >= Len(Bytecode) /\ Leave(instance)
  <2>1. SameFrames(instance)
    BY <1>2, Fetched DEF SameFrames
  <2> QED
    BY <1>2, <2>1, LeavesFunction
<1> QED
  BY <1>1, <1>2 DEF ReturnFrom

LEMMA Traps ==
  ASSUME WasmInv, TrapOut
  PROVE  WasmInv'
<1>1. ASSUME Fetches({Op.unreachable}), FailsAt("unreachable", instance) PROVE WasmInv'
  BY <1>1, StaysAndFails
<1>2. ASSUME running # << >>, Fails("cpu", instance) PROVE WasmInv'
  BY <1>2, Fetched, EndsKeeps
<1> QED
  BY <1>1, <1>2 DEF TrapOut

-----------------------------------------------------------------------------
(* Variables and memory.                                                     *)
LEMMA ReadsVariable ==
  ASSUME WasmInv, ReadVariable
  PROVE  WasmInv'
<1> DEFINE idx == Immediate(1) + 1
           locals == Last(instance.calls).locals
           global == IF idx \in DOMAIN instance.globals THEN instance.globals[idx] ELSE I32(0)
<1>1. ASSUME NEW ops, Fetches(ops), NEW v \in WasmValue, GoesTo(At + 2, Pushing(v))
      PROVE  WasmInv'
  <2>1. instance.values \in Seq(WasmValue) /\ At + 2 \in Nat
    BY <1>1, FetchesOne
  <2>2. Append(instance.values, v) \in Seq(WasmValue)
    BY <2>1, AppendProperties
  <2> QED
    BY <1>1, <2>1, <2>2, HoldsAndGoes DEF Pushing
<1>2. ASSUME Fetches({Op.localGet}) PROVE locals \in Seq(WasmValue)
  <2>1. running # << >>
    BY <1>2, FetchesOne
  <2>2. instance.calls \in Seq(CallFrame) /\ Len(running) \in Nat \ {0} /\ abandoned \in Nat
        /\ Len(instance.calls) = abandoned + Len(running)
    BY <2>1, Fetched DEF InstanceOK, WasmInstance, WasmInv, FramesMatch
  <2>3. Len(instance.calls) \in 1 .. Len(instance.calls)
    BY <2>2
  <2>4. instance.calls[Len(instance.calls)] \in CallFrame
    BY <2>2, <2>3, ElementOfSeq
  <2> QED
    BY <2>4 DEF Last, CallFrame
<1>3. ASSUME Fetches({Op.localGet}), idx \in DOMAIN locals, GoesTo(At + 2, Pushing(locals[idx]))
      PROVE  WasmInv'
  <2>1. locals \in Seq(WasmValue)
    BY <1>2, <1>3
  <2> HIDE DEF locals
  <2>2. locals[idx] \in WasmValue
    BY <1>3, <2>1
  <2> QED
    BY <1>1, <1>3, <2>2
<1>4. ASSUME Fetches({Op.localGet}), FailsAt("stack", instance)
      PROVE  WasmInv'
  BY <1>4, StaysAndFails
<1>5. ASSUME Fetches({Op.globalGet}), GoesTo(At + 2, Pushing(global))
      PROVE  WasmInv'
  <2>1. instance.globals \in Seq(WasmValue)
    BY <1>5, FetchesOne DEF InstanceOK, WasmInstance
  <2>2. global \in WasmValue
    BY <2>1, WrapsToInt
  <2> HIDE DEF global
  <2> QED
    BY <1>1, <1>5, <2>2
<1> QED
  BY <1>3, <1>4, <1>5 DEF ReadVariable

LEMMA LocalsSame ==
  ASSUME NEW now, SameFrames(now), Len(now.calls) >= 1, NEW idx \in Nat, NEW v \in WasmValue
  PROVE  SameFrames([now EXCEPT !.calls[Len(now.calls)].locals = WrittenAt(@, idx, v)])
<1> DEFINE n == Len(now.calls)
           top == now.calls[n]
           locals == WrittenAt(top.locals, idx, v)
           last == [top EXCEPT !.locals = locals]
           calls == [now.calls EXCEPT ![n] = last]
           new == [now EXCEPT !.calls = calls]
<1>1. now \in WasmInstance /\ now.calls \in Seq(CallFrame) /\ n \in 1 .. n
  <2>1. now \in WasmInstance /\ now.calls \in Seq(CallFrame)
    BY DEF SameFrames, InstanceOK, WasmInstance
  <2> QED
    BY <2>1, LenProperties
<1>2. top \in CallFrame
  BY <1>1, ElementOfSeq
<1>3. [now EXCEPT !.calls[Len(now.calls)].locals = WrittenAt(@, idx, v)] = new
  OBVIOUS
<1> HIDE DEF top
<1>4. locals \in Seq(WasmValue)
  BY <1>2, WrittenOK DEF CallFrame
<1> HIDE DEF locals
<1>5. last \in CallFrame /\ last.func = top.func
  BY <1>2, <1>4 DEF CallFrame
<1> HIDE DEF last
<1>6. /\ calls \in Seq(CallFrame) /\ Len(calls) = n
      /\ \A k \in 1 .. n : calls[k] = IF k = n THEN last ELSE now.calls[k]
  BY <1>1, <1>5, ExceptSeq
<1>7. \A k \in 1 .. n : calls[k].func = now.calls[k].func
  BY <1>1, <1>5, <1>6 DEF top
<1> HIDE DEF calls, new
<1>8. /\ new \in WasmInstance /\ new.memory = now.memory /\ new.module = now.module
      /\ new.executed = now.executed /\ new.calls = calls
  BY <1>1, <1>6 DEF WasmInstance, new
<1>9. SameFrames(new)
  BY <1>6, <1>7, <1>8 DEF SameFrames, InstanceOK, n
<1> QED
  BY <1>3, <1>9

LEMMA WritesVariable ==
  ASSUME WasmInv, WriteVariable
  PROVE  WasmInv'
<1> DEFINE v == LastOr0(instance.values)
           idx == Immediate(1)
           rest == Holding(WithoutTop(instance.values, 1))
           In(now) == [now EXCEPT !.calls[Len(now.calls)].locals = WrittenAt(@, idx, v)]
           global == [rest EXCEPT !.globals = WrittenAt(@, idx, v)]
<1>1. PICK ops : Fetches(ops)
  BY DEF WriteVariable
<1>2. /\ running # << >> /\ instance.executed < MaxInstructions /\ At + 2 \in Nat
      /\ idx \in Nat /\ InstanceOK(instance) /\ instance.values \in Seq(WasmValue)
  BY <1>1, FetchesOne
<1>3. v \in WasmValue
  BY <1>2, LastOK
<1>4. SameFrames(instance) /\ Len(instance.calls) >= 1
  <2>1. /\ Len(running) \in Nat \ {0} /\ abandoned \in Nat
        /\ Len(instance.calls) = abandoned + Len(running)
    BY <1>2, Fetched DEF WasmInv, FramesMatch
  <2> QED
    BY <1>2, <2>1 DEF SameFrames
<1>5. SameFrames(rest) /\ Len(rest.calls) >= 1
  <2>1. WithoutTop(instance.values, 1) \in Seq(WasmValue)
    BY <1>2, PartOfValues
  <2> QED
    BY <1>2, <1>4, <2>1, HoldingSame DEF SameFrames
<1> HIDE DEF v, rest, idx
<1>6. SameFrames(In(instance)) /\ SameFrames(In(rest))
  BY <1>2, <1>3, <1>4, <1>5, LocalsSame
<1>7. SameFrames(global)
  <2> DEFINE globals == WrittenAt(rest.globals, idx, v)
             new == [rest EXCEPT !.globals = globals]
  <2>1. rest \in WasmInstance /\ rest.globals \in Seq(WasmValue)
    BY <1>5 DEF SameFrames, InstanceOK, WasmInstance
  <2>2. globals \in Seq(WasmValue)
    BY <1>2, <1>3, <2>1, WrittenOK
  <2>3. global = new
    OBVIOUS
  <2> HIDE DEF globals, new
  <2>4. /\ new \in WasmInstance /\ new.memory = rest.memory /\ new.module = rest.module
        /\ new.executed = rest.executed /\ new.calls = rest.calls
    BY <2>1, <2>2 DEF WasmInstance, new
  <2>5. SameFrames(new)
    BY <1>5, <2>4 DEF SameFrames, InstanceOK
  <2> QED
    BY <2>3, <2>5
<1>8. GoesTo(At + 2, In(rest)) \/ GoesTo(At + 2, In(instance)) \/ GoesTo(At + 2, global)
  BY DEF WriteVariable, v, rest, idx
<1> HIDE DEF In, global
<1> QED
  BY <1>2, <1>6, <1>7, <1>8, GoesKeeps

LEMMA LoadsValue ==
  ASSUME WasmInv, LoadI32
  PROVE  WasmInv'
<1> DEFINE values == WithoutTop(instance.values, 1)
           base == Taken(1)
           offset == Immediate(2)
           a == base + offset
           read == SubSeq(instance.memory, a + 1, a + 4)
<1>1. Fetches({Op.load})
  BY DEF LoadI32
<1>2. InstanceOK(instance) /\ offset \in Nat /\ At + 3 \in Nat
      /\ instance.memory \in Seq(Int) /\ Len(instance.memory) \in Nat
  BY <1>1, FetchesOne, LenProperties DEF InstanceOK, WasmInstance
<1>3. CASE BadPops(instance.values, 1) # {}
  BY <1>1, <1>3, TakesBad DEF LoadI32, Taking
<1>4. CASE BadPops(instance.values, 1) = {}
  <2>1. values \in Seq(WasmValue) /\ base \in Int
    BY <1>1, <1>4, TakesGood
  <2>2. CASE AccessOf(base, offset) # "fine"
    <3>1. FailsAt(AccessOf(base, offset), Holding(values))
      BY <1>4, <2>2 DEF LoadI32, Taking
    <3> HIDE DEF values
    <3> QED
      BY <1>1, <2>1, <3>1, HoldsAndFails
  <2>3. CASE AccessOf(base, offset) = "fine"
    <3>1. GoesTo(At + 3, Holding(Append(values, I32(FromDigits(read)))))
      BY <1>4, <2>3 DEF LoadI32, Taking
    <3>2. base >= 0 /\ a + 4 <= Len(instance.memory) /\ a \in Nat
      <4> HIDE DEF base, offset
      <4> QED
        BY <1>2, <2>1, <2>3 DEF AccessOf
    <3> HIDE DEF a, values
    <3>3. \A j \in 1 .. 4 : read[j] \in Int
      <4>1. \A i \in a + 1 .. a + 4 : instance.memory[i] \in Int
        <5> DEFINE memory == instance.memory
        <5>1. memory \in Seq(Int) /\ a \in Nat /\ Len(memory) \in Nat /\ a + 4 <= Len(memory)
          BY <1>2, <3>2
        <5> HIDE DEF memory
        <5>2. \A i \in a + 1 .. a + 4 : i \in 1 .. Len(memory)
          BY <5>1
        <5>3. \A i \in 1 .. Len(memory) : memory[i] \in Int
          BY <5>1, ElementOfSeq
        <5> QED
          BY <5>2, <5>3 DEF memory
      <4>2. a + 1 \in Int /\ a + 4 \in Int
        BY <3>2
      <4>3. read \in Seq(Int) /\ Len(read) = 4
        BY <3>2, <4>1, <4>2, SubSeqProperties
      <4> QED
        BY <4>3, ElementOfSeq
    <3> HIDE DEF read
    <3>4. FromDigits(read) \in Int
      <4> DEFINE n == read[1] + PlaceValue[2] * read[2] + PlaceValue[3] * read[3]
                        + PlaceValue[4] * read[4]
      <4>1. /\ read[1] \in Int /\ read[2] \in Int /\ read[3] \in Int /\ read[4] \in Int
            /\ PlaceValue[2] \in Int /\ PlaceValue[3] \in Int /\ PlaceValue[4] \in Int
        BY <3>3, WordIs
      <4>2. n \in Int
        BY <4>1
      <4> HIDE DEF n
      <4>3. Wrap32(n) \in Int
        BY <4>2, WrapsToInt
      <4> QED
        BY <4>3 DEF FromDigits, n
    <3>5. I32(FromDigits(read)) \in WasmValue
      BY <3>4, WrapsToInt
    <3>6. Append(values, I32(FromDigits(read))) \in Seq(WasmValue)
      BY <2>1, <3>5, AppendProperties
    <3> QED
      BY <1>1, <1>2, <3>1, <3>6, HoldsAndGoes
  <2> QED
    BY <2>2, <2>3
<1> QED
  BY <1>3, <1>4

LEMMA StoresValue ==
  ASSUME WasmInv, StoreI32
  PROVE  WasmInv'
<1> DEFINE values == WithoutTop(instance.values, 2)
           a == Taken(2) + Immediate(2)
           access == AccessOf(Taken(2), Immediate(2))
           held == Holding(values)
           memory == [k \in DOMAIN held.memory |->
                        IF k \in a + 1 .. a + 4 THEN DigitsOf(Taken(1))[k - a]
                        ELSE held.memory[k]]
           now == [held EXCEPT !.memory = memory]
<1>1. Fetches({Op.store})
  BY DEF StoreI32
<1>2. /\ running # << >> /\ instance.executed < MaxInstructions /\ InstanceOK(instance)
      /\ Immediate(2) \in Nat /\ At + 3 \in Nat
  BY <1>1, FetchesOne
<1>3. CASE BadPops(instance.values, 2) # {}
  BY <1>1, <1>3, TakesBad DEF StoreI32, Taking
<1>4. CASE BadPops(instance.values, 2) = {}
  <2>1. values \in Seq(WasmValue) /\ Taken(1) \in Int /\ Taken(2) \in Int
    BY <1>1, <1>4, TakesGood
  <2>2. CASE access # "fine"
    <3>1. FailsAt(access, Holding(values))
      BY <1>4, <2>2 DEF StoreI32, Taking
    <3> HIDE DEF values
    <3> QED
      BY <1>1, <2>1, <3>1, HoldsAndFails
  <2>3. CASE access = "fine"
    <3>1. GoesTo(At + 3, now)
      BY <1>4, <2>3 DEF StoreI32, Taking
    <3>2. SameFrames(held)
      BY <1>2, <2>1, HoldingSame
    <3>3. held \in WasmInstance /\ held.memory \in Seq(Int)
      BY <3>2 DEF SameFrames, InstanceOK, WasmInstance
    <3>4. memory \in Seq(Int) /\ Len(memory) = Len(held.memory)
      <4> DEFINE n == Len(held.memory)
      <4>1. n \in Nat /\ DOMAIN held.memory = 1 .. n
            /\ \A k \in 1 .. n : held.memory[k] \in Int
        BY <3>3, LenProperties, ElementOfSeq
      <4>2. a \in Int
        BY <1>2, <2>1
      <4> HIDE DEF a, held, n
      <4>3. ASSUME NEW k \in 1 .. n PROVE memory[k] \in Int
        <5>1. CASE k \in a + 1 .. a + 4
          <6>1. k - a \in 1 .. 4
            BY <4>2, <5>1
          <6>2. DigitsOf(Taken(1))[k - a] \in Int
            BY <2>1, <6>1, DigitsAreInts
          <6> QED
            BY <4>1, <5>1, <6>2
        <5>2. CASE k \notin a + 1 .. a + 4
          BY <4>1, <5>2
        <5> QED
          BY <5>1, <5>2
      <4>4. memory = [k \in 1 .. n |-> memory[k]]
        BY <4>1
      <4> HIDE DEF memory
      <4>5. memory \in [1 .. n -> Int]
        BY <4>3, <4>4
      <4>6. memory \in Seq(Int)
        BY <4>1, <4>5, SeqDef
      <4>7. DOMAIN memory = 1 .. n
        BY <4>4
      <4>8. Len(memory) = n
        BY <4>1, <4>6, <4>7, LenProperties
      <4> QED
        BY <4>6, <4>8 DEF n
    <3> HIDE DEF held, memory, now
    <3>5. /\ now \in WasmInstance /\ now.memory = memory /\ now.module = held.module
          /\ now.executed = held.executed /\ now.calls = held.calls
      BY <3>3, <3>4 DEF WasmInstance, now
    <3>6. SameFrames(now)
      BY <3>2, <3>4, <3>5 DEF SameFrames, InstanceOK
    <3> QED
      BY <1>2, <3>1, <3>6, GoesKeeps
  <2> QED
    BY <2>2, <2>3
<1> QED
  BY <1>3, <1>4

-----------------------------------------------------------------------------
(* The rest of the instructions.                                             *)
LEMMA BinaryIsInt ==
  ASSUME NEW op \in Compares \cup {Op.add, Op.sub, Op.mul, Op.div}, NEW x \in Int, NEW y \in Int,
         op = Op.div => y # 0
  PROVE  Binary(op, x, y) \in Int
<1> DEFINE d == IF y < 0 THEN -y ELSE y
           m == IF x < 0 THEN -x ELSE x
<1>1. ASSUME y # 0 PROVE Divided(x, y) \in Int
  <2>1. d \in Nat \ {0} /\ m \in Int
    BY <1>1
  <2> HIDE DEF d, m
  <2>2. m \div d \in Int
    BY <2>1
  <2> DEFINE q == m \div d
  <2>3. Divided(x, y) = IF (x < 0) = (y < 0) THEN q ELSE -q
    BY DEF Divided, d, m
  <2> HIDE DEF q
  <2>4. q \in Int
    BY <2>2 DEF q
  <2> QED
    BY <2>3, <2>4
<1>2. \A p : Truth(p) \in Int
  BY DEF Truth
<1>3. x + y \in Int /\ x - y \in Int /\ x * y \in Int
  OBVIOUS
<1>4. op \in {70, 71, 72, 74, 76, 78, 106, 107, 108, 109}
      /\ Op.eq = 70 /\ Op.ne = 71 /\ Op.lt = 72 /\ Op.gt = 74 /\ Op.le = 76 /\ Op.ge = 78
      /\ Op.add = 106 /\ Op.sub = 107 /\ Op.mul = 108 /\ Op.div = 109
  BY DEF Compares, Op
<1>5. CASE op \in {Op.add, Op.sub, Op.mul}
  <2>1. op \in {106, 107, 108} /\ op # Op.div
    BY <1>4, <1>5
  <2> QED
    BY <1>3, <1>4, <2>1 DEF Binary
<1>6. CASE op = Op.div
  <2>1. Binary(op, x, y) = Divided(x, y)
    BY <1>4, <1>6 DEF Binary
  <2> QED
    BY <1>1, <1>6, <2>1
<1>7. CASE op \in Compares
  <2>1. op \in {70, 71, 72, 74, 76, 78}
    BY <1>4, <1>7 DEF Compares
  <2>2. op \notin {Op.add, Op.sub, Op.mul, Op.div}
    BY <1>4, <2>1
  <2>3. Binary(op, x, y) \in {Truth(x = y), Truth(x # y), Truth(x < y), Truth(x > y),
                             Truth(x <= y), Truth(x >= y)}
    BY <1>4, <2>1, <2>2 DEF Binary
  <2> QED
    BY <2>3 DEF Truth
<1> QED
  BY <1>5, <1>6, <1>7

LEMMA Calculates ==
  ASSUME WasmInv, Numeric
  PROVE  WasmInv'
<1> DEFINE ops == Compares \cup {Op.add, Op.sub, Op.mul, Op.div}
           values == WithoutTop(instance.values, 2)
           value == WithoutTop(instance.values, 1)
<1>1. ASSUME NEW o, Fetches(o), NEW rest \in Seq(WasmValue), NEW v \in Int,
             GoesTo(At + 1, Holding(Append(rest, I32(v))))
      PROVE  WasmInv'
  <2>1. Append(rest, I32(v)) \in Seq(WasmValue)
    BY WrapsToInt, AppendProperties
  <2> QED
    BY <1>1, <2>1, FetchesOne, HoldsAndGoes
<1>2. ASSUME Fetches(ops), BadPops(instance.values, 2) = {},
             FailsAt("division", Holding(values))
      PROVE  WasmInv'
  <2>1. values \in Seq(WasmValue)
    BY <1>2, TakesGood
  <2> QED
    BY <1>2, <2>1, HoldsAndFails
<1>3. ASSUME Fetches(ops), BadPops(instance.values, 2) = {},
             ~ (Opcode = Op.div /\ Taken(1) = 0),
             GoesTo(At + 1, Holding(Append(values, I32(Binary(Opcode, Taken(2), Taken(1))))))
      PROVE  WasmInv'
  <2>1. values \in Seq(WasmValue) /\ Taken(1) \in Int /\ Taken(2) \in Int
    BY <1>3, TakesGood
  <2>2. Opcode \in ops
    BY <1>3 DEF Fetches, Opcode
  <2>3. Binary(Opcode, Taken(2), Taken(1)) \in Int
    BY <1>3, <2>1, <2>2, BinaryIsInt
  <2> HIDE DEF values, ops
  <2> QED
    BY <1>1, <1>3, <2>1, <2>3
<1>4. ASSUME Fetches(ops), BadPops(instance.values, 2) # {},
             FailsAt("stack", Holding(WithoutTop(instance.values,
                                                 Min(BadPops(instance.values, 2)))))
      PROVE  WasmInv'
  BY <1>4, TakesBad
<1>5. ASSUME Fetches({Op.eqz}), BadPops(instance.values, 1) = {},
             GoesTo(At + 1, Holding(Append(value, I32(Truth(Taken(1) = 0)))))
      PROVE  WasmInv'
  <2>1. value \in Seq(WasmValue) /\ Truth(Taken(1) = 0) \in Int
    BY <1>5, TakesGood DEF Truth
  <2> HIDE DEF value
  <2> QED
    BY <1>1, <1>5, <2>1
<1>6. ASSUME Fetches({Op.eqz}), BadPops(instance.values, 1) # {},
             FailsAt("stack", Holding(WithoutTop(instance.values,
                                                 Min(BadPops(instance.values, 1)))))
      PROVE  WasmInv'
  BY <1>6, TakesBad
<1>7. ASSUME Fetches({Op.and, Op.or, Op.xor, Op.shl, Op.shr}),
             BadPops(instance.values, 2) = {}, NEW v \in BitResults,
             GoesTo(At + 1, Holding(Append(values, I32(v))))
      PROVE  WasmInv'
  <2>1. values \in Seq(WasmValue)
    BY <1>7, TakesGood
  <2>2. v \in Int
    BY DEF BitResults
  <2> HIDE DEF values
  <2> QED
    BY <1>1, <1>7, <2>1, <2>2
<1>8. ASSUME Fetches({Op.and, Op.or, Op.xor, Op.shl, Op.shr}),
             BadPops(instance.values, 2) # {},
             FailsAt("stack", Holding(WithoutTop(instance.values,
                                                 Min(BadPops(instance.values, 2)))))
      PROVE  WasmInv'
  BY <1>8, TakesBad
<1> QED
  BY <1>2, <1>3, <1>4, <1>5, <1>6, <1>7, <1>8 DEF Numeric, Taking

LEMMA PushesFloat ==
  ASSUME WasmInv, NEW ops, Fetches(ops), NEW size \in Nat, PushFloat(size)
  PROVE  WasmInv'
<1>1. At + 1 \in Nat /\ instance.values \in Seq(WasmValue)
  BY FetchesOne
<1>2. CASE At + 1 + size <= Len(Bytecode)
  <2>1. Append(instance.values, Other) \in Seq(WasmValue)
    <3>1. Other \in WasmValue
      BY DEF Other, WasmValue
    <3> QED
      BY <1>1, <3>1, AppendProperties
  <2>2. At + 1 + size \in Nat
    BY <1>1
  <2> QED
    BY <1>2, <2>1, <2>2, HoldsAndGoes DEF PushFloat, Pushing
<1>3. CASE ~ (At + 1 + size <= Len(Bytecode))
  BY <1>1, <1>3, StaysAndGoes DEF PushFloat
<1> QED
  BY <1>2, <1>3

LEMMA PushesConstant ==
  ASSUME WasmInv, PushConstant
  PROVE  WasmInv'
<1>1. PICK ops : Fetches(ops)
  BY DEF PushConstant
<1>2. /\ Immediate(1) \in Int /\ PagesNow \in Int /\ At + 2 \in Nat
      /\ instance.values \in Seq(WasmValue)
  BY <1>1, FetchesOne, PagesAre
<1>3. ASSUME NEW v \in WasmValue, GoesTo(At + 2, Pushing(v)) PROVE WasmInv'
  <2>1. Append(instance.values, v) \in Seq(WasmValue)
    BY <1>2, AppendProperties
  <2> QED
    BY <1>1, <1>2, <1>3, <2>1, HoldsAndGoes DEF Pushing
<1>4. I32(Immediate(1)) \in WasmValue /\ I32(PagesNow) \in WasmValue /\ Other \in WasmValue
  <2>1. Other \in WasmValue
    BY DEF Other, WasmValue
  <2> QED
    BY <1>2, <2>1, WrapsToInt, Zenon
<1>5. ASSUME NEW size \in {4, 8}, PushFloat(size) PROVE WasmInv'
  BY <1>1, <1>5, PushesFloat
<1> QED
  BY <1>3, <1>4, <1>5 DEF PushConstant

LEMMA Drops ==
  ASSUME WasmInv, Parametric
  PROVE  WasmInv'
<1> DEFINE values == WithoutTop(instance.values, 1)
           b == LastOr0(values)
           a == LastOr0(WithoutTop(values, 1))
           rest == 0 .. 255 \ {Op[n] : n \in DOMAIN Op \ {"nop"}}
<1>1. ASSUME Fetches({Op.drop}), GoesTo(At + 1, Holding(values)) PROVE WasmInv'
  <2>1. values \in Seq(WasmValue) /\ At + 1 \in Nat
    BY <1>1, FetchesOne, PartOfValues
  <2> QED
    BY <1>1, <2>1, HoldsAndGoes
<1>2. ASSUME Fetches({Op.select}), NEW v \in {a, b},
             GoesTo(At + 1, Holding(Append(WithoutTop(values, 2), v)))
      PROVE  WasmInv'
  <2>1. values \in Seq(WasmValue) /\ At + 1 \in Nat
    BY <1>2, FetchesOne, PartOfValues
  <2> HIDE DEF values
  <2>2. WithoutTop(values, 1) \in Seq(WasmValue) /\ WithoutTop(values, 2) \in Seq(WasmValue)
    BY <2>1, PartOfValues
  <2>3. v \in WasmValue
    BY <1>2, <2>1, <2>2, LastOK
  <2>4. Append(WithoutTop(values, 2), v) \in Seq(WasmValue)
    BY <2>2, <2>3, AppendProperties
  <2> QED
    BY <1>2, <2>1, <2>4, HoldsAndGoes
<1>3. ASSUME Fetches({Op.select}), BadPops(instance.values, 1) # {},
             FailsAt("stack", Holding(WithoutTop(instance.values,
                                                 Min(BadPops(instance.values, 1)))))
      PROVE  WasmInv'
  BY <1>3, TakesBad
<1>4. ASSUME Fetches(rest), GoesTo(At + 1, instance) PROVE WasmInv'
  <2>1. At + 1 \in Nat
    BY <1>4, FetchesOne
  <2> QED
    BY <1>4, <2>1, StaysAndGoes
<1>5. ASSUME Fetches({Op.extend8, Op.extend16}), GoesTo(At + 2, instance) PROVE WasmInv'
  <2>1. At + 2 \in Nat
    BY <1>5, FetchesOne
  <2> QED
    BY <1>5, <2>1, StaysAndGoes
<1> QED
  BY <1>1, <1>2, <1>3, <1>4, <1>5 DEF Parametric, Taking

-----------------------------------------------------------------------------
LEMMA FilledIs ==
  ASSUME NEW m \in WasmModule
  PROVE  Filled(m) \in Seq(Int) /\ Len(Filled(m)) = m.pages * PageSize
<1> DEFINE n == m.pages * PageSize
           Over(a) == {k \in DOMAIN m.data : Reaches(m.data[k], a)}
<1>1. /\ m.data \in Seq(DataSegment) /\ m.pages \in Nat /\ PageSize \in Nat
      /\ Radix \in Nat
  BY WasmAssumption DEF WasmModule
<1>2. n \in Nat
  BY <1>1
<1> HIDE DEF n
<1>3. ASSUME NEW a \in 1 .. n PROVE Filled(m)[a] \in Int
  <2>1. Filled(m)[a] = IF Over(a) = {} THEN 0
                       ELSE m.data[Max(Over(a))].bytes[a - m.data[Max(Over(a))].offset]
    BY DEF Filled, n
  <2>2. ASSUME Over(a) # {}
        PROVE  m.data[Max(Over(a))].bytes[a - m.data[Max(Over(a))].offset] \in Int
    <3> DEFINE over == Over(a)  l == Len(m.data)
    <3>1. l \in Nat /\ over \subseteq 1 .. l /\ over \subseteq 0 .. l
      BY <1>1, LenProperties
    <3> HIDE DEF over, l
    <3>2. \E x \in over : \A y \in over : x >= y
      <4>1. PICK x \in over : \A y \in over : y <= x
        BY <2>2, <3>1, GreatestExists DEF over
      <4>2. \A y \in over : x >= y
        BY <3>1, <4>1
      <4> QED
        BY <4>2
    <3>3. Max(over) \in over
      BY <3>2 DEF Max
    <3> DEFINE s == m.data[Max(over)]
    <3>4. s \in DataSegment
      BY <1>1, <3>1, <3>3, ElementOfSeq DEF l
    <3>5. a - s.offset \in DOMAIN s.bytes
      BY <3>3 DEF over, Reaches
    <3>6. s.bytes \in Seq(0 .. Radix - 1)
      BY <3>4 DEF DataSegment
    <3> HIDE DEF s
    <3>7. s.bytes[a - s.offset] \in 0 .. Radix - 1
      <4> DEFINE place == a - s.offset  bytes == s.bytes
      <4> HIDE DEF place, bytes
      <4>1. bytes[place] \in 0 .. Radix - 1
        BY <3>5, <3>6, LenProperties, ElementOfSeq DEF place, bytes
      <4> QED
        BY <4>1 DEF place, bytes
    <3>8. s.bytes[a - s.offset] \in Int
      BY <3>7
    <3> QED
      BY <3>8 DEF s, over
  <2> HIDE DEF Over
  <2> QED
    BY <2>1, <2>2
<1>4. Filled(m) = [a \in 1 .. n |-> Filled(m)[a]]
  BY DEF Filled, n
<1> DEFINE f == Filled(m)
<1> HIDE DEF f
<1>5. f \in Seq(Int) /\ Len(f) = n
  <2>1. f \in [1 .. n -> Int]
    BY <1>3, <1>4 DEF f
  <2> QED
    BY <1>2, <2>1
<1> QED
  BY <1>5 DEF f, n

LEMMA Instantiates ==
  ASSUME WasmInv, NEW name \in DOMAIN WasmModules, NEW FromBinary \in BOOLEAN,
         Instantiate(name, FromBinary)
  PROVE  WasmInv'
<1> DEFINE given == WasmModules[name]
           m == IF FromBinary THEN ParsedModule(given) ELSE given
           i == InstanceOf(m)
<1>1. /\ instance = NoInstance /\ running' = running /\ abandoned' = abandoned
      /\ instance' = NoInstance \/ (m.pages <= MaxPages /\ instance' = i)
  BY DEF Instantiate
<1>2. running = << >> /\ abandoned = 0
  BY <1>1 DEF WasmInv
<1>3. m \in WasmModule
  <2>1. given \in WasmModule
    BY WasmAssumption
  <2> HIDE DEF given
  <2>2. << >> \in Seq(HostNames) /\ << >> \in Seq(DataSegment)
    OBVIOUS
  <2>3. ParsedModule(given) \in WasmModule
    BY <2>1, <2>2 DEF ParsedModule, WasmModule
  <2> QED
    BY <2>1, <2>3
<1> HIDE DEF m, i
<1>4. CASE instance' = NoInstance
  BY <1>1, <1>2, <1>4 DEF WasmInv
<1>5. CASE m.pages <= MaxPages /\ instance' = i
  <2>1. /\ i.module = m /\ i.memory = Filled(m) /\ i.calls = << >> /\ i.executed = 0
        /\ i = [module |-> m, memory |-> Filled(m), globals |-> << >>, values |-> << >>,
                calls |-> << >>, controls |-> << >>, executed |-> 0]
    BY DEF i, InstanceOf
  <2>2. Filled(m) \in Seq(Int) /\ Len(Filled(m)) = m.pages * PageSize
    BY <1>3, FilledIs
  <2>3. i \in WasmInstance
    BY <1>3, <2>1, <2>2 DEF WasmInstance
  <2>4. m.pages \in m.pages .. MaxPages
    BY <1>3, <1>5, WasmAssumption DEF WasmModule
  <2>5. Len(<< >>) = 0 /\ << >> \in Seq(Activation(i.module))
    OBVIOUS
  <2>6. InstanceOK(i)
    BY <2>1, <2>2, <2>3, <2>4, <2>5, WasmAssumption DEF InstanceOK
  <2>7. FramesMatch(i.calls, << >>, 0)
    BY <2>1, <2>5 DEF FramesMatch
  <2>8. i # NoInstance
    BY <2>3, IsInstance
  <2> QED
    BY <1>1, <1>2, <1>5, <2>5, <2>6, <2>7, <2>8 DEF WasmInv
<1> QED
  BY <1>1, <1>4, <1>5

LEMMA WasmStays ==
  ASSUME WasmInv, [WasmNext]_wasmVars
  PROVE  WasmInv'
<1>1. ASSUME NEW name \in DOMAIN WasmModules, NEW fromBinary \in BOOLEAN,
             Instantiate(name, fromBinary)
      PROVE  WasmInv'
  BY <1>1, Instantiates
<1>2. ASSUME instance # NoInstance, NEW args \in CallArguments,
             NEW f \in 0 .. Len(HostImports) + Len(instance.module.functions),
             CallExport(f, args)
      PROVE  WasmInv'
  <2>1. instance.module \in WasmModule
    BY <1>2 DEF WasmInv, InstanceOK, WasmInstance
  <2>2. Len(HostImports) \in Nat /\ Len(instance.module.functions) \in Nat
    BY <2>1, LenProperties DEF HostImports, WasmModule
  <2>3. f \in Nat
    BY <2>2
  <2> QED
    BY <1>2, <2>3, CallsExport
<1>3. CASE BlockOrLoop \/ IfThen
  BY <1>3, EntersBlocks
<1>4. CASE ElseOrEnd
  BY <1>4, LeavesBlocks
<1>5. CASE BranchTo
  BY <1>5, Branches
<1>6. CASE CallInstruction
  BY <1>6, CallsFunction
<1>7. CASE ReturnFrom
  BY <1>7, Returns
<1>8. CASE TrapOut
  BY <1>8, Traps
<1>9. CASE ReadVariable
  BY <1>9, ReadsVariable
<1>10. CASE WriteVariable
  BY <1>10, WritesVariable
<1>11. CASE LoadI32
  BY <1>11, LoadsValue
<1>12. CASE StoreI32
  BY <1>12, StoresValue
<1>13. CASE GrowMemory
  BY <1>13, GrowsMemory
<1>14. CASE Numeric
  BY <1>14, Calculates
<1>15. CASE PushConstant
  BY <1>15, PushesConstant
<1>16. CASE Parametric
  BY <1>16, Drops
<1>17. CASE UNCHANGED wasmVars
  BY <1>17 DEF wasmVars, WasmInv
<1> QED
  BY <1>1, <1>2, <1>3, <1>4, <1>5, <1>6, <1>7, <1>8, <1>9, <1>10, <1>11, <1>12, <1>13,
     <1>14, <1>15, <1>16, <1>17 DEF WasmNext

THEOREM WasmInvariant == WasmSpec => []WasmInv
<1>1. WasmInit => WasmInv
  BY DEF WasmInit, WasmInv
<1>2. WasmInv /\ [WasmNext]_wasmVars => WasmInv'
  BY WasmStays
<1> QED
  BY <1>1, <1>2, PTL DEF WasmSpec

(* The limits of an instance are kept over all its calls, whatever the code   *)
(* of its functions.                                                         *)
THEOREM WasmStaysBounded == WasmSpec => []WasmBounded
<1>1. WasmInv => WasmBounded
  <2> SUFFICES ASSUME WasmInv, instance # NoInstance
               PROVE  /\ instance.executed <= MaxInstructions
                      /\ Len(instance.calls) <= MaxCallDepth
                      /\ PagesNow \in instance.module.pages .. MaxPages
                      /\ Len(instance.memory) % PageSize = 0
    BY DEF WasmBounded
  <2>1. InstanceOK(instance)
    BY DEF WasmInv
  <2>2. /\ PagesNow \in instance.module.pages .. MaxPages /\ PagesNow \in Nat
        /\ Len(instance.memory) = PagesNow * PageSize /\ PageSize \in Nat \ {0}
    BY <2>1, PagesAre, WasmAssumption
  <2>3. Len(instance.memory) % PageSize = 0
    <3> DEFINE p == PagesNow  n == Len(instance.memory)
    <3> HIDE DEF p, n
    <3>1. p \in Int /\ n = PageSize * p + 0 /\ n \in Int /\ 0 \in 0 .. PageSize - 1
      BY <2>2 DEF p, n
    <3>2. n % PageSize = 0
      BY <2>2, <3>1, Remainder
    <3> QED
      BY <3>2 DEF n
  <2> QED
    BY <2>1, <2>2, <2>3 DEF InstanceOK
<1> QED
  BY <1>1, WasmInvariant, PTL

(* The frame in use is the running function's own, at every level.            *)
THEOREM FramesAreOwned == WasmSpec => []FramesOwned
<1>1. WasmInv => FramesOwned
  <2> SUFFICES ASSUME WasmInv, instance # NoInstance
               PROVE  /\ Len(running) <= Len(instance.calls)
                      /\ \A i \in DOMAIN running :
                           instance.calls[Len(instance.calls) - Len(running) + i].func
                             = running[i].func
    BY DEF FramesOwned
  <2>1. running \in Seq(Activation(instance.module))
        /\ FramesMatch(instance.calls, running, abandoned) /\ abandoned \in Nat
    BY DEF WasmInv
  <2>2. DOMAIN running = 1 .. Len(running) /\ Len(running) \in Nat
    BY <2>1, LenProperties
  <2>3. Len(instance.calls) = abandoned + Len(running)
    BY <2>1 DEF FramesMatch
  <2>4. Len(running) <= Len(instance.calls) /\ Len(instance.calls) - Len(running) = abandoned
    BY <2>1, <2>2, <2>3
  <2> QED
    BY <2>1, <2>2, <2>4 DEF FramesMatch
<1> QED
  BY <1>1, WasmInvariant, PTL

-----------------------------------------------------------------------------
(***************************************************************************)
(* The compositor.  A buffer shows the wrong decoration only on a window   *)
(* that is to be drawn again, and an undamaged frame is what Composed made *)
(* of the surfaces as they still are.                                      *)
(***************************************************************************)
Box4 == [x : Int, y : Int, w : Nat, h : Nat]
LayerNames == {"background", "windows", "overlay"}
Drawings == {"plain", "active", "idle"}
Buffers == UNION {[0 .. n -> Drawings] : n \in Nat}
Surface == [box : Box4, layer : LayerNames, z : Nat, dirty : BOOLEAN, focused : BOOLEAN,
            decorated : BOOLEAN, buffer : Buffers]
Area(box) == Max({1, box.w * box.h})

BufferOK(s) ==
  /\ DOMAIN s.buffer = 0 .. Area(s.box) - 1
  /\ \A i \in DOMAIN s.buffer : s.buffer[i] = "idle" => OnEdge(s, i)
  /\ s.focused /\ s.decorated /\ ~ s.dirty => \A i \in DOMAIN s.buffer : s.buffer[i] # "idle"

SurfaceOK(s, done) == s \in Surface /\ s.z <= done /\ BufferOK(s)

SurfacesOK(all, next, done) ==
  /\ all \in [DOMAIN all -> Surface]
  /\ DOMAIN all \subseteq 1 .. next - 1 /\ next \in Nat \ {0} /\ done \in Nat
  /\ \A id \in DOMAIN all : SurfaceOK(all[id], done)

FocusedOnce(all) ==
  \A k, l \in DOMAIN all : all[k].focused /\ all[l].focused => k = l

MouseOK(m) ==
  /\ m \in [x : Int, y : Int, events : Seq(Nat), pushed : Nat]
  /\ Len(m.events) <= EventLimit /\ Len(m.events) <= m.pushed
  /\ \A i \in DOMAIN m.events : m.events[i] = m.pushed - Len(m.events) + i

(* id is copied last of the surfaces that cover p.                           *)
OnTop(all, id, p) ==
  /\ id \in DOMAIN all /\ Covers(all[id], p[1], p[2])
  /\ \A k \in DOMAIN all \ {id} : Covers(all[k], p[1], p[2]) =>
       \/ Height(all[k]) < Height(all[id])
       \/ Height(all[k]) = Height(all[id]) /\ k < id

ShowsAll(all, shown) ==
  \A p \in Pixels : (\E k \in DOMAIN all : Covers(all[k], p[1], p[2])) =>
    \E id \in DOMAIN all : OnTop(all, id, p) /\ shown[p] = << id, PixelOf(all[id], p) >>

FrameOK ==
  frame # << >> /\ ~ damage /\ (\A id \in DOMAIN surfaces : ~ surfaces[id].dirty)
    => ShowsAll(surfaces, frame)

CompositorInv ==
  /\ SurfacesOK(surfaces, nextSurface, operations)
  /\ FocusedOnce(surfaces) /\ MouseOK(mouse) /\ FrameOK
  /\ damage \in BOOLEAN

-----------------------------------------------------------------------------
LEMMA LargerOfTwo ==
  ASSUME NEW n \in Int
  PROVE  Max({n, 1}) = (IF n >= 1 THEN n ELSE 1) /\ Max({1, n}) = (IF n >= 1 THEN n ELSE 1)
<1> DEFINE m == IF n >= 1 THEN n ELSE 1
<1>1. m \in {n, 1} /\ \A y \in {n, 1} : m >= y
  OBVIOUS
<1>2. \A x \in {n, 1} : (\A y \in {n, 1} : x >= y) => x = m
  OBVIOUS
<1>3. {n, 1} = {1, n}
  OBVIOUS
<1>4. Max({n, 1}) = m
  BY <1>1, <1>2 DEF Max
<1> QED
  BY <1>3, <1>4

LEMMA AreaIs ==
  ASSUME NEW box \in Box4
  PROVE  /\ Area(box) \in Nat /\ Area(box) >= 1 /\ Max({box.w * box.h, 1}) = Area(box)
         /\ box.w * box.h \in Nat /\ box.w * box.h <= Area(box)
<1>1. box.w \in Nat /\ box.h \in Nat
  BY DEF Box4
<1>2. box.w * box.h \in Nat
  BY <1>1
<1> QED
  BY <1>2, LargerOfTwo DEF Area

LEMMA HeightBound ==
  ASSUME NEW done \in Nat, NEW s, SurfaceOK(s, done)
  PROVE  Height(s) \in Nat /\ Height(s) <= 4 * LayerSpan + done
<1>1. s.z \in Nat /\ s.z <= done /\ s.layer \in LayerNames /\ LayerSpan \in Nat
  BY CompositorAssumption DEF SurfaceOK, Surface
<1>2. Layers[s.layer] \in {0, 2, 4}
  BY <1>1 DEF Layers, LayerNames
<1>3. CASE Layers[s.layer] = 0
  BY <1>1, <1>3 DEF Height
<1>4. CASE Layers[s.layer] = 2
  BY <1>1, <1>4 DEF Height
<1>5. CASE Layers[s.layer] = 4
  BY <1>1, <1>5 DEF Height
<1> QED
  BY <1>2, <1>3, <1>4, <1>5

(* Of the surfaces that cover a point there are ones of greatest height, and  *)
(* of these a first and a last.                                              *)
LEMMA HighestExist ==
  ASSUME NEW all, NEW next, NEW done, SurfacesOK(all, next, done), NEW x, NEW y,
         \E k \in DOMAIN all : Covers(all[k], x, y)
  PROVE  LET here == {k \in DOMAIN all : Covers(all[k], x, y)}
             high == {k \in here : \A l \in here : Height(all[l]) <= Height(all[k])}
         IN \E a, b \in high : \A k \in high : a <= k /\ k <= b
<1> DEFINE here == {k \in DOMAIN all : Covers(all[k], x, y)}
           high == {k \in here : \A l \in here : Height(all[l]) <= Height(all[k])}
           heights == {Height(all[k]) : k \in here}
           n == 4 * LayerSpan + done
<1>1. \A k \in here : Height(all[k]) \in Nat /\ Height(all[k]) <= n
  BY HeightBound DEF SurfacesOK
<1>2. n \in Nat /\ next \in Nat /\ here \subseteq 1 .. next - 1
  BY CompositorAssumption DEF SurfacesOK
<1>3. heights \subseteq 0 .. n /\ heights # {}
  BY <1>1, <1>2
<1>4. PICK t \in heights : \A u \in heights : u <= t
  <2> HIDE DEF heights, n
  <2> QED
    BY <1>2, <1>3, GreatestExists
<1>5. high # {} /\ high \subseteq 0 .. next /\ high \subseteq Nat
  BY <1>2, <1>4
<1>6. PICK a \in high : \A k \in high : a <= k
  <2> HIDE DEF high
  <2> QED
    BY <1>5, LeastExists
<1>7. PICK b \in high : \A k \in high : k <= b
  <2> HIDE DEF high
  <2> QED
    BY <1>2, <1>5, GreatestExists
<1> QED
  BY <1>6, <1>7

LEMMA SeenIsOnTop ==
  ASSUME SurfacesOK(surfaces, nextSurface, operations), NEW p, Under(p[1], p[2]) # {}
  PROVE  OnTop(surfaces, SeenAt(p), p)
<1> DEFINE x == p[1]  y == p[2]  here == Under(x, y)
           high == {k \in here : \A l \in here : Height(surfaces[l]) <= Height(surfaces[k])}
<1>1. here = {k \in DOMAIN surfaces : Covers(surfaces[k], x, y)}
  BY DEF Under
<1>2. PICK b \in high : \A k \in high : k <= b
  BY <1>1, HighestExist DEF Under
<1>3. \A k \in here : k \in Nat /\ Height(surfaces[k]) \in Nat
  BY <1>1, HeightBound DEF SurfacesOK
<1>4. b \in here /\ \A k \in here \ {b} : Before(k, b)
  <2> SUFFICES ASSUME NEW k \in here \ {b} PROVE Before(k, b)
    BY <1>2
  <2>1. CASE k \in high
    BY <1>2, <1>3, <2>1 DEF Before
  <2>2. CASE k \notin high
    BY <1>2, <1>3, <2>2 DEF Before
  <2> QED
    BY <2>1, <2>2
<1>5. SeenAt(p) \in here /\ \A k \in here \ {SeenAt(p)} : Before(k, SeenAt(p))
  BY <1>4 DEF SeenAt
<1> QED
  BY <1>1, <1>5 DEF OnTop, Before

LEMMA ClickIsHighest ==
  ASSUME SurfacesOK(surfaces, nextSurface, operations), NEW x, NEW y, Under(x, y) # {}
  PROVE  /\ SurfaceAt(x, y) \in Under(x, y)
         /\ \A k \in Under(x, y) : Height(surfaces[k]) <= Height(surfaces[SurfaceAt(x, y)])
<1> DEFINE here == Under(x, y)
           high == {k \in here : \A l \in here : Height(surfaces[l]) <= Height(surfaces[k])}
<1>1. here = {k \in DOMAIN surfaces : Covers(surfaces[k], x, y)}
  BY DEF Under
<1>2. PICK a \in high : \A k \in high : a <= k
  BY <1>1, HighestExist DEF Under
<1>3. \A k \in here : k \in Nat /\ Height(surfaces[k]) \in Nat
  BY <1>1, HeightBound DEF SurfacesOK
<1>4. a \in here /\ \A k \in here :
        Height(surfaces[a]) > Height(surfaces[k])
          \/ (Height(surfaces[a]) = Height(surfaces[k]) /\ a <= k)
  <2> SUFFICES ASSUME NEW k \in here
               PROVE  Height(surfaces[a]) > Height(surfaces[k])
                        \/ (Height(surfaces[a]) = Height(surfaces[k]) /\ a <= k)
    BY <1>2
  <2>1. CASE k \in high
    BY <1>2, <1>3, <2>1
  <2>2. CASE k \notin high
    BY <1>2, <1>3, <2>2
  <2> QED
    BY <2>1, <2>2
<1>5. /\ SurfaceAt(x, y) \in here
      /\ \A k \in here : Height(surfaces[SurfaceAt(x, y)]) > Height(surfaces[k])
           \/ (Height(surfaces[SurfaceAt(x, y)]) = Height(surfaces[k]) /\ SurfaceAt(x, y) <= k)
  BY <1>4 DEF SurfaceAt
<1> QED
  BY <1>3, <1>5

-----------------------------------------------------------------------------
(* What the operations make of the surfaces.                                 *)
LEMMA NewSurfaceOK ==
  ASSUME NEW box \in Box4, NEW layer \in LayerNames, NEW done \in Nat
  PROVE  SurfaceOK(SurfaceNew(box, layer), done) /\ ~ SurfaceNew(box, layer).focused
<1> DEFINE s == SurfaceNew(box, layer)
           buffer == [i \in 0 .. Area(box) - 1 |-> "plain"]
<1>1. s = [box |-> box, layer |-> layer, z |-> 0, dirty |-> TRUE, focused |-> FALSE,
           decorated |-> layer = "windows", buffer |-> buffer]
  BY AreaIs DEF SurfaceNew
<1>2. buffer \in Buffers
  <2>1. Area(box) - 1 \in Nat
    <3>1. Area(box) \in Nat /\ Area(box) >= 1
      BY AreaIs, Zenon
    <3> QED
      BY <3>1
  <2>2. buffer \in [0 .. Area(box) - 1 -> Drawings]
    BY DEF Drawings
  <2> QED
    BY <2>1, <2>2 DEF Buffers
<1>3. s \in Surface
  BY <1>1, <1>2 DEF Surface
<1>4. BufferOK(s)
  BY <1>1 DEF BufferOK
<1> QED
  BY <1>1, <1>3, <1>4 DEF SurfaceOK

(* Surfaces that are moved, raised, dirtied or lose the focus stay as sound.  *)
LEMMA AlikeOK ==
  ASSUME NEW done \in Nat, NEW more \in Nat, done <= more, NEW s, SurfaceOK(s, done),
         NEW t \in Surface, t.box.w = s.box.w, t.box.h = s.box.h, t.buffer = s.buffer,
         t.decorated = s.decorated, t.z <= more,
         ~ t.dirty => ~ s.dirty /\ (t.focused => s.focused)
  PROVE  SurfaceOK(t, more)
<1>1. s \in Surface /\ BufferOK(s)
  BY DEF SurfaceOK
<1>2. Area(t.box) = Area(s.box)
  BY DEF Area
<1>3. \A i : OnEdge(t, i) <=> OnEdge(s, i)
  BY DEF OnEdge
<1>4. BufferOK(t)
  BY <1>1, <1>2, <1>3 DEF BufferOK
<1> QED
  BY <1>4 DEF SurfaceOK

LEMMA SurfacesMore ==
  ASSUME NEW all, NEW next, NEW done, SurfacesOK(all, next, done),
         NEW more \in Nat, done <= more
  PROVE  SurfacesOK(all, next, more)
<1>1. \A id \in DOMAIN all : SurfaceOK(all[id], more)
  BY DEF SurfacesOK, SurfaceOK, Surface
<1> QED
  BY <1>1 DEF SurfacesOK

LEMMA DirtiedOK ==
  ASSUME NEW all, NEW next, NEW done, SurfacesOK(all, next, done), FocusedOnce(all)
  PROVE  SurfacesOK(Dirtied(all), next, done) /\ FocusedOnce(Dirtied(all))
<1> DEFINE new == Dirtied(all)
<1>1. DOMAIN new = DOMAIN all /\ done \in Nat
  BY DEF Dirtied, SurfacesOK
<1>2. ASSUME NEW id \in DOMAIN all
      PROVE  new[id] \in Surface /\ new[id].focused = all[id].focused /\ SurfaceOK(new[id], done)
  <2> DEFINE s == all[id]  t == new[id]
  <2>1. SurfaceOK(s, done) /\ s \in Surface /\ s.z <= done
    BY <1>2 DEF SurfacesOK, SurfaceOK
  <2>2. t = [s EXCEPT !.dirty = TRUE]
    BY <1>2 DEF Dirtied
  <2>3. /\ t \in Surface /\ t.box = s.box /\ t.buffer = s.buffer /\ t.decorated = s.decorated
        /\ t.z = s.z /\ t.dirty /\ t.focused = s.focused
    <3> HIDE DEF s, t
    <3> QED
      BY <2>1, <2>2 DEF Surface
  <2> HIDE DEF s, t
  <2>4. SurfaceOK(t, done)
    BY <1>1, <2>1, <2>3, AlikeOK
  <2> QED
    BY <2>3, <2>4 DEF s, t
<1>3. new \in [DOMAIN new -> Surface]
  BY <1>1, <1>2 DEF Dirtied
<1>4. SurfacesOK(new, next, done)
  BY <1>1, <1>2, <1>3 DEF SurfacesOK
<1>5. FocusedOnce(new)
  <2> HIDE DEF new
  <2> QED
    BY <1>1, <1>2 DEF FocusedOnce
<1> QED
  BY <1>4, <1>5

LEMMA FocusedOK ==
  ASSUME NEW all, NEW next, NEW done, SurfacesOK(all, next, done), FocusedOnce(all), NEW id
  PROVE  /\ SurfacesOK(Focused(all, id), next, done + 1) /\ FocusedOnce(Focused(all, id))
         /\ id \in DOMAIN all => Focused(all, id)[id].dirty
<1> DEFINE new == Focused(all, id)
<1>1. DOMAIN new = DOMAIN all /\ done \in Nat /\ done + 1 \in Nat /\ done <= done + 1
  BY DEF Focused, SurfacesOK
<1>2. ASSUME NEW k \in DOMAIN all
      PROVE  /\ new[k] \in Surface /\ SurfaceOK(new[k], done + 1)
             /\ new[k].focused <=> k = id
             /\ k = id => new[k].dirty
  <2> DEFINE s == all[k]  t == new[k]
  <2>1. SurfaceOK(s, done) /\ s \in Surface /\ s.z <= done /\ s.z \in Nat
    BY <1>2 DEF SurfacesOK, SurfaceOK, Surface
  <2>2. t = IF k = id THEN [s EXCEPT !.focused = TRUE, !.z = @ + 1, !.dirty = TRUE]
            ELSE [s EXCEPT !.focused = FALSE]
    BY <1>2 DEF Focused
  <2>3. /\ t \in Surface /\ t.box = s.box /\ t.buffer = s.buffer /\ t.decorated = s.decorated
        /\ t.z <= done + 1 /\ (t.focused <=> k = id)
        /\ IF k = id THEN t.dirty ELSE t.dirty = s.dirty
    <3> HIDE DEF s, t
    <3>1. CASE k = id
      <4>1. t = [s EXCEPT !.focused = TRUE, !.z = s.z + 1, !.dirty = TRUE]
        BY <2>1, <2>2, <3>1 DEF Surface
      <4>2. t = [box |-> s.box, layer |-> s.layer, z |-> s.z + 1, dirty |-> TRUE,
                 focused |-> TRUE, decorated |-> s.decorated, buffer |-> s.buffer]
        BY <2>1, <4>1 DEF Surface
      <4>3. /\ t \in Surface /\ t.box = s.box /\ t.buffer = s.buffer
            /\ t.decorated = s.decorated /\ t.z = s.z + 1
            /\ t.focused = TRUE /\ t.dirty = TRUE
        BY <2>1, <4>2 DEF Surface
      <4> QED
        BY <1>1, <2>1, <4>2, <4>3, <3>1
    <3>2. CASE k # id
      <4>1. t = [s EXCEPT !.focused = FALSE]
        BY <2>2, <3>2
      <4>2. /\ t \in Surface /\ t.box = s.box /\ t.buffer = s.buffer
            /\ t.decorated = s.decorated /\ t.z = s.z
        BY <2>1, <4>1 DEF Surface
      <4>3. t.focused = FALSE /\ t.dirty = s.dirty
        BY <2>1, <4>1 DEF Surface
      <4> QED
        BY <1>1, <2>1, <4>2, <4>3, <3>2
    <3> QED
      BY <3>1, <3>2
  <2> HIDE DEF s, t
  <2>4. SurfaceOK(t, done + 1)
    BY <1>1, <2>1, <2>3, AlikeOK
  <2> QED
    BY <2>3, <2>4 DEF t
<1>3. new \in [DOMAIN new -> Surface]
  BY <1>1, <1>2 DEF Focused
<1>4. SurfacesOK(new, next, done + 1)
  BY <1>1, <1>2, <1>3 DEF SurfacesOK
<1>5. FocusedOnce(new) /\ (id \in DOMAIN all => new[id].dirty)
  <2> HIDE DEF new
  <2> QED
    BY <1>1, <1>2 DEF FocusedOnce
<1> QED
  BY <1>4, <1>5

(* When nothing is focused any more, what is on top is as it was.             *)
LEMMA UnfocusedShows ==
  ASSUME NEW all, NEW next, NEW done, SurfacesOK(all, next, done), NEW id, id \notin DOMAIN all,
         NEW shown, ShowsAll(all, shown)
  PROVE  ShowsAll(Focused(all, id), shown)
<1> DEFINE new == Focused(all, id)
<1> SUFFICES ShowsAll(new, shown)
  OBVIOUS
<1>1. DOMAIN new = DOMAIN all
      /\ \A k \in DOMAIN all : new[k] = [all[k] EXCEPT !.focused = FALSE] /\ all[k] \in Surface
  BY DEF Focused, SurfacesOK, SurfaceOK
<1>2. \A k \in DOMAIN all :
        /\ new[k].box = all[k].box /\ new[k].layer = all[k].layer /\ new[k].z = all[k].z
        /\ new[k].buffer = all[k].buffer
  BY <1>1 DEF Surface
<1>3. \A k \in DOMAIN all : \A x, y : Covers(new[k], x, y) <=> Covers(all[k], x, y)
  BY <1>2 DEF Covers
<1>4. \A k \in DOMAIN all : Height(new[k]) = Height(all[k])
  BY <1>2 DEF Height
<1>5. \A k \in DOMAIN all : \A p : PixelOf(new[k], p) = PixelOf(all[k], p)
  BY <1>2 DEF PixelOf
<1> HIDE DEF new
<1>6. \A k \in DOMAIN all : \A p : OnTop(all, k, p) => OnTop(new, k, p)
  BY <1>1, <1>3, <1>4 DEF OnTop
<1> QED
  BY <1>1, <1>3, <1>5, <1>6 DEF ShowsAll

LEMMA OneOfTwo ==
  ASSUME NEW a \in Int, NEW b \in Int
  PROVE  Max({a, b}) \in {a, b} /\ Min({a, b}) \in {a, b}
<1>1. \E x \in {a, b} : \A y \in {a, b} : x >= y
  OBVIOUS
<1>2. \E x \in {a, b} : \A y \in {a, b} : x =< y
  OBVIOUS
<1> QED
  BY <1>1, <1>2, Zenon DEF Max, Min

LEMMA QueuedOK ==
  ASSUME NEW m, MouseOK(m)
  PROVE  MouseOK(Queued(m))
<1> DEFINE longer == Append(m.events, m.pushed + 1)
           kept == IF Len(longer) > EventLimit
                   THEN SubSeq(longer, EventsDropped + 1, Len(longer)) ELSE longer
           t == Queued(m)
           n == Len(m.events)
<1>1. m.events \in Seq(Nat) /\ m.pushed \in Nat /\ m.pushed + 1 \in Nat /\ n \in Nat
      /\ n <= EventLimit /\ n <= m.pushed
      /\ EventLimit \in Nat /\ EventsDropped \in 1 .. EventLimit
  BY CompositorAssumption, LenProperties DEF MouseOK
<1>2. /\ longer \in Seq(Nat) /\ Len(longer) = n + 1 /\ DOMAIN longer = 1 .. n + 1
      /\ longer[n + 1] = m.pushed + 1 /\ \A i \in 1 .. n : longer[i] = m.events[i]
      /\ DOMAIN m.events = 1 .. n
  BY <1>1, AppendProperties, LenProperties
<1>3. \A i \in 1 .. n + 1 : longer[i] = m.pushed - n + i
  <2> SUFFICES ASSUME NEW i \in 1 .. n + 1 PROVE longer[i] = m.pushed - n + i
    OBVIOUS
  <2> HIDE DEF longer, n
  <2>1. CASE i = n + 1
    BY <1>1, <1>2, <2>1
  <2>2. CASE i # n + 1
    <3>1. i \in 1 .. n
      BY <1>1, <2>2
    <3>2. m.events[i] = m.pushed - n + i
      BY <1>2, <3>1 DEF MouseOK, n
    <3> QED
      BY <1>2, <3>1, <3>2
  <2> QED
    BY <2>1, <2>2
<1>4. t = [m EXCEPT !.pushed = m.pushed + 1, !.events = kept]
  BY DEF Queued, MouseOK
<1>5. /\ kept \in Seq(Nat) /\ Len(kept) <= EventLimit /\ Len(kept) <= m.pushed + 1
      /\ Len(kept) \in Nat
      /\ \A i \in 1 .. Len(kept) : kept[i] = m.pushed + 1 - Len(kept) + i
  <2>1. CASE Len(longer) > EventLimit
    <3> DEFINE d == EventsDropped
    <3>1. kept = SubSeq(longer, d + 1, n + 1)
      BY <1>2, <2>1
    <3>2. d \in Nat /\ d >= 1 /\ d <= n + 1 /\ n + 1 <= EventLimit + 1
      BY <1>1, <1>2, <2>1
    <3> HIDE DEF longer, n, d, kept
    <3>3. /\ kept \in Seq(Nat) /\ Len(kept) = n + 1 - d
          /\ \A i \in 1 .. n + 1 - d : kept[i] = longer[d + i]
      <4>1. d + 1 \in 1 .. Len(longer) + 1 /\ n + 1 \in 0 .. Len(longer)
        BY <1>1, <1>2, <3>2
      <4>2. \A i \in d + 1 .. n + 1 : longer[i] \in Nat
        BY <1>2, <3>2, ElementOfSeq
      <4>3. kept \in Seq(Nat)
        BY <1>1, <3>1, <3>2, <4>2, SubSeqProperties
      <4> DEFINE a == d + 1  b == n + 1  part == SubSeq(longer, a, b)
      <4>4. longer \in Seq(Nat) /\ a \in 1 .. Len(longer) + 1 /\ b \in a - 1 .. Len(longer)
        BY <1>1, <1>2, <3>2
      <4>5. a \in Int /\ b \in Int /\ b - a + 1 = n + 1 - d /\ a <= b + 1
        BY <1>1, <3>2
      <4> HIDE DEF a, b
      <4>6. Len(part) = b - a + 1 /\ \A i \in 1 .. b - a + 1 : part[i] = longer[a + i - 1]
        BY <4>4, <4>5, SubSeqProperties
      <4>7. \A i \in Int : a + i - 1 = d + i
        BY <3>2 DEF a
      <4>8. kept = part
        BY <3>1 DEF a, b
      <4> HIDE DEF part
      <4>9. Len(kept) = n + 1 - d
        BY <4>5, <4>6, <4>8
      <4>10. ASSUME NEW i \in 1 .. n + 1 - d PROVE kept[i] = longer[d + i]
        <5>1. i \in Int /\ i \in 1 .. b - a + 1
          BY <4>5
        <5> QED
          BY <4>6, <4>7, <4>8, <5>1
      <4> QED
        BY <4>3, <4>9, <4>10
    <3>4. ASSUME NEW i \in 1 .. n + 1 - d PROVE kept[i] = m.pushed + 1 - (n + 1 - d) + i
      <4>1. d + i \in 1 .. n + 1
        BY <1>1, <3>2
      <4> QED
        BY <1>1, <1>3, <3>2, <3>3, <4>1
    <3> QED
      BY <1>1, <3>2, <3>3, <3>4
  <2>2. CASE ~ (Len(longer) > EventLimit)
    <3>1. kept = longer
      BY <2>2
    <3> HIDE DEF longer, n, kept
    <3>2. Len(kept) = n + 1 /\ kept \in Seq(Nat) /\ n + 1 <= EventLimit
      BY <1>1, <1>2, <2>2, <3>1
    <3>3. ASSUME NEW i \in 1 .. n + 1 PROVE kept[i] = m.pushed + 1 - (n + 1) + i
      <4>1. kept[i] = m.pushed - n + i
        BY <1>3, <3>1
      <4> QED
        BY <1>1, <4>1
    <3> QED
      BY <1>1, <3>2, <3>3
  <2> QED
    BY <2>1, <2>2
<1> HIDE DEF kept, t
<1>6. /\ t \in [x : Int, y : Int, events : Seq(Nat), pushed : Nat]
      /\ t.events = kept /\ t.pushed = m.pushed + 1
  BY <1>1, <1>4, <1>5 DEF MouseOK
<1>7. DOMAIN kept = 1 .. Len(kept)
  BY <1>5, LenProperties
<1> QED
  BY <1>5, <1>6, <1>7 DEF MouseOK, t

LEMMA RedrawnOK ==
  ASSUME NEW done \in Nat, NEW s, SurfaceOK(s, done)
  PROVE  /\ SurfaceOK(Redrawn(s), done)
         /\ ~ Redrawn(s).dirty
         /\ Redrawn(s).focused = s.focused /\ Redrawn(s).box = s.box
         /\ Redrawn(s).layer = s.layer /\ Redrawn(s).z = s.z
<1> DEFINE buffer == [i \in DOMAIN s.buffer |-> IF OnEdge(s, i) THEN Decoration(s) ELSE s.buffer[i]]
           t == Redrawn(s)
<1>1. s \in Surface /\ BufferOK(s) /\ s.z <= done
  BY DEF SurfaceOK
<1>2. CASE s.dirty /\ s.decorated
  <2>1. t = [box |-> s.box, layer |-> s.layer, z |-> s.z, dirty |-> FALSE,
             focused |-> s.focused, decorated |-> s.decorated, buffer |-> buffer]
    <3> DEFINE d == Decorated(s)
    <3>1. d = [s EXCEPT !.buffer = buffer]
      BY <1>1 DEF Decorated, Surface
    <3>2. t = [d EXCEPT !.dirty = FALSE]
      BY <1>2 DEF Redrawn
    <3> HIDE DEF d, t, buffer
    <3>3. d = [box |-> s.box, layer |-> s.layer, z |-> s.z, dirty |-> s.dirty,
               focused |-> s.focused, decorated |-> s.decorated, buffer |-> buffer]
      BY <1>1, <3>1 DEF Surface
    <3> QED
      BY <3>2, <3>3
  <2>2. buffer \in Buffers
    <3>1. PICK n \in Nat : s.buffer \in [0 .. n -> Drawings]
      BY <1>1 DEF Surface, Buffers
    <3>2. Decoration(s) \in Drawings
      BY DEF Decoration, Drawings
    <3>3. buffer \in [0 .. n -> Drawings]
      BY <3>1, <3>2
    <3> QED
      BY <3>1, <3>3 DEF Buffers
  <2>3. t \in Surface /\ t.dirty = FALSE /\ t.focused = s.focused /\ t.box = s.box
        /\ t.layer = s.layer /\ t.z = s.z /\ t.buffer = buffer /\ t.decorated = s.decorated
    BY <1>1, <2>1, <2>2 DEF Surface
  <2>4. \A i : OnEdge(t, i) <=> OnEdge(s, i)
    BY <2>3 DEF OnEdge
  <2>5. Area(t.box) = Area(s.box)
    BY <2>3
  <2>6. s.focused => Decoration(s) = "active"
    BY DEF Decoration
  <2> HIDE DEF t
  <2>7. BufferOK(t)
    BY <1>1, <2>3, <2>4, <2>5, <2>6 DEF BufferOK
  <2> QED
    BY <1>1, <2>3, <2>7 DEF SurfaceOK, t
<1>3. CASE ~ (s.dirty /\ s.decorated)
  <2>1. t = [box |-> s.box, layer |-> s.layer, z |-> s.z, dirty |-> FALSE,
             focused |-> s.focused, decorated |-> s.decorated, buffer |-> s.buffer]
    <3>1. t = [s EXCEPT !.dirty = FALSE]
      BY <1>3 DEF Redrawn
    <3> HIDE DEF t
    <3> QED
      BY <1>1, <3>1 DEF Surface
  <2>3. t \in Surface /\ t.dirty = FALSE /\ t.focused = s.focused /\ t.box = s.box
        /\ t.layer = s.layer /\ t.z = s.z /\ t.buffer = s.buffer /\ t.decorated = s.decorated
    BY <1>1, <2>1 DEF Surface
  <2>4. \A i : OnEdge(t, i) <=> OnEdge(s, i)
    BY <2>3 DEF OnEdge
  <2>5. Area(t.box) = Area(s.box)
    BY <2>3
  <2> HIDE DEF t
  <2>7. BufferOK(t)
    BY <1>1, <1>3, <2>3, <2>4, <2>5 DEF BufferOK
  <2> QED
    BY <1>1, <2>3, <2>7 DEF SurfaceOK, t
<1> QED
  BY <1>2, <1>3

(* A point of a surface has its pixel in the surface's buffer.               *)
LEMMA PixelInBuffer ==
  ASSUME NEW done \in Nat, NEW s, SurfaceOK(s, done), NEW p \in Pixels, Covers(s, p[1], p[2])
  PROVE  (p[2] - s.box.y) * s.box.w + (p[1] - s.box.x) \in DOMAIN s.buffer
<1> DEFINE a == p[1] - s.box.x  b == p[2] - s.box.y  w == s.box.w  h == s.box.h
<1>1. s.box \in Box4 /\ DOMAIN s.buffer = 0 .. Area(s.box) - 1
  BY DEF SurfaceOK, Surface, BufferOK
<1>2. p[1] \in Int /\ p[2] \in Int /\ s.box.x \in Int /\ s.box.y \in Int /\ w \in Nat /\ h \in Nat
  BY <1>1, CompositorAssumption DEF Box4, Pixels
<1>3. a \in 0 .. w - 1 /\ b \in 0 .. h - 1
  BY <1>2 DEF Covers
<1>4. Area(s.box) \in Nat /\ w * h <= Area(s.box)
  BY <1>1, AreaIs, Zenon
<1> HIDE DEF a, b, w, h
<1>5. b * w + a \in 0 .. w * h - 1
  <2>1. b * w \in Nat /\ (h - 1 - b) * w \in Nat
    BY <1>2, <1>3
  <2>2. w * h = b * w + (h - 1 - b) * w + w
    BY <1>2, <1>3
  <2> QED
    BY <1>2, <1>3, <2>1, <2>2
<1>6. b * w + a \in DOMAIN s.buffer
  <2> DEFINE n == b * w  m == w * h
  <2>1. n \in Int /\ m \in Int /\ n + a \in 0 .. m - 1 /\ m <= Area(s.box)
    BY <1>2, <1>3, <1>4, <1>5
  <2> HIDE DEF n, m
  <2>2. n + a \in 0 .. Area(s.box) - 1
    BY <1>3, <1>4, <2>1
  <2> QED
    BY <1>1, <2>2 DEF n
<1> QED
  BY <1>6 DEF a, b, w

-----------------------------------------------------------------------------
LEMMA CompositorStarts == CompositorInit => CompositorInv
<1> SUFFICES ASSUME CompositorInit PROVE CompositorInv
  OBVIOUS
<1> DEFINE shell == [x |-> 0, y |-> 0, w |-> ScreenWidth, h |-> ScreenHeight - BarHeight]
           bar == [x |-> 0, y |-> ScreenHeight - BarHeight, w |-> ScreenWidth, h |-> BarHeight]
<1>1. shell \in Box4 /\ bar \in Box4
  BY CompositorAssumption DEF Box4
<1>2. /\ DOMAIN surfaces = {1, 2} /\ surfaces[1] = SurfaceNew(shell, "background")
      /\ surfaces[2] = SurfaceNew(bar, "overlay")
      /\ surfaces = [id \in {1, 2} |-> surfaces[id]]
  BY DEF CompositorInit
<1>3. /\ SurfaceOK(surfaces[1], 0) /\ ~ surfaces[1].focused
      /\ SurfaceOK(surfaces[2], 0) /\ ~ surfaces[2].focused
  <2>1. 0 \in Nat /\ "background" \in LayerNames /\ "overlay" \in LayerNames
    BY DEF LayerNames
  <2> HIDE DEF shell, bar
  <2> QED
    BY <1>1, <1>2, <2>1, NewSurfaceOK
<1>4. surfaces \in [DOMAIN surfaces -> Surface]
  BY <1>2, <1>3 DEF SurfaceOK
<1>5. SurfacesOK(surfaces, 3, 0)
  BY <1>2, <1>3, <1>4 DEF SurfacesOK
<1>6. FocusedOnce(surfaces)
  BY <1>2, <1>3 DEF FocusedOnce
<1>7. MouseOK(mouse)
  <2>1. ScreenWidth \div 2 \in Int /\ ScreenHeight \div 2 \in Int /\ EventLimit \in Nat
    BY CompositorAssumption
  <2> QED
    BY <2>1 DEF CompositorInit, MouseOK
<1> QED
  BY <1>5, <1>6, <1>7 DEF CompositorInit, CompositorInv, FrameOK

LEMMA CreatesSurface ==
  ASSUME CompositorInv, NEW box \in Box4, CreateSurface(box)
  PROVE  CompositorInv'
<1> DEFINE s == SurfaceNew(box, "windows")
           more == [id \in DOMAIN surfaces \cup {nextSurface} |->
                      IF id = nextSurface THEN s ELSE surfaces[id]]
<1>1. surfaces' = Dirtied(more) /\ nextSurface' = nextSurface + 1 /\ damage' = TRUE
      /\ operations' = operations + 1 /\ mouse' = mouse
  BY DEF CreateSurface, Operates
<1>2. SurfacesOK(surfaces, nextSurface, operations) /\ FocusedOnce(surfaces)
      /\ operations \in Nat /\ nextSurface \in Nat /\ nextSurface \notin DOMAIN surfaces
      /\ DOMAIN surfaces \subseteq 1 .. nextSurface - 1
  BY DEF CompositorInv, SurfacesOK
<1>3. SurfacesOK(surfaces, nextSurface, operations + 1)
  BY <1>2, SurfacesMore
<1>4. SurfaceOK(s, operations + 1) /\ ~ s.focused /\ s \in Surface
  BY <1>2, NewSurfaceOK DEF LayerNames, SurfaceOK
<1>5. nextSurface \in 1 .. nextSurface
  BY <1>2 DEF SurfacesOK
<1> HIDE DEF s
<1>6. /\ DOMAIN more = DOMAIN surfaces \cup {nextSurface} /\ more[nextSurface] = s
      /\ \A id \in DOMAIN surfaces : more[id] = surfaces[id]
  BY <1>2
<1>7. more \in [DOMAIN more -> Surface]
  BY <1>3, <1>4 DEF SurfacesOK
<1> HIDE DEF more
<1>8. SurfacesOK(more, nextSurface + 1, operations + 1)
  <2>1. DOMAIN more \subseteq 1 .. (nextSurface + 1) - 1
    BY <1>2, <1>5, <1>6
  <2>2. \A id \in DOMAIN more : SurfaceOK(more[id], operations + 1)
    BY <1>3, <1>4, <1>6 DEF SurfacesOK
  <2> QED
    BY <1>2, <1>7, <2>1, <2>2 DEF SurfacesOK
<1>9. FocusedOnce(more)
  BY <1>2, <1>4, <1>6 DEF FocusedOnce
<1>10. SurfacesOK(surfaces', nextSurface', operations') /\ FocusedOnce(surfaces')
  BY <1>1, <1>8, <1>9, DirtiedOK
<1> QED
  BY <1>1, <1>10 DEF CompositorInv, FrameOK

LEMMA DestroysSurface ==
  ASSUME CompositorInv, NEW id, DestroySurface(id)
  PROVE  CompositorInv'
<1> DEFINE rest == [k \in DOMAIN surfaces \ {id} |-> surfaces[k]]
<1>1. /\ surfaces' = IF id \in DOMAIN surfaces THEN Dirtied(rest) ELSE surfaces
      /\ damage' = (damage \/ id \in DOMAIN surfaces) /\ nextSurface' = nextSurface
      /\ operations' = operations + 1 /\ mouse' = mouse /\ frame' = frame
  BY DEF DestroySurface, Operates
<1>2. SurfacesOK(surfaces, nextSurface, operations) /\ FocusedOnce(surfaces)
      /\ operations \in Nat
  BY DEF CompositorInv, SurfacesOK
<1>3. SurfacesOK(surfaces, nextSurface, operations + 1)
  BY <1>2, SurfacesMore
<1>4. CASE id \in DOMAIN surfaces
  <2>1. DOMAIN rest \subseteq DOMAIN surfaces /\ \A k \in DOMAIN rest : rest[k] = surfaces[k]
    OBVIOUS
  <2>2. rest \in [DOMAIN rest -> Surface]
    BY <1>3, <2>1 DEF SurfacesOK
  <2> HIDE DEF rest
  <2>3. SurfacesOK(rest, nextSurface, operations + 1)
    BY <1>3, <2>1, <2>2 DEF SurfacesOK
  <2>4. FocusedOnce(rest)
    BY <1>2, <2>1 DEF FocusedOnce
  <2>5. SurfacesOK(surfaces', nextSurface', operations') /\ FocusedOnce(surfaces')
    BY <1>1, <1>4, <2>3, <2>4, DirtiedOK
  <2>6. damage' = TRUE
    BY <1>1, <1>4 DEF CompositorInv
  <2> QED
    BY <1>1, <2>5, <2>6 DEF CompositorInv, FrameOK
<1>5. CASE id \notin DOMAIN surfaces
  <2>1. surfaces' = surfaces /\ damage' = damage
    BY <1>1, <1>5 DEF CompositorInv
  <2> QED
    BY <1>1, <1>2, <1>3, <2>1 DEF CompositorInv, FrameOK
<1> QED
  BY <1>4, <1>5

LEMMA MovesSurface ==
  ASSUME CompositorInv, NEW id \in DOMAIN surfaces, NEW x \in Int, NEW y \in Int,
         MoveSurface(id, x, y)
  PROVE  CompositorInv'
<1> DEFINE there == [surfaces EXCEPT ![id].box.x = x, ![id].box.y = y]
           s == surfaces[id]
           t == [box |-> [x |-> x, y |-> y, w |-> s.box.w, h |-> s.box.h], layer |-> s.layer,
                 z |-> s.z, dirty |-> s.dirty, focused |-> s.focused,
                 decorated |-> s.decorated, buffer |-> s.buffer]
<1>1. /\ surfaces' = Dirtied(there) /\ damage' = TRUE /\ nextSurface' = nextSurface
      /\ operations' = operations + 1 /\ mouse' = mouse
  BY DEF MoveSurface, Operates
<1>2. SurfacesOK(surfaces, nextSurface, operations) /\ FocusedOnce(surfaces)
      /\ operations \in Nat
  BY DEF CompositorInv, SurfacesOK
<1>3. SurfacesOK(surfaces, nextSurface, operations + 1)
  BY <1>2, SurfacesMore
<1>4. s \in Surface /\ SurfaceOK(s, operations + 1) /\ s.z <= operations + 1
  BY <1>3 DEF SurfacesOK, SurfaceOK
<1>5. DOMAIN there = DOMAIN surfaces
      /\ \A k \in DOMAIN surfaces \ {id} : there[k] = surfaces[k]
  BY <1>2 DEF SurfacesOK
<1>6. there[id] = t
  <2>1. there[id] = [s EXCEPT !.box = [[s.box EXCEPT !.x = x] EXCEPT !.y = y]]
    BY <1>2, <1>4 DEF SurfacesOK, Surface, Box4
  <2>2. [[s.box EXCEPT !.x = x] EXCEPT !.y = y] = [x |-> x, y |-> y, w |-> s.box.w, h |-> s.box.h]
    <3> DEFINE b == s.box
    <3>1. b \in Box4
      BY <1>4 DEF Surface
    <3> HIDE DEF b
    <3> DEFINE c == [b EXCEPT !.x = x]
    <3>2. c = [x |-> x, y |-> b.y, w |-> b.w, h |-> b.h]
      BY <3>1 DEF Box4
    <3> HIDE DEF c
    <3>3. [c EXCEPT !.y = y] = [x |-> x, y |-> y, w |-> b.w, h |-> b.h]
      BY <3>2
    <3> QED
      BY <3>3 DEF b, c
  <2> HIDE DEF s, there
  <2> QED
    BY <1>4, <2>1, <2>2 DEF Surface
<1>7. t \in Surface /\ SurfaceOK(t, operations + 1) /\ t.focused = s.focused
  <2> HIDE DEF s
  <2>1. t \in Surface
    BY <1>4 DEF Surface, Box4
  <2> QED
    BY <1>2, <1>4, <2>1, AlikeOK
<1> HIDE DEF t, there
<1>8. there \in [DOMAIN there -> Surface]
  <2>1. \A k \in DOMAIN there : there[k] \in Surface
    BY <1>3, <1>5, <1>6, <1>7 DEF SurfacesOK
  <2>2. there = [k \in DOMAIN there |-> there[k]]
    BY <1>2 DEF SurfacesOK, there
  <2> QED
    BY <2>1, <2>2
<1>9. SurfacesOK(there, nextSurface, operations + 1)
  BY <1>3, <1>5, <1>6, <1>7, <1>8 DEF SurfacesOK
<1>10. FocusedOnce(there)
  BY <1>2, <1>5, <1>6, <1>7 DEF FocusedOnce
<1>11. SurfacesOK(surfaces', nextSurface', operations') /\ FocusedOnce(surfaces')
  BY <1>1, <1>9, <1>10, DirtiedOK
<1> QED
  BY <1>1, <1>11 DEF CompositorInv, FrameOK

(* A surface that gets the focus is to be drawn; when there is no such        *)
(* surface the others lose it, and what is on top stays as it was.           *)
LEMMA FocusesSurface ==
  ASSUME CompositorInv, NEW id, FocusSurface(id)
  PROVE  CompositorInv'
<1>1. /\ surfaces' = Focused(surfaces, id) /\ operations' = operations + 1
      /\ UNCHANGED << nextSurface, damage, frame, shownAt, mouse >>
  BY DEF FocusSurface, Operates
<1>2. SurfacesOK(surfaces, nextSurface, operations) /\ FocusedOnce(surfaces)
  BY DEF CompositorInv
<1>3. SurfacesOK(surfaces', nextSurface', operations') /\ FocusedOnce(surfaces')
      /\ (id \in DOMAIN surfaces => surfaces'[id].dirty)
  BY <1>1, <1>2, FocusedOK
<1>4. DOMAIN surfaces' = DOMAIN surfaces
  BY <1>1 DEF Focused
<1>5. FrameOK'
  <2>1. CASE id \in DOMAIN surfaces
    BY <1>3, <1>4, <2>1 DEF FrameOK
  <2>2. CASE id \notin DOMAIN surfaces
    <3> SUFFICES ASSUME frame # << >>, ~ damage, \A k \in DOMAIN surfaces : ~ surfaces'[k].dirty
                 PROVE  ShowsAll(surfaces', frame)
      BY <1>1, <1>4 DEF FrameOK
    <3>1. \A k \in DOMAIN surfaces : ~ surfaces[k].dirty
      <4> SUFFICES ASSUME NEW k \in DOMAIN surfaces PROVE surfaces'[k].dirty = surfaces[k].dirty
        OBVIOUS
      <4>1. surfaces'[k] = [surfaces[k] EXCEPT !.focused = FALSE]
        BY <1>1, <2>2 DEF Focused
      <4>2. surfaces[k] \in Surface
        BY <1>2 DEF SurfacesOK
      <4> QED
        BY <4>1, <4>2 DEF Surface
    <3>2. ShowsAll(surfaces, frame)
      BY <3>1 DEF CompositorInv, FrameOK
    <3> QED
      BY <1>1, <1>2, <2>2, <3>2, UnfocusedShows
  <2> QED
    BY <2>1, <2>2
<1> QED
  BY <1>1, <1>3, <1>5 DEF CompositorInv

LEMMA MovesMouse ==
  ASSUME CompositorInv, NEW dx \in Int, NEW dy \in Int, MouseMove(dx, dy)
  PROVE  CompositorInv'
<1> DEFINE m == [mouse EXCEPT !.x = Clamp(@ + dx, 0, ScreenWidth - 1),
                              !.y = Clamp(@ + dy, 0, ScreenHeight - 1)]
<1>1. mouse' = Queued(m) /\ damage' = TRUE /\ operations' = operations + 1
      /\ UNCHANGED << surfaces, nextSurface, frame, shownAt >>
  BY DEF MouseMove, Operates
<1>2. SurfacesOK(surfaces, nextSurface, operations) /\ operations \in Nat
  BY DEF CompositorInv, SurfacesOK
<1>3. SurfacesOK(surfaces', nextSurface', operations')
  BY <1>1, <1>2, SurfacesMore
<1>4. \A v \in Int, high \in Int : Clamp(v, 0, high) \in Int
  <2> TAKE v \in Int, high \in Int
  <2>1. Min({v, high}) \in Int /\ 0 \in Int
    <3>1. Min({v, high}) \in {v, high}
      BY OneOfTwo, Zenon
    <3> QED
      BY <3>1
  <2>2. Max({0, Min({v, high})}) \in {0, Min({v, high})}
    BY <2>1, OneOfTwo, Zenon
  <2> QED
    BY <2>1, <2>2 DEF Clamp
<1>5. MouseOK(m)
  <2>1. mouse.x + dx \in Int /\ mouse.y + dy \in Int
        /\ ScreenWidth - 1 \in Int /\ ScreenHeight - 1 \in Int
    BY CompositorAssumption DEF CompositorInv, MouseOK
  <2> DEFINE a == Clamp(mouse.x + dx, 0, ScreenWidth - 1)
             b == Clamp(mouse.y + dy, 0, ScreenHeight - 1)
  <2>2. a \in Int /\ b \in Int
    BY <1>4, <2>1
  <2>3. m = [[mouse EXCEPT !.x = a] EXCEPT !.y = b]
    BY DEF CompositorInv, MouseOK
  <2> HIDE DEF a, b, m
  <2>4. m \in [x : Int, y : Int, events : Seq(Nat), pushed : Nat]
        /\ m.events = mouse.events /\ m.pushed = mouse.pushed
    BY <2>2, <2>3 DEF CompositorInv, MouseOK
  <2> QED
    BY <2>4 DEF CompositorInv, MouseOK
<1>6. MouseOK(mouse')
  BY <1>1, <1>5, QueuedOK
<1> QED
  BY <1>1, <1>3, <1>6 DEF CompositorInv, FrameOK

LEMMA ClicksMouse ==
  ASSUME CompositorInv, MouseClick
  PROVE  CompositorInv'
<1> DEFINE x == mouse.x  y == mouse.y  id == SurfaceAt(x, y)
<1>1. /\ mouse' = Queued(mouse) /\ operations' = operations + 1
      /\ surfaces' = IF Under(x, y) = {} THEN surfaces ELSE Focused(surfaces, id)
      /\ UNCHANGED << nextSurface, damage, frame, shownAt >>
  BY DEF MouseClick, Operates
<1>2. SurfacesOK(surfaces, nextSurface, operations) /\ FocusedOnce(surfaces)
      /\ operations \in Nat
  BY DEF CompositorInv, SurfacesOK
<1>3. MouseOK(mouse')
  BY <1>1, QueuedOK DEF CompositorInv
<1>4. CASE Under(x, y) = {}
  <2>1. SurfacesOK(surfaces', nextSurface', operations')
    BY <1>1, <1>2, <1>4, SurfacesMore
  <2> QED
    BY <1>1, <1>3, <1>4, <2>1 DEF CompositorInv, FrameOK
<1>5. CASE Under(x, y) # {}
  <2>1. id \in DOMAIN surfaces
    BY <1>2, <1>5, ClickIsHighest DEF Under
  <2> HIDE DEF id
  <2>2. /\ SurfacesOK(surfaces', nextSurface', operations') /\ FocusedOnce(surfaces')
        /\ surfaces'[id].dirty
    BY <1>1, <1>2, <1>5, <2>1, FocusedOK
  <2>3. id \in DOMAIN surfaces'
    BY <1>1, <1>5, <2>1 DEF Focused
  <2>4. FrameOK'
    BY <2>2, <2>3 DEF FrameOK
  <2> QED
    BY <1>1, <1>3, <2>2, <2>4 DEF CompositorInv
<1> QED
  BY <1>4, <1>5

(* A frame shows what is on top of each point, of the surfaces as redrawn.    *)
LEMMA RendersFrame ==
  ASSUME CompositorInv, NEW tick, RenderTick(tick)
  PROVE  CompositorInv'
<1> DEFINE new == [id \in DOMAIN surfaces |-> Redrawn(surfaces[id])]
<1>1. /\ surfaces' = new /\ frame' = Composed(new) /\ damage' = FALSE
      /\ UNCHANGED << nextSurface, mouse, operations >>
  BY DEF RenderTick
<1>2. SurfacesOK(surfaces, nextSurface, operations) /\ operations \in Nat
      /\ DOMAIN new = DOMAIN surfaces
  BY DEF CompositorInv, SurfacesOK
<1>3. \A k \in DOMAIN surfaces :
        /\ SurfaceOK(new[k], operations) /\ new[k] \in Surface
        /\ new[k].focused = surfaces[k].focused /\ new[k].box = surfaces[k].box
        /\ new[k].layer = surfaces[k].layer /\ new[k].z = surfaces[k].z
  <2> TAKE k \in DOMAIN surfaces
  <2>1. SurfaceOK(surfaces[k], operations) /\ new[k] = Redrawn(surfaces[k])
    BY <1>2 DEF SurfacesOK
  <2> HIDE DEF new
  <2>2. SurfaceOK(new[k], operations)
        /\ new[k].focused = surfaces[k].focused /\ new[k].box = surfaces[k].box
        /\ new[k].layer = surfaces[k].layer /\ new[k].z = surfaces[k].z
    BY <1>2, <2>1, RedrawnOK
  <2> QED
    BY <2>2 DEF SurfaceOK
<1>4. new \in [DOMAIN new -> Surface]
  BY <1>3
<1> HIDE DEF new
<1>5. SurfacesOK(new, nextSurface, operations)
  BY <1>2, <1>3, <1>4 DEF SurfacesOK
<1>6. FocusedOnce(new)
  BY <1>2, <1>3 DEF CompositorInv, FocusedOnce
<1>7. ShowsAll(new, Composed(new))
  <2> SUFFICES ASSUME NEW p \in Pixels, \E k \in DOMAIN new : Covers(new[k], p[1], p[2])
               PROVE  \E id \in DOMAIN new :
                        OnTop(new, id, p) /\ Composed(new)[p] = << id, PixelOf(new[id], p) >>
    BY DEF ShowsAll
  <2>1. \A k \in DOMAIN surfaces : /\ Height(new[k]) = Height(surfaces[k])
                                   /\ Covers(new[k], p[1], p[2])
                                        <=> Covers(surfaces[k], p[1], p[2])
    BY <1>3 DEF Height, Covers
  <2>2. Under(p[1], p[2]) # {}
    BY <1>2, <2>1 DEF Under
  <2> DEFINE id == SeenAt(p)
  <2>3. OnTop(surfaces, id, p)
    BY <1>2, <2>2, SeenIsOnTop
  <2>4. Composed(new)[p] = << id, PixelOf(new[id], p) >>
    BY <2>2 DEF Composed
  <2> HIDE DEF id
  <2>5. OnTop(new, id, p) /\ id \in DOMAIN new
    BY <1>2, <2>1, <2>3 DEF OnTop
  <2> QED
    BY <2>4, <2>5
<1> QED
  BY <1>1, <1>5, <1>6, <1>7 DEF CompositorInv, FrameOK

LEMMA CompositorStays ==
  ASSUME CompositorInv, [CompositorNext]_compositorVars
  PROVE  CompositorInv'
<1>1. ASSUME NEW box \in SurfaceBoxes, CreateSurface(box) PROVE CompositorInv'
  BY <1>1, CreatesSurface, CompositorAssumption DEF Box4
<1>2. ASSUME NEW id \in 1 .. nextSurface, DestroySurface(id) PROVE CompositorInv'
  BY <1>2, DestroysSurface
<1>3. ASSUME NEW id \in 1 .. nextSurface, FocusSurface(id) PROVE CompositorInv'
  BY <1>3, FocusesSurface
<1>4. ASSUME NEW id \in DOMAIN surfaces, NEW box \in SurfaceBoxes,
             MoveSurface(id, box.x, box.y)
      PROVE  CompositorInv'
  <2>1. box.x \in Int /\ box.y \in Int
    BY CompositorAssumption
  <2> QED
    BY <1>4, <2>1, MovesSurface
<1>5. ASSUME NEW d \in Moves, MouseMove(d[1], d[2]) PROVE CompositorInv'
  <2>1. d[1] \in Int /\ d[2] \in Int
    BY CompositorAssumption
  <2> QED
    BY <1>5, <2>1, MovesMouse
<1>6. ASSUME MouseClick PROVE CompositorInv'
  BY <1>6, ClicksMouse
<1>7. ASSUME NEW tick \in 1 .. MaxFrameTick, RenderTick(tick) PROVE CompositorInv'
  BY <1>7, RendersFrame
<1>8. CASE UNCHANGED compositorVars
  BY <1>8 DEF compositorVars, CompositorInv, FrameOK
<1> QED
  BY <1>1, <1>2, <1>3, <1>4, <1>5, <1>6, <1>7, <1>8 DEF CompositorNext

THEOREM CompositorInvariant == CompositorSpec => []CompositorInv
<1>1. CompositorInv /\ [CompositorNext]_compositorVars => CompositorInv'
  BY CompositorStays
<1> QED
  BY <1>1, CompositorStarts, PTL DEF CompositorSpec

(* The events of the mouse are the latest, in order and within the limit, and *)
(* every surface has a pixel for every place of its box.                     *)
THEOREM QueuesAndBuffersFit == CompositorSpec => []CompositorTypeOK
<1>1. CompositorInv => CompositorTypeOK
  <2> SUFFICES ASSUME CompositorInv PROVE CompositorTypeOK
    OBVIOUS
  <2>1. ASSUME NEW id \in DOMAIN surfaces
        PROVE  Cardinality(DOMAIN surfaces[id].buffer)
                 = Max({1, surfaces[id].box.w * surfaces[id].box.h})
    <3> DEFINE a == Area(surfaces[id].box)
    <3>1. surfaces[id].box \in Box4 /\ DOMAIN surfaces[id].buffer = 0 .. a - 1
      BY DEF CompositorInv, SurfacesOK, SurfaceOK, Surface, BufferOK
    <3>2. a \in Nat /\ a >= 1
      BY <3>1, AreaIs, Zenon
    <3> HIDE DEF a
    <3>3. Cardinality(0 .. a - 1) = a
      BY <3>2, FS_Interval
    <3> QED
      BY <3>1, <3>3 DEF a, Area
  <2> QED
    BY <2>1 DEF CompositorTypeOK, CompositorInv, MouseOK
<1> QED
  BY <1>1, CompositorInvariant, PTL

(* The frame of a compositor with nothing left to draw is true.              *)
THEOREM FrameIsTrue == CompositorSpec => []FrameTrue
<1>1. CompositorInv => FrameTrue
  <2> SUFFICES ASSUME CompositorInv, frame # << >>, ~ damage,
                      \A id \in DOMAIN surfaces : ~ surfaces[id].dirty,
                      NEW p \in Pixels, Under(p[1], p[2]) # {}
               PROVE  LET id == frame[p][1] IN
                      /\ id \in DOMAIN surfaces
                      /\ Height(surfaces[id]) = Height(surfaces[SurfaceAt(p[1], p[2])])
                      /\ \A k \in DOMAIN surfaces : surfaces[k].focused /\ k # id =>
                           ~(Covers(surfaces[k], p[1], p[2])
                               /\ Height(surfaces[k]) > Height(surfaces[id]))
                      /\ surfaces[id].focused /\ surfaces[id].decorated => frame[p][2] # "idle"
    BY DEF FrameTrue
  <2>1. SurfacesOK(surfaces, nextSurface, operations) /\ ShowsAll(surfaces, frame)
        /\ operations \in Nat
    BY DEF CompositorInv, FrameOK, SurfacesOK
  <2>2. PICK id \in DOMAIN surfaces :
          OnTop(surfaces, id, p) /\ frame[p] = << id, PixelOf(surfaces[id], p) >>
    BY <2>1 DEF ShowsAll, Under
  <2>3. \A k \in DOMAIN surfaces : Height(surfaces[k]) \in Nat
    BY <2>1, HeightBound DEF SurfacesOK
  <2> DEFINE top == SurfaceAt(p[1], p[2])
  <2>4. /\ top \in DOMAIN surfaces /\ Covers(surfaces[top], p[1], p[2])
        /\ \A k \in Under(p[1], p[2]) : Height(surfaces[k]) <= Height(surfaces[top])
    BY <2>1, ClickIsHighest DEF Under
  <2> HIDE DEF top
  <2>5. Height(surfaces[id]) = Height(surfaces[top])
    <3>1. Height(surfaces[id]) <= Height(surfaces[top])
      BY <2>2, <2>4 DEF OnTop, Under
    <3>2. Height(surfaces[top]) <= Height(surfaces[id])
      BY <2>2, <2>3, <2>4 DEF OnTop
    <3> QED
      BY <2>3, <2>4, <3>1, <3>2
  <2>6. \A k \in DOMAIN surfaces : surfaces[k].focused /\ k # id =>
          ~(Covers(surfaces[k], p[1], p[2]) /\ Height(surfaces[k]) > Height(surfaces[id]))
    BY <2>2, <2>3 DEF OnTop
  <2>7. surfaces[id].focused /\ surfaces[id].decorated => PixelOf(surfaces[id], p) # "idle"
    <3> DEFINE s == surfaces[id]
    <3>1. SurfaceOK(s, operations) /\ Covers(s, p[1], p[2]) /\ ~ s.dirty
      BY <2>1, <2>2 DEF SurfacesOK, OnTop
    <3> HIDE DEF s
    <3>2. (p[2] - s.box.y) * s.box.w + (p[1] - s.box.x) \in DOMAIN s.buffer
      BY <2>1, <3>1, PixelInBuffer
    <3>3. s.focused /\ s.decorated => PixelOf(s, p) # "idle"
      BY <3>1, <3>2, Zenon DEF SurfaceOK, BufferOK, PixelOf
    <3> QED
      BY <3>3 DEF s
  <2> QED
    BY <2>2, <2>5, <2>6, <2>7 DEF top
<1> QED
  BY <1>1, CompositorInvariant, PTL

(* No two surfaces have the focus.                                           *)
THEOREM FocusIsOne == CompositorSpec => []OneFocus
<1>1. CompositorInv => OneFocus
  <2> SUFFICES ASSUME CompositorInv PROVE OneFocus
    OBVIOUS
  <2> DEFINE F == {id \in DOMAIN surfaces : surfaces[id].focused}
  <2>1. \A k, l \in F : k = l
    BY DEF CompositorInv, FocusedOnce
  <2>2. F = {} \/ \E k : F = {k}
    BY <2>1
  <2> HIDE DEF F
  <2>3. Cardinality(F) = 0 \/ Cardinality(F) = 1
    BY <2>2, FS_EmptySet, FS_Singleton
  <2> QED
    BY <2>3 DEF OneFocus, F
<1> QED
  BY <1>1, CompositorInvariant, PTL

-----------------------------------------------------------------------------
(* Side by side, whatever programs, frames and calls, and whatever their order: *)
(* loaded modules and their names, the numbers that answer system calls, the    *)
(* limits and frames of WASM, and the boxes, stack and focus of the compositor.  *)
(* ProgramsTrue does not say whose sandbox is charged, that a loader writes      *)
(* every field, that a failed call gives its frames back, or that a surface     *)
(* which lost the focus looks so: the code does not.                            *)
THEOREM ProgramsStayTrue == ProgramsSpec => []ProgramsTrue
BY ModulesAreSound, SymbolsAreLive, AnswersStayTrue, WasmStaysBounded, FramesAreOwned,
   FrameIsTrue, FocusIsOne, PTL
DEF ProgramsSpec, ProgramsTrue

-----------------------------------------------------------------------------
(***************************************************************************)
(* Quantum circuits.  First the powers of two and the sums, by the steps   *)
(* of the recursive functions that compute them.                           *)
(***************************************************************************)
PowerSteps(f, n) == f[0] = 1 /\ \A i \in 1 .. n : f[i] = 2 * f[i - 1]

LEMMA PowerUnfolds ==
  ASSUME NEW n \in Nat
  PROVE  \E f : PowerSteps(f, n) /\ TwoTo(n) = f[n]
<1> DEFINE step == [x \in (1 .. n) \X Nat |-> 2 * x[2]]
           Def(f) == f = [i \in 0 .. n |-> IF i = 0 THEN 1 ELSE 2 * f[i - 1]]
<1>1. PICK f : IsIterate(f, Nat, 1, n, step)
  <2>1. step \in [(1 .. n) \X Nat -> Nat]
    OBVIOUS
  <2> HIDE DEF step
  <2> QED
    BY <2>1, Iterates
<1>2. ASSUME NEW i \in 1 .. n PROVE f[i] = 2 * f[i - 1]
  <2>1. << i, f[i - 1] >> \in (1 .. n) \X Nat
    BY <1>1 DEF IsIterate
  <2>2. f[i] = step[<< i, f[i - 1] >>]
    BY <1>1 DEF IsIterate
  <2> QED
    BY <2>1, <2>2
<1> HIDE DEF step
<1>3. Def(f)
  BY <1>1, <1>2 DEF IsIterate
<1> DEFINE g == CHOOSE h : Def(h)
<1>4. Def(g)
  BY <1>3
<1>5. TwoTo(n) = g[n]
  BY DEF TwoTo
<1> HIDE DEF g
<1>6. PowerSteps(g, n)
  <2>1. g = [i \in 0 .. n |-> IF i = 0 THEN 1 ELSE 2 * g[i - 1]]
    BY <1>4
  <2>2. \A i \in 0 .. n : g[i] = IF i = 0 THEN 1 ELSE 2 * g[i - 1]
    BY <2>1, Zenon
  <2>3. 0 \in 0 .. n /\ \A i \in 1 .. n : i \in 0 .. n /\ i # 0
    OBVIOUS
  <2> QED
    BY <2>2, <2>3 DEF PowerSteps
<1> QED
  BY <1>5, <1>6

LEMMA PowersAlike ==
  ASSUME NEW f, NEW g, NEW m \in Nat, NEW n \in Nat, m <= n,
         PowerSteps(f, m), PowerSteps(g, n)
  PROVE  f[m] = g[m]
<1> DEFINE alike == {i \in 0 .. m : f[i] = g[i]}
<1>1. 0 \in alike
  BY DEF PowerSteps
<1>2. ASSUME NEW i \in 1 .. m, i - 1 \in alike PROVE i \in alike
  BY <1>2 DEF PowerSteps
<1> HIDE DEF alike
<1>3. \A i \in 0 .. m : i \in alike
  BY <1>1, <1>2, InductUpTo
<1> QED
  BY <1>3 DEF alike

LEMMA TwoToZero == TwoTo(0) = 1
<1>1. PICK f : PowerSteps(f, 0) /\ TwoTo(0) = f[0]
  BY PowerUnfolds
<1> QED
  BY <1>1 DEF PowerSteps

LEMMA TwoToNext ==
  ASSUME NEW n \in Nat
  PROVE  TwoTo(n + 1) = 2 * TwoTo(n)
<1>1. PICK f : PowerSteps(f, n) /\ TwoTo(n) = f[n]
  BY PowerUnfolds
<1>2. PICK g : PowerSteps(g, n + 1) /\ TwoTo(n + 1) = g[n + 1]
  BY PowerUnfolds
<1>3. f[n] = g[n]
  BY <1>1, <1>2, PowersAlike
<1>4. g[n + 1] = 2 * g[n]
  BY <1>2 DEF PowerSteps
<1> QED
  BY <1>1, <1>2, <1>3, <1>4

LEMMA TwoToPositive ==
  ASSUME NEW n \in Nat
  PROVE  TwoTo(n) \in Nat \ {0}
<1> DEFINE good == {i \in 0 .. n : TwoTo(i) \in Nat \ {0}}
<1>1. 0 \in good
  BY TwoToZero
<1>2. ASSUME NEW i \in 1 .. n, i - 1 \in good PROVE i \in good
  <2>1. TwoTo((i - 1) + 1) = 2 * TwoTo(i - 1)
    BY TwoToNext
  <2> QED
    BY <1>2, <2>1
<1> HIDE DEF good
<1>3. \A i \in 0 .. n : i \in good
  BY <1>1, <1>2, InductUpTo
<1> QED
  BY <1>3 DEF good

LEMMA TwoToSum ==
  ASSUME NEW m \in Nat, NEW n \in Nat
  PROVE  TwoTo(m + n) = TwoTo(m) * TwoTo(n)
<1> DEFINE good == {i \in 0 .. n : TwoTo(m + i) = TwoTo(m) * TwoTo(i)}
<1>0. TwoTo(m) \in Nat
  BY TwoToPositive
<1>1. 0 \in good
  BY <1>0, TwoToZero
<1>2. ASSUME NEW i \in 1 .. n, i - 1 \in good PROVE i \in good
  <2>1. TwoTo((i - 1) + 1) = 2 * TwoTo(i - 1) /\ TwoTo(i - 1) \in Nat
    BY TwoToNext, TwoToPositive
  <2>2. TwoTo((m + (i - 1)) + 1) = 2 * TwoTo(m + (i - 1))
    BY TwoToNext
  <2>3. (i - 1) + 1 = i /\ (m + (i - 1)) + 1 = m + i
    OBVIOUS
  <2>4. \A a, b \in Nat : 2 * (a * b) = a * (2 * b)
    OBVIOUS
  <2>5. TwoTo(m + (i - 1)) = TwoTo(m) * TwoTo(i - 1)
    BY <1>2
  <2>6. TwoTo(m + i) = TwoTo(m) * TwoTo(i)
    BY <1>0, <2>1, <2>2, <2>3, <2>4, <2>5
  <2> QED
    BY <2>6
<1> HIDE DEF good
<1>3. \A i \in 0 .. n : i \in good
  BY <1>1, <1>2, InductUpTo
<1> QED
  BY <1>3 DEF good

-----------------------------------------------------------------------------
\* w is a sequence of n integers, from w[0] on.
Integral(w, n) == \A i \in 0 .. n - 1 : w[i] \in Int

SumSteps(f, w, n) == f[0] = 0 /\ \A i \in 1 .. n : f[i] = f[i - 1] + w[i - 1]

LEMMA TotalUnfolds ==
  ASSUME NEW n \in Nat, NEW w, Integral(w, n)
  PROVE  \E f : SumSteps(f, w, n) /\ Total(w, n) = f[n]
<1> DEFINE step == [x \in (1 .. n) \X Int |-> x[2] + w[x[1] - 1]]
           Def(f) == f = [i \in 0 .. n |-> IF i = 0 THEN 0 ELSE f[i - 1] + w[i - 1]]
<1>1. PICK f : IsIterate(f, Int, 0, n, step)
  <2> DEFINE S == Int
  <2>1. step \in [(1 .. n) \X S -> S] /\ 0 \in S
    BY DEF Integral
  <2> HIDE DEF step, S
  <2>2. \E f : IsIterate(f, S, 0, n, step)
    BY <2>1, Iterates
  <2> QED
    BY <2>2 DEF S
<1>2. ASSUME NEW i \in 1 .. n PROVE f[i] = f[i - 1] + w[i - 1]
  <2>1. << i, f[i - 1] >> \in (1 .. n) \X Int
    BY <1>1 DEF IsIterate
  <2>2. f[i] = step[<< i, f[i - 1] >>]
    BY <1>1 DEF IsIterate
  <2> QED
    BY <2>1, <2>2
<1> HIDE DEF step
<1>3. Def(f)
  BY <1>1, <1>2 DEF IsIterate
<1> DEFINE g == CHOOSE h : Def(h)
<1>4. Def(g)
  BY <1>3
<1>5. Total(w, n) = g[n]
  BY DEF Total
<1> HIDE DEF g
<1>6. SumSteps(g, w, n)
  <2>1. g = [i \in 0 .. n |-> IF i = 0 THEN 0 ELSE g[i - 1] + w[i - 1]]
    BY <1>4
  <2>2. \A i \in 0 .. n : g[i] = IF i = 0 THEN 0 ELSE g[i - 1] + w[i - 1]
    BY <2>1, Zenon
  <2>3. 0 \in 0 .. n /\ \A i \in 1 .. n : i \in 0 .. n /\ i # 0
    OBVIOUS
  <2> QED
    BY <2>2, <2>3 DEF SumSteps
<1> QED
  BY <1>5, <1>6

\* Sums of sequences that begin alike are alike as far as they go.
LEMMA SumsAlike ==
  ASSUME NEW f, NEW g, NEW v, NEW w, NEW m \in Nat, NEW n \in Nat, m <= n,
         SumSteps(f, v, m), SumSteps(g, w, n), \A i \in 0 .. m - 1 : v[i] = w[i]
  PROVE  f[m] = g[m]
<1> DEFINE alike == {i \in 0 .. m : f[i] = g[i]}
<1>1. 0 \in alike
  BY DEF SumSteps
<1>2. ASSUME NEW i \in 1 .. m, i - 1 \in alike PROVE i \in alike
  BY <1>2 DEF SumSteps
<1> HIDE DEF alike
<1>3. \A i \in 0 .. m : i \in alike
  BY <1>1, <1>2, InductUpTo
<1> QED
  BY <1>3 DEF alike

LEMMA TotalNone ==
  ASSUME NEW w
  PROVE  Total(w, 0) = 0
<1>1. PICK f : SumSteps(f, w, 0) /\ Total(w, 0) = f[0]
  BY TotalUnfolds DEF Integral
<1> QED
  BY <1>1 DEF SumSteps

LEMMA TotalNext ==
  ASSUME NEW n \in Nat, NEW w, Integral(w, n + 1)
  PROVE  Total(w, n + 1) = Total(w, n) + w[n]
<1>1. PICK f : SumSteps(f, w, n) /\ Total(w, n) = f[n]
  BY TotalUnfolds DEF Integral
<1>2. PICK g : SumSteps(g, w, n + 1) /\ Total(w, n + 1) = g[n + 1]
  BY TotalUnfolds
<1>3. f[n] = g[n]
  BY <1>1, <1>2, SumsAlike
<1>4. g[n + 1] = g[n] + w[n]
  BY <1>2 DEF SumSteps
<1> QED
  BY <1>1, <1>2, <1>3, <1>4

LEMMA TotalSame ==
  ASSUME NEW n \in Nat, NEW v, NEW w, Integral(w, n), \A i \in 0 .. n - 1 : v[i] = w[i]
  PROVE  Total(v, n) = Total(w, n)
<1>1. PICK f : SumSteps(f, w, n) /\ Total(w, n) = f[n]
  BY TotalUnfolds
<1>2. PICK g : SumSteps(g, v, n) /\ Total(v, n) = g[n]
  BY TotalUnfolds DEF Integral
<1> QED
  BY <1>1, <1>2, SumsAlike

LEMMA TotalIntegral ==
  ASSUME NEW n \in Nat, NEW w, Integral(w, n)
  PROVE  Total(w, n) \in Int
<1> DEFINE good == {i \in 0 .. n : Total(w, i) \in Int}
<1>1. 0 \in good
  BY TotalNone
<1>2. ASSUME NEW i \in 1 .. n, i - 1 \in good PROVE i \in good
  <2>1. Total(w, (i - 1) + 1) = Total(w, i - 1) + w[i - 1]
    BY TotalNext DEF Integral
  <2> QED
    BY <1>2, <2>1 DEF Integral
<1> HIDE DEF good
<1>3. \A i \in 0 .. n : i \in good
  BY <1>1, <1>2, InductUpTo
<1> QED
  BY <1>3 DEF good

\* A sequence with one value changed.
LEMMA TotalChanged ==
  ASSUME NEW n \in Nat, NEW v, NEW w, Integral(v, n), Integral(w, n), NEW m \in 0 .. n - 1,
         \A i \in 0 .. n - 1 : i # m => v[i] = w[i]
  PROVE  Total(v, n) = Total(w, n) - w[m] + v[m]
<1> DEFINE good == {i \in 0 .. n : /\ i <= m => Total(v, i) = Total(w, i)
                                   /\ i > m => Total(v, i) = Total(w, i) - w[m] + v[m]}
<1>1. 0 \in good
  BY TotalNone
<1>2. ASSUME NEW i \in 1 .. n, i - 1 \in good PROVE i \in good
  <2>1. Total(w, (i - 1) + 1) = Total(w, i - 1) + w[i - 1] /\ Total(w, i - 1) \in Int
    BY TotalNext, TotalIntegral DEF Integral
  <2>2. Total(v, (i - 1) + 1) = Total(v, i - 1) + v[i - 1] /\ Total(v, i - 1) \in Int
    BY TotalNext, TotalIntegral DEF Integral
  <2>3. (i - 1) + 1 = i /\ v[m] \in Int /\ w[m] \in Int /\ v[i - 1] \in Int /\ w[i - 1] \in Int
    BY DEF Integral
  <2>4. i - 1 # m => v[i - 1] = w[i - 1]
    OBVIOUS
  <2>5. /\ i - 1 <= m => Total(v, i - 1) = Total(w, i - 1)
        /\ i - 1 > m => Total(v, i - 1) = Total(w, i - 1) - w[m] + v[m]
    BY <1>2
  <2>6. /\ i <= m => Total(v, i) = Total(w, i)
        /\ i > m => Total(v, i) = Total(w, i) - w[m] + v[m]
    BY <2>1, <2>2, <2>3, <2>4, <2>5
  <2> QED
    BY <2>6
<1> HIDE DEF good
<1>3. n \in good
  BY <1>1, <1>2, InductUpTo
<1> QED
  BY <1>3 DEF good

\* Two pairs of sequences, each pair of values in one twice that in the other.
LEMMA TotalOfPairs ==
  ASSUME NEW n \in Nat, NEW t, NEW u, NEW v, NEW w,
         Integral(t, n), Integral(u, n), Integral(v, n), Integral(w, n),
         \A i \in 0 .. n - 1 : t[i] + u[i] = 2 * (v[i] + w[i])
  PROVE  Total(t, n) + Total(u, n) = 2 * (Total(v, n) + Total(w, n))
<1> DEFINE good == {i \in 0 .. n :
                     Total(t, i) + Total(u, i) = 2 * (Total(v, i) + Total(w, i))}
<1>1. 0 \in good
  BY TotalNone
<1>2. ASSUME NEW i \in 1 .. n, i - 1 \in good PROVE i \in good
  <2>1. Total(t, (i - 1) + 1) = Total(t, i - 1) + t[i - 1] /\ Total(t, i - 1) \in Int
    BY TotalNext, TotalIntegral DEF Integral
  <2>2. Total(u, (i - 1) + 1) = Total(u, i - 1) + u[i - 1] /\ Total(u, i - 1) \in Int
    BY TotalNext, TotalIntegral DEF Integral
  <2>3. Total(v, (i - 1) + 1) = Total(v, i - 1) + v[i - 1] /\ Total(v, i - 1) \in Int
    BY TotalNext, TotalIntegral DEF Integral
  <2>4. Total(w, (i - 1) + 1) = Total(w, i - 1) + w[i - 1] /\ Total(w, i - 1) \in Int
    BY TotalNext, TotalIntegral DEF Integral
  <2>5. /\ (i - 1) + 1 = i /\ t[i - 1] + u[i - 1] = 2 * (v[i - 1] + w[i - 1])
        /\ t[i - 1] \in Int /\ u[i - 1] \in Int /\ v[i - 1] \in Int /\ w[i - 1] \in Int
    BY DEF Integral
  <2>6. Total(t, i - 1) + Total(u, i - 1) = 2 * (Total(v, i - 1) + Total(w, i - 1))
    BY <1>2
  <2>7. Total(t, i) + Total(u, i) = 2 * (Total(v, i) + Total(w, i))
    BY <2>1, <2>2, <2>3, <2>4, <2>5, <2>6
  <2> QED
    BY <2>7
<1> HIDE DEF good
<1>3. n \in good
  BY <1>1, <1>2, InductUpTo
<1> QED
  BY <1>3 DEF good

\* p is a permutation of the first n numbers.
Rearranges(p, n) ==
  /\ p \in [0 .. n - 1 -> 0 .. n - 1]
  /\ \A i, j \in 0 .. n - 1 : p[i] = p[j] => i = j
  /\ \A j \in 0 .. n - 1 : \E i \in 0 .. n - 1 : p[i] = j

Rearranged(w, p, n) == [i \in 0 .. n - 1 |-> w[p[i]]]

\* p without its last number: whoever it stood in for takes its place.
Shortened(p, n) == [i \in 0 .. n - 1 |-> IF p[i] = n THEN p[n] ELSE p[i]]

LEMMA ShortenedRearranges ==
  ASSUME NEW n \in Nat, NEW p, Rearranges(p, n + 1)
  PROVE  Rearranges(Shortened(p, n), n)
<1> DEFINE r == Shortened(p, n)
<1>1. /\ p \in [0 .. n -> 0 .. n]
      /\ \A i, j \in 0 .. n : p[i] = p[j] => i = j
      /\ \A j \in 0 .. n : \E i \in 0 .. n : p[i] = j
  <2>1. (n + 1) - 1 = n
    OBVIOUS
  <2> QED
    BY <2>1, Zenon DEF Rearranges
<1>2. \A i \in 0 .. n - 1 : r[i] = IF p[i] = n THEN p[n] ELSE p[i]
  BY DEF Shortened
<1>3. r \in [0 .. n - 1 -> 0 .. n - 1]
  <2>1. ASSUME NEW i \in 0 .. n - 1
        PROVE  (IF p[i] = n THEN p[n] ELSE p[i]) \in 0 .. n - 1
    <3>1. i \in 0 .. n /\ n \in 0 .. n /\ i # n
      OBVIOUS
    <3>2. p[i] \in 0 .. n /\ p[n] \in 0 .. n /\ ~ (p[i] = n /\ p[n] = n)
      BY <1>1, <3>1
    <3> QED
      BY <3>2
  <2> QED
    BY <2>1 DEF Shortened
<1> HIDE DEF r
<1>4. ASSUME NEW i \in 0 .. n - 1, NEW j \in 0 .. n - 1, r[i] = r[j] PROVE i = j
  <2>1. i \in 0 .. n /\ j \in 0 .. n /\ n \in 0 .. n /\ i # n /\ j # n
    OBVIOUS
  <2> QED
    BY <1>1, <1>2, <1>4, <2>1
<1>5. ASSUME NEW j \in 0 .. n - 1 PROVE \E i \in 0 .. n - 1 : r[i] = j
  <2>1. PICK i \in 0 .. n : p[i] = j
    BY <1>1
  <2>2. CASE i # n
    BY <1>2, <2>1, <2>2
  <2>3. CASE i = n
    <3>1. PICK k \in 0 .. n : p[k] = n
      BY <1>1
    <3>2. k \in 0 .. n - 1
      BY <2>1, <2>3, <3>1
    <3> QED
      BY <1>2, <2>1, <2>3, <3>1, <3>2
  <2> QED
    BY <2>2, <2>3
<1>6. Rearranges(r, n)
  BY <1>3, <1>4, <1>5 DEF Rearranges
<1> QED
  BY <1>6 DEF r

LEMMA RearrangedIntegral ==
  ASSUME NEW n \in Nat, NEW w, Integral(w, n), NEW p, Rearranges(p, n)
  PROVE  Integral(Rearranged(w, p, n), n)
BY DEF Integral, Rearranges, Rearranged

\* One number more: the sum of w rearranged by p is that rearranged by the
\* shortened p, and the last value.
LEMMA OneMoreRearranged ==
  ASSUME NEW n \in Nat, NEW w, Integral(w, n + 1), NEW p, Rearranges(p, n + 1)
  PROVE  Total(Rearranged(w, p, n + 1), n + 1)
           = Total(Rearranged(w, Shortened(p, n), n), n) + w[n]
<1> DEFINE v == Rearranged(w, p, n + 1)  r == Shortened(p, n)  u == Rearranged(w, r, n)
<1>1. /\ p \in [0 .. n -> 0 .. n]
      /\ \A i, j \in 0 .. n : p[i] = p[j] => i = j
      /\ \A j \in 0 .. n : \E i \in 0 .. n : p[i] = j
  <2>1. (n + 1) - 1 = n
    OBVIOUS
  <2> QED
    BY <2>1, Zenon DEF Rearranges
<1>2. /\ \A i \in 0 .. n : v[i] = w[p[i]]
      /\ \A i \in 0 .. n - 1 : r[i] = IF p[i] = n THEN p[n] ELSE p[i]
      /\ \A i \in 0 .. n - 1 : u[i] = w[r[i]]
  BY DEF Rearranged, Shortened
<1>3. Integral(v, n + 1) /\ Integral(v, n) /\ Integral(w, n)
  <2>1. Integral(v, n + 1)
    BY RearrangedIntegral
  <2> HIDE DEF v
  <2> QED
    BY <2>1 DEF Integral
<1>4. Integral(u, n)
  <2>1. Rearranges(r, n)
    BY ShortenedRearranges
  <2> HIDE DEF r
  <2> QED
    BY <1>3, <2>1, RearrangedIntegral
<1>5. \A i \in 0 .. n : w[i] \in Int
  BY DEF Integral
<1> HIDE DEF v, r, u
<1>6. Total(v, n + 1) = Total(v, n) + v[n]
  BY <1>3, TotalNext
<1>7. Total(v, n) \in Int /\ Total(u, n) \in Int
  BY <1>3, <1>4, TotalIntegral
<1>8. CASE p[n] = n
  <2>1. ASSUME NEW i \in 0 .. n - 1 PROVE u[i] = v[i]
    <3>1. i \in 0 .. n /\ n \in 0 .. n /\ i # n
      OBVIOUS
    <3>2. p[i] # n
      BY <1>1, <1>8, <3>1
    <3> QED
      BY <1>2, <3>1, <3>2
  <2>2. Total(u, n) = Total(v, n)
    BY <1>3, <2>1, TotalSame
  <2>3. v[n] = w[n]
    BY <1>2, <1>8
  <2> QED
    BY <1>6, <2>2, <2>3 DEF v, r, u
<1>9. CASE p[n] # n
  <2>1. PICK m \in 0 .. n : p[m] = n
    BY <1>1
  <2>2. m \in 0 .. n - 1 /\ m \in 0 .. n
    BY <1>9, <2>1
  <2>3. ASSUME NEW i \in 0 .. n - 1, i # m PROVE u[i] = v[i]
    <3>1. i \in 0 .. n
      OBVIOUS
    <3>2. p[i] # n
      BY <1>1, <2>1, <2>3, <3>1
    <3> QED
      BY <1>2, <3>1, <3>2
  <2>4. Total(u, n) = Total(v, n) - v[m] + u[m]
    BY <1>3, <1>4, <2>2, <2>3, TotalChanged
  <2>5. v[m] = w[n] /\ u[m] = w[p[n]] /\ v[n] = w[p[n]]
    BY <1>2, <2>1, <2>2
  <2>6. w[n] \in Int /\ w[p[n]] \in Int
    <3>1. n \in 0 .. n /\ p[n] \in 0 .. n
      BY <1>1
    <3> QED
      BY <1>5, <3>1
  <2>7. Total(v, n + 1) = Total(u, n) + w[n]
    BY <1>6, <1>7, <2>4, <2>5, <2>6
  <2> QED
    BY <2>7 DEF v, r, u
<1> QED
  BY <1>8, <1>9

LEMMA TotalRearranged ==
  ASSUME NEW n \in Nat, NEW w, Integral(w, n), NEW p, Rearranges(p, n)
  PROVE  Total(Rearranged(w, p, n), n) = Total(w, n)
<1> DEFINE good == {k \in 0 .. n : \A q : Rearranges(q, k) =>
                     Total(Rearranged(w, q, k), k) = Total(w, k)}
<1>1. 0 \in good
  BY TotalNone
<1>2. ASSUME NEW i \in 1 .. n, i - 1 \in good PROVE i \in good
  <2> SUFFICES ASSUME NEW q, Rearranges(q, i)
               PROVE  Total(Rearranged(w, q, i), i) = Total(w, i)
    OBVIOUS
  <2> DEFINE j == i - 1
  <2>1. j \in Nat /\ j + 1 = i /\ Integral(w, j + 1)
    BY DEF Integral
  <2>2. \A r : Rearranges(r, j) => Total(Rearranged(w, r, j), j) = Total(w, j)
    BY <1>2
  <2> HIDE DEF j, good
  <2>3. Rearranges(q, j + 1)
    BY <2>1
  <2>4. Total(Rearranged(w, q, j + 1), j + 1) = Total(Rearranged(w, Shortened(q, j), j), j) + w[j]
    BY <2>1, <2>3, OneMoreRearranged
  <2>5. Rearranges(Shortened(q, j), j)
    BY <2>1, <2>3, ShortenedRearranges
  <2>6. Total(w, j + 1) = Total(w, j) + w[j]
    BY <2>1, TotalNext
  <2> QED
    BY <2>1, <2>2, <2>4, <2>5, <2>6
<1> HIDE DEF good
<1>3. n \in good
  BY <1>1, <1>2, InductUpTo
<1> QED
  BY <1>3 DEF good

-----------------------------------------------------------------------------
(***************************************************************************)
(* The bits of an index.                                                   *)
(***************************************************************************)
LEMMA QuotientIs ==
  ASSUME NEW w \in Nat \ {0}, NEW d \in Int, NEW r \in 0 .. w - 1
  PROVE  (w * d + r) \div w = d
<1> DEFINE a == w * d + r
<1>1. a \in Int
  OBVIOUS
<1> DEFINE e == a \div w  s == a % w
<1>2. e \in Int /\ s \in 0 .. w - 1 /\ a = w * e + s
  <2> HIDE DEF a
  <2> QED
    BY <1>1
<1> HIDE DEF e, s
<1>3. w * d + r = w * e + s
  BY <1>2
<1>4. w * (d - e) = s - r /\ w * (e - d) = r - s
  BY <1>2, <1>3
<1>5. d - e >= 1 => w * (d - e) >= w
  BY <1>2
<1>6. e - d >= 1 => w * (e - d) >= w
  BY <1>2
<1>7. e = d
  BY <1>2, <1>4, <1>5, <1>6
<1> QED
  BY <1>7 DEF e

\* Half the indices below an even bound differ from the other half in one bit.
Flips(i, q, size) ==
  /\ Bit(i, q) \in {0, 1}
  /\ Flipped(i, q) \in 0 .. size - 1
  /\ Bit(Flipped(i, q), q) = 1 - Bit(i, q)
  /\ Flipped(Flipped(i, q), q) = i
  /\ Flipped(i, q) # i

LEMMA SizeSplits ==
  ASSUME NEW n \in Nat, NEW q \in 0 .. n - 1
  PROVE  \E h \in Nat : TwoTo(n) = TwoTo(q) * (2 * h)
<1> DEFINE m == (n - 1) - q
<1>1. m \in Nat /\ q \in Nat /\ n = q + (m + 1)
  OBVIOUS
<1> HIDE DEF m
<1>2. TwoTo(n) = TwoTo(q) * TwoTo(m + 1)
  BY <1>1, TwoToSum
<1>3. TwoTo(m + 1) = 2 * TwoTo(m) /\ TwoTo(m) \in Nat
  BY <1>1, TwoToNext, TwoToPositive
<1> QED
  BY <1>2, <1>3

LEMMA FlipFacts ==
  ASSUME NEW n \in Nat, NEW q \in 0 .. n - 1, NEW i \in 0 .. TwoTo(n) - 1
  PROVE  Flips(i, q, TwoTo(n))
<1> DEFINE p == TwoTo(q)  size == TwoTo(n)  d == i \div p  r == i % p
<1>1. p \in Nat \ {0} /\ size \in Nat
  BY TwoToPositive
<1>2. PICK h \in Nat : size = p * (2 * h)
  BY SizeSplits
<1>3. Bit(i, q) = d % 2 /\ Flipped(i, q) = IF d % 2 = 0 THEN i + p ELSE i - p
  BY DEF Bit, Flipped
<1>4. i \in Nat /\ i < size
  BY <1>1
<1> HIDE DEF p, size
<1>5. d \in Int /\ r \in 0 .. p - 1 /\ i = p * d + r
  BY <1>1, <1>4
<1> HIDE DEF d, r
<1>6. d \in Nat
  <2> SUFFICES ASSUME d <= -1 PROVE FALSE
    BY <1>5
  <2>1. p * d <= p * (-1)
    BY <1>1, <1>5
  <2> QED
    BY <1>1, <1>4, <1>5, <2>1
<1>7. d < 2 * h
  <2> SUFFICES ASSUME d >= 2 * h PROVE FALSE
    BY <1>5
  <2>1. p * d >= p * (2 * h)
    BY <1>1, <1>5
  <2> QED
    BY <1>1, <1>2, <1>4, <1>5, <2>1
<1>8. PICK k \in Nat : d = 2 * k \/ d = 2 * k + 1
  <2>1. d \div 2 \in Nat /\ (d = 2 * (d \div 2) \/ d = 2 * (d \div 2) + 1)
    BY <1>6
  <2> QED
    BY <2>1, Zenon
<1>9. \A e \in Nat : e < 2 * h => p * e + r \in 0 .. size - 1
  <2> SUFFICES ASSUME NEW e \in Nat, e < 2 * h PROVE p * e + r \in 0 .. size - 1
    OBVIOUS
  <2>1. e + 1 <= 2 * h /\ e + 1 \in Nat /\ 2 * h \in Nat
    OBVIOUS
  <2>2. p * (e + 1) <= p * (2 * h)
    BY <1>1, <2>1
  <2>3. p * (e + 1) = p * e + p /\ p * e \in Nat
    BY <1>1
  <2> QED
    BY <1>1, <1>2, <1>5, <2>2, <2>3
<1>10. \A e \in Int : (p * e + r) \div p = e
  BY <1>1, <1>5, QuotientIs
<1> DEFINE Paired(e, f) == (e % 2 = 0 /\ f = e + 1) \/ (e % 2 = 1 /\ e = f + 1)
<1>11. ASSUME NEW e \in Nat, NEW f \in Nat, d = e, e < 2 * h, f < 2 * h, Paired(e, f)
       PROVE  Flips(i, q, size)
  <2>1. Flipped(i, q) = p * f + r
    <3>1. p * (e + 1) = p * e + p /\ p * (f + 1) = p * f + p
      BY <1>1
    <3>2. p * e \in Int /\ p * f \in Int
      BY <1>1
    <3> QED
      BY <1>1, <1>3, <1>5, <1>11, <3>1, <3>2
  <2>2. Bit(Flipped(i, q), q) = f % 2
    <3>1. (p * f + r) \div p = f
      BY <1>10
    <3> QED
      BY <2>1, <3>1 DEF Bit, p
  <2>3. f % 2 = 1 - (e % 2) /\ e % 2 \in {0, 1}
    BY <1>11
  <2>4. Flipped(p * f + r, q) = IF f % 2 = 0 THEN (p * f + r) + p ELSE (p * f + r) - p
    BY <2>1, <2>2 DEF Flipped, p
  <2>5. Flipped(p * f + r, q) = i
    <3>1. p * (e + 1) = p * e + p /\ p * (f + 1) = p * f + p
      BY <1>1
    <3>2. p * e \in Int /\ p * f \in Int
      BY <1>1
    <3> QED
      BY <1>1, <1>5, <1>11, <2>3, <2>4, <3>1, <3>2
  <2>6. Flipped(i, q) # i
    BY <1>1, <1>3, <1>4
  <2>7. Flipped(i, q) \in 0 .. size - 1
    BY <1>9, <1>11, <2>1
  <2> QED
    BY <1>3, <1>11, <2>1, <2>2, <2>3, <2>5, <2>6, <2>7 DEF Flips
<1> DEFINE a == 2 * k  b == 2 * k + 1
<1>12. a \in Nat /\ b \in Nat /\ a % 2 = 0 /\ b % 2 = 1 /\ b = a + 1
  OBVIOUS
<1>13. (a < 2 * h /\ b < 2 * h) /\ (d = a \/ d = b)
  BY <1>7, <1>8, <1>12
<1> HIDE DEF a, b
<1>14. Paired(a, b) /\ Paired(b, a)
  BY <1>12
<1> HIDE DEF Paired
<1>15. Flips(i, q, size)
  BY <1>11, <1>12, <1>13, <1>14
<1> QED
  BY <1>15 DEF size

\* The two indices of a pair have the same lower one.
LEMMA BelowSame ==
  ASSUME NEW n \in Nat, NEW q \in 0 .. n - 1, NEW i \in 0 .. TwoTo(n) - 1
  PROVE  Below(Flipped(i, q), q) = Below(i, q)
<1>1. Flips(i, q, TwoTo(n)) /\ TwoTo(n) \in Nat
  BY FlipFacts, TwoToPositive
<1> QED
  BY <1>1 DEF Flips, Below

LEMMA InvolutionRearranges ==
  ASSUME NEW n \in Nat, NEW p \in [0 .. n - 1 -> 0 .. n - 1],
         \A i \in 0 .. n - 1 : p[p[i]] = i
  PROVE  Rearranges(p, n)
<1> DEFINE I == 0 .. n - 1
<1>1. p \in [I -> I] /\ \A i \in I : p[p[i]] = i
  OBVIOUS
<1> HIDE DEF I
<1>2. \A i, j \in I : p[i] = p[j] => i = j
  BY <1>1
<1>3. \A j \in I : \E i \in I : p[i] = j
  BY <1>1
<1> QED
  BY <1>1, <1>2, <1>3 DEF Rearranges, I

Flipping(n, q) == [i \in 0 .. TwoTo(n) - 1 |-> Flipped(i, q)]

LEMMA FlippingRearranges ==
  ASSUME NEW n \in Nat, NEW q \in 0 .. n - 1
  PROVE  Rearranges(Flipping(n, q), TwoTo(n))
<1> DEFINE I == 0 .. TwoTo(n) - 1
<1>1. ASSUME NEW i \in I PROVE Flipped(i, q) \in I /\ Flipped(Flipped(i, q), q) = i
  BY <1>1, FlipFacts DEF Flips
<1>2. TwoTo(n) \in Nat
  BY TwoToPositive
<1> HIDE DEF I
<1>3. Flipping(n, q) \in [I -> I] /\ \A i \in I : Flipping(n, q)[i] = Flipped(i, q)
  BY <1>1 DEF Flipping, I
<1>4. \A i \in I : Flipping(n, q)[Flipping(n, q)[i]] = i
  BY <1>1, <1>3
<1> QED
  BY <1>2, <1>3, <1>4, InvolutionRearranges DEF I

\* The pairs whose lower index has bit c change places.
Swapping(n, c, q) ==
  [i \in 0 .. TwoTo(n) - 1 |-> IF Bit(Below(i, q), c) = 1 THEN Flipped(i, q) ELSE i]

LEMMA SwappingIs ==
  ASSUME NEW n \in Nat, NEW c, NEW q \in 0 .. n - 1
  PROVE  /\ Rearranges(Swapping(n, c, q), TwoTo(n))
         /\ \A i \in 0 .. TwoTo(n) - 1 : Swapping(n, c, q)[Swapping(n, c, q)[i]] = i
<1> DEFINE I == 0 .. TwoTo(n) - 1  p == Swapping(n, c, q)
<1>1. ASSUME NEW i \in I
      PROVE  /\ Flipped(i, q) \in I /\ Flipped(Flipped(i, q), q) = i
             /\ Below(Flipped(i, q), q) = Below(i, q)
  BY <1>1, FlipFacts, BelowSame DEF Flips
<1>2. TwoTo(n) \in Nat
  BY TwoToPositive
<1> HIDE DEF I
<1>3. \A i \in I : p[i] = IF Bit(Below(i, q), c) = 1 THEN Flipped(i, q) ELSE i
  BY DEF Swapping, I
<1>4. p \in [I -> I]
  BY <1>1 DEF Swapping, I
<1> HIDE DEF p
<1>5. \A i \in I : p[p[i]] = i
  BY <1>1, <1>3
<1>6. Rearranges(p, TwoTo(n))
  BY <1>2, <1>4, <1>5, InvolutionRearranges DEF I
<1> QED
  BY <1>5, <1>6 DEF p, I

-----------------------------------------------------------------------------
(***************************************************************************)
(* Gates.                                                                  *)
(***************************************************************************)
Complex == [re : Int, im : Int]

\* s is a state vector of n qubits.
IsState(s, n) ==
  s \in [amps : [0 .. TwoTo(n) - 1 -> Complex], halvings : Nat]

Norm(s, n) == Total(Weights(s), TwoTo(n))

LEMMA StateParts ==
  ASSUME NEW n \in Nat, NEW s, IsState(s, n)
  PROVE  /\ s.amps \in [0 .. TwoTo(n) - 1 -> Complex] /\ s.halvings \in Nat
         /\ DOMAIN s.amps = 0 .. TwoTo(n) - 1
         /\ \A i \in 0 .. TwoTo(n) - 1 :
              /\ s.amps[i].re \in Int /\ s.amps[i].im \in Int
              /\ s.amps[i] = Amp(s.amps[i].re, s.amps[i].im)
<1>1. s.amps \in [0 .. TwoTo(n) - 1 -> Complex] /\ s.halvings \in Nat
  BY DEF IsState
<1>2. \A a \in Complex : a.re \in Int /\ a.im \in Int /\ a = Amp(a.re, a.im)
  BY DEF Complex, Amp
<1>3. \A i \in 0 .. TwoTo(n) - 1 : s.amps[i] \in Complex
  BY <1>1
<1> QED
  BY <1>1, <1>2, <1>3

LEMMA WeightsAre ==
  ASSUME NEW n \in Nat, NEW s, IsState(s, n)
  PROVE  /\ Integral(Weights(s), TwoTo(n))
         /\ \A i \in 0 .. TwoTo(n) - 1 :
              /\ Weights(s)[i] = s.amps[i].re * s.amps[i].re + s.amps[i].im * s.amps[i].im
              /\ Weights(s)[i] = MagnitudeSq(s.amps[i])
              /\ Weights(s)[i] \in Nat
<1> DEFINE I == 0 .. TwoTo(n) - 1
<1>1. \A i \in I : s.amps[i].re \in Int /\ s.amps[i].im \in Int
  BY StateParts
<1>2. \A i \in I : Weights(s)[i] = MagnitudeSq(s.amps[i])
  BY StateParts DEF Weights
<1>3. \A a, b \in Int : a * a + b * b \in Nat
  <2>1. \A a \in Int : a * a \in Nat
    OBVIOUS
  <2> QED
    BY <2>1
<1> HIDE DEF I
<1>4. ASSUME NEW i \in I
      PROVE  /\ MagnitudeSq(s.amps[i])
                  = s.amps[i].re * s.amps[i].re + s.amps[i].im * s.amps[i].im
             /\ MagnitudeSq(s.amps[i]) \in Nat
  BY <1>1, <1>3 DEF MagnitudeSq
<1>5. \A i \in I : /\ Weights(s)[i] = s.amps[i].re * s.amps[i].re + s.amps[i].im * s.amps[i].im
                   /\ Weights(s)[i] \in Nat
  BY <1>2, <1>4
<1> QED
  BY <1>2, <1>5 DEF I, Integral

\* A gate's result: its amplitudes, and so many halvings.
Gives(t, n, amp, halvings) ==
  /\ IsState(t, n) /\ t.halvings = halvings
  /\ \A i \in 0 .. TwoTo(n) - 1 : t.amps[i] = amp[i]

LEMMA AmpIs ==
  \A a, b \in Int : Amp(a, b) \in Complex /\ Amp(a, b).re = a /\ Amp(a, b).im = b
BY DEF Amp, Complex

LEMMA SumsAre ==
  ASSUME NEW a, NEW b, a.re \in Int, a.im \in Int, b.re \in Int, b.im \in Int
  PROVE  /\ Plus(a, b) \in Complex /\ Minus(a, b) \in Complex
         /\ Plus(a, b).re = a.re + b.re /\ Plus(a, b).im = a.im + b.im
         /\ Minus(a, b).re = a.re - b.re /\ Minus(a, b).im = a.im - b.im
<1>1. /\ a.re + b.re \in Int /\ a.im + b.im \in Int
      /\ a.re - b.re \in Int /\ a.im - b.im \in Int
  OBVIOUS
<1>2. /\ Plus(a, b) = Amp(a.re + b.re, a.im + b.im)
      /\ Minus(a, b) = Amp(a.re - b.re, a.im - b.im)
  BY DEF Plus, Minus
<1> QED
  BY <1>1, <1>2, AmpIs

LEMMA HadamardIs ==
  ASSUME NEW n \in Nat, NEW s, IsState(s, n), NEW q \in 0 .. n - 1
  PROVE  Gives(Hadamard(s, q), n,
               [i \in 0 .. TwoTo(n) - 1 |->
                  IF Bit(i, q) = 0 THEN Plus(s.amps[i], s.amps[Flipped(i, q)])
                  ELSE Minus(s.amps[Flipped(i, q)], s.amps[i])],
               s.halvings + 1)
<1> DEFINE I == 0 .. TwoTo(n) - 1
           f == [i \in I |-> IF Bit(i, q) = 0 THEN Plus(s.amps[i], s.amps[Flipped(i, q)])
                             ELSE Minus(s.amps[Flipped(i, q)], s.amps[i])]
<1>1. /\ DOMAIN s.amps = I /\ s.halvings \in Nat
      /\ \A i \in I : s.amps[i].re \in Int /\ s.amps[i].im \in Int
  BY StateParts
<1>2. \A i \in I : Flipped(i, q) \in I
  BY FlipFacts DEF Flips
<1> HIDE DEF I
<1>3. ASSUME NEW i \in I, NEW j \in I
      PROVE  Plus(s.amps[i], s.amps[j]) \in Complex /\ Minus(s.amps[i], s.amps[j]) \in Complex
  BY <1>1, SumsAre
<1>4. f \in [I -> Complex]
  BY <1>2, <1>3
<1>5. Hadamard(s, q) = [amps |-> f, halvings |-> s.halvings + 1]
  BY <1>1 DEF Hadamard
<1> HIDE DEF f
<1>6. IsState(Hadamard(s, q), n)
  BY <1>1, <1>4, <1>5 DEF IsState, I
<1> QED
  BY <1>5, <1>6 DEF Gives, f, I

LEMMA NotGateIs ==
  ASSUME NEW n \in Nat, NEW s, IsState(s, n), NEW q \in 0 .. n - 1
  PROVE  Gives(NotGate(s, q), n, [i \in 0 .. TwoTo(n) - 1 |-> s.amps[Flipping(n, q)[i]]],
               s.halvings)
<1> DEFINE I == 0 .. TwoTo(n) - 1
           f == [i \in I |-> s.amps[Flipping(n, q)[i]]]
<1>1. /\ DOMAIN s.amps = I /\ s.halvings \in Nat /\ s.amps \in [I -> Complex]
  BY StateParts
<1>2. \A i \in I : Flipped(i, q) \in I
  BY FlipFacts DEF Flips
<1> HIDE DEF I
<1>3. \A i \in I : Flipping(n, q)[i] = Flipped(i, q)
  BY DEF Flipping, I
<1>4. f \in [I -> Complex]
  BY <1>1, <1>2, <1>3
<1>5. NotGate(s, q) = [amps |-> f, halvings |-> s.halvings]
  BY <1>1, <1>3 DEF NotGate, IsState
<1> HIDE DEF f
<1>6. IsState(NotGate(s, q), n)
  BY <1>1, <1>4, <1>5 DEF IsState, I
<1> QED
  BY <1>5, <1>6 DEF Gives, f, I

LEMMA ControlledNotIs ==
  ASSUME NEW n \in Nat, NEW s, IsState(s, n), NEW c, NEW q \in 0 .. n - 1
  PROVE  Gives(ControlledNot(s, c, q), n,
               [i \in 0 .. TwoTo(n) - 1 |-> s.amps[Swapping(n, c, q)[i]]], s.halvings)
<1> DEFINE I == 0 .. TwoTo(n) - 1
           f == [i \in I |-> s.amps[Swapping(n, c, q)[i]]]
<1>1. /\ DOMAIN s.amps = I /\ s.halvings \in Nat /\ s.amps \in [I -> Complex]
  BY StateParts
<1>2. \A i \in I : Flipped(i, q) \in I
  BY FlipFacts DEF Flips
<1> HIDE DEF I
<1>3. \A i \in I : Swapping(n, c, q)[i] = IF Bit(Below(i, q), c) = 1 THEN Flipped(i, q) ELSE i
  BY DEF Swapping, I
<1>4. f \in [I -> Complex]
  BY <1>1, <1>2, <1>3
<1>5. ControlledNot(s, c, q) = [amps |-> f, halvings |-> s.halvings]
  <2>1. f = [i \in I |-> IF Bit(Below(i, q), c) = 1 THEN s.amps[Flipped(i, q)] ELSE s.amps[i]]
    BY <1>3
  <2> HIDE DEF f
  <2> QED
    BY <1>1, <2>1 DEF ControlledNot, IsState
<1> HIDE DEF f
<1>6. IsState(ControlledNot(s, c, q), n)
  BY <1>1, <1>4, <1>5 DEF IsState, I
<1> QED
  BY <1>5, <1>6 DEF Gives, f, I

LEMMA HalfTurnIs ==
  ASSUME NEW n \in Nat, NEW s, IsState(s, n), NEW q
  PROVE  Gives(HalfTurn(s, q), n,
               [i \in 0 .. TwoTo(n) - 1 |->
                  IF Bit(i, q) = 0 THEN Amp(s.amps[i].im, -s.amps[i].re)
                  ELSE Amp(-s.amps[i].im, s.amps[i].re)],
               s.halvings)
<1> DEFINE I == 0 .. TwoTo(n) - 1
           f == [i \in I |-> IF Bit(i, q) = 0 THEN Amp(s.amps[i].im, -s.amps[i].re)
                             ELSE Amp(-s.amps[i].im, s.amps[i].re)]
<1>1. /\ DOMAIN s.amps = I /\ s.halvings \in Nat
      /\ \A i \in I : s.amps[i].re \in Int /\ s.amps[i].im \in Int
  BY StateParts
<1> HIDE DEF I
<1>2. ASSUME NEW i \in I
      PROVE  /\ Amp(s.amps[i].im, -s.amps[i].re) \in Complex
             /\ Amp(-s.amps[i].im, s.amps[i].re) \in Complex
  <2> DEFINE x == s.amps[i].re  y == s.amps[i].im
  <2>1. x \in Int /\ y \in Int /\ -x \in Int /\ -y \in Int
    BY <1>1
  <2> HIDE DEF x, y
  <2>2. Amp(y, -x) \in Complex /\ Amp(-y, x) \in Complex
    BY <2>1, AmpIs
  <2> QED
    BY <2>2 DEF x, y
<1>3. f \in [I -> Complex]
  BY <1>2
<1>4. HalfTurn(s, q) = [amps |-> f, halvings |-> s.halvings]
  <2>1. HalfTurn(s, q) = [s EXCEPT !.amps = f]
    BY <1>1 DEF HalfTurn
  <2> HIDE DEF f
  <2> QED
    BY <2>1 DEF IsState
<1> HIDE DEF f
<1>5. IsState(HalfTurn(s, q), n)
  BY <1>1, <1>3, <1>4 DEF IsState, I
<1> QED
  BY <1>4, <1>5 DEF Gives, f, I

-----------------------------------------------------------------------------
(***************************************************************************)
(* No gate changes the sum of the probabilities: the squares of the two    *)
(* amplitudes of a pair add up to twice what they did, and one half of it  *)
(* is in the halvings; the other gates only move weights about.            *)
(***************************************************************************)
LEMMA Parallelogram ==
  \A a, b, c, d \in Int :
    ((a + c) * (a + c) + (b + d) * (b + d)) + ((a - c) * (a - c) + (b - d) * (b - d))
      = 2 * ((a * a + b * b) + (c * c + d * d))
OBVIOUS

\* What becomes of the two amplitudes of a pair.
LEMMA PairWeights ==
  ASSUME NEW n \in Nat, NEW s, IsState(s, n), NEW q \in 0 .. n - 1,
         NEW i \in 0 .. TwoTo(n) - 1, NEW j \in 0 .. TwoTo(n) - 1,
         Bit(i, q) = 0, Bit(j, q) # 0, Flipped(i, q) = j, Flipped(j, q) = i
  PROVE  Weights(Hadamard(s, q))[i] + Weights(Hadamard(s, q))[j]
           = 2 * (Weights(s)[i] + Weights(s)[j])
<1> DEFINE h == Hadamard(s, q)  x == s.amps[i]  y == s.amps[j]
<1>1. x.re \in Int /\ x.im \in Int /\ y.re \in Int /\ y.im \in Int
  BY StateParts
<1>2. h.amps[i] = Plus(x, y) /\ h.amps[j] = Minus(x, y) /\ IsState(h, n)
  BY HadamardIs DEF Gives
<1> HIDE DEF h, x, y
<1>3. /\ h.amps[i].re = x.re + y.re /\ h.amps[i].im = x.im + y.im
      /\ h.amps[j].re = x.re - y.re /\ h.amps[j].im = x.im - y.im
  BY <1>1, <1>2, SumsAre
<1>4. /\ Weights(h)[i] = h.amps[i].re * h.amps[i].re + h.amps[i].im * h.amps[i].im
      /\ Weights(h)[j] = h.amps[j].re * h.amps[j].re + h.amps[j].im * h.amps[j].im
  BY <1>2, WeightsAre
<1>5. Weights(s)[i] = x.re * x.re + x.im * x.im /\ Weights(s)[j] = y.re * y.re + y.im * y.im
  BY WeightsAre DEF x, y
<1>6. Weights(h)[i] + Weights(h)[j] = 2 * (Weights(s)[i] + Weights(s)[j])
  BY <1>1, <1>3, <1>4, <1>5, Parallelogram
<1> QED
  BY <1>6 DEF h

LEMMA HadamardNorm ==
  ASSUME NEW n \in Nat, NEW s, IsState(s, n), NEW q \in 0 .. n - 1
  PROVE  Norm(Hadamard(s, q), n) = 2 * Norm(s, n)
<1> DEFINE size == TwoTo(n)  h == Hadamard(s, q)  p == Flipping(n, q)
           t == Weights(h)  u == Rearranged(t, p, size)
           v == Weights(s)  w == Rearranged(v, p, size)
<1>1. size \in Nat /\ Rearranges(p, size) /\ IsState(h, n)
  BY TwoToPositive, FlippingRearranges, HadamardIs DEF Gives
<1>2. Integral(t, size) /\ Integral(v, size)
  BY <1>1, WeightsAre
<1>3. \A i \in 0 .. size - 1 : /\ u[i] = t[Flipped(i, q)] /\ w[i] = v[Flipped(i, q)]
                               /\ t[i] + t[Flipped(i, q)] = 2 * (v[i] + v[Flipped(i, q)])
  <2> SUFFICES ASSUME NEW i \in 0 .. size - 1
               PROVE  /\ u[i] = t[Flipped(i, q)] /\ w[i] = v[Flipped(i, q)]
                      /\ t[i] + t[Flipped(i, q)] = 2 * (v[i] + v[Flipped(i, q)])
    OBVIOUS
  <2>1. u[i] = t[Flipped(i, q)] /\ w[i] = v[Flipped(i, q)]
    BY DEF Rearranged, Flipping
  <2> DEFINE j == Flipped(i, q)
  <2>2. /\ Bit(i, q) \in {0, 1} /\ j \in 0 .. size - 1
        /\ Bit(j, q) = 1 - Bit(i, q) /\ Flipped(j, q) = i
    BY FlipFacts DEF Flips
  <2> HIDE DEF j
  <2>3. t[i] \in Int /\ t[j] \in Int /\ v[i] \in Int /\ v[j] \in Int
    BY <1>2, <2>2 DEF Integral
  <2>4. CASE Bit(i, q) = 0
    <3>1. Bit(j, q) # 0
      BY <2>2, <2>4
    <3>2. t[i] + t[j] = 2 * (v[i] + v[j])
      BY <2>2, <2>4, <3>1, PairWeights DEF j
    <3> QED
      BY <2>1, <3>2 DEF j
  <2>5. CASE Bit(i, q) = 1
    <3>1. Bit(j, q) = 0 /\ Bit(i, q) # 0
      BY <2>2, <2>5
    <3>2. t[j] + t[i] = 2 * (v[j] + v[i])
      BY <2>2, <3>1, PairWeights DEF j
    <3> QED
      BY <2>1, <2>3, <3>2 DEF j
  <2> QED
    BY <2>2, <2>4, <2>5
<1> HIDE DEF size, h, p, t, v
<1>4. Integral(u, size) /\ Integral(w, size)
  BY <1>1, <1>2, RearrangedIntegral
<1>5. Total(u, size) = Total(t, size) /\ Total(w, size) = Total(v, size)
  BY <1>1, <1>2, TotalRearranged
<1> HIDE DEF u, w
<1>6. Total(t, size) + Total(u, size) = 2 * (Total(v, size) + Total(w, size))
  BY <1>1, <1>2, <1>3, <1>4, TotalOfPairs
<1>7. Total(t, size) \in Int /\ Total(v, size) \in Int
  BY <1>1, <1>2, TotalIntegral
<1>8. Total(t, size) = 2 * Total(v, size)
  BY <1>5, <1>6, <1>7
<1> QED
  BY <1>8 DEF Norm, t, v, h, size

\* Amplitudes that change places.
LEMMA MovedNorm ==
  ASSUME NEW n \in Nat, NEW s, IsState(s, n), NEW p, Rearranges(p, TwoTo(n)),
         NEW t, NEW k, Gives(t, n, [i \in 0 .. TwoTo(n) - 1 |-> s.amps[p[i]]], k)
  PROVE  Norm(t, n) = Norm(s, n)
<1> DEFINE size == TwoTo(n)  w == Rearranged(Weights(s), p, size)
<1>1. size \in Nat /\ Integral(Weights(s), size) /\ Integral(Weights(t), size)
  BY TwoToPositive, WeightsAre DEF Gives
<1>2. ASSUME NEW i \in 0 .. size - 1 PROVE Weights(t)[i] = w[i]
  <2>1. p[i] \in 0 .. size - 1 /\ w[i] = Weights(s)[p[i]] /\ t.amps[i] = s.amps[p[i]]
    BY DEF Rearranges, Rearranged, Gives
  <2>2. Weights(t)[i] = MagnitudeSq(t.amps[i]) /\ Weights(s)[p[i]] = MagnitudeSq(s.amps[p[i]])
    BY <2>1, WeightsAre DEF Gives
  <2> QED
    BY <2>1, <2>2
<1> HIDE DEF size
<1>3. Rearranges(p, size)
  BY DEF size
<1>4. Integral(w, size)
  BY <1>1, <1>3, RearrangedIntegral
<1>5. Total(w, size) = Total(Weights(s), size)
  BY <1>1, <1>3, TotalRearranged
<1> HIDE DEF w
<1>6. Total(Weights(t), size) = Total(w, size)
  BY <1>1, <1>2, <1>4, TotalSame
<1> QED
  BY <1>5, <1>6 DEF Norm, size

LEMMA HalfTurnNorm ==
  ASSUME NEW n \in Nat, NEW s, IsState(s, n), NEW q
  PROVE  Norm(HalfTurn(s, q), n) = Norm(s, n)
<1> DEFINE size == TwoTo(n)  t == HalfTurn(s, q)
<1>1. size \in Nat /\ IsState(t, n) /\ Integral(Weights(s), size)
  BY TwoToPositive, HalfTurnIs, WeightsAre DEF Gives
<1>2. ASSUME NEW i \in 0 .. size - 1 PROVE Weights(t)[i] = Weights(s)[i]
  <2> DEFINE x == s.amps[i]
  <2>1. x.re \in Int /\ x.im \in Int
    BY StateParts
  <2>2. t.amps[i] = IF Bit(i, q) = 0 THEN Amp(x.im, -x.re) ELSE Amp(-x.im, x.re)
    BY HalfTurnIs DEF Gives
  <2>3. Weights(s)[i] = x.re * x.re + x.im * x.im
    BY WeightsAre
  <2>4. Weights(t)[i] = t.amps[i].re * t.amps[i].re + t.amps[i].im * t.amps[i].im
    BY <1>1, WeightsAre
  <2> HIDE DEF t, x
  <2>5. \/ t.amps[i].re = x.im /\ t.amps[i].im = -x.re
        \/ t.amps[i].re = -x.im /\ t.amps[i].im = x.re
    BY <2>1, <2>2, AmpIs
  <2>6. \A a, b \in Int : b * b + (-a) * (-a) = a * a + b * b /\ (-b) * (-b) + a * a = a * a + b * b
    OBVIOUS
  <2> QED
    BY <2>1, <2>3, <2>4, <2>5, <2>6
<1> HIDE DEF size, t
<1>3. Total(Weights(t), size) = Total(Weights(s), size)
  BY <1>1, <1>2, TotalSame
<1> QED
  BY <1>3 DEF Norm, size, t

\* A state whose probabilities sum up to one.
IsUnit(s, n) == IsState(s, n) /\ Norm(s, n) = TwoTo(s.halvings)

LEMMA GateKeepsUnit ==
  ASSUME NEW n \in Nat, NEW s, IsUnit(s, n), NEW gate, Acts(gate, n)
  PROVE  /\ IsUnit(AppliedGate(s, gate), n)
         /\ AppliedGate(s, gate).halvings
              = IF gate[1] = "H" THEN s.halvings + 1 ELSE s.halvings
<1> DEFINE t == AppliedGate(s, gate)
<1>1. IsState(s, n) /\ Norm(s, n) = TwoTo(s.halvings) /\ s.halvings \in Nat
  BY StateParts DEF IsUnit
<1>2. CASE gate[1] = "H"
  <2>1. gate[2] \in 0 .. n - 1 /\ t = Hadamard(s, gate[2])
    BY <1>2 DEF Acts, AppliedGate
  <2>2. IsState(t, n) /\ t.halvings = s.halvings + 1
    BY <1>1, <2>1, HadamardIs DEF Gives
  <2>3. Norm(t, n) = 2 * Norm(s, n)
    BY <1>1, <2>1, HadamardNorm
  <2>4. TwoTo(s.halvings + 1) = 2 * TwoTo(s.halvings)
    BY <1>1, TwoToNext
  <2> QED
    BY <1>1, <1>2, <2>2, <2>3, <2>4 DEF IsUnit
<1>3. CASE gate[1] = "X"
  <2>1. gate[2] \in 0 .. n - 1 /\ t = NotGate(s, gate[2])
    BY <1>3 DEF Acts, AppliedGate
  <2>2. Gives(t, n, [i \in 0 .. TwoTo(n) - 1 |-> s.amps[Flipping(n, gate[2])[i]]], s.halvings)
    BY <1>1, <2>1, NotGateIs
  <2>3. Norm(t, n) = Norm(s, n)
    BY <1>1, <2>1, <2>2, MovedNorm, FlippingRearranges
  <2> QED
    BY <1>1, <1>3, <2>2, <2>3 DEF IsUnit, Gives
<1>4. CASE gate[1] = "CNOT"
  <2>1. gate[3] \in 0 .. n - 1 /\ t = ControlledNot(s, gate[2], gate[3])
    BY <1>4 DEF Acts, AppliedGate
  <2>2. Gives(t, n, [i \in 0 .. TwoTo(n) - 1 |-> s.amps[Swapping(n, gate[2], gate[3])[i]]],
              s.halvings)
    BY <1>1, <2>1, ControlledNotIs
  <2>3. Norm(t, n) = Norm(s, n)
    BY <1>1, <2>1, <2>2, MovedNorm, SwappingIs
  <2> QED
    BY <1>1, <1>4, <2>2, <2>3 DEF IsUnit, Gives
<1>5. CASE gate[1] = "Rz"
  <2>1. t = HalfTurn(s, gate[2])
    BY <1>5 DEF AppliedGate
  <2>2. IsState(t, n) /\ t.halvings = s.halvings /\ Norm(t, n) = Norm(s, n)
    BY <1>1, <2>1, HalfTurnIs, HalfTurnNorm DEF Gives
  <2> QED
    BY <1>1, <1>5, <2>2 DEF IsUnit
<1>6. CASE gate[1] \notin {"H", "X", "CNOT", "Rz"}
  <2>1. t = s
    BY <1>6 DEF AppliedGate
  <2> QED
    BY <1>6, <2>1
<1> QED
  BY <1>2, <1>3, <1>4, <1>5, <1>6

-----------------------------------------------------------------------------
(***************************************************************************)
(* Undoing.  What a circuit has made of the ground state, its gates undone *)
(* from the last to the first make back of it, up to a factor that the     *)
(* halvings account for.                                                   *)
(***************************************************************************)
\* x is s, all its amplitudes multiplied by c.
Scaled(x, s, c, n) ==
  \A i \in 0 .. TwoTo(n) - 1 : /\ x.amps[i].re = c * s.amps[i].re
                               /\ x.amps[i].im = c * s.amps[i].im

LEMMA SumAndDifference ==
  \A c, a, b \in Int : /\ c * (a + b) + c * (a - b) = (2 * c) * a
                       /\ c * (a + b) - c * (a - b) = (2 * c) * b
OBVIOUS

LEMMA HadamardUndone ==
  ASSUME NEW n \in Nat, NEW s, IsState(s, n), NEW x, IsState(x, n), NEW c \in Int,
         NEW q \in 0 .. n - 1, Scaled(x, Hadamard(s, q), c, n)
  PROVE  Scaled(Hadamard(x, q), s, 2 * c, n)
<1> DEFINE I == 0 .. TwoTo(n) - 1  h == Hadamard(s, q)  y == Hadamard(x, q)
<1> SUFFICES ASSUME NEW i \in I
             PROVE  /\ y.amps[i].re = (2 * c) * s.amps[i].re
                    /\ y.amps[i].im = (2 * c) * s.amps[i].im
  BY DEF Scaled
<1> DEFINE j == Flipped(i, q)
<1>1. /\ Bit(i, q) \in {0, 1} /\ j \in I /\ Bit(j, q) = 1 - Bit(i, q) /\ Flipped(j, q) = i
  BY FlipFacts DEF Flips
<1> HIDE DEF j
<1>2. /\ h.amps[i] = IF Bit(i, q) = 0 THEN Plus(s.amps[i], s.amps[j])
                     ELSE Minus(s.amps[j], s.amps[i])
      /\ y.amps[i] = IF Bit(i, q) = 0 THEN Plus(x.amps[i], x.amps[j])
                     ELSE Minus(x.amps[j], x.amps[i])
  BY HadamardIs DEF Gives, j
<1>3. /\ h.amps[j] = IF Bit(j, q) = 0 THEN Plus(s.amps[j], s.amps[i])
                     ELSE Minus(s.amps[i], s.amps[j])
  BY <1>1, HadamardIs DEF Gives
<1>4. /\ s.amps[i].re \in Int /\ s.amps[i].im \in Int
      /\ s.amps[j].re \in Int /\ s.amps[j].im \in Int
      /\ x.amps[i].re \in Int /\ x.amps[i].im \in Int
      /\ x.amps[j].re \in Int /\ x.amps[j].im \in Int
  BY <1>1, StateParts
<1>5. /\ x.amps[i].re = c * h.amps[i].re /\ x.amps[i].im = c * h.amps[i].im
      /\ x.amps[j].re = c * h.amps[j].re /\ x.amps[j].im = c * h.amps[j].im
  BY <1>1 DEF Scaled
<1>6. \A a, b : /\ Plus(a, b).re = a.re + b.re /\ Plus(a, b).im = a.im + b.im
                /\ Minus(a, b).re = a.re - b.re /\ Minus(a, b).im = a.im - b.im
  BY DEF Plus, Minus, Amp
<1> HIDE DEF h, y, I
<1>7. CASE Bit(i, q) = 0
  <2>1. Bit(j, q) # 0
    BY <1>1, <1>7
  <2>2. /\ h.amps[i].re = s.amps[i].re + s.amps[j].re
        /\ h.amps[j].re = s.amps[i].re - s.amps[j].re
        /\ h.amps[i].im = s.amps[i].im + s.amps[j].im
        /\ h.amps[j].im = s.amps[i].im - s.amps[j].im
    BY <1>2, <1>3, <1>6, <1>7, <2>1
  <2>3. /\ y.amps[i].re = x.amps[i].re + x.amps[j].re
        /\ y.amps[i].im = x.amps[i].im + x.amps[j].im
    BY <1>2, <1>6, <1>7
  <2> QED
    BY <1>4, <1>5, <2>2, <2>3, SumAndDifference
<1>8. CASE Bit(i, q) = 1
  <2>1. Bit(j, q) = 0 /\ Bit(i, q) # 0
    BY <1>1, <1>8
  <2>2. /\ h.amps[j].re = s.amps[j].re + s.amps[i].re
        /\ h.amps[i].re = s.amps[j].re - s.amps[i].re
        /\ h.amps[j].im = s.amps[j].im + s.amps[i].im
        /\ h.amps[i].im = s.amps[j].im - s.amps[i].im
    BY <1>2, <1>3, <1>6, <2>1
  <2>3. /\ y.amps[i].re = x.amps[j].re - x.amps[i].re
        /\ y.amps[i].im = x.amps[j].im - x.amps[i].im
    BY <1>2, <1>6, <2>1
  <2> QED
    BY <1>4, <1>5, <2>2, <2>3, SumAndDifference
<1> QED
  BY <1>1, <1>7, <1>8

\* Amplitudes that change places, and change them again.
LEMMA MovedUndone ==
  ASSUME NEW n \in Nat, NEW s, NEW x, NEW c \in Int, NEW t, NEW y, NEW k, NEW l,
         NEW p, Rearranges(p, TwoTo(n)), \A i \in 0 .. TwoTo(n) - 1 : p[p[i]] = i,
         Gives(t, n, [i \in 0 .. TwoTo(n) - 1 |-> s.amps[p[i]]], k),
         Gives(y, n, [i \in 0 .. TwoTo(n) - 1 |-> x.amps[p[i]]], l),
         Scaled(x, t, c, n)
  PROVE  Scaled(y, s, c, n)
<1> DEFINE I == 0 .. TwoTo(n) - 1
<1>1. ASSUME NEW i \in I
      PROVE  /\ p[i] \in I /\ p[p[i]] = i
             /\ t.amps[i] = s.amps[p[i]] /\ y.amps[i] = x.amps[p[i]]
             /\ x.amps[i].re = c * t.amps[i].re /\ x.amps[i].im = c * t.amps[i].im
  BY DEF Rearranges, Gives, Scaled
<1> HIDE DEF I
<1>2. ASSUME NEW i \in I
      PROVE  y.amps[i].re = c * s.amps[i].re /\ y.amps[i].im = c * s.amps[i].im
  <2>1. PICK j \in I : j = p[i] /\ p[j] = i
    BY <1>1
  <2>2. y.amps[i] = x.amps[j] /\ t.amps[j] = s.amps[i]
    BY <1>1, <2>1
  <2>3. x.amps[j].re = c * t.amps[j].re /\ x.amps[j].im = c * t.amps[j].im
    BY <1>1
  <2> QED
    BY <2>2, <2>3, Zenon
<1> QED
  BY <1>2 DEF Scaled, I

\* Half a turn four times is none.
LEMMA HalfTurnScaled ==
  ASSUME NEW n \in Nat, NEW s, IsState(s, n), NEW x, IsState(x, n), NEW c \in Int, NEW q,
         Scaled(x, s, c, n)
  PROVE  Scaled(HalfTurn(x, q), HalfTurn(s, q), c, n)
<1> DEFINE I == 0 .. TwoTo(n) - 1
<1> SUFFICES ASSUME NEW i \in I
             PROVE  /\ HalfTurn(x, q).amps[i].re = c * HalfTurn(s, q).amps[i].re
                    /\ HalfTurn(x, q).amps[i].im = c * HalfTurn(s, q).amps[i].im
  BY DEF Scaled
<1> DEFINE a == s.amps[i]  b == x.amps[i]
<1>1. /\ HalfTurn(s, q).amps[i] = IF Bit(i, q) = 0 THEN Amp(a.im, -a.re) ELSE Amp(-a.im, a.re)
      /\ HalfTurn(x, q).amps[i] = IF Bit(i, q) = 0 THEN Amp(b.im, -b.re) ELSE Amp(-b.im, b.re)
  BY HalfTurnIs DEF Gives
<1>2. a.re \in Int /\ a.im \in Int /\ b.re = c * a.re /\ b.im = c * a.im
  BY StateParts DEF Scaled
<1> HIDE DEF a, b
<1>3. \A d \in Int : -(c * d) = c * (-d)
  OBVIOUS
<1> QED
  BY <1>1, <1>2, <1>3 DEF Amp

LEMMA FourHalfTurns ==
  ASSUME NEW n \in Nat, NEW s, IsState(s, n), NEW q
  PROVE  LET t == HalfTurn(HalfTurn(HalfTurn(HalfTurn(s, q), q), q), q)
         IN  IsState(t, n) /\ t.halvings = s.halvings /\ Scaled(t, s, 1, n)
<1> DEFINE I == 0 .. TwoTo(n) - 1
           t1 == HalfTurn(s, q)  t2 == HalfTurn(t1, q)  t3 == HalfTurn(t2, q)
           t4 == HalfTurn(t3, q)
<1>1. IsState(t1, n) /\ t1.halvings = s.halvings
  BY HalfTurnIs DEF Gives
<1>2. \A i \in I : t1.amps[i] = IF Bit(i, q) = 0 THEN Amp(s.amps[i].im, -s.amps[i].re)
                                ELSE Amp(-s.amps[i].im, s.amps[i].re)
  BY HalfTurnIs DEF Gives
<1> HIDE DEF t1
<1>3. IsState(t2, n) /\ t2.halvings = s.halvings
  BY <1>1, HalfTurnIs DEF Gives
<1>4. \A i \in I : t2.amps[i] = IF Bit(i, q) = 0 THEN Amp(t1.amps[i].im, -t1.amps[i].re)
                                ELSE Amp(-t1.amps[i].im, t1.amps[i].re)
  BY <1>1, HalfTurnIs DEF Gives
<1> HIDE DEF t2
<1>5. IsState(t3, n) /\ t3.halvings = s.halvings
  BY <1>3, HalfTurnIs DEF Gives
<1>6. \A i \in I : t3.amps[i] = IF Bit(i, q) = 0 THEN Amp(t2.amps[i].im, -t2.amps[i].re)
                                ELSE Amp(-t2.amps[i].im, t2.amps[i].re)
  BY <1>3, HalfTurnIs DEF Gives
<1> HIDE DEF t3
<1>7. IsState(t4, n) /\ t4.halvings = s.halvings
  BY <1>5, HalfTurnIs DEF Gives
<1>8. \A i \in I : t4.amps[i] = IF Bit(i, q) = 0 THEN Amp(t3.amps[i].im, -t3.amps[i].re)
                                ELSE Amp(-t3.amps[i].im, t3.amps[i].re)
  BY <1>5, HalfTurnIs DEF Gives
<1> HIDE DEF t4
<1>9. ASSUME NEW i \in I
      PROVE  t4.amps[i].re = 1 * s.amps[i].re /\ t4.amps[i].im = 1 * s.amps[i].im
  <2>1. s.amps[i].re \in Int /\ s.amps[i].im \in Int
    BY StateParts
  <2>2. \A d \in Int : -(-d) = d /\ 1 * d = d
    OBVIOUS
  <2>3. \A a, b : Amp(a, b).re = a /\ Amp(a, b).im = b
    BY DEF Amp
  <2> HIDE DEF I
  <2>4. CASE Bit(i, q) = 0
    <3>1. t2.amps[i].re = -s.amps[i].re /\ t2.amps[i].im = -s.amps[i].im
      BY <1>2, <1>4, <2>3, <2>4
    <3>2. t4.amps[i].re = -t2.amps[i].re /\ t4.amps[i].im = -t2.amps[i].im
      BY <1>6, <1>8, <2>3, <2>4
    <3> QED
      BY <2>1, <2>2, <3>1, <3>2
  <2>5. CASE Bit(i, q) # 0
    <3>1. t2.amps[i].re = -s.amps[i].re /\ t2.amps[i].im = -s.amps[i].im
      BY <1>2, <1>4, <2>3, <2>5
    <3>2. t4.amps[i].re = -t2.amps[i].re /\ t4.amps[i].im = -t2.amps[i].im
      BY <1>6, <1>8, <2>3, <2>5
    <3> QED
      BY <2>1, <2>2, <3>1, <3>2
  <2> QED
    BY <2>4, <2>5
<1>10. Scaled(t4, s, 1, n)
  BY <1>9 DEF Scaled, I
<1> QED
  BY <1>7, <1>10 DEF t1, t2, t3, t4

LEMMA GateUndone ==
  ASSUME NEW n \in Nat, NEW s, IsState(s, n), NEW x, IsState(x, n), NEW c \in Int,
         NEW gate, Acts(gate, n), Scaled(x, AppliedGate(s, gate), c, n)
  PROVE  LET y == UndoneGate(x, gate) IN
         /\ IsState(y, n)
         /\ gate[1] = "H" => y.halvings = x.halvings + 1 /\ Scaled(y, s, 2 * c, n)
         /\ gate[1] # "H" => y.halvings = x.halvings /\ Scaled(y, s, c, n)
<1> DEFINE t == AppliedGate(s, gate)  y == UndoneGate(x, gate)
<1>1. CASE gate[1] = "H"
  <2>1. /\ gate[2] \in 0 .. n - 1 /\ t = Hadamard(s, gate[2])
        /\ y = Hadamard(x, gate[2])
    BY <1>1 DEF Acts, AppliedGate, UndoneGate
  <2>2. IsState(y, n) /\ y.halvings = x.halvings + 1
    BY <2>1, HadamardIs DEF Gives
  <2>3. Scaled(y, s, 2 * c, n)
    BY <2>1, HadamardUndone
  <2> QED
    BY <1>1, <2>2, <2>3
<1>2. CASE gate[1] = "X"
  <2> DEFINE p == Flipping(n, gate[2])
  <2>1. gate[2] \in 0 .. n - 1 /\ t = NotGate(s, gate[2]) /\ y = NotGate(x, gate[2])
    BY <1>2 DEF Acts, AppliedGate, UndoneGate
  <2>2. /\ Gives(t, n, [i \in 0 .. TwoTo(n) - 1 |-> s.amps[p[i]]], s.halvings)
        /\ Gives(y, n, [i \in 0 .. TwoTo(n) - 1 |-> x.amps[p[i]]], x.halvings)
    BY <2>1, NotGateIs
  <2>3. Rearranges(p, TwoTo(n)) /\ \A i \in 0 .. TwoTo(n) - 1 : p[p[i]] = i
    <3>1. \A i \in 0 .. TwoTo(n) - 1 : p[i] = Flipped(i, gate[2])
      BY DEF Flipping
    <3>2. \A i \in 0 .. TwoTo(n) - 1 : /\ Flipped(i, gate[2]) \in 0 .. TwoTo(n) - 1
                                       /\ Flipped(Flipped(i, gate[2]), gate[2]) = i
      BY <2>1, FlipFacts DEF Flips
    <3>3. Rearranges(p, TwoTo(n))
      BY <2>1, FlippingRearranges
    <3> HIDE DEF p
    <3> QED
      BY <3>1, <3>2, <3>3
  <2> HIDE DEF p, t, y
  <2>4. Scaled(x, t, c, n)
    BY DEF t
  <2>5. Scaled(y, s, c, n)
    BY <2>2, <2>3, <2>4, MovedUndone
  <2>6. IsState(y, n) /\ y.halvings = x.halvings
    BY <2>2 DEF Gives
  <2> QED
    BY <1>2, <2>5, <2>6 DEF y
<1>3. CASE gate[1] = "CNOT"
  <2> DEFINE p == Swapping(n, gate[2], gate[3])
  <2>1. /\ gate[3] \in 0 .. n - 1 /\ t = ControlledNot(s, gate[2], gate[3])
        /\ y = ControlledNot(x, gate[2], gate[3])
    BY <1>3 DEF Acts, AppliedGate, UndoneGate
  <2>2. /\ Gives(t, n, [i \in 0 .. TwoTo(n) - 1 |-> s.amps[p[i]]], s.halvings)
        /\ Gives(y, n, [i \in 0 .. TwoTo(n) - 1 |-> x.amps[p[i]]], x.halvings)
    BY <2>1, ControlledNotIs
  <2>3. Rearranges(p, TwoTo(n)) /\ \A i \in 0 .. TwoTo(n) - 1 : p[p[i]] = i
    BY <2>1, SwappingIs
  <2> HIDE DEF p, t, y
  <2>4. Scaled(x, t, c, n)
    BY DEF t
  <2>5. Scaled(y, s, c, n)
    BY <2>2, <2>3, <2>4, MovedUndone
  <2>6. IsState(y, n) /\ y.halvings = x.halvings
    BY <2>2 DEF Gives
  <2> QED
    BY <1>3, <2>5, <2>6 DEF y
<1>4. CASE gate[1] = "Rz"
  <2> DEFINE q == gate[2]  x1 == HalfTurn(x, q)  x2 == HalfTurn(x1, q)  x3 == HalfTurn(x2, q)
             s1 == HalfTurn(s, q)  s2 == HalfTurn(s1, q)  s3 == HalfTurn(s2, q)
             s4 == HalfTurn(s3, q)
  <2>1. t = s1 /\ y = x3
    BY <1>4 DEF AppliedGate, UndoneGate
  <2>2. IsState(s4, n) /\ Scaled(s4, s, 1, n)
    BY FourHalfTurns
  <2>3. IsState(s1, n)
    BY HalfTurnIs DEF Gives
  <2>4. Scaled(x, s1, c, n)
    BY <2>1
  <2> HIDE DEF s1
  <2>5. IsState(s2, n) /\ IsState(x1, n) /\ x1.halvings = x.halvings
    BY <2>3, HalfTurnIs DEF Gives
  <2>6. Scaled(x1, s2, c, n)
    BY <2>3, <2>4, HalfTurnScaled
  <2> HIDE DEF s2, x1
  <2>7. IsState(s3, n) /\ IsState(x2, n) /\ x2.halvings = x.halvings
    BY <2>5, HalfTurnIs DEF Gives
  <2>8. Scaled(x2, s3, c, n)
    BY <2>5, <2>6, HalfTurnScaled
  <2> HIDE DEF s3, x2
  <2>9. IsState(x3, n) /\ x3.halvings = x.halvings
    BY <2>7, HalfTurnIs DEF Gives
  <2>10. Scaled(x3, s4, c, n)
    BY <2>7, <2>8, HalfTurnScaled
  <2> HIDE DEF s4, x3
  <2>11. ASSUME NEW i \in 0 .. TwoTo(n) - 1
         PROVE  x3.amps[i].re = c * s.amps[i].re /\ x3.amps[i].im = c * s.amps[i].im
    <3>1. s.amps[i].re \in Int /\ s.amps[i].im \in Int
      BY StateParts
    <3>2. s4.amps[i].re = s.amps[i].re /\ s4.amps[i].im = s.amps[i].im
      BY <2>2, <3>1 DEF Scaled
    <3>3. x3.amps[i].re = c * s4.amps[i].re /\ x3.amps[i].im = c * s4.amps[i].im
      BY <2>10 DEF Scaled
    <3> QED
      BY <3>2, <3>3
  <2>12. Scaled(x3, s, c, n)
    BY <2>11 DEF Scaled
  <2> QED
    BY <1>4, <2>1, <2>9, <2>12
<1>5. CASE gate[1] \notin {"H", "X", "CNOT", "Rz"}
  <2>1. t = s /\ y = x
    BY <1>5 DEF AppliedGate, UndoneGate
  <2> QED
    BY <1>5, <2>1
<1> QED
  BY <1>1, <1>2, <1>3, <1>4, <1>5

-----------------------------------------------------------------------------
(***************************************************************************)
(* Circuits: the states of an evolution, and of its undoing.               *)
(***************************************************************************)
States(n) == [amps : [0 .. TwoTo(n) - 1 -> Complex], halvings : Nat]

LEMMA GroundIs ==
  ASSUME NEW n \in Nat
  PROVE  /\ IsUnit(Ground(n), n) /\ Ground(n).halvings = 0
         /\ Ground(n).amps[0].re = 1 /\ Ground(n).amps[0].im = 0
<1> DEFINE s == Ground(n)  size == TwoTo(n)
           f == [i \in 0 .. size - 1 |-> IF i = 0 THEN Amp(1, 0) ELSE Amp(0, 0)]
<1>1. size \in Nat \ {0}
  BY TwoToPositive
<1>2. Amp(1, 0) \in Complex /\ Amp(0, 0) \in Complex
  BY AmpIs
<1>3. s = [amps |-> f, halvings |-> 0] /\ f \in [0 .. size - 1 -> Complex]
  BY <1>2 DEF Ground
<1>4. \A i \in 0 .. size - 1 : s.amps[i] = IF i = 0 THEN Amp(1, 0) ELSE Amp(0, 0)
  BY <1>3
<1> HIDE DEF s, size, f
<1>5. IsState(s, n) /\ s.halvings = 0
  BY <1>3 DEF IsState, size
<1>6. s.amps[0].re = 1 /\ s.amps[0].im = 0
  <2>1. 0 \in 0 .. size - 1
    BY <1>1
  <2> QED
    BY <1>4, <2>1 DEF Amp
<1> DEFINE w == Weights(s)
<1>7. Integral(w, size) /\ \A i \in 0 .. size - 1 : w[i] = IF i = 0 THEN 1 ELSE 0
  <2>1. Integral(w, size)
    BY <1>5, WeightsAre DEF size
  <2>2. \A i \in 0 .. size - 1 : w[i] = MagnitudeSq(s.amps[i])
    BY <1>5, WeightsAre DEF size
  <2>3. MagnitudeSq(Amp(1, 0)) = 1 /\ MagnitudeSq(Amp(0, 0)) = 0
    BY DEF MagnitudeSq, Amp
  <2> QED
    BY <1>4, <2>1, <2>2, <2>3
<1> HIDE DEF w
<1> DEFINE good == {i \in 0 .. size : Total(w, i) = IF i = 0 THEN 0 ELSE 1}
<1>8. 0 \in good
  BY <1>1, TotalNone
<1>9. ASSUME NEW i \in 1 .. size, i - 1 \in good PROVE i \in good
  <2>1. Total(w, (i - 1) + 1) = Total(w, i - 1) + w[i - 1]
    BY <1>1, <1>7, TotalNext DEF Integral
  <2>2. w[i - 1] = IF i - 1 = 0 THEN 1 ELSE 0
    BY <1>1, <1>7
  <2> QED
    BY <1>1, <1>9, <2>1, <2>2
<1> HIDE DEF good
<1>10. size \in good
  BY <1>1, <1>8, <1>9, InductUpTo
<1>11. Total(w, size) = 1
  BY <1>1, <1>10 DEF good
<1>12. Norm(s, n) = TwoTo(s.halvings)
  BY <1>5, <1>11, TwoToZero DEF Norm, w, size
<1> QED
  BY <1>5, <1>6, <1>12 DEF IsUnit, s

\* f is the evolution: f[0] the ground state, and f[k] what gate k makes of f[k - 1].
Evolves(f, n, gates) ==
  /\ f[0] = Ground(n)
  /\ \A k \in 1 .. Len(gates) : f[k] = AppliedGate(f[k - 1], gates[k])
  /\ \A k \in 0 .. Len(gates) : IsUnit(f[k], n)

ActsOn(gates, n) ==
  Len(gates) \in Nat /\ \A k \in 1 .. Len(gates) : Acts(gates[k], n)

LEMMA GateKeepsState ==
  ASSUME NEW n \in Nat, NEW gate, Acts(gate, n)
  PROVE  /\ \A s \in States(n) : AppliedGate(s, gate) \in States(n)
         /\ \A s \in States(n) : UndoneGate(s, gate) \in States(n)
<1> SUFFICES ASSUME NEW s \in States(n)
             PROVE  AppliedGate(s, gate) \in States(n) /\ UndoneGate(s, gate) \in States(n)
  OBVIOUS
<1>1. IsState(s, n)
  BY DEF States, IsState
<1>2. \A t : IsState(t, n) => t \in States(n)
  BY DEF States, IsState
<1>3. IsState(AppliedGate(s, gate), n)
  <2>1. CASE gate[1] = "H"
    BY <1>1, <2>1, HadamardIs DEF Acts, AppliedGate, Gives
  <2>2. CASE gate[1] = "X"
    BY <1>1, <2>2, NotGateIs DEF Acts, AppliedGate, Gives
  <2>3. CASE gate[1] = "CNOT"
    BY <1>1, <2>3, ControlledNotIs DEF Acts, AppliedGate, Gives
  <2>4. CASE gate[1] = "Rz"
    BY <1>1, <2>4, HalfTurnIs DEF Acts, AppliedGate, Gives
  <2>5. CASE gate[1] \notin {"H", "X", "CNOT", "Rz"}
    BY <1>1, <2>5 DEF AppliedGate
  <2> QED
    BY <2>1, <2>2, <2>3, <2>4, <2>5
<1>4. IsState(UndoneGate(s, gate), n)
  <2>1. CASE gate[1] = "Rz"
    <3>1. \A t : IsState(t, n) => IsState(HalfTurn(t, gate[2]), n)
      BY HalfTurnIs DEF Gives
    <3> QED
      BY <1>1, <2>1, <3>1 DEF UndoneGate
  <2>2. CASE gate[1] # "Rz"
    BY <1>3, <2>2 DEF UndoneGate
  <2> QED
    BY <2>1, <2>2
<1> QED
  BY <1>2, <1>3, <1>4

LEMMA EvolvedUnfolds ==
  ASSUME NEW n \in Nat, NEW gates, ActsOn(gates, n)
  PROVE  \E f : Evolves(f, n, gates) /\ Evolved(n, gates) = f[Len(gates)]
<1> DEFINE m == Len(gates)
           S == States(n)
           step == [x \in (1 .. m) \X S |-> AppliedGate(x[2], gates[x[1]])]
           Def(f) == f = [k \in 0 .. m |-> IF k = 0 THEN Ground(n)
                                           ELSE AppliedGate(f[k - 1], gates[k])]
<1>1. m \in Nat /\ \A k \in 1 .. m : Acts(gates[k], n)
  BY DEF ActsOn
<1>2. \A k \in 1 .. m : \A s \in S : AppliedGate(s, gates[k]) \in S
  BY <1>1, GateKeepsState
<1>3. Ground(n) \in S
  BY GroundIs DEF IsUnit, IsState, States
<1> HIDE DEF m, S
<1>4. PICK f : IsIterate(f, S, Ground(n), m, step)
  <2>1. step \in [(1 .. m) \X S -> S]
    BY <1>2
  <2> HIDE DEF step
  <2> QED
    BY <1>1, <1>3, <2>1, Iterates
<1>5. ASSUME NEW k \in 1 .. m PROVE f[k] = AppliedGate(f[k - 1], gates[k])
  <2>1. k - 1 \in 0 .. m
    BY <1>1
  <2>2. << k, f[k - 1] >> \in (1 .. m) \X S
    BY <1>4, <2>1 DEF IsIterate
  <2>3. f[k] = step[<< k, f[k - 1] >>]
    BY <1>4 DEF IsIterate
  <2> QED
    BY <2>2, <2>3
<1> HIDE DEF step
<1>6. Def(f)
  <2>1. \A k \in 0 .. m : f[k] = IF k = 0 THEN Ground(n) ELSE AppliedGate(f[k - 1], gates[k])
    <3> SUFFICES ASSUME NEW k \in 0 .. m
                 PROVE  f[k] = IF k = 0 THEN Ground(n) ELSE AppliedGate(f[k - 1], gates[k])
      OBVIOUS
    <3>1. CASE k = 0
      BY <1>4, <3>1 DEF IsIterate
    <3>2. CASE k # 0
      <4>1. k \in 1 .. m
        BY <1>1, <3>2
      <4> QED
        BY <1>5, <3>2, <4>1
    <3> QED
      BY <3>1, <3>2
  <2>2. f \in [0 .. m -> S]
    BY <1>4 DEF IsIterate
  <2> QED
    BY <2>1, <2>2
<1> DEFINE g == CHOOSE h : Def(h)
<1>7. Def(g)
  BY <1>6
<1>8. Evolved(n, gates) = g[m]
  BY DEF Evolved, m
<1> HIDE DEF g
<1>9. g[0] = Ground(n) /\ \A k \in 1 .. m : g[k] = AppliedGate(g[k - 1], gates[k])
  <2>1. g = [k \in 0 .. m |-> IF k = 0 THEN Ground(n) ELSE AppliedGate(g[k - 1], gates[k])]
    BY <1>7
  <2>2. \A k \in 0 .. m : g[k] = IF k = 0 THEN Ground(n) ELSE AppliedGate(g[k - 1], gates[k])
    BY <2>1, Zenon
  <2>3. 0 \in 0 .. m /\ \A k \in 1 .. m : k \in 0 .. m /\ k # 0
    BY <1>1
  <2> QED
    BY <2>2, <2>3
<1> DEFINE unit == {k \in 0 .. m : IsUnit(g[k], n)}
<1>10. 0 \in unit
  BY <1>1, <1>9, GroundIs
<1>11. ASSUME NEW k \in 1 .. m, k - 1 \in unit PROVE k \in unit
  <2>1. IsUnit(g[k - 1], n) /\ Acts(gates[k], n) /\ k \in 0 .. m
    BY <1>1, <1>11
  <2>2. IsUnit(AppliedGate(g[k - 1], gates[k]), n)
    BY <2>1, GateKeepsUnit
  <2> QED
    BY <1>9, <2>1, <2>2
<1> HIDE DEF unit
<1>12. \A k \in 0 .. m : k \in unit
  BY <1>1, <1>10, <1>11, InductUpTo
<1>13. Evolves(g, n, gates)
  BY <1>9, <1>12 DEF Evolves, unit, m
<1> QED
  BY <1>8, <1>13 DEF m

\* The undoing of s, step by step.
Unwinds(f, s, gates, n) ==
  /\ f[0] = s
  /\ \A k \in 1 .. Len(gates) : f[k] = UndoneGate(f[k - 1], gates[Len(gates) + 1 - k])

LEMMA UndoneUnfolds ==
  ASSUME NEW n \in Nat, NEW gates, ActsOn(gates, n), NEW s \in States(n)
  PROVE  \E f : Unwinds(f, s, gates, n) /\ Undone(s, gates) = f[Len(gates)]
<1> DEFINE m == Len(gates)
           S == States(n)
           step == [x \in (1 .. m) \X S |-> UndoneGate(x[2], gates[m + 1 - x[1]])]
           Def(f) == f = [k \in 0 .. m |-> IF k = 0 THEN s
                                           ELSE UndoneGate(f[k - 1], gates[m + 1 - k])]
<1>1. m \in Nat /\ \A k \in 1 .. m : m + 1 - k \in 1 .. m /\ Acts(gates[m + 1 - k], n)
  BY DEF ActsOn
<1>2. \A k \in 1 .. m : \A t \in S : UndoneGate(t, gates[m + 1 - k]) \in S
  BY <1>1, GateKeepsState
<1> HIDE DEF m, S
<1>3. s \in S
  BY DEF S
<1>4. PICK f : IsIterate(f, S, s, m, step)
  <2>1. step \in [(1 .. m) \X S -> S]
    BY <1>2
  <2> HIDE DEF step
  <2> QED
    BY <1>1, <1>3, <2>1, Iterates
<1>5. ASSUME NEW k \in 1 .. m PROVE f[k] = UndoneGate(f[k - 1], gates[m + 1 - k])
  <2>1. k - 1 \in 0 .. m
    BY <1>1
  <2>2. << k, f[k - 1] >> \in (1 .. m) \X S
    BY <1>4, <2>1 DEF IsIterate
  <2>3. f[k] = step[<< k, f[k - 1] >>]
    BY <1>4 DEF IsIterate
  <2> QED
    BY <2>2, <2>3
<1> HIDE DEF step
<1>6. Def(f)
  <2>1. \A k \in 0 .. m : f[k] = IF k = 0 THEN s ELSE UndoneGate(f[k - 1], gates[m + 1 - k])
    <3> SUFFICES ASSUME NEW k \in 0 .. m
                 PROVE  f[k] = IF k = 0 THEN s ELSE UndoneGate(f[k - 1], gates[m + 1 - k])
      OBVIOUS
    <3>1. CASE k = 0
      BY <1>4, <3>1 DEF IsIterate
    <3>2. CASE k # 0
      <4>1. k \in 1 .. m
        BY <1>1, <3>2
      <4> QED
        BY <1>5, <3>2, <4>1
    <3> QED
      BY <3>1, <3>2
  <2>2. f \in [0 .. m -> S]
    BY <1>4 DEF IsIterate
  <2> QED
    BY <2>1, <2>2
<1> DEFINE g == CHOOSE h : Def(h)
<1>7. Def(g)
  BY <1>6
<1>8. Undone(s, gates) = g[m]
  BY DEF Undone, m
<1> HIDE DEF g
<1>9. g[0] = s /\ \A k \in 1 .. m : g[k] = UndoneGate(g[k - 1], gates[m + 1 - k])
  <2>1. g = [k \in 0 .. m |-> IF k = 0 THEN s ELSE UndoneGate(g[k - 1], gates[m + 1 - k])]
    BY <1>7
  <2>2. \A k \in 0 .. m : g[k] = IF k = 0 THEN s ELSE UndoneGate(g[k - 1], gates[m + 1 - k])
    BY <2>1, Zenon
  <2>3. 0 \in 0 .. m /\ \A k \in 1 .. m : k \in 0 .. m /\ k # 0
    BY <1>1
  <2> QED
    BY <2>2, <2>3
<1>10. Unwinds(g, s, gates, n)
  BY <1>9 DEF Unwinds, m
<1> QED
  BY <1>8, <1>10 DEF m

\* After k gates undone, e of them Hadamards: 2^e times the state before them.
IsUnwound(x, s, last, n) ==
  /\ IsState(x, n)
  /\ \E e \in Nat : /\ x.halvings = last.halvings + e
                    /\ s.halvings + e = last.halvings
                    /\ Scaled(x, s, TwoTo(e), n)

LEMMA StepUnwound ==
  ASSUME NEW n \in Nat, NEW s, IsUnit(s, n), NEW last, last.halvings \in Nat, NEW x,
         NEW gate, Acts(gate, n), IsUnwound(x, AppliedGate(s, gate), last, n)
  PROVE  IsUnwound(UndoneGate(x, gate), s, last, n)
<1> DEFINE t == AppliedGate(s, gate)  y == UndoneGate(x, gate)
<1>1. PICK e \in Nat : /\ x.halvings = last.halvings + e
                       /\ t.halvings + e = last.halvings
                       /\ Scaled(x, t, TwoTo(e), n)
  BY DEF IsUnwound
<1>2. t.halvings = (IF gate[1] = "H" THEN s.halvings + 1 ELSE s.halvings) /\ s.halvings \in Nat
  BY GateKeepsUnit, StateParts DEF IsUnit
<1>3. TwoTo(e) \in Int /\ TwoTo(e + 1) = 2 * TwoTo(e)
  BY TwoToNext, TwoToPositive
<1>4. /\ IsState(y, n)
      /\ gate[1] = "H" => y.halvings = x.halvings + 1 /\ Scaled(y, s, 2 * TwoTo(e), n)
      /\ gate[1] # "H" => y.halvings = x.halvings /\ Scaled(y, s, TwoTo(e), n)
  BY <1>1, <1>3, GateUndone DEF IsUnit, IsUnwound
<1> HIDE DEF t, y
<1>5. CASE gate[1] = "H"
  <2>1. /\ e + 1 \in Nat /\ y.halvings = last.halvings + (e + 1)
        /\ s.halvings + (e + 1) = last.halvings
    BY <1>1, <1>2, <1>4, <1>5
  <2>2. Scaled(y, s, TwoTo(e + 1), n)
    BY <1>3, <1>4, <1>5
  <2>3. IsUnwound(y, s, last, n)
    BY <1>4, <2>1, <2>2 DEF IsUnwound
  <2> QED
    BY <2>3 DEF y
<1>6. CASE gate[1] # "H"
  <2>1. IsUnwound(y, s, last, n)
    BY <1>1, <1>2, <1>4, <1>6 DEF IsUnwound
  <2> QED
    BY <2>1 DEF y
<1> QED
  BY <1>5, <1>6

LEMMA AllUnwound ==
  ASSUME NEW n \in Nat, NEW gates, ActsOn(gates, n), NEW f, Evolves(f, n, gates),
         NEW g, Unwinds(g, f[Len(gates)], gates, n)
  PROVE  IsUnwound(g[Len(gates)], f[0], f[Len(gates)], n)
<1> DEFINE m == Len(gates)
           good == {k \in 0 .. m : IsUnwound(g[k], f[m - k], f[m], n)}
<1>1. m \in Nat /\ m \in 0 .. m
  BY DEF ActsOn
<1>2. \A k \in 0 .. m : IsUnit(f[k], n) /\ IsState(f[k], n) /\ f[k].halvings \in Nat
  BY StateParts DEF Evolves, IsUnit
<1>3. 0 \in good
  <2>1. g[0] = f[m] /\ m - 0 = m
    BY <1>1 DEF Unwinds
  <2>2. Scaled(f[m], f[m], TwoTo(0), n)
    <3>1. \A i \in 0 .. TwoTo(n) - 1 : f[m].amps[i].re \in Int /\ f[m].amps[i].im \in Int
      BY <1>1, <1>2, StateParts
    <3>2. \A d \in Int : 1 * d = d
      OBVIOUS
    <3> QED
      BY <3>1, <3>2, TwoToZero DEF Scaled
  <2> HIDE DEF m
  <2>3. f[m].halvings = f[m].halvings + 0 /\ IsState(f[m], n)
    BY <1>1, <1>2
  <2>4. IsUnwound(f[m], f[m], f[m], n)
    BY <2>2, <2>3 DEF IsUnwound
  <2> QED
    BY <1>1, <2>1, <2>4
<1>4. ASSUME NEW k \in 1 .. m, k - 1 \in good PROVE k \in good
  <2>1. /\ m - k \in 0 .. m /\ m + 1 - k \in 1 .. m /\ k \in 0 .. m
        /\ (m + 1 - k) - 1 = m - k /\ m - (k - 1) = m + 1 - k
    BY <1>1
  <2>2. /\ g[k] = UndoneGate(g[k - 1], gates[m + 1 - k])
        /\ f[m + 1 - k] = AppliedGate(f[m - k], gates[m + 1 - k])
        /\ Acts(gates[m + 1 - k], n)
    <3>1. f[m + 1 - k] = AppliedGate(f[(m + 1 - k) - 1], gates[m + 1 - k])
      BY <2>1 DEF Evolves
    <3> QED
      BY <2>1, <3>1 DEF Unwinds, ActsOn
  <2>3. IsUnwound(g[k - 1], f[m + 1 - k], f[m], n)
    BY <1>4, <2>1
  <2>4. IsUnit(f[m - k], n) /\ f[m].halvings \in Nat
    BY <1>1, <1>2, <2>1
  <2>5. IsUnwound(g[k], f[m - k], f[m], n)
    BY <2>2, <2>3, <2>4, StepUnwound
  <2> QED
    BY <2>1, <2>5
<1> HIDE DEF good
<1>5. m \in good
  BY <1>1, <1>3, <1>4, InductUpTo
<1> QED
  BY <1>1, <1>5 DEF good

\* What EvolutionTrue claims of a circuit.
CircuitTrue(n, gates) ==
  LET s == Evolved(n, gates)
      back == Undone(s, gates)
  IN /\ IsUnit(s, n)
     /\ Total(Weights(s), TwoTo(n)) = TwoTo(s.halvings)
     /\ MagnitudeSq(back.amps[0]) = TwoTo(back.halvings)

LEMMA CircuitsTrue ==
  ASSUME NEW n \in Nat, NEW gates, ActsOn(gates, n)
  PROVE  CircuitTrue(n, gates)
<1> DEFINE m == Len(gates)  s == Evolved(n, gates)  back == Undone(s, gates)
<1>1. m \in Nat /\ m \in 0 .. m
  BY DEF ActsOn
<1>2. PICK f : Evolves(f, n, gates) /\ s = f[m]
  BY EvolvedUnfolds
<1>3. IsUnit(s, n)
  BY <1>1, <1>2 DEF Evolves
<1>4. s \in States(n) /\ s.halvings \in Nat
  BY <1>3, StateParts DEF IsUnit, IsState, States
<1>5. PICK g : Unwinds(g, s, gates, n) /\ back = g[m]
  <2> HIDE DEF s
  <2> QED
    BY <1>4, UndoneUnfolds
<1>6. IsUnwound(back, Ground(n), s, n)
  <2>1. f[0] = Ground(n)
    BY <1>2 DEF Evolves
  <2> QED
    BY <1>2, <1>5, <2>1, AllUnwound
<1> HIDE DEF m, s, back
<1>7. PICK e \in Nat : /\ back.halvings = s.halvings + e
                       /\ Ground(n).halvings + e = s.halvings
                       /\ Scaled(back, Ground(n), TwoTo(e), n)
  BY <1>6 DEF IsUnwound
<1>8. Ground(n).halvings = 0 /\ Ground(n).amps[0].re = 1 /\ Ground(n).amps[0].im = 0
  BY GroundIs
<1>9. back.halvings = e + e
  BY <1>4, <1>7, <1>8
<1>10. TwoTo(e) \in Nat /\ 0 \in 0 .. TwoTo(n) - 1
  BY TwoToPositive
<1>11. back.amps[0].re = TwoTo(e) /\ back.amps[0].im = 0
  <2>1. /\ back.amps[0].re = TwoTo(e) * Ground(n).amps[0].re
        /\ back.amps[0].im = TwoTo(e) * Ground(n).amps[0].im
    BY <1>7, <1>10 DEF Scaled
  <2> QED
    BY <1>8, <1>10, <2>1
<1>12. MagnitudeSq(back.amps[0]) = TwoTo(back.halvings)
  <2>1. TwoTo(e + e) = TwoTo(e) * TwoTo(e)
    BY TwoToSum
  <2>2. MagnitudeSq(back.amps[0]) = TwoTo(e) * TwoTo(e) + 0 * 0
    BY <1>11 DEF MagnitudeSq
  <2>3. TwoTo(e) * TwoTo(e) + 0 * 0 = TwoTo(e) * TwoTo(e)
    BY <1>10
  <2> QED
    BY <1>9, <2>1, <2>2, <2>3
<1>13. Total(Weights(s), TwoTo(n)) = TwoTo(s.halvings)
  BY <1>3 DEF IsUnit, Norm
<1> QED
  BY <1>3, <1>12, <1>13 DEF CircuitTrue, s, back

-----------------------------------------------------------------------------
(***************************************************************************)
(* Shots: an outcome is where the sum of the weights goes up.              *)
(***************************************************************************)
LEMMA SmallestIs ==
  ASSUME NEW K, K \subseteq Nat, K # {}
  PROVE  Smallest(K) \in K /\ \A k \in K : Smallest(K) <= k
<1>1. \E x \in K : \A y \in K : x <= y
  BY LeastExists
<1> QED
  BY <1>1 DEF Smallest

LEMMA SampledIs ==
  ASSUME NEW n \in Nat, NEW s, IsUnit(s, n), NEW draw \in Draws
  PROVE  Sampled(s, draw) \in 0 .. TwoTo(n) - 1 /\ MagnitudeSq(s.amps[Sampled(s, draw)]) > 0
<1> DEFINE size == TwoTo(n)  w == Weights(s)  one == TwoTo(s.halvings)
           exceed == {i \in DOMAIN s.amps : draw * one < Resolution * Total(w, i + 1)}
           o == Sampled(s, draw)
<1>1. /\ IsState(s, n) /\ Total(w, size) = one /\ DOMAIN s.amps = 0 .. size - 1
      /\ s.halvings \in Nat
  BY StateParts DEF IsUnit, Norm
<1>2. one \in Nat \ {0} /\ size \in Nat \ {0}
  BY <1>1, TwoToPositive
<1>3. Resolution \in Nat \ {0} /\ draw \in Nat /\ draw < Resolution
  BY QuantumAssumption DEF Draws
<1>4. Integral(w, size) /\ \A i \in 0 .. size - 1 : w[i] = MagnitudeSq(s.amps[i]) /\ w[i] \in Nat
  BY <1>1, WeightsAre
<1>5. o = IF exceed = {} THEN 0 ELSE Smallest(exceed)
  BY DEF Sampled
<1> HIDE DEF one, w, size, o
<1>6. size - 1 \in exceed
  <2>1. (size - 1) + 1 = size /\ size - 1 \in 0 .. size - 1
    BY <1>2
  <2>2. draw * one < Resolution * one
    BY <1>2, <1>3
  <2> QED
    BY <1>1, <2>1, <2>2
<1>7. o \in exceed /\ \A k \in exceed : o <= k
  <2>1. exceed \subseteq Nat
    BY <1>1, <1>2
  <2> HIDE DEF exceed
  <2> QED
    BY <1>5, <1>6, <2>1, SmallestIs
<1>8. o \in 0 .. size - 1 /\ draw * one < Resolution * Total(w, o + 1)
  BY <1>1, <1>7
<1>9. Total(w, o + 1) = Total(w, o) + w[o] /\ Total(w, o) \in Int
  <2>1. Integral(w, o + 1) /\ Integral(w, o) /\ o \in Nat
    BY <1>2, <1>4, <1>8 DEF Integral
  <2> QED
    BY <2>1, TotalNext, TotalIntegral
<1>10. w[o] > 0
  <2> SUFFICES ASSUME w[o] = 0 PROVE FALSE
    BY <1>4, <1>8
  <2>1. Total(w, o + 1) = Total(w, o)
    BY <1>9
  <2>2. CASE o = 0
    <3>1. Total(w, o + 1) = 0
      BY <2>1, <2>2, TotalNone
    <3>2. draw * one \in Nat /\ Resolution * 0 = 0
      BY <1>2, <1>3
    <3> QED
      BY <1>8, <3>1, <3>2
  <2>3. CASE o # 0
    <3>1. o - 1 \in 0 .. size - 1 /\ (o - 1) + 1 = o
      BY <1>2, <1>8, <2>3
    <3>2. o - 1 \in exceed
      BY <1>1, <1>8, <2>1, <3>1
    <3> HIDE DEF exceed
    <3>3. o <= o - 1
      BY <1>7, <3>2
    <3> QED
      BY <1>2, <1>8, <3>3
  <2> QED
    BY <2>2, <2>3
<1> QED
  BY <1>4, <1>8, <1>10 DEF o, size

-----------------------------------------------------------------------------
(***************************************************************************)
(* Jobs.                                                                   *)
(***************************************************************************)
Job == [circuit : DOMAIN Circuits, backend : Backends,
        state : {"queued", "completed", "failed"}, outcomes : SUBSET Nat]

\* A completed job's outcomes are those of some draws.
DrawnOutcomes(job) ==
  \E draws \in SUBSET Draws :
    /\ draws # {}
    /\ job.outcomes = {Sampled(Evolved(Circuits[job.circuit].qubits,
                                       Circuits[job.circuit].gates), d) : d \in draws}

JobsInv ==
  /\ jobs \in Seq(Job)
  /\ \A k \in DOMAIN jobs : jobs[k].state = "completed" => DrawnOutcomes(jobs[k])

LEMMA CircuitIs ==
  ASSUME NEW c \in DOMAIN Circuits
  PROVE  /\ Circuits[c].qubits \in Nat /\ ActsOn(Circuits[c].gates, Circuits[c].qubits)
         /\ \A d \in Draws : Sampled(Evolved(Circuits[c].qubits, Circuits[c].gates), d) \in Nat
<1> DEFINE n == Circuits[c].qubits  gates == Circuits[c].gates
<1>1. n \in Nat /\ ActsOn(gates, n)
  BY CircuitsAssumption DEF ActsOn
<1> HIDE DEF n, gates
<1>2. IsUnit(Evolved(n, gates), n)
  BY <1>1, CircuitsTrue DEF CircuitTrue
<1>3. ASSUME NEW d \in Draws PROVE Sampled(Evolved(n, gates), d) \in Nat
  <2>1. Sampled(Evolved(n, gates), d) \in 0 .. TwoTo(n) - 1 /\ TwoTo(n) \in Nat
    BY <1>1, <1>2, SampledIs, TwoToPositive
  <2> QED
    BY <2>1
<1> QED
  BY <1>1, <1>3 DEF n, gates

LEMMA FinishedIs ==
  ASSUME NEW job \in Job, job.state = "queued", NEW draws \in SUBSET Draws, draws # {}
  PROVE  /\ Finished(job, draws) \in Job
         /\ Finished(job, draws).state = "completed" => DrawnOutcomes(Finished(job, draws))
<1> DEFINE c == Circuits[job.circuit]
           K == {Sampled(Evolved(c.qubits, c.gates), d) : d \in draws}
           j == Finished(job, draws)
<1>1. job.circuit \in DOMAIN Circuits
  BY DEF Job
<1>2. K \subseteq Nat
  BY <1>1, CircuitIs
<1>3. \/ j = [job EXCEPT !.state = "failed"]
      \/ j = [job EXCEPT !.state = "completed", !.outcomes = K]
  BY DEF Finished
<1> HIDE DEF j, K
<1>4. CASE j = [job EXCEPT !.state = "failed"]
  <2>1. j \in Job /\ j.state = "failed"
    BY <1>4 DEF Job
  <2> QED
    BY <2>1 DEF j
<1>5. CASE j = [job EXCEPT !.state = "completed", !.outcomes = K]
  <2>1. j \in Job /\ j.circuit = job.circuit /\ j.outcomes = K
    BY <1>2, <1>5 DEF Job
  <2>2. DrawnOutcomes(j)
    BY <2>1 DEF DrawnOutcomes, K
  <2> QED
    BY <2>1, <2>2 DEF j
<1> QED
  BY <1>3, <1>4, <1>5

LEMMA JobsStep == JobsInv /\ [QuantumNext]_quantumVars => JobsInv'
<1> SUFFICES ASSUME JobsInv, [QuantumNext]_quantumVars PROVE JobsInv'
  OBVIOUS
<1>1. CASE UNCHANGED quantumVars
  BY <1>1 DEF quantumVars, JobsInv
<1>2. ASSUME NEW c \in DOMAIN Circuits, NEW backend \in Backends, SubmitJob(c, backend)
      PROVE  JobsInv'
  <2> DEFINE job == [circuit |-> c, backend |-> backend, state |-> "queued", outcomes |-> {}]
  <2>1. jobs' = Append(jobs, job) /\ job \in Job /\ job.state = "queued"
    BY <1>2 DEF SubmitJob, Job
  <2> HIDE DEF job
  <2>2. jobs \in Seq(Job)
    BY DEF JobsInv
  <2>3. jobs' \in Seq(Job)
    BY <2>1, <2>2
  <2>4. ASSUME NEW k \in DOMAIN jobs', jobs'[k].state = "completed" PROVE DrawnOutcomes(jobs'[k])
    <3>1. k \in DOMAIN jobs /\ jobs'[k] = jobs[k]
      BY <2>1, <2>2, <2>4
    <3> QED
      BY <2>4, <3>1 DEF JobsInv
  <2> QED
    BY <2>3, <2>4 DEF JobsInv, DrawnOutcomes
<1>3. CASE ProcessJobs
  <2>1. PICK draws \in (SUBSET Draws) \ {{}} :
          jobs' = [k \in DOMAIN jobs |-> IF jobs[k].state = "queued"
                                         THEN Finished(jobs[k], draws) ELSE jobs[k]]
    BY <1>3 DEF ProcessJobs
  <2>2. /\ jobs \in Seq(Job) /\ DOMAIN jobs = 1 .. Len(jobs) /\ Len(jobs) \in Nat
        /\ \A k \in DOMAIN jobs : jobs[k] \in Job
    BY DEF JobsInv
  <2>3. ASSUME NEW k \in DOMAIN jobs
        PROVE  jobs'[k] \in Job /\ (jobs'[k].state = "completed" => DrawnOutcomes(jobs'[k]))
    <3>1. CASE jobs[k].state = "queued"
      <4> DEFINE job == jobs[k]
      <4>1. /\ jobs'[k] = Finished(job, draws) /\ job \in Job /\ job.state = "queued"
            /\ draws \in SUBSET Draws /\ draws # {}
        <5>1. jobs'[k] = Finished(jobs[k], draws)
          BY <2>1, <3>1, Zenon
        <5>2. jobs[k] \in Job /\ jobs[k].state = "queued"
          BY <2>2, <3>1
        <5>3. draws \in SUBSET Draws /\ draws # {}
          BY <2>1
        <5> QED
          BY <5>1, <5>2, <5>3
      <4> HIDE DEF job
      <4>2. /\ Finished(job, draws) \in Job
            /\ Finished(job, draws).state = "completed" => DrawnOutcomes(Finished(job, draws))
        BY <4>1, FinishedIs
      <4> QED
        BY <4>1, <4>2
    <3>2. CASE jobs[k].state # "queued"
      BY <2>1, <2>2, <3>2 DEF JobsInv
    <3> QED
      BY <3>1, <3>2
  <2>4. DOMAIN jobs' = 1 .. Len(jobs) /\ jobs' = [k \in 1 .. Len(jobs) |-> jobs'[k]]
    BY <2>1, <2>2
  <2>5. jobs' \in Seq(Job)
    BY <2>2, <2>3, <2>4, IsASeq
  <2> QED
    BY <2>2, <2>3, <2>4, <2>5 DEF JobsInv, DrawnOutcomes
<1> QED
  BY <1>1, <1>2, <1>3 DEF QuantumNext

(* Whatever circuits, draws and jobs, as long as gates act on qubits of their *)
(* circuit: a completed job's evolution was unitary, and its outcomes are     *)
(* possible ones (quantum/mod.rs).                                           *)
THEOREM EvolutionIsTrue == QuantumSpec => []EvolutionTrue
<1>1. QuantumInit => JobsInv
  BY DEF QuantumInit, JobsInv
<1>2. JobsInv => EvolutionTrue
  <2> SUFFICES ASSUME JobsInv, NEW k \in DOMAIN jobs, jobs[k].state = "completed"
               PROVE  LET c == Circuits[jobs[k].circuit]
                          s == Evolved(c.qubits, c.gates)
                          back == Undone(s, c.gates)
                      IN /\ Total(Weights(s), TwoTo(c.qubits)) = TwoTo(s.halvings)
                         /\ MagnitudeSq(back.amps[0]) = TwoTo(back.halvings)
                         /\ jobs[k].outcomes # {}
                         /\ \A o \in jobs[k].outcomes : MagnitudeSq(s.amps[o]) > 0
    BY DEF EvolutionTrue
  <2> DEFINE c == Circuits[jobs[k].circuit]  s == Evolved(c.qubits, c.gates)
  <2>1. jobs[k].circuit \in DOMAIN Circuits /\ DrawnOutcomes(jobs[k])
    <3>1. jobs[k] \in Job
      BY DEF JobsInv
    <3> QED
      BY <3>1 DEF JobsInv, Job
  <2>2. c.qubits \in Nat /\ ActsOn(c.gates, c.qubits)
    BY <2>1, CircuitIs
  <2>3. CircuitTrue(c.qubits, c.gates)
    BY <2>2, CircuitsTrue
  <2>4. PICK draws \in SUBSET Draws :
          draws # {} /\ jobs[k].outcomes = {Sampled(s, d) : d \in draws}
    BY <2>1 DEF DrawnOutcomes
  <2>5. IsUnit(s, c.qubits)
    BY <2>3 DEF CircuitTrue
  <2> HIDE DEF s, c
  <2>6. \A d \in draws : MagnitudeSq(s.amps[Sampled(s, d)]) > 0
    BY <2>2, <2>5, SampledIs
  <2> QED
    BY <2>3, <2>4, <2>6 DEF CircuitTrue, s, c
<1> QED
  BY <1>1, <1>2, JobsStep, PTL DEF QuantumSpec
=============================================================================
