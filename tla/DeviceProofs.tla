---------------------------- MODULE DeviceProofs ----------------------------
(***************************************************************************)
(* What is proved of the modules of the devices run, and of the four side  *)
(* by side (DevicesAreTyped).                                              *)
(*                                                                         *)
(* The line editor never slices or indexes out of bounds (module           *)
(* LineEditor), for any characters, commands and limits: EditorTypeOK is   *)
(* inductive as it stands.  What has to be shown is that every position    *)
(* the code computes, the start of a word, the common prefix of the        *)
(* completions, the ends of a trimmed line, exists and is a position.      *)
(* The terminal shows the line being edited whenever the editor has no     *)
(* reason to know better (EchoIsFaithful): each repaint sends just what    *)
(* turns the old line and cursor into the new ones.                        *)
(*                                                                         *)
(* A completed save is on the disk and boot restores it (module Storage),  *)
(* for any files, contents, disk, ring and number of abandoned requests.   *)
(* The proof needs that deserialize reads what serialize wrote (RoundTrip) *)
(* and what the shared buffers hold while abandoned requests are still     *)
(* served from them (StorageInv).                                          *)
(*                                                                         *)
(* A TCP socket acknowledges nothing that was not sent and keeps the        *)
(* stream whole, and the network card handles every frame once, for any    *)
(* numbers of units, buffers and frames (modules TcpSocket and Nic).        *)
(***************************************************************************)
EXTENDS Devices, SequenceFacts

-----------------------------------------------------------------------------
(***************************************************************************)
(* The two halves of a line.                                               *)
(***************************************************************************)
LEMMA FromType ==
  ASSUME NEW s \in Seq(Char), NEW i \in Nat
  PROVE  /\ From(s, i) \in Seq(Char)
         /\ i <= Len(s) => Len(From(s, i)) = Len(s) - i
<1>1. Len(s) \in Nat /\ \A k \in (i + 1) .. Len(s) : s[k] \in Char
  BY ElementOfSeq, LenProperties
<1>2. /\ SubSeq(s, i + 1, Len(s)) \in Seq(Char)
      /\ Len(SubSeq(s, i + 1, Len(s))) =
           IF i + 1 <= Len(s) THEN Len(s) - (i + 1) + 1 ELSE 0
  BY <1>1, SubSeqProperties
<1> QED
  BY <1>1, <1>2 DEF From

LEMMA UpToType ==
  ASSUME NEW s \in Seq(Char), NEW i \in 0 .. Len(s)
  PROVE  UpTo(s, i) \in Seq(Char) /\ Len(UpTo(s, i)) = i
<1>1. Len(s) \in Nat /\ \A k \in 1 .. i : s[k] \in Char
  BY ElementOfSeq, LenProperties
<1>2. /\ SubSeq(s, 1, i) \in Seq(Char)
      /\ Len(SubSeq(s, 1, i)) = IF 1 <= i THEN i - 1 + 1 ELSE 0
  BY <1>1, SubSeqProperties
<1> QED
  BY <1>1, <1>2 DEF UpTo

\* Two pieces put together, with the cursor after the first.
LEMMA JoinType ==
  ASSUME NEW s \in Seq(Char), NEW t \in Seq(Char)
  PROVE  s \o t \in Seq(Char) /\ Len(s) \in 0 .. Len(s \o t) /\ Len(s \o t) = Len(s) + Len(t)
BY ConcatProperties, LenProperties

-----------------------------------------------------------------------------
(***************************************************************************)
(* The positions the code computes.                                        *)
(***************************************************************************)
LineOK == line \in Seq(Char) /\ cursor \in 0 .. Len(line)

HistoryOK ==
  /\ history \in Seq(Seq(Char)) /\ Len(history) <= MaxHistory
  /\ recalled \in 0 .. Len(history)

LEMMA WordStartType ==
  ASSUME LineOK
  PROVE  WordStart \in 0 .. cursor
<1> DEFINE blanks == {i \in 1 .. cursor : line[i] = Space}
<1>1. cursor \in Nat
  BY LenProperties DEF LineOK
<1>2. CASE blanks = {}
  BY <1>1, <1>2 DEF WordStart
<1>3. CASE blanks # {}
  <2>1. blanks \subseteq 0 .. cursor
    BY <1>1
  <2>2. \E i \in blanks : \A j \in blanks : j <= i
    <3> HIDE DEF blanks
    <3> QED
      BY <1>1, <1>3, <2>1, GreatestExists
  <2>3. WordStart = CHOOSE i \in blanks : \A j \in blanks : j <= i
    BY <1>3 DEF WordStart
  <2> HIDE DEF blanks
  <2> QED
    BY <2>1, <2>2, <2>3
<1> QED
  BY <1>2, <1>3

LEMMA CommonPrefixType ==
  ASSUME NEW words, words # {}, words \subseteq Seq(Char)
  PROVE  CommonPrefix(words) \in Seq(Char)
<1> DEFINE w == CHOOSE x \in words : TRUE
           agree == {n \in 0 .. Len(w) :
                       \A x \in words : n <= Len(x) /\ UpTo(x, n) = UpTo(w, n)}
           n0 == CHOOSE n \in agree : \A k \in agree : k <= n
<1>1. w \in words /\ w \in Seq(Char) /\ Len(w) \in Nat
  BY LenProperties
<1>2. 0 \in agree
  <2>1. \A x \in Seq(Char) : UpTo(x, 0) = << >> /\ 0 <= Len(x)
    BY SubSeqEmpty, LenProperties DEF UpTo
  <2> QED
    BY <1>1, <2>1
<1>3. agree \subseteq 0 .. Len(w)
  OBVIOUS
<1>4. n0 \in 0 .. Len(w)
  <2> HIDE DEF w, agree
  <2>1. \E n \in agree : \A k \in agree : k <= n
    BY <1>1, <1>2, <1>3, GreatestExists
  <2> QED
    BY <1>3, <2>1
<1>5. CommonPrefix(words) = UpTo(w, n0)
  BY DEF CommonPrefix
<1> HIDE DEF w, n0
<1> QED
  BY <1>1, <1>4, <1>5, UpToType

LEMMA TrimType ==
  ASSUME NEW s \in Seq(Char)
  PROVE  Trim(s) \in Seq(Char)
<1> DEFINE ink == {i \in 1 .. Len(s) : s[i] # Space}
           a == CHOOSE i \in ink : \A j \in ink : i <= j
           b == CHOOSE i \in ink : \A j \in ink : j <= i
<1>1. Len(s) \in Nat
  BY LenProperties
<1>2. CASE ink = {}
  BY <1>2, EmptySeq DEF Trim
<1>3. CASE ink # {}
  <2>1. ink \subseteq 1 .. Len(s) /\ ink \subseteq Nat /\ ink \subseteq 0 .. Len(s)
    BY <1>1
  <2>2. Trim(s) = SubSeq(s, a, b)
    BY <1>3 DEF Trim
  <2> HIDE DEF ink
  <2>3. a \in ink
    BY <1>3, <2>1, LeastExists
  <2>4. b \in ink
    BY <1>1, <1>3, <2>1, GreatestExists
  <2> HIDE DEF a, b
  <2>5. a \in 1 .. Len(s) /\ b \in 1 .. Len(s) /\ a \in Int /\ b \in Int
    BY <1>1, <2>1, <2>3, <2>4
  <2>6. \A k \in a .. b : s[k] \in Char
    BY <1>1, <2>5, ElementOfSeq
  <2> QED
    BY <2>2, <2>5, <2>6, SubSeqProperties
<1> QED
  BY <1>2, <1>3

LEMMA FoundType ==
  ASSUME HistoryOK
  PROVE  Found \in Seq(Char)
<1> DEFINE hits == {i \in 1 .. Len(history) : Contains(history[i], query)}
<1>1. Len(history) \in Nat
  BY LenProperties DEF HistoryOK
<1>2. CASE hits = {}
  BY <1>2, EmptySeq DEF Found
<1>3. CASE hits # {}
  <2>1. hits \subseteq 1 .. Len(history) /\ hits \subseteq 0 .. Len(history)
    BY <1>1
  <2>2. Found = history[CHOOSE i \in hits : \A j \in hits : j <= i]
    BY <1>3 DEF Found
  <2> HIDE DEF hits
  <2>3. (CHOOSE i \in hits : \A j \in hits : j <= i) \in hits
    BY <1>1, <1>3, <2>1, GreatestExists
  <2> QED
    BY <2>1, <2>2, <2>3, ElementOfSeq DEF HistoryOK
<1> QED
  BY <1>2, <1>3

LEMMA RememberType ==
  ASSUME HistoryOK, NEW cmd \in Seq(Char)
  PROVE  Remember(cmd) \in Seq(Seq(Char)) /\ Len(Remember(cmd)) <= MaxHistory
<1>1. /\ Len(history) \in Nat /\ MaxHistory \in Nat \ {0}
      /\ history \in Seq(Seq(Char)) /\ Len(history) <= MaxHistory
  BY EditorAssumption, LenProperties DEF HistoryOK
<1> DEFINE kept == IF Len(history) >= MaxHistory THEN Tail(history) ELSE history
<1>2. kept \in Seq(Seq(Char)) /\ Len(kept) \in Nat /\ Len(kept) < MaxHistory
  <2>1. CASE Len(history) >= MaxHistory
    <3>1. history # << >>
      BY <1>1, <2>1, EmptySeq
    <3> QED
      BY <1>1, <2>1, <3>1, HeadTailProperties, LenProperties
  <2>2. CASE ~ (Len(history) >= MaxHistory)
    BY <1>1, <2>2
  <2> QED
    BY <2>1, <2>2
<1>3. /\ Append(kept, cmd) \in Seq(Seq(Char))
      /\ Len(Append(kept, cmd)) <= MaxHistory
  <2> HIDE DEF kept
  <2> QED
    BY <1>1, <1>2, AppendProperties
<1>4. Remember(cmd) = history \/ Remember(cmd) = Append(kept, cmd)
  BY DEF Remember
<1> QED
  BY <1>1, <1>3, <1>4

-----------------------------------------------------------------------------
(***************************************************************************)
(* Every operation leaves a line and a position in it.                     *)
(***************************************************************************)
LEMMA EraseKeeps ==
  ASSUME LineOK, NEW from \in 0 .. Len(line), NEW to \in Nat, NEW moved,
         Erase(from, to, moved)
  PROVE  LineOK'
<1>1. /\ line' = UpTo(line, from) \o From(line, to) /\ cursor' = from
  BY DEF Erase, Replace
<1>2. /\ UpTo(line, from) \in Seq(Char) /\ Len(UpTo(line, from)) = from
      /\ From(line, to) \in Seq(Char)
  BY UpToType, FromType DEF LineOK
<1> QED
  BY <1>1, <1>2, JoinType DEF LineOK

LEMMA EditKeeps ==
  ASSUME LineOK,
         \/ \E ch \in Char : Insert(ch)
         \/ Backspace \/ ToStart \/ ToEnd \/ CtrlK \/ CtrlU \/ CtrlW \/ CtrlD
         \/ Restart \/ Idle \/ CursorLeft \/ CursorRight \/ DeleteRight
  PROVE  LineOK'
<1>1. /\ line \in Seq(Char) /\ Len(line) \in Nat /\ cursor \in 0 .. Len(line)
      /\ cursor \in Nat /\ << >> \in Seq(Char) /\ Len(<< >>) = 0
  BY EmptySeq, LenProperties DEF LineOK
<1>2. ASSUME NEW ch \in Char, Insert(ch) PROVE LineOK'
  <2>1. /\ From(line, cursor) \in Seq(Char)
        /\ << ch >> \in Seq(Char) /\ Len(<< ch >>) = 1
        /\ UpTo(line, cursor) \in Seq(Char) /\ Len(UpTo(line, cursor)) = cursor
    BY <1>1, FromType, UpToType
  <2> DEFINE rest == << ch >> \o From(line, cursor)
  <2>2. rest \in Seq(Char) /\ Len(rest) = 1 + Len(From(line, cursor))
        /\ Len(From(line, cursor)) \in Nat
    BY <2>1, ConcatProperties, LenProperties
  <2>3. line' = UpTo(line, cursor) \o rest /\ cursor' = cursor + 1
    BY <1>2 DEF Insert, Replace
  <2> HIDE DEF rest
  <2>4. /\ UpTo(line, cursor) \o rest \in Seq(Char)
        /\ Len(UpTo(line, cursor) \o rest) = Len(UpTo(line, cursor)) + Len(rest)
    BY <2>1, <2>2, JoinType
  <2> QED
    BY <1>1, <2>1, <2>2, <2>3, <2>4 DEF LineOK
<1>3. ASSUME Backspace PROVE LineOK'
  <2>1. cursor > 0 /\ Erase(cursor - 1, cursor, Left(terminal, 1))
    BY <1>3 DEF Backspace
  <2>2. cursor - 1 \in 0 .. Len(line)
    BY <1>1, <2>1
  <2> QED
    BY <1>1, <2>1, <2>2, EraseKeeps
<1>4. ASSUME CtrlW PROVE LineOK'
  <2>1. Erase(WordStart, cursor, Left(terminal, cursor - WordStart))
    BY <1>4 DEF CtrlW
  <2>2. WordStart \in 0 .. cursor
    BY WordStartType
  <2>3. WordStart \in 0 .. Len(line)
    BY <1>1, <2>2
  <2> QED
    BY <1>1, <2>1, <2>3, EraseKeeps
<1>5. ASSUME CtrlK PROVE LineOK'
  <2>1. line' = UpTo(line, cursor) /\ cursor' = cursor
    BY <1>5 DEF CtrlK, Replace
  <2> QED
    BY <1>1, <2>1, UpToType DEF LineOK
<1>6. ASSUME ToStart \/ ToEnd \/ CtrlU \/ CtrlD \/ Restart \/ Idle \/ CursorLeft \/ CursorRight
      PROVE  LineOK'
  <2>1. \/ line' = line /\ cursor' \in 0 .. Len(line)
        \/ line' = << >> /\ cursor' = 0
    <3>1. CASE ToStart \/ ToEnd \/ CtrlD \/ Idle
      BY <1>1, <3>1 DEF ToStart, ToEnd, CtrlD, Idle, Replace
    <3>2. CASE CtrlU \/ Restart
      BY <3>2 DEF CtrlU, Restart, Replace
    <3>3. CASE CursorLeft \/ CursorRight
      BY <1>1, <3>3 DEF CursorLeft, CursorRight, Replace
    <3> QED
      BY <1>6, <3>1, <3>2, <3>3
  <2>2. CASE line' = line /\ cursor' \in 0 .. Len(line)
    BY <1>1, <2>2 DEF LineOK
  <2>3. CASE line' = << >> /\ cursor' = 0
    <3>1. line' \in Seq(Char) /\ Len(line') = 0
      BY <2>3, EmptySeq
    <3> QED
      BY <2>3, <3>1 DEF LineOK
  <2> QED
    BY <2>1, <2>2, <2>3
<1>7. ASSUME DeleteRight PROVE LineOK'
  <2>1. /\ line' = UpTo(line, cursor) \o From(line, cursor + 1) /\ cursor' = cursor
    BY <1>7 DEF DeleteRight, Replace
  <2>2. /\ UpTo(line, cursor) \in Seq(Char) /\ Len(UpTo(line, cursor)) = cursor
        /\ From(line, cursor + 1) \in Seq(Char)
    BY <1>1, FromType, UpToType
  <2> QED
    BY <2>1, <2>2, JoinType DEF LineOK
<1> QED
  BY <1>2, <1>3, <1>4, <1>5, <1>6, <1>7

LEMMA CompleteKeeps ==
  ASSUME LineOK, NEW text \in Seq(Char), Complete(text)
  PROVE  LineOK'
<1>1. line' = line \o text /\ cursor' = Len(line) + Len(text)
  BY DEF Complete, Replace
<1>2. line' \in Seq(Char) /\ Len(line') = Len(line) + Len(text) /\ Len(line') \in Nat
  BY <1>1, ConcatProperties, LenProperties DEF LineOK
<1> QED
  BY <1>1, <1>2 DEF LineOK

LEMMA TabKeeps ==
  ASSUME LineOK, Tab
  PROVE  LineOK' /\ tabbed' \in BOOLEAN
<1> DEFINE found == Completions
           more == From(CommonPrefix(found), Len(line))
<1>1. line \in Seq(Char) /\ Len(line) \in Nat /\ Space \in Char
  BY EditorAssumption, LenProperties DEF LineOK
<1>2. found # {} => more \in Seq(Char) /\ Append(more, Space) \in Seq(Char)
  <2>1. found \subseteq Seq(Char)
    BY EditorAssumption DEF Completions
  <2> HIDE DEF found
  <2>2. found # {} => more \in Seq(Char)
    BY <1>1, <2>1, CommonPrefixType, FromType
  <2> HIDE DEF more
  <2> QED
    BY <1>1, <2>2, AppendProperties
<1>3. Cardinality(found) \in {1} \/ Cardinality(found) > 1 => found # {}
  BY FS_EmptySet
<1>4. /\ tabbed' \in BOOLEAN
      /\ \/ Idle
         \/ Cardinality(found) = 1 /\ Complete(Append(more, Space))
         \/ Cardinality(found) > 1 /\ Replace(line, cursor, Type(Prompt, line))
         \/ Cardinality(found) > 1 /\ Complete(more)
  BY DEF Tab
<1> HIDE DEF found, more
<1>5. CASE Idle
  BY <1>5, EditKeeps, <1>4
<1>6. CASE Cardinality(found) = 1 /\ Complete(Append(more, Space))
  BY <1>2, <1>3, <1>4, <1>6, CompleteKeeps
<1>7. CASE Cardinality(found) > 1 /\ Replace(line, cursor, Type(Prompt, line))
  BY <1>4, <1>7 DEF Replace, LineOK
<1>8. CASE Cardinality(found) > 1 /\ Complete(more)
  BY <1>2, <1>3, <1>4, <1>8, CompleteKeeps
<1> QED
  BY <1>4, <1>5, <1>6, <1>7, <1>8

LEMMA RecallsLine ==
  ASSUME HistoryOK, HistoryUp \/ HistoryDown
  PROVE  \E l \in Seq(Char) : Recall(l) /\ recalled' \in 0 .. Len(history)
<1>1. /\ history \in Seq(Seq(Char)) /\ Len(history) \in Nat \ {0}
      /\ recalled \in 0 .. Len(history)
  BY EmptySeq, LenProperties DEF HistoryOK, HistoryUp, HistoryDown
<1>2. CASE HistoryUp
  <2>1. recalled' \in 1 .. Len(history) /\ Recall(history[recalled'])
    BY <1>1, <1>2 DEF HistoryUp
  <2> QED
    BY <1>1, <2>1, ElementOfSeq
<1>3. CASE HistoryDown
  <2>1. /\ recalled' \in 0 .. Len(history)
        /\ Recall(IF recalled' = 0 THEN << >> ELSE history[recalled'])
    BY <1>1, <1>3 DEF HistoryDown
  <2>2. (IF recalled' = 0 THEN << >> ELSE history[recalled']) \in Seq(Char)
    <3>1. CASE recalled' = 0
      BY <3>1, EmptySeq
    <3>2. CASE recalled' # 0
      <4>1. recalled' \in 1 .. Len(history)
        BY <1>1, <2>1, <3>2
      <4> QED
        BY <1>1, <3>2, <4>1, ElementOfSeq
    <3> QED
      BY <3>1, <3>2
  <2> QED
    BY <2>1, <2>2
<1> QED
  BY <1>2, <1>3

LEMMA HistoryKeys ==
  ASSUME LineOK, HistoryOK, HistoryUp \/ HistoryDown
  PROVE  LineOK' /\ recalled' \in 0 .. Len(history)
<1>1. PICK l \in Seq(Char) : Recall(l) /\ recalled' \in 0 .. Len(history)
  BY RecallsLine
<1>2. line' = l /\ cursor' = Len(l) /\ Len(l) \in Nat
  BY <1>1, LenProperties DEF Recall, Replace
<1> QED
  BY <1>1, <1>2 DEF LineOK

-----------------------------------------------------------------------------
(***************************************************************************)
(* Every byte.                                                             *)
(***************************************************************************)
ModesOK ==
  /\ ansi \in {"Normal", "Esc", "Bracket", "BracketNum"}
  /\ tabbed \in BOOLEAN /\ search \in BOOLEAN /\ stale \in BOOLEAN
  /\ query \in Seq(Char)

LEMMA TypeParts == EditorTypeOK <=> LineOK /\ HistoryOK /\ ModesOK
BY DEF EditorTypeOK, LineOK, HistoryOK, ModesOK

LEMMA EnterKeeps ==
  ASSUME EditorTypeOK, Enter
  PROVE  EditorTypeOK'
<1>1. LineOK /\ HistoryOK /\ ModesOK
  BY TypeParts
<1>2. /\ history' = Remember(Trim(line)) /\ recalled' = 0
      /\ Restart /\ tabbed' = FALSE /\ stale' = FALSE
      /\ UNCHANGED << ansi, search, query >>
  BY DEF Enter
<1>3. LineOK'
  BY <1>1, <1>2, EditKeeps
<1>4. HistoryOK'
  <2>1. Trim(line) \in Seq(Char)
    BY <1>1, TrimType DEF LineOK
  <2>2. history' \in Seq(Seq(Char)) /\ Len(history') <= MaxHistory /\ Len(history') \in Nat
    BY <1>1, <1>2, <2>1, RememberType, LenProperties
  <2> QED
    BY <1>2, <2>2 DEF HistoryOK
<1>5. ModesOK'
  BY <1>1, <1>2 DEF ModesOK
<1> QED
  BY <1>3, <1>4, <1>5, TypeParts DEF EditorTypeOK, LineOK, HistoryOK, ModesOK

LEMMA NormalKeeps ==
  ASSUME EditorTypeOK, Normal
  PROVE  EditorTypeOK'
<1>1. LineOK /\ HistoryOK /\ ModesOK
  BY TypeParts
<1>2. CASE Enter
  BY <1>2, EnterKeeps
<1>3. CASE ~ Enter
  <2>1. /\ \/ \E ch \in Char : Insert(ch)
           \/ Backspace \/ ToStart \/ ToEnd \/ CtrlK \/ CtrlU \/ CtrlW \/ CtrlD
           \/ Restart \/ Idle \/ Tab \/ Replace(line, cursor, Prompt)
        /\ Tab \/ tabbed' = FALSE
    BY <1>3 DEF Normal
  <2>2. /\ history' = history
        /\ recalled' = recalled \/ recalled' = 0
        /\ ansi' = ansi \/ ansi' = "Esc"
        /\ search' = search \/ search' = TRUE
        /\ query' = query \/ query' = << >>
    BY <1>3 DEF Normal, Keep
  <2>3. stale' \in BOOLEAN
    BY <1>1, <1>3 DEF Normal, ModesOK
  <2>4. LineOK' /\ tabbed' \in BOOLEAN
    <3>1. CASE Tab
      BY <1>1, <3>1, TabKeeps
    <3>2. CASE Replace(line, cursor, Prompt) /\ tabbed' = FALSE
      BY <1>1, <3>2 DEF Replace, LineOK
    <3>3. CASE ~ Tab /\ ~ Replace(line, cursor, Prompt)
      BY <1>1, <2>1, <3>3, EditKeeps
    <3> QED
      BY <2>1, <3>1, <3>2, <3>3
  <2>5. HistoryOK'
    BY <1>1, <2>2, LenProperties DEF HistoryOK
  <2>6. ModesOK'
    BY <1>1, <2>2, <2>3, <2>4, EmptySeq DEF ModesOK
  <2> QED
    BY <2>4, <2>5, <2>6 DEF EditorTypeOK, LineOK, HistoryOK, ModesOK
<1> QED
  BY <1>2, <1>3

LEMMA EscapesKeep ==
  ASSUME EditorTypeOK, Escape \/ Bracket \/ BracketNum
  PROVE  EditorTypeOK'
<1>1. LineOK /\ HistoryOK /\ ModesOK
  BY TypeParts
<1>2. /\ history' = history /\ tabbed' = tabbed /\ search' = search
      /\ query' = query /\ stale' = stale
      /\ ansi' \in {"Normal", "Bracket", "BracketNum"}
  BY DEF Escape, Bracket, BracketNum
<1>3. \/ HistoryUp \/ HistoryDown
      \/ /\ recalled' = recalled
         /\ CursorRight \/ CursorLeft \/ ToStart \/ ToEnd \/ DeleteRight \/ Idle
  BY DEF Escape, Bracket, BracketNum
<1>4. LineOK' /\ recalled' \in 0 .. Len(history)
  <2>1. CASE HistoryUp \/ HistoryDown
    BY <1>1, <2>1, HistoryKeys
  <2>2. CASE ~ (HistoryUp \/ HistoryDown)
    BY <1>1, <1>3, <2>2, EditKeeps DEF HistoryOK
  <2> QED
    BY <2>1, <2>2
<1>5. HistoryOK' /\ ModesOK'
  BY <1>1, <1>2, <1>4 DEF HistoryOK, ModesOK
<1> QED
  BY <1>4, <1>5 DEF EditorTypeOK, LineOK, HistoryOK, ModesOK

LEMMA SearchKeeps ==
  ASSUME EditorTypeOK, SearchQuery \/ SearchEnter \/ SearchCancel
  PROVE  EditorTypeOK'
<1>1. LineOK /\ HistoryOK /\ ModesOK
  BY TypeParts
<1>2. /\ history' = history /\ recalled' = recalled /\ ansi' = ansi /\ tabbed' = tabbed
      /\ search' = search \/ search' = FALSE
      /\ stale' = stale \/ stale' = FALSE
  BY DEF SearchQuery, SearchEnter, SearchCancel
<1>3. query' \in Seq(Char)
  <2>1. CASE \E ch \in Char : query' = Append(query, ch)
    BY <1>1, <2>1, AppendProperties DEF ModesOK
  <2>2. CASE query # << >> /\ query' = UpTo(query, Len(query) - 1)
    <3>1. Len(query) - 1 \in 0 .. Len(query)
      BY <1>1, <2>2, EmptySeq DEF ModesOK
    <3> QED
      BY <1>1, <2>2, <3>1, UpToType DEF ModesOK
  <2>3. CASE query' = query \/ query' = << >>
    BY <1>1, <2>3, EmptySeq DEF ModesOK
  <2> QED
    BY <2>1, <2>2, <2>3 DEF SearchQuery, SearchEnter, SearchCancel
<1>4. LineOK'
  <2>1. CASE SearchQuery
    BY <1>1, <2>1, EditKeeps DEF SearchQuery
  <2>2. CASE SearchEnter
    <3>1. line' = Found /\ cursor' = Len(Found)
      BY <2>2 DEF SearchEnter, Replace
    <3>2. Found \in Seq(Char) /\ Len(Found) \in Nat
      BY <1>1, FoundType, LenProperties
    <3> QED
      BY <3>1, <3>2 DEF LineOK
  <2>3. CASE SearchCancel
    BY <1>1, <2>3 DEF SearchCancel, Replace, LineOK
  <2> QED
    BY <2>1, <2>2, <2>3
<1>5. HistoryOK' /\ ModesOK'
  BY <1>1, <1>2, <1>3 DEF HistoryOK, ModesOK
<1> QED
  BY <1>4, <1>5 DEF EditorTypeOK, LineOK, HistoryOK, ModesOK

\* The editor's types hold in every state, and with them: no byte the user can
\* type, in any order, makes serial_shell.rs insert, remove, slice or index out
\* of bounds.
THEOREM EditorTypeInvariant == EditorSpec => []EditorTypeOK
<1>1. EditorInit => EditorTypeOK
  <2>1. \A S : << >> \in Seq(S) /\ Len(<< >>) = 0
    BY EmptySeq
  <2>2. MaxHistory \in Nat
    BY EditorAssumption
  <2> SUFFICES ASSUME EditorInit PROVE EditorTypeOK
    OBVIOUS
  <2>3. LineOK /\ HistoryOK
    BY <2>1, <2>2 DEF EditorInit, LineOK, HistoryOK
  <2>4. ModesOK
    BY <2>1 DEF EditorInit, ModesOK
  <2> QED
    BY <2>3, <2>4, TypeParts
<1>2. EditorTypeOK /\ [EditorNext]_editorVars => EditorTypeOK'
  <2>1. EditorTypeOK /\ EditorNext => EditorTypeOK'
    BY NormalKeeps, EscapesKeep, SearchKeeps DEF EditorNext
  <2>2. EditorTypeOK /\ UNCHANGED editorVars => EditorTypeOK'
    BY DEF editorVars, EditorTypeOK
  <2> QED
    BY <2>1, <2>2
<1> QED
  BY <1>1, <1>2, PTL DEF EditorSpec

-----------------------------------------------------------------------------
(***************************************************************************)
(* What the terminal shows.  Each repaint, from a terminal that shows the  *)
(* line and the cursor, leaves one that does.                              *)
(***************************************************************************)
Shown(l, c) == [text |-> l, at |-> c]

LEMMA CellsAreUpTo ==
  ASSUME NEW l \in Seq(Char), NEW c \in 0 .. Len(l)
  PROVE  Cells(l, c) = UpTo(l, c)
<1>1. Len(l) \in Nat /\ c \in Nat /\ \A k \in 1 .. c : k <= Len(l) /\ l[k] \in Char
  BY ElementOfSeq, LenProperties
<1>2. /\ UpTo(l, c) \in Seq(Char) /\ Len(UpTo(l, c)) = c
      /\ \A k \in 1 .. c : UpTo(l, c)[k] = l[k]
  <2>1. \A k \in 1 .. c - 1 + 1 : SubSeq(l, 1, c)[k] = l[1 + k - 1]
    BY <1>1, SubSeqProperties
  <2>2. \A k \in 1 .. c : k \in 1 .. c - 1 + 1 /\ 1 + k - 1 = k
    BY <1>1
  <2> QED
    BY <2>1, <2>2, UpToType DEF UpTo
<1>3. /\ Cells(l, c) \in [1 .. c -> Char]
      /\ \A k \in 1 .. c : Cells(l, c)[k] = l[k]
  BY <1>1 DEF Cells
<1>4. Cells(l, c) \in Seq(Char) /\ Len(Cells(l, c)) = c
  BY <1>1, <1>3
<1> QED
  BY <1>2, <1>3, <1>4, SeqEqual

LEMMA UpToSelf ==
  ASSUME NEW l \in Seq(Char)
  PROVE  /\ UpTo(l, Len(l)) = l /\ UpTo(l, 0) = << >>
         /\ \A c \in 0 .. Len(l) : UpTo(UpTo(l, c), c) = UpTo(l, c)
<1>1. \A s \in Seq(Char) : UpTo(s, Len(s)) = s
  BY SubSeqFull DEF UpTo
<1>2. UpTo(l, 0) = << >>
  BY SubSeqEmpty DEF UpTo
<1>3. ASSUME NEW c \in 0 .. Len(l) PROVE UpTo(UpTo(l, c), c) = UpTo(l, c)
  <2>1. UpTo(l, c) \in Seq(Char) /\ Len(UpTo(l, c)) = c
    BY UpToType
  <2> QED
    BY <1>1, <2>1
<1> QED
  BY <1>1, <1>2, <1>3

\* What is typed covers the rest of the old text.
LEMMA Typed ==
  ASSUME NEW l \in Seq(Char), NEW c \in 0 .. Len(l), NEW s \in Seq(Char),
         Len(l) <= c + Len(s)
  PROVE  Type(Shown(l, c), s) = Shown(UpTo(l, c) \o s, c + Len(s))
<1>1. Len(l) \in Nat /\ c \in Nat /\ Len(s) \in Nat
  BY LenProperties
<1>2. From(l, c + Len(s)) = << >>
  <2>1. c + Len(s) + 1 \in Int /\ Len(l) < c + Len(s) + 1
    BY <1>1
  <2> QED
    BY <1>1, <2>1, SubSeqEmpty DEF From
<1>3. UpTo(l, c) \in Seq(Char) /\ UpTo(l, c) \o s \in Seq(Char)
  BY UpToType, JoinType
<1>4. (UpTo(l, c) \o s) \o << >> = UpTo(l, c) \o s
  BY <1>3, ConcatEmptySeq
<1>5. Type(Shown(l, c), s) = [text |-> Cells(l, c) \o s \o From(l, c + Len(s)), at |-> c + Len(s)]
  BY DEF Type, Shown
<1> QED
  BY <1>2, <1>4, <1>5, CellsAreUpTo DEF Shown

LEMMA Moved ==
  ASSUME NEW l, NEW c \in Nat, NEW n \in 0 .. c
  PROVE  /\ Back(Shown(l, c), n) = Shown(l, c - n)
         /\ n > 0 => Left(Shown(l, c), n) = Shown(l, c - n)
<1>1. n \in Nat /\ c - n \in Nat
  OBVIOUS
<1>2. ASSUME n > 0 PROVE Left(Shown(l, c), n) = Shown(l, c - n)
  <2>1. Left(Shown(l, c), n) = [Shown(l, c) EXCEPT !.at = IF n < @ THEN @ - n ELSE 0]
    BY <1>2 DEF Left
  <2>2. (IF n < c THEN c - n ELSE 0) = c - n
    OBVIOUS
  <2> QED
    BY <2>1, <2>2 DEF Shown
<1>3. CASE n > 0
  BY <1>2, <1>3 DEF Back
<1>4. CASE n = 0
  <2>1. c - n = c /\ ~ (n > 0)
    BY <1>4
  <2> QED
    BY <2>1, Zenon DEF Back
<1> QED
  BY <1>1, <1>2, <1>3, <1>4

LEMMA Erased ==
  ASSUME NEW l \in Seq(Char), NEW c \in 0 .. Len(l)
  PROVE  EraseEnd(Shown(l, c)) = Shown(UpTo(l, c), c)
<1>1. Len(l) \in Nat
  BY LenProperties
<1>2. (IF c < Len(l) THEN c ELSE Len(l)) = c
  BY <1>1
<1>3. EraseEnd(Shown(l, c)) = Shown(UpTo(l, IF c < Len(l) THEN c ELSE Len(l)), c)
  BY DEF EraseEnd, Shown
<1> QED
  BY <1>2, <1>3

\* The rest of the line is erased, and s typed in its place.
LEMMA Repainted ==
  ASSUME NEW l \in Seq(Char), NEW c \in 0 .. Len(l), NEW s \in Seq(Char)
  PROVE  /\ Type(EraseEnd(Shown(l, c)), s) = Shown(UpTo(l, c) \o s, c + Len(s))
         /\ Back(Type(EraseEnd(Shown(l, c)), s), Len(s)) = Shown(UpTo(l, c) \o s, c)
<1>1. Len(l) \in Nat /\ c \in Nat /\ Len(s) \in Nat
  BY LenProperties
<1>2. /\ UpTo(l, c) \in Seq(Char) /\ Len(UpTo(l, c)) = c
      /\ UpTo(UpTo(l, c), c) = UpTo(l, c)
  BY UpToType, UpToSelf
<1> DEFINE u == UpTo(l, c)  after == u \o s
<1> HIDE DEF u
<1>3. Type(Shown(u, c), s) = Shown(UpTo(u, c) \o s, c + Len(s))
  <2>1. c \in 0 .. Len(u) /\ Len(u) <= c + Len(s) /\ u \in Seq(Char)
    BY <1>1, <1>2 DEF u
  <2> QED
    BY <2>1, Typed
<1>4. Type(EraseEnd(Shown(l, c)), s) = Shown(after, c + Len(s))
  BY <1>2, <1>3, Erased DEF u
<1> HIDE DEF after
<1>5. Back(Shown(after, c + Len(s)), Len(s)) = Shown(after, (c + Len(s)) - Len(s))
  <2>1. c + Len(s) \in Nat /\ Len(s) \in 0 .. c + Len(s)
    BY <1>1
  <2> QED
    BY <2>1, Moved
<1>6. (c + Len(s)) - Len(s) = c
  BY <1>1
<1> QED
  BY <1>4, <1>5, <1>6 DEF after, u

LEMMA EraseShows ==
  ASSUME LineOK, NEW from \in 0 .. Len(line), NEW to \in Nat,
         Erase(from, to, Shown(line, from))
  PROVE  terminal' = Shown(line', cursor')
<1> DEFINE rest == From(line, to)
<1>1. rest \in Seq(Char) /\ line \in Seq(Char)
  BY FromType DEF LineOK
<1>2. /\ line' = UpTo(line, from) \o rest /\ cursor' = from
      /\ terminal' = Back(Type(EraseEnd(Shown(line, from)), rest), Len(rest))
  BY DEF Erase, Replace
<1> HIDE DEF rest
<1> QED
  BY <1>1, <1>2, Repainted

LEMMA InsertShows ==
  ASSUME LineOK, terminal = Shown(line, cursor), NEW ch \in Char, Insert(ch)
  PROVE  terminal' = Shown(line', cursor')
<1>1. /\ line \in Seq(Char) /\ Len(line) \in Nat /\ cursor \in 0 .. Len(line) /\ cursor \in Nat
  BY LenProperties DEF LineOK
<1> DEFINE rest == << ch >> \o From(line, cursor)  n == Len(rest)
<1>2. rest \in Seq(Char) /\ n = 1 + (Len(line) - cursor) /\ n \in Nat
  <2>1. /\ From(line, cursor) \in Seq(Char) /\ Len(From(line, cursor)) = Len(line) - cursor
        /\ << ch >> \in Seq(Char) /\ Len(<< ch >>) = 1
    BY <1>1, FromType
  <2>2. rest \in Seq(Char) /\ n = 1 + Len(From(line, cursor))
    BY <2>1, ConcatProperties
  <2> HIDE DEF rest
  <2> QED
    BY <1>1, <2>1, <2>2
<1>3. /\ line' = UpTo(line, cursor) \o rest /\ cursor' = cursor + 1
      /\ terminal' = Back(Type(Shown(line, cursor), rest), n - 1)
  BY DEF Insert, Replace
<1> HIDE DEF rest, n
<1> DEFINE l == UpTo(line, cursor) \o rest
<1>4. Type(Shown(line, cursor), rest) = Shown(l, cursor + n)
  <2>1. Len(line) <= cursor + Len(rest)
    BY <1>1, <1>2 DEF n
  <2> QED
    BY <1>1, <1>2, <2>1, Typed DEF n
<1> HIDE DEF l
<1>5. Back(Shown(l, cursor + n), n - 1) = Shown(l, (cursor + n) - (n - 1))
  <2>1. cursor + n \in Nat /\ n - 1 \in 0 .. cursor + n
    BY <1>1, <1>2
  <2> QED
    BY <2>1, Moved
<1>6. (cursor + n) - (n - 1) = cursor + 1
  BY <1>1, <1>2
<1> QED
  BY <1>3, <1>4, <1>5, <1>6 DEF l

LEMMA EditShows ==
  ASSUME LineOK, terminal = Shown(line, cursor),
         \/ Backspace \/ ToStart \/ ToEnd \/ CtrlK \/ CtrlU \/ (CtrlW /\ WordStart # cursor)
         \/ Restart \/ Idle \/ CursorLeft \/ CursorRight \/ DeleteRight
  PROVE  terminal' = Shown(line', cursor')
<1>1. /\ line \in Seq(Char) /\ Len(line) \in Nat /\ cursor \in 0 .. Len(line)
      /\ cursor \in Nat /\ cursor <= Len(line)
  BY LenProperties DEF LineOK
<1>2. CASE Backspace
  <2>1. cursor > 0 /\ Erase(cursor - 1, cursor, Left(Shown(line, cursor), 1))
    BY <1>2 DEF Backspace
  <2>2. cursor - 1 \in 0 .. Len(line) /\ 1 \in 0 .. cursor /\ 1 > 0
    BY <1>1, <2>1
  <2>3. Left(Shown(line, cursor), 1) = Shown(line, cursor - 1)
    BY <1>1, <2>2, Moved
  <2> QED
    BY <1>1, <2>1, <2>2, <2>3, EraseShows
<1>3. CASE CtrlW /\ WordStart # cursor
  <2> DEFINE n == cursor - WordStart
  <2>1. Erase(WordStart, cursor, Left(Shown(line, cursor), n))
    BY <1>3 DEF CtrlW
  <2>2. WordStart \in 0 .. cursor
    BY WordStartType
  <2>3. WordStart \in 0 .. Len(line) /\ n \in 0 .. cursor /\ n > 0 /\ cursor - n = WordStart
    BY <1>1, <1>3, <2>2
  <2> HIDE DEF n
  <2>4. Left(Shown(line, cursor), n) = Shown(line, WordStart)
    BY <1>1, <2>3, Moved
  <2> QED
    BY <1>1, <2>1, <2>3, <2>4, EraseShows
<1>4. CASE ToStart
  <2>1. line' = line /\ cursor' = 0 /\ terminal' = Back(Shown(line, cursor), cursor)
    BY <1>4 DEF ToStart, Replace
  <2>2. cursor \in 0 .. cursor /\ cursor - cursor = 0
    BY <1>1
  <2>3. Back(Shown(line, cursor), cursor) = Shown(line, cursor - cursor)
    BY <1>1, <2>2, Moved
  <2> QED
    BY <2>1, <2>2, <2>3
<1>5. CASE ToEnd
  <2>1. line' = line /\ cursor' = Len(line)
        /\ terminal' = Right(Shown(line, cursor), Len(line) - cursor)
    BY <1>5 DEF ToEnd, Replace
  <2>2. cursor + (Len(line) - cursor) = Len(line)
    BY <1>1
  <2>3. Right(Shown(line, cursor), Len(line) - cursor) = Shown(line, cursor + (Len(line) - cursor))
    BY DEF Right, Shown
  <2> QED
    BY <2>1, <2>2, <2>3
<1>6. CASE CtrlK
  BY <1>1, <1>6, Erased DEF CtrlK, Replace
<1>7. CASE CtrlU
  <2>1. line' = << >> /\ cursor' = 0
        /\ terminal' = EraseEnd(Back(Shown(line, cursor), cursor))
    BY <1>7 DEF CtrlU, Replace
  <2>2. cursor \in 0 .. cursor /\ cursor - cursor = 0 /\ 0 \in 0 .. Len(line)
    BY <1>1
  <2>3. Back(Shown(line, cursor), cursor) = Shown(line, cursor - cursor)
    BY <1>1, <2>2, Moved
  <2>4. EraseEnd(Shown(line, 0)) = Shown(UpTo(line, 0), 0)
    BY <1>1, <2>2, Erased
  <2>5. UpTo(line, 0) = << >>
    BY <1>1, UpToSelf
  <2> QED
    BY <2>1, <2>2, <2>3, <2>4, <2>5
<1>8. CASE Restart \/ Idle
  BY <1>8 DEF Restart, Idle, Replace, Prompt, Shown
<1>9. CASE CursorLeft
  <2>1. cursor > 0 /\ line' = line /\ cursor' = cursor - 1
        /\ terminal' = Left(Shown(line, cursor), 1)
    BY <1>9 DEF CursorLeft, Replace
  <2>2. 1 \in 0 .. cursor /\ 1 > 0
    BY <1>1, <2>1
  <2> QED
    BY <1>1, <2>1, <2>2, Moved
<1>10. CASE CursorRight
  BY <1>10 DEF CursorRight, Replace, Right, Shown
<1>11. CASE DeleteRight
  <2> DEFINE rest == From(line, cursor + 1)
  <2>1. rest \in Seq(Char)
    BY <1>1, FromType
  <2>2. /\ line' = UpTo(line, cursor) \o rest /\ cursor' = cursor
        /\ terminal' = Back(Type(EraseEnd(Shown(line, cursor)), rest), Len(rest))
    BY <1>11 DEF DeleteRight, Replace
  <2> HIDE DEF rest
  <2> QED
    BY <1>1, <2>1, <2>2, Repainted
<1> QED
  BY <1>2, <1>3, <1>4, <1>5, <1>6, <1>7, <1>8, <1>9, <1>10, <1>11

\* A line is written over an empty terminal.
LEMMA WrittenOut ==
  ASSUME NEW s \in Seq(Char)
  PROVE  Type(Prompt, s) = Shown(s, Len(s))
<1>1. /\ << >> \in Seq(Char) /\ 0 \in 0 .. Len(<< >>) /\ Len(s) \in Nat
      /\ Len(<< >>) <= 0 + Len(s) /\ 0 + Len(s) = Len(s)
  BY EmptySeq, LenProperties
<1>2. Prompt = Shown(<< >>, 0)
  BY DEF Prompt, Shown
<1>3. Type(Shown(<< >>, 0), s) = Shown(UpTo(<< >>, 0) \o s, 0 + Len(s))
  BY <1>1, Typed
<1>4. UpTo(<< >>, 0) \o s = s
  BY <1>1, UpToSelf, ConcatEmptySeq
<1> QED
  BY <1>1, <1>2, <1>3, <1>4

LEMMA CompleteShows ==
  ASSUME LineOK, terminal = Shown(line, cursor), cursor = Len(line),
         NEW text \in Seq(Char), Complete(text)
  PROVE  terminal' = Shown(line', cursor')
<1>1. line' = line \o text /\ cursor' = cursor + Len(text)
      /\ terminal' = Type(Shown(line, cursor), text)
  BY DEF Complete, Replace
<1>2. line \in Seq(Char) /\ Len(line) \in Nat /\ cursor \in 0 .. Len(line)
      /\ Len(line) <= cursor + Len(text)
  BY LenProperties DEF LineOK
<1>3. UpTo(line, cursor) = line
  BY <1>2, UpToSelf
<1> QED
  BY <1>1, <1>2, <1>3, Typed

LEMMA TabShows ==
  ASSUME LineOK, terminal = Shown(line, cursor), Tab, ~ CompletesInside
  PROVE  terminal' = Shown(line', cursor')
<1> DEFINE found == Completions
           more == From(CommonPrefix(found), Len(line))
<1>1. line \in Seq(Char) /\ Len(line) \in Nat /\ Space \in Char /\ cursor \in 0 .. Len(line)
  BY EditorAssumption, LenProperties DEF LineOK
<1>2. found # {} => more \in Seq(Char) /\ Append(more, Space) \in Seq(Char)
  <2>1. found \subseteq Seq(Char)
    BY EditorAssumption DEF Completions
  <2> HIDE DEF found
  <2>2. found # {} => more \in Seq(Char)
    BY <1>1, <2>1, CommonPrefixType, FromType
  <2> HIDE DEF more
  <2> QED
    BY <1>1, <2>2, AppendProperties
<1>3. Cardinality(found) = 1 \/ Cardinality(found) > 1 => found # {}
  BY FS_EmptySet
<1>4. found # {} => cursor = Len(line)
  BY <1>1 DEF CompletesInside
<1>5. \/ Idle
      \/ Cardinality(found) = 1 /\ Complete(Append(more, Space))
      \/ Cardinality(found) > 1 /\ Replace(line, cursor, Type(Prompt, line))
      \/ Cardinality(found) > 1 /\ Complete(more)
  BY DEF Tab
<1> HIDE DEF found, more
<1>6. CASE Idle
  BY <1>6, EditShows
<1>7. CASE Cardinality(found) = 1 /\ Complete(Append(more, Space))
  BY <1>2, <1>3, <1>4, <1>7, CompleteShows
<1>8. CASE Cardinality(found) > 1 /\ Replace(line, cursor, Type(Prompt, line))
  BY <1>1, <1>3, <1>4, <1>8, WrittenOut DEF Replace
<1>9. CASE Cardinality(found) > 1 /\ Complete(more)
  BY <1>2, <1>3, <1>4, <1>9, CompleteShows
<1> QED
  BY <1>5, <1>6, <1>7, <1>8, <1>9

LEMMA HistoryShows ==
  ASSUME LineOK, HistoryOK, terminal = Shown(line, cursor), HistoryUp \/ HistoryDown
  PROVE  terminal' = Shown(line', cursor')
<1>1. PICK l \in Seq(Char) : Recall(l)
  BY RecallsLine
<1>2. line' = l /\ cursor' = Len(l)
      /\ terminal' = Type(EraseEnd(Back(Shown(line, cursor), cursor)), l)
  BY <1>1 DEF Recall, Replace
<1>3. /\ line \in Seq(Char) /\ Len(line) \in Nat /\ cursor \in Nat /\ cursor \in 0 .. cursor
      /\ 0 \in 0 .. Len(line) /\ cursor - cursor = 0 /\ 0 + Len(l) = Len(l)
  BY LenProperties DEF LineOK
<1>4. Back(Shown(line, cursor), cursor) = Shown(line, cursor - cursor)
  BY <1>3, Moved
<1>5. Type(EraseEnd(Shown(line, 0)), l) = Shown(UpTo(line, 0) \o l, 0 + Len(l))
  BY <1>3, Repainted
<1>6. UpTo(line, 0) \o l = l
  BY <1>3, UpToSelf, ConcatEmptySeq
<1> QED
  BY <1>2, <1>3, <1>4, <1>5, <1>6

\* The terminal shows the line unless it is known not to; a search that began
\* with the line it hides has that line still when it is left, so it is empty
\* unless that is known too.
Echoes ==
  /\ ~ search /\ ~ stale => terminal = Shown(line, cursor)
  /\ search /\ ~ stale => line = << >>

LEMMA NormalShows ==
  ASSUME EditorTypeOK, Echoes, Normal
  PROVE  Echoes'
<1>1. LineOK /\ HistoryOK /\ ModesOK /\ ~ search
  BY TypeParts DEF Normal
<1>2. ~ stale => terminal = Shown(line, cursor)
  BY <1>1 DEF Echoes
<1>3. CASE Restart /\ search' = search
  BY <1>1, <1>3 DEF Restart, Replace, Prompt, Shown, Echoes
<1>4. CASE Tab /\ stale' = (stale \/ CompletesInside) /\ Keep
  BY <1>1, <1>2, <1>4, TabShows DEF Keep, Echoes
<1>5. ASSUME NEW ch \in Char, Insert(ch), stale' = stale, Keep
      PROVE  Echoes'
  BY <1>1, <1>2, <1>5, InsertShows DEF Keep, Echoes
<1>6. CASE (Backspace \/ ToStart \/ ToEnd \/ CtrlK \/ CtrlU) /\ stale' = stale /\ Keep
  BY <1>1, <1>2, <1>6, EditShows DEF Keep, Echoes
<1>7. CASE CtrlW /\ stale' = (stale \/ WordStart = cursor) /\ Keep
  BY <1>1, <1>2, <1>7, EditShows DEF Keep, Echoes
<1>8. CASE CtrlD /\ stale' = (line # << >>) /\ Keep
  <2>1. line' = line /\ cursor' = cursor /\ terminal' = Prompt
    BY <1>8 DEF CtrlD, Replace
  <2>2. line = << >> => cursor = 0
    BY <1>1, EmptySeq DEF LineOK
  <2> QED
    BY <1>1, <1>8, <2>1, <2>2 DEF Keep, Echoes, Prompt, Shown
<1>9. CASE ansi' = "Esc" /\ Idle /\ UNCHANGED << stale, history, recalled, search, query >>
  BY <1>1, <1>2, <1>9, EditShows DEF Echoes
<1>10. CASE search' = TRUE /\ stale' = (line # << >>) /\ Replace(line, cursor, Prompt)
  BY <1>10 DEF Replace, Echoes
<1> QED
  BY <1>3, <1>4, <1>5, <1>6, <1>7, <1>8, <1>9, <1>10 DEF Normal, Enter, Keep

LEMMA EscapesShow ==
  ASSUME EditorTypeOK, Echoes, Escape \/ Bracket \/ BracketNum
  PROVE  Echoes'
<1>1. LineOK /\ HistoryOK /\ ~ search /\ search' = search /\ stale' = stale
  BY TypeParts DEF Escape, Bracket, BracketNum
<1>2. \/ HistoryUp \/ HistoryDown
      \/ CursorRight \/ CursorLeft \/ ToStart \/ ToEnd \/ DeleteRight \/ Idle
  BY DEF Escape, Bracket, BracketNum
<1>3. ~ stale => terminal = Shown(line, cursor)
  BY <1>1 DEF Echoes
<1>4. ~ stale => terminal' = Shown(line', cursor')
  BY <1>1, <1>2, <1>3, HistoryShows, EditShows
<1> QED
  BY <1>1, <1>4 DEF Echoes

LEMMA SearchShows ==
  ASSUME EditorTypeOK, Echoes, SearchQuery \/ SearchEnter \/ SearchCancel
  PROVE  Echoes'
<1>1. LineOK /\ HistoryOK /\ search
  BY TypeParts DEF SearchQuery, SearchEnter, SearchCancel
<1>2. ~ stale => line = << >>
  BY <1>1 DEF Echoes
<1>3. CASE SearchQuery
  BY <1>2, <1>3 DEF SearchQuery, Idle, Echoes
<1>4. CASE SearchEnter
  <2>1. Found \in Seq(Char)
    BY <1>1, FoundType
  <2>2. terminal' = Shown(line', cursor')
    BY <1>4, <2>1, WrittenOut DEF SearchEnter, Replace
  <2> QED
    BY <1>4, <2>2 DEF SearchEnter, Echoes
<1>5. CASE SearchCancel
  <2>1. line' = line /\ cursor' = cursor /\ terminal' = Prompt /\ search' = FALSE /\ stale' = stale
    BY <1>5 DEF SearchCancel, Replace
  <2>2. line = << >> => cursor = 0
    BY <1>1, EmptySeq DEF LineOK
  <2> QED
    BY <1>2, <2>1, <2>2 DEF Echoes, Prompt, Shown
<1> QED
  BY <1>3, <1>4, <1>5

\* The terminal of serial_shell.rs shows the line and the cursor after any keys,
\* on a line of any length, unless one of the four repaints that are known to be
\* wrong came since the last prompt: the relative movements that each key's code
\* computes add up.
THEOREM EchoIsFaithful == EditorSpec => []EchoFaithful
<1>1. EditorInit => Echoes
  BY DEF EditorInit, Echoes, Prompt, Shown
<1>2. EditorTypeOK /\ Echoes /\ [EditorNext]_editorVars => Echoes'
  <2>1. EditorTypeOK /\ Echoes /\ EditorNext => Echoes'
    BY NormalShows, EscapesShow, SearchShows DEF EditorNext
  <2>2. Echoes /\ UNCHANGED editorVars => Echoes'
    BY DEF editorVars, Echoes
  <2> QED
    BY <2>1, <2>2
<1>3. Echoes => EchoFaithful
  BY DEF Echoes, EchoFaithful, Shown
<1> QED
  BY <1>1, <1>2, <1>3, EditorTypeInvariant, PTL DEF EditorSpec

-----------------------------------------------------------------------------
(***************************************************************************)
(* Storage.  The invariant: what each stage leaves in the kernel's         *)
(* variables, which requests the ring and the device hold, and what is on  *)
(* the disk and in the shared buffers.                                     *)
(***************************************************************************)
FileChunk == [tag : {"file"}, file : Nat, len : 1 .. MaxPieces, part : Nat, piece : Pieces]
HeaderChunk == [tag : {"header"}, total : 1 .. DiskChunks]
Chunk == {Blank} \cup FileChunk \cup HeaderChunk
Header == [write : BOOLEAN, sector : 1 .. DiskChunks]

\* The first chunks of the disk are those of a snapshot of these files.
OnDisk(files) ==
  \A i \in 1 .. Len(Serialize(files)) : disk[i] = Serialize(files)[i]

Loading == stage \in {"header", "image"}

StorageTyped ==
  /\ disk \in [1 .. DiskChunks -> Chunk]
  /\ stage \in {"header", "image", "save", "idle"}
  /\ fs \in FileSystems \cup {<< >>}
  /\ request \in {"none", "wait"} /\ sector \in 1 .. DiskChunks
  /\ image \in Seq(Chunk) /\ total \in Nat
  /\ hdrBuf \in Header /\ dataBuf \in Chunk /\ statusBuf \in {0, 1, 255}
  /\ avail \in 0 .. RingWidth - 1 /\ used \in 0 .. RingWidth - 1
  /\ taken \in Seq(Header)
  /\ faults \in 0 .. FaultBound /\ crashes \in Nat
  /\ saved \in FileSystems \cup {<< >>}
  /\ late \in BOOLEAN /\ spoilt \in BOOLEAN

(* What the stages leave in the kernel's variables.                          *)
StageSound ==
  /\ stage \in {"save", "idle"} => fs \in FileSystems
  /\ stage = "idle" => request = "none" /\ image = << >> /\ sector = 1
  /\ stage = "save" => image = Serialize(fs) /\ sector <= Len(image)
  /\ stage = "header" => image = << >> /\ sector = 1
  /\ stage = "image" => Len(image) = sector - 1 /\ sector <= total /\ total <= DiskChunks

(* The ring holds abandoned requests and perhaps the one that is waited for,  *)
(* and that one is the last the device will take.                            *)
RingSound ==
  /\ Len(taken) <= Outstanding
  /\ Outstanding <= faults + 1 /\ (request = "none" => Outstanding <= faults)
  /\ request = "wait" => hdrBuf = [write |-> stage = "save", sector |-> sector]
  /\ request = "wait" /\ Outstanding > 0 /\ Len(taken) = Outstanding =>
       taken[Len(taken)] = hdrBuf

(* A load, and a save that has completed a chunk, has nothing under way but   *)
(* its own request.                                                          *)
Alone ==
  Loading \/ (stage = "save" /\ sector > 1) =>
    Outstanding <= 1 /\ (request = "none" => Outstanding = 0)

NoReads ==
  stage \in {"save", "idle"} /\ ~ late =>
    /\ \A i \in 1 .. Len(taken) : taken[i].write
    /\ Len(taken) < Outstanding => hdrBuf.write

SaveSound ==
  stage = "save" /\ ~ late =>
    /\ \A i \in 1 .. sector - 1 : disk[i] = image[i]
    /\ request = "wait" => dataBuf = image[sector]
    /\ request = "wait" /\ used = avail /\ statusBuf = 0 => disk[sector] = image[sector]

LoadSound ==
  /\ Loading /\ request = "wait" /\ used = avail /\ statusBuf = 0 => dataBuf = disk[sector]
  /\ stage = "image" => /\ \A i \in 1 .. sector - 1 : image[i] = disk[i]
                        /\ disk[1].tag = "header" /\ disk[1].total = total

SavedSound ==
  stage # "save" /\ ~ spoilt =>
    /\ saved # << >> => OnDisk(saved)
    /\ stage = "idle" => Outstanding = 0

StorageInv ==
  /\ StorageTyped /\ StageSound /\ RingSound /\ Alone /\ NoReads
  /\ SaveSound /\ LoadSound /\ SavedSound
-----------------------------------------------------------------------------
(* A snapshot, and what is read from it.                                     *)
NumFiles == Len(Paths)

LEMMA Sizes ==
  /\ NumFiles \in Nat \ {0} /\ MaxPieces \in Nat \ {0}
  /\ DiskChunks \in Nat \ {0} /\ 1 + MaxPieces * NumFiles <= DiskChunks
<1>1. NumFiles \in Nat \ {0}
  BY StorageAssumption, EmptySeq DEF NumFiles
<1>2. MaxPieces * NumFiles \in Nat
  <2>1. \A a, b \in Nat : a * b \in Nat
    OBVIOUS
  <2> QED
    BY <1>1, <2>1, StorageAssumption
<1> QED
  BY <1>1, <1>2, StorageAssumption DEF NumFiles

LEMMA ContentFacts ==
  ASSUME NEW content \in Contents
  PROVE  /\ Len(content) \in 1 .. MaxPieces /\ content \in Seq(Pieces)
         /\ content \in [1 .. Len(content) -> Pieces]
<1>1. PICK n \in 1 .. MaxPieces : content \in [1 .. n -> Pieces]
  BY DEF Contents
<1>2. n \in Nat
  BY Sizes
<1>3. content \in Seq(Pieces) /\ Len(content) = n
  BY <1>1, <1>2
<1> QED
  BY <1>1, <1>3

LEMMA FileChunksFacts ==
  ASSUME NEW f \in Nat, NEW content \in Contents
  PROVE  /\ FileChunks(f, content) \in Seq(FileChunk)
         /\ Len(FileChunks(f, content)) = Len(content)
         /\ \A k \in 1 .. Len(content) :
              FileChunks(f, content)[k] =
                [tag |-> "file", file |-> f, len |-> Len(content), part |-> k,
                 piece |-> content[k]]
<1> DEFINE n == Len(content)  c == FileChunks(f, content)
<1>1. n \in 1 .. MaxPieces /\ n \in Nat /\ content \in [1 .. n -> Pieces]
  BY ContentFacts, Sizes
<1> HIDE DEF n
<1>2. c = [k \in 1 .. n |-> [tag |-> "file", file |-> f, len |-> n, part |-> k,
                             piece |-> content[k]]]
  BY DEF FileChunks, n
<1>3. c \in [1 .. n -> FileChunk]
  <2>1. ASSUME NEW k \in 1 .. n
        PROVE  [tag |-> "file", file |-> f, len |-> n, part |-> k, piece |-> content[k]]
                 \in FileChunk
    <3>1. k \in Nat /\ content[k] \in Pieces
      BY <1>1
    <3> QED
      BY <1>1, <3>1 DEF FileChunk
  <2> QED
    BY <1>2, <2>1
<1>4. c \in Seq(FileChunk) /\ Len(c) = n
  <2> HIDE DEF c
  <2> QED
    BY <1>1, <1>3
<1> QED
  BY <1>2, <1>4 DEF n

BodySteps(files, u) ==
  /\ u[0] = << >>
  /\ \A f \in 1 .. NumFiles : u[f] = u[f - 1] \o FileChunks(f, files[f])

LEMMA BodyUnfold ==
  ASSUME NEW files \in FileSystems
  PROVE  \E u : BodySteps(files, u) /\ Body(files) = u[NumFiles]
<1> DEFINE n == NumFiles
           S == Seq(FileChunk)
           step == [x \in (1 .. n) \X S |-> x[2] \o FileChunks(x[1], files[x[1]])]
           Def(u) == u = [f \in 0 .. n |->
                            IF f = 0 THEN << >> ELSE u[f - 1] \o FileChunks(f, files[f])]
<1>1. n \in Nat /\ << >> \in S
  BY Sizes, EmptySeq
<1>2. step \in [(1 .. n) \X S -> S]
  <2> SUFFICES ASSUME NEW i \in 1 .. n, NEW s \in S
               PROVE  s \o FileChunks(i, files[i]) \in S
    OBVIOUS
  <2>1. i \in Nat /\ files[i] \in Contents
    BY <1>1 DEF FileSystems, NumFiles
  <2>2. FileChunks(i, files[i]) \in S
    BY <2>1, FileChunksFacts
  <2> QED
    BY <2>2, ConcatProperties
<1>3. PICK u : IsIterate(u, S, << >>, n, step)
  <2> HIDE DEF S, step, n
  <2> QED
    BY <1>1, <1>2, Iterates
<1>4. ASSUME NEW i \in 1 .. n PROVE u[i] = u[i - 1] \o FileChunks(i, files[i])
  <2>1. i - 1 \in 0 .. n
    BY <1>1
  <2>2. u[i - 1] \in S
    BY <1>3, <2>1 DEF IsIterate
  <2>3. << i, u[i - 1] >> \in (1 .. n) \X S
    BY <2>2
  <2>4. u[i] = step[<< i, u[i - 1] >>]
    BY <1>3 DEF IsIterate
  <2> QED
    BY <2>3, <2>4
<1> HIDE DEF step, S
<1>5. Def(u)
  <2>1. ASSUME NEW i \in 0 .. n
        PROVE  u[i] = IF i = 0 THEN << >> ELSE u[i - 1] \o FileChunks(i, files[i])
    <3>1. CASE i = 0
      BY <1>3, <3>1 DEF IsIterate
    <3>2. CASE i # 0
      <4>1. i \in 1 .. n
        BY <1>1, <3>2
      <4> QED
        BY <1>4, <3>2, <4>1
    <3> QED
      BY <3>1, <3>2
  <2>2. u \in [0 .. n -> S]
    BY <1>3 DEF IsIterate
  <2> QED
    BY <2>1, <2>2
<1> DEFINE g == CHOOSE h : Def(h)
<1>6. Def(g)
  BY <1>5
<1>7. Body(files) = g[n]
  BY DEF Body, NumFiles
<1> HIDE DEF g
<1>8. BodySteps(files, g)
  <2>1. g = [f \in 0 .. n |-> IF f = 0 THEN << >> ELSE g[f - 1] \o FileChunks(f, files[f])]
    BY <1>6
  <2>2. 0 \in 0 .. n /\ \A i \in 1 .. n : i \in 0 .. n /\ i # 0
    BY <1>1
  <2> HIDE DEF n
  <2>3. \A f \in 0 .. n :
          g[f] = IF f = 0 THEN << >> ELSE g[f - 1] \o FileChunks(f, files[f])
    BY <2>1, Zenon
  <2> QED
    BY <2>2, <2>3 DEF BodySteps, n
<1> QED
  BY <1>7, <1>8

\* at[f]: how many chunks come before those of file f + 1.
Laid(files, at, bytes) ==
  /\ at \in [0 .. NumFiles -> Nat]
  /\ at[0] = 0 /\ at[NumFiles] = Len(bytes)
  /\ \A f \in 1 .. NumFiles :
       /\ at[f] = at[f - 1] + Len(files[f]) /\ at[f] <= Len(bytes)
       /\ \A k \in 1 .. Len(files[f]) :
            bytes[at[f - 1] + k] = FileChunks(f, files[f])[k]

\* A sequence of the chunks of the first g files.
LaidUpTo(files, u, g) ==
  /\ u[g] \in Seq(FileChunk) /\ Len(u[g]) <= MaxPieces * g
  /\ \A f \in 1 .. g :
       /\ Len(u[f - 1]) \in Nat
       /\ Len(u[f]) = Len(u[f - 1]) + Len(files[f]) /\ Len(u[f]) <= Len(u[g])
       /\ \A k \in 1 .. Len(files[f]) :
            u[g][Len(u[f - 1]) + k] = FileChunks(f, files[f])[k]

LEMMA LaysOne ==
  ASSUME NEW files \in FileSystems, NEW u, BodySteps(files, u), NEW g \in 1 .. NumFiles,
         LaidUpTo(files, u, g - 1)
  PROVE  LaidUpTo(files, u, g)
<1> DEFINE a == u[g - 1]  b == FileChunks(g, files[g])  p == Len(a)  q == Len(files[g])
<1>1. /\ a \in Seq(FileChunk) /\ p <= MaxPieces * (g - 1) /\ p \in Nat
  BY LenProperties DEF LaidUpTo
<1>2. g \in Nat /\ g - 1 \in Nat /\ files[g] \in Contents
  BY Sizes DEF FileSystems, NumFiles
<1>3. b \in Seq(FileChunk) /\ Len(b) = q /\ q \in Nat /\ q <= MaxPieces
  <2>1. q \in 1 .. MaxPieces /\ MaxPieces \in Nat
    BY <1>2, ContentFacts, Sizes
  <2>2. b \in Seq(FileChunk) /\ Len(b) = q
    BY <1>2, FileChunksFacts
  <2> HIDE DEF b, q
  <2> QED
    BY <2>1, <2>2
<1>4. u[g] = a \o b
  BY DEF BodySteps
<1> HIDE DEF p, q, b, a
<1>5. /\ u[g] \in Seq(FileChunk) /\ Len(u[g]) = p + q
      /\ \A i \in 1 .. p + q : u[g][i] = IF i <= p THEN a[i] ELSE b[i - p]
  <2> DEFINE c == a \o b
  <2>1. /\ c \in Seq(FileChunk) /\ Len(c) = Len(a) + Len(b)
        /\ \A i \in 1 .. Len(a) + Len(b) : c[i] = IF i <= Len(a) THEN a[i] ELSE b[i - Len(a)]
    BY <1>1, <1>3, ConcatProperties
  <2> HIDE DEF c
  <2> QED
    BY <1>3, <1>4, <2>1 DEF p, c
<1>6. Len(u[g]) <= MaxPieces * g
  <2>1. MaxPieces * g = MaxPieces * (g - 1) + MaxPieces
    BY <1>2, Sizes
  <2>2. MaxPieces * (g - 1) \in Nat
    <3>1. \A x, y \in Nat : x * y \in Nat
      OBVIOUS
    <3> QED
      BY <1>2, <3>1, Sizes
  <2> HIDE DEF NumFiles
  <2> QED
    BY <1>1, <1>3, <1>5, <2>1, <2>2, Sizes
<1>7. ASSUME NEW f \in 1 .. g
      PROVE  /\ Len(u[f - 1]) \in Nat
             /\ Len(u[f]) = Len(u[f - 1]) + Len(files[f]) /\ Len(u[f]) <= Len(u[g])
             /\ \A k \in 1 .. Len(files[f]) :
                  u[g][Len(u[f - 1]) + k] = FileChunks(f, files[f])[k]
  <2>1. CASE f = g
    <3>1. Len(u[f - 1]) = p /\ Len(files[f]) = q /\ FileChunks(f, files[f]) = b
      BY <2>1 DEF p, q, a, b
    <3>2. ASSUME NEW k \in 1 .. q PROVE u[g][p + k] = b[k]
      <4>1. p + k \in 1 .. p + q /\ ~ (p + k <= p) /\ (p + k) - p = k
        BY <1>1, <1>3
      <4>2. u[g][p + k] = IF p + k <= p THEN a[p + k] ELSE b[(p + k) - p]
        BY <1>5, <4>1
      <4> QED
        BY <4>1, <4>2
    <3> QED
      BY <1>1, <1>3, <1>5, <2>1, <3>1, <3>2
  <2>2. CASE f # g
    <3>1. f \in 1 .. g - 1
      BY <1>2, <2>2
    <3> DEFINE r == Len(u[f - 1])  s == Len(files[f])
    <3>2. /\ r \in Nat /\ Len(u[f]) = r + s /\ Len(u[f]) <= Len(u[g - 1])
          /\ \A k \in 1 .. s : u[g - 1][r + k] = FileChunks(f, files[f])[k]
      BY <3>1 DEF LaidUpTo
    <3>3. s \in Nat
      <4>1. files[f] \in Contents
        BY <1>2, <3>1 DEF FileSystems, NumFiles
      <4> QED
        BY <4>1, ContentFacts, Sizes
    <3> HIDE DEF r, s
    <3>4. r + s <= p
      BY <3>2 DEF p, a
    <3>5. ASSUME NEW k \in 1 .. s PROVE u[g][r + k] = a[r + k]
      <4>1. r + k \in 1 .. p + q /\ r + k <= p
        BY <1>1, <1>3, <3>2, <3>3, <3>4
      <4> QED
        BY <1>5, <4>1
    <3>6. Len(u[f]) <= Len(u[g])
      BY <1>1, <1>3, <1>5, <3>2, <3>3, <3>4
    <3> QED
      BY <3>2, <3>5, <3>6 DEF r, s, a
  <2> QED
    BY <2>1, <2>2
<1> QED
  BY <1>5, <1>6, <1>7 DEF LaidUpTo

LEMMA BodyFacts ==
  ASSUME NEW files \in FileSystems
  PROVE  /\ Body(files) \in Seq(FileChunk)
         /\ Len(Body(files)) <= MaxPieces * NumFiles
         /\ \E at : Laid(files, at, Body(files))
<1>1. PICK u : BodySteps(files, u) /\ Body(files) = u[NumFiles]
  BY BodyUnfold
<1> DEFINE Good == {g \in 0 .. NumFiles : LaidUpTo(files, u, g)}
<1>2. 0 \in Good
  <2>1. u[0] = << >> /\ << >> \in Seq(FileChunk) /\ Len(<< >>) = 0
    BY <1>1, EmptySeq DEF BodySteps
  <2>2. MaxPieces * 0 = 0 /\ 0 \in 0 .. NumFiles /\ 1 .. 0 = {}
    BY Sizes
  <2>3. u[0] \in Seq(FileChunk) /\ Len(u[0]) <= MaxPieces * 0
    BY <2>1, <2>2
  <2>4. LaidUpTo(files, u, 0)
    BY <2>2, <2>3 DEF LaidUpTo
  <2> QED
    BY <2>2, <2>4
<1>3. \A g \in 1 .. NumFiles : g - 1 \in Good => g \in Good
  <2> SUFFICES ASSUME NEW g \in 1 .. NumFiles, g - 1 \in Good PROVE g \in Good
    OBVIOUS
  <2>1. LaidUpTo(files, u, g)
    BY <1>1, LaysOne
  <2>2. g \in 0 .. NumFiles
    BY Sizes
  <2> QED
    BY <2>1, <2>2
<1> HIDE DEF Good
<1>4. \A g \in 0 .. NumFiles : g \in Good
  BY <1>2, <1>3, Sizes, InductUpTo
<1>5. \A g \in 0 .. NumFiles : LaidUpTo(files, u, g)
  BY <1>4 DEF Good
<1>6. LaidUpTo(files, u, NumFiles)
  BY <1>5, Sizes
<1> DEFINE at == [f \in 0 .. NumFiles |-> Len(u[f])]
<1>7. Laid(files, at, u[NumFiles])
  <2>1. \A f \in 0 .. NumFiles : Len(u[f]) \in Nat
    BY <1>5, LenProperties DEF LaidUpTo
  <2>2. u[0] = << >> /\ Len(<< >>) = 0
    BY <1>1, EmptySeq DEF BodySteps
  <2>3. /\ 0 \in 0 .. NumFiles /\ NumFiles \in 0 .. NumFiles
        /\ \A f \in 1 .. NumFiles : f \in 0 .. NumFiles /\ f - 1 \in 0 .. NumFiles
    BY Sizes
  <2>4. at \in [0 .. NumFiles -> Nat] /\ at[0] = 0 /\ at[NumFiles] = Len(u[NumFiles])
    BY <2>1, <2>2, <2>3
  <2>5. \A f \in 1 .. NumFiles : at[f] = Len(u[f]) /\ at[f - 1] = Len(u[f - 1])
    BY <2>3
  <2> HIDE DEF at
  <2> QED
    BY <1>6, <2>4, <2>5 DEF Laid, LaidUpTo
<1> QED
  BY <1>1, <1>6, <1>7 DEF LaidUpTo

LEMMA SerializeFacts ==
  ASSUME NEW files \in FileSystems
  PROVE  LET bytes == Serialize(files)
             n == Len(Body(files))
         IN  /\ bytes \in Seq(Chunk) /\ Len(bytes) = 1 + n /\ n \in Nat
             /\ 1 + n <= DiskChunks
             /\ bytes[1] = [tag |-> "header", total |-> 1 + n]
             /\ \A i \in 1 .. n : bytes[1 + i] = Body(files)[i]
<1> DEFINE b == Body(files)  n == Len(b)  h == [tag |-> "header", total |-> 1 + n]
<1>1. b \in Seq(FileChunk) /\ n \in Nat /\ n <= MaxPieces * NumFiles
  BY BodyFacts, LenProperties
<1> HIDE DEF n
<1>2. 1 + n <= DiskChunks /\ 1 + n \in 1 .. DiskChunks
  <2>1. MaxPieces * NumFiles \in Nat
    <3>1. \A x, y \in Nat : x * y \in Nat
      OBVIOUS
    <3> QED
      BY <3>1, Sizes
  <2> QED
    BY <1>1, <2>1, Sizes
<1>3. h \in Chunk /\ b \in Seq(Chunk)
  <2>1. h \in HeaderChunk
    BY <1>2 DEF HeaderChunk
  <2>2. FileChunk \subseteq Chunk
    BY DEF Chunk
  <2>3. b \in Seq(Chunk)
    BY <1>1, <2>2, SeqMonotonic
  <2> QED
    BY <2>1, <2>3 DEF Chunk
<1> HIDE DEF b, h
<1>4. /\ << h >> \in Seq(Chunk) /\ Len(<< h >>) = 1 /\ << h >>[1] = h
  BY <1>3
<1>5. Serialize(files) = << h >> \o b
  BY DEF Serialize, h, n, b
<1> DEFINE s == << h >> \o b
<1>6. /\ s \in Seq(Chunk) /\ Len(s) = 1 + n
      /\ \A i \in 1 .. 1 + n : s[i] = IF i <= 1 THEN << h >>[i] ELSE b[i - 1]
  <2>1. /\ s \in Seq(Chunk) /\ Len(s) = Len(<< h >>) + Len(b)
        /\ \A i \in 1 .. Len(<< h >>) + Len(b) :
             s[i] = IF i <= Len(<< h >>) THEN << h >>[i] ELSE b[i - Len(<< h >>)]
    BY <1>3, <1>4, ConcatProperties
  <2> HIDE DEF s
  <2> QED
    BY <1>4, <2>1 DEF n
<1> HIDE DEF s
<1>7. s[1] = h
  BY <1>1, <1>4, <1>6
<1>8. ASSUME NEW i \in 1 .. n PROVE s[1 + i] = b[i]
  <2>1. 1 + i \in 1 .. 1 + n /\ ~ (1 + i <= 1) /\ (1 + i) - 1 = i
    BY <1>1
  <2>2. s[1 + i] = IF 1 + i <= 1 THEN << h >>[1 + i] ELSE b[(1 + i) - 1]
    BY <1>6, <2>1
  <2> QED
    BY <2>1, <2>2
<1> QED
  BY <1>1, <1>2, <1>5, <1>6, <1>7, <1>8 DEF s, h, n, b

StartStep(bytes, p) ==
  IF p \in 1 .. Len(bytes) /\ bytes[p].tag = "file" THEN p + bytes[p].len ELSE 0
StartSteps(bytes, s) ==
  /\ s \in [0 .. NumFiles -> Nat] /\ s[0] = 2
  /\ \A f \in 1 .. NumFiles : s[f] = StartStep(bytes, s[f - 1])

LEMMA ChunkTags ==
  ASSUME NEW c \in Chunk
  PROVE  /\ c.tag = "file" => c \in FileChunk
         /\ c.tag = "header" => c \in HeaderChunk
BY DEF Chunk, Blank, FileChunk, HeaderChunk

LEMMA StepType ==
  ASSUME NEW bytes \in Seq(Chunk), NEW p \in Nat
  PROVE  StartStep(bytes, p) \in Nat
<1> SUFFICES ASSUME p \in 1 .. Len(bytes), bytes[p].tag = "file"
             PROVE  p + bytes[p].len \in Nat
  BY DEF StartStep
<1>1. bytes[p] \in Chunk
  BY ElementOfSeq
<1>2. bytes[p].len \in 1 .. MaxPieces
  <2>1. bytes[p] \in FileChunk
    BY <1>1, ChunkTags
  <2> QED
    BY <2>1 DEF FileChunk
<1> QED
  BY <1>2, Sizes

LEMMA StartUnfold ==
  ASSUME NEW bytes \in Seq(Chunk)
  PROVE  StartSteps(bytes, Start(bytes))
<1> DEFINE n == NumFiles
           step == [x \in (1 .. n) \X Nat |-> StartStep(bytes, x[2])]
           Def(u) == u = [f \in 0 .. n |->
                            IF f = 0 THEN 2
                            ELSE IF u[f - 1] \in 1 .. Len(bytes)
                                    /\ bytes[u[f - 1]].tag = "file"
                                 THEN u[f - 1] + bytes[u[f - 1]].len
                                 ELSE 0]
<1>1. n \in Nat /\ 2 \in Nat
  BY Sizes
<1>2. step \in [(1 .. n) \X Nat -> Nat]
  <2> SUFFICES ASSUME NEW i \in 1 .. n, NEW p \in Nat PROVE StartStep(bytes, p) \in Nat
    OBVIOUS
  <2> QED
    BY StepType
<1>3. PICK u : IsIterate(u, Nat, 2, n, step)
  <2> HIDE DEF step, n
  <2> QED
    BY <1>1, <1>2, Iterates
<1>4. ASSUME NEW i \in 1 .. n PROVE u[i] = StartStep(bytes, u[i - 1])
  <2>1. i - 1 \in 0 .. n
    BY <1>1
  <2>2. u[i - 1] \in Nat
    BY <1>3, <2>1 DEF IsIterate
  <2>3. << i, u[i - 1] >> \in (1 .. n) \X Nat
    BY <2>2
  <2>4. u[i] = step[<< i, u[i - 1] >>]
    BY <1>3 DEF IsIterate
  <2> QED
    BY <2>3, <2>4
<1> HIDE DEF step
<1>5. Def(u)
  <2>1. ASSUME NEW i \in 0 .. n
        PROVE  u[i] = IF i = 0 THEN 2 ELSE StartStep(bytes, u[i - 1])
    <3>1. CASE i = 0
      BY <1>3, <3>1 DEF IsIterate
    <3>2. CASE i # 0
      <4>1. i \in 1 .. n
        BY <1>1, <3>2
      <4> QED
        BY <1>4, <3>2, <4>1
    <3> QED
      BY <3>1, <3>2
  <2>2. u \in [0 .. n -> Nat]
    BY <1>3 DEF IsIterate
  <2>3. u = [f \in 0 .. n |-> IF f = 0 THEN 2 ELSE StartStep(bytes, u[f - 1])]
    BY <2>1, <2>2
  <2> QED
    BY <2>3, Zenon DEF StartStep
<1> DEFINE g == CHOOSE h : Def(h)
<1>6. Def(g)
  BY <1>5
<1>7. Start(bytes) = g
  BY DEF Start, NumFiles
<1> HIDE DEF g
<1>8. /\ DOMAIN g = 0 .. n /\ g = [f \in 0 .. n |-> g[f]] /\ g[0] = 2
      /\ \A f \in 1 .. n : g[f] = StartStep(bytes, g[f - 1])
  <2>1. g = [f \in 0 .. n |-> IF f = 0 THEN 2 ELSE StartStep(bytes, g[f - 1])]
    BY <1>6, Zenon DEF StartStep
  <2>2. 0 \in 0 .. n /\ \A i \in 1 .. n : i \in 0 .. n /\ i # 0
    BY <1>1
  <2> HIDE DEF n
  <2>3. \A f \in 0 .. n : g[f] = IF f = 0 THEN 2 ELSE StartStep(bytes, g[f - 1])
    BY <2>1, Zenon
  <2>4. DOMAIN g = 0 .. n /\ g = [f \in 0 .. n |-> g[f]]
    BY <2>1
  <2> QED
    BY <2>2, <2>3, <2>4
<1>9. \A f \in 0 .. n : g[f] \in Nat
  <2> DEFINE Good == {f \in 0 .. n : g[f] \in Nat}
  <2>1. 0 \in Good
    BY <1>1, <1>8
  <2>2. \A f \in 1 .. n : f - 1 \in Good => f \in Good
    <3> SUFFICES ASSUME NEW f \in 1 .. n, f - 1 \in Good PROVE f \in Good
      OBVIOUS
    <3>1. g[f] \in Nat
      BY <1>8, StepType
    <3>2. f \in 0 .. n
      BY <1>1
    <3> QED
      BY <3>1, <3>2
  <2> HIDE DEF Good, n
  <2>3. \A f \in 0 .. n : f \in Good
    BY <1>1, <2>1, <2>2, InductUpTo
  <2> QED
    BY <2>3 DEF Good
<1> QED
  BY <1>7, <1>8, <1>9 DEF StartSteps

(* Whatever is readable is a file system.                                    *)
LEMMA ReadableTyped ==
  ASSUME NEW bytes \in Seq(Chunk), Readable(bytes)
  PROVE  Deserialize(bytes) \in FileSystems
<1> DEFINE s == Start(bytes)  n == NumFiles  L == Len(bytes)
<1>1. /\ s \in [0 .. n -> Nat] /\ s[0] = 2
      /\ \A f \in 1 .. n : s[f] = StartStep(bytes, s[f - 1])
  BY StartUnfold DEF StartSteps
<1>2. s[n] \in 1 .. L + 1 /\ \A i \in 2 .. s[n] - 1 : bytes[i].tag = "file"
  BY DEF Readable, NumFiles
<1>3. L \in Nat /\ n \in Nat
  BY LenProperties, Sizes
<1> HIDE DEF s, n, L
<1>4. \A f \in 1 .. n : s[f] # 0 =>
        /\ s[f - 1] \in 1 .. L /\ bytes[s[f - 1]].tag = "file" /\ bytes[s[f - 1]] \in FileChunk
        /\ s[f] = s[f - 1] + bytes[s[f - 1]].len
        /\ bytes[s[f - 1]].len \in 1 .. MaxPieces
  <2> SUFFICES ASSUME NEW f \in 1 .. n, s[f] # 0
               PROVE  /\ s[f - 1] \in 1 .. L /\ bytes[s[f - 1]].tag = "file"
                      /\ bytes[s[f - 1]] \in FileChunk
                      /\ s[f] = s[f - 1] + bytes[s[f - 1]].len
                      /\ bytes[s[f - 1]].len \in 1 .. MaxPieces
    OBVIOUS
  <2>1. /\ s[f - 1] \in 1 .. L /\ bytes[s[f - 1]].tag = "file"
        /\ s[f] = s[f - 1] + bytes[s[f - 1]].len
    BY <1>1 DEF StartStep, L
  <2>2. bytes[s[f - 1]] \in Chunk
    BY <2>1, ElementOfSeq DEF L
  <2>3. bytes[s[f - 1]] \in FileChunk
    BY <2>1, <2>2, ChunkTags
  <2>4. bytes[s[f - 1]].len \in 1 .. MaxPieces
    BY <2>3 DEF FileChunk
  <2> QED
    BY <2>1, <2>3, <2>4
(* From the last file back: no position is 0, and none is past the end.      *)
<1>5. \A d \in 0 .. n : s[n - d] # 0 /\ s[n - d] <= s[n]
  <2> DEFINE Good == {d \in 0 .. n : s[n - d] # 0 /\ s[n - d] <= s[n]}
  <2>1. 0 \in Good
    <3>1. n - 0 = n /\ 0 \in 0 .. n
      BY <1>3
    <3> QED
      BY <1>2, <3>1
  <2>2. \A d \in 1 .. n : d - 1 \in Good => d \in Good
    <3> SUFFICES ASSUME NEW d \in 1 .. n, d - 1 \in Good PROVE d \in Good
      OBVIOUS
    <3> DEFINE f == n - (d - 1)
    <3>1. f \in 1 .. n /\ f - 1 = n - d /\ d \in 0 .. n
      BY <1>3
    <3>2. s[f] # 0 /\ s[f] <= s[n]
      OBVIOUS
    <3> HIDE DEF f
    <3>3. /\ s[f - 1] \in 1 .. L /\ s[f] = s[f - 1] + bytes[s[f - 1]].len
          /\ bytes[s[f - 1]].len \in 1 .. MaxPieces
      BY <1>4, <3>1, <3>2
    <3>4. s[f - 1] # 0 /\ s[f - 1] <= s[n]
      <4> DEFINE p == s[f - 1]  q == bytes[p].len  r == s[f]  t == s[n]
      <4>1. /\ p \in Nat \ {0} /\ q \in Nat /\ t \in Nat /\ r = p + q /\ r <= t
        BY <1>2, <1>3, <3>2, <3>3, Sizes
      <4> HIDE DEF p, q, r, t
      <4>2. p # 0 /\ p <= t
        BY <4>1
      <4> QED
        BY <4>2 DEF p, t
    <3> QED
      BY <3>1, <3>4
  <2> HIDE DEF Good
  <2>3. \A d \in 0 .. n : d \in Good
    BY <1>3, <2>1, <2>2, InductUpTo
  <2> QED
    BY <2>3 DEF Good
<1>6. \A f \in 0 .. n : s[f] # 0 /\ s[f] <= s[n]
  <2> SUFFICES ASSUME NEW f \in 0 .. n PROVE s[f] # 0 /\ s[f] <= s[n]
    OBVIOUS
  <2>1. n - f \in 0 .. n /\ n - (n - f) = f
    BY <1>3
  <2> QED
    BY <1>5, <2>1
<1>7. \A f \in 0 .. n : 2 <= s[f]
  <2> DEFINE Good == {f \in 0 .. n : 2 <= s[f]}
  <2>1. 0 \in Good
    BY <1>1, <1>3
  <2>2. \A f \in 1 .. n : f - 1 \in Good => f \in Good
    <3> SUFFICES ASSUME NEW f \in 1 .. n, f - 1 \in Good PROVE f \in Good
      OBVIOUS
    <3>1. f \in 0 .. n /\ 2 <= s[f - 1]
      BY <1>3
    <3>2. s[f - 1] \in 1 .. L /\ s[f] = s[f - 1] + bytes[s[f - 1]].len
          /\ bytes[s[f - 1]].len \in 1 .. MaxPieces
      BY <1>4, <1>6, <3>1
    <3>3. 2 <= s[f]
      <4> DEFINE p == s[f - 1]  q == bytes[p].len  r == s[f]
      <4>1. p \in Nat /\ q \in Nat /\ r = p + q /\ 2 <= p
        BY <1>3, <3>1, <3>2, Sizes
      <4> HIDE DEF p, q, r
      <4>2. 2 <= r
        BY <4>1
      <4> QED
        BY <4>2 DEF r
    <3> QED
      BY <3>1, <3>3
  <2> HIDE DEF Good
  <2>3. \A f \in 0 .. n : f \in Good
    BY <1>3, <2>1, <2>2, InductUpTo
  <2> QED
    BY <2>3 DEF Good
<1>8. ASSUME NEW f \in 1 .. n
      PROVE  [k \in 1 .. bytes[s[f - 1]].len |-> bytes[s[f - 1] + k - 1].piece] \in Contents
  <2> DEFINE p == s[f - 1]  q == bytes[p].len
  <2>1. f \in 0 .. n /\ f - 1 \in 0 .. n
    BY <1>3
  <2>2. p \in 1 .. L /\ q \in 1 .. MaxPieces /\ s[f] = p + q /\ 2 <= p /\ s[f] <= s[n]
    BY <1>4, <1>6, <1>7, <2>1
  <2> HIDE DEF p, q
  <2>3. ASSUME NEW k \in 1 .. q PROVE bytes[p + k - 1].piece \in Pieces
    <3> DEFINE i == p + k - 1
    <3>1. i \in 2 .. s[n] - 1 /\ i \in 1 .. L
      BY <1>2, <1>3, <2>2, Sizes
    <3> HIDE DEF i
    <3>2. bytes[i].tag = "file" /\ bytes[i] \in Chunk
      BY <1>2, <3>1, ElementOfSeq DEF L
    <3>3. bytes[i] \in FileChunk
      BY <3>2, ChunkTags
    <3> QED
      BY <3>3 DEF FileChunk, i
  <2>4. [k \in 1 .. q |-> bytes[p + k - 1].piece] \in [1 .. q -> Pieces]
    BY <2>3
  <2> QED
    BY <2>2, <2>4 DEF Contents, p, q
<1>9. Deserialize(bytes) =
        [f \in 1 .. n |-> [k \in 1 .. bytes[s[f - 1]].len |-> bytes[s[f - 1] + k - 1].piece]]
  BY DEF Deserialize, s, n, NumFiles
<1>10. Deserialize(bytes) \in [1 .. n -> Contents]
  BY <1>8, <1>9
<1> QED
  BY <1>10 DEF FileSystems, n, NumFiles

(* What is read from a snapshot is what was saved in it.                     *)
THEOREM RoundTrip ==
  ASSUME NEW files \in FileSystems
  PROVE  Readable(Serialize(files)) /\ Deserialize(Serialize(files)) = files
<1> DEFINE bytes == Serialize(files)  b == Body(files)  L == Len(b)  s == Start(bytes)
           n == NumFiles
<1>1. /\ bytes \in Seq(Chunk) /\ Len(bytes) = 1 + L /\ L \in Nat
      /\ bytes[1] = [tag |-> "header", total |-> 1 + L]
      /\ \A i \in 1 .. L : bytes[1 + i] = b[i]
  BY SerializeFacts
<1>2. /\ s \in [0 .. n -> Nat] /\ s[0] = 2
      /\ \A f \in 1 .. n : s[f] = StartStep(bytes, s[f - 1])
  <2> HIDE DEF bytes
  <2> QED
    BY <1>1, StartUnfold DEF StartSteps
<1>3. PICK at : Laid(files, at, b)
  BY BodyFacts
<1>4. n \in Nat \ {0}
  BY Sizes
<1>5. b \in Seq(FileChunk)
  BY BodyFacts
<1>6. \A f \in 1 .. n : files[f] \in Contents /\ Len(files[f]) \in 1 .. MaxPieces
  <2>1. \A f \in 1 .. n : files[f] \in Contents
    BY DEF FileSystems, NumFiles
  <2> QED
    BY <2>1, ContentFacts
<1> HIDE DEF bytes, b, L, s, n
<1>7. /\ at \in [0 .. n -> Nat] /\ at[0] = 0 /\ at[n] = L
      /\ \A f \in 1 .. n :
           /\ at[f] = at[f - 1] + Len(files[f]) /\ at[f] <= L
           /\ \A k \in 1 .. Len(files[f]) :
                b[at[f - 1] + k] = FileChunks(f, files[f])[k]
  BY <1>3 DEF Laid, L, n
<1> DEFINE InChunk(i, f, k) ==
             /\ i \in 2 .. 1 + L
             /\ bytes[i] = [tag |-> "file", file |-> f, len |-> Len(files[f]), part |-> k,
                            piece |-> files[f][k]]
<1>8. ASSUME NEW f \in 1 .. n, NEW k \in 1 .. Len(files[f]), NEW i, i = 1 + (at[f - 1] + k)
      PROVE  InChunk(i, f, k)
  <2>1. f - 1 \in 0 .. n /\ f \in Nat
    BY <1>4
  <2>2. at[f - 1] + k \in 1 .. L
    <3> DEFINE p == at[f - 1]  q == Len(files[f])  r == at[f]
    <3>1. p \in Nat /\ q \in Nat /\ r = p + q /\ r <= L /\ k \in 1 .. q
      BY <1>6, <1>7, <2>1, Sizes
    <3> HIDE DEF p, q, r
    <3>2. p + k \in 1 .. L
      BY <1>1, <3>1
    <3> QED
      BY <3>2 DEF p
  <2>3. b[at[f - 1] + k] = [tag |-> "file", file |-> f, len |-> Len(files[f]), part |-> k,
                            piece |-> files[f][k]]
    BY <1>6, <1>7, <2>1, FileChunksFacts
  <2>4. bytes[i] = b[at[f - 1] + k]
    BY <1>1, <1>8, <2>2
  <2>5. i \in 2 .. 1 + L
    BY <1>1, <1>8, <2>2
  <2> QED
    BY <2>3, <2>4, <2>5
<1>9. \A f \in 0 .. n : s[f] = at[f] + 2
  <2> DEFINE Good == {f \in 0 .. n : s[f] = at[f] + 2}
  <2>1. 0 \in Good
    BY <1>2, <1>4, <1>7
  <2>2. \A f \in 1 .. n : f - 1 \in Good => f \in Good
    <3> SUFFICES ASSUME NEW f \in 1 .. n, f - 1 \in Good PROVE f \in Good
      OBVIOUS
    <3>1. s[f - 1] = at[f - 1] + 2 /\ f \in 0 .. n /\ f - 1 \in 0 .. n
      BY <1>4
    <3>2. 1 \in 1 .. Len(files[f])
      BY <1>6, Sizes
    <3> DEFINE p == at[f - 1]  q == Len(files[f])  i == 1 + (p + 1)
    <3>3. p \in Nat /\ q \in Nat /\ at[f] = p + q
      BY <1>6, <1>7, <3>1, Sizes
    <3>4. i \in 2 .. 1 + L /\ bytes[i].tag = "file" /\ bytes[i].len = q
      <4> HIDE DEF InChunk
      <4>1. InChunk(i, f, 1)
        BY <1>8, <3>2, Zenon
      <4> HIDE DEF i, q
      <4>2. InChunk(i, f, 1) /\ q = Len(files[f])
        BY <4>1 DEF q
      <4> QED
        BY <4>2 DEF InChunk
    <3> HIDE DEF p, q, i
    <3>5. i = p + 2
      BY <3>3 DEF i
    <3>6. s[f - 1] = i /\ i \in 1 .. Len(bytes)
      BY <1>1, <3>1, <3>4, <3>5 DEF p
    <3>7. s[f] = at[f] + 2
      <4>1. s[f] = i + q
        BY <1>2, <3>4, <3>6 DEF StartStep
      <4> QED
        BY <3>3, <3>5, <4>1
    <3> QED
      BY <3>1, <3>7
  <2> HIDE DEF Good
  <2>3. \A f \in 0 .. n : f \in Good
    BY <1>4, <2>1, <2>2, InductUpTo
  <2> QED
    BY <2>3 DEF Good
<1>10. ASSUME NEW f \in 1 .. n
       PROVE  /\ bytes[s[f - 1]].part = 1 /\ bytes[s[f - 1]].len = Len(files[f])
              /\ \A k \in 1 .. Len(files[f]) : bytes[s[f - 1] + k - 1].piece = files[f][k]
  <2>1. f - 1 \in 0 .. n /\ 1 \in 1 .. Len(files[f]) /\ at[f - 1] \in Nat
    BY <1>4, <1>6, <1>7, Sizes
  <2>2. s[f - 1] = 1 + (at[f - 1] + 1)
    BY <1>9, <2>1
  <2>3. bytes[s[f - 1]].part = 1 /\ bytes[s[f - 1]].len = Len(files[f])
    <3> DEFINE i == s[f - 1]
    <3>1. i = 1 + (at[f - 1] + 1)
      BY <2>2
    <3> HIDE DEF i
    <3>2. bytes[i].part = 1 /\ bytes[i].len = Len(files[f])
      <4> HIDE DEF InChunk
      <4>1. InChunk(i, f, 1)
        BY <1>8, <2>1, <3>1, Zenon
      <4> QED
        BY <4>1 DEF InChunk
    <3> QED
      BY <3>2 DEF i
  <2>4. ASSUME NEW k \in 1 .. Len(files[f]) PROVE bytes[s[f - 1] + k - 1].piece = files[f][k]
    <3> DEFINE i == s[f - 1] + k - 1
    <3>1. i = 1 + (at[f - 1] + k)
      BY <1>6, <2>1, <2>2, Sizes
    <3> HIDE DEF i
    <3>2. bytes[i].piece = files[f][k]
      <4> HIDE DEF InChunk
      <4>1. InChunk(i, f, k)
        BY <1>8, <3>1, Zenon
      <4> QED
        BY <4>1 DEF InChunk
    <3> QED
      BY <3>2 DEF i
  <2> QED
    BY <2>3, <2>4
<1>11. Deserialize(bytes) = files
  <2>1. files \in [1 .. n -> Contents]
    BY DEF FileSystems, n, NumFiles
  <2>2. ASSUME NEW f \in 1 .. n
        PROVE  [k \in 1 .. bytes[s[f - 1]].len |-> bytes[s[f - 1] + k - 1].piece] = files[f]
    <3>1. files[f] \in [1 .. Len(files[f]) -> Pieces]
      BY <1>6, ContentFacts
    <3> QED
      BY <1>10, <3>1
  <2>3. Deserialize(bytes) =
          [f \in 1 .. n |-> [k \in 1 .. bytes[s[f - 1]].len |-> bytes[s[f - 1] + k - 1].piece]]
    BY DEF Deserialize, s, n, NumFiles
  <2> QED
    BY <2>1, <2>2, <2>3
<1>12. Readable(bytes)
  <2>1. s[n] = L + 2 /\ Len(bytes) = 1 + L
    BY <1>1, <1>4, <1>7, <1>9
  <2>2. ASSUME NEW i \in 2 .. s[n] - 1 PROVE bytes[i].tag = "file"
    <3>1. i - 1 \in 1 .. L /\ 1 + (i - 1) = i
      BY <1>1, <2>1
    <3>2. b[i - 1] \in FileChunk
      BY <1>5, <3>1, ElementOfSeq DEF L
    <3>3. bytes[i] = b[i - 1]
      BY <1>1, <3>1
    <3> QED
      BY <3>2, <3>3 DEF FileChunk
  <2>3. bytes # << >> /\ bytes[1].tag = "header" /\ bytes[1].total <= Len(bytes)
    <3>1. Len(bytes) # 0
      BY <1>1
    <3> QED
      BY <1>1, <3>1, EmptySeq
  <2>4. s[n] \in 1 .. Len(bytes) + 1
    BY <1>1, <2>1
  <2> QED
    BY <1>10, <2>2, <2>3, <2>4 DEF Readable, s, n, NumFiles
<1> QED
  BY <1>11, <1>12 DEF bytes

-----------------------------------------------------------------------------
(* The ring's indices, as the number of requests between them.               *)
LEMMA RingNow ==
  ASSUME StorageTyped
  PROVE  Outstanding \in Nat /\ (Outstanding = 0 <=> used = avail)
<1>1. RingWidth \in Nat \ {0}
  BY StorageAssumption
<1>2. RingMoves(avail, used, RingWidth)
  BY <1>1, RingFacts DEF StorageTyped
<1>3. /\ (avail + RingWidth - used) % RingWidth \in 0 .. RingWidth - 1
      /\ (avail + RingWidth - used) % RingWidth = 0 <=> avail = used
  BY <1>2, Zenon DEF RingMoves
<1>4. Outstanding \in 0 .. RingWidth - 1 /\ (Outstanding = 0 <=> avail = used)
  BY <1>3, Zenon DEF Outstanding
<1> QED
  BY <1>1, <1>4

LEMMA RingSubmits ==
  ASSUME StorageTyped, Outstanding + 1 < RingWidth,
         avail' = (avail + 1) % RingWidth, used' = used
  PROVE  avail' \in 0 .. RingWidth - 1 /\ Outstanding' = Outstanding + 1
<1>1. RingWidth \in Nat \ {0}
  BY StorageAssumption
<1>2. RingMoves(avail, used, RingWidth)
  BY <1>1, RingFacts DEF StorageTyped
<1>3. /\ (avail + 1) % RingWidth \in 0 .. RingWidth - 1
      /\ Outstanding + 1 < RingWidth =>
           (((avail + 1) % RingWidth) + RingWidth - used) % RingWidth = Outstanding + 1
  BY <1>2, Zenon DEF RingMoves, Outstanding
<1> QED
  BY <1>3, Zenon DEF Outstanding

LEMMA RingCompletes ==
  ASSUME StorageTyped, used # avail, used' = (used + 1) % RingWidth, avail' = avail
  PROVE  used' \in 0 .. RingWidth - 1 /\ Outstanding' = Outstanding - 1
<1>1. RingWidth \in Nat \ {0}
  BY StorageAssumption
<1>2. RingMoves(avail, used, RingWidth) /\ RingMoves(used, avail, RingWidth)
  BY <1>1, RingFacts DEF StorageTyped
<1>3. /\ (used + 1) % RingWidth \in 0 .. RingWidth - 1
      /\ (avail + RingWidth - ((used + 1) % RingWidth)) % RingWidth = Outstanding - 1
  BY <1>2, Zenon DEF RingMoves, Outstanding
<1> QED
  BY <1>3, Zenon DEF Outstanding

LEMMA DefaultIsFs == DefaultFs \in FileSystems
<1>1. (CHOOSE p \in Pieces : TRUE) \in Pieces
  BY StorageAssumption
<1>2. << CHOOSE p \in Pieces : TRUE >> \in [1 .. 1 -> Pieces]
  BY <1>1
<1>3. << CHOOSE p \in Pieces : TRUE >> \in Contents
  <2>1. 1 \in 1 .. MaxPieces
    BY Sizes
  <2> QED
    BY <1>2, <2>1 DEF Contents
<1> QED
  BY <1>3 DEF DefaultFs, FileSystems

(* No request is waited for any more, and the kernel saves or is idle.       *)
LEMMA SettlesKeeps ==
  ASSUME StorageInv, UNCHANGED << disk, deviceVars >>, request' = "none",
         stage' \in {"save", "idle"}, sector' = 1,
         NEW k \in 0 .. FaultBound, faults' = k, Outstanding <= k, late' \in BOOLEAN,
         ~ late' => Outstanding = 0 \/ (stage \in {"save", "idle"} /\ ~ late)
  PROVE  RingSound' /\ Alone' /\ NoReads' /\ LoadSound'
<1>1. Outstanding' = Outstanding /\ Outstanding \in Nat
  BY RingNow DEF Outstanding, deviceVars, StorageInv
<1>2. taken' = taken /\ hdrBuf' = hdrBuf /\ taken \in Seq(Header)
  BY DEF deviceVars, StorageInv, StorageTyped
<1>3. Len(taken) \in Nat /\ Len(taken) <= Outstanding
  BY <1>2 DEF StorageInv, RingSound
<1>4. RingSound'
  <2>1. FaultBound \in Nat
    BY StorageAssumption
  <2>2. Outstanding <= k + 1
    BY <1>1, <2>1
  <2>3. Outstanding' <= faults' + 1 /\ Outstanding' <= faults'
    BY <1>1, <2>2, Zenon
  <2>4. Len(taken') <= Outstanding'
    BY <1>1, <1>2, <1>3, Zenon
  <2>5. request' # "wait"
    OBVIOUS
  <2> QED
    BY <1>1, <1>2, <2>3, <2>4, <2>5, Zenon DEF RingSound
<1>5. Alone' /\ LoadSound'
  BY DEF Alone, Loading, LoadSound
<1>6. NoReads'
  <2> SUFFICES ASSUME ~ late'
               PROVE  /\ \A i \in 1 .. Len(taken) : taken[i].write
                      /\ Len(taken) < Outstanding => hdrBuf.write
    BY <1>1, <1>2 DEF NoReads
  <2>1. CASE Outstanding = 0
    BY <2>1, <1>3
  <2>2. CASE stage \in {"save", "idle"} /\ ~ late
    BY <2>2 DEF StorageInv, NoReads
  <2> QED
    BY <2>1, <2>2
<1> QED
  BY <1>4, <1>5, <1>6

(* A save begins with the first chunk of the snapshot.                       *)
LEMMA BeginKeeps ==
  ASSUME StorageInv, NEW files \in FileSystems, fs' = files, BeginSave(files),
         UNCHANGED << disk, deviceVars, crashes, saved >>, request' = "none",
         NEW k \in 0 .. FaultBound, faults' = k, Outstanding <= k,
         late' \in BOOLEAN, spoilt' \in BOOLEAN,
         ~ late' => Outstanding = 0 \/ (stage \in {"save", "idle"} /\ ~ late)
  PROVE  StorageInv'
<1>1. /\ stage' = "save" /\ image' = Serialize(files) /\ sector' = 1 /\ total' = total
  BY DEF BeginSave
<1>2. image' \in Seq(Chunk) /\ 1 <= Len(image')
  <2>1. /\ Serialize(files) \in Seq(Chunk) /\ Len(Body(files)) \in Nat
        /\ Len(Serialize(files)) = 1 + Len(Body(files))
    BY SerializeFacts, Zenon
  <2> QED
    BY <1>1, <2>1
<1>3. RingSound' /\ Alone' /\ NoReads' /\ LoadSound'
  BY <1>1, SettlesKeeps
<1>4. StorageTyped'
  BY <1>1, <1>2, Sizes DEF StorageInv, StorageTyped, deviceVars
<1>5. StageSound'
  BY <1>1, <1>2 DEF StageSound
<1>6. SaveSound'
  BY <1>1 DEF SaveSound
<1>7. SavedSound'
  BY <1>1 DEF SavedSound
<1> QED
  BY <1>3, <1>4, <1>5, <1>6, <1>7 DEF StorageInv

(* A save or a load ends.                                                    *)
LEMMA ReturnKeeps ==
  ASSUME StorageInv, Return, fs' \in FileSystems,
         UNCHANGED << disk, deviceVars, crashes >>, request' = "none",
         NEW k \in 0 .. FaultBound, faults' = k, Outstanding <= k,
         saved' \in FileSystems \cup {<< >>}, late' \in BOOLEAN, spoilt' \in BOOLEAN,
         ~ late' => Outstanding = 0 \/ (stage \in {"save", "idle"} /\ ~ late),
         ~ spoilt' => /\ Outstanding = 0
                      /\ saved' # << >> =>
                           \A i \in 1 .. Len(Serialize(saved')) : disk[i] = Serialize(saved')[i]
  PROVE  StorageInv'
<1>1. stage' = "idle" /\ image' = << >> /\ sector' = 1 /\ total' = 0
  BY DEF Return
<1>3. RingSound' /\ Alone' /\ NoReads' /\ LoadSound'
  BY <1>1, SettlesKeeps
<1>4. StorageTyped'
  BY <1>1, Sizes DEF StorageInv, StorageTyped, deviceVars
<1>5. StageSound'
  BY <1>1 DEF StageSound
<1>6. SaveSound'
  BY <1>1 DEF SaveSound
<1>7. SavedSound'
  <2>1. Outstanding' = Outstanding
    BY DEF Outstanding, deviceVars
  <2> QED
    BY <2>1 DEF SavedSound, OnDisk
<1> QED
  BY <1>3, <1>4, <1>5, <1>6, <1>7 DEF StorageInv

LEMMA InitKeeps == StorageInit => StorageInv
<1> SUFFICES ASSUME StorageInit PROVE StorageInv
  OBVIOUS
<1>1. StorageTyped
  <2>1. Blank \in Chunk
    BY DEF Chunk
  <2>2. disk \in [1 .. DiskChunks -> Chunk]
    BY <2>1 DEF StorageInit
  <2>3. [write |-> FALSE, sector |-> 1] \in Header
    BY Sizes DEF Header
  <2>4. 1 \in 1 .. DiskChunks /\ 0 \in 0 .. RingWidth - 1 /\ 0 \in 0 .. FaultBound
    BY Sizes, StorageAssumption
  <2>5. image \in Seq(Chunk) /\ taken \in Seq(Header) /\ hdrBuf \in Header /\ dataBuf \in Chunk
    BY <2>1, <2>3 DEF StorageInit
  <2>6. /\ avail \in 0 .. RingWidth - 1 /\ used \in 0 .. RingWidth - 1
        /\ faults \in 0 .. FaultBound /\ crashes \in Nat /\ total \in Nat
        /\ sector \in 1 .. DiskChunks /\ statusBuf \in {0, 1, 255}
    BY <2>4 DEF StorageInit
  <2>7. /\ stage \in {"header", "image", "save", "idle"} /\ request \in {"none", "wait"}
        /\ fs \in FileSystems \cup {<< >>} /\ saved \in FileSystems \cup {<< >>}
        /\ late \in BOOLEAN /\ spoilt \in BOOLEAN
    BY DEF StorageInit
  <2> QED
    BY <2>2, <2>5, <2>6, <2>7, Zenon DEF StorageTyped
<1>2. Outstanding = 0
  BY <1>1, RingNow DEF StorageInit
<1>3. Len(taken) = 0
  BY DEF StorageInit
<1>4. StageSound /\ NoReads /\ SaveSound /\ LoadSound /\ SavedSound
  BY <1>2 DEF StorageInit, StageSound, NoReads, SaveSound, LoadSound, SavedSound
<1>5. RingSound /\ Alone
  BY <1>2, <1>3 DEF StorageInit, RingSound, Alone
<1> QED
  BY <1>1, <1>4, <1>5 DEF StorageInv

LEMMA SubmitKeeps ==
  ASSUME StorageInv, Submit
  PROVE  StorageInv'
<1>1. /\ stage # "idle" /\ request = "none" /\ request' = "wait" /\ statusBuf' = 255
      /\ hdrBuf' = [write |-> stage = "save", sector |-> sector]
      /\ disk' = disk /\ fs' = fs /\ stage' = stage /\ image' = image /\ sector' = sector
      /\ total' = total /\ used' = used /\ taken' = taken /\ faults' = faults
      /\ crashes' = crashes /\ saved' = saved /\ late' = late /\ spoilt' = spoilt
  BY DEF Submit, auxVars
<1>2. Outstanding \in Nat /\ Len(taken) \in Nat /\ faults \in Nat
      /\ Outstanding <= faults /\ Outstanding + 1 < RingWidth
  BY <1>1, RingNow, StorageAssumption DEF StorageInv, StorageTyped, RingSound
<1>3. avail' \in 0 .. RingWidth - 1 /\ Outstanding' = Outstanding + 1
  BY <1>1, <1>2, RingSubmits DEF StorageInv, Submit
<1>4. dataBuf' \in Chunk /\ (stage = "save" => dataBuf' = image[sector])
  <2>1. CASE stage = "save"
    <3>1. dataBuf' = image[sector] /\ sector \in 1 .. Len(image) /\ image \in Seq(Chunk)
      BY <2>1 DEF Submit, StorageInv, StorageTyped, StageSound
    <3> QED
      BY <3>1, ElementOfSeq
  <2>2. CASE stage # "save"
    BY <2>2 DEF Submit, StorageInv, StorageTyped
  <2> QED
    BY <2>1, <2>2
<1>5. StorageTyped'
  <2>1. hdrBuf' \in Header
    BY <1>1 DEF StorageInv, StorageTyped, Header
  <2> QED
    BY <1>1, <1>3, <1>4, <2>1 DEF StorageInv, StorageTyped
<1>6. StageSound'
  BY <1>1 DEF StorageInv, StageSound
<1>7. RingSound'
  <2>1. /\ Len(taken) <= Outstanding /\ Len(taken) <= Outstanding + 1
        /\ Outstanding + 1 <= faults + 1 /\ Len(taken) # Outstanding + 1
    BY <1>2 DEF StorageInv, RingSound
  <2> QED
    BY <1>1, <1>3, <2>1, Zenon DEF RingSound
<1>8. Alone'
  <2>1. Loading \/ (stage = "save" /\ sector > 1) => Outstanding + 1 <= 1
    BY <1>1, <1>2 DEF StorageInv, Alone
  <2> QED
    BY <1>1, <1>3, <2>1, Zenon DEF Alone, Loading
<1>9. NoReads'
  BY <1>1 DEF StorageInv, NoReads
<1>10. SaveSound' /\ LoadSound'
  BY <1>1, <1>4 DEF StorageInv, SaveSound, LoadSound, Loading
<1>11. SavedSound'
  BY <1>1 DEF StorageInv, SavedSound, OnDisk
<1> QED
  BY <1>5, <1>6, <1>7, <1>8, <1>9, <1>10, <1>11 DEF StorageInv

LEMMA FailedKeeps ==
  ASSUME StorageInv, Failed, NEW k \in 0 .. FaultBound, faults' = k, Outstanding <= k
  PROVE  StorageInv'
<1>1. /\ request' = "none" /\ spoilt' = TRUE /\ disk' = disk /\ UNCHANGED deviceVars
      /\ crashes' = crashes /\ saved' = saved
  BY DEF Failed
<1>2. saved' \in FileSystems \cup {<< >>} /\ late \in BOOLEAN
  BY <1>1 DEF StorageInv, StorageTyped
<1>3. CASE stage = "save"
  <2>1. Return /\ fs' = fs /\ late' = late /\ fs' \in FileSystems
    BY <1>3 DEF Failed, StorageInv, StageSound
  <2> QED
    BY <1>1, <1>2, <1>3, <2>1, ReturnKeeps
<1>4. CASE stage # "save"
  <2>1. fs' = DefaultFs /\ BeginSave(DefaultFs) /\ late' = (used # avail)
    BY <1>4 DEF Failed, NewFs
  <2>2. late' \in BOOLEAN /\ (~ late' => Outstanding = 0)
    BY <2>1, RingNow DEF StorageInv
  <2> QED
    BY <1>1, <2>1, <2>2, BeginKeeps, DefaultIsFs
<1> QED
  BY <1>3, <1>4

LEMMA RefusedKeeps ==
  ASSUME StorageInv, Refused
  PROVE  StorageInv'
<1>1. Failed /\ faults' = faults /\ used = avail
  BY DEF Refused, Polled
<1>2. Outstanding <= faults /\ faults \in 0 .. FaultBound
  BY <1>1, RingNow, StorageAssumption DEF StorageInv, StorageTyped
<1> QED
  BY <1>1, <1>2, FailedKeeps

LEMMA TimedOutKeeps ==
  ASSUME StorageInv, TimedOut
  PROVE  StorageInv'
<1>1. Failed /\ faults' = faults + 1 /\ faults < FaultBound
  BY DEF TimedOut
<1>2. Outstanding <= faults + 1 /\ faults + 1 \in 0 .. FaultBound
  BY <1>1, StorageAssumption DEF StorageInv, StorageTyped, RingSound
<1> QED
  BY <1>1, <1>2, FailedKeeps

LEMMA WriteKeeps ==
  ASSUME StorageInv, Write
  PROVE  StorageInv'
<1>1. PICK f \in 1 .. Len(Paths), content \in Contents :
        fs' = [fs EXCEPT ![f] = content] /\ BeginSave(fs')
  BY DEF Write
<1> DEFINE files == [fs EXCEPT ![f] = content]
<1>2. /\ stage = "idle" /\ late' = (late /\ used # avail) /\ UNCHANGED << disk, deviceVars >>
      /\ request' = request /\ faults' = faults /\ crashes' = crashes
      /\ saved' = saved /\ spoilt' = spoilt
  BY DEF Write
<1>3. /\ fs \in FileSystems /\ request = "none" /\ late \in BOOLEAN /\ spoilt \in BOOLEAN
      /\ faults \in 0 .. FaultBound /\ Outstanding <= faults
  BY <1>2 DEF StorageInv, StorageTyped, StageSound, RingSound
<1>4. files \in FileSystems
  BY <1>1, <1>3 DEF FileSystems
<1>5. fs' = files /\ BeginSave(files)
  BY <1>1, Zenon DEF BeginSave
<1>6. late' \in BOOLEAN /\ (~ late' => Outstanding = 0 \/ ~ late)
  BY <1>2, <1>3, RingNow DEF StorageInv
<1> HIDE DEF files
<1> QED
  BY <1>2, <1>3, <1>4, <1>5, <1>6, BeginKeeps

LEMMA PowerLossKeeps ==
  ASSUME StorageInv, PowerLoss
  PROVE  StorageInv'
<1>1. /\ fs' = << >> /\ stage' = "header" /\ image' = << >> /\ request' = "none"
      /\ sector' = 1 /\ total' = 0 /\ hdrBuf' = [write |-> FALSE, sector |-> 1]
      /\ dataBuf' = Blank /\ statusBuf' = 0 /\ avail' = 0 /\ used' = 0 /\ taken' = << >>
      /\ late' = FALSE /\ spoilt' = (spoilt \/ stage = "save") /\ crashes' = crashes + 1
      /\ disk' = disk /\ faults' = faults /\ saved' = saved
  BY DEF PowerLoss
<1>2. Outstanding' = 0
  <2>1. RingWidth \in Nat \ {0} /\ 0 \in 0 .. RingWidth - 1
    BY StorageAssumption
  <2>2. RingMoves(0, 0, RingWidth)
    BY <2>1, RingFacts
  <2>3. (0 + RingWidth - 0) % RingWidth = 0
    BY <2>2, Zenon DEF RingMoves
  <2> QED
    BY <1>1, <2>3, Zenon DEF Outstanding
<1>3. StorageTyped'
  <2>1. Blank \in Chunk /\ [write |-> FALSE, sector |-> 1] \in Header
    BY Sizes DEF Chunk, Header
  <2>2. 1 \in 1 .. DiskChunks /\ 0 \in 0 .. RingWidth - 1
    BY Sizes, StorageAssumption
  <2>3. crashes' \in Nat /\ image' \in Seq(Chunk) /\ taken' \in Seq(Header) /\ total' \in Nat
        /\ sector' \in 1 .. DiskChunks /\ avail' \in 0 .. RingWidth - 1
        /\ used' \in 0 .. RingWidth - 1 /\ statusBuf' \in {0, 1, 255}
    BY <1>1, <2>2 DEF StorageInv, StorageTyped
  <2>4. /\ stage' \in {"header", "image", "save", "idle"} /\ request' \in {"none", "wait"}
        /\ fs' \in FileSystems \cup {<< >>} /\ late' \in BOOLEAN /\ spoilt' \in BOOLEAN
        /\ hdrBuf' \in Header /\ dataBuf' \in Chunk
    BY <1>1, <2>1 DEF StorageInv, StorageTyped
  <2>5. disk' \in [1 .. DiskChunks -> Chunk] /\ faults' \in 0 .. FaultBound
        /\ saved' \in FileSystems \cup {<< >>}
    BY <1>1, Zenon DEF StorageInv, StorageTyped
  <2> QED
    BY <2>3, <2>4, <2>5, Zenon DEF StorageTyped
<1>4. StageSound' /\ NoReads' /\ SaveSound' /\ LoadSound'
  BY <1>1, <1>2 DEF StageSound, NoReads, SaveSound, LoadSound, Loading
<1>5. RingSound' /\ Alone'
  <2>1. Len(taken') = 0 /\ 0 <= 0 /\ 0 <= 1 /\ ~ (0 > 0) /\ 0 <= faults /\ 0 <= faults + 1
    BY <1>1 DEF StorageInv, StorageTyped
  <2>2. request' # "wait"
    BY <1>1
  <2> QED
    BY <1>1, <1>2, <2>1, <2>2, Zenon DEF RingSound, Alone
<1>6. SavedSound'
  BY <1>1 DEF StorageInv, SavedSound, OnDisk
<1> QED
  BY <1>3, <1>4, <1>5, <1>6 DEF StorageInv

(* What a polled answer leaves unchanged, whatever the caller does next.     *)
LEMMA AnsweredIsQuiet ==
  ASSUME StorageInv, Done
  PROVE  /\ Outstanding = 0 /\ taken = << >> /\ request = "wait" /\ statusBuf = 0
         /\ used = avail /\ request' = "none" /\ disk' = disk /\ UNCHANGED deviceVars
         /\ faults' = faults /\ crashes' = crashes /\ faults \in 0 .. FaultBound
         /\ Outstanding <= faults /\ stage \in {"header", "image", "save"}
<1>1. /\ request = "wait" /\ used = avail /\ statusBuf = 0 /\ request' = "none"
      /\ disk' = disk /\ UNCHANGED deviceVars /\ faults' = faults /\ crashes' = crashes
  BY DEF Done, Polled
<1>2. Outstanding = 0
  BY <1>1, RingNow DEF StorageInv
<1>3. taken \in Seq(Header) /\ Len(taken) <= 0 /\ faults \in 0 .. FaultBound /\ 0 <= faults
  BY <1>2, StorageAssumption DEF StorageInv, StorageTyped, RingSound
<1>4. taken = << >>
  BY <1>3
<1>5. stage \in {"header", "image", "save"}
  BY <1>1 DEF StorageInv, StorageTyped, StageSound
<1> QED
  BY <1>1, <1>2, <1>3, <1>4, <1>5

LEMMA StoredKeeps ==
  ASSUME StorageInv, Done, stage = "save"
  PROVE  StorageInv'
<1>1. Stored /\ fs' = fs
  BY DEF Done, Stored
<1>2. /\ fs \in FileSystems /\ image = Serialize(fs) /\ sector \in 1 .. Len(image)
      /\ image \in Seq(Chunk) /\ Len(image) \in Nat /\ Len(image) <= DiskChunks
      /\ late \in BOOLEAN /\ spoilt \in BOOLEAN /\ saved \in FileSystems \cup {<< >>}
  <2>1. fs \in FileSystems /\ image = Serialize(fs) /\ sector <= Len(image)
    BY DEF StorageInv, StageSound
  <2>2. /\ Len(Serialize(fs)) = 1 + Len(Body(fs)) /\ Len(Body(fs)) \in Nat
        /\ 1 + Len(Body(fs)) <= DiskChunks
    BY <2>1, SerializeFacts, Zenon
  <2> QED
    BY <2>1, <2>2 DEF StorageInv, StorageTyped
<1>3. ~ late => \A i \in 1 .. sector : disk[i] = image[i]
  <2> SUFFICES ASSUME ~ late, NEW i \in 1 .. sector PROVE disk[i] = image[i]
    OBVIOUS
  <2>1. CASE i = sector
    BY <2>1, AnsweredIsQuiet DEF StorageInv, SaveSound
  <2>2. CASE i # sector
    <3>1. i \in 1 .. sector - 1
      BY <1>2, <2>2
    <3> QED
      BY <3>1 DEF StorageInv, SaveSound
  <2> QED
    BY <2>1, <2>2
<1>4. CASE sector < Len(image)
  <2>1. /\ sector' = sector + 1 /\ stage' = stage /\ image' = image /\ total' = total
        /\ saved' = saved /\ late' = late /\ spoilt' = spoilt
    BY <1>1, <1>4 DEF Stored, auxVars
  <2>2. /\ request' = "none" /\ disk' = disk /\ faults' = faults /\ crashes' = crashes
        /\ hdrBuf' = hdrBuf /\ dataBuf' = dataBuf /\ statusBuf' = statusBuf
        /\ avail' = avail /\ used' = used /\ taken' = taken
        /\ Outstanding = 0 /\ taken = << >>
    BY AnsweredIsQuiet DEF deviceVars
  <2>3. Outstanding' = 0
    BY <2>2, Zenon DEF Outstanding
  <2>4. StorageTyped'
    <3>1. sector + 1 \in 1 .. DiskChunks
      BY <1>2, <1>4, Sizes
    <3> QED
      BY <1>1, <2>1, <2>2, <3>1 DEF StorageInv, StorageTyped
  <2>5. StageSound'
    BY <1>1, <1>2, <1>4, <2>1 DEF StageSound
  <2>6. RingSound' /\ Alone'
    <3>1. Len(taken) = 0 /\ 0 <= 0 /\ 0 <= 1 /\ 0 <= faults /\ 0 <= faults + 1
      BY <2>2 DEF StorageInv, StorageTyped
    <3>2. request' # "wait"
      BY <2>2
    <3> QED
      BY <2>2, <2>3, <3>1, <3>2, Zenon DEF RingSound, Alone
  <2>7. NoReads' /\ LoadSound' /\ SavedSound'
    BY <2>1, <2>2, <2>3 DEF NoReads, LoadSound, Loading, SavedSound
  <2>8. SaveSound'
    <3>1. ~ late => \A i \in 1 .. (sector + 1) - 1 : disk[i] = image[i]
      BY <1>2, <1>3
    <3>2. request' # "wait"
      BY <2>2
    <3> QED
      BY <2>1, <2>2, <3>1, <3>2, Zenon DEF SaveSound
  <2> QED
    BY <2>4, <2>5, <2>6, <2>7, <2>8 DEF StorageInv
<1>5. CASE ~ (sector < Len(image))
  <2>1. Return /\ saved' = Deserialize(image) /\ spoilt' = late /\ late' = late
    BY <1>1, <1>5 DEF Stored
  <2>2. saved' = fs
    BY <1>2, <2>1, RoundTrip
  <2>3. sector = Len(image)
    BY <1>2, <1>5
  <2>4. ~ late => \A i \in 1 .. Len(Serialize(saved')) : disk[i] = Serialize(saved')[i]
    BY <1>2, <1>3, <2>2, <2>3, Zenon
  <2>5. /\ UNCHANGED << disk, deviceVars, crashes >> /\ request' = "none"
        /\ faults' = faults /\ faults \in 0 .. FaultBound /\ Outstanding <= faults
        /\ Outstanding = 0
    BY AnsweredIsQuiet
  <2>6. fs' \in FileSystems /\ saved' \in FileSystems \cup {<< >>}
        /\ late' \in BOOLEAN /\ spoilt' \in BOOLEAN
    BY <1>1, <1>2, <2>1, <2>2
  <2> QED
    BY <2>1, <2>4, <2>5, <2>6, ReturnKeeps, Zenon
<1> QED
  BY <1>4, <1>5

(* A load that finds no snapshot makes a new file system and saves it.       *)
LEMMA NewFsKeeps ==
  ASSUME StorageInv, Done, NewFs, UNCHANGED auxVars
  PROVE  StorageInv'
<1>1. fs' = DefaultFs /\ BeginSave(DefaultFs)
  BY DEF NewFs
<1>2. late' = late /\ spoilt' = spoilt /\ saved' = saved /\ late \in BOOLEAN /\ spoilt \in BOOLEAN
  BY DEF auxVars, StorageInv, StorageTyped
<1>3. /\ UNCHANGED << disk, deviceVars, crashes >> /\ request' = "none"
      /\ faults' = faults /\ faults \in 0 .. FaultBound /\ Outstanding <= faults
      /\ Outstanding = 0
  BY AnsweredIsQuiet
<1> QED
  BY <1>1, <1>2, <1>3, BeginKeeps, DefaultIsFs

LEMMA LoadedHeaderKeeps ==
  ASSUME StorageInv, Done, stage = "header"
  PROVE  StorageInv'
<1>1. image = << >> /\ sector = 1 /\ dataBuf \in Chunk
  BY DEF StorageInv, StageSound, StorageTyped
<1> DEFINE bytes == Append(image, dataBuf)
<1>2. bytes[1] = dataBuf
  BY <1>1
<1>3. Loaded(bytes) /\ UNCHANGED auxVars
  BY DEF Done
<1> HIDE DEF bytes
<1>4. CASE bytes[1].tag # "header"
  <2>1. NewFs
    BY <1>3, <1>4 DEF Loaded
  <2> QED
    BY <1>3, <2>1, NewFsKeeps
<1>5. CASE bytes[1].tag = "header"
  <2>1. /\ stage' = "image" /\ image' = << >> /\ sector' = 1
        /\ total' = bytes[1].total /\ fs' = fs
    BY <1>3, <1>5 DEF Loaded
  <2>2. dataBuf \in HeaderChunk
    BY <1>1, <1>2, <1>5, ChunkTags
  <2>3. total' \in 1 .. DiskChunks /\ total' = dataBuf.total /\ dataBuf.tag = "header"
    BY <1>2, <2>1, <2>2 DEF HeaderChunk
  <2>4. /\ request' = "none" /\ disk' = disk /\ faults' = faults /\ crashes' = crashes
        /\ hdrBuf' = hdrBuf /\ dataBuf' = dataBuf /\ statusBuf' = statusBuf
        /\ avail' = avail /\ used' = used /\ taken' = taken
        /\ Outstanding = 0 /\ taken = << >> /\ request = "wait" /\ statusBuf = 0 /\ used = avail
    BY AnsweredIsQuiet DEF deviceVars
  <2>5. saved' = saved /\ late' = late /\ spoilt' = spoilt
    BY <1>3 DEF auxVars
  <2>6. Outstanding' = 0
    BY <2>4, Zenon DEF Outstanding
  <2>7. dataBuf = disk[1]
    BY <1>1, <2>4 DEF StorageInv, LoadSound, Loading
  <2>8. StorageTyped'
    <3>1. total' \in Nat /\ sector' \in 1 .. DiskChunks /\ image' \in Seq(Chunk)
      BY <2>1, <2>3, Sizes
    <3> QED
      BY <2>1, <2>4, <2>5, <3>1 DEF StorageInv, StorageTyped
  <2>9. StageSound'
    <3>1. Len(image') = sector' - 1 /\ sector' <= total' /\ total' <= DiskChunks
      <4>1. \A t \in 1 .. DiskChunks : 1 <= t /\ t <= DiskChunks
        BY Sizes
      <4>2. Len(image') = 0 /\ 0 = 1 - 1
        BY <2>1
      <4> QED
        BY <2>1, <2>3, <4>1, <4>2, Zenon
    <3> QED
      BY <2>1, <3>1 DEF StageSound
  <2>10. RingSound' /\ Alone'
    <3>1. Len(taken) = 0 /\ 0 <= 0 /\ 0 <= 1 /\ 0 <= faults /\ 0 <= faults + 1
      BY <2>4 DEF StorageInv, StorageTyped
    <3>2. request' # "wait"
      BY <2>4
    <3> QED
      BY <2>4, <2>6, <3>1, <3>2, Zenon DEF RingSound, Alone
  <2>11. NoReads' /\ SaveSound'
    BY <2>1 DEF NoReads, SaveSound
  <2>12. LoadSound'
    <3>1. disk[1].tag = "header" /\ disk[1].total = total'
      BY <2>3, <2>7
    <3>2. \A i \in 1 .. 1 - 1 : image'[i] = disk[i]
      OBVIOUS
    <3>3. request' # "wait"
      BY <2>4
    <3> QED
      BY <2>1, <2>4, <3>1, <3>2, <3>3, Zenon DEF LoadSound
  <2>13. SavedSound'
    BY <2>1, <2>4, <2>5 DEF StorageInv, SavedSound, OnDisk
  <2> QED
    BY <2>8, <2>9, <2>10, <2>11, <2>12, <2>13 DEF StorageInv
<1> QED
  BY <1>4, <1>5

(* The bytes loaded so far, with the chunk just read.                        *)
LEMMA LoadedBytes ==
  ASSUME StorageInv, Done, stage = "image"
  PROVE  /\ Append(image, dataBuf) \in Seq(Chunk) /\ Len(Append(image, dataBuf)) = sector
         /\ sector <= total /\ total <= DiskChunks /\ total \in Nat /\ sector \in Nat
         /\ \A i \in 1 .. sector : Append(image, dataBuf)[i] = disk[i]
         /\ disk[1].tag = "header" /\ disk[1].total = total
<1>1. /\ image \in Seq(Chunk) /\ dataBuf \in Chunk /\ Len(image) = sector - 1
      /\ sector \in 1 .. DiskChunks /\ sector <= total /\ total <= DiskChunks /\ total \in Nat
  BY DEF StorageInv, StageSound, StorageTyped
<1>2. /\ dataBuf = disk[sector]
      /\ \A i \in 1 .. sector - 1 : image[i] = disk[i]
      /\ disk[1].tag = "header" /\ disk[1].total = total
  BY AnsweredIsQuiet DEF StorageInv, LoadSound, Loading
<1>3. Append(image, dataBuf) \in Seq(Chunk) /\ Len(Append(image, dataBuf)) = sector
  BY <1>1
<1>4. ASSUME NEW i \in 1 .. sector PROVE Append(image, dataBuf)[i] = disk[i]
  <2>1. CASE i = sector
    BY <1>1, <1>2, <2>1
  <2>2. CASE i # sector
    <3>1. i \in 1 .. sector - 1 /\ i \in 1 .. Len(image)
      BY <1>1, <2>2
    <3>2. Append(image, dataBuf)[i] = image[i]
      BY <1>1, <3>1
    <3> QED
      BY <1>2, <3>1, <3>2
  <2> QED
    BY <2>1, <2>2
<1> QED
  BY <1>1, <1>2, <1>3, <1>4

LEMMA LoadedImageKeeps ==
  ASSUME StorageInv, Done, stage = "image"
  PROVE  StorageInv'
<1> DEFINE bytes == Append(image, dataBuf)
<1>1. /\ bytes \in Seq(Chunk) /\ Len(bytes) = sector
      /\ sector <= total /\ total <= DiskChunks /\ total \in Nat /\ sector \in Nat
      /\ \A i \in 1 .. sector : bytes[i] = disk[i]
      /\ disk[1].tag = "header" /\ disk[1].total = total
  BY LoadedBytes
<1>2. Loaded(bytes) /\ UNCHANGED auxVars
  BY DEF Done
<1>3. saved' = saved /\ late' = late /\ spoilt' = spoilt
  BY <1>2 DEF auxVars
<1> HIDE DEF bytes
<1>4. CASE Len(bytes) < total
  <2>1. /\ image' = bytes /\ sector' = sector + 1
        /\ fs' = fs /\ stage' = stage /\ total' = total
    <3>1. Len(bytes) # total
      BY <1>1, <1>4
    <3> QED
      BY <1>2, <1>4, <3>1 DEF Loaded
  <2>2. /\ request' = "none" /\ disk' = disk /\ faults' = faults /\ crashes' = crashes
        /\ hdrBuf' = hdrBuf /\ dataBuf' = dataBuf /\ statusBuf' = statusBuf
        /\ avail' = avail /\ used' = used /\ taken' = taken
        /\ Outstanding = 0 /\ taken = << >>
    BY AnsweredIsQuiet DEF deviceVars
  <2>3. Outstanding' = 0
    BY <2>2, Zenon DEF Outstanding
  <2>4. StorageTyped'
    <3>1. sector + 1 \in 1 .. DiskChunks
      BY <1>1, <1>4, Sizes
    <3> QED
      BY <1>1, <1>3, <2>1, <2>2, <3>1 DEF StorageInv, StorageTyped
  <2>5. StageSound'
    <3>1. Len(bytes) = (sector + 1) - 1 /\ sector + 1 <= total
      BY <1>1, <1>4
    <3> QED
      BY <1>1, <2>1, <3>1 DEF StageSound
  <2>6. RingSound' /\ Alone'
    <3>1. Len(taken) = 0 /\ 0 <= 0 /\ 0 <= 1 /\ 0 <= faults /\ 0 <= faults + 1
      BY <2>2 DEF StorageInv, StorageTyped
    <3>2. request' # "wait"
      BY <2>2
    <3> QED
      BY <2>2, <2>3, <3>1, <3>2, Zenon DEF RingSound, Alone
  <2>7. NoReads' /\ SaveSound'
    BY <2>1 DEF NoReads, SaveSound
  <2>8. LoadSound'
    <3>1. \A i \in 1 .. (sector + 1) - 1 : bytes[i] = disk[i]
      BY <1>1
    <3>2. request' # "wait"
      BY <2>2
    <3> QED
      BY <1>1, <2>1, <2>2, <3>1, <3>2, Zenon DEF LoadSound
  <2>9. SavedSound'
    BY <1>3, <2>1, <2>2 DEF StorageInv, SavedSound, OnDisk
  <2> QED
    BY <2>4, <2>5, <2>6, <2>7, <2>8, <2>9 DEF StorageInv
<1>5. CASE ~ (Len(bytes) < total)
  <2>1. Len(bytes) = total
    BY <1>1, <1>5
  <2>2. IF Readable(bytes) THEN fs' = Deserialize(bytes) /\ Return ELSE NewFs
    BY <1>2, <1>5, <2>1 DEF Loaded
  <2>3. CASE Readable(bytes)
    <3>1. fs' \in FileSystems /\ Return
      BY <1>1, <2>2, <2>3, ReadableTyped
    <3>2. /\ UNCHANGED << disk, deviceVars, crashes >> /\ request' = "none"
          /\ faults' = faults /\ faults \in 0 .. FaultBound /\ Outstanding <= faults
          /\ Outstanding = 0
      BY AnsweredIsQuiet
    <3>3. saved' \in FileSystems \cup {<< >>} /\ late' \in BOOLEAN /\ spoilt' \in BOOLEAN
      BY <1>3 DEF StorageInv, StorageTyped
    <3>4. ~ spoilt' => (saved' # << >> =>
            \A i \in 1 .. Len(Serialize(saved')) : disk[i] = Serialize(saved')[i])
      BY <1>3 DEF StorageInv, SavedSound, OnDisk
    <3> QED
      BY <3>1, <3>2, <3>3, <3>4, ReturnKeeps, Zenon
  <2>4. CASE ~ Readable(bytes)
    BY <1>2, <2>2, <2>4, NewFsKeeps
  <2> QED
    BY <2>3, <2>4
<1> QED
  BY <1>4, <1>5

LEMMA DoneKeeps ==
  ASSUME StorageInv, Done
  PROVE  StorageInv'
BY AnsweredIsQuiet, StoredKeeps, LoadedHeaderKeeps, LoadedImageKeeps

LEMMA DeviceTakesKeeps ==
  ASSUME StorageInv, DeviceTakes
  PROVE  StorageInv'
<1>1. /\ Len(taken) < Outstanding /\ taken' = Append(taken, hdrBuf)
      /\ disk' = disk /\ fs' = fs /\ stage' = stage /\ image' = image /\ request' = request
      /\ sector' = sector /\ total' = total /\ hdrBuf' = hdrBuf /\ dataBuf' = dataBuf
      /\ statusBuf' = statusBuf /\ avail' = avail /\ used' = used /\ faults' = faults
      /\ crashes' = crashes /\ saved' = saved /\ late' = late /\ spoilt' = spoilt
  BY DEF DeviceTakes, ramVars, auxVars
<1>2. Outstanding' = Outstanding
  BY <1>1, Zenon DEF Outstanding
<1> DEFINE n == Len(taken)  new == Append(taken, hdrBuf)
<1>3. /\ taken \in Seq(Header) /\ hdrBuf \in Header /\ n \in Nat /\ Outstanding \in Nat
      /\ n + 1 <= Outstanding
  BY <1>1, RingNow DEF StorageInv, StorageTyped
<1>4. /\ new \in Seq(Header) /\ Len(new) = n + 1 /\ new[n + 1] = hdrBuf
      /\ \A i \in 1 .. n : new[i] = taken[i]
  BY <1>3
<1> HIDE DEF new
<1>5. StorageTyped'
  BY <1>1, <1>4 DEF StorageInv, StorageTyped, new
<1>6. StageSound' /\ SaveSound' /\ LoadSound'
  BY <1>1 DEF StorageInv, StageSound, SaveSound, LoadSound, Loading
<1>7. Alone' /\ SavedSound'
  BY <1>1, <1>2, Zenon DEF StorageInv, Alone, Loading, SavedSound, OnDisk
<1>8. RingSound'
  <2>1. Len(new) <= Outstanding /\ new[Len(new)] = hdrBuf
    BY <1>3, <1>4
  <2> QED
    BY <1>1, <1>2, <2>1, Zenon DEF StorageInv, RingSound, new
<1>9. NoReads'
  <2> SUFFICES ASSUME stage \in {"save", "idle"}, ~ late
               PROVE  /\ \A i \in 1 .. Len(new) : new[i].write
                      /\ Len(new) < Outstanding => hdrBuf.write
    BY <1>1, <1>2, Zenon DEF NoReads, new
  <2>1. hdrBuf.write /\ \A i \in 1 .. n : taken[i].write
    BY <1>1 DEF StorageInv, NoReads
  <2>2. ASSUME NEW i \in 1 .. Len(new) PROVE new[i].write
    <3>1. i \in 1 .. n \/ i = n + 1
      BY <1>3, <1>4
    <3>2. CASE i \in 1 .. n
      BY <1>4, <2>1, <3>2
    <3>3. CASE i = n + 1
      BY <1>4, <2>1, <3>3
    <3> QED
      BY <3>1, <3>2, <3>3
  <2> QED
    BY <2>1, <2>2
<1> QED
  BY <1>5, <1>6, <1>7, <1>8, <1>9 DEF StorageInv

(* The one request under way is the one that is waited for.                  *)
LEMMA OwnRequest ==
  ASSUME StorageInv, taken # << >>
  PROVE  /\ Len(taken) \in Nat /\ Len(taken) >= 1 /\ Outstanding \in Nat /\ Outstanding >= 1
         /\ used # avail /\ Head(taken) \in Header
         /\ request = "wait" /\ Outstanding = 1 =>
              Head(taken) = [write |-> stage = "save", sector |-> sector]
         /\ Loading \/ (stage = "save" /\ sector > 1) => request = "wait" /\ Outstanding = 1
<1>1. /\ taken \in Seq(Header) /\ Len(taken) \in Nat /\ Len(taken) >= 1
      /\ Outstanding \in Nat /\ Len(taken) <= Outstanding /\ Head(taken) = taken[1]
      /\ request \in {"none", "wait"}
  BY RingNow DEF StorageInv, StorageTyped, RingSound
<1>2. Outstanding >= 1 /\ used # avail
  <2>1. Outstanding >= 1 /\ Outstanding # 0
    BY <1>1
  <2> QED
    BY <2>1, RingNow DEF StorageInv
<1>3. Head(taken) \in Header
  BY <1>1
<1>4. ASSUME request = "wait", Outstanding = 1
      PROVE  Head(taken) = [write |-> stage = "save", sector |-> sector]
  <2>1. Len(taken) = 1 /\ Outstanding > 0
    <3>1. \A a, b \in Nat : a >= 1 /\ a <= b /\ b = 1 => a = 1 /\ b > 0
      OBVIOUS
    <3> QED
      BY <1>1, <1>4, <3>1, Zenon
  <2> QED
    BY <1>1, <1>4, <2>1 DEF StorageInv, RingSound
<1>5. ASSUME Loading \/ (stage = "save" /\ sector > 1)
      PROVE  request = "wait" /\ Outstanding = 1
  <2>1. Outstanding <= 1 /\ (request = "none" => Outstanding = 0)
    BY <1>5 DEF StorageInv, Alone
  <2> QED
    BY <1>1, <1>2, <2>1
<1> QED
  BY <1>1, <1>2, <1>3, <1>4, <1>5

LEMMA DeviceMovesKeeps ==
  ASSUME StorageInv, DeviceMoves
  PROVE  StorageInv'
<1>1. /\ taken # << >> /\ taken' = Tail(taken) /\ used' = (used + 1) % RingWidth
      /\ fs' = fs /\ stage' = stage /\ image' = image /\ request' = request
      /\ sector' = sector /\ total' = total /\ hdrBuf' = hdrBuf /\ avail' = avail
      /\ crashes' = crashes /\ saved' = saved /\ late' = late /\ spoilt' = spoilt
  BY DEF DeviceMoves, ramVars, auxVars
<1> DEFINE h == Head(taken)  n == Len(taken)  rest == Tail(taken)
           Faulty == statusBuf' = 1 /\ disk' = disk /\ dataBuf' = dataBuf
           Written == /\ h.write /\ statusBuf' = 0 /\ dataBuf' = dataBuf
                      /\ disk' = [disk EXCEPT ![h.sector] = dataBuf]
           Fetched == /\ ~ h.write /\ statusBuf' = 0 /\ disk' = disk
                      /\ dataBuf' = disk[h.sector]
<1>2. Faulty \/ Written \/ Fetched
  BY DEF DeviceMoves
<1>3. PICK k \in 0 .. FaultBound : faults' = k /\ faults <= k
  <2>1. faults \in 0 .. FaultBound /\ FaultBound \in Nat
    BY StorageAssumption DEF StorageInv, StorageTyped
  <2>2. CASE faults < FaultBound /\ faults' = faults + 1
    <3>1. faults + 1 \in 0 .. FaultBound /\ faults <= faults + 1
      BY <2>1, <2>2
    <3> QED
      BY <2>2, <3>1
  <2>3. CASE faults' = faults
    BY <2>1, <2>3
  <2> QED
    BY <2>2, <2>3 DEF DeviceMoves
<1>4. /\ n \in Nat /\ n >= 1 /\ Outstanding \in Nat /\ Outstanding >= 1
      /\ used # avail /\ h \in Header
      /\ request = "wait" /\ Outstanding = 1 =>
           h = [write |-> stage = "save", sector |-> sector]
      /\ Loading \/ (stage = "save" /\ sector > 1) => request = "wait" /\ Outstanding = 1
  BY <1>1, OwnRequest
<1>5. /\ taken \in Seq(Header) /\ disk \in [1 .. DiskChunks -> Chunk] /\ dataBuf \in Chunk
      /\ h.sector \in 1 .. DiskChunks /\ h.write \in BOOLEAN
      /\ sector \in 1 .. DiskChunks /\ stage \in {"header", "image", "save", "idle"}
  BY <1>4 DEF StorageInv, StorageTyped, Header
<1>6. used' \in 0 .. RingWidth - 1 /\ Outstanding' = Outstanding - 1
  BY <1>1, <1>4, RingCompletes DEF StorageInv
<1>7. used' = avail' => Outstanding = 1
  <2>1. used' = avail' => Outstanding' = 0
    <3>1. RingWidth \in Nat \ {0}
      BY StorageAssumption
    <3>2. ASSUME NEW u \in 0 .. RingWidth - 1 PROVE (u + RingWidth - u) % RingWidth = 0
      <4>1. RingMoves(u, u, RingWidth)
        BY <3>1, RingFacts
      <4> QED
        BY <4>1, Zenon DEF RingMoves
    <3> QED
      BY <1>6, <3>2, Zenon DEF Outstanding
  <2>2. Outstanding - 1 = 0 => Outstanding = 1
    BY <1>4
  <2> QED
    BY <1>6, <2>1, <2>2, Zenon
<1>8. /\ rest \in Seq(Header) /\ Len(rest) = n - 1 /\ h = taken[1]
      /\ \A i \in 1 .. n - 1 : rest[i] = taken[i + 1]
  BY <1>1, <1>5
<1> HIDE DEF h, rest
<1>9. statusBuf' \in {0, 1, 255} /\ dataBuf' \in Chunk /\ disk' \in [1 .. DiskChunks -> Chunk]
  <2>1. disk[h.sector] \in Chunk
    BY <1>5
  <2> QED
    BY <1>2, <1>5, <2>1
<1>10. StorageTyped'
  BY <1>1, <1>3, <1>6, <1>8, <1>9 DEF StorageInv, StorageTyped, rest
<1>11. StageSound'
  BY <1>1 DEF StorageInv, StageSound
<1>12. RingSound'
  <2>1. /\ n - 1 <= Outstanding - 1 /\ Outstanding - 1 <= k + 1
        /\ request = "none" => Outstanding - 1 <= k
    <3>1. n <= Outstanding /\ Outstanding <= faults + 1 /\ (request = "none" => Outstanding <= faults)
      BY DEF StorageInv, RingSound
    <3>2. faults \in Nat /\ k \in Nat
      BY StorageAssumption DEF StorageInv, StorageTyped
    <3> QED
      BY <1>3, <1>4, <3>1, <3>2
  <2>2. request = "wait" => hdrBuf = [write |-> stage = "save", sector |-> sector]
    BY DEF StorageInv, RingSound
  <2>3. ASSUME request = "wait", Outstanding - 1 > 0, n - 1 = Outstanding - 1
        PROVE  rest[n - 1] = hdrBuf
    <3>1. n = Outstanding /\ Outstanding > 0 /\ n - 1 \in 1 .. n - 1 /\ (n - 1) + 1 = n
      BY <1>4, <2>3
    <3>2. taken[n] = hdrBuf
      BY <2>3, <3>1 DEF StorageInv, RingSound
    <3> QED
      BY <1>8, <3>1, <3>2
  <2>4. taken' = rest
    BY <1>1 DEF rest
  <2> HIDE DEF n
  <2> QED
    BY <1>1, <1>3, <1>6, <1>8, <2>1, <2>2, <2>3, <2>4, Zenon DEF RingSound
<1>13. Alone'
  <2>1. Loading \/ (stage = "save" /\ sector > 1) => Outstanding - 1 = 0 /\ 0 <= 1
    BY <1>4
  <2> QED
    BY <1>1, <1>6, <2>1, Zenon DEF Alone, Loading
<1>14. NoReads'
  <2> SUFFICES ASSUME stage \in {"save", "idle"}, ~ late
               PROVE  /\ \A i \in 1 .. Len(rest) : rest[i].write
                      /\ Len(rest) < Outstanding - 1 => hdrBuf.write
    BY <1>1, <1>6, Zenon DEF NoReads, rest
  <2>1. (\A i \in 1 .. n : taken[i].write) /\ (n < Outstanding => hdrBuf.write)
    BY DEF StorageInv, NoReads
  <2>2. ASSUME NEW i \in 1 .. Len(rest) PROVE rest[i].write
    <3>1. i \in 1 .. n - 1 /\ i + 1 \in 1 .. n
      BY <1>4, <1>8
    <3> QED
      BY <1>8, <2>1, <3>1
  <2>3. Len(rest) < Outstanding - 1 => n < Outstanding
    BY <1>4, <1>8
  <2> QED
    BY <2>1, <2>2, <2>3
<1>15. SaveSound'
  <2> SUFFICES ASSUME stage = "save", ~ late
               PROVE  /\ \A i \in 1 .. sector - 1 : disk'[i] = image[i]
                      /\ request = "wait" => dataBuf' = image[sector]
                      /\ request = "wait" /\ used' = avail' /\ statusBuf' = 0 =>
                           disk'[sector] = image[sector]
    BY <1>1, Zenon DEF SaveSound
  <2>1. /\ \A i \in 1 .. sector - 1 : disk[i] = image[i]
        /\ request = "wait" => dataBuf = image[sector]
    BY DEF StorageInv, SaveSound
  <2>2. h.write
    <3>1. 1 \in 1 .. n
      BY <1>4
    <3> QED
      BY <1>8, <3>1 DEF StorageInv, NoReads
  <2>3. dataBuf' = dataBuf
    BY <1>2, <2>2
  <2>4. ASSUME NEW i \in 1 .. sector - 1 PROVE disk'[i] = image[i]
    <3>1. sector > 1 /\ i \in 1 .. DiskChunks /\ i # sector
      BY <1>5, Sizes
    <3>2. h.sector = sector
      BY <1>4, <3>1
    <3> QED
      BY <1>2, <1>5, <2>1, <2>2, <3>1, <3>2
  <2>5. ASSUME request = "wait", used' = avail', statusBuf' = 0
        PROVE  disk'[sector] = image[sector]
    <3>1. h.sector = sector
      BY <1>4, <1>7, <2>5
    <3> QED
      BY <1>2, <1>5, <2>1, <2>2, <2>5, <3>1
  <2> QED
    BY <2>1, <2>3, <2>4, <2>5
<1>16. Loading => /\ disk' = disk /\ (statusBuf' = 0 => dataBuf' = disk[sector])
  <2> SUFFICES ASSUME Loading PROVE disk' = disk /\ (statusBuf' = 0 => dataBuf' = disk[sector])
    OBVIOUS
  <2>1. h = [write |-> FALSE, sector |-> sector]
    BY <1>4 DEF Loading
  <2> QED
    BY <1>2, <2>1
<1>17. LoadSound'
  <2>1. Loading' <=> Loading
    BY <1>1 DEF Loading
  <2>2. stage = "image" => Loading
    BY DEF Loading
  <2> QED
    BY <1>1, <1>16, <2>1, <2>2, Zenon DEF StorageInv, LoadSound
<1>18. SavedSound'
  <2> SUFFICES ASSUME stage # "save", ~ spoilt
               PROVE  /\ saved # << >> => OnDisk(saved)'
                      /\ stage = "idle" => Outstanding' = 0
    BY <1>1, Zenon DEF SavedSound, OnDisk
  <2>1. stage = "idle" => Outstanding = 0
    BY DEF StorageInv, SavedSound
  <2>2. stage # "idle"
    BY <1>4, <2>1
  <2>3. disk' = disk
    BY <1>5, <1>16, <2>2 DEF Loading
  <2> QED
    BY <1>1, <2>2, <2>3, Zenon DEF StorageInv, SavedSound, OnDisk
<1> QED
  BY <1>10, <1>11, <1>12, <1>13, <1>14, <1>15, <1>17, <1>18 DEF StorageInv

LEMMA StorageNextKeeps ==
  ASSUME StorageInv, [StorageNext]_storageVars
  PROVE  StorageInv'
<1>1. CASE Submit
  BY <1>1, SubmitKeeps
<1>2. CASE Done
  BY <1>2, DoneKeeps
<1>3. CASE Refused
  BY <1>3, RefusedKeeps
<1>4. CASE TimedOut
  BY <1>4, TimedOutKeeps
<1>5. CASE DeviceTakes
  BY <1>5, DeviceTakesKeeps
<1>6. CASE DeviceMoves
  BY <1>6, DeviceMovesKeeps
<1>7. CASE Write
  BY <1>7, WriteKeeps
<1>8. CASE PowerLoss
  BY <1>8, PowerLossKeeps
<1>9. CASE UNCHANGED storageVars
  BY <1>9 DEF storageVars, ramVars, deviceVars, auxVars, StorageInv, StorageTyped,
     StageSound, RingSound, Alone, NoReads, SaveSound, LoadSound, SavedSound, Loading,
     Outstanding, OnDisk
<1> QED
  BY <1>1, <1>2, <1>3, <1>4, <1>5, <1>6, <1>7, <1>8, <1>9 DEF StorageNext

(* In every reachable state of do_request, save_to_disk and the boot load: the *)
(* abandoned requests in the ring are writes unless a read is still late, the *)
(* chunks written so far are those of the image, and outside a save the disk  *)
(* starts with the last sound save.                                          *)
THEOREM StorageInvariant == StorageSpec => []StorageInv
BY InitKeeps, StorageNextKeeps, PTL DEF StorageSpec

LEMMA InvTypeOK == StorageInv => StorageTypeOK
<1> SUFFICES ASSUME StorageInv PROVE StorageTypeOK
  OBVIOUS
<1>1. fs \in FileSystems \cup {<< >>} /\ (stage \in {"save", "idle"} => fs # << >>)
  <2>1. ASSUME fs \in FileSystems PROVE fs # << >>
    <3>1. Len(fs) = NumFiles /\ NumFiles # 0
      BY <2>1, Sizes DEF FileSystems, NumFiles
    <3> QED
      BY <3>1
  <2> QED
    BY <2>1 DEF StorageInv, StorageTyped, StageSound
<1>2. Len(image) <= DiskChunks
  <2>1. CASE stage = "save"
    <3>1. fs \in FileSystems /\ image = Serialize(fs)
      BY <2>1 DEF StorageInv, StageSound
    <3>2. Len(Serialize(fs)) = 1 + Len(Body(fs)) /\ 1 + Len(Body(fs)) <= DiskChunks
      BY <3>1, SerializeFacts, Zenon
    <3> QED
      BY <3>1, <3>2
  <2>2. CASE stage = "image"
    <3>1. /\ Len(image) = sector - 1 /\ sector <= total /\ total <= DiskChunks
          /\ sector \in 1 .. DiskChunks /\ total \in Nat
      BY <2>2 DEF StorageInv, StorageTyped, StageSound
    <3> QED
      BY <3>1, Sizes
  <2>3. CASE stage \in {"header", "idle"}
    <3>1. Len(image) = 0
      BY <2>3 DEF StorageInv, StageSound
    <3> QED
      BY <3>1, Sizes
  <2> QED
    BY <2>1, <2>2, <2>3 DEF StorageInv, StorageTyped
<1> QED
  BY <1>1, <1>2 DEF StorageInv, StorageTyped, RingSound, StorageTypeOK

(* The kernel's stages and the buffers' contents are always those the code   *)
(* works with: virtio_blk's ring never holds fewer requests than the device  *)
(* has taken, and the chunk asked for is one of the disk's.                  *)
THEOREM StorageTypes == StorageSpec => []StorageTypeOK
BY StorageInvariant, InvTypeOK, PTL

LEMMA InvOnDisk == StorageInv => SavedIsOnDisk
<1> SUFFICES ASSUME StorageInv, stage # "save", ~ spoilt, saved # << >>
             PROVE  SubSeq(disk, 1, Len(Serialize(saved))) = Serialize(saved)
  BY DEF SavedIsOnDisk
<1> DEFINE bytes == Serialize(saved)  m == Len(bytes)
<1>1. saved \in FileSystems /\ disk \in [1 .. DiskChunks -> Chunk]
  BY DEF StorageInv, StorageTyped
<1>2. bytes \in Seq(Chunk) /\ m = 1 + Len(Body(saved)) /\ Len(Body(saved)) \in Nat
      /\ 1 + Len(Body(saved)) <= DiskChunks
  BY <1>1, SerializeFacts, Zenon
<1>3. \A i \in 1 .. m : disk[i] = bytes[i]
  BY DEF StorageInv, SavedSound, OnDisk
<1> HIDE DEF bytes
<1>4. disk \in Seq(Chunk) /\ Len(disk) = DiskChunks /\ m \in 1 .. DiskChunks
  BY <1>1, <1>2, Sizes
<1>5. SubSeq(disk, 1, m) \in Seq(Chunk) /\ Len(SubSeq(disk, 1, m)) = m
      /\ \A i \in 1 .. m : SubSeq(disk, 1, m)[i] = disk[i]
  BY <1>4
<1>6. SubSeq(disk, 1, m) = bytes
  BY <1>2, <1>3, <1>5, SeqEqual
<1> QED
  BY <1>6 DEF bytes

(* save_to_disk: once a save was reported complete and no read was abandoned  *)
(* before it, the disk starts with exactly the bytes of that snapshot,        *)
(* whatever writes timed out earlier and whenever the device serves them.     *)
THEOREM SavesAreOnDisk == StorageSpec => []SavedIsOnDisk
BY StorageInvariant, InvOnDisk, PTL

(* The step that BootRestores speaks of.                                     *)
LEMMA LoadRestores ==
  ASSUME StorageInv, Done, Loading, stage' \in {"save", "idle"}, saved # << >>, ~ spoilt'
  PROVE  stage' = "idle" /\ fs' = saved
<1>1. stage # "save" /\ UNCHANGED auxVars /\ Loaded(Append(image, dataBuf))
  BY DEF Done, Loading
<1>2. ~ spoilt /\ saved \in FileSystems
  BY <1>1 DEF auxVars, StorageInv, StorageTyped
<1> DEFINE snapshot == Serialize(saved)  m == Len(snapshot)
<1>3. \A i \in 1 .. m : disk[i] = snapshot[i]
  BY <1>1, <1>2 DEF StorageInv, SavedSound, OnDisk
<1>4. /\ snapshot \in Seq(Chunk) /\ m = 1 + Len(Body(saved)) /\ Len(Body(saved)) \in Nat
      /\ snapshot[1] = [tag |-> "header", total |-> 1 + Len(Body(saved))]
  BY <1>2, SerializeFacts, Zenon
<1>5. Readable(snapshot) /\ Deserialize(snapshot) = saved
  BY <1>2, RoundTrip
<1> HIDE DEF snapshot
<1>6. disk[1] = snapshot[1] /\ snapshot[1].tag = "header" /\ snapshot[1].total = m
  <2>1. 1 \in 1 .. m
    BY <1>4
  <2> QED
    BY <1>3, <1>4, <2>1
<1>7. CASE stage = "header"
  <2>1. image = << >> /\ sector = 1
    BY <1>7 DEF StorageInv, StageSound
  <2>2. dataBuf = disk[1]
    BY <1>7, <2>1, AnsweredIsQuiet DEF StorageInv, LoadSound, Loading
  <2>3. Append(image, dataBuf)[1] = dataBuf
    BY <2>1
  <2>4. stage' = "image"
    BY <1>1, <1>6, <1>7, <2>2, <2>3 DEF Loaded
  <2> QED
    BY <2>4
<1>8. CASE stage = "image"
  <2> DEFINE bytes == Append(image, dataBuf)
  <2>1. /\ bytes \in Seq(Chunk) /\ Len(bytes) = sector /\ sector <= total /\ total \in Nat
        /\ sector \in Nat /\ disk[1].total = total
        /\ \A i \in 1 .. sector : bytes[i] = disk[i]
    BY <1>8, LoadedBytes
  <2>2. Loaded(bytes)
    BY <1>1
  <2> HIDE DEF bytes
  <2>3. CASE Len(bytes) < total
    <3>1. Len(bytes) # total
      BY <2>1, <2>3
    <3>2. stage' = stage
      BY <1>8, <2>2, <2>3, <3>1 DEF Loaded
    <3> QED
      BY <1>8, <3>2
  <2>4. CASE ~ (Len(bytes) < total)
    <3>1. Len(bytes) = total /\ Len(bytes) = m /\ sector = m
      BY <1>6, <2>1, <2>4
    <3>2. \A i \in 1 .. Len(bytes) : bytes[i] = snapshot[i]
      BY <1>3, <2>1, <3>1, Zenon
    <3>3. bytes = snapshot
      BY <1>4, <2>1, <3>1, <3>2, SeqEqual
    <3>4. IF Readable(bytes) THEN fs' = Deserialize(bytes) /\ Return ELSE NewFs
      BY <1>8, <2>2, <2>4, <3>1 DEF Loaded
    <3>5. Readable(bytes) /\ Deserialize(bytes) = saved
      BY <1>5, <3>3, Zenon
    <3> QED
      BY <3>4, <3>5 DEF Return
  <2> QED
    BY <2>3, <2>4
<1> QED
  BY <1>7, <1>8 DEF Loading

Restores ==
  stage \in {"header", "image"} /\ stage' \in {"save", "idle"} /\ saved # << >> /\ ~ spoilt'
    => stage' = "idle" /\ fs' = saved

LEMMA StepRestores ==
  ASSUME StorageInv, [StorageNext]_storageVars
  PROVE  Restores
<1> SUFFICES ASSUME Loading, stage' \in {"save", "idle"}, saved # << >>, ~ spoilt'
             PROVE  stage' = "idle" /\ fs' = saved
  BY DEF Restores, Loading
<1>1. CASE Done
  BY <1>1, LoadRestores
<1>2. CASE Refused \/ TimedOut
  BY <1>2 DEF Refused, TimedOut, Failed
<1>3. CASE Write \/ PowerLoss
  BY <1>3 DEF Write, PowerLoss, Loading
<1>4. CASE Submit \/ DeviceTakes \/ DeviceMoves \/ UNCHANGED storageVars
  <2>1. stage' = stage
    BY <1>4 DEF Submit, DeviceTakes, DeviceMoves, storageVars, ramVars
  <2> QED
    BY <2>1 DEF Loading
<1> QED
  BY <1>1, <1>2, <1>3, <1>4 DEF StorageNext

(* Boot: load_from_disk restores the last complete save.  It makes a new     *)
(* file system instead only when a request of the load failed, or power was  *)
(* lost during a save, since that save.                                      *)
THEOREM BootsRestore == StorageSpec => BootRestores
<1>1. StorageInv /\ [StorageNext]_storageVars => [Restores]_storageVars
  BY StepRestores
<1> QED
  BY <1>1, StorageInvariant, PTL DEF StorageSpec, BootRestores, Restores
-----------------------------------------------------------------------------
(***************************************************************************)
(* The socket, for any number of units, of faults of the network and of    *)
(* retransmissions.                                                        *)
(*                                                                         *)
(* What a side may acknowledge is bounded by what the other has made, so the *)
(* invariant bounds the end of every segment on its way (FromTask,         *)
(* FromPeers) and tells apart what the peer sent as data from its FIN, which *)
(* a socket that is Established counts on top of whatever it has           *)
(* acknowledged (Acks).  As long as nothing was disturbed the segments to  *)
(* the socket follow one another from where it is to where the peer is     *)
(* (Chain).                                                                *)
(***************************************************************************)
Segments == [flags : SUBSET {"SYN", "ACK", "FIN", "RST"}, seq : Nat, ack : Nat, len : {0, 1}]
PeerStates == {"Listen", "SynRcvd", "Open", "Closing", "Done"}

TcpTyped ==
  /\ TcpTypeOK
  /\ toPeer \in Seq(Segments) /\ toSocket \in Seq(Segments)
  /\ peer \in [state : PeerStates, next : Nat, acked : Nat, expects : Nat]
  /\ disturbed \in BOOLEAN
  /\ read \in [seq : Nat, ack : Nat]

(* The number after a segment's last, the one after the last that the task    *)
(* has used, and the one after the last that the peer gave to data.           *)
End(seg) == seg.seq + seg.len + (IF "SYN" \in seg.flags \/ "FIN" \in seg.flags THEN 1 ELSE 0)
Own == IF call = "send" THEN newSeq ELSE seqNum
SentBy(p) == IF p.state = "Done" THEN p.next - 1 ELSE p.next

Calls ==
  /\ call = "send" => newSeq = seqNum + 1
  /\ tcpState = "SynSent" => call # "send" /\ seqNum = 0 /\ ackNum = 0 /\ rxBuf = << >>
  /\ call = "none" /\ outcome = "none" /\ tcpState # "Removed" =>
       /\ tcpState = "Closed" /\ seqNum = 0 /\ ackNum = 0 /\ rxBuf = << >>
       /\ toPeer = << >> /\ toSocket = << >> /\ peer.state = "Listen"

(* The number that socket_send and socket_close read is the socket's still     *)
(* when they send it.                                                         *)
Prepared ==
  call \in {"sending", "closing"} =>
    read.seq = seqNum /\ tcpState # "SynSent" /\ (call = "sending" => seqNum <= MaxUnits)

PeerCounts ==
  /\ peer.state = "Listen" <=> peer.next = 0
  /\ peer.state # "Listen" => peer.expects >= 1
  /\ peer.state = "Done" => peer.next >= 2
  /\ peer.expects <= Own + 1
  /\ tcpState = "Established" => peer.state # "Listen"

FromTask ==
  \A i \in 1 .. Len(toPeer) :
    /\ End(toPeer[i]) <= Own + 1
    /\ "SYN" \in toPeer[i].flags => toPeer[i].seq = 0

PeerSegment(seg, p) ==
  /\ End(seg) <= p.next
  /\ "FIN" \in seg.flags => p.state = "Done" /\ seg.len = 0
  /\ seg.len > 0 => End(seg) <= SentBy(p)
  /\ "SYN" \in seg.flags => /\ seg.seq = 0 /\ seg.ack = 1 /\ seg.len = 0
                            /\ "FIN" \notin seg.flags /\ "ACK" \in seg.flags
                            /\ p.state # "Listen"
  /\ seg.seq = 0 => "SYN" \in seg.flags \/ "RST" \in seg.flags
FromPeers == \A i \in 1 .. Len(toSocket) : PeerSegment(toSocket[i], peer)

Acks ==
  /\ ackNum <= peer.next
  /\ tcpState \in {"SynSent", "Established"} => ackNum <= SentBy(peer)

Expected == IF tcpState = "SynSent" THEN 0 ELSE Len(rxBuf) + 1
Chain ==
  /\ \A i \in 1 .. Len(toSocket) - 1 : toSocket[i + 1].seq = End(toSocket[i])
  /\ toSocket # << >> => End(toSocket[Len(toSocket)]) = peer.next
  /\ \A i \in 1 .. Len(rxBuf) : rxBuf[i] = i
  /\ tcpState \in {"SynSent", "Established"} =>
       Expected = IF toSocket = << >> THEN peer.next ELSE toSocket[1].seq

TcpInv ==
  /\ TcpTyped /\ Calls /\ Prepared /\ PeerCounts /\ FromTask /\ FromPeers /\ Acks
  /\ ~disturbed => Chain

----------------------------------------------------------------------------
(* Sequences lose their head and gain a last element.                         *)
LEMMA TailFacts ==
  ASSUME NEW S, NEW s \in Seq(S), s # << >>
  PROVE  /\ Tail(s) \in Seq(S) /\ Len(s) \in Nat \ {0} /\ Len(Tail(s)) = Len(s) - 1
         /\ \A i \in 1 .. Len(s) - 1 : Tail(s)[i] = s[i + 1]
         /\ Head(s) = s[1] /\ s[1] \in S
BY HeadTailProperties, EmptySeq, LenProperties, ElementOfSeq

LEMMA AppendFacts ==
  ASSUME NEW S, NEW s \in Seq(S), NEW x \in S
  PROVE  /\ Append(s, x) \in Seq(S) /\ Len(s) \in Nat /\ Len(Append(s, x)) = Len(s) + 1
         /\ \A i \in 1 .. Len(s) : Append(s, x)[i] = s[i]
         /\ Append(s, x)[Len(s) + 1] = x
         /\ Append(s, x) # << >>
BY AppendProperties, LenProperties

LEMMA EndType ==
  ASSUME NEW seg \in Segments
  PROVE  /\ End(seg) \in Nat /\ seg.seq \in Nat /\ seg.ack \in Nat /\ seg.len \in {0, 1}
         /\ seg.flags \subseteq {"SYN", "ACK", "FIN", "RST"}
         /\ seg.seq <= End(seg)
BY DEF Segments, End

LEMMA TcpInitially == TcpInit => TcpInv
<1> SUFFICES ASSUME TcpInit PROVE TcpInv
  OBVIOUS
<1> USE TcpAssumption DEF TcpInit
<1>1. TcpTyped
  <2>1. toPeer \in Seq(Segments) /\ toSocket \in Seq(Segments) /\ rxBuf \in Seq(Nat)
    BY EmptySeq
  <2>2. TcpTypeOK
    BY <2>1 DEF TcpTypeOK, TcpAssumption
  <2>3. peer \in [state : PeerStates, next : Nat, acked : Nat, expects : Nat]
    BY DEF PeerStates
  <2> QED
    BY <2>1, <2>2, <2>3 DEF TcpTyped
<1>2. Calls /\ Prepared /\ PeerCounts /\ Acks
  BY DEF Calls, Prepared, PeerCounts, Acks, Own, SentBy
<1>3. FromTask /\ FromPeers
  BY DEF FromTask, FromPeers
<1>4. Chain
  BY DEF Chain
<1> QED
  BY <1>1, <1>2, <1>3, <1>4 DEF TcpInv

(* What was read stays the socket's, through whatever is dispatched.           *)
LEMMA PreparedStays ==
  ASSUME Prepared, UNCHANGED << call, read >>, seqNum' = seqNum \/ tcpState = "SynSent",
         tcpState' = "SynSent" => tcpState = "SynSent"
  PROVE  Prepared'
BY DEF Prepared

(* What the task puts on the way respects FromTask, what the peer puts there  *)
(* FromPeers and Chain.                                                      *)
LEMMA TaskSends ==
  ASSUME TcpTyped, FromTask, NEW seg \in Segments, toPeer' = Append(toPeer, seg),
         Own \in Nat, Own' \in Nat, Own <= Own', End(seg) <= Own' + 1,
         "SYN" \in seg.flags => seg.seq = 0
  PROVE  FromTask' /\ toPeer' \in Seq(Segments)
<1>1. toPeer \in Seq(Segments)
  BY DEF TcpTyped
<1>2. /\ toPeer' \in Seq(Segments) /\ Len(toPeer) \in Nat /\ Len(toPeer') = Len(toPeer) + 1
      /\ \A i \in 1 .. Len(toPeer) : toPeer'[i] = toPeer[i] /\ toPeer[i] \in Segments
      /\ toPeer'[Len(toPeer) + 1] = seg
  BY <1>1, AppendFacts
<1>3. ASSUME NEW i \in 1 .. Len(toPeer')
      PROVE  End(toPeer'[i]) <= Own' + 1 /\ ("SYN" \in toPeer'[i].flags => toPeer'[i].seq = 0)
  <2>1. CASE i = Len(toPeer) + 1
    BY <1>2, <2>1
  <2>2. CASE i # Len(toPeer) + 1
    <3>1. i \in 1 .. Len(toPeer)
      BY <1>2, <1>3, <2>2
    <3>2. End(toPeer[i]) <= Own + 1 /\ ("SYN" \in toPeer[i].flags => toPeer[i].seq = 0)
      BY <3>1 DEF FromTask
    <3>3. toPeer'[i] = toPeer[i] /\ End(toPeer[i]) \in Nat
      BY <3>1, <1>2, EndType
    <3> QED
      BY <3>2, <3>3
  <2> QED
    BY <2>1, <2>2
<1> QED
  <2>1. \A i \in 1 .. Len(toPeer') :
          End(toPeer'[i]) <= Own' + 1 /\ ("SYN" \in toPeer'[i].flags => toPeer'[i].seq = 0)
    BY <1>3
  <2> QED
    BY <2>1, <1>2 DEF FromTask, End

LEMMA TaskWaits ==
  ASSUME TcpTyped, FromTask, UNCHANGED toPeer, Own \in Nat, Own' \in Nat, Own <= Own'
  PROVE  FromTask'
<1>1. \A i \in 1 .. Len(toPeer) : toPeer[i] \in Segments
  BY DEF TcpTyped
<1> SUFFICES ASSUME NEW i \in 1 .. Len(toPeer)
             PROVE  End(toPeer[i]) <= Own' + 1 /\ ("SYN" \in toPeer[i].flags => toPeer[i].seq = 0)
  BY DEF FromTask, End
<1>2. End(toPeer[i]) <= Own + 1 /\ ("SYN" \in toPeer[i].flags => toPeer[i].seq = 0)
  BY DEF FromTask
<1>3. End(toPeer[i]) \in Nat
  BY <1>1, EndType
<1> QED
  BY <1>2, <1>3

LEMMA OwnType == TcpTyped => Own \in Nat
BY DEF TcpTyped, TcpTypeOK, Own

(* The peer's counts only grow, and its FIN is its last.                      *)
PeerStep(p, q) ==
  /\ q.next >= p.next /\ SentBy(q) >= SentBy(p)
  /\ p.state = "Done" => q.state = "Done"
  /\ p.state # "Listen" => q.state # "Listen"

PeerRecords == [state : PeerStates, next : Nat, acked : Nat, expects : Nat]

LEMMA SegmentKept ==
  ASSUME NEW p \in PeerRecords, NEW q \in PeerRecords, PeerStep(p, q), NEW seg \in Segments,
         PeerSegment(seg, p)
  PROVE  PeerSegment(seg, q)
<1>1. End(seg) \in Nat /\ SentBy(p) \in Int /\ SentBy(q) \in Int /\ p.next \in Nat /\ q.next \in Nat
  BY EndType DEF SentBy, PeerRecords
<1> QED
  BY <1>1 DEF PeerSegment, PeerStep

LEMMA PeerAppends ==
  ASSUME TcpTyped, FromPeers, NEW seg \in Segments, toSocket' = Append(toSocket, seg),
         peer' \in PeerRecords, PeerStep(peer, peer'), PeerSegment(seg, peer')
  PROVE  FromPeers' /\ toSocket' \in Seq(Segments)
<1>1. toSocket \in Seq(Segments) /\ peer \in PeerRecords
  BY DEF TcpTyped, PeerRecords
<1>2. /\ toSocket' \in Seq(Segments) /\ Len(toSocket) \in Nat
      /\ Len(toSocket') = Len(toSocket) + 1
      /\ \A i \in 1 .. Len(toSocket) : toSocket'[i] = toSocket[i] /\ toSocket[i] \in Segments
      /\ toSocket'[Len(toSocket) + 1] = seg
  BY <1>1, AppendFacts
<1>3. ASSUME NEW i \in 1 .. Len(toSocket') PROVE PeerSegment(toSocket'[i], peer')
  <2>1. CASE i = Len(toSocket) + 1
    BY <1>2, <2>1
  <2>2. CASE i # Len(toSocket) + 1
    <3>1. i \in 1 .. Len(toSocket)
      BY <1>2, <1>3, <2>2
    <3>2. PeerSegment(toSocket[i], peer)
      BY <3>1 DEF FromPeers
    <3> QED
      BY <1>1, <1>2, <3>1, <3>2, SegmentKept
  <2> QED
    BY <2>1, <2>2
<1> QED
  BY <1>2, <1>3 DEF FromPeers

LEMMA PeerWaits ==
  ASSUME TcpTyped, FromPeers, peer' \in PeerRecords, PeerStep(peer, peer'),
         \/ toSocket' = toSocket
         \/ toSocket # << >> /\ toSocket' = Tail(toSocket)
  PROVE  FromPeers' /\ toSocket' \in Seq(Segments)
<1>1. toSocket \in Seq(Segments) /\ peer \in PeerRecords
  BY DEF TcpTyped, PeerRecords
<1>2. \A i \in 1 .. Len(toSocket) : toSocket[i] \in Segments /\ PeerSegment(toSocket[i], peer')
  BY <1>1, SegmentKept, ElementOfSeq DEF FromPeers
<1>3. CASE toSocket' = toSocket
  BY <1>1, <1>2, <1>3 DEF FromPeers
<1>4. CASE toSocket # << >> /\ toSocket' = Tail(toSocket)
  <2>1. /\ toSocket' \in Seq(Segments) /\ Len(toSocket) \in Nat
        /\ Len(toSocket') = Len(toSocket) - 1
        /\ \A i \in 1 .. Len(toSocket) - 1 : toSocket'[i] = toSocket[i + 1]
    BY <1>1, <1>4, TailFacts
  <2> QED
    BY <1>2, <2>1 DEF FromPeers
<1> QED
  BY <1>3, <1>4

(* An undisturbed chain grows at its end ...                                  *)
LEMMA ChainGrows ==
  ASSUME TcpTyped, Chain, NEW seg \in Segments, toSocket' = Append(toSocket, seg),
         seg.seq = peer.next, peer'.next = End(seg), UNCHANGED << tcpState, rxBuf >>
  PROVE  Chain'
<1>1. toSocket \in Seq(Segments)
  BY DEF TcpTyped
<1>2. /\ Len(toSocket) \in Nat
      /\ Len(toSocket') = Len(toSocket) + 1
      /\ \A i \in 1 .. Len(toSocket) : toSocket'[i] = toSocket[i]
      /\ toSocket'[Len(toSocket) + 1] = seg
      /\ toSocket' # << >> /\ (toSocket = << >> <=> Len(toSocket) = 0)
  BY <1>1, AppendFacts, EmptySeq
<1>3. \A i \in 1 .. Len(toSocket') - 1 : toSocket'[i + 1].seq = End(toSocket'[i])
  <2>1. ASSUME NEW i \in 1 .. Len(toSocket)
        PROVE  toSocket'[i + 1].seq = End(toSocket'[i])
    <3>1. CASE i = Len(toSocket)
      BY <1>2, <3>1 DEF Chain
    <3>2. CASE i < Len(toSocket)
      BY <1>2, <3>2 DEF Chain
    <3> QED
      BY <1>2, <3>1, <3>2
  <2>2. Len(toSocket') - 1 = Len(toSocket)
    BY <1>2
  <2> QED
    BY <2>1, <2>2, Zenon
<1>4. End(toSocket'[Len(toSocket')]) = peer'.next
  BY <1>2
<1>5. (IF toSocket = << >> THEN peer.next ELSE toSocket[1].seq) = toSocket'[1].seq
  BY <1>2
<1> QED
  BY <1>2, <1>3, <1>4, <1>5 DEF Chain, Expected, End

(* ... and loses its head to the socket.                                      *)
LEMMA ChainShrinks ==
  ASSUME TcpTyped, Chain, toSocket # << >>, toSocket' = Tail(toSocket), UNCHANGED peer,
         \A i \in 1 .. Len(rxBuf') : rxBuf'[i] = i,
         tcpState' \in {"SynSent", "Established"} => Expected' = End(toSocket[1])
  PROVE  Chain'
<1>1. /\ Len(toSocket) \in Nat \ {0} /\ Len(toSocket') = Len(toSocket) - 1
      /\ \A i \in 1 .. Len(toSocket) - 1 : toSocket'[i] = toSocket[i + 1]
      /\ (toSocket' = << >> <=> Len(toSocket) = 1)
  <2>1. toSocket \in Seq(Segments)
    BY DEF TcpTyped
  <2>2. /\ toSocket' \in Seq(Segments)
        /\ Len(toSocket) \in Nat \ {0} /\ Len(toSocket') = Len(toSocket) - 1
        /\ \A i \in 1 .. Len(toSocket) - 1 : toSocket'[i] = toSocket[i + 1]
    BY <2>1, TailFacts
  <2>3. toSocket' = << >> <=> Len(toSocket') = 0
    BY <2>2, EmptySeq
  <2> QED
    BY <2>2, <2>3
<1>2. /\ \A i \in 1 .. Len(toSocket) - 1 : toSocket[i + 1].seq = End(toSocket[i])
      /\ End(toSocket[Len(toSocket)]) = peer.next
  BY DEF Chain
<1>3. \A i \in 1 .. Len(toSocket') - 1 : toSocket'[i + 1].seq = End(toSocket'[i])
  BY <1>1, <1>2
<1>4. toSocket' # << >> => End(toSocket'[Len(toSocket')]) = peer'.next
  BY <1>1, <1>2
<1>5. End(toSocket[1]) = IF toSocket' = << >> THEN peer'.next ELSE toSocket'[1].seq
  BY <1>1, <1>2
<1> QED
  BY <1>3, <1>4, <1>5 DEF Chain, End

----------------------------------------------------------------------------
(* The calls of the task.                                                     *)
LEMMA ChainStays ==
  ASSUME Chain, UNCHANGED << toSocket, rxBuf, peer >>,
         tcpState' \in {"SynSent", "Established"} => tcpState' = tcpState
  PROVE  Chain'
BY DEF Chain, Expected, End

LEMMA ConnectKeeps == TcpInv /\ Connect => TcpInv'
<1> SUFFICES ASSUME TcpInv, Connect PROVE TcpInv'
  OBVIOUS
<1> DEFINE seg == Segment({"SYN"}, seqNum, 0, 0)
<1>1. /\ seqNum = 0 /\ ackNum = 0 /\ rxBuf = << >> /\ toPeer = << >> /\ toSocket = << >>
      /\ peer.state = "Listen" /\ peer.next = 0 /\ peer.expects <= Own + 1 /\ Own = seqNum
  BY DEF TcpInv, Calls, PeerCounts, Connect, Own
<1>2. /\ call' = "connect" /\ tcpState' = "SynSent" /\ toPeer' = Append(toPeer, seg)
      /\ UNCHANGED << read, newSeq, outcome, seqNum, ackNum, rxBuf, toSocket, peer, disturbed >>
      /\ Own' = seqNum
  BY DEF Connect, Send, Own
<1>3. seg \in Segments /\ End(seg) = 1 /\ seg.seq = 0
  <2>1. seg = [flags |-> {"SYN"}, seq |-> 0, ack |-> 0, len |-> 0]
    BY <1>1 DEF Segment
  <2> HIDE DEF seg
  <2> QED
    BY <2>1 DEF Segments, End
<1>4. FromTask' /\ toPeer' \in Seq(Segments)
  BY <1>1, <1>2, <1>3, TaskSends, OwnType DEF TcpInv
<1>5. TcpTyped'
  BY <1>2, <1>4 DEF TcpInv, TcpTyped, TcpTypeOK
<1>6. Calls' /\ Prepared' /\ PeerCounts' /\ Acks'
  BY <1>1, <1>2 DEF TcpInv, Calls, Prepared, PeerCounts, Acks, SentBy
<1>7. FromPeers'
  BY <1>2 DEF TcpInv, FromPeers
<1>8. Chain'
  BY <1>1, <1>2 DEF Chain, Expected
<1> QED
  BY <1>2, <1>4, <1>5, <1>6, <1>7, <1>8 DEF TcpInv

LEMMA ReturnsKeep ==
  TcpInv /\ (ConnectReturns \/ ConnectTimesOut \/ SendReturns \/ SendTimesOut) => TcpInv'
<1> SUFFICES ASSUME TcpInv, ConnectReturns \/ ConnectTimesOut \/ SendReturns \/ SendTimesOut
             PROVE  TcpInv'
  OBVIOUS
<1>1. /\ call' = "none" /\ outcome' \in {"true", "false"}
      /\ UNCHANGED << read, newSeq, tcpState, ackNum, rxBuf, toPeer, toSocket, peer, disturbed >>
      /\ seqNum' = Own
      /\ tcpState = "SynSent" => seqNum' = seqNum
      /\ call # "none"
  BY DEF TcpInv, Calls, ConnectReturns, ConnectTimesOut, SendReturns, SendTimesOut, socketVars,
         netVars, Own
<1>2. Own \in 0 .. MaxUnits + 2 /\ Own' = Own /\ Own \in Nat
  BY <1>1, TcpAssumption DEF TcpInv, TcpTyped, TcpTypeOK, TcpAssumption, Own
<1>3. FromTask'
  BY <1>1, <1>2, TaskWaits DEF TcpInv
<1>4. TcpTyped'
  BY <1>1, <1>2 DEF TcpInv, TcpTyped, TcpTypeOK
<1>5. Calls' /\ Prepared' /\ PeerCounts' /\ Acks'
  BY <1>1, <1>2 DEF TcpInv, Calls, Prepared, PeerCounts, Acks
<1>6. FromPeers' /\ (~disturbed' => Chain')
  BY <1>1, ChainStays DEF TcpInv, FromPeers
<1> QED
  BY <1>3, <1>4, <1>5, <1>6 DEF TcpInv

(* Whatever a call leaves alone of the network and of the counts, it keeps.    *)
LEMMA TaskStays ==
  ASSUME TcpInv, UNCHANGED << seqNum, ackNum, rxBuf, toPeer, toSocket, peer, disturbed >>,
         call # "send", call' # "send", TcpTyped', Calls', Prepared',
         tcpState' \in {"SynSent", "Established"} => tcpState' = tcpState
  PROVE  TcpInv'
<1>1. Own' = Own /\ Own \in Nat
  BY OwnType DEF Own, TcpInv
<1>2. FromTask'
  BY <1>1, TaskWaits DEF TcpInv
<1>3. PeerCounts' /\ Acks'
  BY <1>1 DEF TcpInv, PeerCounts, Acks
<1>4. FromPeers' /\ (~disturbed' => Chain')
  BY ChainStays DEF TcpInv, FromPeers
<1> QED
  BY <1>2, <1>3, <1>4 DEF TcpInv

LEMMA ReadsKeep == TcpInv /\ (SendData \/ CloseEstablished) => TcpInv'
<1> SUFFICES ASSUME TcpInv, SendData \/ CloseEstablished PROVE TcpInv'
  OBVIOUS
<1>1. /\ call = "none" /\ outcome # "none" /\ tcpState = "Established"
      /\ call' \in {"sending", "closing"} /\ (call' = "sending" => seqNum <= MaxUnits)
      /\ read' = [seq |-> seqNum, ack |-> ackNum]
      /\ UNCHANGED << newSeq, outcome, tcpState, seqNum, ackNum, rxBuf, toPeer, toSocket, peer,
                      disturbed >>
  BY DEF SendData, CloseEstablished, Reads, socketVars, netVars
<1>2. TcpTyped'
  BY <1>1, TcpAssumption DEF TcpInv, TcpTyped, TcpTypeOK, TcpAssumption
<1>3. Calls' /\ Prepared'
  BY <1>1 DEF TcpInv, Calls, Prepared
<1> QED
  BY <1>1, <1>2, <1>3, TaskStays

LEMMA SendTransmitsKeeps == TcpInv /\ SendTransmits => TcpInv'
<1> SUFFICES ASSUME TcpInv, SendTransmits PROVE TcpInv'
  OBVIOUS
<1> DEFINE seg == Segment({"ACK"}, seqNum, read.ack, 1)
<1>1. /\ call = "sending" /\ tcpState # "SynSent" /\ seqNum <= MaxUnits
      /\ call' = "send" /\ newSeq' = seqNum + 1 /\ toPeer' = Append(toPeer, seg)
      /\ UNCHANGED << read, outcome, tcpState, seqNum, ackNum, rxBuf, toSocket, peer, disturbed >>
      /\ Own = seqNum /\ Own' = seqNum + 1
  BY DEF TcpInv, Prepared, SendTransmits, Send, socketVars, Own
<1>2. seqNum \in Nat /\ read.ack \in Nat /\ MaxUnits \in Nat /\ newSeq' \in 0 .. MaxUnits + 2
  BY <1>1, TcpAssumption DEF TcpInv, TcpTyped, TcpTypeOK, TcpAssumption
<1>3. seg \in Segments /\ End(seg) = seqNum + 1 /\ seg.flags = {"ACK"}
  BY <1>2 DEF Segment, Segments, End
<1>4. FromTask' /\ toPeer' \in Seq(Segments)
  BY <1>1, <1>2, <1>3, TaskSends DEF TcpInv
<1>5. TcpTyped'
  BY <1>1, <1>2, <1>4 DEF TcpInv, TcpTyped, TcpTypeOK
<1>6. peer.expects <= Own' + 1
  BY <1>1, <1>2 DEF TcpInv, TcpTyped, PeerCounts
<1>7. Calls' /\ Prepared' /\ PeerCounts' /\ Acks'
  BY <1>1, <1>2, <1>6 DEF TcpInv, Calls, Prepared, PeerCounts, Acks
<1>8. FromPeers' /\ (~disturbed' => Chain')
  BY <1>1, ChainStays DEF TcpInv, FromPeers
<1> QED
  BY <1>4, <1>5, <1>7, <1>8 DEF TcpInv

LEMMA CloseTransmitsKeeps == TcpInv /\ CloseTransmits => TcpInv'
<1> SUFFICES ASSUME TcpInv, CloseTransmits PROVE TcpInv'
  OBVIOUS
<1> DEFINE seg == Segment({"FIN", "ACK"}, seqNum, read.ack, 0)
<1>1. /\ call = "closing" /\ call' = "parting" /\ toPeer' = Append(toPeer, seg)
      /\ UNCHANGED << read, newSeq, outcome, tcpState, seqNum, ackNum, rxBuf, toSocket, peer,
                      disturbed >>
      /\ Own = seqNum /\ Own' = seqNum
  BY DEF TcpInv, Prepared, CloseTransmits, Send, socketVars, Own
<1>2. seqNum \in Nat /\ read.ack \in Nat
  BY TcpAssumption DEF TcpInv, TcpTyped, TcpTypeOK
<1>3. seg \in Segments /\ End(seg) = seqNum + 1 /\ seg.flags = {"FIN", "ACK"}
  BY <1>2 DEF Segment, Segments, End
<1>4. FromTask' /\ toPeer' \in Seq(Segments)
  BY <1>1, <1>2, <1>3, TaskSends DEF TcpInv
<1>5. TcpTyped'
  BY <1>1, <1>4 DEF TcpInv, TcpTyped, TcpTypeOK
<1>6. Calls' /\ Prepared' /\ PeerCounts' /\ Acks'
  BY <1>1 DEF TcpInv, Calls, Prepared, PeerCounts, Acks
<1>7. FromPeers' /\ (~disturbed' => Chain')
  BY <1>1, ChainStays DEF TcpInv, FromPeers
<1> QED
  BY <1>4, <1>5, <1>6, <1>7 DEF TcpInv

LEMMA CloseMarksKeeps == TcpInv /\ CloseMarks => TcpInv'
<1> SUFFICES ASSUME TcpInv, CloseMarks PROVE TcpInv'
  OBVIOUS
<1>1. /\ call = "parting" /\ call' = "close" /\ tcpState' = "FinWait1"
      /\ UNCHANGED << read, newSeq, outcome, seqNum, ackNum, rxBuf, toPeer, toSocket, peer,
                      disturbed >>
  BY DEF CloseMarks, netVars
<1>2. TcpTyped'
  BY <1>1 DEF TcpInv, TcpTyped, TcpTypeOK
<1>3. Calls' /\ Prepared'
  BY <1>1 DEF Calls, Prepared
<1> QED
  BY <1>1, <1>2, <1>3, TaskStays

LEMMA RemovesKeep == TcpInv /\ (CloseOther \/ CloseReturns \/ CloseTimesOut) => TcpInv'
<1> SUFFICES ASSUME TcpInv, CloseOther \/ CloseReturns \/ CloseTimesOut PROVE TcpInv'
  OBVIOUS
<1>1. /\ call \in {"none", "close"} /\ call' = "none" /\ tcpState' = "Removed"
      /\ outcome' = "none"
      /\ UNCHANGED << read, newSeq, seqNum, ackNum, rxBuf, toPeer, toSocket, peer, disturbed >>
      /\ Own = seqNum /\ Own' = seqNum
  BY DEF CloseOther, CloseReturns, CloseTimesOut, Remove, netVars, Own
<1>2. seqNum \in Nat
  BY TcpAssumption DEF TcpInv, TcpTyped, TcpTypeOK
<1>3. FromTask'
  BY <1>1, <1>2, TaskWaits DEF TcpInv
<1>4. TcpTyped'
  BY <1>1 DEF TcpInv, TcpTyped, TcpTypeOK
<1>5. Calls' /\ Prepared' /\ PeerCounts' /\ Acks'
  BY <1>1 DEF TcpInv, Calls, Prepared, PeerCounts, Acks
<1>6. FromPeers' /\ (~disturbed' => Chain')
  BY <1>1, ChainStays DEF TcpInv, FromPeers
<1> QED
  BY <1>3, <1>4, <1>5, <1>6 DEF TcpInv

----------------------------------------------------------------------------
(* The dispatcher: what each state does with a segment.                       *)
States == {"Removed", "Closed", "SynSent", "Established", "CloseWait", "FinWait1", "FinWait2",
           "TimeWait"}

Ignores(seg) ==
  /\ UNCHANGED << seqNum, ackNum, rxBuf, toPeer >>
  /\ tcpState' \in States /\ tcpState' # "Established"
  /\ tcpState' = "SynSent" => /\ tcpState = "SynSent" /\ "RST" \notin seg.flags
                              /\ ~({"SYN", "ACK"} \subseteq seg.flags)
  /\ tcpState' = "Removed" <=> tcpState = "Removed"

Shakes(seg) == tcpState = "SynSent" /\ {"SYN", "ACK"} \subseteq seg.flags /\ OnSynSent(seg)
Takes(seg) == tcpState = "Established" /\ OnEstablished(seg)
Parts(seg) == tcpState = "FinWait2" /\ "FIN" \in seg.flags /\ OnFinWait2(seg)

LEMMA DispatchCases ==
  ASSUME TcpTyped, NEW seg \in Segments, DispatchTcp(seg)
  PROVE  Ignores(seg) \/ Shakes(seg) \/ Takes(seg) \/ Parts(seg)
<1>1. tcpState \in States
  BY DEF TcpTyped, TcpTypeOK, States
<1>2. CASE tcpState = "Removed"
  BY <1>2 DEF DispatchTcp, Stay, Ignores, States
<1>3. CASE tcpState # "Removed" /\ "RST" \in seg.flags
  BY <1>3 DEF DispatchTcp, Ignores, States
<1>4. CASE tcpState # "Removed" /\ "RST" \notin seg.flags
  <2>1. CASE tcpState = "SynSent"
    BY <1>4, <2>1 DEF DispatchTcp, OnSynSent, Stay, Ignores, Shakes, States
  <2>2. CASE tcpState = "Established"
    BY <1>4, <2>2 DEF DispatchTcp, Takes
  <2>3. CASE tcpState = "FinWait1"
    BY <1>4, <2>3 DEF DispatchTcp, OnFinWait1, Ignores, States
  <2>4. CASE tcpState = "FinWait2"
    BY <1>4, <2>4 DEF DispatchTcp, OnFinWait2, Stay, Ignores, Parts, States
  <2>5. CASE tcpState \notin {"SynSent", "Established", "FinWait1", "FinWait2"}
    BY <1>1, <1>4, <2>5 DEF DispatchTcp, Stay, Ignores, States
  <2> QED
    BY <2>1, <2>2, <2>3, <2>4, <2>5
<1> QED
  BY <1>2, <1>3, <1>4

(* What the dispatcher leaves of the invariant, whether or not the segment is *)
(* taken off the network.                                                    *)
SocketSound ==
  /\ TcpTypeOK' /\ toPeer' \in Seq(Segments)
  /\ FromTask' /\ PeerCounts' /\ Acks'
  /\ call = "send" => newSeq = seqNum' + 1
  /\ tcpState' = "SynSent" => call # "send" /\ seqNum' = 0 /\ ackNum' = 0 /\ rxBuf' = << >>
  /\ tcpState' = "Removed" <=> tcpState = "Removed"

Follows(seg) ==
  /\ \A i \in 1 .. Len(rxBuf') : rxBuf'[i] = i
  /\ tcpState' \in {"SynSent", "Established"} => Expected' = End(seg)

LEMMA IgnoresKeeps ==
  ASSUME TcpInv, UNCHANGED << taskVars, peer >>, NEW seg \in Segments, PeerSegment(seg, peer),
         Ignores(seg)
  PROVE  SocketSound /\ (Chain /\ Expected = seg.seq => Follows(seg))
<1>1. /\ UNCHANGED << seqNum, ackNum, rxBuf, toPeer, call, read, newSeq, outcome, peer >>
      /\ tcpState' \in States /\ tcpState' # "Established"
      /\ tcpState' = "SynSent" => tcpState = "SynSent"
      /\ tcpState' = "Removed" <=> tcpState = "Removed"
      /\ Own' = Own
  BY DEF Ignores, taskVars, Own
<1>2. Own \in Nat
  BY OwnType DEF TcpInv
<1>3. FromTask'
  BY <1>1, <1>2, TaskWaits DEF TcpInv
<1>4. TcpTypeOK' /\ toPeer' \in Seq(Segments)
  BY <1>1 DEF TcpInv, TcpTyped, TcpTypeOK, States
<1>5. PeerCounts' /\ Acks'
  BY <1>1 DEF TcpInv, PeerCounts, Acks
<1>6. Chain /\ Expected = seg.seq => tcpState' # "SynSent"
  BY <1>1 DEF Ignores, Expected, PeerSegment
<1> QED
  BY <1>1, <1>3, <1>4, <1>5, <1>6 DEF SocketSound, Follows, TcpInv, Calls, Chain

LEMMA ShakesKeeps ==
  ASSUME TcpInv, UNCHANGED << taskVars, peer >>, NEW seg \in Segments, PeerSegment(seg, peer),
         Shakes(seg)
  PROVE  SocketSound /\ (Chain /\ Expected = seg.seq => Follows(seg))
<1> DEFINE answer == Segment({"ACK"}, 1, 1, 0)
<1>1. /\ tcpState = "SynSent" /\ seqNum = 0 /\ rxBuf = << >> /\ call # "send"
      /\ seg.seq = 0 /\ seg.ack = 1 /\ End(seg) = 1 /\ peer.state # "Listen"
      /\ seqNum' = 1 /\ ackNum' = 1 /\ tcpState' = "Established" /\ rxBuf' = << >>
      /\ toPeer' = Append(toPeer, answer)
      /\ UNCHANGED << call, read, newSeq, outcome, peer >>
      /\ Own = 0 /\ Own' = 1
  BY DEF TcpInv, Calls, Shakes, OnSynSent, Reply, Send, PeerSegment, taskVars, End, Own
<1>2. answer \in Segments /\ End(answer) = 1 /\ answer.flags = {"ACK"}
  BY DEF Segment, Segments, End
<1>3. FromTask' /\ toPeer' \in Seq(Segments)
  BY <1>1, <1>2, TaskSends DEF TcpInv
<1>4. TcpTypeOK'
  BY <1>1, TcpAssumption DEF TcpInv, TcpTyped, TcpTypeOK, TcpAssumption
<1>5. peer.next \in Nat /\ peer.expects \in Nat
  BY DEF TcpInv, TcpTyped
<1>6. PeerCounts' /\ Acks'
  BY <1>1, <1>5 DEF TcpInv, PeerCounts, Acks, SentBy
<1>7. Follows(seg)
  BY <1>1 DEF Follows, Expected
<1> QED
  BY <1>1, <1>3, <1>4, <1>6, <1>7 DEF SocketSound

LEMMA TakesKeeps ==
  ASSUME TcpInv, UNCHANGED << taskVars, peer >>, NEW seg \in Segments, PeerSegment(seg, peer),
         Takes(seg)
  PROVE  SocketSound /\ (Chain /\ Expected = seg.seq => Follows(seg))
<1> DEFINE upTo == IF seg.len > 0 THEN seg.seq + seg.len ELSE ackNum
           answer == Segment({"ACK"}, seqNum, ackNum', 0)
<1>1. /\ tcpState = "Established" /\ tcpState' \in {"Established", "CloseWait"}
      /\ "FIN" \in seg.flags => tcpState' = "CloseWait" /\ ackNum' = upTo + 1
      /\ "FIN" \notin seg.flags => tcpState' = "Established" /\ ackNum' = upTo
      /\ seg.len > 0 => rxBuf' = Append(rxBuf, seg.seq)
      /\ ~(seg.len > 0) => rxBuf' = rxBuf
      /\ toPeer' = toPeer \/ toPeer' = Append(toPeer, answer)
      /\ UNCHANGED << seqNum, call, read, newSeq, outcome, peer >>
      /\ Own' = Own
  BY DEF Takes, OnEstablished, Reply, Send, taskVars, Own
<1>2. /\ seg.seq \in Nat /\ seg.len \in {0, 1} /\ ackNum \in Nat /\ seqNum \in Nat
      /\ peer.next \in Nat /\ rxBuf \in Seq(Nat) /\ Own \in Nat /\ seqNum <= Own
      /\ (call = "send" => newSeq = seqNum + 1)
  BY EndType, OwnType, TcpAssumption DEF TcpInv, TcpTyped, TcpTypeOK, Calls, Own, Segments, TcpAssumption
<1>3. ackNum' \in Nat /\ rxBuf' \in Seq(Nat)
  <2>1. upTo \in Nat
    BY <1>2
  <2>2. ackNum' \in Nat
    BY <1>1, <2>1
  <2>3. Append(rxBuf, seg.seq) \in Seq(Nat)
    BY <1>2, AppendProperties
  <2> HIDE DEF upTo
  <2> QED
    BY <1>1, <1>2, <2>2, <2>3
<1>4. answer \in Segments /\ End(answer) = seqNum /\ answer.flags = {"ACK"}
  BY <1>2, <1>3 DEF Segment, Segments, End
<1>5. FromTask' /\ toPeer' \in Seq(Segments)
  <2>1. CASE toPeer' = toPeer
    BY <1>1, <1>2, <2>1, TaskWaits DEF TcpInv, TcpTyped
  <2>2. CASE toPeer' = Append(toPeer, answer)
    BY <1>1, <1>2, <1>4, <2>2, TaskSends DEF TcpInv
  <2> QED
    BY <1>1, <2>1, <2>2
<1>6. TcpTypeOK'
  BY <1>1, <1>3 DEF TcpInv, TcpTyped, TcpTypeOK
<1>7. upTo <= SentBy(peer)
  BY <1>1, <1>2 DEF TcpInv, Acks, PeerSegment, End, SentBy
<1>8. Acks'
  BY <1>1, <1>2, <1>3, <1>7 DEF Acks, PeerSegment, SentBy
<1>9. PeerCounts'
  BY <1>1 DEF TcpInv, PeerCounts
<1>10. ASSUME Chain, Expected = seg.seq PROVE Follows(seg)
  <2>1. seg.seq = Len(rxBuf) + 1 /\ Len(rxBuf) \in Nat /\ \A i \in 1 .. Len(rxBuf) : rxBuf[i] = i
    BY <1>1, <1>2, <1>10, LenProperties DEF Chain, Expected
  <2>2. "SYN" \notin seg.flags
    BY <2>1 DEF PeerSegment
  <2>3. CASE seg.len > 0
    <3>1. /\ rxBuf' = Append(rxBuf, seg.seq) /\ Len(rxBuf') = Len(rxBuf) + 1
          /\ \A i \in 1 .. Len(rxBuf) : rxBuf'[i] = rxBuf[i]
          /\ rxBuf'[Len(rxBuf) + 1] = seg.seq
      <4>1. rxBuf' = Append(rxBuf, seg.seq)
        BY <1>1, <2>3
      <4> QED
        BY <1>2, <4>1, AppendFacts
    <3>2. \A i \in 1 .. Len(rxBuf') : rxBuf'[i] = i
      BY <2>1, <3>1
    <3>3. seg.len = 1 /\ "FIN" \notin seg.flags /\ End(seg) = seg.seq + 1
      BY <1>2, <2>2, <2>3 DEF PeerSegment, End
    <3> QED
      BY <1>1, <2>1, <3>1, <3>2, <3>3 DEF Follows, Expected
  <2>4. CASE ~(seg.len > 0)
    <3>1. "FIN" \notin seg.flags => End(seg) = seg.seq
      BY <1>2, <2>2, <2>4 DEF End
    <3> QED
      BY <1>1, <2>1, <2>4, <3>1 DEF Follows, Expected
  <2> QED
    BY <2>3, <2>4
<1> QED
  BY <1>1, <1>2, <1>5, <1>6, <1>8, <1>9, <1>10 DEF SocketSound

LEMMA PartsKeeps ==
  ASSUME TcpInv, UNCHANGED << taskVars, peer >>, NEW seg \in Segments, PeerSegment(seg, peer),
         Parts(seg)
  PROVE  SocketSound /\ (Chain /\ Expected = seg.seq => Follows(seg))
<1> DEFINE answer == Segment({"ACK"}, seqNum, ackNum', 0)
<1>1. /\ tcpState = "FinWait2" /\ tcpState' = "Closed" /\ ackNum' = seg.seq + 1
      /\ toPeer' = Append(toPeer, answer) /\ "FIN" \in seg.flags
      /\ UNCHANGED << seqNum, rxBuf, call, read, newSeq, outcome, peer >>
      /\ Own' = Own
  BY DEF Parts, OnFinWait2, Reply, Send, taskVars, Own
<1>2. /\ seg.seq \in Nat /\ seg.len \in {0, 1} /\ ackNum' \in Nat /\ seqNum \in Nat
      /\ peer.next \in Nat /\ Own \in Nat /\ seqNum <= Own
  BY <1>1, EndType, OwnType, TcpAssumption
  DEF TcpInv, TcpTyped, TcpTypeOK, Calls, Own, Segments, TcpAssumption
<1>3. answer \in Segments /\ End(answer) = seqNum /\ answer.flags = {"ACK"}
  BY <1>2 DEF Segment, Segments, End
<1>4. FromTask' /\ toPeer' \in Seq(Segments)
  BY <1>1, <1>2, <1>3, TaskSends DEF TcpInv
<1>5. TcpTypeOK'
  BY <1>1, <1>2 DEF TcpInv, TcpTyped, TcpTypeOK
<1>6. Acks'
  BY <1>1, <1>2 DEF Acks, PeerSegment, End
<1>7. PeerCounts'
  BY <1>1 DEF TcpInv, PeerCounts
<1> QED
  BY <1>1, <1>4, <1>5, <1>6, <1>7 DEF SocketSound, Follows, TcpInv, Calls, Chain

LEMMA SocketReceivesKeeps == TcpInv /\ SocketReceives => TcpInv'
<1> SUFFICES ASSUME TcpInv, SocketReceives PROVE TcpInv'
  OBVIOUS
<1> DEFINE seg == toSocket[1]
<1>1. /\ toSocket # << >> /\ UNCHANGED << taskVars, peer >>
      /\ \/ toSocket' = Tail(toSocket) /\ disturbed' = disturbed
         \/ toSocket' = toSocket /\ disturbed' = TRUE
  BY DEF SocketReceives, Fault
<1>2. toSocket \in Seq(Segments) /\ peer \in PeerRecords
  BY DEF TcpInv, TcpTyped, PeerRecords
<1>3. seg \in Segments /\ Head(toSocket) = seg /\ Len(toSocket) \in Nat \ {0}
  BY <1>1, <1>2, TailFacts
<1>4. DispatchTcp(seg)
  BY <1>3 DEF SocketReceives
<1>5. PeerSegment(seg, peer)
  BY <1>3 DEF TcpInv, FromPeers
<1>6. Ignores(seg) \/ Shakes(seg) \/ Takes(seg) \/ Parts(seg)
  BY <1>3, <1>4, DispatchCases DEF TcpInv
<1>7. SocketSound /\ (Chain /\ Expected = seg.seq => Follows(seg))
  <2> HIDE DEF seg
  <2> QED
    BY <1>1, <1>3, <1>5, <1>6, IgnoresKeeps, ShakesKeeps, TakesKeeps, PartsKeeps
<1>8. PeerStep(peer, peer') /\ peer' \in PeerRecords
  BY <1>1, <1>2 DEF PeerStep, PeerRecords, SentBy
<1>9. FromPeers' /\ toSocket' \in Seq(Segments)
  BY <1>1, <1>8, PeerWaits DEF TcpInv
<1>10. TcpTyped'
  <2>1. read' = read /\ disturbed' \in BOOLEAN
    BY <1>1 DEF taskVars, TcpInv, TcpTyped
  <2> QED
    BY <1>7, <1>8, <1>9, <2>1 DEF TcpInv, TcpTyped, SocketSound, PeerRecords
<1>11. Calls'
  <2>1. call' = call /\ outcome' = outcome /\ newSeq' = newSeq
    BY <1>1 DEF taskVars
  <2>2. ~(call' = "none" /\ outcome' = "none" /\ tcpState' # "Removed")
    BY <1>1, <1>7, <2>1 DEF TcpInv, Calls, SocketSound
  <2> QED
    BY <1>7, <2>1, <2>2 DEF Calls, SocketSound
<1>12. Prepared'
  <2>1. /\ call' = call /\ read' = read
        /\ seqNum' = seqNum \/ tcpState = "SynSent"
        /\ tcpState' = "SynSent" => tcpState = "SynSent"
    BY <1>1, <1>6 DEF taskVars, Ignores, Shakes, Takes, Parts, OnSynSent, OnEstablished, OnFinWait2
  <2> QED
    BY <2>1, PreparedStays DEF TcpInv
<1>13. ASSUME ~disturbed' PROVE Chain'
  <2>1. toSocket' = Tail(toSocket) /\ ~disturbed
    BY <1>1, <1>13
  <2>2. Chain
    BY <2>1 DEF TcpInv
  <2>3. tcpState \in {"SynSent", "Established"} => Expected = seg.seq
    BY <1>1, <2>2 DEF Chain
  <2>4. \A i \in 1 .. Len(rxBuf') : rxBuf'[i] = i
    <3>1. CASE tcpState \in {"SynSent", "Established"}
      BY <1>7, <2>2, <2>3, <3>1 DEF Follows
    <3>2. CASE tcpState \notin {"SynSent", "Established"}
      <4>1. rxBuf' = rxBuf
        BY <1>6, <3>2 DEF Ignores, Shakes, Takes, Parts, OnFinWait2
      <4> QED
        BY <2>2, <4>1 DEF Chain
    <3> QED
      BY <3>1, <3>2
  <2>5. tcpState' \in {"SynSent", "Established"} => Expected' = End(seg)
    <3>1. CASE tcpState \in {"SynSent", "Established"}
      BY <1>7, <2>2, <2>3, <3>1 DEF Follows
    <3>2. CASE tcpState \notin {"SynSent", "Established"}
      BY <1>6, <3>2 DEF Ignores, Shakes, Takes, Parts, OnFinWait2
    <3> QED
      BY <3>1, <3>2
  <2> QED
    BY <1>1, <2>1, <2>2, <2>4, <2>5, ChainShrinks DEF TcpInv
<1> QED
  BY <1>7, <1>9, <1>10, <1>11, <1>12, <1>13 DEF TcpInv, SocketSound

----------------------------------------------------------------------------
(* The network and the peer.                                                  *)
LEMMA NetLosesKeeps == TcpInv /\ NetLoses => TcpInv'
<1> SUFFICES ASSUME TcpInv, NetLoses PROVE TcpInv'
  OBVIOUS
<1>1. /\ UNCHANGED << call, read, newSeq, outcome, tcpState, seqNum, ackNum, rxBuf, peer >>
      /\ disturbed' = TRUE /\ Own' = Own
      /\ \/ toSocket # << >> /\ toSocket' = Tail(toSocket) /\ toPeer' = toPeer
         \/ toPeer # << >> /\ toPeer' = Tail(toPeer) /\ toSocket' = toSocket
  BY DEF NetLoses, Fault, taskVars, socketVars, Own
<1>2. toPeer \in Seq(Segments) /\ peer \in PeerRecords
  BY DEF TcpInv, TcpTyped, PeerRecords
<1>3. PeerStep(peer, peer') /\ peer' \in PeerRecords
  BY <1>1, <1>2 DEF PeerStep, PeerRecords, SentBy
<1>4. FromPeers' /\ toSocket' \in Seq(Segments)
  BY <1>1, <1>3, PeerWaits DEF TcpInv
<1>5. FromTask' /\ toPeer' \in Seq(Segments)
  <2>1. CASE toPeer' = toPeer
    BY <1>1, <1>2, <2>1, TaskWaits, OwnType DEF TcpInv
  <2>2. CASE toPeer # << >> /\ toPeer' = Tail(toPeer)
    <3>1. /\ toPeer' \in Seq(Segments) /\ Len(toPeer) \in Nat \ {0}
          /\ Len(toPeer') = Len(toPeer) - 1
          /\ \A i \in 1 .. Len(toPeer) - 1 : toPeer'[i] = toPeer[i + 1]
      BY <1>2, <2>2, TailFacts
    <3> QED
      BY <1>1, <3>1 DEF TcpInv, FromTask, End
  <2> QED
    BY <1>1, <2>1, <2>2
<1>6. TcpTyped'
  BY <1>1, <1>4, <1>5 DEF TcpInv, TcpTyped, TcpTypeOK
<1>7. Calls' /\ Prepared'
  BY <1>1 DEF TcpInv, Calls, Prepared
<1>8. PeerCounts' /\ Acks'
  BY <1>1 DEF TcpInv, PeerCounts, Acks
<1> QED
  BY <1>1, <1>4, <1>5, <1>6, <1>7, <1>8 DEF TcpInv

(* Any step of the peer that only appends to toSocket, a segment in its turn, *)
(* or appends nothing and keeps its place.                                   *)
PeerMoves ==
  /\ UNCHANGED << call, read, newSeq, outcome, tcpState, seqNum, ackNum, rxBuf >>
  /\ peer' \in PeerRecords /\ PeerStep(peer, peer')
  /\ peer.state # "Listen" \/ toPeer # << >>
  /\ peer'.state = "Listen" <=> peer'.next = 0
  /\ peer'.state # "Listen" => peer'.expects >= 1
  /\ peer'.state = "Done" => peer'.next >= 2
  /\ peer'.expects <= Own + 1
  /\ \/ /\ UNCHANGED toSocket /\ disturbed' = disturbed
        /\ peer'.next = peer.next
     \/ \E seg \in Segments :
          /\ toSocket' = Append(toSocket, seg) /\ PeerSegment(seg, peer')
          /\ \/ disturbed' = TRUE
             \/ disturbed' = disturbed /\ seg.seq = peer.next /\ peer'.next = End(seg)

LEMMA PeerMovesKeep ==
  ASSUME TcpInv, PeerMoves, FromTask', toPeer' \in Seq(Segments)
  PROVE  TcpInv'
<1>1. /\ UNCHANGED << call, read, newSeq, outcome, tcpState, seqNum, ackNum, rxBuf >>
      /\ peer' \in PeerRecords /\ PeerStep(peer, peer') /\ Own' = Own
      /\ disturbed' \in BOOLEAN
  BY DEF PeerMoves, Own, TcpInv, TcpTyped
<1>2. FromPeers' /\ toSocket' \in Seq(Segments)
  <2>1. CASE UNCHANGED toSocket
    BY <1>1, <2>1, PeerWaits DEF TcpInv
  <2>2. CASE \E seg \in Segments :
               toSocket' = Append(toSocket, seg) /\ PeerSegment(seg, peer')
    BY <1>1, <2>2, PeerAppends DEF TcpInv
  <2> QED
    BY <2>1, <2>2 DEF PeerMoves
<1>3. TcpTyped'
  BY <1>1, <1>2 DEF TcpInv, TcpTyped, TcpTypeOK, PeerRecords
<1>4. Calls' /\ Prepared'
  <2>1. ~(call = "none" /\ outcome = "none" /\ tcpState # "Removed")
    BY DEF TcpInv, Calls, PeerMoves
  <2> QED
    BY <1>1, <2>1 DEF TcpInv, Calls, Prepared
<1>5. PeerCounts'
  BY <1>1 DEF TcpInv, PeerCounts, PeerMoves, PeerStep
<1>6. Acks'
  <2>1. /\ peer.next \in Nat /\ peer'.next \in Nat /\ ackNum \in Nat
        /\ SentBy(peer) \in Int /\ SentBy(peer') \in Int
    BY <1>1 DEF TcpInv, TcpTyped, TcpTypeOK, PeerRecords, SentBy
  <2> QED
    BY <1>1, <2>1 DEF TcpInv, Acks, PeerStep
<1>7. ASSUME ~disturbed' PROVE Chain'
  <2>1. CASE UNCHANGED toSocket /\ disturbed' = disturbed /\ peer'.next = peer.next
    BY <1>1, <1>7, <2>1 DEF TcpInv, Chain, Expected, End
  <2>2. CASE \E seg \in Segments : /\ toSocket' = Append(toSocket, seg)
                                   /\ disturbed' = disturbed
                                   /\ seg.seq = peer.next /\ peer'.next = End(seg)
    BY <1>1, <1>7, <2>2, ChainGrows DEF TcpInv
  <2> QED
    BY <1>7, <2>1, <2>2 DEF PeerMoves
<1> QED
  BY <1>2, <1>3, <1>4, <1>5, <1>6, <1>7 DEF TcpInv

(* A segment with a SYN answered, or refused.                                 *)
LEMMA ListenMoves ==
  ASSUME TcpInv, PeerReceives, NEW seg \in Segments, PeerTakes(seg), End(seg) <= Own + 1,
         peer.state = "Listen", "SYN" \in seg.flags, seg.seq = 0, toPeer # << >>
  PROVE  PeerMoves
<1>1. /\ UNCHANGED << call, read, newSeq, outcome, tcpState, seqNum, ackNum, rxBuf >>
      /\ disturbed' = disturbed
  BY DEF PeerReceives, taskVars, socketVars
<1>2. peer \in PeerRecords /\ peer.next = 0 /\ SentBy(peer) = 0 /\ Own \in Nat
      /\ peer.expects <= Own + 1
  BY OwnType DEF TcpInv, TcpTyped, PeerRecords, PeerCounts, SentBy
<1>3. \/ /\ peer' = [peer EXCEPT !.state = "SynRcvd", !.next = 1, !.expects = 1]
         /\ toSocket' = Append(toSocket, Segment({"SYN", "ACK"}, 0, 1, 0))
      \/ peer' = peer /\ toSocket' = Append(toSocket, Segment({"RST"}, 0, 0, 0))
  BY DEF PeerTakes, FromPeer
<1>4. CASE /\ peer' = [peer EXCEPT !.state = "SynRcvd", !.next = 1, !.expects = 1]
           /\ toSocket' = Append(toSocket, Segment({"SYN", "ACK"}, 0, 1, 0))
  <2> DEFINE answer == Segment({"SYN", "ACK"}, 0, 1, 0)
  <2>1. answer \in Segments /\ answer.seq = 0 /\ End(answer) = 1 /\ PeerSegment(answer, peer')
    BY <1>2, <1>4 DEF Segment, Segments, End, PeerSegment, PeerRecords
  <2>2. /\ peer' \in PeerRecords /\ peer'.state = "SynRcvd" /\ peer'.next = 1
        /\ peer'.expects = 1 /\ SentBy(peer') = 1
    BY <1>2, <1>4 DEF PeerRecords, PeerStates, SentBy
  <2> HIDE DEF answer
  <2>3. PeerStep(peer, peer')
    BY <1>2, <2>2 DEF PeerStep
  <2> QED
    BY <1>1, <1>2, <1>4, <2>1, <2>2, <2>3 DEF PeerMoves, answer
<1>5. CASE peer' = peer /\ toSocket' = Append(toSocket, Segment({"RST"}, 0, 0, 0))
  <2> DEFINE refusal == Segment({"RST"}, 0, 0, 0)
  <2>1. refusal \in Segments /\ refusal.seq = 0 /\ End(refusal) = 0
        /\ PeerSegment(refusal, peer')
    BY <1>2, <1>5 DEF Segment, Segments, End, PeerSegment, PeerRecords
  <2> HIDE DEF refusal
  <2>2. PeerStep(peer, peer')
    BY <1>2, <1>5 DEF PeerStep
  <2> QED
    BY <1>1, <1>2, <1>5, <2>1, <2>2 DEF PeerMoves, refusal
<1> QED
  BY <1>3, <1>4, <1>5

(* A segment of a conversation: what is in order is counted, what carries     *)
(* something is answered.                                                     *)
LEMMA ConversationMoves ==
  ASSUME TcpInv, PeerReceives, NEW seg \in Segments, PeerTakes(seg), End(seg) <= Own + 1,
         peer.state # "Listen", "SYN" \notin seg.flags
  PROVE  PeerMoves
<1>1. /\ UNCHANGED << call, read, newSeq, outcome, tcpState, seqNum, ackNum, rxBuf >>
      /\ disturbed' = disturbed
  BY DEF PeerReceives, taskVars, socketVars
<1>2. /\ peer \in PeerRecords /\ peer.next \in Nat \ {0} /\ peer.expects \in Nat
      /\ peer.expects >= 1 /\ peer.acked \in Nat /\ peer.state \in PeerStates
      /\ Own \in Nat /\ peer.expects <= Own + 1
      /\ peer.state = "Done" => peer.next >= 2
  BY OwnType DEF TcpInv, TcpTyped, PeerRecords, PeerCounts
<1>3. /\ seg.seq \in Nat /\ seg.len \in {0, 1} /\ seg.ack \in Nat
      /\ End(seg) = seg.seq + seg.len + (IF "FIN" \in seg.flags THEN 1 ELSE 0)
  BY DEF Segments, End
<1> DEFINE inOrder == seg.seq = peer.expects
           fin == "FIN" \in seg.flags /\ inOrder
           expects == IF inOrder THEN seg.seq + seg.len + (IF fin THEN 1 ELSE 0) ELSE peer.expects
           state == IF fin /\ peer.state # "Done" THEN "Closing"
                    ELSE IF peer.state = "SynRcvd" THEN "Open" ELSE peer.state
           acked == IF seg.ack > peer.acked THEN seg.ack ELSE peer.acked
           answer == Segment({"ACK"}, peer.next, expects, 0)
<1>4. /\ peer' = [peer EXCEPT !.state = state, !.expects = expects, !.acked = acked]
      /\ toSocket' = toSocket \/ toSocket' = Append(toSocket, answer)
  BY DEF PeerTakes, FromPeer
<1>5. expects \in Nat /\ expects >= 1 /\ expects <= Own + 1
  BY <1>2, <1>3
<1>6. /\ state \in PeerStates /\ state # "Listen" /\ (state = "Done" <=> peer.state = "Done")
      /\ acked \in Nat
  BY <1>2, <1>3 DEF PeerStates
<1> HIDE DEF expects, state, acked
<1>7. /\ peer' \in PeerRecords /\ peer'.state = state /\ peer'.next = peer.next
      /\ peer'.expects = expects
  BY <1>2, <1>4, <1>5, <1>6 DEF PeerRecords
<1>8. PeerStep(peer, peer') /\ SentBy(peer') = SentBy(peer)
  BY <1>2, <1>6, <1>7 DEF PeerStep, SentBy
<1>9. /\ answer \in Segments /\ answer.seq = peer.next /\ End(answer) = peer.next
      /\ PeerSegment(answer, peer')
  <2>1. /\ answer \in Segments /\ answer.flags = {"ACK"} /\ answer.seq = peer.next
        /\ answer.len = 0
    BY <1>2, <1>5 DEF Segment, Segments
  <2>2. End(answer) = peer.next
    BY <1>2, <2>1 DEF End
  <2> HIDE DEF answer
  <2> QED
    BY <1>2, <1>7, <2>1, <2>2 DEF PeerSegment
<1> HIDE DEF answer
<1> QED
  BY <1>1, <1>2, <1>4, <1>5, <1>6, <1>7, <1>8, <1>9 DEF PeerMoves

LEMMA PeerReceivesKeeps == TcpInv /\ PeerReceives => TcpInv'
<1> SUFFICES ASSUME TcpInv, PeerReceives PROVE TcpInv'
  OBVIOUS
<1> DEFINE seg == toPeer[1]
<1>1. toPeer # << >> /\ toPeer' = Tail(toPeer) /\ PeerTakes(Head(toPeer))
      /\ UNCHANGED << taskVars, socketVars, disturbed >>
  BY DEF PeerReceives
<1>2. toPeer \in Seq(Segments) /\ peer \in PeerRecords
  BY DEF TcpInv, TcpTyped, PeerRecords
<1>3. /\ toPeer' \in Seq(Segments) /\ Len(toPeer) \in Nat \ {0}
      /\ Len(toPeer') = Len(toPeer) - 1
      /\ \A i \in 1 .. Len(toPeer) - 1 : toPeer'[i] = toPeer[i + 1]
      /\ Head(toPeer) = seg /\ seg \in Segments
  BY <1>1, <1>2, TailFacts
<1>4. Own' = Own
  BY <1>1 DEF taskVars, socketVars, Own
<1>5. FromTask'
  BY <1>3, <1>4 DEF TcpInv, FromTask, End
<1>6. End(seg) <= Own + 1 /\ ("SYN" \in seg.flags => seg.seq = 0)
  BY <1>3 DEF TcpInv, FromTask
<1>7. PeerTakes(seg)
  BY <1>1, <1>3
<1> HIDE DEF seg
<1>8. CASE peer.state = "Listen" /\ "SYN" \in seg.flags
  BY <1>1, <1>3, <1>5, <1>6, <1>7, <1>8, ListenMoves, PeerMovesKeep
<1>9. CASE peer.state # "Listen" /\ "SYN" \notin seg.flags
  BY <1>3, <1>5, <1>6, <1>7, <1>9, ConversationMoves, PeerMovesKeep
<1>10. CASE ~(peer.state = "Listen" <=> "SYN" \in seg.flags)
  <2>1. UNCHANGED << peer, toSocket >>
    BY <1>7, <1>10 DEF PeerTakes
  <2>2. /\ PeerStep(peer, peer')
        /\ UNCHANGED << call, read, newSeq, outcome, tcpState, seqNum, ackNum, rxBuf >>
    BY <1>1, <1>2, <2>1 DEF PeerStep, PeerRecords, SentBy, taskVars, socketVars
  <2>3. PeerMoves
    BY <1>1, <1>2, <2>1, <2>2 DEF PeerMoves, TcpInv, PeerCounts
  <2> QED
    BY <1>3, <1>5, <2>3, PeerMovesKeep
<1> QED
  BY <1>8, <1>9, <1>10

(* A unit of data, the FIN, or a unit once more.                              *)
LEMMA PeerSpeaksKeeps == TcpInv /\ (PeerSends \/ PeerCloses \/ PeerResends) => TcpInv'
<1> SUFFICES ASSUME TcpInv, PeerSends \/ PeerCloses \/ PeerResends PROVE TcpInv'
  OBVIOUS
<1>1. /\ UNCHANGED << call, read, newSeq, outcome, tcpState, seqNum, ackNum, rxBuf, toPeer >>
      /\ Own' = Own
  BY DEF PeerSends, PeerCloses, PeerResends, taskVars, socketVars, Own
<1>2. /\ peer \in PeerRecords /\ peer.next \in Nat /\ peer.expects \in Nat
      /\ peer.acked \in Nat /\ Own \in Nat /\ toPeer \in Seq(Segments)
      /\ peer.expects <= Own + 1
      /\ peer.state # "Listen" => peer.next # 0 /\ peer.expects >= 1
  BY OwnType DEF TcpInv, TcpTyped, PeerRecords, PeerCounts
<1>3. FromTask' /\ toPeer' \in Seq(Segments)
  BY <1>1, <1>2, TaskWaits DEF TcpInv
<1>4. CASE PeerSends
  <2> DEFINE unit == Segment({"ACK"}, peer.next, peer.expects, 1)
  <2>1. /\ peer.state = "Open" /\ peer' = [peer EXCEPT !.next = @ + 1]
        /\ toSocket' = Append(toSocket, unit) /\ disturbed' = disturbed
    BY <1>4 DEF PeerSends, FromPeer
  <2>2. /\ peer' \in PeerRecords /\ peer'.state = "Open" /\ peer'.next = peer.next + 1
        /\ peer'.expects = peer.expects
    BY <1>2, <2>1 DEF PeerRecords
  <2>3. /\ unit \in Segments /\ unit.flags = {"ACK"} /\ unit.seq = peer.next /\ unit.len = 1
        /\ End(unit) = peer.next + 1
    BY <1>2 DEF Segment, Segments, End
  <2> HIDE DEF unit
  <2>4. PeerSegment(unit, peer')
    BY <1>2, <2>1, <2>2, <2>3 DEF PeerSegment, SentBy
  <2>5. PeerStep(peer, peer')
    BY <1>2, <2>1, <2>2 DEF PeerStep, SentBy
  <2>6. PeerMoves
    <3>1. \E seg \in Segments :
            /\ toSocket' = Append(toSocket, seg) /\ PeerSegment(seg, peer')
            /\ disturbed' = disturbed /\ seg.seq = peer.next /\ peer'.next = End(seg)
      <4> unit \in Segments
        BY <2>3
      <4> WITNESS unit \in Segments
      <4> QED
        BY <2>1, <2>2, <2>3, <2>4
    <3>2. /\ peer.state # "Listen" /\ peer'.state # "Listen" /\ peer'.next # 0
          /\ peer'.state # "Done"
      BY <1>2, <2>1, <2>2
    <3>3. peer'.expects >= 1 /\ peer'.expects <= Own + 1
      BY <1>2, <2>2, <3>2
    <3> QED
      BY <1>1, <2>2, <2>5, <3>1, <3>2, <3>3 DEF PeerMoves
  <2> QED
    BY <1>3, <2>6, PeerMovesKeep
<1>5. CASE PeerCloses
  <2> DEFINE last == Segment({"FIN", "ACK"}, peer.next, peer.expects, 0)
  <2>1. /\ peer.state \in {"Open", "Closing"}
        /\ peer' = [[peer EXCEPT !.next = peer.next + 1] EXCEPT !.state = "Done"]
        /\ toSocket' = Append(toSocket, last) /\ disturbed' = disturbed
    BY <1>5 DEF PeerCloses, FromPeer
  <2>2. /\ peer' \in PeerRecords /\ peer'.state = "Done" /\ peer'.next = peer.next + 1
        /\ peer'.expects = peer.expects
    <3> DEFINE counted == [peer EXCEPT !.next = peer.next + 1]
    <3>1. counted \in PeerRecords /\ counted.next = peer.next + 1
          /\ counted.expects = peer.expects
      BY <1>2 DEF PeerRecords
    <3>2. peer' = [counted EXCEPT !.state = "Done"]
      BY <2>1
    <3> HIDE DEF counted
    <3> QED
      BY <3>1, <3>2 DEF PeerRecords, PeerStates
  <2>3. /\ last \in Segments /\ last.flags = {"FIN", "ACK"} /\ last.seq = peer.next
        /\ last.len = 0 /\ End(last) = peer.next + 1
    BY <1>2 DEF Segment, Segments, End
  <2> HIDE DEF last
  <2>4. PeerSegment(last, peer')
    BY <1>2, <2>1, <2>2, <2>3 DEF PeerSegment
  <2>5. PeerStep(peer, peer')
    BY <1>2, <2>1, <2>2 DEF PeerStep, SentBy
  <2>6. PeerMoves
    <3>1. \E seg \in Segments :
            /\ toSocket' = Append(toSocket, seg) /\ PeerSegment(seg, peer')
            /\ disturbed' = disturbed /\ seg.seq = peer.next /\ peer'.next = End(seg)
      <4> last \in Segments
        BY <2>3
      <4> WITNESS last \in Segments
      <4> QED
        BY <2>1, <2>2, <2>3, <2>4
    <3>2. /\ peer.state # "Listen" /\ peer'.state # "Listen" /\ peer'.next # 0
          /\ peer'.next >= 2
      BY <1>2, <2>1, <2>2
    <3>3. peer'.expects >= 1 /\ peer'.expects <= Own + 1
      BY <1>2, <2>2, <3>2
    <3> QED
      BY <1>1, <2>2, <2>5, <3>1, <3>2, <3>3 DEF PeerMoves
  <2> QED
    BY <1>3, <2>6, PeerMovesKeep
<1>6. CASE PeerResends
  <2> DEFINE again == Segment({"ACK"}, peer.acked, peer.expects, 1)
  <2>1. /\ peer.state = "Open" /\ peer' = peer /\ disturbed' = TRUE
        /\ peer.acked >= 1 /\ peer.acked + 1 <= peer.next
        /\ toSocket' = Append(toSocket, again)
    BY <1>2, <1>6 DEF PeerResends, FromPeer
  <2>2. /\ again \in Segments /\ again.flags = {"ACK"} /\ again.seq = peer.acked
        /\ again.len = 1 /\ End(again) = peer.acked + 1
    BY <1>2 DEF Segment, Segments, End
  <2> HIDE DEF again
  <2>3. PeerSegment(again, peer')
    BY <1>2, <2>1, <2>2 DEF PeerSegment, SentBy
  <2>4. PeerStep(peer, peer')
    BY <1>2, <2>1 DEF PeerStep, SentBy
  <2>5. PeerMoves
    BY <1>1, <1>2, <2>1, <2>2, <2>3, <2>4 DEF PeerMoves, TcpInv, PeerCounts
  <2> QED
    BY <1>3, <2>5, PeerMovesKeep
<1> QED
  BY <1>4, <1>5, <1>6

----------------------------------------------------------------------------
LEMMA TcpStutterKeeps == TcpInv /\ UNCHANGED tcpVars => TcpInv'
<1> SUFFICES ASSUME TcpInv, UNCHANGED tcpVars PROVE TcpInv'
  OBVIOUS
<1>1. UNCHANGED << tcpState, seqNum, ackNum, rxBuf, call, read, newSeq, outcome, toPeer, toSocket,
                   peer, netFaults, resends, disturbed >>
  BY DEF tcpVars, taskVars, socketVars, netVars
<1>2. TcpTyped' /\ Calls' /\ Prepared' /\ PeerCounts' /\ Acks'
  BY <1>1 DEF TcpInv, TcpTyped, TcpTypeOK, Calls, Prepared, PeerCounts, Own, Acks, SentBy
<1>3. FromTask' /\ FromPeers'
  BY <1>1 DEF TcpInv, FromTask, FromPeers, Own, End, PeerSegment, SentBy
<1>4. ~disturbed' => Chain'
  BY <1>1 DEF TcpInv, Chain, Expected, End
<1> QED
  BY <1>2, <1>3, <1>4 DEF TcpInv

LEMMA TcpStepKeeps == TcpInv /\ [TcpNext]_tcpVars => TcpInv'
<1> SUFFICES ASSUME TcpInv, [TcpNext]_tcpVars PROVE TcpInv'
  OBVIOUS
<1>1. CASE Connect
  BY <1>1, ConnectKeeps
<1>2. CASE SendData \/ CloseEstablished
  BY <1>2, ReadsKeep
<1>3. CASE SendTransmits
  BY <1>3, SendTransmitsKeeps
<1>4. CASE CloseTransmits
  BY <1>4, CloseTransmitsKeeps
<1>5. CASE CloseMarks
  BY <1>5, CloseMarksKeeps
<1>6. CASE CloseOther \/ CloseReturns \/ CloseTimesOut
  BY <1>6, RemovesKeep
<1>7. CASE ConnectReturns \/ ConnectTimesOut \/ SendReturns \/ SendTimesOut
  BY <1>7, ReturnsKeep
<1>8. CASE SocketReceives
  BY <1>8, SocketReceivesKeeps
<1>9. CASE NetLoses
  BY <1>9, NetLosesKeeps
<1>10. CASE PeerReceives
  BY <1>10, PeerReceivesKeeps
<1>11. CASE PeerSends \/ PeerCloses \/ PeerResends
  BY <1>11, PeerSpeaksKeeps
<1>12. CASE UNCHANGED tcpVars
  BY <1>12, TcpStutterKeeps
<1> QED
  BY <1>1, <1>2, <1>3, <1>4, <1>5, <1>6, <1>7, <1>8, <1>9, <1>10, <1>11, <1>12
  DEF TcpNext, TcpReturn

(* The counts of the two ends and the segments between them stay within what  *)
(* each end has made, however many segments dispatch_tcp loses, sees twice or *)
(* sees again.                                                               *)
THEOREM TcpInvariant == TcpSpec => []TcpInv
<1>1. TcpInit => TcpInv
  BY TcpInitially
<1>2. TcpInv /\ [TcpNext]_tcpVars => TcpInv'
  BY TcpStepKeeps
<1> QED
  BY <1>1, <1>2, PTL DEF TcpSpec

(* A socket is in a state that tcp.rs has, with counts and buffers in range.  *)
THEOREM TcpTypes == TcpSpec => []TcpTypeOK
<1>1. TcpInv => TcpTypeOK
  BY DEF TcpInv, TcpTyped
<1> QED
  BY <1>1, TcpInvariant, PTL

(* The socket's ack_num never passes what the peer has sent, and what the     *)
(* peer expects never passes by more than the FIN what socket_send has made.  *)
THEOREM NothingUnsentIsAcknowledged == TcpSpec => []NeverAcksUnsent
<1>1. TcpInv => NeverAcksUnsent
  BY DEF TcpInv, Acks, PeerCounts, NeverAcksUnsent, Own
<1> QED
  BY <1>1, TcpInvariant, PTL

(* A connection that socket_connect reports has a peer that answered, and on  *)
(* a network that neither loses nor repeats a segment socket_recv sees the    *)
(* peer's units in order and without a gap.                                   *)
THEOREM StreamsStayIntact == TcpSpec => []StreamIntact
<1>1. TcpInv => StreamIntact
  BY DEF TcpInv, PeerCounts, Chain, StreamIntact
<1> QED
  BY <1>1, TcpInvariant, PTL

-----------------------------------------------------------------------------
(***************************************************************************)
(* The card, for any frames, buffers and ring sizes; its indices wrap around. *)
(*                                                                         *)
(* The buffers that the device may fill and those in the used ring are never *)
(* more than the ring has slots (Buffers), so the device overwrites nothing *)
(* that the driver has not seen, and what an index is ahead of another is  *)
(* the number of elements between them although both wrap (AheadFacts).    *)
(* The transmit ring names the buffers in turn, also where more frames wait *)
(* than there are buffers, so the slots of a buffer are TX_BUF_COUNT apart  *)
(* and all of them will send what was put into it last (Waits).             *)
(***************************************************************************)
Elements == [desc : Nat, frame : Frame \cup {NoFrame}]
Handlers == {"discovery", "transport", "socket", "none"}

NicTyped ==
  /\ NicTypeOK
  /\ rxAvail \in Seq(Nat) /\ rxUsed \in [0 .. RingSize - 1 -> Elements]
  /\ handled \in Seq(Handlers \X Frame) /\ arrived \in Seq(Frame \cup {NoFrame})
  /\ txBufs \in [0 .. TxBufCount - 1 -> Frame \cup {NoFrame}]
  /\ txRing \in [0 .. RingSize - 1 -> Nat]

Pending == Ahead(rxUsedIdx, rxUsedSeen)
UnseenFrames == [k \in 1 .. Len(Unseen) |-> Unseen[k].frame]

(* The buffers of the device and of the used ring fit into the ring, and the *)
(* driver never reads past what the device has written.                     *)
Buffers ==
  /\ mode = "down" => rxUsedIdx = rxUsedSeen /\ rxAvail = << >>
  /\ Len(rxAvail) + Pending <= Fewer(RxBufCount, RingSize)
  /\ rxUntil # NoIdx => Ahead(rxUntil, rxUsedSeen) <= Pending

(* The ring names the buffers in turn, from the device's index to the       *)
(* driver's, and each buffer has the last frame that was put into it.       *)
Waits ==
  /\ txNext = txAvailIdx
  /\ txAvailIdx = (txTaken + Len(accepted)) % IdxWidth
  /\ \A i \in 1 .. Len(accepted) :
       txRing[(txTaken + i - 1) % RingSize] = (txTaken + i - 1) % TxBufCount
  /\ \A i \in 1 .. Len(accepted) :
       Len(accepted) - i < TxBufCount =>
         txBufs[(txTaken + i - 1) % TxBufCount] = accepted[i]

NicInv == NicTyped /\ Buffers /\ ReceivedOnceInOrder /\ Waits

LEMMA Constants ==
  /\ RxBufCount \in Nat \ {0} /\ TxBufCount \in Nat \ {0} /\ RingSize \in Nat \ {0}
  /\ IdxWidth \in Nat \ {0} /\ IdxWidth > 1 /\ RingSize % TxBufCount = 0
  /\ IdxWidth % RingSize = 0 /\ IdxWidth % TxBufCount = 0 /\ NicBound \in Nat
  /\ Fewer(RxBufCount, RingSize) \in Nat
  /\ Fewer(RxBufCount, RingSize) < IdxWidth /\ Fewer(RxBufCount, RingSize) <= RingSize
BY NicAssumption DEF Fewer

(* One index moves on by one: it is one further ahead, or one less behind.   *)
LEMMA AheadFacts ==
  ASSUME NEW i \in 0 .. IdxWidth - 1, NEW j \in 0 .. IdxWidth - 1
  PROVE  /\ Ahead(i, j) \in 0 .. IdxWidth - 1
         /\ i = (j + Ahead(i, j)) % IdxWidth
         /\ Ahead(i, j) = 0 <=> i = j
         /\ NextIdx(i) \in 0 .. IdxWidth - 1
         /\ Ahead(i, j) + 1 < IdxWidth => Ahead(NextIdx(i), j) = Ahead(i, j) + 1
         /\ i # j => Ahead(i, NextIdx(j)) = Ahead(i, j) - 1
<1>1. RingMoves(i, j, IdxWidth)
  BY Constants, RingFacts
<1> QED
  BY <1>1 DEF RingMoves, Ahead, NextIdx

(* What the sequences of the properties are made of.                         *)
RingContents ==
  /\ Pending \in 0 .. IdxWidth - 1
  /\ Unseen \in Seq(Elements) /\ Len(Unseen) = Pending
  /\ \A k \in 1 .. Pending : Unseen[k] = rxUsed[(rxUsedSeen + k - 1) % RingSize]
  /\ UnseenFrames \in Seq(Frame \cup {NoFrame}) /\ Len(UnseenFrames) = Pending
  /\ \A k \in 1 .. Pending : UnseenFrames[k] = Unseen[k].frame
  /\ InRing \in Seq(Frame) /\ InRing = Sift(UnseenFrames, Frame)
  /\ Held \in Seq(Nat) /\ Len(Held) = Len(rxAvail) + Pending
  /\ \A k \in 1 .. Len(rxAvail) : Held[k] = rxAvail[k]
  /\ \A k \in 1 .. Pending : Held[Len(rxAvail) + k] = Unseen[k].desc
  /\ Handled \in Seq(Frame) /\ Len(Handled) = Len(handled)
  /\ \A k \in 1 .. Len(handled) : Handled[k] = handled[k][2]

LEMMA RingContentsAre == NicTyped => RingContents
<1> SUFFICES ASSUME NicTyped PROVE RingContents
  OBVIOUS
<1>1. Pending \in 0 .. IdxWidth - 1 /\ Pending \in Nat
  BY AheadFacts DEF NicTyped, NicTypeOK, Pending
<1>2. \A k \in 1 .. Pending : (rxUsedSeen + k - 1) % RingSize \in 0 .. RingSize - 1
  <2> TAKE k \in 1 .. Pending
  <2>1. rxUsedSeen + k - 1 \in Int
    BY <1>1 DEF NicTyped, NicTypeOK
  <2> QED
    BY <2>1, Constants, Quotient
<1>3. \A k \in 1 .. Pending : rxUsed[(rxUsedSeen + k - 1) % RingSize] \in Elements
  BY <1>2 DEF NicTyped
<1>4. Unseen = [k \in 1 .. Pending |-> rxUsed[(rxUsedSeen + k - 1) % RingSize]]
  BY DEF Unseen, Pending
<1>5. /\ Unseen \in Seq(Elements) /\ Len(Unseen) = Pending
      /\ \A k \in 1 .. Pending : Unseen[k] = rxUsed[(rxUsedSeen + k - 1) % RingSize]
      /\ \A k \in 1 .. Pending : Unseen[k] \in Elements
  BY <1>1, <1>3, <1>4
<1>6. /\ UnseenFrames \in Seq(Frame \cup {NoFrame}) /\ Len(UnseenFrames) = Pending
      /\ \A k \in 1 .. Pending : UnseenFrames[k] = Unseen[k].frame
  <2>1. UnseenFrames = [k \in 1 .. Pending |-> Unseen[k].frame]
    BY <1>5 DEF UnseenFrames
  <2>2. \A k \in 1 .. Pending : Unseen[k].frame \in Frame \cup {NoFrame}
    BY <1>5 DEF Elements
  <2> QED
    BY <1>1, <2>1, <2>2
<1>7. InRing \in Seq(Frame) /\ InRing = Sift(UnseenFrames, Frame)
  <2>1. InRing = Sift(UnseenFrames, Frame)
    BY DEF InRing, UnseenFrames
  <2>2. Sift(UnseenFrames, Frame) \in Seq((Frame \cup {NoFrame}) \cap Frame)
    BY <1>6, SiftType
  <2>3. (Frame \cup {NoFrame}) \cap Frame = Frame
    OBVIOUS
  <2> QED
    BY <2>1, <2>2, <2>3
<1>8. /\ Held \in Seq(Nat) /\ Len(Held) = Len(rxAvail) + Pending
      /\ \A k \in 1 .. Len(rxAvail) : Held[k] = rxAvail[k]
      /\ \A k \in 1 .. Pending : Held[Len(rxAvail) + k] = Unseen[k].desc
  <2> DEFINE descs == [k \in 1 .. Len(Unseen) |-> Unseen[k].desc]
  <2>1. descs = [k \in 1 .. Pending |-> Unseen[k].desc]
    BY <1>5
  <2>2. \A k \in 1 .. Pending : Unseen[k].desc \in Nat
    BY <1>5 DEF Elements
  <2>3. descs \in Seq(Nat) /\ Len(descs) = Pending
        /\ \A k \in 1 .. Pending : descs[k] = Unseen[k].desc
    BY <1>1, <2>1, <2>2
  <2>4. Held = rxAvail \o descs
    BY DEF Held
  <2> HIDE DEF descs
  <2>5. rxAvail \in Seq(Nat)
    BY DEF NicTyped
  <2>6. /\ rxAvail \o descs \in Seq(Nat) /\ Len(rxAvail \o descs) = Len(rxAvail) + Len(descs)
        /\ \A k \in 1 .. Len(rxAvail) + Len(descs) :
             (rxAvail \o descs)[k] = IF k <= Len(rxAvail) THEN rxAvail[k]
                                     ELSE descs[k - Len(rxAvail)]
    BY <2>3, <2>5, ConcatProperties
  <2>7. Len(rxAvail) \in Nat
    BY <2>5, LenProperties
  <2> QED
    BY <1>1, <2>3, <2>4, <2>6, <2>7
<1>9. /\ Handled \in Seq(Frame) /\ Len(Handled) = Len(handled)
      /\ \A k \in 1 .. Len(handled) : Handled[k] = handled[k][2]
  <2>1. Len(handled) \in Nat /\ \A k \in 1 .. Len(handled) : handled[k] \in Handlers \X Frame
    <3>1. handled \in Seq(Handlers \X Frame)
      BY DEF NicTyped
    <3> QED
      BY <3>1, LenProperties, ElementOfSeq
  <2>2. \A k \in 1 .. Len(handled) : handled[k][2] \in Frame
    BY <2>1
  <2> QED
    BY <2>1, <2>2 DEF Handled
<1> QED
  BY <1>1, <1>5, <1>6, <1>7, <1>8, <1>9 DEF RingContents

(* Different places of the ring within its size are different slots.         *)
LEMMA SlotsDiffer ==
  ASSUME NEW a \in Nat, NEW j \in Nat, NEW k \in Nat, NEW n \in Nat \ {0},
         j # k, j - k < n, k - j < n
  PROVE  (a + j) % n # (a + k) % n
<1>1. CASE j < k
  <2>1. a + j \in Int /\ a + k \in Int /\ a + j < a + k /\ (a + k) - (a + j) < n
    BY <1>1
  <2> QED
    BY <2>1, Residues
<1>2. CASE k < j
  <2>1. a + j \in Int /\ a + k \in Int /\ a + k < a + j /\ (a + j) - (a + k) < n
    BY <1>2
  <2> QED
    BY <2>1, Residues
<1> QED
  BY <1>1, <1>2

(***************************************************************************)
(* Transmission.                                                           *)
(***************************************************************************)
LEMMA TransmitKeeps ==
  ASSUME NicInv, NEW f \in Frame, Transmit(f), mode = "dma"
  PROVE  NicTyped' /\ Waits'
<1> DEFINE n == Len(accepted)  slot == txNext % TxBufCount
<1>1. /\ txBufs' = [txBufs EXCEPT ![slot] = f]
      /\ txRing' = [txRing EXCEPT ![txAvailIdx % RingSize] = slot]
      /\ txNext' = NextIdx(txNext) /\ txAvailIdx' = NextIdx(txAvailIdx)
      /\ accepted' = Append(accepted, f)
      /\ UNCHANGED << mode, rxVars, txTaken, txBuffers >>
  BY DEF Transmit, Publish
<1>2. /\ accepted \in Seq(Frame) /\ n \in Nat
      /\ txTaken \in 0 .. IdxWidth - 1 /\ txAvailIdx \in 0 .. IdxWidth - 1
      /\ txBufs \in [0 .. TxBufCount - 1 -> Frame \cup {NoFrame}]
      /\ txRing \in [0 .. RingSize - 1 -> Nat]
      /\ txNext = txAvailIdx /\ txAvailIdx = (txTaken + n) % IdxWidth
  BY LenProperties DEF NicInv, NicTyped, NicTypeOK, Waits
<1>3. txTaken + n \in Int /\ txTaken + n \in Nat
  BY <1>2
<1>4. slot = (txTaken + n) % TxBufCount /\ txAvailIdx % RingSize = (txTaken + n) % RingSize
      /\ slot \in 0 .. TxBufCount - 1 /\ txAvailIdx % RingSize \in 0 .. RingSize - 1
  <2> HIDE DEF n
  <2>1. \A b \in Nat \ {0} : IdxWidth % b = 0 =>
          /\ ((txTaken + n) % IdxWidth) % b = (txTaken + n) % b
          /\ txAvailIdx % b \in 0 .. b - 1
    <3> TAKE b \in Nat \ {0}
    <3> HAVE IdxWidth % b = 0
    <3>1. txAvailIdx \in Int
      BY <1>2
    <3>2. ((txTaken + n) % IdxWidth) % b = (txTaken + n) % b
      BY <1>3, Constants, RemainderOfRemainder
    <3>3. txAvailIdx % b \in 0 .. b - 1
      BY <3>1, Quotient
    <3> QED
      BY <3>2, <3>3
  <2> QED
    BY <1>2, <2>1, Constants
<1> HIDE DEF slot, n
<1>5. txAvailIdx' = (txTaken' + Len(accepted')) % IdxWidth /\ txNext' = txAvailIdx'
      /\ txAvailIdx' \in 0 .. IdxWidth - 1 /\ Len(accepted') = n + 1
      /\ accepted' \in Seq(Frame) /\ accepted'[n + 1] = f
      /\ \A i \in 1 .. n : accepted'[i] = accepted[i]
  <2>1. Len(accepted') = n + 1 /\ accepted' \in Seq(Frame) /\ accepted'[n + 1] = f
        /\ \A i \in 1 .. n : accepted'[i] = accepted[i]
    BY <1>1, <1>2, AppendProperties DEF n
  <2>2. (((txTaken + n) % IdxWidth) + 1) % IdxWidth = ((txTaken + n) + 1) % IdxWidth
    <3>1. 1 \in Int
      OBVIOUS
    <3> QED
      BY <1>3, <3>1, Constants, RemainderPlus
  <2>3. (txTaken + n) + 1 = txTaken + (n + 1)
    BY <1>2
  <2>4. NextIdx(txAvailIdx) \in 0 .. IdxWidth - 1
    BY <1>2, AheadFacts
  <2> QED
    BY <1>1, <1>2, <2>1, <2>2, <2>3, <2>4 DEF NextIdx
<1>6. txBufs' \in [0 .. TxBufCount - 1 -> Frame \cup {NoFrame}]
      /\ txRing' \in [0 .. RingSize - 1 -> Nat]
  <2>1. slot \in Nat
    BY <1>4
  <2> QED
    BY <1>1, <1>2, <1>4, <2>1
<1>7. NicTyped'
  BY <1>1, <1>5, <1>6 DEF NicInv, NicTyped, NicTypeOK, rxVars
<1>8. ASSUME NEW i \in 1 .. n + 1
      PROVE  /\ txRing'[(txTaken + i - 1) % RingSize] = (txTaken + i - 1) % TxBufCount
             /\ (n + 1) - i < TxBufCount =>
                  txBufs'[(txTaken + i - 1) % TxBufCount] = accepted'[i]
  <2>1. CASE i = n + 1
    <3>1. txTaken + i - 1 = txTaken + n
      BY <1>2, <2>1
    <3> QED
      BY <1>1, <1>2, <1>4, <1>5, <2>1, <3>1
  <2>2. CASE i # n + 1
    <3>1. i \in 1 .. n /\ i - 1 \in Nat /\ i - 1 # n /\ (i - 1) - n < TxBufCount
          /\ txTaken + (i - 1) = txTaken + i - 1 /\ txTaken \in Nat
          /\ txTaken + i - 1 \in Int
      <4>1. TxBufCount \in Nat \ {0}
        BY Constants
      <4>2. i \in 1 .. n /\ txTaken \in Nat
        BY <1>2, <2>2
      <4> QED
        BY <1>2, <1>8, <4>1, <4>2
    <3> DEFINE p == (txTaken + i - 1) % TxBufCount  q == (txTaken + i - 1) % RingSize
    <3>2. p \in 0 .. TxBufCount - 1 /\ q \in 0 .. RingSize - 1
      BY <3>1, Constants, Quotient
    <3>3. txRing[q] = p
      BY <3>1 DEF NicInv, Waits, n
    <3>4. q = txAvailIdx % RingSize => p = slot
      <4>1. q % TxBufCount = p
        BY <3>1, Constants, RemainderOfRemainder
      <4>2. ((txTaken + n) % RingSize) % TxBufCount = (txTaken + n) % TxBufCount
        BY <1>3, Constants, RemainderOfRemainder
      <4> QED
        BY <1>4, <4>1, <4>2
    <3>5. (n + 1) - i < TxBufCount => p # slot /\ txBufs[p] = accepted[i]
      <4> SUFFICES ASSUME (n + 1) - i < TxBufCount
                   PROVE  p # slot /\ txBufs[p] = accepted[i]
        OBVIOUS
      <4>1. n - i < TxBufCount /\ n - (i - 1) < TxBufCount /\ TxBufCount \in Nat \ {0}
        BY <1>2, <3>1, Constants
      <4>2. (txTaken + (i - 1)) % TxBufCount # (txTaken + n) % TxBufCount
        BY <1>2, <3>1, <4>1, SlotsDiffer
      <4>3. txBufs[p] = accepted[i]
        BY <3>1, <4>1 DEF NicInv, Waits, n
      <4> QED
        BY <1>4, <3>1, <4>2, <4>3
    <3> HIDE DEF p, q
    <3>6. txRing'[q] = p
      <4>1. slot \in Nat
        BY <1>4
      <4> QED
        BY <1>1, <1>2, <3>2, <3>3, <3>4, <4>1
    <3>7. (n + 1) - i < TxBufCount => txBufs'[p] = accepted'[i]
      BY <1>1, <1>2, <1>5, <3>1, <3>2, <3>5
    <3> QED
      BY <3>6, <3>7 DEF p, q
  <2> QED
    BY <2>1, <2>2
<1>9. Waits'
  <2>1. txTaken' = txTaken
    BY <1>1
  <2> QED
    BY <1>5, <1>8, <2>1 DEF Waits
<1> QED
  BY <1>7, <1>9

LEMMA DeviceSendsKeeps ==
  ASSUME NicInv, DeviceSends
  PROVE  NicTyped' /\ Waits'
<1> DEFINE n == Len(accepted)
<1>1. /\ txTaken' = NextIdx(txTaken) /\ accepted' = Tail(accepted) /\ txTaken # txAvailIdx
      /\ UNCHANGED << mode, rxVars, txNext, txBufs, txRing, txAvailIdx, txBuffers >>
  BY DEF DeviceSends
<1>2. /\ accepted \in Seq(Frame) /\ n \in Nat
      /\ txTaken \in 0 .. IdxWidth - 1 /\ txTaken \in Nat
      /\ txNext = txAvailIdx /\ txAvailIdx = (txTaken + n) % IdxWidth
  BY LenProperties DEF NicInv, NicTyped, NicTypeOK, Waits
<1>3. n # 0
  <2>1. txTaken % IdxWidth = txTaken
    BY <1>2, Constants, SmallRemainder
  <2> QED
    BY <1>1, <1>2, <2>1
<1>4. /\ accepted' \in Seq(Frame) /\ Len(accepted') = n - 1
      /\ \A i \in 1 .. n - 1 : accepted'[i] = accepted[i + 1]
  <2>1. accepted # << >>
    BY <1>3, EmptySeq
  <2> QED
    BY <1>1, <1>2, <2>1, HeadTailProperties
<1>5. txTaken' \in 0 .. IdxWidth - 1 /\ txTaken' = (txTaken + 1) % IdxWidth
  BY <1>1, <1>2, AheadFacts DEF NextIdx
<1>6. NicTyped'
  BY <1>1, <1>4, <1>5 DEF NicInv, NicTyped, NicTypeOK, rxVars
<1>7. \A m \in Nat, b \in Nat \ {0} :
        IdxWidth % b = 0 => (txTaken' + m) % b = (txTaken + (m + 1)) % b
  <2> SUFFICES ASSUME NEW m \in Nat, NEW b \in Nat \ {0}, IdxWidth % b = 0
               PROVE  (txTaken' + m) % b = (txTaken + (m + 1)) % b
    OBVIOUS
  <2>1. txTaken + 1 \in Int /\ txTaken' \in Int /\ m \in Int
    BY <1>2, <1>5
  <2>2. txTaken' % b = (txTaken + 1) % b
    BY <1>5, <2>1, Constants, RemainderOfRemainder
  <2>3. ((txTaken' % b) + m) % b = (txTaken' + m) % b
    BY <2>1, RemainderPlus
  <2>4. (((txTaken + 1) % b) + m) % b = ((txTaken + 1) + m) % b
    BY <2>1, RemainderPlus
  <2>5. (txTaken + 1) + m = txTaken + (m + 1)
    BY <1>2
  <2> QED
    BY <2>2, <2>3, <2>4, <2>5
<1>8. txAvailIdx' = (txTaken' + Len(accepted')) % IdxWidth
  <2>1. IdxWidth = IdxWidth * 1 + 0 /\ IdxWidth \in Int /\ 0 \in 0 .. IdxWidth - 1
    BY Constants
  <2>2. IdxWidth % IdxWidth = 0
    BY <2>1, Constants, Remainder
  <2>3. (txTaken' + (n - 1)) % IdxWidth = (txTaken + ((n - 1) + 1)) % IdxWidth
    <3>1. n - 1 \in Nat /\ IdxWidth \in Nat \ {0}
      BY <1>2, <1>3, Constants
    <3> HIDE DEF n
    <3> QED
      BY <1>7, <2>2, <3>1
  <2>4. (n - 1) + 1 = n
    BY <1>2
  <2> QED
    BY <1>1, <1>2, <1>4, <2>3, <2>4
<1>9. ASSUME NEW i \in 1 .. n - 1
      PROVE  /\ txRing'[(txTaken' + i - 1) % RingSize] = (txTaken' + i - 1) % TxBufCount
             /\ (n - 1) - i < TxBufCount =>
                  txBufs'[(txTaken' + i - 1) % TxBufCount] = accepted'[i]
  <2>1. /\ i - 1 \in Nat /\ (i - 1) + 1 = i /\ txTaken' + (i - 1) = txTaken' + i - 1
        /\ i + 1 \in 1 .. n /\ n - (i + 1) = (n - 1) - i /\ txTaken + (i + 1) - 1 = txTaken + i
    BY <1>2, <1>5, <1>9
  <2>2. /\ (txTaken' + i - 1) % RingSize = (txTaken + (i + 1) - 1) % RingSize
        /\ (txTaken' + i - 1) % TxBufCount = (txTaken + (i + 1) - 1) % TxBufCount
    BY <1>7, <2>1, Constants
  <2>3. /\ txRing[(txTaken + (i + 1) - 1) % RingSize] = (txTaken + (i + 1) - 1) % TxBufCount
        /\ n - (i + 1) < TxBufCount =>
             txBufs[(txTaken + (i + 1) - 1) % TxBufCount] = accepted[i + 1]
    BY <2>1 DEF NicInv, Waits
  <2> QED
    BY <1>1, <1>4, <2>1, <2>2, <2>3
<1>10. Waits'
  BY <1>1, <1>2, <1>4, <1>8, <1>9 DEF Waits
<1> QED
  BY <1>6, <1>10

(***************************************************************************)
(* Reception.                                                              *)
(***************************************************************************)
LEMMA OthersKeepReceived ==
  ASSUME NicInv, UNCHANGED << mode, rxVars >>
  PROVE  Buffers' /\ ReceivedOnceInOrder'
<1>1. UNCHANGED << Pending, Unseen >>
  BY DEF rxVars, Pending, Unseen
<1>2. UNCHANGED << Held, InRing, Handled >>
  BY <1>1 DEF rxVars, Held, InRing, Handled
<1> QED
  BY <1>1, <1>2 DEF rxVars, NicInv, Buffers, ReceivedOnceInOrder, RxBuffersApart

LEMMA DeviceReceivesKeeps ==
  ASSUME NicInv, DeviceReceives
  PROVE  NicTyped' /\ Buffers' /\ ReceivedOnceInOrder'
<1> DEFINE slot == rxUsedIdx % RingSize
           n == Pending
           a == Len(rxAvail)
<1>1. PICK f \in Frame \cup {NoFrame} :
        /\ rxUsed' = [rxUsed EXCEPT ![slot] = [desc |-> Head(rxAvail), frame |-> f]]
        /\ arrived' = Append(arrived, f)
  BY DEF DeviceReceives
<1>2. /\ mode = "dma" /\ rxAvail # << >> /\ rxAvail' = Tail(rxAvail)
      /\ rxUsedIdx' = NextIdx(rxUsedIdx)
      /\ UNCHANGED << mode, rxUsedSeen, rxUntil, frames, handled, txVars >>
  BY DEF DeviceReceives
<1>3. /\ rxAvail \in Seq(Nat) /\ rxUsed \in [0 .. RingSize - 1 -> Elements]
      /\ rxUsedIdx \in 0 .. IdxWidth - 1 /\ rxUsedSeen \in 0 .. IdxWidth - 1
      /\ rxUsedSeen \in Nat /\ rxUntil \in 0 .. IdxWidth
      /\ arrived \in Seq(Frame \cup {NoFrame}) /\ frames \in Seq(Frame)
      /\ a + n <= Fewer(RxBufCount, RingSize)
      /\ rxUntil # NoIdx => Ahead(rxUntil, rxUsedSeen) <= n
  BY DEF NicInv, NicTyped, NicTypeOK, Buffers
<1>4. RingContents
  BY RingContentsAre DEF NicInv
<1>5. n \in 0 .. IdxWidth - 1 /\ n \in Nat /\ a \in Nat \ {0}
      /\ n + 1 < IdxWidth /\ n < RingSize
  <2>1. n \in 0 .. IdxWidth - 1
    BY <1>4 DEF RingContents
  <2>2. a \in Nat \ {0}
    BY <1>2, <1>3, EmptySeq, LenProperties
  <2>3. Fewer(RxBufCount, RingSize) \in Nat /\ IdxWidth \in Nat /\ RingSize \in Nat
        /\ Fewer(RxBufCount, RingSize) < IdxWidth /\ Fewer(RxBufCount, RingSize) <= RingSize
    BY Constants
  <2> HIDE DEF n, a
  <2> QED
    BY <1>3, <2>1, <2>2, <2>3
<1>6. Pending' = n + 1
  BY <1>2, <1>3, <1>5, AheadFacts DEF Pending
<1>7. slot = (rxUsedSeen + n) % RingSize /\ slot \in 0 .. RingSize - 1
  <2>1. rxUsedIdx = (rxUsedSeen + n) % IdxWidth
    BY <1>3, AheadFacts DEF Pending
  <2>2. rxUsedSeen + n \in Int /\ rxUsedIdx \in Int
    BY <1>3, <1>5
  <2> HIDE DEF n
  <2>3. ((rxUsedSeen + n) % IdxWidth) % RingSize = (rxUsedSeen + n) % RingSize
    BY <2>2, Constants, RemainderOfRemainder
  <2>4. rxUsedIdx % RingSize \in 0 .. RingSize - 1
    BY <2>2, Constants, Quotient
  <2> QED
    BY <2>1, <2>3, <2>4
<1>8. /\ Head(rxAvail) = rxAvail[1] /\ rxAvail[1] \in Nat
      /\ Tail(rxAvail) \in Seq(Nat) /\ Len(Tail(rxAvail)) = a - 1
      /\ \A i \in 1 .. a - 1 : Tail(rxAvail)[i] = rxAvail[i + 1]
  BY <1>2, <1>3, <1>5, HeadTailProperties, ElementOfSeq
<1> DEFINE elem == [desc |-> Head(rxAvail), frame |-> f]
<1>9. elem \in Elements
  BY <1>8 DEF Elements
<1>10. NicTyped'
  <2>1. rxUsed' \in [0 .. RingSize - 1 -> Elements]
    BY <1>1, <1>3, <1>9
  <2>2. arrived' \in Seq(Frame \cup {NoFrame})
    BY <1>1, <1>3, AppendProperties
  <2>3. rxUsedIdx' \in 0 .. IdxWidth - 1
    BY <1>2, <1>3, AheadFacts
  <2> QED
    BY <1>2, <1>8, <2>1, <2>2, <2>3 DEF NicInv, NicTyped, NicTypeOK, txVars
<1>11. RingContents'
  <2>1. (NicTyped => RingContents)'
    BY RingContentsAre, PTL
  <2> QED
    BY <1>10, <2>1
<1>12. rxUsed'[slot] = elem /\ \A k \in 0 .. RingSize - 1 : k # slot => rxUsed'[k] = rxUsed[k]
  BY <1>1, <1>3, <1>7
<1> HIDE DEF slot, n, a, elem
<1>13. \A k \in 1 .. n : Unseen'[k] = Unseen[k]
  <2> TAKE k \in 1 .. n
  <2>1. /\ k - 1 \in Nat /\ k - 1 # n /\ (k - 1) - n < RingSize /\ n - (k - 1) < RingSize
        /\ rxUsedSeen + (k - 1) = rxUsedSeen + k - 1 /\ rxUsedSeen + k - 1 \in Int
        /\ k \in 1 .. n + 1
    <3>1. RingSize \in Nat
      BY Constants
    <3> QED
      BY <1>3, <1>5, <3>1
  <2>2. (rxUsedSeen + (k - 1)) % RingSize # (rxUsedSeen + n) % RingSize
    BY <1>3, <1>5, <2>1, Constants, SlotsDiffer
  <2>3. (rxUsedSeen + k - 1) % RingSize \in 0 .. RingSize - 1
    BY <2>1, Constants, Quotient
  <2>4. Unseen[k] = rxUsed[(rxUsedSeen + k - 1) % RingSize]
    BY <1>4 DEF RingContents, n
  <2>5. Unseen'[k] = rxUsed'[(rxUsedSeen + k - 1) % RingSize]
    BY <1>2, <1>6, <1>11, <2>1 DEF RingContents
  <2> QED
    BY <1>7, <1>12, <2>1, <2>2, <2>3, <2>4, <2>5
<1>14. Unseen'[n + 1] = elem
  <2>1. n + 1 \in 1 .. n + 1 /\ rxUsedSeen + (n + 1) - 1 = rxUsedSeen + n
    BY <1>3, <1>5
  <2>2. Unseen'[n + 1] = rxUsed'[(rxUsedSeen + (n + 1) - 1) % RingSize]
    BY <1>2, <1>6, <1>11, <2>1 DEF RingContents
  <2> QED
    BY <1>7, <1>12, <2>1, <2>2
<1>15. Buffers'
  <2>1. mode' = "dma" /\ Len(rxAvail') = a - 1
    BY <1>2, <1>8
  <2>2. rxUntil' # NoIdx => Ahead(rxUntil', rxUsedSeen') <= n + 1
    <3>1. rxUntil # NoIdx => rxUntil \in 0 .. IdxWidth - 1
      BY <1>3, Constants DEF NoIdx
    <3>2. rxUntil # NoIdx => Ahead(rxUntil, rxUsedSeen) \in Nat
      BY <1>3, <3>1, AheadFacts
    <3> QED
      BY <1>2, <1>3, <1>5, <3>2 DEF NoIdx
  <2>3. (a - 1) + (n + 1) <= Fewer(RxBufCount, RingSize)
    BY <1>3, <1>5
  <2> QED
    BY <1>6, <2>1, <2>2, <2>3 DEF Buffers
<1>16. RxBuffersApart'
  <2>1. /\ Len(Held) = a + n /\ Len(Held') = a + n
        /\ \A k \in 1 .. a : Held[k] = rxAvail[k]
        /\ \A k \in 1 .. n : Held[a + k] = Unseen[k].desc
        /\ \A k \in 1 .. a - 1 : Held'[k] = rxAvail'[k]
        /\ \A k \in 1 .. n + 1 : Held'[(a - 1) + k] = Unseen'[k].desc
    <3>1. Len(rxAvail') = a - 1 /\ (a - 1) + (n + 1) = a + n
      BY <1>2, <1>5, <1>8
    <3> QED
      BY <1>4, <1>6, <1>11, <3>1 DEF RingContents, n, a
  <2>2. \A k \in 1 .. (a + n) - 1 : Held'[k] = Held[k + 1]
    <3> TAKE k \in 1 .. (a + n) - 1
    <3>1. CASE k <= a - 1
      <4>1. k \in 1 .. a - 1 /\ k + 1 \in 1 .. a
        BY <1>5, <3>1
      <4> QED
        BY <1>2, <1>8, <2>1, <4>1
    <3>2. CASE ~ (k <= a - 1)
      <4> DEFINE j == k - (a - 1)
      <4>1. j \in 1 .. n /\ j \in 1 .. n + 1 /\ (a - 1) + j = k /\ a + j = k + 1
        BY <1>5, <3>2
      <4> HIDE DEF j
      <4> QED
        BY <1>13, <2>1, <4>1
    <3> QED
      BY <3>1, <3>2
  <2>3. Held'[a + n] = Held[1]
    <3>1. n + 1 \in 1 .. n + 1 /\ (a - 1) + (n + 1) = a + n /\ 1 \in 1 .. a
      BY <1>5
    <3>2. Held'[a + n] = Unseen'[n + 1].desc
      BY <2>1, <3>1
    <3>3. elem.desc = rxAvail[1]
      BY <1>8 DEF elem
    <3> QED
      BY <1>14, <2>1, <3>1, <3>2, <3>3
  <2>4. \A i, j \in 1 .. a + n : Held[i] = Held[j] => i = j
    BY <2>1 DEF NicInv, ReceivedOnceInOrder, RxBuffersApart
  <2> DEFINE old(i) == IF i = a + n THEN 1 ELSE i + 1
  <2>5. \A i \in 1 .. a + n : Held'[i] = Held[old(i)] /\ old(i) \in 1 .. a + n
    BY <1>5, <2>2, <2>3
  <2>6. \A i, j \in 1 .. a + n : old(i) = old(j) => i = j
    BY <1>5
  <2> HIDE DEF old
  <2>7. \A i, j \in 1 .. a + n : Held'[i] = Held'[j] => i = j
    BY <2>4, <2>5, <2>6
  <2> QED
    BY <2>1, <2>7 DEF RxBuffersApart
<1>17. Sift(arrived', Frame) = Handled' \o frames' \o InRing'
  <2>1. UnseenFrames' = Append(UnseenFrames, f)
    <3>1. /\ UnseenFrames \in Seq(Frame \cup {NoFrame}) /\ Len(UnseenFrames) = n
          /\ UnseenFrames' \in Seq(Frame \cup {NoFrame}) /\ Len(UnseenFrames') = n + 1
          /\ \A k \in 1 .. n : UnseenFrames[k] = Unseen[k].frame
          /\ \A k \in 1 .. n + 1 : UnseenFrames'[k] = Unseen'[k].frame
      BY <1>4, <1>6, <1>11 DEF RingContents, n
    <3>2. /\ Append(UnseenFrames, f) \in Seq(Frame \cup {NoFrame})
          /\ Len(Append(UnseenFrames, f)) = n + 1
          /\ Append(UnseenFrames, f)[n + 1] = f
          /\ \A k \in 1 .. n : Append(UnseenFrames, f)[k] = UnseenFrames[k]
      BY <3>1, AppendProperties
    <3>3. elem.frame = f
      BY DEF elem
    <3>4. \A k \in 1 .. n + 1 : UnseenFrames'[k] = Append(UnseenFrames, f)[k]
      <4> TAKE k \in 1 .. n + 1
      <4>1. k \in 1 .. n \/ k = n + 1
        BY <1>5
      <4> QED
        BY <1>13, <1>14, <3>1, <3>2, <3>3, <4>1
    <3> QED
      BY <3>1, <3>2, <3>4, SeqEqual
  <2>2. InRing' = IF f \in Frame THEN Append(InRing, f) ELSE InRing
    <3>1. InRing = Sift(UnseenFrames, Frame) /\ InRing' = Sift(UnseenFrames', Frame)
          /\ UnseenFrames \in Seq(Frame \cup {NoFrame})
      BY <1>4, <1>11 DEF RingContents
    <3> QED
      BY <2>1, <3>1, SiftAppend
  <2>3. Sift(arrived', Frame) = IF f \in Frame THEN Append(Sift(arrived, Frame), f)
                               ELSE Sift(arrived, Frame)
    BY <1>1, <1>3, SiftAppend
  <2>4. Handled' = Handled /\ frames' = frames
    BY <1>2 DEF Handled
  <2> DEFINE before == Handled \o frames
  <2>5. before \in Seq(Frame) /\ InRing \in Seq(Frame)
    BY <1>3, <1>4, ConcatProperties DEF RingContents
  <2>6. Sift(arrived, Frame) = before \o InRing
    BY DEF NicInv, ReceivedOnceInOrder
  <2> HIDE DEF before
  <2>7. f \in Frame => AppendsInside(before, InRing, f)
    BY <2>5, AppendToConcat, Zenon
  <2>8. Sift(arrived', Frame) = before \o InRing'
    BY <2>2, <2>3, <2>6, <2>7 DEF AppendsInside
  <2> QED
    BY <2>4, <2>8 DEF before
<1> QED
  BY <1>10, <1>15, <1>16, <1>17 DEF ReceivedOnceInOrder

(* A sequence with one element fewer has no new repetition.                  *)
LEMMA ApartWithout ==
  ASSUME NEW n \in Nat, NEW m \in 1 .. n, NEW s, NEW t,
         \A i, j \in 1 .. n : s[i] = s[j] => i = j,
         \A i \in 1 .. n - 1 : t[i] = s[IF i < m THEN i ELSE i + 1]
  PROVE  \A i, j \in 1 .. n - 1 : t[i] = t[j] => i = j
<1> DEFINE old(i) == IF i < m THEN i ELSE i + 1
<1>1. \A i \in 1 .. n - 1 : old(i) \in 1 .. n /\ t[i] = s[old(i)]
  OBVIOUS
<1>2. \A i, j \in 1 .. n - 1 : old(i) = old(j) => i = j
  OBVIOUS
<1> HIDE DEF old
<1> QED
  BY <1>1, <1>2

LEMMA ReceiveOneKeeps ==
  ASSUME NicInv, ReceiveOne
  PROVE  NicTyped' /\ Buffers' /\ ReceivedOnceInOrder'
<1> DEFINE n == Pending
           a == Len(rxAvail)
           elem == rxUsed[rxUsedSeen % RingSize]
           f == elem.frame
<1>1. /\ rxUntil # NoIdx /\ rxUsedSeen # rxUntil /\ rxUsedSeen' = NextIdx(rxUsedSeen)
      /\ UNCHANGED << mode, rxUsed, rxUsedIdx, rxUntil, handled, arrived, txVars >>
      /\ frames' = IF f = NoFrame THEN frames ELSE Append(frames, f)
      /\ rxAvail' = IF f = NoFrame THEN rxAvail ELSE Append(rxAvail, elem.desc)
  BY DEF ReceiveOne, Take
<1>2. /\ rxAvail \in Seq(Nat) /\ rxUsed \in [0 .. RingSize - 1 -> Elements]
      /\ rxUsedIdx \in 0 .. IdxWidth - 1 /\ rxUsedSeen \in 0 .. IdxWidth - 1
      /\ rxUsedSeen \in Nat /\ rxUntil \in 0 .. IdxWidth - 1
      /\ frames \in Seq(Frame) /\ a \in Nat
      /\ a + n <= Fewer(RxBufCount, RingSize)
      /\ Ahead(rxUntil, rxUsedSeen) <= n
  BY <1>1, Constants, LenProperties DEF NicInv, NicTyped, NicTypeOK, Buffers, NoIdx
<1>3. RingContents
  BY RingContentsAre DEF NicInv
<1>4. n \in Nat \ {0} /\ rxUsedIdx # rxUsedSeen
  <2>1. Ahead(rxUntil, rxUsedSeen) \in Nat \ {0} /\ n \in Nat
    BY <1>1, <1>2, <1>3, AheadFacts DEF RingContents
  <2>2. n # 0
    <3> HIDE DEF n
    <3> QED
      BY <1>2, <2>1
  <2> QED
    BY <1>2, <2>1, <2>2, AheadFacts DEF Pending
<1>5. Pending' = n - 1
  BY <1>1, <1>2, <1>4, AheadFacts DEF Pending
<1>6. elem = Unseen[1] /\ elem \in Elements /\ f \in Frame \cup {NoFrame} /\ elem.desc \in Nat
  <2>1. 1 \in 1 .. n /\ rxUsedSeen + 1 - 1 = rxUsedSeen
    BY <1>2, <1>4
  <2>2. Unseen[1] = elem
    BY <1>3, <2>1 DEF RingContents
  <2>3. Unseen[1] \in Elements
    BY <1>3, <2>1, ElementOfSeq DEF RingContents
  <2> QED
    BY <2>2, <2>3 DEF Elements
<1> HIDE DEF elem, n
<1>7. NoFrame \notin Frame
  BY NicAssumption
<1>8. NicTyped'
  <2>1. f # NoFrame => frames' \in Seq(Frame) /\ rxAvail' \in Seq(Nat)
    BY <1>1, <1>2, <1>6, AppendProperties
  <2>2. f = NoFrame => frames' \in Seq(Frame) /\ rxAvail' \in Seq(Nat)
    BY <1>1, <1>2
  <2>3. rxUsedSeen' \in 0 .. IdxWidth - 1
    BY <1>1, <1>2, AheadFacts
  <2> QED
    BY <1>1, <2>1, <2>2, <2>3 DEF NicInv, NicTyped, NicTypeOK, txVars
<1>9. RingContents'
  <2>1. (NicTyped => RingContents)'
    BY RingContentsAre, PTL
  <2> QED
    BY <1>8, <2>1
<1>10. \A k \in 1 .. n - 1 : Unseen'[k] = Unseen[k + 1]
  <2> TAKE k \in 1 .. n - 1
  <2>1. /\ k - 1 \in Nat /\ k + 1 \in 1 .. n /\ rxUsedSeen + 1 \in Int /\ k - 1 \in Int
        /\ (rxUsedSeen + 1) + (k - 1) = rxUsedSeen + (k + 1) - 1
        /\ rxUsedSeen' + (k - 1) = rxUsedSeen' + k - 1
        /\ rxUsedSeen' \in Int
    BY <1>1, <1>2, <1>4, AheadFacts
  <2>2. rxUsedSeen' % RingSize = (rxUsedSeen + 1) % RingSize
    BY <1>1, <2>1, Constants, RemainderOfRemainder DEF NextIdx
  <2>3. ((rxUsedSeen' % RingSize) + (k - 1)) % RingSize = (rxUsedSeen' + (k - 1)) % RingSize
    BY <2>1, Constants, RemainderPlus
  <2>4. (((rxUsedSeen + 1) % RingSize) + (k - 1)) % RingSize
          = ((rxUsedSeen + 1) + (k - 1)) % RingSize
    BY <2>1, Constants, RemainderPlus
  <2>5. (rxUsedSeen' + k - 1) % RingSize = (rxUsedSeen + (k + 1) - 1) % RingSize
    BY <2>1, <2>2, <2>3, <2>4
  <2>6. Unseen'[k] = rxUsed'[(rxUsedSeen' + k - 1) % RingSize]
    BY <1>5, <1>9 DEF RingContents
  <2>7. Unseen[k + 1] = rxUsed[(rxUsedSeen + (k + 1) - 1) % RingSize]
    BY <1>3, <2>1 DEF RingContents, n
  <2> QED
    BY <1>1, <2>5, <2>6, <2>7
<1>11. Len(rxAvail') = IF f = NoFrame THEN a ELSE a + 1
  BY <1>1, <1>2, <1>6, AppendProperties
<1>12. Buffers'
  <2>1. mode' # "down"
    <3>1. mode = "down" => rxUsedIdx = rxUsedSeen
      BY DEF NicInv, Buffers
    <3> QED
      BY <1>1, <1>4, <3>1
  <2>2. Len(rxAvail') + (n - 1) <= Fewer(RxBufCount, RingSize)
    <3>1. Fewer(RxBufCount, RingSize) \in Nat /\ a + n <= Fewer(RxBufCount, RingSize)
      BY <1>2, Constants
    <3> QED
      BY <1>2, <1>4, <1>11, <3>1
  <2>3. Ahead(rxUntil', rxUsedSeen') <= n - 1
    <3>1. Ahead(rxUntil, rxUsedSeen') = Ahead(rxUntil, rxUsedSeen) - 1
          /\ Ahead(rxUntil, rxUsedSeen) \in Nat
      BY <1>1, <1>2, AheadFacts
    <3> QED
      BY <1>1, <1>2, <1>4, <3>1
  <2> QED
    BY <1>5, <2>1, <2>2, <2>3 DEF Buffers
<1>13. RxBuffersApart'
  <2> DEFINE b == Len(rxAvail')
  <2>1. /\ Len(Held) = a + n /\ Len(Held') = b + (n - 1)
        /\ \A k \in 1 .. a : Held[k] = rxAvail[k]
        /\ \A k \in 1 .. n : Held[a + k] = Unseen[k].desc
        /\ \A k \in 1 .. b : Held'[k] = rxAvail'[k]
        /\ \A k \in 1 .. n - 1 : Held'[b + k] = Unseen'[k].desc
    BY <1>3, <1>5, <1>9 DEF RingContents, n
  <2>2. \A i, j \in 1 .. a + n : Held[i] = Held[j] => i = j
    BY <2>1 DEF NicInv, ReceivedOnceInOrder, RxBuffersApart
  <2> HIDE DEF a, b
  <2>3. CASE f = NoFrame
    <3>1. b = a /\ rxAvail' = rxAvail
      BY <1>1, <1>11, <2>3 DEF b
    <3>2. \A k \in 1 .. (a + n) - 1 : Held'[k] = Held[IF k < a + 1 THEN k ELSE k + 1]
      <4> TAKE k \in 1 .. (a + n) - 1
      <4>1. CASE k < a + 1
        <5>1. k \in 1 .. a
          BY <1>2, <4>1
        <5> QED
          BY <2>1, <3>1, <4>1, <5>1
      <4>2. CASE ~ (k < a + 1)
        <5> DEFINE j == k - a
        <5>1. j \in 1 .. n - 1 /\ j + 1 \in 1 .. n /\ a + j = k /\ a + (j + 1) = k + 1
          BY <1>2, <1>4, <4>2
        <5> HIDE DEF j
        <5> QED
          BY <1>10, <2>1, <3>1, <4>2, <5>1
      <4> QED
        BY <4>1, <4>2
    <3>3. a + 1 \in 1 .. a + n /\ a + n \in Nat
      BY <1>2, <1>4
    <3> DEFINE h == Held  h1 == Held'
    <3>4. /\ \A i, j \in 1 .. a + n : h[i] = h[j] => i = j
          /\ \A k \in 1 .. (a + n) - 1 : h1[k] = h[IF k < a + 1 THEN k ELSE k + 1]
      BY <2>2, <3>2
    <3> HIDE DEF h, h1
    <3>5. \A i, j \in 1 .. (a + n) - 1 : h1[i] = h1[j] => i = j
      BY <3>3, <3>4, ApartWithout
    <3>6. Len(Held') = (a + n) - 1
      BY <1>2, <1>4, <2>1, <3>1
    <3> QED
      BY <3>5, <3>6 DEF RxBuffersApart, h1
  <2>4. CASE f # NoFrame
    <3>1. /\ b = a + 1 /\ rxAvail'[a + 1] = elem.desc
          /\ \A k \in 1 .. a : rxAvail'[k] = rxAvail[k]
      BY <1>1, <1>2, <1>6, <1>11, <2>4, AppendProperties DEF a, b
    <3>2. \A k \in 1 .. a + n : Held'[k] = Held[k]
      <4> TAKE k \in 1 .. a + n
      <4>1. CASE k \in 1 .. a
        <5>1. k \in 1 .. b
          BY <1>2, <3>1, <4>1
        <5> QED
          BY <2>1, <3>1, <4>1, <5>1
      <4>2. CASE k = a + 1
        <5>1. k \in 1 .. b /\ 1 \in 1 .. n
          BY <1>2, <1>4, <3>1, <4>2
        <5> QED
          BY <1>6, <2>1, <3>1, <4>2, <5>1
      <4>3. CASE k \notin 1 .. a /\ k # a + 1
        <5> DEFINE j == k - (a + 1)
        <5>1. j \in 1 .. n - 1 /\ j + 1 \in 1 .. n /\ b + j = k /\ a + (j + 1) = k
          BY <1>2, <1>4, <3>1, <4>3
        <5> HIDE DEF j
        <5> QED
          BY <1>10, <2>1, <5>1
      <4> QED
        BY <4>1, <4>2, <4>3
    <3>3. Len(Held') = a + n
      BY <1>2, <1>4, <2>1, <3>1
    <3> QED
      BY <2>2, <3>2, <3>3 DEF RxBuffersApart
  <2> QED
    BY <2>3, <2>4
<1>14. Sift(arrived', Frame) = Handled' \o frames' \o InRing'
  <2> DEFINE rest == InRing'
  <2>1. /\ UnseenFrames \in Seq(Frame \cup {NoFrame}) /\ Len(UnseenFrames) = n
        /\ UnseenFrames' \in Seq(Frame \cup {NoFrame}) /\ Len(UnseenFrames') = n - 1
        /\ \A k \in 1 .. n : UnseenFrames[k] = Unseen[k].frame
        /\ \A k \in 1 .. n - 1 : UnseenFrames'[k] = Unseen'[k].frame
        /\ InRing = Sift(UnseenFrames, Frame) /\ rest = Sift(UnseenFrames', Frame)
        /\ Handled \in Seq(Frame) /\ rest \in Seq(Frame)
    BY <1>3, <1>5, <1>9 DEF RingContents, n
  <2>2. UnseenFrames # << >>
    BY <1>4, <2>1
  <2>3. /\ Head(UnseenFrames) = f /\ Tail(UnseenFrames) = UnseenFrames'
    <3>1. /\ Tail(UnseenFrames) \in Seq(Frame \cup {NoFrame})
          /\ Len(Tail(UnseenFrames)) = n - 1 /\ Head(UnseenFrames) = UnseenFrames[1]
          /\ \A k \in 1 .. n - 1 : Tail(UnseenFrames)[k] = UnseenFrames[k + 1]
      BY <1>4, <2>1, <2>2, HeadTailProperties
    <3>2. UnseenFrames[1] = f
      BY <1>4, <1>6, <2>1
    <3>3. \A k \in 1 .. n - 1 : Tail(UnseenFrames)[k] = UnseenFrames'[k]
      <4> TAKE k \in 1 .. n - 1
      <4>1. k + 1 \in 1 .. n
        BY <1>4
      <4> QED
        BY <1>10, <2>1, <3>1, <4>1
    <3> QED
      BY <2>1, <3>1, <3>2, <3>3, SeqEqual
  <2> DEFINE first == IF f \in Frame THEN << f >> ELSE << >>
  <2>4. InRing = first \o rest
    <3> DEFINE u == UnseenFrames  T == Frame \cup {NoFrame}
    <3>1. u \in Seq(T) /\ u # << >>
      BY <2>1, <2>2
    <3> HIDE DEF u, T
    <3>2. Sift(u, Frame)
            = (IF Head(u) \in Frame THEN << Head(u) >> ELSE << >>) \o Sift(Tail(u), Frame)
      BY <3>1, SiftHead
    <3> QED
      BY <2>1, <2>3, <3>2 DEF u
  <2>5. frames' = frames \o first
    <3>1. CASE f \in Frame
      <4>1. Append(frames, f) = frames \o << f >>
        BY <1>2, <3>1, AppendIsConcat
      <4> QED
        BY <1>1, <1>7, <3>1, <4>1
    <3>2. CASE f \notin Frame
      <4>1. frames \o << >> = frames
        BY <1>2, ConcatEmptySeq
      <4> QED
        BY <1>1, <1>6, <3>2, <4>1
    <3> QED
      BY <3>1, <3>2
  <2>6. Handled' = Handled /\ arrived' = arrived
    BY <1>1 DEF Handled
  <2>7. Sift(arrived, Frame) = (Handled \o frames) \o InRing
    BY DEF NicInv, ReceivedOnceInOrder
  <2>8. first \in Seq(Frame)
    OBVIOUS
  <2> HIDE DEF first, rest
  <2>9. JoinsInside(Handled, frames, first, rest)
    BY <1>2, <2>1, <2>8, Regrouped, Zenon
  <2> QED
    BY <2>4, <2>5, <2>6, <2>7, <2>9 DEF JoinsInside, rest
<1> QED
  BY <1>8, <1>12, <1>13, <1>14 DEF ReceivedOnceInOrder

LEMMA DispatchKeeps ==
  ASSUME NicInv, Dispatch
  PROVE  NicTyped' /\ Buffers' /\ ReceivedOnceInOrder'
<1> DEFINE f == Head(frames)
<1>1. /\ frames # << >> /\ frames' = Tail(frames)
      /\ handled' = Append(handled, << Handler(f), f >>)
      /\ UNCHANGED << mode, rxAvail, rxUsed, rxUsedIdx, rxUsedSeen, rxUntil, arrived, txVars >>
  BY DEF Dispatch
<1>2. frames \in Seq(Frame) /\ handled \in Seq(Handlers \X Frame)
  BY DEF NicInv, NicTyped, NicTypeOK
<1>3. f \in Frame /\ Tail(frames) \in Seq(Frame) /\ Len(frames) \in Nat \ {0}
  BY <1>1, <1>2, HeadTailProperties, EmptySeq, LenProperties
<1>4. frames = << f >> \o Tail(frames)
  <2> DEFINE t == << f >> \o Tail(frames)
  <2>1. << f >> \in Seq(Frame) /\ Len(<< f >>) = 1 /\ << f >>[1] = f
    BY <1>3
  <2>2. /\ Len(Tail(frames)) = Len(frames) - 1 /\ frames[1] = f
        /\ \A i \in 1 .. Len(frames) - 1 : Tail(frames)[i] = frames[i + 1]
    BY <1>1, <1>2, HeadTailProperties
  <2>3. /\ t \in Seq(Frame) /\ Len(t) = 1 + (Len(frames) - 1)
        /\ \A i \in 1 .. 1 + (Len(frames) - 1) :
             t[i] = IF i <= 1 THEN << f >>[i] ELSE Tail(frames)[i - 1]
    BY <1>3, <2>1, <2>2, ConcatProperties
  <2> HIDE DEF t, f
  <2>4. \A i \in 1 .. Len(frames) : frames[i] = t[i]
    <3> TAKE i \in 1 .. Len(frames)
    <3>1. CASE i = 1
      BY <1>3, <2>1, <2>2, <2>3, <3>1
    <3>2. CASE i # 1
      <4>1. i - 1 \in 1 .. Len(frames) - 1 /\ (i - 1) + 1 = i
            /\ i \in 1 .. 1 + (Len(frames) - 1) /\ ~ (i <= 1)
        BY <1>3, <3>2
      <4> QED
        BY <2>2, <2>3, <4>1
    <3> QED
      BY <3>1, <3>2
  <2>5. Len(frames) = Len(t)
    BY <1>3, <2>3
  <2> QED
    BY <1>2, <2>3, <2>4, <2>5, SeqEqual DEF t
<1>5. Handler(f) \in Handlers
  <2>1. KindOf[f] \in Kinds
    BY <1>3, NicAssumption
  <2> QED
    BY <2>1 DEF Handler, Handlers, Kinds
<1> HIDE DEF f
<1>6. /\ handled' \in Seq(Handlers \X Frame) /\ Len(handled) \in Nat
      /\ Len(handled') = Len(handled) + 1 /\ handled'[Len(handled) + 1] = << Handler(f), f >>
      /\ \A i \in 1 .. Len(handled) : handled'[i] = handled[i]
  <2>1. << Handler(f), f >> \in Handlers \X Frame
    BY <1>3, <1>5
  <2> QED
    BY <1>1, <1>2, <2>1, AppendProperties, LenProperties
<1>7. NicTyped'
  BY <1>1, <1>3, <1>6 DEF NicInv, NicTyped, NicTypeOK, txVars
<1>8. RingContents /\ RingContents'
  <2>1. (NicTyped => RingContents)'
    BY RingContentsAre, PTL
  <2> QED
    BY <1>7, <2>1, RingContentsAre DEF NicInv
<1>9. Pending' = Pending /\ Unseen' = Unseen
  BY <1>1 DEF Pending, Unseen
<1>10. Held' = Held /\ InRing' = InRing
  BY <1>1, <1>9 DEF Held, InRing
<1>11. Handled' = Append(Handled, f)
  <2>1. /\ Handled \in Seq(Frame) /\ Len(Handled) = Len(handled)
        /\ Handled' \in Seq(Frame) /\ Len(Handled') = Len(handled) + 1
        /\ \A k \in 1 .. Len(handled) : Handled[k] = handled[k][2]
        /\ \A k \in 1 .. Len(handled) + 1 : Handled'[k] = handled'[k][2]
    BY <1>6, <1>8 DEF RingContents
  <2>2. /\ Append(Handled, f) \in Seq(Frame) /\ Len(Append(Handled, f)) = Len(handled) + 1
        /\ Append(Handled, f)[Len(handled) + 1] = f
        /\ \A k \in 1 .. Len(handled) : Append(Handled, f)[k] = Handled[k]
    BY <1>3, <2>1, AppendProperties
  <2>3. \A k \in 1 .. Len(handled) + 1 : Handled'[k] = Append(Handled, f)[k]
    <3> TAKE k \in 1 .. Len(handled) + 1
    <3>1. k \in 1 .. Len(handled) \/ k = Len(handled) + 1
      BY <1>6
    <3>2. << Handler(f), f >>[2] = f
      OBVIOUS
    <3>3. CASE k \in 1 .. Len(handled)
      <4>1. Handled'[k] = handled'[k][2] /\ handled'[k] = handled[k]
        BY <1>6, <2>1, <3>3
      <4> QED
        BY <2>1, <2>2, <3>3, <4>1
    <3>4. CASE k = Len(handled) + 1
      <4>1. Handled'[k] = handled'[k][2] /\ handled'[k] = << Handler(f), f >>
        BY <1>6, <2>1, <3>4
      <4> QED
        BY <2>2, <3>2, <3>4, <4>1
    <3> QED
      BY <3>1, <3>3, <3>4
  <2> QED
    BY <2>1, <2>2, <2>3, SeqEqual
<1>12. Handled' \o frames' = Handled \o frames
  <2>1. Handled \in Seq(Frame) /\ << f >> \in Seq(Frame)
    BY <1>3, <1>8 DEF RingContents
  <2>2. Append(Handled, f) = Handled \o << f >>
    BY <1>3, <2>1, AppendIsConcat
  <2>3. (Handled \o << f >>) \o Tail(frames) = Handled \o (<< f >> \o Tail(frames))
    BY <1>3, <2>1, ConcatAssociative
  <2> QED
    BY <1>1, <1>4, <1>11, <2>2, <2>3
<1>13. Buffers'
  BY <1>1, <1>9 DEF NicInv, Buffers
<1>14. ReceivedOnceInOrder'
  BY <1>1, <1>10, <1>12 DEF NicInv, ReceivedOnceInOrder, RxBuffersApart
<1> QED
  BY <1>7, <1>13, <1>14

(* Where a receive begins and ends nothing moves.                            *)
LEMMA ReceiveBoundsKeep ==
  ASSUME NicInv, ReceiveBegin \/ ReceiveEnd
  PROVE  NicTyped' /\ Buffers' /\ ReceivedOnceInOrder'
<1>1. /\ rxUntil' = rxUsedIdx \/ rxUntil' = NoIdx
      /\ UNCHANGED << mode, rxAvail, rxUsed, rxUsedIdx, rxUsedSeen, frames, handled, arrived >>
      /\ UNCHANGED txVars
  BY DEF ReceiveBegin, ReceiveEnd
<1>2. UNCHANGED << Pending, Unseen >>
  BY <1>1 DEF Pending, Unseen
<1>3. UNCHANGED << Held, InRing, Handled >>
  BY <1>1, <1>2 DEF Held, InRing, Handled
<1>4. rxUsedIdx \in 0 .. IdxWidth - 1 /\ IdxWidth \in Nat
  BY Constants DEF NicInv, NicTyped, NicTypeOK
<1>5. NicTyped'
  BY <1>1, <1>4 DEF NicInv, NicTyped, NicTypeOK, NoIdx, txVars
<1>6. Pending \in Nat
  BY RingContentsAre DEF NicInv, RingContents
<1>7. Buffers'
  <2>1. rxUntil' # NoIdx => Ahead(rxUntil', rxUsedSeen') = Pending
    BY <1>1 DEF Pending
  <2> QED
    BY <1>1, <1>2, <1>6, <2>1 DEF NicInv, Buffers
<1> QED
  BY <1>1, <1>3, <1>5, <1>7 DEF NicInv, ReceivedOnceInOrder, RxBuffersApart

LEMMA InitRealKeeps ==
  ASSUME NicInv, InitReal
  PROVE  NicTyped' /\ Buffers' /\ ReceivedOnceInOrder'
<1> DEFINE n == Fewer(RxBufCount, RingSize)
           all == [i \in 1 .. n |-> i - 1]
<1>1. /\ mode = "down" /\ mode' \in {"simulated", "dma"}
      /\ rxAvail' = rxAvail \/ rxAvail' = all
      /\ UNCHANGED << rxUsed, rxUsedIdx, rxUsedSeen, rxUntil, frames, handled, arrived, txVars >>
  BY DEF InitReal
<1>2. rxUsedIdx = rxUsedSeen /\ rxAvail = << >>
  BY <1>1 DEF NicInv, Buffers
<1>3. n \in Nat
  BY Constants
<1>4. /\ all \in Seq(Nat) /\ Len(all) = n /\ \A i \in 1 .. n : all[i] = i - 1
  <2> HIDE DEF n
  <2>1. \A i \in 1 .. n : i - 1 \in Nat
    BY <1>3
  <2> QED
    BY <1>3, <2>1
<1> HIDE DEF n, all
<1>5. NicTyped'
  <2>1. rxAvail' \in Seq(Nat)
    BY <1>1, <1>2, <1>4, EmptySeq
  <2> QED
    BY <1>1, <2>1 DEF NicInv, NicTyped, NicTypeOK, txVars
<1>6. RingContents'
  <2>1. (NicTyped => RingContents)'
    BY RingContentsAre, PTL
  <2> QED
    BY <1>5, <2>1
<1>7. Pending' = 0 /\ Unseen' = Unseen /\ Pending' = Pending
  <2>1. rxUsedIdx' = rxUsedSeen' /\ rxUsedIdx' \in 0 .. IdxWidth - 1
        /\ rxUsedSeen' \in 0 .. IdxWidth - 1
    BY <1>1, <1>2 DEF NicInv, NicTyped, NicTypeOK
  <2>2. Ahead(rxUsedIdx', rxUsedSeen') = 0
    BY <2>1, AheadFacts
  <2> QED
    BY <1>1, <2>2 DEF Pending, Unseen
<1>8. Len(rxAvail') \in {0, n}
  BY <1>1, <1>2, <1>4, EmptySeq
<1>9. Buffers'
  <2>1. Len(rxAvail') + Pending' <= n /\ mode' # "down"
    BY <1>1, <1>3, <1>7, <1>8
  <2>2. rxUntil' # NoIdx => Ahead(rxUntil', rxUsedSeen') <= Pending'
    BY <1>1, <1>7 DEF NicInv, Buffers
  <2> QED
    BY <2>1, <2>2 DEF Buffers, n
<1>10. RxBuffersApart'
  <2>1. /\ Len(Held') = Len(rxAvail')
        /\ \A k \in 1 .. Len(rxAvail') : Held'[k] = rxAvail'[k]
    <3>1. Len(rxAvail') + 0 = Len(rxAvail')
      BY <1>3, <1>8
    <3> QED
      BY <1>6, <1>7, <3>1 DEF RingContents
  <2>2. \A i, j \in 1 .. Len(rxAvail') : rxAvail'[i] = rxAvail'[j] => i = j
    <3>1. CASE rxAvail' = all
      BY <1>3, <1>4, <3>1
    <3>2. CASE rxAvail' = << >>
      BY <3>2, EmptySeq
    <3> QED
      BY <1>1, <1>2, <3>1, <3>2
  <2> QED
    BY <2>1, <2>2 DEF RxBuffersApart
<1>11. InRing' = InRing /\ Handled' = Handled
  BY <1>1, <1>7 DEF InRing, Handled
<1> QED
  BY <1>1, <1>5, <1>9, <1>10, <1>11 DEF NicInv, ReceivedOnceInOrder

LEMMA OthersKeepWaits ==
  ASSUME NicInv, UNCHANGED txVars
  PROVE  Waits'
BY DEF NicInv, Waits, txVars

LEMMA NicInitially == NicInit => NicInv
<1> SUFFICES ASSUME NicInit PROVE NicInv
  OBVIOUS
<1>1. /\ IdxWidth \in Nat \ {0} /\ RingSize \in Nat \ {0} /\ TxBufCount \in Nat \ {0}
      /\ 0 \in 0 .. IdxWidth - 1 /\ NoIdx \in 0 .. IdxWidth
      /\ Fewer(RxBufCount, RingSize) \in Nat
  BY Constants DEF NoIdx
<1>2. \A S : << >> \in Seq(S)
  BY EmptySeq
<1>3. NicTyped
  <2>1. [desc |-> 0, frame |-> NoFrame] \in Elements
    BY DEF Elements
  <2>2. rxUsed \in [0 .. RingSize - 1 -> Elements] /\ txRing \in [0 .. RingSize - 1 -> Nat]
        /\ txBufs \in [0 .. TxBufCount - 1 -> Frame \cup {NoFrame}]
    BY <2>1 DEF NicInit
  <2> QED
    BY <1>1, <1>2, <2>2 DEF NicInit, NicTyped, NicTypeOK
<1>4. RingContents
  BY <1>3, RingContentsAre
<1>5. Pending = 0 /\ Len(rxAvail) = 0
  BY <1>1, AheadFacts, EmptySeq DEF NicInit, Pending
<1>6. Buffers
  BY <1>1, <1>5 DEF NicInit, Buffers
<1>7. RxBuffersApart
  <2>1. Len(Held) = 0
    BY <1>4, <1>5 DEF RingContents
  <2> QED
    BY <2>1 DEF RxBuffersApart
<1>8. Sift(arrived, Frame) = Handled \o frames \o InRing
  <2>1. Handled = << >> /\ UnseenFrames = << >>
    <3>1. Len(Handled) = 0 /\ Handled \in Seq(Frame)
      <4>1. Len(handled) = 0
        BY EmptySeq DEF NicInit
      <4> QED
        BY <1>4, <4>1 DEF RingContents
    <3>2. Len(UnseenFrames) = 0 /\ UnseenFrames \in Seq(Frame \cup {NoFrame})
      BY <1>4, <1>5 DEF RingContents
    <3> QED
      BY <3>1, <3>2, EmptySeq
  <2>2. InRing = << >>
    BY <1>4, <2>1, SiftEmpty DEF RingContents
  <2>3. Sift(arrived, Frame) = << >>
    BY SiftEmpty DEF NicInit
  <2>4. << >> \o << >> \o << >> = << >>
    OBVIOUS
  <2> QED
    BY <2>1, <2>2, <2>3, <2>4 DEF NicInit
<1>9. Waits
  <2>1. Len(accepted) = 0 /\ txTaken = 0 /\ txNext = 0 /\ txAvailIdx = 0
    BY EmptySeq DEF NicInit
  <2>2. 0 % IdxWidth = 0
    BY <1>1, SmallRemainder
  <2>3. 0 + 0 = 0
    OBVIOUS
  <2> QED
    BY <2>1, <2>2, <2>3 DEF Waits
<1> QED
  BY <1>3, <1>6, <1>7, <1>8, <1>9 DEF NicInv, ReceivedOnceInOrder

LEMMA NicStep == NicInv /\ [NicNext]_nicVars => NicInv'
<1> SUFFICES ASSUME NicInv, [NicNext]_nicVars PROVE NicInv'
  OBVIOUS
<1>1. CASE InitReal
  <2>1. UNCHANGED txVars
    BY <1>1 DEF InitReal
  <2> QED
    BY <1>1, <2>1, InitRealKeeps, OthersKeepWaits DEF NicInv
<1>2. CASE DeviceReceives
  <2>1. UNCHANGED txVars
    BY <1>2 DEF DeviceReceives
  <2> QED
    BY <1>2, <2>1, DeviceReceivesKeeps, OthersKeepWaits DEF NicInv
<1>3. CASE ReceiveBegin \/ ReceiveEnd
  <2>1. UNCHANGED txVars
    BY <1>3 DEF ReceiveBegin, ReceiveEnd
  <2> QED
    BY <1>3, <2>1, ReceiveBoundsKeep, OthersKeepWaits DEF NicInv
<1>4. CASE ReceiveOne
  <2>1. UNCHANGED txVars
    BY <1>4 DEF ReceiveOne
  <2> QED
    BY <1>4, <2>1, ReceiveOneKeeps, OthersKeepWaits DEF NicInv
<1>5. CASE Dispatch
  <2>1. UNCHANGED txVars
    BY <1>5 DEF Dispatch
  <2> QED
    BY <1>5, <2>1, DispatchKeeps, OthersKeepWaits DEF NicInv
<1>6. ASSUME NEW f \in Frame, Transmit(f) PROVE NicInv'
  <2>1. UNCHANGED << mode, rxVars >>
    BY <1>6 DEF Transmit
  <2>2. CASE mode = "dma"
    BY <1>6, <2>1, <2>2, TransmitKeeps, OthersKeepReceived DEF NicInv
  <2>3. CASE mode # "dma"
    <3>1. /\ txBuffers' = Append(txBuffers, f)
          /\ UNCHANGED << txNext, txBufs, txRing, txAvailIdx, txTaken, accepted >>
      BY <1>6, <2>3 DEF Transmit
    <3>2. txBuffers' \in Seq(Frame)
      BY <3>1, AppendProperties DEF NicInv, NicTyped, NicTypeOK
    <3>3. NicTyped'
      BY <2>1, <3>1, <3>2 DEF NicInv, NicTyped, NicTypeOK, rxVars
    <3>4. Waits'
      BY <3>1 DEF NicInv, Waits
    <3> QED
      BY <2>1, <3>3, <3>4, OthersKeepReceived DEF NicInv
  <2> QED
    BY <2>2, <2>3
<1>7. CASE DeviceSends
  <2>1. UNCHANGED << mode, rxVars >>
    BY <1>7 DEF DeviceSends
  <2> QED
    BY <1>7, <2>1, DeviceSendsKeeps, OthersKeepReceived DEF NicInv
<1>8. CASE UNCHANGED nicVars
  <2>1. UNCHANGED << mode, rxVars >> /\ UNCHANGED txVars
    BY <1>8 DEF nicVars
  <2>2. NicTyped'
    BY <2>1 DEF NicInv, NicTyped, NicTypeOK, rxVars, txVars
  <2> QED
    BY <2>1, <2>2, OthersKeepReceived, OthersKeepWaits DEF NicInv
<1> QED
  BY <1>1, <1>2, <1>3, <1>4, <1>5, <1>6, <1>7, <1>8 DEF NicNext

THEOREM NicInvariant == NicSpec => []NicInv
BY NicInitially, NicStep, PTL DEF NicSpec

(* The driver's and the device's places in both rings stay positions, and     *)
(* what is accepted and received is frames (virtio_real.rs).                  *)
THEOREM NicTypes == NicSpec => []NicTypeOK
<1>1. NicInv => NicTypeOK
  BY DEF NicInv, NicTyped
<1> QED
  BY <1>1, NicInvariant, PTL

(* Every frame that the card received is given to its handler once and in     *)
(* order, or is on its way there; no receive buffer is in two places          *)
(* (virtio_real.rs, receive_real and poll_and_dispatch).                      *)
THEOREM FramesArriveOnce == NicSpec => []ReceivedOnceInOrder
<1>1. NicInv => ReceivedOnceInOrder
  BY DEF NicInv
<1> QED
  BY <1>1, NicInvariant, PTL

(* Of the frames put into the same transmit buffer the card sends the one      *)
(* accepted last, in place of each of them (virtio_real.rs, transmit_real): it  *)
(* sends a frame itself only if fewer were accepted after it than there are     *)
(* buffers.                                                                     *)
THEOREM FramesSentAsWritten == NicSpec => []SentAsWritten
<1>1. ASSUME NicInv, NEW i \in 1 .. Len(accepted)
      PROVE  WillSend(i) = accepted[Newest(i)]
  <2> DEFINE n == Len(accepted)  t == TxBufCount  e == (n - i) \div t  r == (n - i) % t
  <2>1. t \in Nat \ {0} /\ n \in Nat /\ txTaken \in Nat /\ n - i \in Nat
    <3>1. n \in Nat /\ txTaken \in 0 .. IdxWidth - 1 /\ IdxWidth \in Nat
      BY <1>1, LenProperties, Constants DEF NicInv, NicTyped, NicTypeOK
    <3> QED
      BY <1>1, <3>1, Constants
  <2>2. e \in Int /\ n - i = t * e + r /\ r \in 0 .. t - 1
    <3> HIDE DEF n, t
    <3> QED
      BY <2>1
  <2>3. e >= 0
    <3> HIDE DEF n, t, e, r
    <3> SUFFICES ASSUME e <= -1 PROVE FALSE
      BY <2>2
    <3> DEFINE d == -1 - e
    <3>1. d \in Nat /\ t * d \in Nat /\ t * e = -t - t * d
      <4>1. d \in Nat /\ e = -1 - d
        BY <2>2
      <4>2. t * d \in Nat
        BY <2>1, <4>1
      <4> HIDE DEF d
      <4> QED
        BY <2>1, <4>1, <4>2
    <3> QED
      BY <2>1, <2>2, <3>1
  <2> DEFINE j == i + t * e
  <2>4. j \in 1 .. n /\ n - j < t
    <3>1. t * e \in Nat
      <4> HIDE DEF t, e
      <4> QED
        BY <2>1, <2>2, <2>3
    <3> DEFINE m == t * e
    <3>2. m \in Nat /\ n - i = m + r /\ j = i + m
      BY <2>2, <3>1
    <3> HIDE DEF m, j, r
    <3> QED
      BY <1>1, <2>1, <2>2, <3>2
  <2>5. (txTaken + j - 1) % t = (txTaken + i - 1) % t
    <3> HIDE DEF t, e
    <3>1. txTaken + i - 1 \in Int /\ txTaken + j - 1 = t * e + (txTaken + i - 1)
      BY <1>1, <2>1, <2>2
    <3> DEFINE a == txTaken + i - 1
    <3> HIDE DEF a, j
    <3>2. PICK q \in Int : a = t * q + (a % t) /\ a % t \in 0 .. t - 1
      BY <2>1, <3>1, Quotient DEF a
    <3>3. e + q \in Int /\ t * e + a = t * (e + q) + (a % t)
      BY <2>1, <2>2, <3>2
    <3>4. t * e + a \in Int
      BY <2>1, <2>2, <3>1 DEF a
    <3>5. (t * e + a) % t = a % t
      BY <2>1, <3>2, <3>3, <3>4, Remainder
    <3> QED
      BY <3>1, <3>5 DEF a
  <2>6. txRing[(txTaken + i - 1) % RingSize] = (txTaken + i - 1) % TxBufCount
    BY <1>1 DEF NicInv, Waits
  <2>7. txBufs[(txTaken + j - 1) % TxBufCount] = accepted[j]
    <3> HIDE DEF j
    <3> QED
      BY <1>1, <2>4 DEF NicInv, Waits
  <2>8. Newest(i) = j
    BY DEF Newest
  <2> QED
    BY <2>5, <2>6, <2>7, <2>8 DEF WillSend
<1>2. NicInv => SentAsWritten
  BY <1>1 DEF SentAsWritten
<1> QED
  BY <1>2, NicInvariant, PTL

(* The card's two rings: what is received is handled once and in order, and    *)
(* what is sent for an accepted frame is the last one of its buffer.           *)
THEOREM FramesAreKept == NicSpec => []FramesKept
BY FramesArriveOnce, FramesSentAsWritten, PTL DEF FramesKept

(* The modules that talk to a device, side by side: the state of each is      *)
(* well-formed, so that none indexes out of bounds.                           *)
THEOREM DevicesAreTyped == DevicesSpec => []DevicesTypeOK
BY EditorTypeInvariant, StorageTypes, NicTypes, TcpTypes, PTL
   DEF DevicesSpec, DevicesTypeOK
=============================================================================
