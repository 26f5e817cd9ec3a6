------------------------------ MODULE LineEditor ------------------------------
(***************************************************************************)
(* The interactive shell on the serial line (drivers/serial_shell.rs): a   *)
(* line editor that is fed one byte at a time, keeps the line, the cursor, *)
(* a history and a reverse search, and repaints the terminal with relative *)
(* cursor movements.                                                       *)
(*                                                                         *)
(* Positions are the code's, counted from 0.  terminal is what the user    *)
(* sees to the right of the last prompt.  Bytes are model strings; a byte  *)
(* of an escape sequence that the editor does not swallow is an ordinary   *)
(* character, and characters are typed at any time.  Running the command   *)
(* and saving the history (to a directory the file system does not have)   *)
(* leave the editor's state alone.                                         *)
(***************************************************************************)
EXTENDS Naturals, Sequences, FiniteSets

CONSTANTS
  Char,        \* printable characters
  Space,       \* ' ', one of them
  Commands,    \* COMMANDS, the words that Tab completes
  MaxLine,     \* 512, the longest line that typing makes
  MaxHistory,  \* MAX_HISTORY
  MaxQuery     \* bound: characters of a search

ASSUME EditorAssumption ==
  /\ Space \in Char
  /\ Commands \subseteq Seq(Char)
  /\ MaxLine \in Nat /\ MaxHistory \in Nat \ {0} /\ MaxQuery \in Nat

VARIABLES
  line,      \* line_buf
  cursor,    \* cursor_pos
  history,   \* history, oldest first
  recalled,  \* hist_idx: 0 is None, i + 1 is Some(i)
  ansi,      \* ansi_state
  tabbed,    \* last_was_tab
  search,    \* search_mode
  query,     \* search_buf
  terminal,  \* the text after the prompt and the terminal's cursor in it
  stale      \* auxiliary: a repaint since the last prompt is known to be wrong

editorVars == << line, cursor, history, recalled, ansi, tabbed, search, query,
                 terminal, stale >>

(***************************************************************************)
(* The terminal.  A movement by 0 is a movement by 1 (ECMA-48).            *)
(***************************************************************************)
Prompt == [text |-> << >>, at |-> 0]

From(s, i) == SubSeq(s, i + 1, Len(s))
UpTo(s, i) == SubSeq(s, 1, i)

\* The cells before column i, blank where nothing was written.
Cells(s, i) == [k \in 1 .. i |-> IF k <= Len(s) THEN s[k] ELSE Space]

Type(t, s) ==
  [text |-> Cells(t.text, t.at) \o s \o From(t.text, t.at + Len(s)),
   at |-> t.at + Len(s)]

Left(t, n) ==
  LET by == IF n = 0 THEN 1 ELSE n
  IN  [t EXCEPT !.at = IF by < @ THEN @ - by ELSE 0]

Right(t, n) == [t EXCEPT !.at = @ + n]

EraseEnd(t) == [t EXCEPT !.text = UpTo(@, IF t.at < Len(@) THEN t.at ELSE Len(@))]

\* Most movements are written only when they are not by 0.
Back(t, n) == IF n > 0 THEN Left(t, n) ELSE t

EditorInit ==
  /\ line = << >> /\ cursor = 0
  /\ history = << >> /\ recalled = 0
  /\ ansi = "Normal" /\ tabbed = FALSE
  /\ search = FALSE /\ query = << >>
  /\ terminal = Prompt /\ stale = FALSE

Replace(l, c, t) == line' = l /\ cursor' = c /\ terminal' = t

Idle == UNCHANGED << line, cursor, terminal >>

(***************************************************************************)
(* Bytes in the state Normal.                                              *)
(***************************************************************************)
\* A key that puts the character at the end of the line.
InsertAtEnd(ch) ==
  /\ Len(line) < MaxLine
  /\ Replace(Append(line, ch), cursor + 1, Type(terminal, <<ch>>))

Insert(ch) ==
  /\ Len(line) < MaxLine
  /\ LET rest == <<ch>> \o From(line, cursor)
         typed == Type(terminal, rest)
     IN  Replace(UpTo(line, cursor) \o rest, cursor + 1,
                 Back(typed, Len(rest) - 1))

\* A step that deletes the characters between two positions and repaints.
Erase(from, to, moved) ==
  LET rest == From(line, to)
  IN  Replace(UpTo(line, from) \o rest, from,
              Back(Type(EraseEnd(moved), rest), Len(rest)))

\* A key that removes the character and leaves the cursor behind it.
BackspaceInPlace ==
  /\ cursor > 0
  /\ Replace(UpTo(line, cursor - 1) \o From(line, cursor), cursor, Left(terminal, 1))

Backspace == cursor > 0 /\ Erase(cursor - 1, cursor, Left(terminal, 1))

WordStart ==
  LET blanks == {i \in 1 .. cursor : line[i] = Space}
  IN  IF blanks = {} THEN 0 ELSE CHOOSE i \in blanks : \A j \in blanks : j <= i

\* After a blank the previous word is empty: nothing is deleted.
CtrlW ==
  /\ cursor > 0
  /\ Erase(WordStart, cursor, Left(terminal, cursor - WordStart))

ToStart == Replace(line, 0, Back(terminal, cursor))
ToEnd == Replace(line, Len(line), Right(terminal, Len(line) - cursor))
CtrlK == Replace(UpTo(line, cursor), cursor, EraseEnd(terminal))
CtrlU == Replace(<< >>, 0, EraseEnd(Back(terminal, cursor)))
CtrlD == Replace(line, cursor, Prompt)
Restart == Replace(<< >>, 0, Prompt)

Completions == {c \in Commands : Len(line) <= Len(c) /\ UpTo(c, Len(line)) = line}

CommonPrefix(words) ==
  LET w == CHOOSE x \in words : TRUE
      agree == {n \in 0 .. Len(w) : \A x \in words : n <= Len(x) /\ UpTo(x, n) = UpTo(w, n)}
  IN  UpTo(w, CHOOSE n \in agree : \A k \in agree : k <= n)

Complete(text) ==
  Replace(line \o text, Len(line) + Len(text), Type(terminal, text))

Tab ==
  LET found == Completions
      more == From(CommonPrefix(found), Len(line))
  IN  \/ found = {} /\ Idle /\ tabbed' = FALSE
      \/ Cardinality(found) = 1 /\ Complete(Append(more, Space)) /\ tabbed' = FALSE
      \/ /\ Cardinality(found) > 1 /\ tabbed
         /\ Replace(line, cursor, Type(Prompt, line)) /\ tabbed' = FALSE
      \/ /\ Cardinality(found) > 1 /\ ~tabbed
         /\ IF more = << >> THEN Idle ELSE Complete(more)
         /\ tabbed' = TRUE

Trim(s) ==
  LET ink == {i \in 1 .. Len(s) : s[i] # Space}
  IN  IF ink = {} THEN << >>
      ELSE SubSeq(s, CHOOSE i \in ink : \A j \in ink : i <= j,
                     CHOOSE i \in ink : \A j \in ink : j <= i)

Remember(cmd) ==
  IF cmd = << >> \/ (history # << >> /\ history[Len(history)] = cmd) THEN history
  ELSE Append(IF Len(history) >= MaxHistory THEN Tail(history) ELSE history, cmd)

\* The terminal after a repaint of the whole line, which moves to its start first.
Recall(l) == Replace(l, Len(l), Type(EraseEnd(Back(terminal, cursor)), l))

HistoryUp ==
  LET i == CASE recalled = 0 -> Len(history)
             [] recalled = 1 -> 1
             [] OTHER -> recalled - 1
  IN  history # << >> /\ recalled' = i /\ Recall(history[i])

HistoryDown ==
  LET i == IF recalled \in {0, 1, Len(history)} THEN 0 ELSE recalled + 1
  IN  history # << >> /\ recalled' = i /\ Recall(IF i = 0 THEN << >> ELSE history[i])

\* The repaints that are known to be wrong: a completion is typed at the cursor
\* and appended to the line; a prompt is written over a line that is kept; a
\* movement by 0.
CompletesInside == Completions # {} /\ cursor < Len(line)

Keep == UNCHANGED << history, recalled, ansi, search, query >>

Enter ==
  /\ history' = Remember(Trim(line)) /\ recalled' = 0
  /\ Restart /\ tabbed' = FALSE /\ stale' = FALSE
  /\ UNCHANGED << ansi, search, query >>

Normal ==
  /\ ~search /\ ansi = "Normal"
  /\ \/ Enter
     \/ Tab /\ stale' = (stale \/ CompletesInside) /\ Keep
     \/ /\ tabbed' = FALSE
        /\ \/ \E ch \in Char : Insert(ch) /\ stale' = stale /\ Keep
           \/ (Backspace \/ ToStart \/ ToEnd \/ CtrlK \/ CtrlU) /\ stale' = stale /\ Keep
           \/ CtrlW /\ stale' = (stale \/ WordStart = cursor) /\ Keep
           \/ CtrlD /\ stale' = (line # << >>) /\ Keep
           \/ Restart /\ stale' = FALSE /\ Keep               \* Ctrl+L
           \/ /\ Restart /\ stale' = FALSE /\ recalled' = 0   \* Ctrl+C
              /\ UNCHANGED << history, ansi, search, query >>
           \/ /\ ansi' = "Esc" /\ Idle
              /\ UNCHANGED << stale, history, recalled, search, query >>
           \/ /\ search' = TRUE /\ query' = << >> /\ stale' = (line # << >>)
              /\ Replace(line, cursor, Prompt)                \* Ctrl+R
              /\ UNCHANGED << history, recalled, ansi >>

(***************************************************************************)
(* Escape sequences.                                                       *)
(***************************************************************************)
Escape ==
  /\ ~search /\ ansi = "Esc"
  /\ ansi' \in {"Bracket", "Normal"}
  /\ Idle /\ UNCHANGED << history, recalled, tabbed, search, query, stale >>

CursorRight == cursor < Len(line) /\ Replace(line, cursor + 1, Right(terminal, 1))
CursorLeft == cursor > 0 /\ Replace(line, cursor - 1, Left(terminal, 1))

Bracket ==
  /\ ~search /\ ansi = "Bracket"
  /\ \/ ansi' = "Normal" /\ (HistoryUp \/ HistoryDown)
     \/ /\ ansi' = "Normal" /\ recalled' = recalled
        /\ CursorRight \/ CursorLeft \/ ToStart \/ ToEnd \/ Idle
     \/ ansi' = "BracketNum" /\ recalled' = recalled /\ Idle
  /\ UNCHANGED << history, tabbed, search, query, stale >>

DeleteRight ==
  LET rest == From(line, cursor + 1)
  IN  /\ cursor < Len(line)
      /\ Replace(UpTo(line, cursor) \o rest, cursor,
                 Back(Type(EraseEnd(terminal), rest), Len(rest)))

BracketNum ==
  /\ ~search /\ ansi = "BracketNum" /\ ansi' = "Normal"
  /\ DeleteRight \/ Idle
  /\ UNCHANGED << history, recalled, tabbed, search, query, stale >>

(***************************************************************************)
(* Reverse search: the most recent entry that contains the query.          *)
(***************************************************************************)
Contains(s, q) ==
  \E i \in 0 .. Len(s) : i + Len(q) <= Len(s) /\ SubSeq(s, i + 1, i + Len(q)) = q

Found ==
  LET hits == {i \in 1 .. Len(history) : Contains(history[i], query)}
  IN  IF hits = {} THEN << >> ELSE history[CHOOSE i \in hits : \A j \in hits : j <= i]

SearchQuery ==
  /\ search
  /\ \/ Len(query) < MaxQuery /\ \E ch \in Char : query' = Append(query, ch)
     \/ query # << >> /\ query' = UpTo(query, Len(query) - 1)
  /\ Idle /\ UNCHANGED << history, recalled, ansi, tabbed, search, stale >>

SearchEnter ==
  /\ search /\ search' = FALSE
  /\ Replace(Found, Len(Found), Type(Prompt, Found)) /\ stale' = FALSE
  /\ UNCHANGED << history, recalled, ansi, tabbed, query >>

\* ESC too leaves the search: an arrow key types the rest of its sequence.
SearchCancel ==
  /\ search /\ search' = FALSE /\ query' = << >>
  /\ Replace(line, cursor, Prompt)
  /\ UNCHANGED << history, recalled, ansi, tabbed, stale >>

EditorNext ==
  \/ Normal \/ Escape \/ Bracket \/ BracketNum
  \/ SearchQuery \/ SearchEnter \/ SearchCancel

EditorSpec == EditorInit /\ [][EditorNext]_editorVars

(***************************************************************************)
(* Properties.                                                             *)
(***************************************************************************)
\* Types, and with them the absence of a panic: the code removes, inserts and
\* slices at the cursor and indexes the history without looking.
EditorTypeOK ==
  /\ line \in Seq(Char) /\ cursor \in 0 .. Len(line)
  /\ history \in Seq(Seq(Char)) /\ Len(history) <= MaxHistory
  /\ recalled \in 0 .. Len(history)
  /\ ansi \in {"Normal", "Esc", "Bracket", "BracketNum"}
  /\ tabbed \in BOOLEAN /\ search \in BOOLEAN /\ stale \in BOOLEAN
  /\ query \in Seq(Char)

\* The terminal shows the line and the cursor: the relative movements the code
\* writes add up, whatever keys came before, unless one of the repaints that
\* are known to be wrong came since the last prompt.
EchoFaithful ==
  ~search /\ ~stale => terminal = [text |-> line, at |-> cursor]
=============================================================================
