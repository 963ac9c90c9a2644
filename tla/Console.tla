------------------------------- MODULE Console -------------------------------
(***************************************************************************)
(* console.c: the ring of typed characters between consoleintr() and       *)
(* consoleread(), and the screen.  Characters come from the keyboard       *)
(* (kbd.c) and the serial line (uart.c).                                   *)
(*                                                                         *)
(* consoleintr(), consolewrite() and cprintf() hold cons.lock from their   *)
(* first to their last character: a character of the first, a text of the  *)
(* others, is one step.  consoleread() is one step per character; a reader *)
(* at "in" or "tosleep" holds cons.lock.                                   *)
(***************************************************************************)
EXTENDS Integers, Sequences, SequencesExt, Keyboard

CONSTANTS
  Readers,
  ReadSizes,
  Keyset,      \* keys of the keyboard
  Chords,      \* sets of modifiers that are held with a key
  Serial,      \* characters that come over the serial line
  Texts,       \* what processes and the kernel print
  INPUT_BUF,
  UintRange,   \* input.r, w and e are modulo this
  COLS, ROWS,  \* 80 and 25; the last row stays empty
  Cursors,     \* where the BIOS may have left the cursor
  First,       \* where the indices start, after a long run
  MaxOut       \* bound: characters accepted and texts printed

ASSUME ConsoleAssumption ==
  /\ UintRange % INPUT_BUF = 0 /\ UintRange > INPUT_BUF
  /\ INPUT_BUF <= COLS * (ROWS - 2)
  /\ Cursors \subseteq 0 .. COLS * (ROWS - 1) - 1
  /\ ReadSizes \subseteq Nat \ {0} /\ Keyset \subseteq Keys

VARIABLES
  input,    \* [buf, r, w, e]
  scr,      \* [pos, crt]
  rd,       \* reader -> [at, n, got, killed]
  shift,    \* of kbdgetc()
  foreign,  \* history: something else was printed within the line
  out

vars == <<input, scr, rd, shift, foreign, out>>

-----------------------------------------------------------------------------
(***************************************************************************)
(* The screen                                                              *)
(***************************************************************************)

Cells == 0 .. COLS * (ROWS - 1) - 1

\* Mutant of Moved: a backspace does not leave its row.
MovedInRow(pos, c) ==
  CASE c = "nl" -> pos + COLS - (pos % COLS)
    [] c = "BACKSPACE" -> IF pos % COLS > 0 THEN pos - 1 ELSE pos
    [] OTHER -> pos + 1

Moved(pos, c) ==
  CASE c = "nl" -> pos + COLS - (pos % COLS)
    [] c = "BACKSPACE" -> IF pos > 0 THEN pos - 1 ELSE pos
    [] OTHER -> pos + 1

\* All but the last row move up.
Scrolled(crt) ==
  [i \in Cells |-> IF i + COLS \in Cells THEN crt[i + COLS] ELSE " "]

cgaputc(s, c) ==
  LET crt == IF c \in {"nl", "BACKSPACE"} THEN s.crt ELSE [s.crt EXCEPT ![s.pos] = c]
      pos == Moved(s.pos, c)
      scroll == pos \div COLS >= ROWS - 1
      to == IF scroll THEN pos - COLS ELSE pos
  IN [pos |-> to,
      crt |-> [(IF scroll THEN Scrolled(crt) ELSE crt) EXCEPT ![to] = " "]]

consputc(s, text) == FoldLeft(cgaputc, s, text)

-----------------------------------------------------------------------------
(***************************************************************************)
(* consoleintr()                                                           *)
(***************************************************************************)

Unlocked == \A p \in Readers : rd[p].at \notin {"in", "tosleep"}

Between(i, j) == (j - i) % UintRange
Slot(i) == i % INPUT_BUF

\* What is between two indices of the ring.
Segment(i, j) == [k \in 1 .. Between(i, j) |-> input.buf[Slot(i + k - 1)]]

\* ^U stops at a newline that is not committed; there is none.
Erased(c) == IF c = "^U" THEN Between(input.w, input.e) ELSE 1

Erase(c) ==
  /\ c \in {"^U", "^H"} /\ input.e # input.w
  /\ input' = [input EXCEPT !.e = (@ - Erased(c)) % UintRange]
  /\ scr' = consputc(scr, [i \in 1 .. Erased(c) |-> "BACKSPACE"])
  /\ foreign' = (foreign /\ input'.e # input.w)
  /\ UNCHANGED <<rd, out>>

\* wakeup(&input.r)
Awake == [p \in Readers |->
            IF rd[p].at = "asleep" THEN [rd[p] EXCEPT !.at = "want"] ELSE rd[p]]

\* Mutant of Commits: a full buffer is not committed.
CommitsLines(c) == c \in {"nl", "^D"}

Commits(c) ==
  \/ c \in {"nl", "^D"}
  \/ (input.e + 1) % UintRange = (input.r + INPUT_BUF) % UintRange

Accept(typed) ==
  LET c == IF typed = "cr" THEN "nl" ELSE typed IN
  /\ typed \notin {"^U", "^H", "^P", "NO"}
  /\ Between(input.r, input.e) < INPUT_BUF
  /\ out < MaxOut /\ out' = out + 1
  /\ input' = [input EXCEPT !.buf[Slot(input.e)] = c, !.e = (@ + 1) % UintRange,
       !.w = IF Commits(c) THEN (input.e + 1) % UintRange ELSE @]
  /\ scr' = consputc(scr, <<c>>)
  /\ rd' = IF Commits(c) THEN Awake ELSE rd
  /\ foreign' = (foreign /\ ~Commits(c))

\* cprintf(), and what consolewrite() and procdump() write
cprintf(text) ==
  /\ out < MaxOut /\ out' = out + 1
  /\ scr' = consputc(scr, text)
  /\ foreign' = (input.e # input.w)
  /\ UNCHANGED <<input, rd>>

\* What getc() has returned; the loop passes over 0 and a character too many.
consoleintr(c) ==
  /\ Unlocked
  /\ \/ Erase(c)
     \/ Accept(c)
     \/ c = "^P" /\ \E t \in Texts : cprintf(t)
     \/ /\ \/ c = "NO"
           \/ c \in {"^U", "^H"} /\ input.e = input.w
           \/ Between(input.r, input.e) = INPUT_BUF
        /\ UNCHANGED <<input, scr, rd, foreign, out>>

uartintr(c) == consoleintr(c) /\ UNCHANGED shift

consolewrite(text) == Unlocked /\ cprintf(text) /\ UNCHANGED shift

-----------------------------------------------------------------------------
(***************************************************************************)
(* The keyboard                                                            *)
(***************************************************************************)

\* What the strokes of the keyboard make of kbdgetc()'s shift, and type.
TypedFrom ==
  LET strokes == UNION {Strokes(k, held) : k \in Keyset, held \in Chords} IN
  {<<s, Typed(s, b)>> : s \in SUBSET {"SHIFT", "CTL", "CAPSLOCK", "E0ESC"}, b \in strokes}

\* All bytes of a stroke; nothing else reads or writes shift.
kbdintr ==
  \E t \in TypedFrom :
    t[1] = shift /\ consoleintr(t[2].c) /\ shift' = t[2].shift

-----------------------------------------------------------------------------
(***************************************************************************)
(* consoleread()                                                           *)
(***************************************************************************)

Idle == [at |-> "idle", n |-> 0, got |-> <<>>, killed |-> FALSE]

Rest == <<scr, shift, foreign, out>>

\* iunlock(ip)
Start(p, n) ==
  /\ rd[p].at = "idle"
  /\ rd' = [rd EXCEPT ![p].at = "want", ![p].n = n]
  /\ UNCHANGED <<input, Rest>>

\* acquire(&cons.lock), also at the end of sleep()
Lock(p) ==
  /\ rd[p].at = "want" /\ Unlocked
  /\ rd' = [rd EXCEPT ![p].at = "in"]
  /\ UNCHANGED <<input, Rest>>

Empty == input.r = input.w
Char == input.buf[Slot(input.r)]

Take(p) ==
  /\ rd[p].at = "in" /\ ~Empty /\ Char # "^D"
  /\ input' = [input EXCEPT !.r = (@ + 1) % UintRange]
  /\ rd' = [rd EXCEPT ![p].got = Append(@, Char),
       ![p].at = IF Char = "nl" \/ Len(rd[p].got) + 1 = rd[p].n THEN "done" ELSE @]
  /\ UNCHANGED Rest

\* A ^D behind other characters is left for the next read.
TakeEOF(p) ==
  /\ rd[p].at = "in" /\ ~Empty /\ Char = "^D"
  /\ input' = [input EXCEPT !.r = IF rd[p].got = <<>> THEN (@ + 1) % UintRange ELSE @]
  /\ rd' = [rd EXCEPT ![p].at = "done"]
  /\ UNCHANGED Rest

\* Killed: return -1; the process exits.
Fail(p) ==
  /\ rd[p].at = "in" /\ Empty /\ rd[p].killed
  /\ rd' = [rd EXCEPT ![p] = Idle]
  /\ UNCHANGED <<input, Rest>>

\* proc->killed is tested, and then sleep() called: a kill() in between wakes
\* nobody.
Tests(p) ==
  /\ rd[p].at = "in" /\ Empty /\ ~rd[p].killed
  /\ rd' = [rd EXCEPT ![p].at = "tosleep"]
  /\ UNCHANGED <<input, Rest>>

Sleeps(p) ==
  /\ rd[p].at = "tosleep"
  /\ rd' = [rd EXCEPT ![p].at = "asleep"]
  /\ UNCHANGED <<input, Rest>>

\* ilock(ip) and return; a killed process exits.
Return(p) ==
  /\ rd[p].at = "done"
  /\ rd' = [rd EXCEPT ![p] = Idle]
  /\ UNCHANGED <<input, Rest>>

kill(p) ==
  /\ rd[p].at \notin {"idle", "done"} /\ ~rd[p].killed
  /\ rd' = [rd EXCEPT ![p].killed = TRUE,
                      ![p].at = IF @ = "asleep" THEN "want" ELSE @]
  /\ UNCHANGED <<input, Rest>>

-----------------------------------------------------------------------------
\* consoleinit()
Init ==
  /\ input = [buf |-> [i \in 0 .. INPUT_BUF - 1 |-> "NO"],
              r |-> First, w |-> First, e |-> First]
  /\ \E pos \in Cursors : scr = [pos |-> pos, crt |-> [i \in Cells |-> " "]]
  /\ rd = [p \in Readers |-> Idle]
  /\ shift = {} /\ foreign = FALSE /\ out = 0

Next ==
  \/ \E c \in Serial : uartintr(c)
  \/ kbdintr
  \/ \E t \in Texts : consolewrite(t)
  \/ \E p \in Readers :
       \/ \E n \in ReadSizes : Start(p, n)
       \/ Lock(p) \/ Take(p) \/ TakeEOF(p) \/ Fail(p) \/ Tests(p) \/ Sleeps(p)
       \/ Return(p) \/ kill(p)

Spec == Init /\ [][Next]_vars
-----------------------------------------------------------------------------
(***************************************************************************)
(* Properties                                                              *)
(***************************************************************************)

Line == Segment(input.w, input.e)

Reader(p) ==
  [at |-> IF rd[p].at \in {"want", "in", "tosleep"} THEN "reading" ELSE rd[p].at,
   n |-> rd[p].n, got |-> rd[p].got]

L == INSTANCE Lines WITH
       Chars <- {"d", "D", "^D", "nl"}, Capacity <- INPUT_BUF, line <- Line,
       ready <- Segment(input.r, input.w), rd <- [p \in Readers |-> Reader(p)]

\* The ring of consoleintr() and consoleread() is a line discipline, also when
\* its indices wrap and when it is full: readers get the committed characters
\* in order, each once and none that was erased, and no reader sleeps while
\* there are some.
ImplementsLines == L!Spec

\* What was typed and not committed stands in front of the cursor, whatever was
\* erased and however the screen scrolled, unless something else was printed
\* meanwhile; and the cursor is on the screen (panic "pos under/overflow").
EchoIsTheLine ==
  /\ scr.pos \in Cells
  /\ ~foreign => \A i \in 1 .. Len(Line) :
       scr.pos - i >= 0 /\ scr.crt[scr.pos - i] = Line[Len(Line) + 1 - i]

\* When all keys are up kbdgetc() is not within an escape and no modifier is
\* on, in whatever order the keys of a stroke, with and without escape bytes,
\* were released.
NoStuckModifier == shift \subseteq {"CAPSLOCK"}
=============================================================================
