------------------------------ MODULE Keyboard ------------------------------
(***************************************************************************)
(* kbdgetc() of kbd.c, on a part of the tables of kbd.h.                   *)
(*                                                                         *)
(* A key is <<extended, name>>: the scan code of an extended key comes     *)
(* behind the byte E0.  A byte is [key, up], with key "E0" for the escape. *)
(***************************************************************************)
EXTENDS Naturals, Sequences, SequencesExt

Keys ==
  {<<FALSE, n>> : n \in {"d", "bksp", "enter", "shift", "ctl", "caps"}}
    \cup {<<TRUE, "ctl">>, <<TRUE, "enter">>}

\* Ctl is on both sides of the tables, shift is not.
shiftcode(k) ==
  IF k[2] = "ctl" THEN {"CTL"} ELSE IF k = <<FALSE, "shift">> THEN {"SHIFT"} ELSE {}

togglecode(k) == IF k = <<FALSE, "caps">> THEN {"CAPSLOCK"} ELSE {}

\* normalmap, shiftmap, ctlmap
charcode(k) ==
  CASE k[2] = "d" -> <<"d", "D", "^D">>
    [] k[2] = "bksp" -> <<"^H", "^H", "NO">>
    [] k[2] = "enter" -> <<"nl", "nl", "cr">>
    [] OTHER -> <<"NO", "NO", "NO">>

Capital(c) == IF c = "d" THEN "D" ELSE IF c = "D" THEN "d" ELSE c

\* Mutant of Released: the escape is not over, so the next key is taken for another.
ReleasedEscaped(shift, k) == [shift |-> shift \ shiftcode(k), c |-> "NO"]

\* The static variable and the character kbdgetc() leaves after a byte.
Released(shift, k) ==
  [shift |-> shift \ (shiftcode(k) \cup {"E0ESC"}), c |-> "NO"]

Toggled(s, t) == (s \ t) \cup (t \ s)

Pressed(shift, k) ==
  LET s == Toggled((shift \ {"E0ESC"}) \cup shiftcode(k), togglecode(k))
      c == charcode(k)[IF "CTL" \in s THEN 3 ELSE IF "SHIFT" \in s THEN 2 ELSE 1]
  IN [shift |-> s, c |-> IF "CAPSLOCK" \in s THEN Capital(c) ELSE c]

kbdgetc(shift, data) ==
  IF data.key = "E0" THEN [shift |-> shift \cup {"E0ESC"}, c |-> "NO"]
  ELSE LET k == <<"E0ESC" \in shift, data.key>> IN
       IF data.up THEN Released(shift, k) ELSE Pressed(shift, k)

-----------------------------------------------------------------------------
\* The bytes of a key that goes down or up.
Bytes(k, up) ==
  (IF k[1] THEN <<[key |-> "E0", up |-> FALSE]>> ELSE <<>>)
    \o <<[key |-> k[2], up |-> up]>>

\* The bytes when the keys in ks go down or up one after the other.
BytesOf(ks, up) == FlattenSeq([i \in DOMAIN ks |-> Bytes(ks[i], up)])

\* Keys go down in one order, the one that types last, and up in any order.
Stroke(down, up) == BytesOf(down, FALSE) \o BytesOf(up, TRUE)

Strokes(k, held) ==
  {Stroke(Append(down, k), up) : down \in SetToSeqs(held),
                                up \in SetToSeqs(held \cup {k})}

\* What consoleintr() gets from kbdgetc() for some bytes: 0 but for one key.
Typed(shift, bytes) ==
  FoldLeft(LAMBDA a, b : LET g == kbdgetc(a.shift, b) IN
             [shift |-> g.shift, c |-> IF g.c = "NO" THEN a.c ELSE g.c],
           [shift |-> shift, c |-> "NO"], bytes)
=============================================================================
