-------------------------------- MODULE Lines --------------------------------
(***************************************************************************)
(* What the console promises its readers: characters can be erased until   *)
(* their line is committed, by its end, by ^D or because there is no more  *)
(* room; every committed character goes to one reader, in order; a read    *)
(* ends with a line or in front of a ^D, and a ^D alone is an empty read.  *)
(***************************************************************************)
EXTENDS Naturals, Sequences

CONSTANTS Readers, Chars, Capacity

VARIABLES
  line,   \* typed and not committed
  ready,  \* committed and not read
  rd      \* reader -> [at, n, got]

vars == <<line, ready, rd>>

Idle == [at |-> "idle", n |-> 0, got |-> <<>>]

Init == line = <<>> /\ ready = <<>> /\ rd = [p \in Readers |-> Idle]

Room == Len(line) + Len(ready) < Capacity
Ends(c) == c \in {"nl", "^D"} \/ Len(line) + Len(ready) + 1 = Capacity

Type(c) ==
  /\ Room /\ ~Ends(c)
  /\ line' = Append(line, c)
  /\ UNCHANGED <<ready, rd>>

\* All who sleep wake.
Commit(c) ==
  /\ Room /\ Ends(c)
  /\ ready' = ready \o Append(line, c)
  /\ line' = <<>>
  /\ rd' = [p \in Readers |->
              IF rd[p].at = "asleep" THEN [rd[p] EXCEPT !.at = "reading"] ELSE rd[p]]

\* The last character, or all.
Erase(k) ==
  /\ k \in {1, Len(line)} /\ k <= Len(line)
  /\ line' = SubSeq(line, 1, Len(line) - k)
  /\ UNCHANGED <<ready, rd>>

Goes(p, at) == rd' = [rd EXCEPT ![p].at = at] /\ UNCHANGED <<line, ready>>

Start(p) ==
  /\ rd[p].at = "idle"
  /\ rd'[p].n \in Nat \ {0}
  /\ rd' = [rd EXCEPT ![p] = [Idle EXCEPT !.at = "reading", !.n = rd'[p].n]]
  /\ UNCHANGED <<line, ready>>

Take(p) ==
  /\ rd[p].at = "reading" /\ ready # <<>> /\ Head(ready) # "^D"
  /\ ready' = Tail(ready)
  /\ rd' = [rd EXCEPT ![p].got = Append(@, Head(ready)),
       ![p].at = IF Head(ready) = "nl" \/ Len(rd[p].got) + 1 = rd[p].n
                 THEN "done" ELSE @]
  /\ UNCHANGED line

\* Only the read that has nothing yet takes the ^D.
TakeEOF(p) ==
  /\ rd[p].at = "reading" /\ ready # <<>> /\ Head(ready) = "^D"
  /\ ready' = IF rd[p].got = <<>> THEN Tail(ready) ELSE ready
  /\ rd' = [rd EXCEPT ![p].at = "done"]
  /\ UNCHANGED line

Sleep(p) == rd[p].at = "reading" /\ ready = <<>> /\ Goes(p, "asleep")

\* A killed reader wakes and gives up; what it had got is lost.
Wake(p) == rd[p].at = "asleep" /\ Goes(p, "reading")

Leave(p) ==
  /\ \/ rd[p].at = "done"
     \/ rd[p].at = "reading" /\ ready = <<>>
  /\ rd' = [rd EXCEPT ![p] = Idle]
  /\ UNCHANGED <<line, ready>>

Next ==
  \/ \E c \in Chars : Type(c) \/ Commit(c)
  \/ \E k \in 1 .. Capacity : Erase(k)
  \/ \E p \in Readers :
       Start(p) \/ Take(p) \/ TakeEOF(p) \/ Sleep(p) \/ Wake(p) \/ Leave(p)

Spec == Init /\ [][Next]_vars
=============================================================================
