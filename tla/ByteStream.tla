----------------------------- MODULE ByteStream -----------------------------
(***************************************************************************)
(* What a pipe promises: a stream of bounded length.  What a writer still  *)
(* has to write goes to its end in order and without gaps; a read takes    *)
(* what it asks for from its front, as far as there are bytes, and finds   *)
(* none only when nobody can write any more.                               *)
(***************************************************************************)
EXTENDS Naturals, Sequences

CONSTANTS Readers, Writers, Bytes, Capacity

VARIABLES
  stream,    \* bytes in the pipe, oldest first
  pending,   \* writer -> the bytes it still has to write
  asked,     \* reader -> the number of bytes it asks for
  closed,    \* no writer is left
  out        \* what the last read returned

vars == <<stream, pending, asked, closed, out>>

Init ==
  /\ stream = <<>>
  /\ pending = [w \in Writers |-> <<>>]
  /\ asked = [r \in Readers |-> 0]
  /\ closed = FALSE
  /\ out = <<>>

\* A writer enters write() with new bytes.
Start(w) ==
  /\ ~closed
  /\ pending[w] = <<>>
  /\ pending'[w] \in Seq(Bytes)
  /\ \A v \in Writers \ {w} : pending'[v] = pending[v]
  /\ UNCHANGED <<stream, asked, closed, out>>

\* k bytes of a writer enter the pipe; it may give the others up.
Put(w, k) ==
  /\ ~closed
  /\ stream' = stream \o SubSeq(pending[w], 1, k)
  /\ Len(stream') <= Capacity
  /\ pending'[w] \in {<<>>, SubSeq(pending[w], k + 1, Len(pending[w]))}
  /\ \A v \in Writers \ {w} : pending'[v] = pending[v]
  /\ UNCHANGED <<asked, closed, out>>

Ask(r) ==
  /\ asked'[r] \in Nat
  /\ \A v \in Readers \ {r} : asked'[v] = asked[v]
  /\ UNCHANGED <<stream, pending, closed, out>>

\* Reader r gets k bytes.
Get(r, k) ==
  /\ k <= asked[r]
  /\ k < asked[r] => k = Len(stream)
  /\ stream = <<>> => closed
  /\ out' = SubSeq(stream, 1, k)
  /\ stream' = SubSeq(stream, k + 1, Len(stream))
  /\ asked' = [asked EXCEPT ![r] = 0]
  /\ UNCHANGED <<pending, closed>>

Close == closed' = TRUE /\ UNCHANGED <<stream, pending, asked, out>>

Next ==
  \/ \E w \in Writers : Start(w) \/ \E k \in 0 .. Len(pending[w]) : Put(w, k)
  \/ \E r \in Readers : Ask(r) \/ \E k \in 0 .. Len(stream) : Get(r, k)
  \/ Close

Spec == Init /\ [][Next]_vars
=============================================================================
