----------------------------- MODULE PipeProofs -----------------------------
(***************************************************************************)
(* What Pipe promises, proved for any processes, bytes, ring size and      *)
(* width of nread and nwrite: nobody sleeps without a reason, and the ring *)
(* implements ByteStream.                                                  *)
(*                                                                         *)
(* The second rests on arithmetic: PIPESIZE divides UintRange, so the slot *)
(* of a byte can be computed before or after the counters wrap, and bytes  *)
(* less than PIPESIZE apart have different slots.                          *)
(***************************************************************************)
EXTENDS Pipe, Integers, SequenceTheorems, TLAPS

Label == {"out", "call", "doze", "sleep"}

\* The types of the state.
TypeOK ==
  /\ data \in [0 .. PIPESIZE - 1 -> Bytes]
  /\ nread \in 0 .. UintRange - 1
  /\ nwrite \in 0 .. UintRange - 1
  /\ readopen \in BOOLEAN
  /\ writeopen \in BOOLEAN
  /\ lock \in Procs \cup {None}
  /\ open \in SUBSET Procs
  /\ pc \in [Procs -> Label]
  /\ buf \in [Writers -> Seq(Bytes)]
  /\ count \in [Readers -> Nat]
  /\ killed \in [Procs -> BOOLEAN]

\* There are no more bytes than the ring has slots.
RingInv == used <= PIPESIZE

\* Only processes with an open end are in a call; while one is there its end
\* of the pipe is open; write() leaves nothing behind.
EndInv ==
  /\ \A p \in Procs : pc[p] # "out" => p \in open
  /\ \A p \in open : /\ p \in Writers => writeopen
                     /\ p \in Readers => readopen
  /\ \A w \in Writers : pc[w] = "out" => buf[w] = <<>>

\* The process about to sleep has the lock.
LockInv == \A p \in Procs : pc[p] = "doze" => lock = p

\* What made a process decide to sleep is still so while it has the lock, and
\* afterwards as long as nobody woke it.
SleepInv ==
  /\ \A w \in Writers : pc[w] \in {"doze", "sleep"} =>
       used = PIPESIZE /\ readopen
  /\ \A r \in Readers : pc[r] = "doze" => used = 0 /\ writeopen
  /\ (\A p \in Procs : ~killed[p]) =>
       \A r \in Readers : pc[r] = "sleep" => used = 0 /\ writeopen

PipeInv == TypeOK /\ RingInv /\ EndInv /\ LockInv /\ SleepInv
-----------------------------------------------------------------------------
(***************************************************************************)
(* Arithmetic.                                                             *)
(***************************************************************************)

\* What \div and % compute.
LEMMA Division ==
  ASSUME NEW m \in Nat \ {0}, NEW x \in Nat
  PROVE  /\ x \div m \in Nat /\ x % m \in 0 .. m - 1
         /\ x = m * (x \div m) + (x % m)
OBVIOUS

\* A multiple of m strictly between -m and m is 0.
LEMMA SmallMultiple ==
  ASSUME NEW m \in Nat \ {0}, NEW d \in Int, m * d < m, m * d > - m
  PROVE  d = 0
OBVIOUS

\* The remainder is unique.
LEMMA Remainder ==
  ASSUME NEW m \in Nat \ {0}, NEW q \in Int, NEW r \in 0 .. m - 1,
         NEW x \in Nat, x = m * q + r
  PROVE  x % m = r
<1>1. /\ x \div m \in Nat /\ x % m \in 0 .. m - 1
      /\ x = m * (x \div m) + (x % m)
  BY Division
<1> DEFINE d == q - (x \div m)
<1>2. m * d = m * q - m * (x \div m)
  BY <1>1
<1>3. m * d < m /\ m * d > - m
  BY <1>1, <1>2
<1>4. d = 0
  BY <1>1, <1>3, SmallMultiple
<1>5. QED  BY <1>1, <1>4

\* Numbers less than m apart differ modulo m.
LEMMA Apart ==
  ASSUME NEW m \in Nat \ {0}, NEW x \in Nat, NEW y \in Nat,
         x < y, y < x + m
  PROVE  x % m # y % m
<1> SUFFICES ASSUME x % m = y % m PROVE FALSE
  OBVIOUS
<1>1. /\ x \div m \in Nat /\ x % m \in 0 .. m - 1
      /\ x = m * (x \div m) + (x % m)
  BY Division
<1>2. y \div m \in Nat /\ y = m * (y \div m) + (y % m)
  BY Division
<1> DEFINE d == (y \div m) - (x \div m)
<1>3. m * d = y - x
  BY <1>1, <1>2
<1>4. d = 0
  BY <1>1, <1>2, <1>3, SmallMultiple
<1>5. QED  BY <1>3, <1>4

\* A counter below its range twice wraps at most once.
LEMMA Wrap ==
  ASSUME NEW x \in Nat, x < 2 * UintRange
  PROVE  x % UintRange = IF x < UintRange THEN x ELSE x - UintRange
BY PipeAssumption

\* The slot of a byte: the wrap of its counter does not matter.
Slot(x) == x % PIPESIZE

\* A slot is an index of the ring.
LEMMA SlotRange ==
  ASSUME NEW x \in Nat
  PROVE  Slot(x) \in 0 .. PIPESIZE - 1
BY PipeAssumption, Division DEF Slot

\* Bytes less than PIPESIZE apart have different slots.
LEMMA SlotsApart ==
  ASSUME NEW x \in Nat, NEW y \in Nat, x < y, y < x + PIPESIZE
  PROVE  Slot(x) # Slot(y)
BY PipeAssumption, Apart DEF Slot

\* Advancing a counter by its whole range leads to the same slot.
LEMMA SlotShift ==
  ASSUME NEW x \in Nat
  PROVE  Slot(x + UintRange) = Slot(x)
<1> DEFINE m == PIPESIZE
           q == (x \div m) + (UintRange \div m)
<1>1. UintRange \div m \in Nat /\ UintRange = m * (UintRange \div m)
  BY PipeAssumption, Division
<1>2. /\ x \div m \in Nat /\ x % m \in 0 .. m - 1
      /\ x = m * (x \div m) + (x % m)
  BY PipeAssumption, Division
<1>3. m \in Nat \ {0} /\ q \in Int /\ x + UintRange \in Nat
  BY <1>1, <1>2, PipeAssumption
<1>4. x + UintRange = m * q + (x % m)
  BY <1>1, <1>2, <1>3
<1>5. \A z \in Nat : z = m * q + (x % m) => z % m = x % m
  <2> HIDE DEF m, q
  <2>1. QED  BY <1>2, <1>3, Remainder
<1>6. QED  BY <1>3, <1>4, <1>5 DEF Slot

\* The slot of a counter that has wrapped.
LEMMA SlotOfWrapped ==
  ASSUME NEW x \in Nat, x < 2 * UintRange
  PROVE  (x % UintRange) % PIPESIZE = Slot(x)
<1>1. CASE x < UintRange
  BY <1>1, Wrap DEF Slot
<1>2. CASE x >= UintRange
  <2>1. x - UintRange \in Nat /\ x = (x - UintRange) + UintRange
    BY <1>2, PipeAssumption
  <2>2. x % UintRange = x - UintRange
    BY <1>2, Wrap, PipeAssumption
  <2>3. Slot(x) = Slot(x - UintRange)
    BY <2>1, SlotShift
  <2>4. QED  BY <2>2, <2>3 DEF Slot
<1>3. QED  BY <1>1, <1>2, PipeAssumption

-----------------------------------------------------------------------------
(***************************************************************************)
(* The ring.                                                               *)
(***************************************************************************)

\* used is the distance from nread to nwrite.
LEMMA Distance ==
  ASSUME TypeOK
  PROVE  /\ used = IF nwrite >= nread THEN nwrite - nread
                   ELSE nwrite + UintRange - nread
         /\ used \in 0 .. UintRange - 1
<1>1. /\ nwrite + UintRange - nread \in Nat
      /\ nwrite + UintRange - nread < 2 * UintRange
  BY PipeAssumption DEF TypeOK
<1>2. used = IF nwrite + UintRange - nread < UintRange
              THEN nwrite + UintRange - nread
              ELSE (nwrite + UintRange - nread) - UintRange
  BY <1>1, Wrap DEF used
<1>3. QED
  BY <1>2, PipeAssumption DEF TypeOK

\* nread = nwrite says that the ring is empty, nwrite = nread + PIPESIZE that
\* it is full, although the two counters wrap.
LEMMA EmptyAndFull ==
  ASSUME TypeOK
  PROVE  (empty <=> used = 0) /\ (full <=> used = PIPESIZE)
<1>1. nread + PIPESIZE \in Nat /\ nread + PIPESIZE < 2 * UintRange
  BY PipeAssumption DEF TypeOK
<1>2. (nread + PIPESIZE) % UintRange =
        IF nread + PIPESIZE < UintRange THEN nread + PIPESIZE
        ELSE (nread + PIPESIZE) - UintRange
  BY <1>1, Wrap
<1>3. full <=> nwrite = IF nread + PIPESIZE < UintRange THEN nread + PIPESIZE
                        ELSE (nread + PIPESIZE) - UintRange
  BY <1>2 DEF full
<1>4. QED
  BY <1>3, Distance, PipeAssumption DEF TypeOK, empty

\* The bytes of the ring by their slots.
LEMMA ContentsBySlot ==
  ASSUME TypeOK, RingInv
  PROVE  Contents = [i \in 1 .. used |-> data[Slot(nread + i - 1)]]
<1>1. ASSUME NEW i \in 1 .. used
      PROVE  ((nread + i - 1) % UintRange) % PIPESIZE = Slot(nread + i - 1)
  <2>1. nread + i - 1 \in Nat /\ nread + i - 1 < 2 * UintRange
    BY Distance, PipeAssumption DEF TypeOK
  <2>2. QED  BY <2>1, SlotOfWrapped
<1>2. QED  BY <1>1 DEF Contents

\* The contents are a sequence of bytes, as long as the distance.
LEMMA ContentsType ==
  ASSUME TypeOK, RingInv
  PROVE  Contents \in Seq(Bytes) /\ Len(Contents) = used
<1>1. used \in Nat
  BY Distance
<1>2. ASSUME NEW i \in 1 .. used PROVE data[Slot(nread + i - 1)] \in Bytes
  <2>1. nread + i - 1 \in Nat
    BY <1>1 DEF TypeOK
  <2>2. QED  BY <2>1, SlotRange DEF TypeOK
<1>3. Contents \in [1 .. used -> Bytes]
  BY <1>2, ContentsBySlot
<1> HIDE DEF Contents
<1>4. QED  BY <1>1, <1>3

\* Copying k bytes behind the others overwrites none of them.
LEMMA CopyAppends ==
  ASSUME TypeOK, RingInv, NEW b \in Seq(Bytes), NEW k \in 0 .. Len(b),
         used + k <= PIPESIZE, CopyIn(b, k), nread' = nread
  PROVE  /\ data' \in [0 .. PIPESIZE - 1 -> Bytes]
         /\ nwrite' \in 0 .. UintRange - 1
         /\ used' = used + k
         /\ Contents' = Contents \o SubSeq(b, 1, k)
<1> DEFINE n == used
<1>1. n \in 0 .. PIPESIZE /\ n + k <= PIPESIZE /\ k \in Nat
  BY Distance DEF RingInv
<1>2. nwrite + k \in Nat /\ nwrite + k < 2 * UintRange
  BY <1>1, PipeAssumption DEF TypeOK
<1>3. nwrite' = IF nwrite + k < UintRange THEN nwrite + k
                ELSE (nwrite + k) - UintRange
  <2>1. nwrite' = (nwrite + k) % UintRange
    BY DEF CopyIn
  <2>2. QED  BY <1>2, <2>1, Wrap
<1>4. nwrite' \in 0 .. UintRange - 1
  BY <1>2, <1>3, PipeAssumption DEF TypeOK
<1>5. ASSUME NEW i \in 1 .. k
      PROVE  ((nwrite + i - 1) % UintRange) % PIPESIZE =
               Slot(nread + n + i - 1)
  <2>1. nwrite + i - 1 \in Nat /\ nwrite + i - 1 < 2 * UintRange
    BY <1>1, <1>2, PipeAssumption DEF TypeOK
  <2>2. ((nwrite + i - 1) % UintRange) % PIPESIZE = Slot(nwrite + i - 1)
    BY <2>1, SlotOfWrapped
  <2>3. CASE nwrite >= nread
    <3>1. nwrite + i - 1 = nread + n + i - 1
      BY <1>1, <2>3, Distance DEF TypeOK
    <3>2. QED  BY <2>2, <3>1
  <2>4. CASE ~(nwrite >= nread)
    <3>1. nread + n + i - 1 = (nwrite + i - 1) + UintRange
      BY <1>1, <2>4, Distance, PipeAssumption DEF TypeOK
    <3>2. QED  BY <2>1, <2>2, <3>1, SlotShift
  <2>5. QED  BY <2>3, <2>4
<1> DEFINE At(i) == Slot(nread + i - 1)
<1>6. data' = [x \in 0 .. PIPESIZE - 1 |->
         IF \E i \in 1 .. k : At(n + i) = x
         THEN b[CHOOSE i \in 1 .. k : At(n + i) = x] ELSE data[x]]
  <2>1. ASSUME NEW i \in 1 .. k
        PROVE  ((nwrite + i - 1) % UintRange) % PIPESIZE = At(n + i)
    <3>1. nread + n + i - 1 = nread + (n + i) - 1
      BY <1>1 DEF TypeOK
    <3>2. QED  BY <1>5, <3>1
  <2> HIDE DEF n, At
  <2>2. ASSUME NEW x \in 0 .. PIPESIZE - 1
        PROVE  (CHOOSE i \in 1 .. k :
                  ((nwrite + i - 1) % UintRange) % PIPESIZE = x)
               = CHOOSE i \in 1 .. k : At(n + i) = x
    BY <2>1
  <2>3. QED  BY <2>1, <2>2 DEF CopyIn
<1>7. \A i, j \in 1 .. n + k : i # j => At(i) # At(j)
  <2>1. ASSUME NEW i \in 1 .. n + k, NEW j \in 1 .. n + k, i < j
        PROVE  At(i) # At(j)
    <3>1. nread + i - 1 \in Nat /\ nread + j - 1 \in Nat
      BY <1>1 DEF TypeOK
    <3>2. nread + i - 1 < nread + j - 1
          /\ nread + j - 1 < nread + i - 1 + PIPESIZE
      BY <1>1, <2>1, PipeAssumption DEF TypeOK
    <3>3. QED  BY <3>1, <3>2, SlotsApart
  <2> HIDE DEF At, n
  <2>2. QED  BY <1>1, <2>1
<1>8. \A i \in 1 .. n + k : At(i) \in 0 .. PIPESIZE - 1
  <2>1. \A i \in 1 .. n + k : nread + i - 1 \in Nat
    BY <1>1 DEF TypeOK
  <2>2. QED  BY <2>1, SlotRange
<1>9. used' = n + k
  <2> DEFINE x == nwrite' + UintRange - nread
  <2>1. x \in Nat /\ x < 2 * UintRange
    <3>1. nread \in 0 .. UintRange - 1 /\ UintRange \in Nat
      BY PipeAssumption DEF TypeOK
    <3>2. \A w \in 0 .. UintRange - 1 : w + UintRange - nread \in Nat
                            /\ w + UintRange - nread < 2 * UintRange
      BY <3>1
    <3>3. QED  BY <1>4, <3>2
  <2>2. used' = x % UintRange
    BY DEF used
  <2>3. x % UintRange = IF x < UintRange THEN x ELSE x - UintRange
    BY <2>1, Wrap
  <2>4. used' = IF x < UintRange THEN x ELSE x - UintRange
    BY <2>2, <2>3
  <2>5. QED  BY <1>1, <1>3, <2>4, Distance, PipeAssumption DEF TypeOK
<1>10. data' \in [0 .. PIPESIZE - 1 -> Bytes]
  <2> HIDE DEF n, At
  <2>1. ASSUME NEW x \in 0 .. PIPESIZE - 1 PROVE data'[x] \in Bytes
    <3>1. CASE \E i \in 1 .. k : At(n + i) = x
      <4>1. PICK i \in 1 .. k : data'[x] = b[i]
        BY <1>6, <3>1
      <4>2. QED  BY <1>1, <4>1
    <3>2. CASE ~\E i \in 1 .. k : At(n + i) = x
      BY <1>6, <3>2 DEF TypeOK
    <3>3. QED  BY <3>1, <3>2
  <2>2. QED  BY <1>6, <2>1
<1>11. \A i \in 1 .. n : data'[At(i)] = data[At(i)]
  <2> HIDE DEF At, n
  <2> TAKE i \in 1 .. n
  <2>1. i \in 1 .. n + k /\ \A j \in 1 .. k : n + j \in 1 .. n + k /\ n + j # i
    BY <1>1
  <2>2. ~\E j \in 1 .. k : At(n + j) = At(i)
    BY <1>7, <2>1
  <2>3. QED  BY <1>6, <1>8, <2>1, <2>2
<1>12. \A i \in 1 .. k : data'[At(n + i)] = b[i]
  <2> HIDE DEF At, n
  <2> TAKE i \in 1 .. k
  <2>1. n + i \in 1 .. n + k /\ \A j \in 1 .. k : n + j \in 1 .. n + k
                             /\ (n + j = n + i => j = i)
    BY <1>1
  <2>2. \A j \in 1 .. k : At(n + j) = At(n + i) <=> j = i
    BY <1>7, <2>1
  <2>3. (CHOOSE j \in 1 .. k : At(n + j) = At(n + i)) = i
    BY <2>2
  <2>4. QED  BY <1>6, <1>8, <2>1, <2>2, <2>3
<1>13. Contents' = [i \in 1 .. n + k |-> data'[At(i)]]
  <2>1. ASSUME NEW i \in 1 .. n + k
        PROVE  ((nread + i - 1) % UintRange) % PIPESIZE = At(i)
    <3>1. nread + i - 1 \in Nat /\ nread + i - 1 < 2 * UintRange
      BY <1>1, PipeAssumption DEF TypeOK
    <3>2. QED  BY <3>1, SlotOfWrapped
  <2> HIDE DEF At, n
  <2>2. QED  BY <2>1, <1>9 DEF Contents
<1>14. Contents = [i \in 1 .. n |-> data[At(i)]]
  BY ContentsBySlot
<1>15. Contents \in Seq(Bytes) /\ Len(Contents) = n
  BY ContentsType
<1>16. SubSeq(b, 1, k) \in Seq(Bytes) /\ Len(SubSeq(b, 1, k)) = k
       /\ \A i \in 1 .. k : SubSeq(b, 1, k)[i] = b[i]
  BY <1>1
<1> DEFINE t == SubSeq(b, 1, k)
<1> HIDE DEF At, n, t
<1>17. Contents' = Contents \o t
  <2> DEFINE s == Contents
             c == s \o t
  <2>1. s \in Seq(Bytes) /\ Len(s) = n /\ t \in Seq(Bytes) /\ Len(t) = k
    BY <1>15, <1>16 DEF t
  <2> HIDE DEF s
  <2>2. /\ c \in Seq(Bytes) /\ Len(c) = n + k
        /\ \A i \in 1 .. n + k : c[i] = IF i <= n THEN s[i] ELSE t[i - n]
    BY <2>1, ConcatProperties
  <2> HIDE DEF c
  <2>3. c = [i \in 1 .. n + k |-> c[i]]
    BY <1>1, <2>2
  <2>4. ASSUME NEW i \in 1 .. n + k PROVE data'[At(i)] = c[i]
    <3>1. CASE i <= n
      <4>1. i \in 1 .. n
        BY <1>1, <3>1
      <4>2. QED  BY <1>11, <1>14, <2>2, <3>1, <4>1 DEF s
    <3>2. CASE ~(i <= n)
      <4>1. i - n \in 1 .. k /\ n + (i - n) = i
        BY <1>1, <3>2
      <4>2. t[i - n] = b[i - n]
        BY <1>16, <4>1 DEF t
      <4>3. data'[At(i)] = b[i - n]
        BY <1>12, <4>1
      <4>4. QED  BY <2>2, <3>2, <4>2, <4>3
    <3>3. QED  BY <3>1, <3>2
  <2>5. QED  BY <1>13, <2>3, <2>4 DEF c, s
<1>18. QED  BY <1>4, <1>9, <1>10, <1>17 DEF n, t

\* Reading k bytes takes them from the front.
LEMMA ReadDrops ==
  ASSUME TypeOK, RingInv, NEW k \in 0 .. used,
         nread' = (nread + k) % UintRange, nwrite' = nwrite, data' = data
  PROVE  /\ nread' \in 0 .. UintRange - 1
         /\ used' = used - k
         /\ Contents' = SubSeq(Contents, k + 1, Len(Contents))
<1> DEFINE n == used
<1>1. n \in 0 .. PIPESIZE /\ k \in 0 .. n
  BY Distance DEF RingInv
<1>2. nread + k \in Nat /\ nread + k < 2 * UintRange
  BY <1>1, PipeAssumption DEF TypeOK
<1>3. nread' = IF nread + k < UintRange THEN nread + k
               ELSE (nread + k) - UintRange
  <2>1. (nread + k) % UintRange = IF nread + k < UintRange THEN nread + k
                                  ELSE (nread + k) - UintRange
    BY <1>2, Wrap
  <2>2. QED  BY <2>1
<1>4. nread' \in 0 .. UintRange - 1
  BY <1>2, <1>3, PipeAssumption DEF TypeOK
<1>5. used' = n - k
  <2> DEFINE x == nwrite + UintRange - nread'
  <2>1. x \in Nat /\ x < 2 * UintRange
    BY <1>4, PipeAssumption DEF TypeOK
  <2>2. used' = x % UintRange
    BY DEF used
  <2>3. x % UintRange = IF x < UintRange THEN x ELSE x - UintRange
    BY <2>1, Wrap
  <2>4. used' = IF x < UintRange THEN x ELSE x - UintRange
    BY <2>2, <2>3
  <2>5. QED  BY <1>1, <1>3, <2>4, Distance, PipeAssumption DEF TypeOK
<1>6. ASSUME NEW i \in 1 .. n - k
      PROVE  ((nread' + i - 1) % UintRange) % PIPESIZE
               = Slot(nread + (k + i) - 1)
  <2>1. nread' + i - 1 \in Nat /\ nread' + i - 1 < 2 * UintRange
    BY <1>1, <1>4, PipeAssumption
  <2>2. ((nread' + i - 1) % UintRange) % PIPESIZE = Slot(nread' + i - 1)
    BY <2>1, SlotOfWrapped
  <2>3. CASE nread + k < UintRange
    <3>1. nread' + i - 1 = nread + (k + i) - 1
      BY <1>1, <1>3, <2>3 DEF TypeOK
    <3>2. QED  BY <2>2, <3>1
  <2>4. CASE ~(nread + k < UintRange)
    <3>1. nread' = (nread + k) - UintRange
      BY <1>3, <2>4
    <3>2. nread + (k + i) - 1 = ((nread + k) - UintRange + i - 1) + UintRange
      BY <1>1, PipeAssumption DEF TypeOK
    <3>3. nread + (k + i) - 1 = (nread' + i - 1) + UintRange
      BY <3>1, <3>2
    <3>4. QED  BY <2>1, <2>2, <3>3, SlotShift
  <2>5. QED  BY <2>3, <2>4
<1> DEFINE s == Contents
<1>7. s = [i \in 1 .. n |-> data[Slot(nread + i - 1)]]
  BY ContentsBySlot
<1>8. s \in Seq(Bytes) /\ Len(s) = n
  BY ContentsType
<1>9. Contents' = [i \in 1 .. n - k |-> data[Slot(nread + (k + i) - 1)]]
  <2> HIDE DEF n
  <2>1. QED  BY <1>5, <1>6 DEF Contents
<1> HIDE DEF n, s
<1>10. Contents' = [i \in 1 .. n - k |-> s[k + i]]
  <2>1. \A i \in 1 .. n - k : k + i \in 1 .. n
    BY <1>1
  <2>2. QED  BY <1>7, <1>9, <2>1
<1>11. SubSeq(s, k + 1, n) = [i \in 1 .. n - k |-> s[k + i]]
  <2>1. SubSeq(s, k + 1, n) =
          [i \in 1 .. n - (k + 1) + 1 |-> s[i + (k + 1) - 1]]
    BY <1>1, <1>8
  <2>2. /\ n - (k + 1) + 1 = n - k
        /\ \A i \in 1 .. n - k : i + (k + 1) - 1 = k + i
    BY <1>1
  <2>3. QED  BY <2>1, <2>2
<1>12. QED  BY <1>4, <1>5, <1>8, <1>10, <1>11 DEF n, s

\* A step that leaves the ring alone.
LEMMA RingStays ==
  ASSUME ring' = ring
  PROVE  used' = used /\ Contents' = Contents
BY DEF ring, used, Contents

\* wakeup() makes sleepers of ps return to their loop, and touches no other.
LEMMA WakeupWakes ==
  ASSUME NEW f \in [Procs -> Label], NEW ps
  PROVE  /\ Wakeup(f, ps) \in [Procs -> Label]
         /\ \A q \in Procs :
              \/ q \in ps /\ f[q] = "sleep" /\ Wakeup(f, ps)[q] = "call"
              \/ (q \in ps => f[q] # "sleep") /\ Wakeup(f, ps)[q] = f[q]
BY DEF Wakeup, Label

-----------------------------------------------------------------------------
(***************************************************************************)
(* The actions keep the invariant.                                         *)
(***************************************************************************)

\* The state after pipealloc() satisfies the invariant.
LEMMA PipeInit == Init => PipeInv
<1> SUFFICES ASSUME Init PROVE PipeInv
  OBVIOUS
<1> USE PipeAssumption DEF Init
<1>1. TypeOK
  <2>1. buf \in [Writers -> Seq(Bytes)]
    OBVIOUS
  <2>2. QED  BY <2>1 DEF TypeOK, Label, Procs
<1>2. used = 0
  BY <1>1, Distance
<1>3. QED  BY <1>1, <1>2 DEF PipeInv, RingInv, EndInv, LockInv, SleepInv, Procs

\* A process enters write() with bytes.
LEMMA WriteKeeps ==
  ASSUME PipeInv, NEW p \in Writers, NEW b \in Buffers, Write(p, b)
  PROVE  PipeInv'
<1> USE PipeAssumption DEF PipeInv, TypeOK, Write, Goto, ends, Procs
<1>1. b \in Seq(Bytes)
  BY DEF Buffers
<1>2. used' = used
  BY RingStays
<1>3. TypeOK'  BY <1>1 DEF ring, Label
<1>4. RingInv' /\ LockInv'  BY <1>2 DEF RingInv, LockInv
<1>5. EndInv'  BY DEF EndInv
<1>6. SleepInv'  BY <1>2 DEF SleepInv
<1>7. QED  BY <1>3, <1>4, <1>5, <1>6

\* A process enters read().
LEMMA ReadKeeps ==
  ASSUME PipeInv, NEW p \in Readers, NEW n \in 0 .. MaxCount, Read(p, n)
  PROVE  PipeInv'
<1> USE PipeAssumption DEF PipeInv, TypeOK, Read, Goto, ends, Procs
<1>1. used' = used
  BY RingStays
<1>2. TypeOK'  BY DEF ring, Label
<1>3. RingInv' /\ LockInv'  BY <1>1 DEF RingInv, LockInv
<1>4. EndInv'  BY DEF EndInv
<1>5. SleepInv'  BY <1>1 DEF SleepInv
<1>6. QED  BY <1>2, <1>3, <1>4, <1>5

\* What the steps of pipewrite() have in common: k bytes are copied and rest
\* is left.
LEMMA WriterCopies ==
  ASSUME PipeInv, NEW p \in Writers, NEW k \in 0 .. Len(buf[p]),
         used + k <= PIPESIZE, CopyIn(buf[p], k), nread' = nread,
         NEW rest \in Seq(Bytes), buf' = [buf EXCEPT ![p] = rest]
  PROVE  /\ data' \in [0 .. PIPESIZE - 1 -> Bytes]
         /\ nread' \in 0 .. UintRange - 1
         /\ nwrite' \in 0 .. UintRange - 1
         /\ buf' \in [Writers -> Seq(Bytes)]
         /\ used \in 0 .. PIPESIZE /\ used' = used + k /\ used' <= PIPESIZE
         /\ Contents' = Contents \o SubSeq(buf[p], 1, k)
         /\ Len(Contents') = used'
<1>1. buf[p] \in Seq(Bytes) /\ TypeOK /\ RingInv
  BY DEF PipeInv, TypeOK
<1>2. /\ data' \in [0 .. PIPESIZE - 1 -> Bytes]
      /\ nwrite' \in 0 .. UintRange - 1
      /\ used' = used + k
      /\ Contents' = Contents \o SubSeq(buf[p], 1, k)
  BY <1>1, CopyAppends
<1>3. used \in 0 .. PIPESIZE
  BY <1>1, Distance DEF RingInv
<1>4. Contents \in Seq(Bytes) /\ Len(Contents) = used
  BY <1>1, ContentsType
<1>5. SubSeq(buf[p], 1, k) \in Seq(Bytes) /\ Len(SubSeq(buf[p], 1, k)) = k
  BY <1>1
<1>6. Len(Contents') = used'
  BY <1>2, <1>4, <1>5, ConcatProperties
<1>7. buf' \in [Writers -> Seq(Bytes)] /\ nread' \in 0 .. UintRange - 1
  BY <1>1 DEF TypeOK
<1>8. QED  BY <1>2, <1>3, <1>6, <1>7

\* The room of the pipe is a number of bytes that a longer write() fills.
LEMMA Room ==
  ASSUME PipeInv, NEW p \in Writers
  PROVE  /\ Len(buf[p]) \in Nat
         /\ PIPESIZE - used \in Nat
         /\ used + (PIPESIZE - used) = PIPESIZE
         /\ Len(buf[p]) <= PIPESIZE - used => used + Len(buf[p]) <= PIPESIZE
         /\ Len(buf[p]) > PIPESIZE - used =>
              /\ PIPESIZE - used \in 0 .. Len(buf[p])
              /\ SubSeq(buf[p], PIPESIZE - used + 1, Len(buf[p]))
                   \in Seq(Bytes)
<1>1. buf[p] \in Seq(Bytes) /\ TypeOK /\ RingInv
  BY DEF PipeInv, TypeOK
<1>2. used \in Nat /\ used <= PIPESIZE
  BY <1>1, Distance DEF RingInv
<1>3. QED  BY <1>1, <1>2, PipeAssumption

\* Nobody is about to sleep while the lock is free.
LEMMA NobodyDozes ==
  ASSUME PipeInv, lock = None
  PROVE  \A q \in Procs : pc[q] # "doze"
BY PipeAssumption DEF PipeInv, LockInv, Procs

\* pipewrite() without a wait: the readers are woken.  Bytes are copied only
\* if the pipe was not full, hence while no writer slept.
LEMMA WriteAllKeeps ==
  ASSUME PipeInv, NEW p \in Writers, WriteAll(p)
  PROVE  PipeInv'
<1> DEFINE k == Len(buf[p])
           g == Goto(p, "out")
<1>1. /\ pc[p] = "call" /\ lock = None /\ k <= PIPESIZE - used
      /\ CopyIn(buf[p], k)
      /\ buf' = [buf EXCEPT ![p] = <<>>]
      /\ pc' = Wakeup(g, Readers)
      /\ UNCHANGED <<nread, ends, lock, count, killed, got>>
  BY DEF WriteAll
<1>2. k \in Nat /\ k \in 0 .. Len(buf[p]) /\ used + k <= PIPESIZE
  BY <1>1, Room
<1>3. <<>> \in Seq(Bytes)
  OBVIOUS
<1>4. /\ data' \in [0 .. PIPESIZE - 1 -> Bytes]
      /\ nread' \in 0 .. UintRange - 1
      /\ nwrite' \in 0 .. UintRange - 1
      /\ buf' \in [Writers -> Seq(Bytes)]
      /\ used \in 0 .. PIPESIZE /\ used' = used + k /\ used' <= PIPESIZE
  BY <1>1, <1>2, <1>3, WriterCopies
<1>5. \A q \in Procs : pc[q] # "doze"
  BY <1>1, NobodyDozes
<1>6. p \in Procs /\ p \notin Readers /\ g \in [Procs -> Label]
      /\ \A q \in Procs : g[q] = IF q = p THEN "out" ELSE pc[q]
  BY PipeAssumption DEF Goto, PipeInv, TypeOK, Label, Procs
<1> HIDE DEF g, k
<1>7. /\ pc' \in [Procs -> Label] /\ pc'[p] = "out"
      /\ \A q \in Procs \ {p} : \/ pc'[q] = pc[q]
                                \/ pc[q] = "sleep" /\ pc'[q] = "call"
      /\ \A r \in Readers : pc'[r] # "sleep"
  <2>1. /\ pc' \in [Procs -> Label]
        /\ \A q \in Procs :
             \/ q \in Readers /\ g[q] = "sleep" /\ pc'[q] = "call"
             \/ (q \in Readers => g[q] # "sleep") /\ pc'[q] = g[q]
    BY <1>1, <1>6, WakeupWakes
  <2>2. QED  BY <1>6, <2>1 DEF Procs
<1> USE DEF PipeInv
<1>8. TypeOK'  BY <1>1, <1>4, <1>7 DEF TypeOK, ends
<1>9. RingInv' /\ LockInv'
  BY <1>4, <1>5, <1>7 DEF RingInv, LockInv
<1>10. EndInv'  BY <1>1, <1>7 DEF EndInv, TypeOK, ends, Procs
<1>11. SleepInv'
  <2>1. ASSUME NEW w \in Writers, pc'[w] \in {"doze", "sleep"}
        PROVE  used' = PIPESIZE /\ readopen'
    <3>1. pc[w] = "sleep"
      BY <1>5, <1>7, <2>1 DEF Procs
    <3>2. used = PIPESIZE /\ readopen
      BY <3>1 DEF SleepInv
    <3>3. QED  BY <1>1, <1>2, <1>4, <3>2, PipeAssumption DEF ends
  <2>2. \A r \in Readers : pc'[r] \notin {"doze", "sleep"}
    BY <1>5, <1>7 DEF Procs
  <2>3. QED  BY <2>1, <2>2 DEF SleepInv
<1>12. QED  BY <1>8, <1>9, <1>10, <1>11

\* The write that fails does not wake the readers: there are none left, or a
\* process was killed.
LEMMA WriteFailsKeeps ==
  ASSUME PipeInv, NEW p \in Writers, WriteFails(p)
  PROVE  PipeInv'
<1> DEFINE k == PIPESIZE - used
<1>1. /\ pc[p] = "call" /\ lock = None /\ Len(buf[p]) > k
      /\ ~readopen \/ killed[p]
      /\ CopyIn(buf[p], k)
      /\ buf' = [buf EXCEPT ![p] = <<>>]
      /\ pc' = [pc EXCEPT ![p] = "out"]
      /\ UNCHANGED <<nread, ends, lock, count, killed, got>>
  BY DEF WriteFails, Goto
<1>2. k \in Nat /\ k \in 0 .. Len(buf[p]) /\ used + k = PIPESIZE
  BY <1>1, Room
<1>3. <<>> \in Seq(Bytes) /\ used + k <= PIPESIZE
  BY <1>2, PipeAssumption
<1> HIDE DEF k
<1>4. /\ data' \in [0 .. PIPESIZE - 1 -> Bytes]
      /\ nread' \in 0 .. UintRange - 1
      /\ nwrite' \in 0 .. UintRange - 1
      /\ buf' \in [Writers -> Seq(Bytes)]
      /\ used' = used + k /\ used' <= PIPESIZE
  BY <1>1, <1>2, <1>3, WriterCopies
<1>5. \A q \in Procs : pc[q] # "doze"
  BY <1>1, NobodyDozes
<1> USE PipeAssumption DEF PipeInv, Procs
<1>6. /\ pc' \in [Procs -> Label] /\ pc'[p] = "out"
      /\ \A q \in Procs \ {p} : pc'[q] = pc[q]
  BY <1>1 DEF TypeOK, Label
<1>7. TypeOK'  BY <1>1, <1>4, <1>6 DEF TypeOK, ends
<1>8. RingInv' /\ LockInv'  BY <1>4, <1>5, <1>6 DEF RingInv, LockInv
<1>9. EndInv'  BY <1>1, <1>6 DEF EndInv, TypeOK, ends
<1>10. SleepInv'
  <2>1. \A w \in Writers : pc'[w] \in {"doze", "sleep"} =>
          used' = PIPESIZE /\ readopen'
    BY <1>1, <1>2, <1>4, <1>6 DEF SleepInv, ends
  <2>2. \A r \in Readers : pc'[r] # "doze"
    BY <1>5, <1>6
  <2>3. (\A q \in Procs : ~killed'[q]) => \A r \in Readers : pc'[r] # "sleep"
    BY <1>1, <1>6 DEF EndInv
  <2>4. QED  BY <2>1, <2>2, <2>3 DEF SleepInv
<1>11. QED  BY <1>7, <1>8, <1>9, <1>10

\* The writer that fills the pipe wakes the readers and keeps the lock.
LEMMA WriteWaitsKeeps ==
  ASSUME PipeInv, NEW p \in Writers, WriteWaits(p)
  PROVE  PipeInv'
<1> DEFINE k == PIPESIZE - used
           g == Goto(p, "doze")
           rest == SubSeq(buf[p], k + 1, Len(buf[p]))
<1>1. /\ pc[p] = "call" /\ lock = None /\ Len(buf[p]) > k
      /\ readopen /\ ~killed[p]
      /\ CopyIn(buf[p], k)
      /\ buf' = [buf EXCEPT ![p] = rest]
      /\ pc' = Wakeup(g, Readers)
      /\ lock' = p
      /\ UNCHANGED <<nread, ends, count, killed, got>>
  BY DEF WriteWaits, PipeInv, TypeOK
<1>2. /\ k \in Nat /\ k \in 0 .. Len(buf[p]) /\ used + k = PIPESIZE
      /\ rest \in Seq(Bytes)
  BY <1>1, Room
<1>3. used + k <= PIPESIZE
  BY <1>2, PipeAssumption
<1> HIDE DEF k, rest
<1>4. /\ data' \in [0 .. PIPESIZE - 1 -> Bytes]
      /\ nread' \in 0 .. UintRange - 1
      /\ nwrite' \in 0 .. UintRange - 1
      /\ buf' \in [Writers -> Seq(Bytes)]
      /\ used' = PIPESIZE
  BY <1>1, <1>2, <1>3, WriterCopies
<1>5. \A q \in Procs : pc[q] # "doze"
  BY <1>1, NobodyDozes
<1>6. p \in Procs /\ p \notin Readers /\ g \in [Procs -> Label]
      /\ \A q \in Procs : g[q] = IF q = p THEN "doze" ELSE pc[q]
  BY PipeAssumption DEF Goto, PipeInv, TypeOK, Label, Procs
<1> HIDE DEF g
<1>7. /\ pc' \in [Procs -> Label] /\ pc'[p] = "doze"
      /\ \A q \in Procs \ {p} : \/ pc'[q] = pc[q]
                                \/ pc[q] = "sleep" /\ pc'[q] = "call"
      /\ \A r \in Readers : pc'[r] # "sleep"
  <2>1. /\ pc' \in [Procs -> Label]
        /\ \A q \in Procs :
             \/ q \in Readers /\ g[q] = "sleep" /\ pc'[q] = "call"
             \/ (q \in Readers => g[q] # "sleep") /\ pc'[q] = g[q]
    BY <1>1, <1>6, WakeupWakes
  <2>2. QED  BY <1>6, <2>1 DEF Procs
<1> USE DEF PipeInv
<1>8. TypeOK'  BY <1>1, <1>4, <1>6, <1>7 DEF TypeOK, ends
<1>9. RingInv' /\ LockInv'
  BY <1>1, <1>4, <1>5, <1>7, PipeAssumption DEF RingInv, LockInv
<1>10. EndInv'  BY <1>1, <1>7 DEF EndInv, TypeOK, ends, Procs
<1>11. SleepInv'
  <2>1. \A r \in Readers : pc'[r] \notin {"doze", "sleep"}
    BY <1>5, <1>6, <1>7 DEF Procs
  <2>2. QED  BY <1>1, <1>4, <2>1 DEF SleepInv, ends
<1>12. QED  BY <1>8, <1>9, <1>10, <1>11

\* sleep() gives up the lock only when the process is asleep.
LEMMA SleepKeeps ==
  ASSUME PipeInv, NEW p \in Procs, Sleep(p)
  PROVE  PipeInv'
<1> USE PipeAssumption DEF PipeInv, TypeOK, Sleep, Goto, ends
<1>1. used' = used
  BY RingStays
<1>2. TypeOK'  BY DEF ring, Label
<1>3. RingInv' /\ LockInv'  BY <1>1 DEF RingInv, LockInv, Label
<1>4. EndInv'  BY DEF EndInv, Procs
<1>5. SleepInv'  BY <1>1 DEF SleepInv, Procs
<1>6. QED  BY <1>2, <1>3, <1>4, <1>5

\* piperead() takes bytes and wakes the writers.
LEMMA ReadSomeKeeps ==
  ASSUME PipeInv, NEW p \in Readers, ReadSome(p)
  PROVE  PipeInv'
<1> DEFINE k == Least(count[p], used)
           g == Goto(p, "out")
<1>1. /\ pc[p] = "call" /\ lock = None
      /\ nread' = (nread + k) % UintRange
      /\ pc' = Wakeup(g, Writers)
      /\ count' = [count EXCEPT ![p] = 0]
      /\ UNCHANGED <<data, nwrite, ends, lock, buf, killed>>
  BY DEF ReadSome
<1>2. used \in 0 .. PIPESIZE /\ k \in 0 .. used /\ TypeOK /\ RingInv
  BY Distance DEF PipeInv, RingInv, TypeOK, Least
<1>3. nread' \in 0 .. UintRange - 1 /\ used' = used - k
  BY <1>1, <1>2, ReadDrops
<1>4. \A q \in Procs : pc[q] # "doze"
  BY <1>1, NobodyDozes
<1>5. p \in Procs /\ p \notin Writers /\ g \in [Procs -> Label]
      /\ \A q \in Procs : g[q] = IF q = p THEN "out" ELSE pc[q]
  BY PipeAssumption DEF Goto, PipeInv, TypeOK, Label, Procs
<1> HIDE DEF g, k
<1>6. /\ pc' \in [Procs -> Label] /\ pc'[p] = "out"
      /\ \A q \in Procs \ {p} : \/ pc'[q] = pc[q]
                                \/ pc[q] = "sleep" /\ pc'[q] = "call"
      /\ \A w \in Writers : pc'[w] # "sleep"
  <2>1. /\ pc' \in [Procs -> Label]
        /\ \A q \in Procs :
             \/ q \in Writers /\ g[q] = "sleep" /\ pc'[q] = "call"
             \/ (q \in Writers => g[q] # "sleep") /\ pc'[q] = g[q]
    BY <1>1, <1>5, WakeupWakes
  <2>2. QED  BY <1>5, <2>1 DEF Procs
<1> USE DEF PipeInv
<1>7. TypeOK'  BY <1>1, <1>3, <1>6 DEF TypeOK, ends
<1>8. RingInv' /\ LockInv'
  BY <1>1, <1>2, <1>3, <1>4, <1>6, PipeAssumption DEF RingInv, LockInv
<1>9. EndInv'  BY <1>1, <1>5, <1>6 DEF EndInv, TypeOK, ends, Procs
<1>10. SleepInv'
  <2>1. \A q \in Procs : pc'[q] # "doze"
    BY <1>4, <1>6
  <2>2. used = 0 => used' = 0
    <3>1. used = 0 => k = 0
      BY <1>2
    <3>2. QED  BY <1>3, <3>1
  <2>3. \A r \in Readers : pc'[r] = "sleep" => pc[r] = "sleep"
    BY <1>6 DEF Procs
  <2>4. QED  BY <1>1, <1>6, <2>1, <2>2, <2>3 DEF SleepInv, ends, Procs
<1>11. QED  BY <1>7, <1>8, <1>9, <1>10

\* A killed reader leaves without a byte.
LEMMA ReadFailsKeeps ==
  ASSUME PipeInv, NEW p \in Readers, ReadFails(p)
  PROVE  PipeInv'
<1> USE PipeAssumption DEF PipeInv, TypeOK, ReadFails, Goto, ends, Procs
<1>1. used' = used
  BY RingStays
<1>2. TypeOK'  BY DEF ring, Label
<1>3. RingInv' /\ LockInv'  BY <1>1 DEF RingInv, LockInv
<1>4. EndInv'  BY DEF EndInv
<1>5. SleepInv'  BY <1>1 DEF SleepInv
<1>6. QED  BY <1>2, <1>3, <1>4, <1>5

\* The reader of an empty pipe keeps the lock until it sleeps.
LEMMA ReadWaitsKeeps ==
  ASSUME PipeInv, NEW p \in Readers, ReadWaits(p)
  PROVE  PipeInv'
<1>1. \A q \in Procs : pc[q] # "doze"
  BY NobodyDozes DEF ReadWaits
<1>2. used = 0
  BY EmptyAndFull DEF ReadWaits, PipeInv
<1> USE PipeAssumption DEF PipeInv, TypeOK, ReadWaits, Goto, ends, Procs
<1>3. used' = used
  BY RingStays
<1>4. TypeOK'  BY DEF ring, Label
<1>5. RingInv' /\ LockInv'  BY <1>1, <1>3 DEF RingInv, LockInv
<1>6. EndInv'  BY DEF EndInv
<1>7. SleepInv'  BY <1>1, <1>2, <1>3 DEF SleepInv
<1>8. QED  BY <1>4, <1>5, <1>6, <1>7

\* The last close of an end wakes those who sleep at the other.
LEMMA CloseKeeps ==
  ASSUME PipeInv, NEW p \in Procs, Close(p)
  PROVE  PipeInv'
<1> DEFINE rest == open \ {p}
<1>1. /\ p \in open /\ pc[p] = "out" /\ lock = None /\ open' = rest
      /\ writeopen' = (writeopen /\ rest \cap Writers # {})
      /\ readopen' = (readopen /\ rest \cap Readers # {})
      /\ pc' = IF writeopen # writeopen' THEN Wakeup(pc, Readers)
               ELSE IF readopen # readopen' THEN Wakeup(pc, Writers)
               ELSE pc
      /\ UNCHANGED <<ring, lock, buf, count, killed, got>>
  BY DEF Close
<1>2. used' = used
  BY <1>1, RingStays
<1>3. \A q \in Procs : pc[q] # "doze"
  BY <1>1, NobodyDozes
<1>4. pc \in [Procs -> Label]
  BY DEF PipeInv, TypeOK
<1>5. /\ pc' \in [Procs -> Label]
      /\ \A q \in Procs : \/ pc'[q] = pc[q]
                          \/ pc[q] = "sleep" /\ pc'[q] = "call"
  BY <1>1, <1>4, WakeupWakes
<1>6. writeopen # writeopen' => \A r \in Readers : pc'[r] # "sleep"
  BY <1>1, <1>4, WakeupWakes DEF Procs
<1>7. writeopen = writeopen' /\ readopen # readopen' =>
        \A w \in Writers : pc'[w] # "sleep"
  BY <1>1, <1>4, WakeupWakes DEF Procs
<1> USE PipeAssumption DEF PipeInv
<1>8. writeopen # writeopen' => \A w \in Writers : pc[w] # "sleep"
  <2>1. SUFFICES ASSUME writeopen # writeopen', NEW w \in Writers,
                        pc[w] = "sleep"
                 PROVE  FALSE
    OBVIOUS
  <2>2. w \in open /\ w # p
    BY <1>1, <2>1 DEF EndInv, Procs
  <2>3. QED  BY <1>1, <2>1, <2>2 DEF TypeOK
<1> HIDE DEF rest
<1>9. TypeOK'
  BY <1>1, <1>5 DEF TypeOK, ring, rest
<1>10. RingInv' /\ LockInv'
  BY <1>2, <1>3, <1>5 DEF RingInv, LockInv
<1>11. EndInv'
  BY <1>1, <1>5 DEF EndInv, TypeOK, Procs, rest
<1>12. SleepInv'
  <2>1. ASSUME NEW w \in Writers, pc'[w] \in {"doze", "sleep"}
        PROVE  used' = PIPESIZE /\ readopen'
    <3>1. pc[w] = "sleep"
      BY <1>3, <1>5, <2>1 DEF Procs
    <3>2. pc'[w] = "sleep"
      BY <1>3, <1>5, <2>1, <3>1 DEF Procs
    <3>3. readopen = readopen'
      BY <1>7, <1>8, <3>1, <3>2
    <3>4. QED  BY <1>2, <3>1, <3>3 DEF SleepInv
  <2>2. ASSUME NEW r \in Readers, pc'[r] = "sleep"
        PROVE  pc[r] = "sleep" /\ writeopen' = writeopen
    BY <1>3, <1>5, <1>6, <2>2 DEF Procs
  <2>3. \A r \in Readers : pc'[r] # "doze"
    BY <1>3, <1>5 DEF Procs
  <2>4. QED  BY <1>1, <1>2, <2>1, <2>2, <2>3 DEF SleepInv
<1>13. QED  BY <1>9, <1>10, <1>11, <1>12

\* kill() wakes its process only when it already sleeps.
LEMMA KillKeeps ==
  ASSUME PipeInv, NEW p \in Procs, Kill(p)
  PROVE  PipeInv'
<1>1. /\ killed' = [killed EXCEPT ![p] = TRUE]
      /\ pc' = Wakeup(pc, {p})
      /\ UNCHANGED <<ring, ends, lock, buf, count, got>>
  BY DEF Kill
<1>2. pc \in [Procs -> Label] /\ used' = used
  BY <1>1, RingStays DEF PipeInv, TypeOK
<1>3. /\ pc' \in [Procs -> Label]
      /\ \A q \in Procs : \/ pc'[q] = pc[q]
                          \/ pc[q] = "sleep" /\ pc'[q] = "call"
  BY <1>1, <1>2, WakeupWakes
<1> USE DEF PipeInv, ends
<1>4. killed' \in [Procs -> BOOLEAN] /\ ~\A q \in Procs : ~killed'[q]
  BY <1>1 DEF TypeOK
<1>5. TypeOK'  BY <1>1, <1>3, <1>4 DEF TypeOK, ring
<1>6. RingInv' /\ LockInv'
  BY <1>1, <1>2, <1>3 DEF RingInv, LockInv
<1>7. EndInv'  BY <1>1, <1>3 DEF EndInv, Procs
<1>8. SleepInv'
  BY <1>1, <1>2, <1>3, <1>4 DEF SleepInv, Procs
<1>9. QED  BY <1>5, <1>6, <1>7, <1>8

\* A step that changes nothing.
LEMMA StutterKeeps ==
  ASSUME PipeInv, UNCHANGED vars
  PROVE  PipeInv'
<1>1. used' = used
  BY RingStays DEF vars
<1> USE DEF PipeInv, vars, ends
<1>2. TypeOK'  BY DEF TypeOK, ring
<1>3. RingInv' /\ EndInv' /\ LockInv'
  BY <1>1 DEF RingInv, EndInv, LockInv
<1>4. SleepInv'  BY <1>1 DEF SleepInv
<1>5. QED  BY <1>2, <1>3, <1>4

\* Every step keeps the invariant.
LEMMA NextKeeps == PipeInv /\ [Next]_vars => PipeInv'
<1> SUFFICES ASSUME PipeInv, [Next]_vars PROVE PipeInv'
  OBVIOUS
<1>1. ASSUME NEW p \in Writers, WriterStep(p) PROVE PipeInv'
  BY <1>1, WriteKeeps, WriteAllKeeps, WriteFailsKeeps, WriteWaitsKeeps
  DEF WriterStep
<1>2. ASSUME NEW p \in Readers, ReaderStep(p) PROVE PipeInv'
  BY <1>2, ReadKeeps, ReadSomeKeeps, ReadFailsKeeps, ReadWaitsKeeps
  DEF ReaderStep
<1>3. ASSUME NEW p \in Procs, Sleep(p) \/ Close(p) \/ Kill(p) PROVE PipeInv'
  BY <1>3, SleepKeeps, CloseKeeps, KillKeeps
<1>4. CASE UNCHANGED vars
  BY <1>4, StutterKeeps
<1>5. QED  BY <1>1, <1>2, <1>3, <1>4 DEF Next, Freed

-----------------------------------------------------------------------------
(***************************************************************************)
(* The ring implements the byte stream.                                    *)
(***************************************************************************)

\* Entering write() is a Start: what the last write() had is gone.
LEMMA WriteRefines ==
  ASSUME PipeInv, NEW p \in Writers, NEW b \in Buffers, Write(p, b)
  PROVE  Stream!Start(p)
<1>1. b \in Seq(Bytes)
  BY DEF Buffers
<1>2. Contents' = Contents
  BY RingStays DEF Write
<1>3. writeopen /\ buf[p] = <<>> /\ buf \in [Writers -> Seq(Bytes)]
  BY DEF PipeInv, EndInv, TypeOK, Write
<1>4. QED  BY <1>1, <1>2, <1>3 DEF Stream!Start, Write, ends

\* Entering read() is an Ask, and leaving it with -1 another.
LEMMA ReadRefines ==
  ASSUME PipeInv, NEW p \in Readers,
         ReadFails(p) \/ \E n \in 0 .. MaxCount : Read(p, n)
  PROVE  Stream!Ask(p)
<1>1. Contents' = Contents
  BY RingStays DEF Read, ReadFails
<1>2. PICK n \in Nat : count' = [count EXCEPT ![p] = n]
  BY PipeAssumption DEF Read, ReadFails
<1>3. count \in [Readers -> Nat]
  BY DEF PipeInv, TypeOK
<1>4. writeopen' = writeopen /\ buf' = buf /\ got' = got
  BY DEF Read, ReadFails, ends
<1>5. QED  BY <1>1, <1>2, <1>3, <1>4 DEF Stream!Ask

\* Every step of pipewrite() puts the bytes it copies at the end.
LEMMA CopyRefines ==
  ASSUME PipeInv, NEW p \in Writers, NEW k \in 0 .. Len(buf[p]),
         pc[p] = "call", used + k <= PIPESIZE, CopyIn(buf[p], k),
         NEW rest \in {<<>>, SubSeq(buf[p], k + 1, Len(buf[p]))},
         buf' = [buf EXCEPT ![p] = rest],
         nread' = nread, UNCHANGED <<writeopen, count, got>>
  PROVE  Stream!Put(p, k)
<1>1. writeopen /\ buf \in [Writers -> Seq(Bytes)]
  BY DEF PipeInv, EndInv, TypeOK, Procs
<1>2. rest \in Seq(Bytes)
  <2>1. <<>> \in Seq(Bytes)
    OBVIOUS
  <2>2. buf[p] \in Seq(Bytes) /\ k + 1 \in Nat
    BY <1>1
  <2>3. SubSeq(buf[p], k + 1, Len(buf[p])) \in Seq(Bytes)
    BY <2>2
  <2>4. QED  BY <2>1, <2>3
<1>3. /\ Contents' = Contents \o SubSeq(buf[p], 1, k)
      /\ Len(Contents') <= PIPESIZE
  BY <1>2, WriterCopies
<1>4. buf'[p] = rest /\ \A v \in Writers \ {p} : buf'[v] = buf[v]
  BY <1>1
<1>5. QED  BY <1>1, <1>3, <1>4 DEF Stream!Put

\* The three outcomes of pipewrite() are such a Put.
LEMMA WriterRefines ==
  ASSUME PipeInv, NEW p \in Writers,
         WriteAll(p) \/ WriteFails(p) \/ WriteWaits(p)
  PROVE  \E k \in 0 .. Len(buf[p]) : Stream!Put(p, k)
<1> DEFINE room == PIPESIZE - used
<1>1. CASE WriteAll(p)
  <2>1. Len(buf[p]) \in 0 .. Len(buf[p]) /\ used + Len(buf[p]) <= PIPESIZE
    BY <1>1, Room DEF WriteAll
  <2>2. Stream!Put(p, Len(buf[p]))
    BY <1>1, <2>1, CopyRefines DEF WriteAll, ends
  <2>3. QED  BY <2>1, <2>2
<1>2. CASE WriteFails(p)
  <2>1. room \in 0 .. Len(buf[p]) /\ used + room <= PIPESIZE
    BY <1>2, Room, PipeAssumption DEF WriteFails
  <2>2. Stream!Put(p, room)
    BY <1>2, <2>1, CopyRefines DEF WriteFails, ends
  <2>3. QED  BY <2>1, <2>2
<1>3. CASE WriteWaits(p)
  <2>1. room \in 0 .. Len(buf[p]) /\ used + room <= PIPESIZE
    BY <1>3, Room, PipeAssumption DEF WriteWaits
  <2>2. buf' = [buf EXCEPT ![p] = SubSeq(buf[p], room + 1, Len(buf[p]))]
    BY <1>3 DEF WriteWaits, PipeInv, TypeOK
  <2>3. Stream!Put(p, room)
    BY <1>3, <2>1, <2>2, CopyRefines DEF WriteWaits, ends
  <2>4. QED  BY <2>1, <2>3
<1>4. QED  BY <1>1, <1>2, <1>3

\* piperead() returns what it takes from the front, and nothing only after the
\* last write end was closed.
LEMMA ReadSomeRefines ==
  ASSUME PipeInv, NEW p \in Readers, ReadSome(p)
  PROVE  \E k \in 0 .. Len(Contents) : Stream!Get(p, k)
<1> DEFINE k == Least(count[p], used)
<1>1. TypeOK /\ RingInv /\ used \in Nat /\ count[p] \in Nat
  BY Distance DEF PipeInv, TypeOK
<1>2. k \in 0 .. used /\ k <= count[p] /\ (k < count[p] => k = used)
  BY <1>1 DEF Least
<1>3. Contents \in Seq(Bytes) /\ Len(Contents) = used
  BY <1>1, ContentsType
<1>4. Contents = <<>> => ~writeopen
  <2>1. Contents = <<>> => used = 0
    BY <1>3
  <2>2. QED  BY <1>1, <2>1, EmptyAndFull DEF ReadSome
<1>5. /\ got' = SubSeq(Contents, 1, k)
      /\ nread' = (nread + k) % UintRange
      /\ count' = [count EXCEPT ![p] = 0]
      /\ UNCHANGED <<data, nwrite, writeopen, buf>>
  BY DEF ReadSome, ends
<1> HIDE DEF k
<1>6. Contents' = SubSeq(Contents, k + 1, Len(Contents))
  BY <1>1, <1>2, <1>5, ReadDrops
<1>7. Stream!Get(p, k)
  BY <1>2, <1>3, <1>4, <1>5, <1>6 DEF Stream!Get
<1>8. QED  BY <1>2, <1>3, <1>7

\* The other steps change nothing of the stream, or close it.
LEMMA OthersRefine ==
  ASSUME PipeInv, NEW p \in Procs,
         \/ Sleep(p) \/ Close(p) \/ Kill(p)
         \/ (p \in Readers /\ ReadWaits(p))
  PROVE  Stream!Close \/ UNCHANGED Stream!vars
<1>1. Contents' = Contents /\ UNCHANGED <<buf, count, got>>
  BY RingStays DEF Sleep, Close, Kill, ReadWaits
<1>2. writeopen' = writeopen \/ writeopen' = FALSE
  BY DEF Sleep, Close, Kill, ReadWaits, ends, PipeInv, TypeOK
<1>3. QED  BY <1>1, <1>2 DEF Stream!Close, Stream!vars

-----------------------------------------------------------------------------
(***************************************************************************)
(* The theorems.                                                           *)
(***************************************************************************)

\* The inductive invariant holds in every reachable state.
THEOREM Invariance == Spec => []PipeInv
<1>1. QED  BY PipeInit, NextKeeps, PTL DEF Spec

\* A writer sleeps in pipewrite() only on a full pipe that may be read, and a
\* reader in piperead(), while nobody was killed, only on an empty one that
\* may be written.
THEOREM NobodySleepsInVain == Spec => []SleepersMustWait
<1>1. PipeInv => SleepersMustWait
  <2> SUFFICES ASSUME PipeInv PROVE SleepersMustWait
    OBVIOUS
  <2>1. (empty <=> used = 0) /\ (full <=> used = PIPESIZE)
    BY EmptyAndFull DEF PipeInv
  <2>2. QED  BY <2>1 DEF PipeInv, SleepInv, SleepersMustWait
<1>2. QED  BY <1>1, Invariance, PTL

\* pipewrite() and piperead() move bytes through the ring in order, without
\* loss, repetition or overwriting, whenever the indices and the counters
\* wrap, for every PIPESIZE that divides the range of the counters.
THEOREM PipeImplementsByteStream == Spec => ImplementsByteStream
<1>1. Init => Stream!Init
  <2> SUFFICES ASSUME Init PROVE Stream!Init
    OBVIOUS
  <2>1. PipeInv
    BY PipeInit
  <2>2. used = 0
    BY <2>1, Distance DEF PipeInv, Init
  <2>3. Contents \in Seq(Bytes) /\ Len(Contents) = 0
    BY <2>1, <2>2, ContentsType DEF PipeInv
  <2>4. Contents = <<>>
    BY <2>3
  <2>5. QED  BY <2>4 DEF Init, Stream!Init
<1>2. PipeInv /\ [Next]_vars => [Stream!Next]_(Stream!vars)
  <2> SUFFICES ASSUME PipeInv, [Next]_vars
               PROVE  [Stream!Next]_(Stream!vars)
    OBVIOUS
  <2>1. ASSUME NEW p \in Writers, WriterStep(p) PROVE Stream!Next
    BY <2>1, WriteRefines, WriterRefines DEF WriterStep, Stream!Next
  <2>2. ASSUME NEW p \in Readers, ReaderStep(p)
        PROVE  [Stream!Next]_(Stream!vars)
    <3>1. CASE ReadFails(p) \/ \E n \in 0 .. MaxCount : Read(p, n)
      BY <3>1, ReadRefines DEF Stream!Next
    <3>2. CASE ReadSome(p)
      BY <3>2, ReadSomeRefines DEF Stream!Next
    <3>3. CASE ReadWaits(p)
      BY <3>3, OthersRefine DEF Stream!Next, Procs
    <3>4. QED  BY <2>2, <3>1, <3>2, <3>3 DEF ReaderStep
  <2>3. ASSUME NEW p \in Procs, Sleep(p) \/ Close(p) \/ Kill(p)
        PROVE  [Stream!Next]_(Stream!vars)
    BY <2>3, OthersRefine DEF Stream!Next
  <2>4. CASE UNCHANGED vars
    <3>1. Contents' = Contents
      BY <2>4, RingStays DEF vars
    <3>2. QED  BY <2>4, <3>1 DEF vars, ends, Stream!vars
  <2>5. QED  BY <2>1, <2>2, <2>3, <2>4 DEF Next, Freed
<1>3. QED
  BY <1>1, <1>2, Invariance, PTL DEF Spec, ImplementsByteStream, Stream!Spec
=============================================================================
