------------------------------ MODULE BioProofs ------------------------------
(***************************************************************************)
(* What Bio promises, proved for any processes, blocks, buffers and        *)
(* contents.  A buffer carries three kinds of facts that different locks   *)
(* protect: its reference count and block (bcache.lock), its contents and  *)
(* flags (the sleep lock), its place in the driver's queue (idelock).  The *)
(* inductive invariant has a part for each and one for the list bget()     *)
(* walks through.                                                          *)
(***************************************************************************)
EXTENDS Bio, FiniteSetTheorems, WellFoundedInduction, TLAPS

Label == {"out", "lock", "locksleep", "have", "io", "woken", "held", "relse"}

\* The types of the state.
TypeOK ==
  /\ disk \in [Blocks -> Data]
  /\ blockno \in [Bufs -> Blocks \cup {None}]
  /\ valid \in [Bufs -> BOOLEAN]
  /\ dirty \in [Bufs -> BOOLEAN]
  /\ refcnt \in [Bufs -> Nat]
  /\ data \in [Bufs -> Data \cup {None}]
  /\ locked \in [Bufs -> BOOLEAN]
  /\ idequeue \in Seq(Bufs)
  /\ panicked \in BOOLEAN
  /\ pc \in [Procs -> Label]
  /\ want \in [Procs -> Blocks \cup {None}]
  /\ buf \in [Procs -> Bufs \cup {None}]
  /\ current \in [Blocks -> Data]

\* The processes that refer to b.
Users(b) == {p \in Procs : buf[p] = b}

\* A process has a buffer, for the block it asked for, exactly while it is in
\* a call; a buffer counts its users; a block has one buffer.
RefInv ==
  /\ \A p \in Procs : pc[p] # "out" =>
       buf[p] \in Bufs /\ want[p] \in Blocks /\ blockno[buf[p]] = want[p]
  /\ \A p \in Procs : pc[p] = "out" => buf[p] = None
  /\ \A b \in Bufs : refcnt[b] = Cardinality(Users(b))
  /\ \A b, c \in Bufs : blockno[b] = blockno[c] /\ blockno[b] # None => b = c

\* lk->locked says whether somebody has the sleep lock, one process has it,
\* and whoever sleeps on it sleeps while it is taken.
LockInv ==
  /\ \A p, q \in Procs : Holds(p) /\ Holds(q) /\ buf[p] = buf[q] => p = q
  /\ \A p \in Procs : Holds(p) => locked[buf[p]]
  /\ \A b \in Bufs : locked[b] => \E p \in Procs : Holds(p) /\ buf[p] = b
  /\ \A p \in Procs : pc[p] = "locksleep" => locked[buf[p]]

\* The driver's queue has each buffer a process in iderw() waits for, once.
QueueInv ==
  /\ \A i \in DOMAIN idequeue :
       \E p \in Procs : pc[p] = "io" /\ buf[p] = idequeue[i]
  /\ \A i, j \in DOMAIN idequeue : idequeue[i] = idequeue[j] => i = j
  /\ \A p \in Procs : pc[p] = "io" =>
       \E i \in DOMAIN idequeue : idequeue[i] = buf[p]

\* A buffer with B_VALID has the newest contents; so has the disk, unless the
\* block's buffer is B_DIRTY.
DataInv ==
  /\ \A p \in Procs : pc[p] = "held" => valid[buf[p]]
  /\ \A p \in Procs : pc[p] = "woken" => valid[buf[p]] /\ ~dirty[buf[p]]
  /\ \A b \in Bufs : dirty[b] => valid[b]
  /\ \A b \in Bufs : valid[b] =>
       blockno[b] \in Blocks /\ data[b] = current[blockno[b]]
  /\ \A k \in Blocks : (\A b \in Bufs : blockno[b] = k => ~dirty[b]) =>
       disk[k] = current[k]

\* The list has every buffer.
ListInv ==
  /\ \E n \in Nat : lru \in [1..n -> Bufs]
  /\ \A b \in Bufs : \E i \in DOMAIN lru : lru[i] = b

BioInv ==
  TypeOK /\ RefInv /\ LockInv /\ QueueInv /\ DataInv /\ ListInv
-----------------------------------------------------------------------------
(***************************************************************************)
(* The operators.                                                          *)
(***************************************************************************)

\* A set of list positions that is not empty has a largest one: the walk of
\* bget() from the tail ends at the first buffer that qualifies.
LEMMA LargestExists ==
  ASSUME NEW n \in Nat, NEW T \in SUBSET (1..n), T # {}
  PROVE  \E i \in T : \A j \in T : j <= i
<1> DEFINE D == {d \in Nat : \E i \in T : d = n - i}
<1>1. D \subseteq Nat /\ D # {}
  <2>1. PICK i \in T : TRUE
    OBVIOUS
  <2>2. n - i \in D
    OBVIOUS
  <2>3. QED  BY <2>2
<1>2. PICK d \in D : \A e \in D : <<e, d>> \notin OpToRel(<, Nat)
  BY <1>1, NatLessThanWellFounded, WFMin
<1>3. PICK i \in T : d = n - i
  OBVIOUS
<1>4. ASSUME NEW j \in T PROVE j <= i
  <2>1. n - j \in D /\ n - j \in Nat /\ d \in Nat
    BY <1>1
  <2>2. ~(n - j < d)
    BY <1>2, <2>1 DEF OpToRel
  <2>3. QED  BY <1>3, <2>1, <2>2
<1>5. QED  BY <1>4

\* The list of binit() has every buffer, since it has as many places.
LEMMA ListIsFull ==
  ASSUME NEW s \in SetToSeqs(Bufs)
  PROVE  /\ \E n \in Nat : s \in [1..n -> Bufs]
         /\ \A b \in Bufs : \E i \in DOMAIN s : s[i] = b
<1> DEFINE n == Cardinality(Bufs)
<1>1. n \in Nat
  BY BioAssumption, FS_CardinalityType
<1>2. s \in [1..n -> Bufs] /\ \A i, j \in 1..n : i # j => s[i] # s[j]
  BY DEF SetToSeqs
<1> HIDE DEF n
<1>3. s \in Injection(1..n, Bufs)
  BY <1>2 DEF Injection, IsInjective
<1>4. Cardinality(1..n) = n
  BY <1>1, FS_Interval
<1>5. s \in Surjection(1..n, Bufs)
  BY <1>3, <1>4, FS_Injection, BioAssumption DEF n
<1>6. QED
  BY <1>1, <1>2, <1>5 DEF Surjection

\* Unlinking a buffer and putting it in front loses no buffer.
LEMMA MoveKeepsList ==
  ASSUME ListInv, NEW b \in Bufs, lru' = MoveToFront(b)
  PROVE  ListInv'
<1>1. PICK n \in Nat : lru \in [1..n -> Bufs]
  BY DEF ListInv
<1> DEFINE i == CHOOSE i \in DOMAIN lru : lru[i] = b
<1>2. i \in 1..n /\ lru[i] = b
  BY <1>1 DEF ListInv
<1>3. lru' = [j \in 1..n |->
               IF j = 1 THEN b ELSE IF j <= i THEN lru[j - 1] ELSE lru[j]]
  BY <1>1 DEF MoveToFront
<1> HIDE DEF i
<1>4. lru' \in [1..n -> Bufs]
  BY <1>1, <1>2, <1>3
<1>5. ASSUME NEW c \in Bufs PROVE \E j \in 1..n : lru'[j] = c
  <2>1. PICK j \in 1..n : lru[j] = c
    BY <1>1 DEF ListInv
  <2>2. CASE j = i
    <3>1. 1 \in 1..n /\ lru'[1] = c
      BY <1>2, <1>3, <2>1, <2>2
    <3>2. QED  BY <3>1
  <2>3. CASE j < i
    <3>1. j + 1 \in 1..n /\ lru'[j + 1] = c
      BY <1>2, <1>3, <2>1, <2>3
    <3>2. QED  BY <3>1
  <2>4. CASE j > i
    <3>1. lru'[j] = c
      BY <1>2, <1>3, <2>1, <2>4
    <3>2. QED  BY <3>1
  <2>5. QED  BY <1>2, <2>2, <2>3, <2>4
<1>6. QED  BY <1>1, <1>4, <1>5 DEF ListInv

\* The driver's queue: a request behind the others, the first one gone.
LEMMA Queued ==
  ASSUME NEW s \in Seq(Bufs), NEW b \in Bufs
  PROVE  /\ Append(s, b) \in Seq(Bufs)
         /\ DOMAIN Append(s, b) = DOMAIN s \cup {Len(s) + 1}
         /\ \A i \in DOMAIN s : Append(s, b)[i] = s[i]
         /\ Append(s, b)[Len(s) + 1] = b
         /\ Len(s) + 1 \notin DOMAIN s
OBVIOUS

\* The first request leaves the queue, the others move up.
LEMMA Served ==
  ASSUME NEW s \in Seq(Bufs), s # <<>>
  PROVE  /\ Tail(s) \in Seq(Bufs)
         /\ 1 \in DOMAIN s /\ Head(s) = s[1] /\ Head(s) \in Bufs
         /\ \A i \in DOMAIN Tail(s) :
              i \in Nat /\ i + 1 \in DOMAIN s /\ i + 1 # 1
                /\ Tail(s)[i] = s[i + 1]
         /\ \A i \in DOMAIN s : i = 1
              \/ (i - 1 \in DOMAIN Tail(s) /\ Tail(s)[i - 1] = s[i])
OBVIOUS

\* Counting the users of a buffer: nothing changes, one comes, one goes.
LEMMA UsersStay ==
  ASSUME buf' = buf
  PROVE  \A b \in Bufs : Users(b)' = Users(b)
BY DEF Users

\* A buffer has finitely many users.
LEMMA UsersFinite ==
  \A b \in Bufs : IsFiniteSet(Users(b)) /\ Cardinality(Users(b)) \in Nat
<1> TAKE b \in Bufs
<1>1. IsFiniteSet(Users(b))
  BY FS_Subset, BioAssumption DEF Users
<1>2. QED  BY <1>1, FS_CardinalityType

\* bget() adds a user to one buffer.
LEMMA UserComes ==
  ASSUME TypeOK, NEW p \in Procs, NEW b \in Bufs, buf[p] = None,
         buf' = [buf EXCEPT ![p] = b]
  PROVE  \A c \in Bufs : Cardinality(Users(c)') =
           IF c = b THEN Cardinality(Users(c)) + 1 ELSE Cardinality(Users(c))
<1> TAKE c \in Bufs
<1>1. CASE c = b
  <2>1. Users(b)' = Users(b) \cup {p} /\ p \notin Users(b)
    BY BioAssumption DEF Users, TypeOK
  <2>2. QED  BY <1>1, <2>1, UsersFinite, FS_AddElement
<1>2. CASE c # b
  <2>1. Users(c)' = Users(c)
    BY <1>2, BioAssumption DEF Users, TypeOK
  <2>2. QED  BY <1>2, <2>1
<1>3. QED  BY <1>1, <1>2

\* brelse() takes a user from its buffer.
LEMMA UserGoes ==
  ASSUME TypeOK, NEW p \in Procs, buf[p] \in Bufs,
         buf' = [buf EXCEPT ![p] = None]
  PROVE  \A c \in Bufs : Cardinality(Users(c)') =
           IF c = buf[p] THEN Cardinality(Users(c)) - 1
           ELSE Cardinality(Users(c))
<1> TAKE c \in Bufs
<1>1. CASE c = buf[p]
  <2>1. Users(c)' = Users(c) \ {p} /\ p \in Users(c)
    BY <1>1, BioAssumption DEF Users, TypeOK
  <2>2. QED  BY <1>1, <2>1, UsersFinite, FS_RemoveElement
<1>2. CASE c # buf[p]
  <2>1. Users(c)' = Users(c)
    BY <1>2, BioAssumption DEF Users, TypeOK
  <2>2. QED  BY <1>2, <2>1
<1>3. QED  BY <1>1, <1>2

\* A buffer without references has no user, and one with a user has some.
LEMMA NoReference ==
  ASSUME RefInv, NEW b \in Bufs
  PROVE  refcnt[b] = 0 <=> \A p \in Procs : buf[p] # b
<1>1. refcnt[b] = 0 <=> Users(b) = {}
  BY UsersFinite, FS_EmptySet DEF RefInv
<1>2. QED  BY <1>1 DEF Users

-----------------------------------------------------------------------------
(***************************************************************************)
(* The actions keep the invariant.                                         *)
(***************************************************************************)

\* The state after binit() satisfies the invariant.
LEMMA BioInit == Init => BioInv
<1> SUFFICES ASSUME Init PROVE BioInv
  OBVIOUS
<1> USE BioAssumption DEF Init
<1>1. TypeOK
  <2>1. idequeue \in Seq(Bufs)
    OBVIOUS
  <2>2. QED  BY <2>1 DEF TypeOK, Label
<1>2. RefInv
  <2>1. \A b \in Bufs : Users(b) = {}
    BY DEF Users
  <2>2. \A b \in Bufs : refcnt[b] = Cardinality(Users(b))
    BY <2>1, FS_EmptySet
  <2>3. QED  BY <2>2 DEF RefInv
<1>3. LockInv /\ QueueInv /\ DataInv
  BY DEF LockInv, QueueInv, DataInv, Holds
<1>4. ListInv
  BY ListIsFull DEF ListInv
<1>5. QED  BY <1>1, <1>2, <1>3, <1>4 DEF BioInv

\* A reference to a cached block.
LEMMA BgetCachedKeeps ==
  ASSUME BioInv, NEW p \in Procs, NEW k \in Blocks, BgetCached(p, k)
  PROVE  BioInv'
<1> USE BioAssumption DEF BioInv, TypeOK, BgetCached, Goto
<1>1. TypeOK'  BY DEF RefInv, Label
<1>2. RefInv'
  <2>1. PICK b \in Bufs : /\ blockno[b] = k
                         /\ refcnt' = [refcnt EXCEPT ![b] = @ + 1]
                         /\ buf' = [buf EXCEPT ![p] = b]
    OBVIOUS
  <2>2. buf[p] = None
    BY DEF RefInv
  <2>3. \A c \in Bufs : Cardinality(Users(c)') =
          IF c = b THEN Cardinality(Users(c)) + 1 ELSE Cardinality(Users(c))
    BY <2>1, <2>2, UserComes
  <2>4. \A c \in Bufs : refcnt'[c] = Cardinality(Users(c)')
    BY <2>1, <2>3 DEF RefInv
  <2>5. QED  BY <2>1, <2>4 DEF RefInv
<1>3. LockInv'  BY DEF LockInv, Holds, RefInv
<1>4. QueueInv'  BY DEF QueueInv, LockInv, Holds, RefInv
<1>5. DataInv'  BY DEF DataInv, LockInv, Holds, RefInv
<1>6. ListInv'  BY DEF ListInv
<1>7. QED  BY <1>1, <1>2, <1>3, <1>4, <1>5, <1>6

\* The sleep lock is free: nobody has it.
LEMMA AcquireSleepKeeps ==
  ASSUME BioInv, NEW p \in Procs, AcquireSleep(p)
  PROVE  BioInv'
<1> USE BioAssumption DEF BioInv, TypeOK, AcquireSleep, Goto
<1>1. TypeOK'  BY DEF RefInv, Label
<1>2. RefInv'  BY UsersStay DEF RefInv, Label
<1>3. LockInv'  BY DEF LockInv, Holds, RefInv
<1>4. QueueInv'  BY DEF QueueInv, LockInv, Holds, RefInv
<1>5. DataInv'  BY DEF DataInv, LockInv, Holds, RefInv
<1>6. ListInv'  BY DEF ListInv
<1>7. QED  BY <1>1, <1>2, <1>3, <1>4, <1>5, <1>6

\* The sleep lock is taken: its owner will wake the process.
LEMMA AcquireWaitsKeeps ==
  ASSUME BioInv, NEW p \in Procs, AcquireWaits(p)
  PROVE  BioInv'
<1> USE BioAssumption DEF BioInv, TypeOK, AcquireWaits, Goto, bufVars
<1>1. TypeOK'  BY DEF RefInv, Label
<1>2. RefInv'  BY UsersStay DEF RefInv, Label
<1>3. LockInv'  BY DEF LockInv, Holds, RefInv
<1>4. QueueInv'  BY DEF QueueInv, LockInv, Holds, RefInv
<1>5. DataInv'  BY DEF DataInv, LockInv, Holds, RefInv
<1>6. ListInv'  BY DEF ListInv
<1>7. QED  BY <1>1, <1>2, <1>3, <1>4, <1>5, <1>6

\* A buffer with B_VALID is returned as it is.
LEMMA BreadValidKeeps ==
  ASSUME BioInv, NEW p \in Procs, BreadValid(p)
  PROVE  BioInv'
<1> USE BioAssumption DEF BioInv, TypeOK, BreadValid, Goto, bufVars
<1>1. TypeOK'  BY DEF RefInv, Label
<1>2. RefInv'  BY UsersStay DEF RefInv, Label
<1>3. LockInv'  BY DEF LockInv, Holds, RefInv
<1>4. QueueInv'  BY DEF QueueInv, LockInv, Holds, RefInv
<1>5. DataInv'  BY DEF DataInv, LockInv, Holds, RefInv
<1>6. ListInv'  BY DEF ListInv
<1>7. QED  BY <1>1, <1>2, <1>3, <1>4, <1>5, <1>6

\* The owner of the sleep lock is the only one to queue the buffer.
LEMMA BreadInvalidKeeps ==
  ASSUME BioInv, NEW p \in Procs, BreadInvalid(p)
  PROVE  BioInv'
<1> USE BioAssumption DEF BioInv, TypeOK, BreadInvalid, Goto, bufVars, iderw
<1>1. TypeOK'  BY DEF RefInv, Label
<1>2. RefInv'  BY UsersStay DEF RefInv, Label
<1>3. LockInv'  BY DEF LockInv, Holds, RefInv
<1>4. QueueInv'
  <2> DEFINE n == Len(idequeue) + 1
  <2>1. buf[p] \in Bufs /\ Holds(p) /\ pc[p] # "io"
    BY DEF RefInv, Holds
  <2>2. ASSUME NEW q \in Procs, pc[q] = "io" PROVE q # p /\ buf[q] # buf[p]
    BY <2>1, <2>2 DEF LockInv, Holds
  <2>3. /\ DOMAIN idequeue' = DOMAIN idequeue \cup {n}
        /\ \A i \in DOMAIN idequeue : idequeue'[i] = idequeue[i]
        /\ idequeue'[n] = buf[p] /\ n \notin DOMAIN idequeue
    BY <2>1, Queued
  <2> HIDE DEF n
  <2>4. \A i \in DOMAIN idequeue : idequeue[i] # buf[p]
    BY <2>2 DEF QueueInv
  <2>5. /\ \A q \in Procs : pc'[q] = IF q = p THEN "io" ELSE pc[q]
        /\ buf' = buf
    OBVIOUS
  <2>6. ASSUME NEW i \in DOMAIN idequeue'
        PROVE  \E q \in Procs : pc'[q] = "io" /\ buf'[q] = idequeue'[i]
    <3>1. CASE i = n
      BY <3>1, <2>3, <2>5
    <3>2. CASE i \in DOMAIN idequeue
      <4>1. PICK q \in Procs : pc[q] = "io" /\ buf[q] = idequeue[i]
        BY <3>2 DEF QueueInv
      <4>2. QED  BY <3>2, <4>1, <2>3, <2>5
    <3>3. QED  BY <2>3, <3>1, <3>2
  <2>7. \A i, j \in DOMAIN idequeue' : idequeue'[i] = idequeue'[j] => i = j
    BY <2>3, <2>4 DEF QueueInv
  <2>8. ASSUME NEW q \in Procs, pc'[q] = "io"
        PROVE  \E i \in DOMAIN idequeue' : idequeue'[i] = buf'[q]
    <3>1. CASE q = p
      BY <3>1, <2>3, <2>5
    <3>2. CASE q # p
      BY <3>2, <2>3, <2>5, <2>8 DEF QueueInv
    <3>3. QED  BY <3>1, <3>2
  <2>9. QED  BY <2>6, <2>7, <2>8 DEF QueueInv
<1>5. DataInv'  BY DEF DataInv, LockInv, Holds, RefInv
<1>6. ListInv'  BY DEF ListInv
<1>7. QED  BY <1>1, <1>2, <1>3, <1>4, <1>5, <1>6

\* The owner changes the contents; B_DIRTY says that the disk is behind.
LEMMA LogWriteKeeps ==
  ASSUME BioInv, NEW p \in Procs, NEW v \in Data, LogWrite(p, v)
  PROVE  BioInv'
<1> USE BioAssumption DEF BioInv, TypeOK, LogWrite, Goto
<1>1. TypeOK'  BY DEF RefInv, Label
<1>2. RefInv'  BY UsersStay DEF RefInv, Label
<1>3. LockInv'  BY DEF LockInv, Holds, RefInv
<1>4. QueueInv'  BY DEF QueueInv, LockInv, Holds, RefInv
<1>5. DataInv'  BY DEF DataInv, LockInv, Holds, RefInv
<1>6. ListInv'  BY DEF ListInv
<1>7. QED  BY <1>1, <1>2, <1>3, <1>4, <1>5, <1>6

\* The buffer goes to the queue with B_DIRTY.
LEMMA BwriteKeeps ==
  ASSUME BioInv, NEW p \in Procs, Bwrite(p)
  PROVE  BioInv'
<1> USE BioAssumption DEF BioInv, TypeOK, Bwrite, Goto, iderw
<1>1. TypeOK'  BY DEF RefInv, Label
<1>2. RefInv'  BY UsersStay DEF RefInv, Label
<1>3. LockInv'  BY DEF LockInv, Holds, RefInv
<1>4. QueueInv'
  <2> DEFINE n == Len(idequeue) + 1
  <2>1. buf[p] \in Bufs /\ Holds(p) /\ pc[p] # "io"
    BY DEF RefInv, Holds
  <2>2. ASSUME NEW q \in Procs, pc[q] = "io" PROVE q # p /\ buf[q] # buf[p]
    BY <2>1, <2>2 DEF LockInv, Holds
  <2>3. /\ DOMAIN idequeue' = DOMAIN idequeue \cup {n}
        /\ \A i \in DOMAIN idequeue : idequeue'[i] = idequeue[i]
        /\ idequeue'[n] = buf[p] /\ n \notin DOMAIN idequeue
    BY <2>1, Queued
  <2> HIDE DEF n
  <2>4. \A i \in DOMAIN idequeue : idequeue[i] # buf[p]
    BY <2>2 DEF QueueInv
  <2>5. /\ \A q \in Procs : pc'[q] = IF q = p THEN "io" ELSE pc[q]
        /\ buf' = buf
    OBVIOUS
  <2>6. ASSUME NEW i \in DOMAIN idequeue'
        PROVE  \E q \in Procs : pc'[q] = "io" /\ buf'[q] = idequeue'[i]
    <3>1. CASE i = n
      BY <3>1, <2>3, <2>5
    <3>2. CASE i \in DOMAIN idequeue
      <4>1. PICK q \in Procs : pc[q] = "io" /\ buf[q] = idequeue[i]
        BY <3>2 DEF QueueInv
      <4>2. QED  BY <3>2, <4>1, <2>3, <2>5
    <3>3. QED  BY <2>3, <3>1, <3>2
  <2>7. \A i, j \in DOMAIN idequeue' : idequeue'[i] = idequeue'[j] => i = j
    BY <2>3, <2>4 DEF QueueInv
  <2>8. ASSUME NEW q \in Procs, pc'[q] = "io"
        PROVE  \E i \in DOMAIN idequeue' : idequeue'[i] = buf'[q]
    <3>1. CASE q = p
      BY <3>1, <2>3, <2>5
    <3>2. CASE q # p
      BY <3>2, <2>3, <2>5, <2>8 DEF QueueInv
    <3>3. QED  BY <3>1, <3>2
  <2>9. QED  BY <2>6, <2>7, <2>8 DEF QueueInv
<1>5. DataInv'  BY DEF DataInv, LockInv, Holds, RefInv
<1>6. ListInv'  BY DEF ListInv
<1>7. QED  BY <1>1, <1>2, <1>3, <1>4, <1>5, <1>6

\* The request at the head is served and its process woken.
LEMMA IdeintrKeeps ==
  ASSUME BioInv, Ideintr
  PROVE  BioInv'
<1> DEFINE b == Head(idequeue)
<1> USE BioAssumption DEF BioInv, TypeOK
<1>1. /\ idequeue' \in Seq(Bufs) /\ b \in Bufs
      /\ 1 \in DOMAIN idequeue /\ b = idequeue[1]
      /\ \A i \in DOMAIN idequeue' : i \in Nat /\ i + 1 \in DOMAIN idequeue
           /\ i + 1 # 1 /\ idequeue'[i] = idequeue[i + 1]
      /\ \A i \in DOMAIN idequeue : i = 1
           \/ (i - 1 \in DOMAIN idequeue' /\ idequeue'[i - 1] = idequeue[i])
  BY Served DEF Ideintr
<1>2. PICK q \in Procs : pc[q] = "io" /\ buf[q] = b
  BY <1>1 DEF QueueInv
<1>3. /\ IF dirty[b]
         THEN disk' = [disk EXCEPT ![blockno[b]] = data[b]] /\ UNCHANGED data
         ELSE data' = [data EXCEPT ![b] = disk[blockno[b]]] /\ UNCHANGED disk
      /\ valid' = [valid EXCEPT ![b] = TRUE]
      /\ dirty' = [dirty EXCEPT ![b] = FALSE]
      /\ UNCHANGED <<blockno, refcnt, locked, lru, panicked, want, buf,
                     current>>
  BY DEF Ideintr
<1>4. pc' = [pc EXCEPT ![q] = "woken"]
  <2>1. \A p \in Procs : pc[p] = "io" /\ buf[p] = b => p = q
    BY <1>2 DEF LockInv, Holds
  <2>2. QED  BY <1>2, <2>1 DEF Ideintr, Woken
<1>5. blockno[b] \in Blocks
  BY <1>2 DEF RefInv
<1> HIDE DEF b
<1>6. dirty[b] => data[b] = current[blockno[b]]
  BY <1>1 DEF DataInv
<1>7. TypeOK'
  <2>1. disk' \in [Blocks -> Data] /\ data' \in [Bufs -> Data \cup {None}]
    <3>1. CASE dirty[b]
      <4>1. data[b] \in Data
        BY <1>5, <1>6, <3>1
      <4>2. QED  BY <1>3, <1>5, <3>1, <4>1
    <3>2. CASE ~dirty[b]
      BY <1>3, <1>5, <3>2
    <3>3. QED  BY <3>1, <3>2
  <2>2. valid' \in [Bufs -> BOOLEAN] /\ dirty' \in [Bufs -> BOOLEAN]
    BY <1>3
  <2>3. pc' \in [Procs -> Label]
    BY <1>4 DEF Label
  <2>4. QED  BY <1>1, <1>3, <2>1, <2>2, <2>3
<1>8. RefInv'
  BY <1>2, <1>3, <1>4, UsersStay DEF RefInv
<1>9. LockInv'
  BY <1>2, <1>3, <1>4 DEF LockInv, Holds
<1>10. QueueInv'
  <2>1. \A i \in DOMAIN idequeue' : idequeue'[i] # b
    BY <1>1 DEF QueueInv
  <2>2. \A i \in DOMAIN idequeue' :
          \E p \in Procs : pc'[p] = "io" /\ buf'[p] = idequeue'[i]
    BY <1>1, <1>2, <1>3, <1>4, <2>1 DEF QueueInv
  <2>3. \A i, j \in DOMAIN idequeue' : idequeue'[i] = idequeue'[j] => i = j
    BY <1>1 DEF QueueInv
  <2>4. ASSUME NEW p \in Procs, pc'[p] = "io"
        PROVE  \E i \in DOMAIN idequeue' : idequeue'[i] = buf'[p]
    <3>1. pc[p] = "io" /\ p # q
      BY <1>4, <2>4
    <3>2. buf[p] # b
      BY <1>2, <3>1 DEF LockInv, Holds
    <3>3. PICK i \in DOMAIN idequeue : idequeue[i] = buf[p]
      BY <3>1 DEF QueueInv
    <3>4. i # 1
      BY <1>1, <3>2, <3>3
    <3>5. QED  BY <1>1, <1>3, <3>3, <3>4
  <2>5. QED  BY <2>2, <2>3, <2>4 DEF QueueInv
<1>11. DataInv'
  <2>1. \A p \in Procs : (pc'[p] = "held" => valid'[buf'[p]])
          /\ (pc'[p] = "woken" => valid'[buf'[p]] /\ ~dirty'[buf'[p]])
    BY <1>1, <1>2, <1>3, <1>4 DEF DataInv, RefInv, Label
  <2>2. disk'[blockno[b]] = current[blockno[b]]
    <3>1. CASE dirty[b]
      BY <1>1, <1>3, <1>5, <1>6, <3>1
    <3>2. CASE ~dirty[b]
      <4>1. \A c \in Bufs : blockno[c] = blockno[b] => ~dirty[c]
        <5>1. \A c \in Bufs : blockno[c] = blockno[b] => c = b
          BY <1>1, <1>5 DEF RefInv
        <5>2. QED  BY <3>2, <5>1
      <4>2. QED  BY <1>3, <1>5, <3>2, <4>1 DEF DataInv
    <3>3. QED  BY <3>1, <3>2
  <2>3. data'[b] = current[blockno[b]]
    BY <1>1, <1>3, <1>5, <1>6, <2>2
  <2>4. \A c \in Bufs : c # b => data'[c] = data[c] /\ valid'[c] = valid[c]
                                 /\ dirty'[c] = dirty[c]
    BY <1>1, <1>3
  <2>5. \A k \in Blocks : k # blockno[b] => disk'[k] = disk[k]
    BY <1>3
  <2>6. \A c \in Bufs : (dirty'[c] => valid'[c]) /\ (valid'[c] =>
          blockno'[c] \in Blocks /\ data'[c] = current'[blockno'[c]])
    BY <1>1, <1>3, <1>5, <2>3, <2>4 DEF DataInv
  <2>7. \A k \in Blocks :
          (\A c \in Bufs : blockno'[c] = k => ~dirty'[c]) =>
             disk'[k] = current'[k]
    BY <1>3, <2>2, <2>4, <2>5 DEF DataInv
  <2>8. QED  BY <2>1, <2>6, <2>7 DEF DataInv
<1>12. ListInv'
  BY <1>3 DEF ListInv
<1>13. QED  BY <1>7, <1>8, <1>9, <1>10, <1>11, <1>12

\* The flags are as ideintr() left them.
LEMMA IderwReturnsKeeps ==
  ASSUME BioInv, NEW p \in Procs, IderwReturns(p)
  PROVE  BioInv'
<1> USE BioAssumption DEF BioInv, TypeOK, IderwReturns, Goto, bufVars
<1>1. TypeOK'  BY DEF RefInv, Label
<1>2. RefInv'  BY UsersStay DEF RefInv, Label
<1>3. LockInv'  BY DEF LockInv, Holds, RefInv
<1>4. QueueInv'
  <2>1. pc' = [pc EXCEPT ![p] = "held"] /\ pc[p] # "io"
    BY DEF DataInv
  <2>2. QED  BY <2>1 DEF QueueInv
<1>5. DataInv'  BY DEF DataInv, LockInv, Holds, RefInv
<1>6. ListInv'  BY DEF ListInv
<1>7. QED  BY <1>1, <1>2, <1>3, <1>4, <1>5, <1>6

\* Everybody asleep on the lock is woken.
LEMMA ReleaseSleepKeeps ==
  ASSUME BioInv, NEW p \in Procs, ReleaseSleep(p)
  PROVE  BioInv'
<1> USE BioAssumption DEF BioInv, TypeOK, ReleaseSleep
<1>1. TypeOK'  BY DEF RefInv, Label
<1>2. RefInv'  BY UsersStay DEF RefInv, Label
<1>3. LockInv'  BY DEF LockInv, Holds, RefInv
<1>4. QueueInv'  BY DEF QueueInv, LockInv, Holds, RefInv
<1>5. DataInv'  BY DEF DataInv, LockInv, Holds, RefInv
<1>6. ListInv'  BY DEF ListInv
<1>7. QED  BY <1>1, <1>2, <1>3, <1>4, <1>5, <1>6

\* bget() takes a buffer for p and block k: one of Recyclable.
Recycles(p, k, b) ==
  /\ pc[p] = "out"
  /\ \A c \in Bufs : blockno[c] # k
  /\ blockno' = [blockno EXCEPT ![b] = k]
  /\ valid' = [valid EXCEPT ![b] = FALSE]
  /\ dirty' = [dirty EXCEPT ![b] = FALSE]
  /\ refcnt' = [refcnt EXCEPT ![b] = 1]
  /\ buf' = [buf EXCEPT ![p] = b]
  /\ want' = [want EXCEPT ![p] = k]
  /\ pc' = Goto(p, "lock")
  /\ UNCHANGED <<disk, data, locked, lru, idequeue, panicked, current>>

\* The walk from the tail of the list finds a buffer that may be recycled.
LEMMA RecycledIsUnused ==
  ASSUME BioInv, NEW p \in Procs, NEW k \in Blocks, BgetRecycled(p, k)
  PROVE  \E b \in Recyclable : Recycles(p, k, b)
<1>1. PICK n \in Nat : lru \in [1..n -> Bufs]
  BY DEF BioInv, ListInv
<1> DEFINE T == {i \in 1..n : lru[i] \in Recyclable}
<1> DEFINE Final(i) == /\ lru[i] \in Recyclable
                       /\ \A j \in DOMAIN lru : lru[j] \in Recyclable => j <= i
<1> DEFINE b == lru[CHOOSE i \in DOMAIN lru : Final(i)]
<1>2. T # {}
  BY <1>1 DEF BgetRecycled, BioInv, ListInv, Recyclable
<1>3. \E i \in T : \A j \in T : j <= i
  BY <1>2, LargestExists
<1>4. \E i \in DOMAIN lru : Final(i)
  BY <1>1, <1>3
<1>5. b \in Recyclable
  BY <1>4
<1>6. Recycles(p, k, b)
  BY DEF BgetRecycled, Recycles
<1>7. QED  BY <1>5, <1>6

\* The recycled buffer has no user, and the disk has its contents.
LEMMA BgetRecycledKeeps ==
  ASSUME BioInv, NEW p \in Procs, NEW k \in Blocks, BgetRecycled(p, k)
  PROVE  BioInv'
<1>1. PICK b \in Recyclable : Recycles(p, k, b)
  BY RecycledIsUnused
<1> USE BioAssumption DEF BioInv, TypeOK, Recycles, Goto
<1>2. b \in Bufs /\ refcnt[b] = 0 /\ ~dirty[b]
  BY DEF Recyclable
<1>3. \A q \in Procs : buf[q] # b
  BY <1>2, NoReference
<1>4. TypeOK'  BY <1>1, <1>2 DEF Label
<1>5. RefInv'
  <2>1. buf[p] = None
    BY <1>1 DEF RefInv
  <2>2. \A c \in Bufs : Cardinality(Users(c)') =
          IF c = b THEN Cardinality(Users(c)) + 1 ELSE Cardinality(Users(c))
    BY <1>1, <1>2, <2>1, UserComes
  <2>3. \A c \in Bufs : refcnt'[c] = Cardinality(Users(c)')
    BY <1>1, <1>2, <2>2 DEF RefInv
  <2>4. QED  BY <1>1, <1>2, <1>3, <2>3 DEF RefInv
<1>6. LockInv'  BY <1>1, <1>2, <1>3 DEF LockInv, Holds, RefInv
<1>7. QueueInv'  BY <1>1, <1>2, <1>3 DEF QueueInv
<1>8. DataInv'
  <2>1. \A q \in Procs : (pc'[q] = "held" => valid'[buf'[q]])
          /\ (pc'[q] = "woken" => valid'[buf'[q]] /\ ~dirty'[buf'[q]])
    BY <1>1, <1>2, <1>3 DEF DataInv, RefInv
  <2>2. \A c \in Bufs : (dirty'[c] => valid'[c]) /\ (valid'[c] =>
          blockno'[c] \in Blocks /\ data'[c] = current'[blockno'[c]])
    BY <1>1, <1>2 DEF DataInv
  <2>3. ASSUME NEW m \in Blocks,
               \A c \in Bufs : blockno'[c] = m => ~dirty'[c]
        PROVE  disk'[m] = current'[m]
    <3>1. \A c \in Bufs : blockno[c] = m => ~dirty[c]
      BY <1>1, <1>2, <2>3
    <3>2. QED  BY <1>1, <3>1 DEF DataInv
  <2>4. QED  BY <2>1, <2>2, <2>3 DEF DataInv
<1>9. ListInv'  BY <1>1 DEF ListInv
<1>10. QED  BY <1>4, <1>5, <1>6, <1>7, <1>8, <1>9

\* The panic changes nothing else.
LEMMA BgetPanicsKeeps ==
  ASSUME BioInv, NEW p \in Procs, NEW k \in Blocks, BgetPanics(p, k)
  PROVE  BioInv'
<1> USE DEF BioInv, BgetPanics, bufVars
<1>1. TypeOK' /\ ListInv'  BY DEF TypeOK, ListInv
<1>2. RefInv'  BY UsersStay DEF RefInv
<1>3. LockInv'  BY DEF LockInv, Holds
<1>4. QueueInv'  BY DEF QueueInv
<1>5. DataInv'  BY DEF DataInv
<1>6. QED  BY <1>1, <1>2, <1>3, <1>4, <1>5

\* The reference goes with the user.
LEMMA BrelseKeeps ==
  ASSUME BioInv, NEW p \in Procs, Brelse(p)
  PROVE  BioInv'
<1> USE BioAssumption DEF BioInv, TypeOK, Brelse, Goto
<1>1. buf[p] \in Bufs
  BY DEF RefInv
<1>2. refcnt[buf[p]] # 0
  BY <1>1, NoReference
<1>3. TypeOK'  BY <1>1, <1>2 DEF Label
<1>4. RefInv'
  <2>1. \A c \in Bufs : refcnt'[c] = Cardinality(Users(c)')
    BY <1>1, UserGoes DEF RefInv
  <2>2. QED  BY <2>1 DEF RefInv
<1>5. LockInv'
  <2>1. \A q \in Procs : /\ Holds(q)' <=> Holds(q)
                         /\ Holds(q) => buf'[q] = buf[q]
                         /\ pc'[q] = "locksleep" <=> pc[q] = "locksleep"
                         /\ pc[q] = "locksleep" => buf'[q] = buf[q]
    BY DEF Holds
  <2>2. locked' = locked
    OBVIOUS
  <2>3. QED  BY <2>1, <2>2 DEF LockInv
<1>6. QueueInv'  BY DEF QueueInv
<1>7. DataInv'  BY DEF DataInv, RefInv
<1>8. ListInv'
  <2>1. CASE lru' = MoveToFront(buf[p])
    BY <1>1, <2>1, MoveKeepsList
  <2>2. CASE lru' = lru
    BY <2>2 DEF ListInv
  <2>3. QED  BY <2>1, <2>2
<1>9. QED  BY <1>3, <1>4, <1>5, <1>6, <1>7, <1>8

\* Every step keeps the invariant.
LEMMA NextKeeps == BioInv /\ [Next]_vars => BioInv'
<1> SUFFICES ASSUME BioInv, [Next]_vars PROVE BioInv'
  OBVIOUS
<1>1. ASSUME NEW p \in Procs, NEW k \in Blocks, BgetStep(p, k) PROVE BioInv'
  BY <1>1, BgetCachedKeeps, BgetRecycledKeeps, BgetPanicsKeeps DEF BgetStep
<1>2. ASSUME NEW p \in Procs, ProcStep(p) PROVE BioInv'
  BY <1>2, AcquireSleepKeeps, AcquireWaitsKeeps, BreadValidKeeps,
     BreadInvalidKeeps, BwriteKeeps, IderwReturnsKeeps, ReleaseSleepKeeps,
     BrelseKeeps DEF ProcStep
<1>3. ASSUME NEW p \in Procs, NEW v \in Data, LogWrite(p, v) PROVE BioInv'
  BY <1>3, LogWriteKeeps
<1>4. ASSUME Ideintr PROVE BioInv'
  BY <1>4, IdeintrKeeps
<1>5. CASE UNCHANGED vars
  <2> USE <1>5 DEF BioInv, vars, bufVars
  <2>1. TypeOK' /\ ListInv'  BY DEF TypeOK, ListInv
  <2>2. RefInv'  BY UsersStay DEF RefInv
  <2>3. LockInv'  BY DEF LockInv, Holds
  <2>4. QueueInv' /\ DataInv'  BY DEF QueueInv, DataInv
  <2>5. QED  BY <2>1, <2>2, <2>3, <2>4
<1>6. QED
  BY <1>1, <1>2, <1>3, <1>4, <1>5 DEF Next, Frozen

-----------------------------------------------------------------------------
(***************************************************************************)
(* The theorems.                                                           *)
(***************************************************************************)

\* The inductive invariant holds in every reachable state.
THEOREM Invariance == Spec => []BioInv
<1>1. QED  BY BioInit, NextKeeps, PTL DEF Spec

\* bread() returns the newest contents of the block: the buffer is valid and
\* still of the block that was asked for, whoever waited in between.
THEOREM ReadersSeeTheNewest == Spec => []BreadReturnsNewest
<1>1. BioInv => BreadReturnsNewest
  BY DEF BioInv, TypeOK, RefInv, DataInv, BreadReturnsNewest, Label
<1>2. QED  BY <1>1, Invariance, PTL

\* The sleep lock of brelse() and bget() gives a buffer to one process, and
\* iderw() queues it once, for its owner.
THEOREM OneOwnerPerBuffer == Spec => []BuffersAreExclusive
<1>1. BioInv => BuffersAreExclusive
  BY DEF BioInv, LockInv, QueueInv, BuffersAreExclusive
<1>2. QED  BY <1>1, Invariance, PTL

\* refcnt counts the processes in bread() to brelse(), and bget() recycles no
\* buffer under them.
THEOREM ReferencesCount == Spec => []ReferencedIsKept
<1>1. BioInv => ReferencedIsKept
  BY BioAssumption DEF BioInv, TypeOK, RefInv, ReferencedIsKept, Users
<1>2. QED  BY <1>1, Invariance, PTL

\* Whoever sleeps in iderw() is in the queue and whoever sleeps on a sleep
\* lock has an owner to wait for: no wakeup of the two is lost.
THEOREM NoSleepOnNothing == Spec => []SleepersAreServed
<1>1. BioInv => SleepersAreServed
  BY DEF BioInv, TypeOK, RefInv, LockInv, QueueInv, SleepersAreServed
<1>2. QED  BY <1>1, Invariance, PTL
=============================================================================
