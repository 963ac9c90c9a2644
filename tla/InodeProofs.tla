----------------------------- MODULE InodeProofs -----------------------------
(***************************************************************************)
(* What Inode promises, proved for any processes, inodes, names, paths and *)
(* calls.  There are two inductive invariants.                             *)
(*                                                                         *)
(* CacheInv says which pointers a call has at each of its labels and which *)
(* inodes it has locked there, counts all pointers, in the calls'          *)
(* variables and in the processes, as one table, and relates cache and     *)
(* disk: what is being freed has one pointer, and what is in the cache is  *)
(* on the disk.                                                            *)
(*                                                                         *)
(* FsInv, which rests on it, says that in regular histories the            *)
(* directories on the disk are a tree, that every link is counted, what a  *)
(* call knows of the inodes it holds, and that no inode without links is   *)
(* out of use.                                                             *)
(***************************************************************************)
EXTENDS Inode, FiniteSetTheorems, WellFoundedInduction, TLAPS

\* The labels inside iput(), those at which a call has its directory locked,
\* or the inode it works on, and those at which it has a pointer to them.
Iputs == {"iput", "itrunc", "iput_done"}
Frees == {"itrunc", "iput_done"}
HoldDp == {"create_new", "unlink_ip", "unlink_bad"}
HoldIp == {"opened", "created", "unlink_dec"}
WithDp == HoldDp \cup {"create", "link_dp", "unlink"}
WithIp == HoldIp \cup {"open", "chdir", "create_old", "create_new", "link",
                       "link_dp", "link_done", "link_bad", "unlink_ip"}
Labels == {"user", "namex"} \cup Iputs \cup WithDp \cup WithIp

Creating == {"creat", "mkdir", "mknod"}

Dinode == [type : {"free", "dir", "file", "dev"}, nlink : Int]

Reg ==
  [call : CallNames \cup {None}, path : Seq(Names \cup Dots),
   want : {"ip", "dp", None}, cur : Inums \cup {None}, dp : Inums \cup {None},
   ip : Inums \cup {None}, name : Names \cup Dots \cup {None},
   put : Inums \cup {None}, ret : Labels \cup {None}]

\* The types of the state.
TypeOK ==
  /\ dsk \in [Inums -> Dinode]
  /\ dir \in [Inums -> [Names \cup Dots -> Inums \cup {None}]]
  /\ ref \in [Inums -> Nat]
  /\ valid \in [Inums -> BOOLEAN]
  /\ mem \in [Inums -> Dinode]
  /\ lock \in [Inums -> Procs \cup {None}]
  /\ cwd \in [Procs -> Inums]
  /\ fd \in [Procs -> Inums \cup {None}]
  /\ pc \in [Procs -> Labels]
  /\ reg \in [Procs -> Reg]
  /\ panicked \in Panics \cup {None}
  /\ overtaken \in BOOLEAN /\ strayed \in BOOLEAN

\* The second lookup of link(), and what follows it.
Linking(r) == r.call = "link" /\ r.want = "dp"

\* Where a call is, or will be when its iput() returns.
Place(l, r) == IF l \in Iputs THEN r.ret ELSE l
At(p) == Place(pc[p], reg[p])

\* The pointers and arguments a call has at label a.
Shape(a, r) ==
  /\ a \in Labels \ Iputs
  /\ r.cur # None <=> a = "namex"
  /\ r.dp # None <=> a \in WithDp
  /\ r.ip # None <=> (a \in WithIp \/ (a = "namex" /\ Linking(r)))
  /\ a \in {"user", "opened", "created"} => r.call = None
  /\ a = "namex" => r.call \in CallNames /\ r.want \in {"ip", "dp"}
  /\ a = "namex" /\ r.call \in {"open", "chdir"} => r.want = "ip"
  /\ a = "namex" /\ r.call \in Creating \cup {"unlink"} => r.want = "dp"
  /\ a \in WithDp => r.name # None
  /\ a = "link" => r.call = "link" /\ r.want = "ip"
  /\ a \in {"link_dp", "link_done", "link_bad"} => Linking(r)
  /\ a \in {"create", "create_new", "create_old"} => r.call \in Creating
  /\ a \in {"open", "chdir"} => r.call = a
  /\ a \in {"unlink", "unlink_ip", "unlink_bad", "unlink_dec"} =>
       r.call = "unlink"
  /\ a = "unlink_ip" => r.name \notin Dots

\* The same for a call that may be in iput().
ShapeOK(l, r) == Shape(Place(l, r), r) /\ (r.put # None <=> l \in Iputs)

ShapeInv == \A p \in Procs : ShapeOK(pc[p], reg[p])

\* The inodes that a call at label a has locked.
Has(a, r, i) == (a \in HoldIp /\ r.ip = i) \/ (a \in HoldDp /\ r.dp = i)

LockInv ==
  \A i \in Inums, p \in Procs : lock[i] = p <=> Has(At(p), reg[p], i)

\* All pointers to inodes, by process and place, and those to inode i.
Places == Pointers \cup {"cwd", "fd"}
Table == [Procs -> [Places -> Inums \cup {None}]]
Pts ==
  [p \in Procs |-> [x \in Places |->
     IF x = "cwd" THEN cwd[p] ELSE IF x = "fd" THEN fd[p] ELSE reg[p][x]]]
To(W, i) == {e \in Procs \X Places : W[e[1]][e[2]] = i}
Counted(W, f) == \A i \in Inums : f[i] = Cardinality(To(W, i))

RefInv == Counted(Pts, ref)

\* An inode that is being freed has no pointer but the one of its iput().
FreeInv ==
  \A p \in Procs : pc[p] \in Frees =>
    LET i == reg[p].put IN
    /\ ref[i] = 1 /\ valid[i] /\ mem[i].nlink = 0
    /\ pc[p] = "iput_done" => mem[i].type = "free"

\* The cache agrees with the disk, and has no free inode but the one iput()
\* is about to drop.
MemInv ==
  \A i \in Inums :
    /\ lock[i] # None => valid[i]
    /\ valid[i] => ref[i] > 0 /\ mem[i] = dsk[i]
    /\ valid[i] /\ dsk[i].type = "free" =>
         \E p \in Procs : pc[p] = "iput_done" /\ reg[p].put = i

CacheInv ==
  /\ TypeOK /\ ShapeInv /\ LockInv /\ RefInv
  /\ Regular => FreeInv /\ MemInv
-----------------------------------------------------------------------------
(***************************************************************************)
(* Counting.                                                               *)
(***************************************************************************)

\* The pointers to an inode are finitely many.
LEMMA FiniteTo ==
  ASSUME NEW W, NEW i
  PROVE  IsFiniteSet(To(W, i)) /\ Cardinality(To(W, i)) \in Nat
<1>1. \A x : IsFiniteSet({x})
  BY FS_Singleton
<1>2. IsFiniteSet(Places)
  <2>1. Places = (({"cur"} \cup {"dp"}) \cup ({"ip"} \cup {"put"}))
                 \cup ({"cwd"} \cup {"fd"})
    BY DEF Places, Pointers
  <2>2. /\ IsFiniteSet({"cur"} \cup {"dp"})
        /\ IsFiniteSet({"ip"} \cup {"put"})
        /\ IsFiniteSet({"cwd"} \cup {"fd"})
    BY <1>1, FS_Union
  <2>3. QED  BY <2>1, <2>2, FS_Union
<1>3. IsFiniteSet(Procs \X Places)
  BY <1>2, FS_Product, InodeAssumption
<1>4. To(W, i) \subseteq Procs \X Places
  BY DEF To
<1>5. QED  BY <1>3, <1>4, FS_Subset, FS_CardinalityType

Moved(W, p, x, y) == [W EXCEPT ![p] = [W[p] EXCEPT ![x] = None, ![y] = W[p][x]]]
Set(W, p, x, i) == [W EXCEPT ![p] = [W[p] EXCEPT ![x] = i]]

\* Moving a pointer, or setting one, leaves a table.
LEMMA MovedTable ==
  ASSUME NEW W \in Table, NEW p \in Procs, NEW x \in Places, NEW y \in Places
  PROVE  Moved(W, p, x, y) \in Table
BY DEF Table, Moved

\* The same for an entry that is set.
LEMMA SetTable ==
  ASSUME NEW W \in Table, NEW p \in Procs, NEW x \in Places,
         NEW i \in Inums \cup {None}
  PROVE  Set(W, p, x, i) \in Table
BY DEF Table, Set

\* A new pointer counts one reference more.
LEMMA SetCounts ==
  ASSUME NEW W \in Table, NEW f \in [Inums -> Nat], Counted(W, f),
         NEW p \in Procs, NEW x \in Places, W[p][x] = None, NEW i \in Inums
  PROVE  Counted(Set(W, p, x, i), [f EXCEPT ![i] = @ + 1])
<1> DEFINE V == Set(W, p, x, i)
<1> SUFFICES ASSUME NEW j \in Inums
             PROVE  [f EXCEPT ![i] = @ + 1][j] = Cardinality(To(V, j))
  BY DEF Counted
<1>1. f[j] = Cardinality(To(W, j))
  BY DEF Counted
<1>2. CASE j # i
  <2>1. To(V, j) = To(W, j)
    BY <1>2, InodeAssumption DEF To, Set, Table
  <2>2. QED  BY <2>1, <1>1, <1>2
<1>3. CASE j = i
  <2>1. To(V, j) = To(W, j) \cup {<<p, x>>}
    BY <1>3, InodeAssumption DEF To, Set, Table
  <2>2. <<p, x>> \notin To(W, j)
    BY InodeAssumption DEF To
  <2>3. Cardinality(To(V, j)) = Cardinality(To(W, j)) + 1
    BY <2>1, <2>2, FiniteTo, FS_AddElement
  <2>4. QED  BY <2>3, <1>1, <1>3
<1>4. QED  BY <1>2, <1>3

\* A pointer that goes counts one reference less, and was counted.
LEMMA ClearCounts ==
  ASSUME NEW W \in Table, NEW f \in [Inums -> Nat], Counted(W, f),
         NEW p \in Procs, NEW x \in Places, NEW i \in Inums, W[p][x] = i
  PROVE  Counted(Set(W, p, x, None), [f EXCEPT ![i] = @ - 1]) /\ f[i] > 0
<1> DEFINE V == Set(W, p, x, None)
<1>0. <<p, x>> \in To(W, i)
  BY DEF To
<1>1. ASSUME NEW j \in Inums
      PROVE  /\ [f EXCEPT ![i] = @ - 1][j] = Cardinality(To(V, j))
             /\ j = i => f[j] > 0
  <2>1. f[j] = Cardinality(To(W, j))
    BY DEF Counted
  <2>2. CASE j # i
    <3>1. To(V, j) = To(W, j)
      BY <2>2, InodeAssumption DEF To, Set, Table
    <3>2. QED  BY <3>1, <2>1, <2>2
  <2>3. CASE j = i
    <3>1. To(V, j) = To(W, j) \ {<<p, x>>}
      <4>1. ASSUME NEW q \in Procs, NEW z \in Places
            PROVE  V[q][z] = IF <<q, z>> = <<p, x>> THEN None ELSE W[q][z]
        BY DEF Set, Table
      <4>2. None # i
        BY InodeAssumption
      <4> HIDE DEF V
      <4>3. QED  BY <2>3, <4>1, <4>2 DEF To
    <3>2. Cardinality(To(V, j)) = Cardinality(To(W, j)) - 1
      <4>1. IsFiniteSet(To(W, j)) /\ <<p, x>> \in To(W, j)
        BY <1>0, <2>3, FiniteTo
      <4> DEFINE S == To(W, j)
                 e == <<p, x>>
      <4> HIDE DEF V, S, e
      <4>2. Cardinality(S \ {e}) = IF e \in S THEN Cardinality(S) - 1 ELSE Cardinality(S)
        <5>1. IsFiniteSet(S)
          BY <4>1 DEF S
        <5>2. QED  BY <5>1, FS_RemoveElement
      <4>3. To(V, j) = S \ {e} /\ e \in S
        BY <3>1, <4>1 DEF S, e
      <4>4. QED  BY <4>2, <4>3 DEF S
    <3>3. Cardinality(To(V, j)) \in Nat /\ Cardinality(To(W, j)) \in Nat
      BY FiniteTo
    <3>4. QED  BY <3>2, <3>3, <2>1, <2>3
  <2>4. QED  BY <2>2, <2>3
<1>2. QED  BY <1>1 DEF Counted

\* Down and up again.
LEMMA UpDown ==
  ASSUME NEW f \in [Inums -> Nat], NEW i \in Inums
  PROVE  [[f EXCEPT ![i] = @ - 1] EXCEPT ![i] = @ + 1] = f
<1> DEFINE h == [[f EXCEPT ![i] = @ - 1] EXCEPT ![i] = @ + 1]
<1>1. h = [j \in Inums |-> h[j]]
  OBVIOUS
<1>2. \A j \in Inums : h[j] = f[j]
  OBVIOUS
<1>3. f = [j \in Inums |-> f[j]]
  OBVIOUS
<1> HIDE DEF h
<1>4. h = f
  BY <1>1, <1>2, <1>3
<1>5. QED  BY <1>4 DEF h

\* A pointer that moves to another place counts the same.
LEMMA MovedCounts ==
  ASSUME NEW W \in Table, NEW f \in [Inums -> Nat], Counted(W, f),
         NEW p \in Procs, NEW x \in Places, NEW y \in Places, x # y,
         W[p][y] = None, W[p][x] \in Inums
  PROVE  Counted(Moved(W, p, x, y), f)
<1> DEFINE i == W[p][x]
           V == Set(W, p, x, None)
           g == [f EXCEPT ![i] = @ - 1]
<1>1. V \in Table /\ g \in [Inums -> Nat] /\ Counted(V, g) /\ V[p][y] = None
  <2>1. f[i] > 0 /\ Counted(V, g)
    BY ClearCounts
  <2>2. V \in Table
    BY SetTable
  <2>3. V[p][y] = None
    BY DEF Set, Table
  <2>4. QED  BY <2>1, <2>2, <2>3
<1>2. Counted(Set(V, p, y, i), [g EXCEPT ![i] = @ + 1])
  <2> HIDE DEF V, g
  <2>1. QED  BY <1>1, SetCounts
<1>3. [g EXCEPT ![i] = @ + 1] = f
  BY UpDown
<1>4. Set(V, p, y, i) = Moved(W, p, x, y)
  BY DEF Set, Moved, Table
<1>5. QED  BY <1>2, <1>3, <1>4
-----------------------------------------------------------------------------
(***************************************************************************)
(* Steps of a process.                                                     *)
(***************************************************************************)

\* What the table of pointers holds.
LEMMA PtsType ==
  ASSUME TypeOK
  PROVE  /\ Pts \in Table
         /\ \A p \in Procs, x \in Pointers : Pts[p][x] = reg[p][x]
         /\ \A p \in Procs : Pts[p]["cwd"] = cwd[p] /\ Pts[p]["fd"] = fd[p]
<1>1. ASSUME NEW p \in Procs
      PROVE  reg[p].cur \in Inums \cup {None} /\ reg[p].dp \in Inums \cup {None}
             /\ reg[p].ip \in Inums \cup {None} /\ reg[p].put \in Inums \cup {None}
  BY DEF TypeOK, Reg
<1>2. \A p \in Procs, x \in Pointers : reg[p][x] \in Inums \cup {None}
  BY <1>1 DEF Pointers
<1>3. \A p \in Procs : cwd[p] \in Inums \cup {None} /\ fd[p] \in Inums \cup {None}
  BY DEF TypeOK
<1>4. QED  BY <1>2, <1>3 DEF Pts, Table, Places, Pointers

\* Two tables are equal when their entries are.
LEMMA TablesEqual ==
  ASSUME NEW V, NEW W \in Table,
         V = [q \in Procs |-> [x \in Places |-> V[q][x]]],
         \A q \in Procs, x \in Places : V[q][x] = W[q][x]
  PROVE  V = W
<1>1. W = [q \in Procs |-> [x \in Places |-> W[q][x]]]
  BY DEF Table
<1>2. QED  BY <1>1

\* The table of pointers after p got the variables r.
LEMMA PtsStep ==
  ASSUME TypeOK, NEW p \in Procs, NEW l, NEW r, Goto(p, l, r)
  PROVE  /\ Pts' = [q \in Procs |-> [x \in Places |-> Pts'[q][x]]]
         /\ \A q \in Procs : Pts'[q]["cwd"] = cwd'[q] /\ Pts'[q]["fd"] = fd'[q]
         /\ \A q \in Procs, x \in Pointers :
              Pts'[q][x] = IF q = p THEN r[x] ELSE Pts[q][x]
<1>1. \A q \in Procs : reg'[q] = IF q = p THEN r ELSE reg[q]
  BY DEF Goto, TypeOK
<1>2. Pts' = [q \in Procs |-> [x \in Places |->
        IF x = "cwd" THEN cwd'[q] ELSE IF x = "fd" THEN fd'[q] ELSE reg'[q][x]]]
  BY DEF Pts
<1>3. QED  BY <1>1, <1>2, PtsType DEF Places, Pointers

\* The same when cwd and fd stay.
LEMMA PtsGoto ==
  ASSUME TypeOK, NEW p \in Procs, NEW l, NEW r, Goto(p, l, r),
         UNCHANGED <<cwd, fd>>
  PROVE  /\ Pts' = [q \in Procs |-> [z \in Places |-> Pts'[q][z]]]
         /\ \A q \in Procs, z \in Places :
              Pts'[q][z] = IF q = p /\ z \in Pointers THEN r[z] ELSE Pts[q][z]
<1>1. /\ Pts' = [q \in Procs |-> [z \in Places |-> Pts'[q][z]]]
      /\ \A q \in Procs : Pts'[q]["cwd"] = cwd'[q] /\ Pts'[q]["fd"] = fd'[q]
      /\ \A q \in Procs, z \in Pointers :
           Pts'[q][z] = IF q = p THEN r[z] ELSE Pts[q][z]
  BY PtsStep
<1>2. ASSUME NEW q \in Procs, NEW z \in Places
      PROVE  Pts'[q][z] = IF q = p /\ z \in Pointers THEN r[z] ELSE Pts[q][z]
  <2>1. CASE z = "cwd"
    <3>1. Pts'[q]["cwd"] = Pts[q]["cwd"]
      BY <1>1, PtsType
    <3>2. QED  BY <2>1, <3>1 DEF Pointers
  <2>2. CASE z = "fd"
    <3>1. Pts'[q]["fd"] = Pts[q]["fd"]
      BY <1>1, PtsType
    <3>2. QED  BY <2>2, <3>1 DEF Pointers
  <2>3. CASE z \in Pointers  BY <1>1, <2>3
  <2>4. QED  BY <2>1, <2>2, <2>3 DEF Places
<1>3. QED  BY <1>1, <1>2

\* Pointers that stay, move, come and go.
LEMMA KeepRefs ==
  ASSUME TypeOK, RefInv, NEW p \in Procs, NEW l, NEW r \in Reg, Goto(p, l, r),
         UNCHANGED <<cwd, fd, ref>>,
         \A z \in Pointers : r[z] = reg[p][z]
  PROVE  RefInv'
<1>1. /\ Pts' = [q \in Procs |-> [z \in Places |-> Pts'[q][z]]]
      /\ \A q \in Procs, z \in Places :
           Pts'[q][z] = IF q = p /\ z \in Pointers THEN r[z] ELSE Pts[q][z]
  BY PtsGoto
<1>2. Pts' = Pts
  BY <1>1, PtsType, TablesEqual
<1>3. QED  BY <1>2 DEF RefInv, Counted, To

\* A pointer moves within the variables of a call.
LEMMA MoveRefs ==
  ASSUME TypeOK, RefInv, NEW p \in Procs, NEW l, NEW r \in Reg, Goto(p, l, r),
         UNCHANGED <<cwd, fd, ref>>, NEW x \in Pointers, NEW y \in Pointers,
         x # y, reg[p][y] = None, reg[p][x] # None,
         r[x] = None, r[y] = reg[p][x],
         \A z \in Pointers \ {x, y} : r[z] = reg[p][z]
  PROVE  RefInv'
<1>1. /\ Pts' = [q \in Procs |-> [z \in Places |-> Pts'[q][z]]]
      /\ \A q \in Procs, z \in Places :
           Pts'[q][z] = IF q = p /\ z \in Pointers THEN r[z] ELSE Pts[q][z]
  BY PtsGoto
<1>2. /\ x \in Places /\ y \in Places
      /\ Pts[p][y] = None /\ Pts[p][x] = reg[p][x] /\ Pts[p][x] \in Inums
  BY PtsType DEF Places, Table
<1>3. Pts' = Moved(Pts, p, x, y)
  <2>1. Moved(Pts, p, x, y) \in Table
    BY <1>2, PtsType, MovedTable
  <2>2. \A q \in Procs, z \in Places :
          Moved(Pts, p, x, y)[q][z] =
            IF q = p /\ z = y THEN Pts[p][x]
            ELSE IF q = p /\ z = x THEN None ELSE Pts[q][z]
    BY <1>2, PtsType DEF Moved, Table
  <2>3. \A q \in Procs, z \in Places : Pts'[q][z] = Moved(Pts, p, x, y)[q][z]
    BY <1>1, <1>2, <2>2, PtsType DEF Places
  <2>4. QED  BY <1>1, <2>1, <2>3, TablesEqual
<1>4. Counted(Moved(Pts, p, x, y), ref)
  <2>1. Pts \in Table /\ ref \in [Inums -> Nat] /\ Counted(Pts, ref)
    BY PtsType DEF RefInv, TypeOK
  <2>2. QED  BY <1>2, <2>1, MovedCounts
<1>5. QED  BY <1>3, <1>4 DEF RefInv, Counted

\* The pointers r and s are the same but for those in X.
Agree(r, s, X) == \A z \in Pointers \ X : r[z] = s[z]

\* A call gets a pointer, with its reference.
LEMMA GainRef ==
  ASSUME TypeOK, RefInv, NEW p \in Procs, NEW l, NEW r \in Reg, Goto(p, l, r),
         UNCHANGED <<cwd, fd>>, NEW x \in Pointers, NEW i \in Inums,
         ref' = [ref EXCEPT ![i] = @ + 1],
         reg[p][x] = None, r[x] = i,
         Agree(r, reg[p], {x})
  PROVE  RefInv'
<1>1. /\ Pts' = [q \in Procs |-> [z \in Places |-> Pts'[q][z]]]
      /\ \A q \in Procs, z \in Places :
           Pts'[q][z] = IF q = p /\ z \in Pointers THEN r[z] ELSE Pts[q][z]
  BY PtsGoto
<1>2. Pts' = Set(Pts, p, x, i)
  <2>1. Set(Pts, p, x, i) \in Table
    BY PtsType, SetTable DEF Places
  <2>2. \A q \in Procs, z \in Places :
          Set(Pts, p, x, i)[q][z] = IF q = p /\ z = x THEN i ELSE Pts[q][z]
    BY PtsType DEF Set, Table
  <2>3. \A q \in Procs, z \in Places : Pts'[q][z] = Set(Pts, p, x, i)[q][z]
    BY <1>1, <2>2, PtsType DEF Places, Agree
  <2>4. QED  BY <1>1, <2>1, <2>3, TablesEqual
<1>3. x \in Places /\ Pts[p][x] = None
  BY PtsType DEF Places
<1>4. Counted(Set(Pts, p, x, i), [ref EXCEPT ![i] = @ + 1])
  BY <1>3, PtsType, SetCounts DEF RefInv, TypeOK
<1>5. QED  BY <1>2, <1>4 DEF RefInv, Counted

\* From s to r, the pointer in x goes to y, and w gets a new one, to i.
Takes(r, s, x, y, w, i) ==
  /\ x # y /\ w # y /\ s[y] = None /\ s[x] # None
  /\ w = x \/ (s[w] = None /\ r[x] = None)
  /\ r[y] = s[x] /\ r[w] = i /\ Agree(r, s, {x, y, w})

\* A pointer moves and a new one comes.
LEMMA MoveGainRefs ==
  ASSUME TypeOK, RefInv, NEW p \in Procs, NEW l, NEW r \in Reg, Goto(p, l, r),
         UNCHANGED <<cwd, fd>>, NEW i \in Inums,
         ref' = [ref EXCEPT ![i] = @ + 1],
         NEW x \in Pointers, NEW y \in Pointers, NEW w \in Pointers,
         Takes(r, reg[p], x, y, w, i)
  PROVE  RefInv'
<1>0. /\ x # y /\ w # y /\ reg[p][y] = None /\ reg[p][x] # None
      /\ w = x \/ (reg[p][w] = None /\ r[x] = None)
      /\ r[y] = reg[p][x] /\ r[w] = i /\ Agree(r, reg[p], {x, y, w})
  BY DEF Takes
<1>1. /\ Pts' = [q \in Procs |-> [z \in Places |-> Pts'[q][z]]]
      /\ \A q \in Procs, z \in Places :
           Pts'[q][z] = IF q = p /\ z \in Pointers THEN r[z] ELSE Pts[q][z]
  BY PtsGoto
<1> DEFINE W == Moved(Pts, p, x, y)
<1>2. /\ x \in Places /\ y \in Places /\ w \in Places
      /\ Pts[p][y] = None /\ Pts[p][x] = reg[p][x] /\ Pts[p][x] \in Inums
      /\ w # x => Pts[p][w] = None
  BY <1>0, PtsType DEF Places, Table
<1>3. \A q \in Procs, z \in Places :
        W[q][z] = IF q = p /\ z = y THEN Pts[p][x]
                  ELSE IF q = p /\ z = x THEN None ELSE Pts[q][z]
  BY <1>0, <1>2, PtsType DEF Moved, Table
<1>4. Counted(W, ref) /\ W \in Table
  <2>1. Pts \in Table /\ ref \in [Inums -> Nat] /\ Counted(Pts, ref)
    BY PtsType DEF RefInv, TypeOK
  <2>2. QED  BY <1>0, <1>2, <2>1, MovedCounts, MovedTable
<1> HIDE DEF W
<1>5. W[p][w] = None
  BY <1>0, <1>2, <1>3
<1>6. Pts' = Set(W, p, w, i)
  <2>1. Set(W, p, w, i) \in Table
    BY <1>2, <1>4, SetTable
  <2>2. \A q \in Procs, z \in Places :
          Set(W, p, w, i)[q][z] = IF q = p /\ z = w THEN i ELSE W[q][z]
    BY <1>4 DEF Set, Table
  <2>3. \A q \in Procs, z \in Places : Pts'[q][z] = Set(W, p, w, i)[q][z]
    BY <1>0, <1>1, <1>2, <1>3, <2>2, PtsType DEF Places, Agree
  <2>4. QED  BY <1>1, <2>1, <2>3, TablesEqual
<1>7. Counted(Set(W, p, w, i), [ref EXCEPT ![i] = @ + 1])
  BY <1>2, <1>4, <1>5, SetCounts DEF TypeOK
<1>8. QED  BY <1>6, <1>7 DEF RefInv, Counted

\* A step of namex(): the next directory takes the place of the one that goes
\* to iput().
LEMMA AdvanceCur ==
  ASSUME TypeOK, RefInv, NEW p \in Procs, NEW l, NEW r \in Reg, Goto(p, l, r),
         UNCHANGED <<cwd, fd>>, NEW i \in Inums, ref' = [ref EXCEPT ![i] = @ + 1],
         reg[p].cur # None, reg[p].put = None,
         r.cur = i, r.put = reg[p].cur, r.dp = reg[p].dp, r.ip = reg[p].ip
  PROVE  RefInv'
<1>1. Takes(r, reg[p], "cur", "put", "cur", i)
  BY DEF Takes, Agree, Pointers
<1>2. "cur" \in Pointers /\ "put" \in Pointers
  BY DEF Pointers
<1>3. QED  BY <1>1, <1>2, MoveGainRefs

\* The pointer of iput() goes, with its reference.
LEMMA DropRef ==
  ASSUME TypeOK, RefInv, NEW p \in Procs, NEW l, NEW r \in Reg, Goto(p, l, r),
         UNCHANGED <<cwd, fd>>, NEW i \in Inums,
         ref' = [ref EXCEPT ![i] = @ - 1],
         reg[p].put = i, r.put = None,
         \A z \in Pointers \ {"put"} : r[z] = reg[p][z]
  PROVE  RefInv' /\ ref[i] > 0
<1>1. /\ Pts' = [q \in Procs |-> [z \in Places |-> Pts'[q][z]]]
      /\ \A q \in Procs, z \in Places :
           Pts'[q][z] = IF q = p /\ z \in Pointers THEN r[z] ELSE Pts[q][z]
  BY PtsGoto
<1>2. Pts' = Set(Pts, p, "put", None)
  <2>1. Set(Pts, p, "put", None) \in Table
    BY PtsType, SetTable DEF Places, Pointers
  <2>2. \A q \in Procs, z \in Places : Set(Pts, p, "put", None)[q][z] =
          IF q = p /\ z = "put" THEN None ELSE Pts[q][z]
    BY PtsType DEF Set, Table
  <2>3. \A q \in Procs, z \in Places :
          Pts'[q][z] = Set(Pts, p, "put", None)[q][z]
    BY <1>1, <2>2, PtsType DEF Places
  <2>4. QED  BY <1>1, <2>1, <2>3, TablesEqual
<1>3. "put" \in Places /\ Pts[p]["put"] = i
  BY PtsType DEF Places, Pointers
<1>4. Counted(Set(Pts, p, "put", None), [ref EXCEPT ![i] = @ - 1]) /\ ref[i] > 0
  BY <1>3, PtsType, ClearCounts DEF RefInv, TypeOK
<1>5. QED  BY <1>2, <1>4 DEF RefInv, Counted

\* A step of p keeps the shape of every call when it gives p a good one.
LEMMA ShapeStep ==
  ASSUME TypeOK, ShapeInv, NEW p \in Procs, NEW l \in Labels, NEW r \in Reg,
         Goto(p, l, r), ShapeOK(l, r)
  PROVE  /\ ShapeInv'
         /\ pc' \in [Procs -> Labels] /\ reg' \in [Procs -> Reg]
<1>1. \A q \in Procs : pc'[q] = (IF q = p THEN l ELSE pc[q])
                        /\ reg'[q] = (IF q = p THEN r ELSE reg[q])
  BY DEF Goto, TypeOK
<1>2. \A q \in Procs : ShapeOK(pc'[q], reg'[q])
  BY <1>1 DEF ShapeInv
<1>3. pc' \in [Procs -> Labels] /\ reg' \in [Procs -> Reg]
  BY DEF Goto, TypeOK
<1>4. QED  BY <1>2, <1>3 DEF ShapeInv

\* A step of p keeps the locks of the others.
LEMMA LockStep ==
  ASSUME TypeOK, LockInv, NEW p \in Procs, NEW l \in Labels, NEW r \in Reg,
         Goto(p, l, r),
         \A i \in Inums : /\ lock'[i] = lock[i] \/ ({lock[i], lock'[i]} \subseteq {None, p})
                          /\ lock'[i] = p <=> Has(Place(l, r), r, i)
  PROVE  LockInv'
<1>1. \A q \in Procs : pc'[q] = (IF q = p THEN l ELSE pc[q])
                        /\ reg'[q] = (IF q = p THEN r ELSE reg[q])
  BY DEF Goto, TypeOK
<1>2. ASSUME NEW i \in Inums, NEW q \in Procs
      PROVE  lock'[i] = q <=> Has(Place(pc'[q], reg'[q]), reg'[q], i)
  <2>1. CASE q = p  BY <1>1, <2>1
  <2>2. CASE q # p
    <3>1. lock'[i] = q <=> lock[i] = q
      BY <2>2, InodeAssumption
    <3>2. QED  BY <1>1, <2>2, <3>1 DEF LockInv, At
  <2>3. QED  BY <2>1, <2>2
<1>3. QED  BY <1>2 DEF LockInv, At

\* The variables of a call that goes on with iput().
Going(r, x, l) ==
  [(IF l = "user" THEN Blank ELSE [r EXCEPT ![x] = None])
     EXCEPT !.put = r[x], !.ret = l]

\* A process outside of calls.
LEMMA BlankReg == Blank \in Reg
<1>1. <<>> \in Seq(Names \cup Dots)
  OBVIOUS
<1>2. QED  BY <1>1 DEF Blank, Reg

\* What that comes to, for variables r and s before and after.
Goes(s, r, x, l) ==
  /\ s \in Reg /\ s.put = r[x] /\ s.ret = l
  /\ l = "user" => /\ s.call = None /\ s.want = None /\ s.name = None
                   /\ s.cur = None /\ s.dp = None /\ s.ip = None
  /\ l # "user" => /\ s.call = r.call /\ s.want = r.want /\ s.name = r.name
                   /\ s.path = r.path
                   /\ s.cur = IF x = "cur" THEN None ELSE r.cur
                   /\ s.dp = IF x = "dp" THEN None ELSE r.dp
                   /\ s.ip = IF x = "ip" THEN None ELSE r.ip

\* A call that goes on with iput().
LEMMA GoingFields ==
  ASSUME NEW r \in Reg, NEW x \in {"cur", "dp", "ip"}, NEW l \in Labels
  PROVE  Goes(Going(r, x, l), r, x, l)
<1>1. r[x] \in Inums \cup {None}
  BY DEF Reg
<1>2. CASE l = "user"
  <2>1. Going(r, x, l) = [Blank EXCEPT !.put = r[x], !.ret = l]
    BY <1>2 DEF Going
  <2> DEFINE v == r[x]
  <2>2. v \in Inums \cup {None}
    BY <1>1
  <2> HIDE DEF v
  <2>3. LET s == [Blank EXCEPT !.put = v, !.ret = l] IN
        /\ s \in Reg /\ s.put = v /\ s.ret = l
        /\ s.call = None /\ s.want = None /\ s.name = None
        /\ s.cur = None /\ s.dp = None /\ s.ip = None
    BY <2>2, BlankReg DEF Blank, Reg
  <2>4. QED  BY <2>1, <2>3, <1>2 DEF v, Goes
<1>3. CASE l # "user"
  <2>1. Going(r, x, l) = [r EXCEPT ![x] = None, !.put = r[x], !.ret = l]
    BY <1>3 DEF Going, Reg
  <2>2. CASE x = "cur"  BY <2>1, <2>2, <1>3 DEF Reg, Goes
  <2>3. CASE x = "dp"  BY <2>1, <2>3, <1>3 DEF Reg, Goes
  <2>4. CASE x = "ip"  BY <2>1, <2>4, <1>3 DEF Reg, Goes
  <2>5. QED  BY <2>2, <2>3, <2>4
<1>4. QED  BY <1>2, <1>3

\* What follows from the number of references.
LEMMA OneRef ==
  ASSUME TypeOK, RefInv, NEW p \in Procs, NEW x \in Places, NEW i \in Inums,
         Pts[p][x] = i
  PROVE  ref[i] > 0
<1>1. <<p, x>> \in To(Pts, i)
  BY DEF To
<1>2. Cardinality(To(Pts, i)) # 0 /\ Cardinality(To(Pts, i)) \in Nat
  BY <1>1, FiniteTo, FS_EmptySet
<1>3. QED  BY <1>2 DEF RefInv, Counted

\* Two pointers are two references.
LEMMA TwoRefs ==
  ASSUME TypeOK, RefInv, NEW p \in Procs, NEW x \in Places,
         NEW q \in Procs, NEW y \in Places, p # q \/ x # y, NEW i \in Inums,
         Pts[p][x] = i, Pts[q][y] = i
  PROVE  ref[i] > 1
<1>1. <<p, x>> \in To(Pts, i) /\ <<q, y>> \in To(Pts, i) /\ <<p, x>> # <<q, y>>
  BY DEF To
<1>2. Cardinality(To(Pts, i)) # 1
  BY <1>1, FiniteTo, FS_Singleton
<1>3. ref[i] = Cardinality(To(Pts, i)) /\ ref[i] \in Nat
  BY DEF RefInv, Counted, TypeOK
<1>4. QED  BY <1>2, <1>3, OneRef

\* An inode that is being freed has no other pointer.
LEMMA NotFreed ==
  ASSUME TypeOK, RefInv, FreeInv, NEW p \in Procs, NEW x \in Places,
         NEW i \in Inums, Pts[p][x] = i, x = "put" => pc[p] \notin Frees
  PROVE  ~Freeing(i)
<1> SUFFICES ASSUME NEW q \in Procs, pc[q] \in Frees, reg[q].put = i
             PROVE  FALSE
  BY DEF Freeing, Frees
<1>1. ref[i] = 1
  BY DEF FreeInv
<1>2. "put" \in Places /\ Pts[q]["put"] = i
  BY PtsType DEF Places, Pointers
<1>3. p # q \/ x # "put"
  OBVIOUS
<1>4. QED  BY <1>1, <1>2, <1>3, TwoRefs

\* The pointers of a call.
LEMMA NotFreedReg ==
  ASSUME TypeOK, RefInv, FreeInv, NEW p \in Procs, NEW x \in Pointers,
         reg[p][x] # None, x = "put" => pc[p] \notin Frees
  PROVE  /\ reg[p][x] \in Inums /\ ~Freeing(reg[p][x]) /\ ref[reg[p][x]] > 0
<1>1. x \in Places /\ Pts[p][x] = reg[p][x] /\ reg[p][x] \in Inums
  BY PtsType DEF Places, Table
<1>2. QED  BY <1>1, NotFreed, OneRef

\* A step outside the critical part of iput(): the inodes in ls may change,
\* others get at most a reference.
LEMMA QuietStep ==
  ASSUME TypeOK, TypeOK', ShapeInv, FreeInv, MemInv, NEW p \in Procs,
         NEW l, NEW r, Goto(p, l, r), pc[p] \notin Frees, l \notin Frees,
         NEW ls \in SUBSET Inums,
         \A i \in ls : /\ ~Freeing(i)
                       /\ dsk'[i].type # "free"
                       /\ valid'[i] => mem'[i] = dsk'[i] /\ ref'[i] > 0
                       /\ lock'[i] # None => valid'[i],
         \A i \in Inums \ ls : /\ valid'[i] = valid[i]
                               /\ mem'[i] = mem[i]
                               /\ dsk'[i] = dsk[i]
                               /\ lock'[i] # None => lock[i] # None,
         \A i \in Inums : ref'[i] = ref[i] \/ (~Freeing(i) /\ ref'[i] = ref[i] + 1)
  PROVE  FreeInv' /\ MemInv'
<1>1. \A q \in Procs : pc'[q] = (IF q = p THEN l ELSE pc[q])
                        /\ reg'[q] = (IF q = p THEN r ELSE reg[q])
  BY DEF Goto, TypeOK
<1>2. FreeInv'
  <2> SUFFICES ASSUME NEW q \in Procs, pc'[q] \in Frees
               PROVE  LET i == reg'[q].put IN
                      /\ ref'[i] = 1 /\ valid'[i] /\ mem'[i].nlink = 0
                      /\ pc'[q] = "iput_done" => mem'[i].type = "free"
    BY DEF FreeInv
  <2> DEFINE i == reg[q].put
  <2>1. q # p /\ pc'[q] = pc[q] /\ reg'[q] = reg[q]
    BY <1>1
  <2>2. /\ ref[i] = 1 /\ valid[i] /\ mem[i].nlink = 0
        /\ pc[q] = "iput_done" => mem[i].type = "free"
    BY <2>1 DEF FreeInv
  <2>3. Freeing(i)
    BY <2>1 DEF Freeing, Frees
  <2>4. i \in Inums
    <3>1. i \in Inums \cup {None}
      BY DEF TypeOK, Reg
    <3>2. i # None
      BY <2>1 DEF ShapeInv, ShapeOK, Frees, Iputs
    <3>3. QED  BY <3>1, <3>2
  <2>5. i \notin ls /\ ref'[i] = ref[i]
    BY <2>3, <2>4
  <2>6. QED  BY <2>1, <2>2, <2>4, <2>5
<1>3. MemInv'
  <2> SUFFICES ASSUME NEW i \in Inums
               PROVE  /\ lock'[i] # None => valid'[i]
                      /\ valid'[i] => ref'[i] > 0 /\ mem'[i] = dsk'[i]
                      /\ valid'[i] /\ dsk'[i].type = "free" =>
                           \E q \in Procs : pc'[q] = "iput_done" /\ reg'[q].put = i
    BY DEF MemInv
  <2>1. CASE i \in ls  BY <2>1
  <2>2. CASE i \notin ls
    <3>1. ref[i] \in Nat /\ (valid[i] => ref[i] > 0 /\ mem[i] = dsk[i])
      BY DEF MemInv, TypeOK
    <3>2. (lock'[i] # None => valid'[i])
          /\ (valid'[i] => ref'[i] > 0 /\ mem'[i] = dsk'[i])
      BY <2>2, <3>1 DEF MemInv
    <3>3. ASSUME valid'[i], dsk'[i].type = "free"
          PROVE  \E q \in Procs : pc'[q] = "iput_done" /\ reg'[q].put = i
      <4>1. PICK q \in Procs : pc[q] = "iput_done" /\ reg[q].put = i
        BY <2>2, <3>3 DEF MemInv
      <4>2. q # p
        BY <4>1 DEF Frees
      <4>3. QED  BY <1>1, <4>1, <4>2
    <3>4. QED  BY <3>2, <3>3
  <2>3. QED  BY <2>1, <2>2
<1>4. QED  BY <1>2, <1>3

\* The fields of an inode as ilock() presents it.
LEMMA DinodeFields ==
  ASSUME TypeOK, NEW i \in Inums
  PROVE  /\ Load(i) \in Dinode
         /\ \A d \in Dinode, k \in Int :
              LET e == [d EXCEPT !.nlink = k] IN
              e \in Dinode /\ e.type = d.type /\ e.nlink = k
         /\ \A d \in Dinode : d.nlink \in Int
<1>1. Load(i) \in Dinode
  BY DEF Load, TypeOK
<1>2. QED  BY <1>1 DEF Dinode

\* The call goes on with iput() of pointer x and then at l.
LEMMA PutStep ==
  ASSUME TypeOK, ShapeInv, RefInv, NEW p \in Procs, pc[p] \notin Iputs,
         NEW x \in {"cur", "dp", "ip"}, reg[p][x] # None,
         NEW l \in Labels \ Iputs, GotoIput(p, reg[p], x, l),
         UNCHANGED <<cwd, fd, ref>>,
         l = "user" => \A z \in {"cur", "dp", "ip"} \ {x} : reg[p][z] = None,
         l # "user" => Shape(l, Going(reg[p], x, l))
  PROVE  /\ RefInv' /\ ShapeInv'
         /\ pc' \in [Procs -> Labels] /\ reg' \in [Procs -> Reg]
         /\ Going(reg[p], x, l) \in Reg
         /\ Goto(p, "iput", Going(reg[p], x, l))
         /\ Place("iput", Going(reg[p], x, l)) = l
<1> DEFINE s == Going(reg[p], x, l)
<1>1. Goto(p, "iput", s)
  BY DEF GotoIput, Going
<1>2. reg[p] \in Reg
  BY DEF TypeOK
<1>3. /\ s \in Reg /\ s.put = reg[p][x] /\ s.ret = l
      /\ l = "user" =>
              /\ s.call = None /\ s.want = None /\ s.name = None
              /\ s.cur = None /\ s.dp = None /\ s.ip = None
      /\ l # "user" =>
              /\ s.cur = IF x = "cur" THEN None ELSE reg[p].cur
              /\ s.dp = IF x = "dp" THEN None ELSE reg[p].dp
              /\ s.ip = IF x = "ip" THEN None ELSE reg[p].ip
  <2>1. l \in Labels
    OBVIOUS
  <2>2. Goes(s, reg[p], x, l)
    BY <1>2, <2>1, GoingFields
  <2>3. QED  BY <2>2 DEF Goes
<1> HIDE DEF s
<1>4. Place("iput", s) = l
  BY <1>3 DEF Place, Iputs
<1>5. Shape(l, s)
  <2>1. CASE l # "user"  BY <2>1 DEF s
  <2>2. CASE l = "user"
    BY <2>2, <1>3 DEF Shape, Labels, WithDp, WithIp, HoldDp, HoldIp, Iputs
  <2>3. QED  BY <2>1, <2>2
<1>6. ShapeOK("iput", s)
  BY <1>3, <1>4, <1>5 DEF ShapeOK, Iputs
<1>7. reg[p].put = None
  BY DEF ShapeInv, ShapeOK
<1>8. s[x] = None /\ \A z \in Pointers \ {x, "put"} : s[z] = reg[p][z]
  <2>1. CASE l = "user"  BY <2>1, <1>3 DEF Pointers
  <2>2. CASE l # "user"  BY <2>2, <1>3 DEF Pointers
  <2>3. QED  BY <2>1, <2>2
<1>9. RefInv'
  <2>1. x \in Pointers /\ "put" \in Pointers /\ x # "put"
    BY DEF Pointers
  <2>2. reg[p]["put"] = None /\ s["put"] = reg[p][x]
    BY <1>3, <1>7
  <2>3. QED  BY <1>1, <1>3, <1>8, <2>1, <2>2, MoveRefs
<1>10. "iput" \in Labels
  BY DEF Labels, Iputs
<1>11. QED  BY <1>1, <1>3, <1>4, <1>6, <1>9, <1>10, ShapeStep DEF s

\* ilock() presents what the disk has, unless the inode is being freed.
LEMMA LoadedIsDisk ==
  ASSUME TypeOK, MemInv, NEW i \in Inums, CanLock(i), ~Freeing(i)
  PROVE  Load(i) = dsk[i] /\ dsk[i].type # "free"
<1>1. CASE valid[i]
  <2>1. mem[i] = dsk[i]
    BY <1>1 DEF MemInv
  <2>2. dsk[i].type # "free"
    BY <1>1 DEF MemInv, Freeing
  <2>3. QED  BY <1>1, <2>1, <2>2 DEF Load
<1>2. CASE ~valid[i]  BY <1>2 DEF CanLock, Load
<1>3. QED  BY <1>1, <1>2

\* The cache after ilock().
LEMMA IlockTypes ==
  ASSUME TypeOK, NEW i \in Inums, ilock(i)
  PROVE  /\ valid' \in [Inums -> BOOLEAN] /\ mem' \in [Inums -> Dinode]
         /\ CanLock(i)
         /\ \A j \in Inums : /\ valid'[j] = (valid[j] \/ j = i)
                             /\ mem'[j] = IF j = i THEN Load(i) ELSE mem[j]
<1>1. Load(i) \in Dinode
  BY DinodeFields
<1>2. QED  BY <1>1 DEF ilock, Locked, TypeOK

\* The cache after iget(): no freed inode gets a reference in a regular history.
LEMMA IgetTypes ==
  ASSUME TypeOK, NEW i \in Inums, iget(i)
  PROVE  /\ ref' \in [Inums -> Nat] /\ overtaken' \in BOOLEAN
         /\ ref' = [ref EXCEPT ![i] = @ + 1]
         /\ ~overtaken' => ~overtaken /\ ~Freeing(i)
         /\ ~overtaken' => \A j \in Inums :
              ref'[j] = ref[j] \/ (~Freeing(j) /\ ref'[j] = ref[j] + 1)
<1>1. ref' = [ref EXCEPT ![i] = @ + 1] /\ overtaken' = (overtaken \/ Freeing(i))
  BY DEF iget
<1>2. overtaken' \in BOOLEAN
  BY <1>1
<1>3. ref' \in [Inums -> Nat]
  BY <1>1 DEF TypeOK
<1>4. ASSUME ~overtaken' PROVE ~overtaken /\ ~Freeing(i)
  BY <1>1, <1>4
<1>5. \A j \in Inums : ref'[j] = IF j = i THEN ref[j] + 1 ELSE ref[j]
  BY <1>1 DEF TypeOK
<1>6. QED  BY <1>1, <1>2, <1>3, <1>4, <1>5

\* A step with ilock() of one of the call's inodes.
LEMMA IlockStep ==
  ASSUME TypeOK, TypeOK', ShapeInv, RefInv, FreeInv, MemInv, NEW p \in Procs,
         NEW l, NEW r, Goto(p, l, r), pc[p] \notin Iputs, l \notin Frees,
         NEW x \in {"cur", "dp", "ip"}, reg[p][x] # None, ilock(reg[p][x]),
         dsk' = dsk,
         \A i \in Inums : lock'[i] # None => lock[i] # None \/ i = reg[p][x],
         \A i \in Inums : ref'[i] = ref[i] \/ (~Freeing(i) /\ ref'[i] = ref[i] + 1)
  PROVE  FreeInv' /\ MemInv'
<1> DEFINE j == reg[p][x]
<1>1. j \in Inums /\ ~Freeing(j) /\ ref[j] > 0
  <2>1. x \in Pointers /\ x # "put"
    BY DEF Pointers
  <2>2. QED  BY <2>1, NotFreedReg
<1>2. pc[p] \notin Frees
  BY DEF Iputs, Frees
<1>3. /\ CanLock(j)
      /\ \A i \in Inums : /\ valid'[i] = (valid[i] \/ i = j)
                          /\ mem'[i] = IF i = j THEN Load(j) ELSE mem[i]
  BY <1>1, IlockTypes
<1>4. Load(j) = dsk[j] /\ dsk[j].type # "free"
  BY <1>1, <1>3, LoadedIsDisk
<1>5. ref'[j] > 0
  <2>1. ref[j] \in Nat
    BY <1>1 DEF TypeOK
  <2>2. ref'[j] = ref[j] \/ ref'[j] = ref[j] + 1
    BY <1>1
  <2>3. QED  BY <1>1, <2>1, <2>2
<1> DEFINE ls == {j}
<1>6. \A i \in ls : /\ ~Freeing(i)
                    /\ dsk'[i].type # "free"
                    /\ valid'[i] => mem'[i] = dsk'[i] /\ ref'[i] > 0
                    /\ lock'[i] # None => valid'[i]
  BY <1>1, <1>3, <1>4, <1>5
<1>7. \A i \in Inums \ ls : /\ valid'[i] = valid[i]
                            /\ mem'[i] = mem[i]
                            /\ dsk'[i] = dsk[i]
                            /\ lock'[i] # None => lock[i] # None
  <2>1. \A i \in Inums : valid[i] \in BOOLEAN
    BY DEF TypeOK
  <2>2. \A i \in Inums \ ls : valid'[i] = valid[i] /\ mem'[i] = mem[i]
    BY <1>3, <2>1
  <2>3. QED  BY <2>2
<1>8. ls \in SUBSET Inums
  BY <1>1
<1> HIDE DEF ls
<1>9. QED  BY <1>2, <1>6, <1>7, <1>8, QuietStep

\* A step that leaves the inodes alone.
LEMMA PlainStep ==
  ASSUME TypeOK, TypeOK', ShapeInv, FreeInv, MemInv, NEW p \in Procs,
         NEW l, NEW r, Goto(p, l, r), pc[p] \notin Iputs, l \notin Frees,
         UNCHANGED <<dsk, valid, mem>>,
         \A i \in Inums : lock'[i] # None => lock[i] # None,
         \A i \in Inums : ref'[i] = ref[i] \/ (~Freeing(i) /\ ref'[i] = ref[i] + 1)
  PROVE  FreeInv' /\ MemInv'
<1>1. pc[p] \notin Frees
  BY DEF Iputs, Frees
<1>2. {} \in SUBSET Inums
  OBVIOUS
<1>3. QED  BY <1>1, <1>2, QuietStep

\* The locks do not change.
LEMMA LockSame ==
  ASSUME TypeOK, LockInv, NEW p \in Procs, NEW l \in Labels, NEW r \in Reg,
         Goto(p, l, r), lock' = lock,
         \A i \in Inums : Has(Place(l, r), r, i) <=> Has(At(p), reg[p], i)
  PROVE  LockInv'
<1>1. \A i \in Inums : lock'[i] = p <=> Has(Place(l, r), r, i)
  BY DEF LockInv
<1>2. QED  BY <1>1, LockStep

-----------------------------------------------------------------------------
(***************************************************************************)
(* The actions.                                                            *)
(***************************************************************************)

\* A system call begins.
LEMMA BeginKeeps ==
  ASSUME CacheInv, NEW p \in Procs, NEW c \in Calls, Begin(p, c[1], c[2])
  PROVE  CacheInv'
<1> DEFINE i == Start(p, c[2])
           r == [Blank EXCEPT !.call = c[1], !.path = c[2].elems,
                              !.want = Wanted(c[1]), !.cur = i]
<1> USE DEF CacheInv
<1>1. c[1] \in CallNames /\ c[2] \in Paths /\ c[2].elems \in Seq(Names \cup Dots)
  <2>1. c \in CallNames \X Paths
    BY InodeAssumption
  <2>2. c[2] \in [abs : BOOLEAN, elems : Seq(Names \cup Dots)]
    BY <2>1, InodeAssumption
  <2>3. QED  BY <2>1, <2>2
<1>2. i \in Inums
  BY InodeAssumption DEF Start, TypeOK
<1>3. /\ r \in Reg /\ r.call = c[1] /\ r.want = Wanted(c[1]) /\ r.cur = i
      /\ r.dp = None /\ r.ip = None /\ r.put = None
  <2> DEFINE v == c[1]
             e == c[2].elems
             w == Wanted(c[1])
             j == i
  <2>1. v \in CallNames /\ e \in Seq(Names \cup Dots) /\ w \in {"ip", "dp"}
        /\ j \in Inums
    BY <1>1, <1>2 DEF Wanted
  <2> HIDE DEF v, e, w, j
  <2>2. LET s == [Blank EXCEPT !.call = v, !.path = e, !.want = w, !.cur = j] IN
        /\ s \in Reg /\ s.call = v /\ s.want = w /\ s.cur = j
        /\ s.dp = None /\ s.ip = None /\ s.put = None
    BY <2>1, BlankReg DEF Blank, Reg
  <2>3. QED  BY <2>2 DEF v, e, w, j
<1>4. /\ Goto(p, "namex", r) /\ iget(i) /\ pc[p] = "user" /\ Regular
      /\ UNCHANGED <<dsk, dir, valid, mem, lock, cwd, fd, panicked, strayed>>
  BY DEF Begin, diskVars
<1> HIDE DEF r, i
<1>5. reg[p].cur = None /\ reg[p].dp = None /\ reg[p].ip = None /\ reg[p].put = None
  BY <1>4 DEF ShapeInv, ShapeOK, Shape, Place, Iputs, WithDp, WithIp, HoldDp, HoldIp
<1>6. ShapeOK("namex", r)
  BY <1>1, <1>2, <1>3, InodeAssumption DEF ShapeOK, Shape, Place, Iputs, WithDp, WithIp,
     HoldDp, HoldIp, Labels, Linking, Wanted, CallNames, Creating
<1>7. "namex" \in Labels
  BY DEF Labels
<1>8. ShapeInv' /\ pc' \in [Procs -> Labels] /\ reg' \in [Procs -> Reg]
  BY <1>3, <1>4, <1>6, <1>7, ShapeStep
<1>9. TypeOK'
  BY <1>2, <1>4, <1>8, IgetTypes DEF TypeOK
<1>10. LockInv'
  <2>1. \A j \in Inums : Has(Place("namex", r), r, j) <=> Has(At(p), reg[p], j)
    BY <1>4 DEF Has, Place, At, Iputs, HoldIp, HoldDp
  <2>2. QED  BY <1>3, <1>4, <1>7, <2>1, LockSame
<1>11. RefInv'
  <2>1. reg[p]["cur"] = None /\ r["cur"] = i /\ "cur" \in Pointers
        /\ Agree(r, reg[p], {"cur"})
    BY <1>3, <1>5 DEF Pointers, Agree
  <2>2. QED  BY <1>2, <1>3, <1>4, <2>1, GainRef, IgetTypes
<1>12. ASSUME Regular' PROVE FreeInv' /\ MemInv'
  <2>1. Regular /\ ~overtaken'
    BY <1>4, <1>12 DEF Regular
  <2>2. pc[p] \notin Iputs /\ "namex" \notin Frees
    BY <1>4 DEF Iputs, Frees
  <2>3. QED  BY <1>2, <1>4, <1>9, <2>1, <2>2, IgetTypes, PlainStep
<1>13. QED  BY <1>8, <1>9, <1>10, <1>11, <1>12

\* A call locks the inode of pointer x, looks at it, unlocks it and goes on with
\* iput() of it.
LEMMA IlockPutKeeps ==
  ASSUME CacheInv, NEW p \in Procs, pc[p] \notin Iputs,
         NEW x \in {"cur", "dp", "ip"}, reg[p][x] # None,
         NEW l \in Labels \ Iputs, GotoIput(p, reg[p], x, l), ilock(reg[p][x]),
         UNCHANGED <<dsk, ref, lock, cwd, fd, panicked, overtaken>>,
         dir' \in [Inums -> [Names \cup Dots -> Inums \cup {None}]],
         strayed' \in BOOLEAN, ~strayed' => ~strayed,
         l = "user" => \A z \in {"cur", "dp", "ip"} \ {x} : reg[p][z] = None,
         l # "user" => Shape(l, Going(reg[p], x, l)),
         \A i \in Inums : Has(l, Going(reg[p], x, l), i) <=> Has(pc[p], reg[p], i)
  PROVE  CacheInv'
<1> DEFINE s == Going(reg[p], x, l)
           j == reg[p][x]
<1>1. /\ TypeOK /\ ShapeInv /\ LockInv /\ RefInv
      /\ Regular => FreeInv /\ MemInv
  BY DEF CacheInv
<1>2. /\ RefInv' /\ ShapeInv'
      /\ pc' \in [Procs -> Labels] /\ reg' \in [Procs -> Reg]
      /\ s \in Reg /\ Goto(p, "iput", s) /\ Place("iput", s) = l
  BY <1>1, PutStep
<1>3. j \in Inums
  BY <1>1 DEF TypeOK, Reg
<1>4. TypeOK'
  <2>1. valid' \in [Inums -> BOOLEAN] /\ mem' \in [Inums -> Dinode]
    BY <1>1, <1>3, IlockTypes
  <2>2. QED  BY <1>1, <1>2, <2>1 DEF TypeOK
<1>5. "iput" \in Labels /\ "iput" \notin Frees /\ At(p) = pc[p]
  BY DEF Labels, Iputs, Frees, At, Place
<1>6. LockInv'
  <2>1. \A i \in Inums : Has(Place("iput", s), s, i) <=> Has(At(p), reg[p], i)
    BY <1>2, <1>5
  <2> HIDE DEF s
  <2>2. QED  BY <1>1, <1>2, <1>5, <2>1, LockSame
<1>7. ASSUME Regular' PROVE FreeInv' /\ MemInv'
  <2>1. Regular
    BY <1>7 DEF Regular
  <2>2. \A i \in Inums : lock'[i] # None => lock[i] # None \/ i = reg[p][x]
    OBVIOUS
  <2>3. \A i \in Inums : ref'[i] = ref[i] \/ (~Freeing(i) /\ ref'[i] = ref[i] + 1)
    OBVIOUS
  <2> HIDE DEF s
  <2>4. QED  BY <1>1, <1>2, <1>4, <1>5, <2>1, <2>2, <2>3, IlockStep
<1>8. QED  BY <1>2, <1>4, <1>6, <1>7 DEF CacheInv

\* The same without ilock(): the call may let go of its lock instead.
LEMMA PlainPutKeeps ==
  ASSUME CacheInv, NEW p \in Procs, pc[p] \notin Iputs,
         NEW x \in {"cur", "dp", "ip"}, reg[p][x] # None,
         NEW l \in Labels \ Iputs, GotoIput(p, reg[p], x, l),
         UNCHANGED <<dsk, dir, ref, valid, mem, cwd, fd, panicked, history>>,
         lock' \in [Inums -> Procs \cup {None}],
         l = "user" => \A z \in {"cur", "dp", "ip"} \ {x} : reg[p][z] = None,
         l # "user" => Shape(l, Going(reg[p], x, l)),
         \A i \in Inums :
           /\ lock'[i] = IF Has(pc[p], reg[p], i) THEN None ELSE lock[i]
           /\ ~Has(l, Going(reg[p], x, l), i)
  PROVE  CacheInv'
<1> DEFINE s == Going(reg[p], x, l)
<1>1. /\ TypeOK /\ ShapeInv /\ LockInv /\ RefInv
      /\ Regular => FreeInv /\ MemInv
  BY DEF CacheInv
<1>2. /\ RefInv' /\ ShapeInv'
      /\ pc' \in [Procs -> Labels] /\ reg' \in [Procs -> Reg]
      /\ s \in Reg /\ Goto(p, "iput", s) /\ Place("iput", s) = l
  BY <1>1, PutStep
<1>3. TypeOK'
  BY <1>1, <1>2 DEF TypeOK, history
<1>4. "iput" \in Labels /\ "iput" \notin Frees /\ At(p) = pc[p]
  BY DEF Labels, Iputs, Frees, At, Place
<1>5. LockInv'
  <2>1. \A i \in Inums : lock[i] = p <=> Has(pc[p], reg[p], i)
    BY <1>1, <1>4 DEF LockInv
  <2>2. \A i \in Inums : /\ lock'[i] = lock[i] \/ {lock[i], lock'[i]} \subseteq {None, p}
                         /\ lock'[i] = p <=> Has(Place("iput", s), s, i)
    BY <1>2, <2>1, InodeAssumption
  <2> HIDE DEF s
  <2>3. QED  BY <1>1, <1>2, <1>4, <2>2, LockStep
<1>6. ASSUME Regular' PROVE FreeInv' /\ MemInv'
  <2>1. Regular
    BY <1>6 DEF Regular, history
  <2>2. \A i \in Inums : lock'[i] # None => lock[i] # None
    OBVIOUS
  <2>3. \A i \in Inums : ref'[i] = ref[i] \/ (~Freeing(i) /\ ref'[i] = ref[i] + 1)
    OBVIOUS
  <2> HIDE DEF s
  <2>4. QED  BY <1>1, <1>2, <1>3, <1>4, <2>1, <2>2, <2>3, PlainStep
<1>7. QED  BY <1>2, <1>3, <1>5, <1>6 DEF CacheInv

\* What a process has at its label.
LEMMA CallState ==
  ASSUME CacheInv, NEW p \in Procs
  PROVE  /\ TypeOK /\ ShapeInv /\ LockInv /\ RefInv
         /\ Regular => FreeInv /\ MemInv
         /\ reg[p] \in Reg
         /\ pc[p] \notin Iputs =>
              At(p) = pc[p] /\ Shape(pc[p], reg[p]) /\ reg[p].put = None
BY DEF CacheInv, TypeOK, ShapeInv, ShapeOK, At, Place

\* namex() meets a name that is not there, or no directory.
LEMMA NamexFailsKeeps ==
  ASSUME CacheInv, NEW p \in Procs, NamexFails(p)
  PROVE  CacheInv'
<1> DEFINE l == NotFound(reg[p])
           s == Going(reg[p], "cur", l)
<1> USE DEF Iputs, WithDp, WithIp, HoldDp, HoldIp
<1>1. /\ TypeOK /\ pc[p] = "namex" /\ Shape("namex", reg[p]) /\ reg[p] \in Reg
      /\ ilock(reg[p].cur) /\ GotoIput(p, reg[p], "cur", l)
      /\ UNCHANGED <<dsk, dir, ref, lock, cwd, fd, panicked, overtaken, strayed>>
  BY CallState DEF NamexFails, Visits, diskVars, history
<1>2. reg[p].cur # None /\ reg[p].dp = None /\ (reg[p].ip # None <=> Linking(reg[p]))
  BY <1>1 DEF Shape
<1>3. l \in Labels \ Iputs /\ l \in {"user", "link_bad"}
      /\ (l = "link_bad" <=> Linking(reg[p]))
  BY DEF NotFound, Labels, Linking
<1>4. l # "user" => Shape(l, s)
  <2>1. l # "user" => /\ s.call = reg[p].call /\ s.want = reg[p].want
                      /\ s.cur = None /\ s.dp = reg[p].dp /\ s.ip = reg[p].ip
    <3>1. Goes(s, reg[p], "cur", l)
      BY <1>1, <1>3, GoingFields
    <3>2. QED  BY <3>1 DEF Goes
  <2> HIDE DEF s
  <2>2. QED  BY <1>2, <1>3, <2>1 DEF Shape, Linking
<1>5. \A i \in Inums : Has(l, s, i) <=> Has(pc[p], reg[p], i)
  BY <1>1, <1>3 DEF Has
<1>6. l = "user" => \A z \in {"cur", "dp", "ip"} \ {"cur"} : reg[p][z] = None
  BY <1>2, <1>3
<1>7. /\ dir' \in [Inums -> [Names \cup Dots -> Inums \cup {None}]]
      /\ strayed' \in BOOLEAN /\ (~strayed' => ~strayed)
  BY <1>1 DEF TypeOK
<1>8. /\ reg[p]["cur"] # None /\ ilock(reg[p]["cur"]) /\ pc[p] \notin Iputs
  BY <1>1, <1>2
<1> HIDE DEF l, s
<1>9. QED  BY <1>1, <1>3, <1>4, <1>5, <1>6, <1>7, <1>8, IlockPutKeeps DEF s

\* namex() has used up the path.
LEMMA NamexEndKeeps ==
  ASSUME CacheInv, NEW p \in Procs, NamexEnd(p)
  PROVE  CacheInv'
<1> USE DEF Iputs, WithDp, WithIp, HoldDp, HoldIp
<1>1. /\ TypeOK /\ ShapeInv /\ LockInv /\ RefInv
      /\ Regular => FreeInv /\ MemInv
      /\ pc[p] = "namex" /\ Shape("namex", reg[p]) /\ reg[p] \in Reg
      /\ reg[p].put = None /\ At(p) = "namex"
      /\ UNCHANGED <<dsk, dir, ref, valid, mem, lock, cwd, fd, panicked, overtaken, strayed>>
  BY CallState DEF NamexEnd, diskVars, history
<1>2. reg[p].cur # None /\ reg[p].dp = None /\ (reg[p].ip # None <=> Linking(reg[p]))
  BY <1>1 DEF Shape
<1>3. CASE reg[p].want # "ip"
  <2> DEFINE l == NotFound(reg[p])
             s == Going(reg[p], "cur", l)
  <2>1. GotoIput(p, reg[p], "cur", l)
    BY <1>3 DEF NamexEnd
  <2>2. l \in Labels \ Iputs /\ l \in {"user", "link_bad"}
        /\ (l = "link_bad" <=> Linking(reg[p]))
    BY DEF NotFound, Labels, Linking
  <2>3. l # "user" => Shape(l, s)
    <3>1. l # "user" => /\ s.call = reg[p].call /\ s.want = reg[p].want
                        /\ s.cur = None /\ s.dp = reg[p].dp /\ s.ip = reg[p].ip
      <4>1. Goes(s, reg[p], "cur", l)
        BY <1>1, <2>2, GoingFields
      <4>2. QED  BY <4>1 DEF Goes
    <3> HIDE DEF s
    <3>2. QED  BY <1>2, <2>2, <3>1 DEF Shape, Linking
  <2>4. \A i \in Inums : lock'[i] = (IF Has(pc[p], reg[p], i) THEN None ELSE lock[i])
                         /\ ~Has(l, s, i)
    BY <1>1, <2>2 DEF Has
  <2>5. l = "user" => \A z \in {"cur", "dp", "ip"} \ {"cur"} : reg[p][z] = None
    BY <1>2, <2>2
  <2>6. lock' \in [Inums -> Procs \cup {None}] /\ reg[p]["cur"] # None
        /\ pc[p] \notin Iputs
    BY <1>1, <1>2 DEF TypeOK
  <2> HIDE DEF l, s
  <2>7. QED  BY <1>1, <2>1, <2>2, <2>3, <2>4, <2>5, <2>6, PlainPutKeeps DEF s, history
<1>4. CASE reg[p].want = "ip"
  <2> DEFINE l == Found(reg[p])
             s == [reg[p] EXCEPT !.ip = reg[p].cur, !.cur = None]
  <2>1. Goto(p, l, s)
    BY <1>4 DEF NamexEnd
  <2>2. /\ s \in Reg /\ s.call = reg[p].call /\ s.want = "ip" /\ s.cur = None
        /\ s.dp = None /\ s.ip = reg[p].cur /\ s.put = None
    BY <1>1, <1>2, <1>4 DEF Reg
  <2>3. l \in {"open", "chdir", "link"} /\ reg[p].call = l
    BY <1>1, <1>4 DEF Shape, Found, CallNames, Creating
  <2> HIDE DEF l, s
  <2>4. l \in Labels /\ Place(l, s) = l /\ l \notin Frees /\ pc[p] \notin Iputs
    BY <1>1, <2>3 DEF Labels, Place, Frees
  <2>5. ShapeOK(l, s)
    BY <1>2, <2>2, <2>3, <2>4 DEF ShapeOK, Shape, Creating, Linking
  <2>6. ShapeInv' /\ pc' \in [Procs -> Labels] /\ reg' \in [Procs -> Reg]
    BY <1>1, <2>1, <2>2, <2>4, <2>5, ShapeStep
  <2>7. TypeOK'
    BY <1>1, <2>6 DEF TypeOK
  <2>8. LockInv'
    <3>1. \A i \in Inums : Has(Place(l, s), s, i) <=> Has(At(p), reg[p], i)
      BY <1>1, <2>3, <2>4 DEF Has
    <3>2. QED  BY <1>1, <2>1, <2>2, <2>4, <3>1, LockSame
  <2>9. RefInv'
    <3>1. reg[p].ip = None
      BY <1>2, <1>4 DEF Linking
    <3>2. /\ "cur" \in Pointers /\ "ip" \in Pointers
          /\ reg[p]["ip"] = None /\ reg[p]["cur"] # None /\ s["cur"] = None
          /\ s["ip"] = reg[p]["cur"]
          /\ \A z \in Pointers \ {"cur", "ip"} : s[z] = reg[p][z]
      BY <1>1, <1>2, <2>2, <3>1 DEF Pointers
    <3>3. QED  BY <1>1, <2>1, <2>2, <3>2, MoveRefs
  <2>10. ASSUME Regular' PROVE FreeInv' /\ MemInv'
    <3>1. Regular
      BY <1>1, <2>10 DEF Regular
    <3>2. QED  BY <1>1, <2>1, <2>4, <2>7, <3>1, PlainStep
  <2>11. QED  BY <2>6, <2>7, <2>8, <2>9, <2>10 DEF CacheInv
<1>5. QED  BY <1>3, <1>4

\* The registers with which nameiparent returns: dp is the directory it stopped
\* at, name the element of the path that is left.
AtTheParent(r, a, h, e) == [r EXCEPT !.dp = a, !.cur = None, !.name = h, !.path = e]

LEMMA ParentRegisters ==
  ASSUME NEW r \in Reg, NEW a \in Inums \cup {None},
         NEW h \in Names \cup Dots, NEW e \in Seq(Names \cup Dots)
  PROVE  /\ AtTheParent(r, a, h, e) \in Reg
         /\ AtTheParent(r, a, h, e).dp = a
         /\ AtTheParent(r, a, h, e).cur = None
         /\ AtTheParent(r, a, h, e).name = h
         /\ AtTheParent(r, a, h, e).call = r.call
         /\ AtTheParent(r, a, h, e).want = r.want
         /\ AtTheParent(r, a, h, e).ip = r.ip
         /\ AtTheParent(r, a, h, e).put = r.put
<1> DEFINE s == AtTheParent(r, a, h, e)
<1>1. s.dp = a /\ s.cur = None /\ s.name = h
  BY DEF Reg, AtTheParent
<1>2. s.call = r.call /\ s.want = r.want /\ s.ip = r.ip /\ s.put = r.put
  BY DEF Reg, AtTheParent
<1>3. s \in Reg
  BY DEF Reg, AtTheParent
<1>4. QED  BY <1>1, <1>2, <1>3

\* nameiparent() returns.
LEMMA NamexParentKeeps ==
  ASSUME CacheInv, NEW p \in Procs, NamexParent(p)
  PROVE  CacheInv'
<1> DEFINE l == Found(reg[p])
           s == [reg[p] EXCEPT !.dp = reg[p].cur, !.cur = None,
                               !.name = Head(reg[p].path), !.path = <<>>]
           j == reg[p].cur
<1> USE DEF Iputs, WithDp, WithIp, HoldDp, HoldIp
<1>1. /\ TypeOK /\ ShapeInv /\ LockInv /\ RefInv
      /\ Regular => FreeInv /\ MemInv
      /\ pc[p] = "namex" /\ Shape("namex", reg[p]) /\ reg[p] \in Reg
      /\ reg[p].put = None /\ At(p) = "namex" /\ reg[p].want = "dp"
      /\ reg[p].path # <<>> /\ ilock(j) /\ Goto(p, l, s)
      /\ UNCHANGED <<dsk, dir, ref, lock, cwd, fd, panicked, overtaken, strayed>>
  BY CallState DEF NamexParent, Visits, AtParent, diskVars, history
<1>2. reg[p].cur # None /\ reg[p].dp = None /\ (reg[p].ip # None <=> Linking(reg[p]))
  BY <1>1 DEF Shape
<1>3. Head(reg[p].path) \in Names \cup Dots /\ <<>> \in Seq(Names \cup Dots)
  <2>1. reg[p].path \in Seq(Names \cup Dots)
    BY <1>1 DEF Reg
  <2>2. QED  BY <1>1, <2>1
<1>4. /\ s \in Reg /\ s.call = reg[p].call /\ s.want = "dp" /\ s.cur = None
      /\ s.dp = reg[p].cur /\ s.ip = reg[p].ip /\ s.put = None
      /\ s.name \in Names \cup Dots
  <2> DEFINE h == Head(reg[p].path)
             e == <<>>
  <2>1. h \in Names \cup Dots /\ e \in Seq(Names \cup Dots)
    BY <1>3
  <2> HIDE DEF h, e
  <2>2. s = AtTheParent(reg[p], reg[p].cur, h, e)
    BY DEF h, e, AtTheParent
  <2> HIDE DEF s
  <2>3. reg[p].cur \in Inums \cup {None}
    BY <1>1 DEF Reg
  <2>4. /\ s \in Reg /\ s.dp = reg[p].cur /\ s.cur = None /\ s.name = h
        /\ s.call = reg[p].call /\ s.want = reg[p].want /\ s.ip = reg[p].ip
        /\ s.put = reg[p].put
    <3>1. reg[p] \in Reg
      BY <1>1
    <3> DEFINE c == reg[p].cur
               r == reg[p]
               t == AtTheParent(r, c, h, e)
    <3>2. c \in Inums \cup {None} /\ r \in Reg
      BY <2>3, <3>1
    <3> HIDE DEF c, r
    <3>3. /\ t \in Reg /\ t.dp = c /\ t.cur = None /\ t.name = h
          /\ t.call = r.call /\ t.want = r.want /\ t.ip = r.ip /\ t.put = r.put
      BY <2>1, <3>2, ParentRegisters
    <3> HIDE DEF t
    <3>4. s = t
      BY <2>2 DEF t, r, c
    <3>5. QED  BY <3>3, <3>4 DEF r, c
  <2>5. QED  BY <1>1, <2>1, <2>4
<1>5. /\ l \in {"create", "link_dp", "unlink"}
      /\ (l = "create" => reg[p].call \in Creating)
      /\ (l = "link_dp" <=> Linking(reg[p]))
      /\ (l = "unlink" => reg[p].call = "unlink")
  BY <1>1 DEF Shape, Found, CallNames, Creating, Linking
<1> HIDE DEF l, s
<1>6. l \in Labels /\ Place(l, s) = l /\ l \notin Frees /\ pc[p] \notin Iputs
  BY <1>1, <1>5 DEF Labels, Place, Frees
<1>7. ShapeOK(l, s)
  BY <1>2, <1>4, <1>5, <1>6, InodeAssumption DEF ShapeOK, Shape, Creating, Linking
<1>8. ShapeInv' /\ pc' \in [Procs -> Labels] /\ reg' \in [Procs -> Reg]
  BY <1>1, <1>4, <1>6, <1>7, ShapeStep
<1>9. TypeOK'
  <2>1. j \in Inums
    BY <1>1, <1>2 DEF Reg
  <2>2. valid' \in [Inums -> BOOLEAN] /\ mem' \in [Inums -> Dinode]
    BY <1>1, <2>1, IlockTypes
  <2>3. QED  BY <1>1, <1>8, <2>2 DEF TypeOK
<1>10. LockInv'
  <2>1. \A i \in Inums : Has(Place(l, s), s, i) <=> Has(At(p), reg[p], i)
    BY <1>1, <1>5, <1>6 DEF Has
  <2>2. QED  BY <1>1, <1>4, <1>6, <2>1, LockSame
<1>11. RefInv'
  <2>1. /\ "cur" \in Pointers /\ "dp" \in Pointers
        /\ reg[p]["dp"] = None /\ reg[p]["cur"] # None /\ s["cur"] = None
        /\ s["dp"] = reg[p]["cur"]
        /\ \A z \in Pointers \ {"cur", "dp"} : s[z] = reg[p][z]
    BY <1>1, <1>2, <1>4 DEF Pointers
  <2>2. QED  BY <1>1, <1>4, <2>1, MoveRefs
<1>12. ASSUME Regular' PROVE FreeInv' /\ MemInv'
  <2>1. Regular
    BY <1>1, <1>12 DEF Regular
  <2>2. reg[p]["cur"] # None /\ ilock(reg[p]["cur"])
    BY <1>1, <1>2
  <2>3. QED  BY <1>1, <1>6, <1>9, <2>1, <2>2, IlockStep
<1>13. QED  BY <1>8, <1>9, <1>10, <1>11, <1>12 DEF CacheInv

\* namex() goes on to the next element.
LEMMA NamexNextKeeps ==
  ASSUME CacheInv, NEW p \in Procs, NamexNext(p)
  PROVE  CacheInv'
<1> DEFINE j == reg[p].cur
           n == Entry(p)
           s == [reg[p] EXCEPT !.put = reg[p].cur, !.cur = n,
                               !.path = Tail(reg[p].path), !.ret = "namex"]
<1> USE DEF Iputs, WithDp, WithIp, HoldDp, HoldIp
<1>1. /\ TypeOK /\ ShapeInv /\ LockInv /\ RefInv
      /\ Regular => FreeInv /\ MemInv
      /\ pc[p] = "namex" /\ Shape("namex", reg[p]) /\ reg[p] \in Reg
      /\ reg[p].put = None /\ At(p) = "namex"
      /\ reg[p].path # <<>> /\ ilock(j) /\ n # None /\ iget(n)
      /\ Goto(p, "iput", s)
      /\ UNCHANGED <<dsk, dir, lock, cwd, fd, panicked>>
      /\ strayed' = (strayed \/ (Head(reg[p].path) = ".." /\ Load(j).nlink = 0))
  BY CallState DEF NamexNext, Visits, diskVars, history
<1>2. reg[p].cur # None /\ reg[p].dp = None /\ (reg[p].ip # None <=> Linking(reg[p]))
      /\ j \in Inums
  BY <1>1 DEF Shape, Reg
<1>3. Head(reg[p].path) \in Names \cup Dots /\ Tail(reg[p].path) \in Seq(Names \cup Dots)
  <2>1. reg[p].path \in Seq(Names \cup Dots)
    BY <1>1 DEF Reg
  <2>2. QED  BY <1>1, <2>1
<1>4. n \in Inums
  BY <1>1, <1>2, <1>3 DEF Entry, TypeOK
<1>5. /\ s \in Reg /\ s.call = reg[p].call /\ s.want = reg[p].want /\ s.cur = n
      /\ s.dp = None /\ s.ip = reg[p].ip /\ s.put = j /\ s.ret = "namex"
      /\ s.name = reg[p].name
  <2> DEFINE t == Tail(reg[p].path)
  <2>1. t \in Seq(Names \cup Dots) /\ "namex" \in Labels
    BY <1>3 DEF Labels
  <2> HIDE DEF t, n
  <2>2. s = [reg[p] EXCEPT !.put = reg[p].cur, !.cur = n, !.path = t, !.ret = "namex"]
    BY DEF t
  <2>3. QED  BY <1>1, <1>2, <1>4, <2>1, <2>2 DEF Reg
<1> HIDE DEF s, n
<1>6. "iput" \in Labels /\ Place("iput", s) = "namex" /\ "iput" \notin Frees
      /\ pc[p] \notin Iputs
  BY <1>1, <1>5 DEF Labels, Place, Frees
<1>7. ShapeOK("iput", s)
  BY <1>1, <1>2, <1>4, <1>5, <1>6, InodeAssumption DEF ShapeOK, Shape, Linking
<1>8. ShapeInv' /\ pc' \in [Procs -> Labels] /\ reg' \in [Procs -> Reg]
  BY <1>1, <1>5, <1>6, <1>7, ShapeStep
<1>9. TypeOK'
  <2>1. valid' \in [Inums -> BOOLEAN] /\ mem' \in [Inums -> Dinode]
    BY <1>1, <1>2, IlockTypes
  <2>2. ref' \in [Inums -> Nat] /\ overtaken' \in BOOLEAN
    BY <1>1, <1>4, IgetTypes
  <2>3. strayed' \in BOOLEAN
    BY <1>1
  <2>4. QED  BY <1>1, <1>8, <2>1, <2>2, <2>3 DEF TypeOK
<1>10. LockInv'
  <2>1. \A i \in Inums : Has(Place("iput", s), s, i) <=> Has(At(p), reg[p], i)
    BY <1>1, <1>6 DEF Has
  <2>2. QED  BY <1>1, <1>5, <1>6, <2>1, LockSame
<1>11. RefInv'
  <2>1. ref' = [ref EXCEPT ![n] = @ + 1]
    BY <1>1, <1>4, IgetTypes
  <2>2. QED  BY <1>1, <1>2, <1>4, <1>5, <2>1, AdvanceCur
<1>12. ASSUME Regular' PROVE FreeInv' /\ MemInv'
  <2>1. Regular /\ ~overtaken'
    BY <1>1, <1>4, <1>12, IgetTypes DEF Regular
  <2>2. reg[p]["cur"] # None /\ ilock(reg[p]["cur"])
    BY <1>1, <1>2
  <2>3. \A i \in Inums : ref'[i] = ref[i] \/ (~Freeing(i) /\ ref'[i] = ref[i] + 1)
    BY <1>1, <1>4, <2>1, IgetTypes
  <2>4. \A i \in Inums : lock'[i] # None => lock[i] # None \/ i = reg[p]["cur"]
    BY <1>1
  <2>5. QED  BY <1>1, <1>6, <1>9, <2>1, <2>2, <2>3, <2>4, IlockStep
<1>13. QED  BY <1>8, <1>9, <1>10, <1>11, <1>12 DEF CacheInv

\* open() and open(O_CREATE) have locked the inode they will open.
LEMMA OpenedKeeps ==
  ASSUME CacheInv, NEW p \in Procs, pc[p] \in {"open", "create_old"},
         ilock(reg[p].ip), lock' = [lock EXCEPT ![reg[p].ip] = p],
         Goto(p, "opened", [Blank EXCEPT !.ip = reg[p].ip]),
         UNCHANGED <<dsk, dir, ref, cwd, fd, panicked, overtaken, strayed>>
  PROVE  CacheInv'
<1> DEFINE i == reg[p].ip
           s == [Blank EXCEPT !.ip = i]
<1> USE DEF Iputs, WithDp, WithIp, HoldDp, HoldIp
<1>1. /\ TypeOK /\ ShapeInv /\ LockInv /\ RefInv
      /\ Regular => FreeInv /\ MemInv
      /\ Shape(pc[p], reg[p]) /\ reg[p] \in Reg
      /\ reg[p].put = None /\ At(p) = pc[p]
  BY CallState
<1>2. reg[p].cur = None /\ reg[p].dp = None /\ i # None /\ i \in Inums
  BY <1>1 DEF Shape, Reg
<1>3. /\ s \in Reg /\ s.ip = i /\ s.call = None
      /\ s.cur = None /\ s.dp = None /\ s.put = None
  <2> HIDE DEF i
  <2>1. QED  BY <1>2, BlankReg DEF Blank, Reg
<1>4. Goto(p, "opened", s)
  OBVIOUS
<1> HIDE DEF s
<1>5. "opened" \in Labels /\ Place("opened", s) = "opened" /\ "opened" \notin Frees
      /\ pc[p] \notin Iputs
  BY DEF Labels, Place, Frees
<1>6. ShapeOK("opened", s)
  BY <1>2, <1>3, <1>5 DEF ShapeOK, Shape
<1>7. ShapeInv' /\ pc' \in [Procs -> Labels] /\ reg' \in [Procs -> Reg]
  BY <1>1, <1>3, <1>4, <1>5, <1>6, ShapeStep
<1>8. TypeOK'
  <2>1. valid' \in [Inums -> BOOLEAN] /\ mem' \in [Inums -> Dinode]
    BY <1>1, <1>2, IlockTypes
  <2>2. QED  BY <1>1, <1>7, <2>1 DEF TypeOK
<1>9. LockInv'
  <2>1. lock[i] = None
    BY DEF ilock, CanLock
  <2>2. \A j \in Inums : lock[j] # p
    BY <1>1 DEF LockInv, Has
  <2>3. \A j \in Inums : lock'[j] = IF j = i THEN p ELSE lock[j]
    BY <1>1 DEF TypeOK
  <2>4. \A j \in Inums : Has(Place("opened", s), s, j) <=> j = i
    BY <1>3, <1>5 DEF Has
  <2>5. \A j \in Inums :
          /\ lock'[j] = lock[j] \/ {lock[j], lock'[j]} \subseteq {None, p}
          /\ lock'[j] = p <=> Has(Place("opened", s), s, j)
    BY <2>1, <2>2, <2>3, <2>4
  <2>6. QED  BY <1>1, <1>3, <1>4, <1>5, <2>5, LockStep
<1>10. RefInv'
  <2>1. \A z \in Pointers : s[z] = reg[p][z]
    BY <1>1, <1>2, <1>3 DEF Pointers
  <2>2. QED  BY <1>1, <1>3, <1>4, <2>1, KeepRefs
<1>11. ASSUME Regular' PROVE FreeInv' /\ MemInv'
  <2>1. Regular
    BY <1>11 DEF Regular
  <2>2. reg[p]["ip"] # None /\ ilock(reg[p]["ip"])
    BY <1>2
  <2>3. \A j \in Inums : lock'[j] # None => lock[j] # None \/ j = reg[p]["ip"]
    BY <1>1 DEF TypeOK
  <2>4. \A j \in Inums : ref'[j] = ref[j] \/ (~Freeing(j) /\ ref'[j] = ref[j] + 1)
    OBVIOUS
  <2>5. QED  BY <1>1, <1>4, <1>5, <1>8, <2>1, <2>2, <2>3, <2>4, IlockStep
<1>12. QED  BY <1>7, <1>8, <1>9, <1>10, <1>11 DEF CacheInv

\* A call returns after a look at its only inode.
LEMMA IlockReturnKeeps ==
  ASSUME CacheInv, NEW p \in Procs, pc[p] \in {"open", "chdir", "create_old",
           "link", "unlink", "link_bad"},
         NEW x \in {"dp", "ip"}, x = IF pc[p] = "unlink" THEN "dp" ELSE "ip",
         ilock(reg[p][x]), GotoIput(p, reg[p], x, "user"),
         UNCHANGED <<dsk, dir, ref, lock, cwd, fd, panicked, overtaken, strayed>>
  PROVE  CacheInv'
<1> USE DEF Iputs, WithDp, WithIp, HoldDp, HoldIp
<1>1. TypeOK /\ Shape(pc[p], reg[p]) /\ reg[p] \in Reg
  BY CallState
<1>2. /\ reg[p].cur = None /\ reg[p][x] # None
      /\ \A z \in {"cur", "dp", "ip"} \ {x} : reg[p][z] = None
  BY <1>1 DEF Shape
<1>3. \A i \in Inums : Has("user", Going(reg[p], x, "user"), i) <=> Has(pc[p], reg[p], i)
  BY DEF Has
<1>4. "user" \in Labels \ Iputs /\ pc[p] \notin Iputs /\ x \in {"cur", "dp", "ip"}
  BY DEF Labels
<1>5. /\ dir' \in [Inums -> [Names \cup Dots -> Inums \cup {None}]]
      /\ strayed' \in BOOLEAN /\ (~strayed' => ~strayed)
  BY <1>1 DEF TypeOK
<1>6. QED  BY <1>2, <1>3, <1>4, <1>5, IlockPutKeeps

\* open() locks its inode.
LEMMA OpenKeeps ==
  ASSUME CacheInv, NEW p \in Procs, Open(p)
  PROVE  CacheInv'
<1>1. /\ pc[p] = "open" /\ ilock(reg[p].ip)
      /\ UNCHANGED <<dsk, dir, ref, cwd, fd, panicked, overtaken, strayed>>
  BY DEF Open, diskVars, history
<1>2. CASE /\ lock' = [lock EXCEPT ![reg[p].ip] = p]
           /\ Goto(p, "opened", [Blank EXCEPT !.ip = reg[p].ip])
  BY <1>1, <1>2, OpenedKeeps
<1>3. CASE GotoIput(p, reg[p], "ip", "user") /\ lock' = lock
  <2>1. "ip" = (IF pc[p] = "unlink" THEN "dp" ELSE "ip") /\ ilock(reg[p]["ip"])
    BY <1>1
  <2>2. QED  BY <1>1, <1>3, <2>1, IlockReturnKeeps
<1>4. QED  BY <1>2, <1>3 DEF Open

\* create() locks the inode it has found.
LEMMA CreateOldKeeps ==
  ASSUME CacheInv, NEW p \in Procs, CreateOld(p)
  PROVE  CacheInv'
<1>1. /\ pc[p] = "create_old" /\ ilock(reg[p].ip)
      /\ UNCHANGED <<dsk, dir, ref, cwd, fd, panicked, overtaken, strayed>>
  BY DEF CreateOld, diskVars, history
<1>2. CASE /\ lock' = [lock EXCEPT ![reg[p].ip] = p]
           /\ Goto(p, "opened", [Blank EXCEPT !.ip = reg[p].ip])
  BY <1>1, <1>2, OpenedKeeps
<1>3. CASE GotoIput(p, reg[p], "ip", "user") /\ lock' = lock
  <2>1. "ip" = (IF pc[p] = "unlink" THEN "dp" ELSE "ip") /\ ilock(reg[p]["ip"])
    BY <1>1
  <2>2. QED  BY <1>1, <1>3, <2>1, IlockReturnKeeps
<1>4. QED  BY <1>2, <1>3 DEF CreateOld

\* link() refuses a directory.
LEMMA LinkDirectoryKeeps ==
  ASSUME CacheInv, NEW p \in Procs, LinkDirectory(p)
  PROVE  CacheInv'
<1>1. /\ pc[p] = "link" /\ ilock(reg[p]["ip"]) /\ GotoIput(p, reg[p], "ip", "user")
      /\ UNCHANGED <<dsk, dir, ref, lock, cwd, fd, panicked, overtaken, strayed>>
  BY DEF LinkDirectory, diskVars, history
<1>2. "ip" = IF pc[p] = "unlink" THEN "dp" ELSE "ip"
  BY <1>1
<1>3. QED  BY <1>1, <1>2, IlockReturnKeeps

\* unlink() refuses a name.
LEMMA UnlinkFailsKeeps ==
  ASSUME CacheInv, NEW p \in Procs, UnlinkFails(p)
  PROVE  CacheInv'
<1>1. /\ pc[p] = "unlink" /\ ilock(reg[p]["dp"]) /\ GotoIput(p, reg[p], "dp", "user")
      /\ UNCHANGED <<dsk, dir, ref, lock, cwd, fd, panicked, overtaken, strayed>>
  BY DEF UnlinkFails, diskVars, history
<1>2. "dp" = IF pc[p] = "unlink" THEN "dp" ELSE "ip"
  BY <1>1
<1>3. QED  BY <1>1, <1>2, IlockReturnKeeps

\* A call returns; it may have had its inode locked.
LEMMA PlainReturnKeeps ==
  ASSUME CacheInv, NEW p \in Procs,
         pc[p] \in {"opened", "created", "link_done", "unlink_bad"},
         NEW x \in {"dp", "ip"}, x = IF pc[p] = "unlink_bad" THEN "dp" ELSE "ip",
         GotoIput(p, reg[p], x, "user"),
         lock' = IF pc[p] = "link_done" THEN lock
                 ELSE [lock EXCEPT ![reg[p][x]] = None],
         UNCHANGED <<dsk, dir, ref, valid, mem, cwd, fd, panicked, history>>
  PROVE  CacheInv'
<1> USE DEF Iputs, WithDp, WithIp, HoldDp, HoldIp
<1>1. /\ TypeOK /\ LockInv /\ Shape(pc[p], reg[p]) /\ reg[p] \in Reg
      /\ At(p) = pc[p]
  BY CallState
<1>2. /\ reg[p].cur = None /\ reg[p][x] # None
      /\ \A z \in {"cur", "dp", "ip"} \ {x} : reg[p][z] = None
  BY <1>1 DEF Shape
<1>3. \A i \in Inums : Has(pc[p], reg[p], i) <=> pc[p] # "link_done" /\ i = reg[p][x]
  BY <1>2, InodeAssumption DEF Has
<1>4. lock' \in [Inums -> Procs \cup {None}]
  BY <1>1 DEF TypeOK
<1>5. \A i \in Inums :
        lock'[i] = IF pc[p] # "link_done" /\ i = reg[p][x] THEN None ELSE lock[i]
  BY <1>1 DEF TypeOK
<1>6. \A i \in Inums : ~Has("user", Going(reg[p], x, "user"), i)
  BY DEF Has
<1>7. "user" \in Labels \ Iputs /\ pc[p] \notin Iputs /\ x \in {"cur", "dp", "ip"}
  BY DEF Labels
<1>8. \A i \in Inums :
           /\ lock'[i] = IF Has(pc[p], reg[p], i) THEN None ELSE lock[i]
           /\ ~Has("user", Going(reg[p], x, "user"), i)
  BY <1>3, <1>5, <1>6
<1>9. QED  BY <1>2, <1>4, <1>7, <1>8, PlainPutKeeps

\* mkdir() and mknod() are done.
LEMMA CreatedKeeps ==
  ASSUME CacheInv, NEW p \in Procs, Created(p)
  PROVE  CacheInv'
<1>1. /\ pc[p] = "created" /\ GotoIput(p, reg[p], "ip", "user")
      /\ lock' = [lock EXCEPT ![reg[p]["ip"]] = None]
      /\ UNCHANGED <<dsk, dir, ref, valid, mem, cwd, fd, panicked, history>>
  BY DEF Created, diskVars
<1>2. /\ "ip" = IF pc[p] = "unlink_bad" THEN "dp" ELSE "ip"
      /\ lock' = IF pc[p] = "link_done" THEN lock
                 ELSE [lock EXCEPT ![reg[p]["ip"]] = None]
  BY <1>1
<1>3. QED  BY <1>1, <1>2, PlainReturnKeeps

\* link() is done.
LEMMA LinkDoneKeeps ==
  ASSUME CacheInv, NEW p \in Procs, LinkDone(p)
  PROVE  CacheInv'
<1>1. /\ pc[p] = "link_done" /\ GotoIput(p, reg[p], "ip", "user") /\ lock' = lock
      /\ UNCHANGED <<dsk, dir, ref, valid, mem, cwd, fd, panicked, history>>
  BY DEF LinkDone, diskVars
<1>2. /\ "ip" = IF pc[p] = "unlink_bad" THEN "dp" ELSE "ip"
      /\ lock' = IF pc[p] = "link_done" THEN lock
                 ELSE [lock EXCEPT ![reg[p]["ip"]] = None]
  BY <1>1
<1>3. QED  BY <1>1, <1>2, PlainReturnKeeps

\* unlink() of a directory that is not empty is done.
LEMMA UnlinkBadKeeps ==
  ASSUME CacheInv, NEW p \in Procs, UnlinkBad(p)
  PROVE  CacheInv'
<1>1. /\ pc[p] = "unlink_bad" /\ GotoIput(p, reg[p], "dp", "user")
      /\ lock' = [lock EXCEPT ![reg[p]["dp"]] = None]
      /\ UNCHANGED <<dsk, dir, ref, valid, mem, cwd, fd, panicked, history>>
  BY DEF UnlinkBad, diskVars
<1>2. /\ "dp" = IF pc[p] = "unlink_bad" THEN "dp" ELSE "ip"
      /\ lock' = IF pc[p] = "link_done" THEN lock
                 ELSE [lock EXCEPT ![reg[p]["dp"]] = None]
  BY <1>1
<1>3. QED  BY <1>1, <1>2, PlainReturnKeeps

\* A pointer moves between a call's variables and the process's cwd or fd.
LEMMA MoveFiles ==
  ASSUME TypeOK, ref' = ref, NEW p \in Procs, NEW l, NEW r, Goto(p, l, r),
         NEW W \in Table, Counted(W, ref),
         \A q \in Procs : cwd'[q] = W[q]["cwd"] /\ fd'[q] = W[q]["fd"],
         \A q \in Procs \ {p} : W[q] = Pts[q],
         \A z \in Pointers : W[p][z] = r[z]
  PROVE  RefInv'
<1>1. /\ Pts' = [q \in Procs |-> [z \in Places |-> Pts'[q][z]]]
      /\ \A q \in Procs : Pts'[q]["cwd"] = cwd'[q] /\ Pts'[q]["fd"] = fd'[q]
      /\ \A q \in Procs, z \in Pointers :
           Pts'[q][z] = IF q = p THEN r[z] ELSE Pts[q][z]
  BY PtsStep
<1>2. \A q \in Procs, z \in Pointers : Pts'[q][z] = W[q][z]
  <2> TAKE q \in Procs, z \in Pointers
  <2>1. CASE q = p  BY <1>1, <2>1
  <2>2. CASE q # p
    <3>1. W[q] = Pts[q]
      BY <2>2
    <3>2. QED  BY <1>1, <2>2, <3>1
  <2>3. QED  BY <2>1, <2>2
<1>3. \A q \in Procs, z \in Places : Pts'[q][z] = W[q][z]
  <2> TAKE q \in Procs, z \in Places
  <2>1. CASE z = "cwd"  BY <1>1, <2>1
  <2>2. CASE z = "fd"  BY <1>1, <2>2
  <2>3. CASE z \in Pointers  BY <1>2, <2>3
  <2>4. QED  BY <2>1, <2>2, <2>3 DEF Places
<1>4. Pts' = W
  BY <1>1, <1>3, TablesEqual
<1>5. QED  BY <1>4 DEF RefInv, Counted

\* The entries of a table after a move.
LEMMA MovedEntries ==
  ASSUME NEW W \in Table, NEW p \in Procs, NEW x \in Places, NEW y \in Places, x # y
  PROVE  /\ \A q \in Procs \ {p} : Moved(W, p, x, y)[q] = W[q]
         /\ Moved(W, p, x, y)[p][y] = W[p][x]
         /\ Moved(W, p, x, y)[p][x] = None
         /\ \A z \in Places \ {x, y} : Moved(W, p, x, y)[p][z] = W[p][z]
BY DEF Moved, Table

\* open() finds a file and a descriptor, or not.
LEMMA OpenFileKeeps ==
  ASSUME CacheInv, NEW p \in Procs, OpenFile(p)
  PROVE  CacheInv'
<1> DEFINE i == reg[p].ip
<1> USE DEF Iputs, WithDp, WithIp, HoldDp, HoldIp
<1>1. /\ TypeOK /\ ShapeInv /\ LockInv /\ RefInv
      /\ Regular => FreeInv /\ MemInv
      /\ pc[p] = "opened" /\ Shape(pc[p], reg[p]) /\ reg[p] \in Reg
      /\ reg[p].put = None /\ At(p) = pc[p]
      /\ lock' = [lock EXCEPT ![i] = None]
      /\ UNCHANGED <<dsk, dir, ref, valid, mem, cwd, panicked, history>>
  BY CallState DEF OpenFile, diskVars
<1>2. reg[p].cur = None /\ reg[p].dp = None /\ i # None /\ i \in Inums
  BY <1>1 DEF Shape, Reg
<1>3. CASE GotoIput(p, reg[p], "ip", "user") /\ fd' = fd
  <2>1. /\ "ip" = IF pc[p] = "unlink_bad" THEN "dp" ELSE "ip"
        /\ lock' = IF pc[p] = "link_done" THEN lock
                   ELSE [lock EXCEPT ![reg[p]["ip"]] = None]
    BY <1>1
  <2>2. QED  BY <1>1, <1>3, <2>1, PlainReturnKeeps
<1>4. CASE fd[p] = None /\ fd' = [fd EXCEPT ![p] = i] /\ Goto(p, "user", Blank)
  <2>1. /\ Blank \in Reg /\ Blank.cur = None /\ Blank.dp = None /\ Blank.ip = None
        /\ Blank.put = None /\ Blank.call = None
    BY BlankReg DEF Blank
  <2>2. "user" \in Labels /\ Place("user", Blank) = "user" /\ "user" \notin Frees
        /\ pc[p] \notin Iputs
    BY <1>1 DEF Labels, Place, Frees
  <2>3. ShapeOK("user", Blank)
    BY <2>1, <2>2 DEF ShapeOK, Shape
  <2>4. ShapeInv' /\ pc' \in [Procs -> Labels] /\ reg' \in [Procs -> Reg]
    BY <1>1, <1>4, <2>1, <2>2, <2>3, ShapeStep
  <2>5. TypeOK'
    BY <1>1, <1>2, <1>4, <2>4 DEF TypeOK, history
  <2>6. LockInv'
    <3>1. \A j \in Inums : lock[j] = p <=> j = i
      BY <1>1, <1>2 DEF LockInv, Has
    <3>2. \A j \in Inums : lock'[j] = IF j = i THEN None ELSE lock[j]
      BY <1>1 DEF TypeOK
    <3>3. \A j \in Inums : ~Has(Place("user", Blank), Blank, j)
      BY <2>2 DEF Has
    <3>4. \A j \in Inums :
            /\ lock'[j] = lock[j] \/ {lock[j], lock'[j]} \subseteq {None, p}
            /\ lock'[j] = p <=> Has(Place("user", Blank), Blank, j)
      BY <3>1, <3>2, <3>3, InodeAssumption
    <3>5. QED  BY <1>1, <1>4, <2>1, <2>2, <3>4, LockStep
  <2>7. RefInv'
    <3> DEFINE W == Moved(Pts, p, "ip", "fd")
    <3>1. /\ "ip" \in Places /\ "fd" \in Places /\ "cwd" \in Places
          /\ Pts \in Table /\ Pts[p]["fd"] = None /\ Pts[p]["ip"] = i
          /\ Pts[p]["cwd"] = cwd[p]
      BY <1>1, <1>4, PtsType DEF Places, Pointers
    <3>2. W \in Table /\ Counted(W, ref)
      <4>1. ref \in [Inums -> Nat] /\ Counted(Pts, ref) /\ Pts[p]["ip"] \in Inums
        BY <1>1, <1>2, <3>1 DEF TypeOK, RefInv
      <4>2. QED  BY <3>1, <4>1, MovedTable, MovedCounts
    <3>3. /\ \A q \in Procs \ {p} : W[q] = Pts[q]
          /\ W[p]["fd"] = i /\ W[p]["ip"] = None
          /\ \A z \in Places \ {"ip", "fd"} : W[p][z] = Pts[p][z]
      BY <3>1, MovedEntries
    <3> HIDE DEF W
    <3>4. \A z \in Pointers : W[p][z] = Blank[z]
      <4>1. \A z \in Pointers \ {"ip"} : Pts[p][z] = None /\ z \in Places \ {"ip", "fd"}
        BY <1>1, <1>2, PtsType DEF Pointers, Places
      <4>2. \A z \in Pointers : Blank[z] = None
        BY <2>1 DEF Pointers
      <4>3. QED  BY <3>3, <4>1, <4>2
    <3>5. W[p]["cwd"] = cwd[p]
      BY <3>1, <3>3
    <3>6. \A q \in Procs : cwd'[q] = W[q]["cwd"] /\ fd'[q] = W[q]["fd"]
      <4>1. \A q \in Procs : cwd'[q] = cwd[q] /\ fd'[q] = IF q = p THEN i ELSE fd[q]
        BY <1>1, <1>4 DEF TypeOK
      <4>2. \A q \in Procs : Pts[q]["cwd"] = cwd[q] /\ Pts[q]["fd"] = fd[q]
        BY <1>1, PtsType
      <4>3. QED  BY <3>3, <3>5, <4>1, <4>2
    <3>7. ref' = ref
      BY <1>1
    <3>8. QED  BY <1>1, <1>4, <3>2, <3>3, <3>4, <3>6, <3>7, MoveFiles
  <2>8. ASSUME Regular' PROVE FreeInv' /\ MemInv'
    <3>1. Regular
      BY <1>1, <2>8 DEF Regular, history
    <3>2. \A j \in Inums : lock'[j] # None => lock[j] # None
      BY <1>1 DEF TypeOK
    <3>3. \A j \in Inums : ref'[j] = ref[j] \/ (~Freeing(j) /\ ref'[j] = ref[j] + 1)
      BY <1>1
    <3>4. QED  BY <1>1, <1>4, <2>2, <2>5, <3>1, <3>2, <3>3, PlainStep
  <2>9. QED  BY <2>4, <2>5, <2>6, <2>7, <2>8 DEF CacheInv
<1>5. QED  BY <1>3, <1>4 DEF OpenFile

\* close()
LEMMA CloseKeeps ==
  ASSUME CacheInv, NEW p \in Procs, Close(p)
  PROVE  CacheInv'
<1> DEFINE i == fd[p]
           s == [Blank EXCEPT !.put = i, !.ret = "user"]
<1> USE DEF Iputs, WithDp, WithIp, HoldDp, HoldIp
<1>1. /\ TypeOK /\ ShapeInv /\ LockInv /\ RefInv
      /\ Regular => FreeInv /\ MemInv
      /\ pc[p] = "user" /\ Shape(pc[p], reg[p]) /\ reg[p] \in Reg
      /\ reg[p].put = None /\ At(p) = pc[p]
      /\ i # None /\ i \in Inums /\ fd' = [fd EXCEPT ![p] = None]
      /\ Goto(p, "iput", s)
      /\ UNCHANGED <<dsk, dir, ref, valid, mem, lock, cwd, panicked, history>>
  BY CallState DEF Close, diskVars, TypeOK
<1>2. reg[p].cur = None /\ reg[p].dp = None /\ reg[p].ip = None
  BY <1>1 DEF Shape
<1>3. /\ s \in Reg /\ s.put = i /\ s.ret = "user" /\ s.call = None
      /\ s.cur = None /\ s.dp = None /\ s.ip = None
  <2>1. i \in Inums /\ "user" \in Labels
    BY <1>1 DEF Labels
  <2> HIDE DEF i
  <2>2. QED  BY <2>1, BlankReg DEF Blank, Reg
<1> HIDE DEF s
<1>4. "iput" \in Labels /\ Place("iput", s) = "user" /\ "iput" \notin Frees
      /\ pc[p] \notin Iputs
  BY <1>1, <1>3 DEF Labels, Place, Frees
<1>5. ShapeOK("iput", s)
  BY <1>1, <1>3, <1>4 DEF ShapeOK, Shape, Labels
<1>6. ShapeInv' /\ pc' \in [Procs -> Labels] /\ reg' \in [Procs -> Reg]
  BY <1>1, <1>3, <1>4, <1>5, ShapeStep
<1>7. TypeOK'
  BY <1>1, <1>6 DEF TypeOK, history
<1>8. LockInv'
  <2>1. \A j \in Inums : Has(Place("iput", s), s, j) <=> Has(At(p), reg[p], j)
    BY <1>1, <1>4 DEF Has
  <2>2. QED  BY <1>1, <1>3, <1>4, <2>1, LockSame
<1>9. RefInv'
  <2> DEFINE W == Moved(Pts, p, "fd", "put")
  <2>1. /\ "put" \in Places /\ "fd" \in Places /\ "cwd" \in Places
        /\ Pts \in Table /\ Pts[p]["fd"] = i /\ Pts[p]["put"] = None
        /\ Pts[p]["cwd"] = cwd[p]
    BY <1>1, PtsType DEF Places, Pointers
  <2>2. W \in Table /\ Counted(W, ref)
    <3>1. ref \in [Inums -> Nat] /\ Counted(Pts, ref) /\ Pts[p]["fd"] \in Inums
      BY <1>1, <2>1 DEF TypeOK, RefInv
    <3>2. QED  BY <2>1, <3>1, MovedTable, MovedCounts
  <2>3. /\ \A q \in Procs \ {p} : W[q] = Pts[q]
        /\ W[p]["put"] = i /\ W[p]["fd"] = None
        /\ \A z \in Places \ {"fd", "put"} : W[p][z] = Pts[p][z]
    BY <2>1, MovedEntries
  <2> HIDE DEF W
  <2>4. \A z \in Pointers : W[p][z] = s[z]
    <3>1. \A z \in Pointers \ {"put"} : /\ Pts[p][z] = None /\ s[z] = None
                                       /\ z \in Places \ {"fd", "put"}
      BY <1>1, <1>2, <1>3, PtsType DEF Pointers, Places
    <3>2. QED  BY <1>3, <2>3, <3>1
  <2>5. W[p]["cwd"] = cwd[p]
    BY <2>1, <2>3
  <2>6. \A q \in Procs : cwd'[q] = W[q]["cwd"] /\ fd'[q] = W[q]["fd"]
    <3>1. \A q \in Procs : cwd'[q] = cwd[q] /\ fd'[q] = IF q = p THEN None ELSE fd[q]
      BY <1>1 DEF TypeOK
    <3>2. \A q \in Procs : Pts[q]["cwd"] = cwd[q] /\ Pts[q]["fd"] = fd[q]
      BY <1>1, PtsType
    <3>3. QED  BY <2>3, <2>5, <3>1, <3>2
  <2>7. ref' = ref
    BY <1>1
  <2>8. QED  BY <1>1, <2>2, <2>3, <2>4, <2>6, <2>7, MoveFiles
<1>10. ASSUME Regular' PROVE FreeInv' /\ MemInv'
  <2>1. Regular
    BY <1>1, <1>10 DEF Regular, history
  <2>2. \A j \in Inums : lock'[j] # None => lock[j] # None
    BY <1>1
  <2>3. \A j \in Inums : ref'[j] = ref[j] \/ (~Freeing(j) /\ ref'[j] = ref[j] + 1)
    BY <1>1
  <2>4. QED  BY <1>1, <1>4, <1>7, <2>1, <2>2, <2>3, PlainStep
<1>11. QED  BY <1>6, <1>7, <1>8, <1>9, <1>10 DEF CacheInv

\* chdir()
LEMMA ChdirKeeps ==
  ASSUME CacheInv, NEW p \in Procs, Chdir(p)
  PROVE  CacheInv'
<1> DEFINE i == reg[p].ip
           c == cwd[p]
           s == [Blank EXCEPT !.put = c, !.ret = "user"]
<1> USE DEF Iputs, WithDp, WithIp, HoldDp, HoldIp
<1>1. /\ TypeOK /\ ShapeInv /\ LockInv /\ RefInv
      /\ Regular => FreeInv /\ MemInv
      /\ pc[p] = "chdir" /\ Shape(pc[p], reg[p]) /\ reg[p] \in Reg
      /\ reg[p].put = None /\ At(p) = pc[p] /\ ilock(i)
      /\ UNCHANGED <<dsk, dir, ref, lock, fd, panicked, overtaken, strayed>>
  BY CallState DEF Chdir, diskVars, history
<1>2. reg[p].cur = None /\ reg[p].dp = None /\ i # None /\ i \in Inums /\ c \in Inums
  BY <1>1 DEF Shape, Reg, TypeOK
<1>3. CASE GotoIput(p, reg[p], "ip", "user") /\ cwd' = cwd
  <2>1. "ip" = (IF pc[p] = "unlink" THEN "dp" ELSE "ip") /\ ilock(reg[p]["ip"])
    BY <1>1
  <2>2. QED  BY <1>1, <1>3, <2>1, IlockReturnKeeps
<1>4. CASE cwd' = [cwd EXCEPT ![p] = i] /\ Goto(p, "iput", s)
  <2>1. /\ s \in Reg /\ s.put = c /\ s.ret = "user" /\ s.call = None
        /\ s.cur = None /\ s.dp = None /\ s.ip = None
    <3>1. c \in Inums /\ "user" \in Labels
      BY <1>2 DEF Labels
    <3> HIDE DEF c
    <3>2. QED  BY <3>1, BlankReg DEF Blank, Reg
  <2> HIDE DEF s
  <2>2. "iput" \in Labels /\ Place("iput", s) = "user" /\ "iput" \notin Frees
        /\ pc[p] \notin Iputs
    BY <1>1, <2>1 DEF Labels, Place, Frees
  <2>3. ShapeOK("iput", s)
    BY <1>2, <2>1, <2>2, InodeAssumption DEF ShapeOK, Shape, Labels
  <2>4. ShapeInv' /\ pc' \in [Procs -> Labels] /\ reg' \in [Procs -> Reg]
    BY <1>1, <1>4, <2>1, <2>2, <2>3, ShapeStep
  <2>5. TypeOK'
    <3>1. valid' \in [Inums -> BOOLEAN] /\ mem' \in [Inums -> Dinode]
      BY <1>1, <1>2, IlockTypes
    <3>2. QED  BY <1>1, <1>2, <1>4, <2>4, <3>1 DEF TypeOK
  <2>6. LockInv'
    <3>1. \A j \in Inums : Has(Place("iput", s), s, j) <=> Has(At(p), reg[p], j)
      BY <1>1, <2>2 DEF Has
    <3>2. QED  BY <1>1, <1>4, <2>1, <2>2, <3>1, LockSame
  <2>7. RefInv'
    <3> DEFINE V == Moved(Pts, p, "cwd", "put")
               W == Moved(V, p, "ip", "cwd")
    <3>1. /\ "put" \in Places /\ "fd" \in Places /\ "cwd" \in Places /\ "ip" \in Places
          /\ Pts \in Table /\ Pts[p]["cwd"] = c /\ Pts[p]["put"] = None
          /\ Pts[p]["ip"] = i /\ Pts[p]["fd"] = fd[p] /\ fd[p] \in Inums \cup {None}
          /\ ref \in [Inums -> Nat] /\ Counted(Pts, ref)
      BY <1>1, PtsType DEF Places, Pointers, TypeOK, RefInv
    <3>2. V \in Table /\ Counted(V, ref)
      BY <1>2, <3>1, MovedTable, MovedCounts
    <3>3. /\ \A q \in Procs \ {p} : V[q] = Pts[q]
          /\ V[p]["put"] = c /\ V[p]["cwd"] = None
          /\ \A z \in Places \ {"cwd", "put"} : V[p][z] = Pts[p][z]
      BY <3>1, MovedEntries
    <3> HIDE DEF V
    <3>4. V[p]["ip"] = i
      BY <3>1, <3>3
    <3>5. W \in Table /\ Counted(W, ref)
      BY <1>2, <3>1, <3>2, <3>3, <3>4, MovedTable, MovedCounts
    <3>6. /\ \A q \in Procs \ {p} : W[q] = V[q]
          /\ W[p]["cwd"] = i /\ W[p]["ip"] = None
          /\ \A z \in Places \ {"ip", "cwd"} : W[p][z] = V[p][z]
      BY <3>1, <3>2, <3>4, MovedEntries
    <3> HIDE DEF W
    <3>7. \A z \in Pointers : W[p][z] = s[z]
      <4>1. \A z \in Pointers \ {"ip", "put"} :
              /\ Pts[p][z] = None /\ s[z] = None
              /\ z \in Places \ {"cwd", "put"} /\ z \in Places \ {"ip", "cwd"}
        BY <1>2, <2>1, <1>1, PtsType DEF Pointers, Places
      <4>2. W[p]["put"] = c
        BY <3>1, <3>3, <3>6
      <4>3. QED  BY <2>1, <3>3, <3>6, <4>1, <4>2
    <3>8. W[p]["fd"] = fd[p] /\ \A q \in Procs \ {p} : W[q] = Pts[q]
      BY <3>1, <3>3, <3>6
    <3>9. \A q \in Procs : cwd'[q] = W[q]["cwd"] /\ fd'[q] = W[q]["fd"]
      <4>1. \A q \in Procs : fd'[q] = fd[q] /\ cwd'[q] = IF q = p THEN i ELSE cwd[q]
        BY <1>1, <1>4 DEF TypeOK
      <4>2. \A q \in Procs : Pts[q]["cwd"] = cwd[q] /\ Pts[q]["fd"] = fd[q]
        BY <1>1, PtsType
      <4>3. QED  BY <3>6, <3>8, <4>1, <4>2
    <3>10. ref' = ref
      BY <1>1
    <3>11. QED  BY <1>1, <1>4, <3>5, <3>7, <3>8, <3>9, <3>10, MoveFiles
  <2>8. ASSUME Regular' PROVE FreeInv' /\ MemInv'
    <3>1. Regular
      BY <1>1, <2>8 DEF Regular
    <3>2. reg[p]["ip"] # None /\ ilock(reg[p]["ip"])
      BY <1>1, <1>2
    <3>3. \A j \in Inums : ref'[j] = ref[j] \/ (~Freeing(j) /\ ref'[j] = ref[j] + 1)
      BY <1>1
    <3>4. \A j \in Inums : lock'[j] # None => lock[j] # None \/ j = reg[p]["ip"]
      BY <1>1
    <3>5. QED  BY <1>1, <1>4, <2>2, <2>5, <3>1, <3>2, <3>3, <3>4, IlockStep
  <2>9. QED  BY <2>4, <2>5, <2>6, <2>7, <2>8 DEF CacheInv
<1>5. QED  BY <1>3, <1>4 DEF Chdir

\* The cache after ilock() of several inodes.
LEMMA LockedTypes ==
  ASSUME TypeOK, NEW ls \in SUBSET Inums, NEW f, Locked(ls, f),
         \A i \in ls : f[i] \in Dinode
  PROVE  /\ valid' \in [Inums -> BOOLEAN] /\ mem' \in [Inums -> Dinode]
         /\ \A j \in Inums : /\ valid'[j] = (valid[j] \/ j \in ls)
                             /\ mem'[j] = IF j \in ls THEN f[j] ELSE mem[j]
BY DEF Locked, TypeOK

\* The disk after iupdate().
LEMMA UpdateTypes ==
  ASSUME TypeOK, NEW ls \in SUBSET Inums, NEW f, iupdate(ls, f),
         \A i \in ls : f[i] \in Dinode
  PROVE  /\ dsk' \in [Inums -> Dinode]
         /\ \A j \in Inums : dsk'[j] = IF j \in ls THEN f[j] ELSE dsk[j]
BY DEF iupdate, TypeOK

\* An inode that a call has locked is in the cache, as on the disk, and
\* nobody frees it.
LEMMA HeldIsDisk ==
  ASSUME TypeOK, LockInv, RefInv, FreeInv, MemInv,
         NEW p \in Procs, NEW x \in {"dp", "ip"}, reg[p][x] # None,
         Has(At(p), reg[p], reg[p][x])
  PROVE  LET i == reg[p][x] IN
         /\ i \in Inums /\ lock[i] = p /\ valid[i] /\ mem[i] = dsk[i]
         /\ dsk[i].type # "free" /\ ref[i] > 0 /\ ~Freeing(i)
<1> DEFINE i == reg[p][x]
<1>1. x \in Pointers /\ x # "put"
  BY DEF Pointers
<1>2. i \in Inums /\ ref[i] > 0 /\ ~Freeing(i)
  BY <1>1, NotFreedReg
<1>3. lock[i] = p
  BY <1>2 DEF LockInv
<1>4. valid[i]
  BY <1>2, <1>3, InodeAssumption DEF MemInv
<1>5. mem[i] = dsk[i]
  BY <1>2, <1>4 DEF MemInv
<1>6. dsk[i].type # "free"
  BY <1>2, <1>4 DEF MemInv, Freeing
<1>7. QED  BY <1>2, <1>3, <1>4, <1>5, <1>6

\* dirlookup() and ialloc() give a call its ip; the dp goes to iput() or stays.
LEMMA GainIp ==
  ASSUME TypeOK, RefInv, NEW p \in Procs, NEW l, NEW r \in Reg, Goto(p, l, r),
         UNCHANGED <<cwd, fd>>, NEW i \in Inums, ref' = [ref EXCEPT ![i] = @ + 1],
         reg[p].ip = None, r.ip = i, r.cur = reg[p].cur, r.dp = reg[p].dp,
         r.put = reg[p].put
  PROVE  RefInv'
<1> DEFINE x == "ip"
<1>1. /\ x \in Pointers /\ reg[p][x] = None /\ r[x] = i
      /\ Agree(r, reg[p], {x})
  BY DEF Pointers, Agree
<1> HIDE DEF x
<1>2. QED  BY <1>1, GainRef

\* The same with the dp going to iput().
LEMMA GainIpPutDp ==
  ASSUME TypeOK, RefInv, NEW p \in Procs, NEW l, NEW r \in Reg, Goto(p, l, r),
         UNCHANGED <<cwd, fd>>, NEW i \in Inums, ref' = [ref EXCEPT ![i] = @ + 1],
         reg[p].ip = None, reg[p].dp # None, reg[p].put = None,
         r.ip = i, r.cur = reg[p].cur, r.dp = None, r.put = reg[p].dp
  PROVE  RefInv'
<1>1. Takes(r, reg[p], "dp", "put", "ip", i)
  BY DEF Takes, Agree, Pointers
<1>2. "dp" \in Pointers /\ "put" \in Pointers /\ "ip" \in Pointers
  BY DEF Pointers
<1>3. QED  BY <1>1, <1>2, MoveGainRefs

\* create() finds the name.
LEMMA CreateFoundKeeps ==
  ASSUME CacheInv, NEW p \in Procs, CreateFound(p)
  PROVE  CacheInv'
<1> DEFINE j == reg[p].dp
           n == Target(p)
           R == [reg[p] EXCEPT !.ip = n, !.name = None]
           s == Going(R, "dp", "create_old")
<1> USE DEF Iputs, WithDp, WithIp, HoldDp, HoldIp
<1>1. /\ TypeOK /\ ShapeInv /\ LockInv /\ RefInv
      /\ Regular => FreeInv /\ MemInv
      /\ pc[p] = "create" /\ Shape("create", reg[p]) /\ reg[p] \in Reg
      /\ reg[p].put = None /\ At(p) = "create"
      /\ ilock(j) /\ n # None /\ iget(n)
      /\ Goto(p, "iput", s)
      /\ UNCHANGED <<dsk, dir, lock, cwd, fd, panicked>>
      /\ strayed' = (strayed \/ (reg[p].name = ".." /\ Load(j).nlink = 0))
  BY CallState DEF CreateFound, LooksInto, diskVars, GotoIput, Going
<1>2. /\ reg[p].cur = None /\ reg[p].ip = None /\ j # None /\ j \in Inums
      /\ reg[p].call \in Creating /\ reg[p].name \in Names \cup Dots
  BY <1>1 DEF Shape, Reg, Linking
<1>3. n \in Inums
  BY <1>1, <1>2 DEF Target, TypeOK
<1>4. /\ R \in Reg /\ R.call = reg[p].call /\ R.cur = None /\ R.dp = j /\ R.ip = n
  <2> HIDE DEF n
  <2>1. QED  BY <1>1, <1>2, <1>3 DEF Reg
<1>5. /\ s \in Reg /\ s.call = reg[p].call /\ s.cur = None
      /\ s.dp = None /\ s.ip = n /\ s.put = j /\ s.ret = "create_old"
  <2> HIDE DEF R
  <2>1. "create_old" \in Labels
    BY DEF Labels
  <2>2. Goes(s, R, "dp", "create_old")
    BY <1>4, <2>1, GoingFields
  <2>3. QED  BY <1>4, <2>2 DEF Goes
<1> HIDE DEF s, n
<1>6. "iput" \in Labels /\ Place("iput", s) = "create_old" /\ "iput" \notin Frees
      /\ pc[p] \notin Iputs
  BY <1>1, <1>5 DEF Labels, Place, Frees
<1>7. ShapeOK("iput", s)
  BY <1>1, <1>2, <1>3, <1>5, <1>6, InodeAssumption DEF ShapeOK, Shape, Linking, Labels
<1>8. ShapeInv' /\ pc' \in [Procs -> Labels] /\ reg' \in [Procs -> Reg]
  BY <1>1, <1>5, <1>6, <1>7, ShapeStep
<1>9. TypeOK'
  <2>1. valid' \in [Inums -> BOOLEAN] /\ mem' \in [Inums -> Dinode]
    BY <1>1, <1>2, IlockTypes
  <2>2. ref' \in [Inums -> Nat] /\ overtaken' \in BOOLEAN
    BY <1>1, <1>3, IgetTypes
  <2>3. strayed' \in BOOLEAN
    BY <1>1
  <2>4. QED  BY <1>1, <1>8, <2>1, <2>2, <2>3 DEF TypeOK
<1>10. LockInv'
  <2>1. \A i \in Inums : Has(Place("iput", s), s, i) <=> Has(At(p), reg[p], i)
    BY <1>1, <1>6 DEF Has
  <2>2. QED  BY <1>1, <1>5, <1>6, <2>1, LockSame
<1>11. RefInv'
  <2>1. ref' = [ref EXCEPT ![n] = @ + 1]
    BY <1>1, <1>3, IgetTypes
  <2>2. QED  BY <1>1, <1>2, <1>3, <1>5, <2>1, GainIpPutDp
<1>12. ASSUME Regular' PROVE FreeInv' /\ MemInv'
  <2>1. Regular /\ ~overtaken'
    BY <1>1, <1>3, <1>12, IgetTypes DEF Regular
  <2>2. reg[p]["dp"] # None /\ ilock(reg[p]["dp"])
    BY <1>1, <1>2
  <2>3. \A i \in Inums : ref'[i] = ref[i] \/ (~Freeing(i) /\ ref'[i] = ref[i] + 1)
    BY <1>1, <1>3, <2>1, IgetTypes
  <2>4. \A i \in Inums : lock'[i] # None => lock[i] # None \/ i = reg[p]["dp"]
    BY <1>1
  <2>5. QED  BY <1>1, <1>6, <1>9, <2>1, <2>2, <2>3, <2>4, IlockStep
<1>13. QED  BY <1>8, <1>9, <1>10, <1>11, <1>12 DEF CacheInv

\* unlink() finds the name.
LEMMA UnlinkFoundKeeps ==
  ASSUME CacheInv, NEW p \in Procs, UnlinkFound(p)
  PROVE  CacheInv'
<1> DEFINE j == reg[p].dp
           n == Target(p)
           s == [reg[p] EXCEPT !.ip = n]
<1> USE DEF Iputs, WithDp, WithIp, HoldDp, HoldIp
<1>1. /\ TypeOK /\ ShapeInv /\ LockInv /\ RefInv
      /\ Regular => FreeInv /\ MemInv
      /\ pc[p] = "unlink" /\ Shape("unlink", reg[p]) /\ reg[p] \in Reg
      /\ reg[p].put = None /\ At(p) = "unlink" /\ reg[p].name \notin Dots
      /\ ilock(j) /\ n # None /\ iget(n)
      /\ Goto(p, "unlink_ip", s) /\ lock' = [lock EXCEPT ![j] = p]
      /\ UNCHANGED <<dsk, dir, cwd, fd, panicked, strayed>>
  BY CallState DEF UnlinkFound, LooksInto, diskVars
<1>2. /\ reg[p].cur = None /\ reg[p].ip = None /\ j # None /\ j \in Inums
      /\ reg[p].call = "unlink" /\ reg[p].name \in Names \cup Dots /\ reg[p].name # None
  BY <1>1 DEF Shape, Reg, Linking
<1>3. n \in Inums
  BY <1>1, <1>2 DEF Target, TypeOK
<1>4. /\ s \in Reg /\ s.call = reg[p].call /\ s.cur = None /\ s.dp = j /\ s.ip = n
      /\ s.put = None /\ s.name = reg[p].name
  <2> HIDE DEF n
  <2>1. QED  BY <1>1, <1>2, <1>3 DEF Reg
<1> HIDE DEF s, n
<1>5. "unlink_ip" \in Labels /\ Place("unlink_ip", s) = "unlink_ip"
      /\ "unlink_ip" \notin Frees /\ pc[p] \notin Iputs
  BY <1>1, <1>4 DEF Labels, Place, Frees
<1>6. ShapeOK("unlink_ip", s)
  BY <1>1, <1>2, <1>3, <1>4, <1>5, InodeAssumption DEF ShapeOK, Shape, Linking, Labels
<1>7. ShapeInv' /\ pc' \in [Procs -> Labels] /\ reg' \in [Procs -> Reg]
  BY <1>1, <1>4, <1>5, <1>6, ShapeStep
<1>8. TypeOK'
  <2>1. valid' \in [Inums -> BOOLEAN] /\ mem' \in [Inums -> Dinode]
    BY <1>1, <1>2, IlockTypes
  <2>2. ref' \in [Inums -> Nat] /\ overtaken' \in BOOLEAN
    BY <1>1, <1>3, IgetTypes
  <2>3. QED  BY <1>1, <1>7, <2>1, <2>2 DEF TypeOK
<1>9. LockInv'
  <2>1. lock[j] = None
    BY <1>1 DEF ilock, CanLock
  <2>2. \A i \in Inums : lock[i] # p
    BY <1>1 DEF LockInv, Has
  <2>3. \A i \in Inums : lock'[i] = IF i = j THEN p ELSE lock[i]
    BY <1>1 DEF TypeOK
  <2>4. \A i \in Inums : Has(Place("unlink_ip", s), s, i) <=> i = j
    BY <1>4, <1>5 DEF Has
  <2>5. \A i \in Inums :
          /\ lock'[i] = lock[i] \/ {lock[i], lock'[i]} \subseteq {None, p}
          /\ lock'[i] = p <=> Has(Place("unlink_ip", s), s, i)
    BY <2>1, <2>2, <2>3, <2>4
  <2>6. QED  BY <1>1, <1>4, <1>5, <2>5, LockStep
<1>10. RefInv'
  <2>1. ref' = [ref EXCEPT ![n] = @ + 1]
    BY <1>1, <1>3, IgetTypes
  <2>2. QED  BY <1>1, <1>2, <1>3, <1>4, <2>1, GainIp
<1>11. ASSUME Regular' PROVE FreeInv' /\ MemInv'
  <2>1. Regular /\ ~overtaken'
    BY <1>1, <1>3, <1>11, IgetTypes DEF Regular
  <2>2. reg[p]["dp"] # None /\ ilock(reg[p]["dp"])
    BY <1>1, <1>2
  <2>3. \A i \in Inums : ref'[i] = ref[i] \/ (~Freeing(i) /\ ref'[i] = ref[i] + 1)
    BY <1>1, <1>3, <2>1, IgetTypes
  <2>4. \A i \in Inums : lock'[i] # None => lock[i] # None \/ i = reg[p]["dp"]
    BY <1>1 DEF TypeOK
  <2>5. QED  BY <1>1, <1>5, <1>8, <2>1, <2>2, <2>3, <2>4, IlockStep
<1>12. QED  BY <1>7, <1>8, <1>9, <1>10, <1>11 DEF CacheInv

\* A call that has locked its ip writes it, in the cache and on the disk.
LEMMA RecountStep ==
  ASSUME TypeOK, TypeOK', ShapeInv, RefInv, FreeInv, MemInv, NEW p \in Procs,
         NEW l, NEW r, Goto(p, l, r), pc[p] \notin Iputs, l \notin Frees,
         reg[p].ip # None, CanLock(reg[p].ip), lock' = lock,
         NEW e, e.type = Load(reg[p].ip).type,
         \A i \in Inums :
           /\ valid'[i] = (valid[i] \/ i \in {reg[p].ip})
           /\ mem'[i] = IF i \in {reg[p].ip} THEN e ELSE mem[i]
           /\ dsk'[i] = IF i \in {reg[p].ip} THEN e ELSE dsk[i],
         \A i \in Inums : ref'[i] = ref[i] \/ (~Freeing(i) /\ ref'[i] = ref[i] + 1)
  PROVE  FreeInv' /\ MemInv'
<1> DEFINE j == reg[p].ip
           ls == {j}
<1>1. j \in Inums /\ ~Freeing(j) /\ ref[j] > 0
  <2>1. "ip" \in Pointers /\ reg[p]["ip"] # None /\ "ip" # "put"
    BY DEF Pointers
  <2>2. reg[p]["ip"] \in Inums /\ ~Freeing(reg[p]["ip"]) /\ ref[reg[p]["ip"]] > 0
    BY <2>1, NotFreedReg
  <2>3. QED  BY <2>2
<1>2. pc[p] \notin Frees
  BY DEF Iputs, Frees
<1>3. Load(j) = dsk[j] /\ dsk[j].type # "free"
  BY <1>1, LoadedIsDisk
<1>4. ref'[j] > 0
  <2>1. ref[j] \in Nat
    BY <1>1 DEF TypeOK
  <2>2. ref'[j] = ref[j] \/ ref'[j] = ref[j] + 1
    BY <1>1
  <2>3. QED  BY <1>1, <2>1, <2>2
<1>5. \A i \in ls : /\ ~Freeing(i)
                    /\ dsk'[i].type # "free"
                    /\ valid'[i] => mem'[i] = dsk'[i] /\ ref'[i] > 0
                    /\ lock'[i] # None => valid'[i]
  BY <1>1, <1>3, <1>4
<1>6. \A i \in Inums \ ls : /\ valid'[i] = valid[i]
                            /\ mem'[i] = mem[i]
                            /\ dsk'[i] = dsk[i]
                            /\ lock'[i] # None => lock[i] # None
  <2>1. \A i \in Inums : valid[i] \in BOOLEAN
    BY DEF TypeOK
  <2>2. QED  BY <2>1
<1>7. ls \in SUBSET Inums
  BY <1>1
<1> HIDE DEF ls
<1>8. QED  BY <1>2, <1>5, <1>6, <1>7, QuietStep

\* link() counts the link and looks up the new path.
LEMMA LinkIpKeeps ==
  ASSUME CacheInv, NEW p \in Procs, NEW path \in Paths, LinkIp(p, path)
  PROVE  CacheInv'
<1> DEFINE j == reg[p].ip
           n == Start(p, path)
           e == [Load(j) EXCEPT !.nlink = @ + 1]
           new == [mem EXCEPT ![j] = e]
           t == path.elems
           s == [reg[p] EXCEPT !.path = t, !.want = "dp", !.cur = n]
<1> USE DEF Iputs, WithDp, WithIp, HoldDp, HoldIp
<1>1. /\ TypeOK /\ ShapeInv /\ LockInv /\ RefInv
      /\ Regular => FreeInv /\ MemInv
      /\ pc[p] = "link" /\ Shape("link", reg[p]) /\ reg[p] \in Reg
      /\ reg[p].put = None /\ At(p) = "link"
      /\ CanLock(j) /\ Locked({j}, new) /\ iupdate({j}, new)
      /\ iget(n) /\ Goto(p, "namex", s)
      /\ UNCHANGED <<dir, lock, cwd, fd, panicked, strayed>>
  BY CallState DEF LinkIp
<1>2. /\ reg[p].cur = None /\ reg[p].dp = None /\ j # None /\ j \in Inums
      /\ reg[p].call = "link"
  BY <1>1 DEF Shape, Reg, Linking
<1>3. n \in Inums /\ t \in Seq(Names \cup Dots)
  <2>1. path \in [abs : BOOLEAN, elems : Seq(Names \cup Dots)]
    BY InodeAssumption
  <2>2. QED  BY <1>1, <2>1, InodeAssumption DEF Start, TypeOK
<1>4. e \in Dinode /\ e.type = Load(j).type
  <2>1. Load(j) \in Dinode /\ Load(j).nlink + 1 \in Int
    BY <1>1, <1>2, DinodeFields DEF Dinode
  <2>2. QED  BY <1>1, <1>2, <2>1, DinodeFields
<1>5. /\ s \in Reg /\ s.call = "link" /\ s.want = "dp" /\ s.cur = n /\ s.dp = None
      /\ s.ip = j /\ s.put = None
  <2> HIDE DEF n, t
  <2>1. QED  BY <1>1, <1>2, <1>3 DEF Reg
<1> HIDE DEF s, n, e
<1>6. "namex" \in Labels /\ Place("namex", s) = "namex" /\ "namex" \notin Frees
      /\ pc[p] \notin Iputs
  BY <1>1 DEF Labels, Place, Frees
<1>7. ShapeOK("namex", s)
  BY <1>1, <1>2, <1>3, <1>5, <1>6, InodeAssumption
     DEF ShapeOK, Shape, Linking, Labels, CallNames, Creating
<1>8. ShapeInv' /\ pc' \in [Procs -> Labels] /\ reg' \in [Procs -> Reg]
  BY <1>1, <1>5, <1>6, <1>7, ShapeStep
<1>9. /\ valid' \in [Inums -> BOOLEAN] /\ mem' \in [Inums -> Dinode]
      /\ dsk' \in [Inums -> Dinode]
      /\ \A i \in Inums : /\ valid'[i] = (valid[i] \/ i \in {j})
                          /\ mem'[i] = IF i \in {j} THEN e ELSE mem[i]
                          /\ dsk'[i] = IF i \in {j} THEN e ELSE dsk[i]
  <2>1. new[j] = e /\ {j} \in SUBSET Inums /\ \A i \in {j} : new[i] \in Dinode
    BY <1>1, <1>2, <1>4 DEF TypeOK
  <2> HIDE DEF new
  <2>2. /\ valid' \in [Inums -> BOOLEAN] /\ mem' \in [Inums -> Dinode]
        /\ \A i \in Inums : /\ valid'[i] = (valid[i] \/ i \in {j})
                            /\ mem'[i] = IF i \in {j} THEN new[i] ELSE mem[i]
    BY <1>1, <2>1, LockedTypes
  <2>3. /\ dsk' \in [Inums -> Dinode]
        /\ \A i \in Inums : dsk'[i] = IF i \in {j} THEN new[i] ELSE dsk[i]
    BY <1>1, <2>1, UpdateTypes
  <2>4. QED  BY <2>1, <2>2, <2>3
<1>10. TypeOK'
  <2>1. ref' \in [Inums -> Nat] /\ overtaken' \in BOOLEAN
    BY <1>1, <1>3, IgetTypes
  <2>2. QED  BY <1>1, <1>8, <1>9, <2>1 DEF TypeOK
<1>11. LockInv'
  <2>1. \A i \in Inums : Has(Place("namex", s), s, i) <=> Has(At(p), reg[p], i)
    BY <1>1, <1>6 DEF Has
  <2>2. QED  BY <1>1, <1>5, <1>6, <2>1, LockSame
<1>12. RefInv'
  <2>1. reg[p]["cur"] = None /\ s["cur"] = n /\ "cur" \in Pointers
        /\ Agree(s, reg[p], {"cur"})
    BY <1>1, <1>2, <1>5 DEF Pointers, Agree
  <2>2. ref' = [ref EXCEPT ![n] = @ + 1]
    BY <1>1, <1>3, IgetTypes
  <2>3. QED  BY <1>1, <1>3, <1>5, <2>1, <2>2, GainRef
<1>13. ASSUME Regular' PROVE FreeInv' /\ MemInv'
  <2>1. Regular /\ ~overtaken'
    BY <1>1, <1>3, <1>13, IgetTypes DEF Regular
  <2>2. \A i \in Inums : ref'[i] = ref[i] \/ (~Freeing(i) /\ ref'[i] = ref[i] + 1)
    BY <1>1, <1>3, <2>1, IgetTypes
  <2>3. QED  BY <1>1, <1>2, <1>4, <1>6, <1>9, <1>10, <2>1, <2>2, RecountStep
<1>14. QED  BY <1>8, <1>10, <1>11, <1>12, <1>13 DEF CacheInv

\* link() takes the count back.
LEMMA LinkBadKeeps ==
  ASSUME CacheInv, NEW p \in Procs, LinkBad(p)
  PROVE  CacheInv'
<1> DEFINE j == reg[p].ip
           e == [Load(j) EXCEPT !.nlink = @ - 1]
           new == [mem EXCEPT ![j] = e]
           s == Going(reg[p], "ip", "user")
<1> USE DEF Iputs, WithDp, WithIp, HoldDp, HoldIp
<1>1. /\ TypeOK /\ ShapeInv /\ LockInv /\ RefInv
      /\ Regular => FreeInv /\ MemInv
      /\ pc[p] = "link_bad" /\ Shape("link_bad", reg[p]) /\ reg[p] \in Reg
      /\ reg[p].put = None /\ At(p) = "link_bad"
      /\ CanLock(j) /\ Locked({j}, new) /\ iupdate({j}, new)
      /\ GotoIput(p, reg[p], "ip", "user")
      /\ UNCHANGED <<dir, ref, lock, cwd, fd, panicked, overtaken, strayed>>
  BY CallState DEF LinkBad, history
<1>2. /\ reg[p].cur = None /\ reg[p].dp = None /\ j # None /\ j \in Inums
  BY <1>1 DEF Shape, Reg, Linking
<1>3. e \in Dinode /\ e.type = Load(j).type
  <2>1. Load(j) \in Dinode /\ Load(j).nlink - 1 \in Int
    BY <1>1, <1>2, DinodeFields DEF Dinode
  <2>2. QED  BY <1>1, <1>2, <2>1, DinodeFields
<1>4. /\ RefInv' /\ ShapeInv'
      /\ pc' \in [Procs -> Labels] /\ reg' \in [Procs -> Reg]
      /\ s \in Reg /\ Goto(p, "iput", s) /\ Place("iput", s) = "user"
  <2>1. /\ "ip" \in {"cur", "dp", "ip"} /\ reg[p]["ip"] # None /\ pc[p] \notin Iputs
        /\ "user" \in Labels \ Iputs
        /\ "user" = "user" => \A z \in {"cur", "dp", "ip"} \ {"ip"} : reg[p][z] = None
        /\ "user" # "user" => Shape("user", Going(reg[p], "ip", "user"))
    BY <1>1, <1>2 DEF Labels
  <2>2. QED  BY <1>1, <2>1, PutStep
<1> HIDE DEF s, e
<1>5. /\ valid' \in [Inums -> BOOLEAN] /\ mem' \in [Inums -> Dinode]
      /\ dsk' \in [Inums -> Dinode]
      /\ \A i \in Inums : /\ valid'[i] = (valid[i] \/ i \in {j})
                          /\ mem'[i] = IF i \in {j} THEN e ELSE mem[i]
                          /\ dsk'[i] = IF i \in {j} THEN e ELSE dsk[i]
  <2>1. new[j] = e /\ {j} \in SUBSET Inums /\ \A i \in {j} : new[i] \in Dinode
    BY <1>1, <1>2, <1>3 DEF TypeOK
  <2> HIDE DEF new
  <2>2. /\ valid' \in [Inums -> BOOLEAN] /\ mem' \in [Inums -> Dinode]
        /\ \A i \in Inums : /\ valid'[i] = (valid[i] \/ i \in {j})
                            /\ mem'[i] = IF i \in {j} THEN new[i] ELSE mem[i]
    BY <1>1, <2>1, LockedTypes
  <2>3. /\ dsk' \in [Inums -> Dinode]
        /\ \A i \in Inums : dsk'[i] = IF i \in {j} THEN new[i] ELSE dsk[i]
    BY <1>1, <2>1, UpdateTypes
  <2>4. QED  BY <2>1, <2>2, <2>3
<1>6. TypeOK'
  BY <1>1, <1>4, <1>5 DEF TypeOK
<1>7. "iput" \in Labels /\ "iput" \notin Frees /\ pc[p] \notin Iputs
  BY <1>1 DEF Labels, Frees
<1>8. LockInv'
  <2>1. \A i \in Inums : Has(Place("iput", s), s, i) <=> Has(At(p), reg[p], i)
    BY <1>1, <1>4 DEF Has
  <2>2. QED  BY <1>1, <1>4, <1>7, <2>1, LockSame
<1>9. ASSUME Regular' PROVE FreeInv' /\ MemInv'
  <2>1. Regular
    BY <1>1, <1>9 DEF Regular
  <2>2. \A i \in Inums : ref'[i] = ref[i] \/ (~Freeing(i) /\ ref'[i] = ref[i] + 1)
    BY <1>1
  <2>3. QED  BY <1>1, <1>2, <1>3, <1>4, <1>5, <1>6, <1>7, <2>1, <2>2, RecountStep
<1>10. QED  BY <1>4, <1>6, <1>8, <1>9 DEF CacheInv

\* link() makes the entry.
LEMMA LinkDpKeeps ==
  ASSUME CacheInv, NEW p \in Procs, LinkDp(p)
  PROVE  CacheInv'
<1> USE DEF Iputs, WithDp, WithIp, HoldDp, HoldIp
<1>1. /\ TypeOK /\ pc[p] = "link_dp" /\ Shape("link_dp", reg[p]) /\ reg[p] \in Reg
      /\ ilock(reg[p]["dp"])
      /\ UNCHANGED <<dsk, ref, lock, cwd, fd, panicked, overtaken>>
  BY CallState DEF LinkDp, LooksInto
<1>2. /\ reg[p].cur = None /\ reg[p].dp # None /\ reg[p].ip # None /\ Linking(reg[p])
      /\ reg[p].dp \in Inums /\ reg[p].ip \in Inums
  BY <1>1 DEF Shape, Reg
<1>3. PICK l \in {"link_done", "link_bad"} : GotoIput(p, reg[p], "dp", l)
  BY DEF LinkDp
<1>4. /\ dir' \in [Inums -> [Names \cup Dots -> Inums \cup {None}]]
      /\ strayed' \in BOOLEAN /\ (~strayed' => ~strayed)
  <2>1. CASE UNCHANGED <<dir, strayed>>  BY <1>1, <2>1 DEF TypeOK
  <2>2. CASE /\ dir' = [dir EXCEPT ![reg[p].dp][reg[p].name] = reg[p].ip]
             /\ strayed' = (strayed \/ Load(reg[p].dp).nlink = 0)
    <3>1. dir' \in [Inums -> [Names \cup Dots -> Inums \cup {None}]]
      BY <1>1, <1>2, <2>2 DEF TypeOK
    <3>2. strayed' \in BOOLEAN /\ (~strayed' => ~strayed)
      BY <2>2
    <3>3. QED  BY <3>1, <3>2
  <2>3. QED  BY <2>1, <2>2 DEF LinkDp
<1> DEFINE s == Going(reg[p], "dp", l)
<1>5. Shape(l, s)
  <2>1. l \in Labels
    BY DEF Labels
  <2>2. /\ s.call = reg[p].call /\ s.want = reg[p].want
        /\ s.cur = None /\ s.dp = None /\ s.ip = reg[p].ip
    <3>1. Goes(s, reg[p], "dp", l)
      BY <1>1, <2>1, GoingFields
    <3>2. QED  BY <1>2, <3>1 DEF Goes
  <2> HIDE DEF s
  <2>3. QED  BY <1>2, <2>2, InodeAssumption DEF Shape, Linking, Labels
<1>6. \A i \in Inums : Has(l, s, i) <=> Has(pc[p], reg[p], i)
  BY <1>1 DEF Has
<1>7. /\ l \in Labels \ Iputs /\ l # "user" /\ "dp" \in {"cur", "dp", "ip"}
      /\ reg[p]["dp"] # None /\ pc[p] \notin Iputs
  BY <1>1, <1>2 DEF Labels
<1>8. QED  BY <1>1, <1>3, <1>4, <1>5, <1>6, <1>7, IlockPutKeeps

\* unlink() meets a directory that is not empty.
LEMMA UnlinkNotEmptyKeeps ==
  ASSUME CacheInv, NEW p \in Procs, UnlinkNotEmpty(p)
  PROVE  CacheInv'
<1> DEFINE l == "unlink_bad"
           s == Going(reg[p], "ip", l)
<1> USE DEF Iputs, WithDp, WithIp, HoldDp, HoldIp
<1>1. /\ TypeOK /\ pc[p] = "unlink_ip" /\ Shape("unlink_ip", reg[p]) /\ reg[p] \in Reg
      /\ ilock(reg[p]["ip"]) /\ GotoIput(p, reg[p], "ip", l)
      /\ UNCHANGED <<dsk, dir, ref, lock, cwd, fd, panicked, overtaken, strayed>>
  BY CallState DEF UnlinkNotEmpty, diskVars, history
<1>2. /\ reg[p].cur = None /\ reg[p].dp # None /\ reg[p].ip # None
      /\ reg[p].call = "unlink" /\ reg[p].name # None
  BY <1>1 DEF Shape, Reg
<1>3. /\ dir' \in [Inums -> [Names \cup Dots -> Inums \cup {None}]]
      /\ strayed' \in BOOLEAN /\ (~strayed' => ~strayed)
  BY <1>1 DEF TypeOK
<1>4. /\ s.call = reg[p].call /\ s.name = reg[p].name
      /\ s.cur = None /\ s.dp = reg[p].dp /\ s.ip = None
  <2>1. l \in Labels /\ l # "user"
    BY DEF Labels
  <2>2. Goes(s, reg[p], "ip", l)
    BY <1>1, <2>1, GoingFields
  <2>3. QED  BY <1>2, <2>1, <2>2 DEF Goes
<1> HIDE DEF s
<1>5. Shape(l, s)
  BY <1>2, <1>4, InodeAssumption DEF Shape, Linking, Labels
<1>6. \A i \in Inums : Has(l, s, i) <=> Has(pc[p], reg[p], i)
  BY <1>1, <1>4 DEF Has
<1>7. /\ l \in Labels \ Iputs /\ l # "user" /\ "ip" \in {"cur", "dp", "ip"}
      /\ reg[p]["ip"] # None /\ pc[p] \notin Iputs
  BY <1>1, <1>2 DEF Labels
<1> HIDE DEF l
<1>8. QED  BY <1>1, <1>3, <1>5, <1>6, <1>7, IlockPutKeeps DEF s

\* create() allocates an inode.
LEMMA CreateNewKeeps ==
  ASSUME CacheInv, NEW p \in Procs, NEW n \in Inums, CreateNew(p, n)
  PROVE  CacheInv'
<1> DEFINE j == reg[p].dp
           e == [type |-> Type(reg[p].call), nlink |-> 0]
           s == [reg[p] EXCEPT !.ip = n]
<1> USE DEF Iputs, WithDp, WithIp, HoldDp, HoldIp
<1>1. /\ TypeOK /\ ShapeInv /\ LockInv /\ RefInv
      /\ Regular => FreeInv /\ MemInv
      /\ pc[p] = "create" /\ Shape("create", reg[p]) /\ reg[p] \in Reg
      /\ reg[p].put = None /\ At(p) = "create"
      /\ ilock(j) /\ iget(n) /\ dsk[n].type = "free" /\ dsk' = [dsk EXCEPT ![n] = e]
      /\ Goto(p, "create_new", s) /\ lock' = [lock EXCEPT ![j] = p]
      /\ UNCHANGED <<dir, cwd, fd, panicked, strayed>>
  BY CallState DEF CreateNew, LooksInto
<1>2. /\ reg[p].cur = None /\ reg[p].ip = None /\ j # None /\ j \in Inums
      /\ reg[p].call \in Creating /\ reg[p].name # None
  BY <1>1 DEF Shape, Reg, Linking
<1>3. e \in Dinode /\ e.type # "free"
  <2>1. Type(reg[p].call) \in {"dir", "file", "dev"}
    BY <1>2 DEF Type, Creating
  <2>2. QED  BY <2>1 DEF Dinode
<1>4. /\ s \in Reg /\ s.call = reg[p].call /\ s.cur = None /\ s.dp = j /\ s.ip = n
      /\ s.put = None /\ s.name = reg[p].name
  BY <1>1, <1>2 DEF Reg
<1> HIDE DEF s, e
<1>5. "create_new" \in Labels /\ Place("create_new", s) = "create_new"
      /\ "create_new" \notin Frees /\ pc[p] \notin Iputs
  BY <1>1, <1>4 DEF Labels, Place, Frees
<1>6. ShapeOK("create_new", s)
  BY <1>1, <1>2, <1>4, <1>5, InodeAssumption DEF ShapeOK, Shape, Linking, Labels
<1>7. ShapeInv' /\ pc' \in [Procs -> Labels] /\ reg' \in [Procs -> Reg]
  BY <1>1, <1>4, <1>5, <1>6, ShapeStep
<1>8. /\ \A i \in Inums : /\ valid'[i] = (valid[i] \/ i = j)
                          /\ mem'[i] = IF i = j THEN Load(j) ELSE mem[i]
                          /\ dsk'[i] = IF i = n THEN e ELSE dsk[i]
                          /\ lock'[i] = IF i = j THEN p ELSE lock[i]
      /\ CanLock(j) /\ dsk' \in [Inums -> Dinode]
      /\ valid' \in [Inums -> BOOLEAN] /\ mem' \in [Inums -> Dinode]
      /\ lock' \in [Inums -> Procs \cup {None}]
  <2>1. /\ valid' \in [Inums -> BOOLEAN] /\ mem' \in [Inums -> Dinode]
        /\ CanLock(j)
        /\ \A i \in Inums : /\ valid'[i] = (valid[i] \/ i = j)
                            /\ mem'[i] = IF i = j THEN Load(j) ELSE mem[i]
    BY <1>1, <1>2, IlockTypes
  <2>2. /\ dsk' \in [Inums -> Dinode] /\ lock' \in [Inums -> Procs \cup {None}]
        /\ \A i \in Inums : /\ dsk'[i] = IF i = n THEN e ELSE dsk[i]
                            /\ lock'[i] = IF i = j THEN p ELSE lock[i]
    BY <1>1, <1>3 DEF TypeOK
  <2>3. QED  BY <2>1, <2>2
<1>9. TypeOK'
  <2>1. ref' \in [Inums -> Nat] /\ overtaken' \in BOOLEAN
    BY <1>1, IgetTypes
  <2>2. QED  BY <1>1, <1>7, <1>8, <2>1 DEF TypeOK
<1>10. LockInv'
  <2>1. lock[j] = None
    BY <1>8 DEF CanLock
  <2>2. \A i \in Inums : lock[i] # p
    BY <1>1 DEF LockInv, Has
  <2>3. \A i \in Inums : Has(Place("create_new", s), s, i) <=> i = j
    BY <1>4, <1>5 DEF Has
  <2>4. \A i \in Inums :
          /\ lock'[i] = lock[i] \/ {lock[i], lock'[i]} \subseteq {None, p}
          /\ lock'[i] = p <=> Has(Place("create_new", s), s, i)
    BY <1>8, <2>1, <2>2, <2>3
  <2>5. QED  BY <1>1, <1>4, <1>5, <2>4, LockStep
<1>11. RefInv'
  <2>1. ref' = [ref EXCEPT ![n] = @ + 1]
    BY <1>1, IgetTypes
  <2>2. QED  BY <1>1, <1>2, <1>4, <2>1, GainIp
<1>12. ASSUME Regular' PROVE FreeInv' /\ MemInv'
  <2>1. Regular /\ ~overtaken' /\ ~Freeing(n) /\ FreeInv /\ MemInv
    BY <1>1, <1>12, IgetTypes DEF Regular
  <2>2. \A i \in Inums : ref'[i] = ref[i] \/ (~Freeing(i) /\ ref'[i] = ref[i] + 1)
    BY <1>1, <2>1, IgetTypes
  <2>3. ~Freeing(j) /\ ref[j] > 0
    <3>1. "dp" \in Pointers /\ reg[p]["dp"] # None /\ "dp" # "put"
      BY <1>2 DEF Pointers
    <3>2. ~Freeing(reg[p]["dp"]) /\ ref[reg[p]["dp"]] > 0
      BY <1>1, <2>1, <3>1, NotFreedReg
    <3>3. QED  BY <3>2
  <2>4. Load(j) = dsk[j] /\ dsk[j].type # "free"
    BY <1>1, <1>2, <1>8, <2>1, <2>3, LoadedIsDisk
  <2>5. j # n /\ ~valid[n] /\ lock[n] = None
    BY <1>1, <2>1, <2>4 DEF MemInv, Freeing
  <2>6. ref'[j] > 0
    <3>1. ref[j] \in Nat /\ (ref'[j] = ref[j] \/ ref'[j] = ref[j] + 1)
      BY <1>1, <1>2, <2>2 DEF TypeOK
    <3>2. QED  BY <2>3, <3>1
  <2> DEFINE ls == {j, n}
  <2>7. \A i \in ls : /\ ~Freeing(i)
                      /\ dsk'[i].type # "free"
                      /\ valid'[i] => mem'[i] = dsk'[i] /\ ref'[i] > 0
                      /\ lock'[i] # None => valid'[i]
    <3>1. /\ dsk'[j] = dsk[j] /\ mem'[j] = dsk[j] /\ valid'[j]
      BY <1>2, <1>8, <2>4, <2>5
    <3>2. /\ dsk'[n] = e /\ ~valid'[n] /\ lock'[n] = None
      BY <1>8, <2>5
    <3>3. QED  BY <1>3, <2>1, <2>3, <2>4, <2>6, <3>1, <3>2
  <2>8. \A i \in Inums \ ls : /\ valid'[i] = valid[i]
                              /\ mem'[i] = mem[i]
                              /\ dsk'[i] = dsk[i]
                              /\ lock'[i] # None => lock[i] # None
    <3>1. \A i \in Inums : valid[i] \in BOOLEAN
      BY <1>1 DEF TypeOK
    <3>2. QED  BY <1>8, <3>1
  <2>9. ls \in SUBSET Inums /\ pc[p] \notin Frees
    BY <1>1, <1>2 DEF Frees
  <2> HIDE DEF ls
  <2>10. QED  BY <1>1, <1>5, <1>9, <2>1, <2>2, <2>7, <2>8, <2>9, QuietStep
<1>13. QED  BY <1>7, <1>9, <1>10, <1>11, <1>12 DEF CacheInv

\* A call that has its directory locked locks its ip as well, writes both, and
\* lets go of the directory, which goes to iput().
LEMMA SwapLocksKeeps ==
  ASSUME CacheInv, NEW p \in Procs, pc[p] \in {"create_new", "unlink_ip"},
         NEW l \in {"opened", "created", "unlink_dec"},
         NEW s \in Reg, Goto(p, "iput", s), Shape(l, s),
         s.cur = None, s.dp = None, s.ip = reg[p].ip, s.put = reg[p].dp, s.ret = l,
         CanLock(reg[p].ip),
         NEW a \in Dinode, a.type = Load(reg[p].ip).type,
         NEW b \in Dinode, b.type = mem[reg[p].dp].type,
         NEW new, reg[p].dp # reg[p].ip => new[reg[p].ip] = a /\ new[reg[p].dp] = b,
         Locked({reg[p].ip, reg[p].dp}, new),
         NEW ls \in SUBSET {reg[p].ip, reg[p].dp}, iupdate(ls, new),
         reg[p].ip \notin ls => a = Load(reg[p].ip),
         reg[p].dp \notin ls => b = mem[reg[p].dp],
         dir' \in [Inums -> [Names \cup Dots -> Inums \cup {None}]],
         lock' = [lock EXCEPT ![reg[p].dp] = None, ![reg[p].ip] = p],
         strayed' \in BOOLEAN, ~strayed' => ~strayed,
         UNCHANGED <<ref, cwd, fd, panicked, overtaken>>
  PROVE  CacheInv'
<1> DEFINE d == reg[p].dp
           i == reg[p].ip
<1> USE DEF Iputs, WithDp, WithIp, HoldDp, HoldIp
<1>1. /\ TypeOK /\ ShapeInv /\ LockInv /\ RefInv
      /\ Regular => FreeInv /\ MemInv
      /\ Shape(pc[p], reg[p]) /\ reg[p] \in Reg
      /\ reg[p].put = None /\ At(p) = pc[p]
  BY CallState
<1>2. reg[p].cur = None /\ d # None /\ d \in Inums /\ i # None /\ i \in Inums
  BY <1>1 DEF Shape, Reg, Linking
<1>3. \A k \in Inums : lock[k] = p <=> k = d
  BY <1>1, <1>2 DEF LockInv, Has
<1>4. lock[d] = p /\ lock[i] = None /\ d # i
  BY <1>2, <1>3, InodeAssumption DEF CanLock
<1>5. "iput" \in Labels /\ Place("iput", s) = l /\ "iput" \notin Frees
      /\ pc[p] \notin Iputs /\ pc[p] \notin Frees
  BY DEF Labels, Place, Frees
<1>6. ShapeOK("iput", s)
  BY <1>2, <1>5 DEF ShapeOK
<1>7. ShapeInv' /\ pc' \in [Procs -> Labels] /\ reg' \in [Procs -> Reg]
  BY <1>1, <1>5, <1>6, ShapeStep
<1>8. new[i] = a /\ new[d] = b /\ \A k \in {i, d} : new[k] \in Dinode
  BY <1>4
<1>9. /\ valid' \in [Inums -> BOOLEAN] /\ mem' \in [Inums -> Dinode]
      /\ dsk' \in [Inums -> Dinode]
      /\ \A k \in Inums : /\ valid'[k] = (valid[k] \/ k \in {i, d})
                          /\ mem'[k] = IF k \in {i, d} THEN new[k] ELSE mem[k]
                          /\ dsk'[k] = IF k \in ls THEN new[k] ELSE dsk[k]
  <2>1. {i, d} \in SUBSET Inums /\ ls \in SUBSET Inums
        /\ \A k \in ls : new[k] \in Dinode
    BY <1>2, <1>8
  <2>2. /\ valid' \in [Inums -> BOOLEAN] /\ mem' \in [Inums -> Dinode]
        /\ \A k \in Inums : /\ valid'[k] = (valid[k] \/ k \in {i, d})
                            /\ mem'[k] = IF k \in {i, d} THEN new[k] ELSE mem[k]
    BY <1>1, <1>8, <2>1, LockedTypes
  <2>3. /\ dsk' \in [Inums -> Dinode]
        /\ \A k \in Inums : dsk'[k] = IF k \in ls THEN new[k] ELSE dsk[k]
    BY <1>1, <2>1, UpdateTypes
  <2>4. QED  BY <2>2, <2>3
<1>10. /\ \A k \in Inums : lock'[k] = IF k = i THEN p ELSE IF k = d THEN None ELSE lock[k]
       /\ lock' \in [Inums -> Procs \cup {None}]
  BY <1>1, <1>4 DEF TypeOK
<1>11. TypeOK'
  BY <1>1, <1>7, <1>9, <1>10 DEF TypeOK
<1>12. LockInv'
  <2>1. \A k \in Inums : Has(Place("iput", s), s, k) <=> k = i
    BY <1>5 DEF Has
  <2>2. \A k \in Inums :
          /\ lock'[k] = lock[k] \/ {lock[k], lock'[k]} \subseteq {None, p}
          /\ lock'[k] = p <=> Has(Place("iput", s), s, k)
    BY <1>3, <1>4, <1>10, <2>1, InodeAssumption
  <2>3. TypeOK /\ LockInv /\ "iput" \in Labels /\ Goto(p, "iput", s)
    BY <1>1, <1>5
  <2>4. QED  BY <2>2, <2>3, LockStep, ZenonT(40)
<1>13. RefInv'
  <2>1. /\ "dp" \in Pointers /\ "put" \in Pointers /\ "dp" # "put"
        /\ reg[p]["put"] = None /\ reg[p]["dp"] # None /\ s["dp"] = None
        /\ s["put"] = reg[p]["dp"]
        /\ \A z \in Pointers \ {"dp", "put"} : s[z] = reg[p][z]
    BY <1>1, <1>2 DEF Pointers
  <2>2. QED  BY <1>1, <2>1, MoveRefs
<1>14. ASSUME Regular' PROVE FreeInv' /\ MemInv'
  <2>1. Regular /\ FreeInv /\ MemInv
    BY <1>1, <1>14 DEF Regular
  <2>2. /\ mem[d] = dsk[d] /\ dsk[d].type # "free" /\ ref[d] > 0 /\ ~Freeing(d)
    <3>1. "dp" \in {"dp", "ip"} /\ reg[p]["dp"] # None /\ Has(At(p), reg[p], reg[p]["dp"])
      BY <1>1, <1>2 DEF Has
    <3>2. LET k == reg[p]["dp"] IN
            mem[k] = dsk[k] /\ dsk[k].type # "free" /\ ref[k] > 0 /\ ~Freeing(k)
      BY <1>1, <2>1, <3>1, HeldIsDisk
    <3>3. QED  BY <3>2
  <2>3. ~Freeing(i) /\ ref[i] > 0
    <3>1. "ip" \in Pointers /\ reg[p]["ip"] # None /\ "ip" # "put"
      BY <1>2 DEF Pointers
    <3>2. ~Freeing(reg[p]["ip"]) /\ ref[reg[p]["ip"]] > 0
      BY <1>1, <2>1, <3>1, NotFreedReg
    <3>3. QED  BY <3>2
  <2>4. Load(i) = dsk[i] /\ dsk[i].type # "free"
    BY <1>1, <1>2, <2>1, <2>3, LoadedIsDisk
  <2>5. /\ mem'[i] = a /\ dsk'[i] = a /\ valid'[i]
        /\ mem'[d] = b /\ dsk'[d] = b /\ valid'[d]
    BY <1>2, <1>8, <1>9, <2>2, <2>4
  <2> DEFINE ks == {i, d}
  <2>6. \A k \in ks : /\ ~Freeing(k)
                      /\ dsk'[k].type # "free"
                      /\ valid'[k] => mem'[k] = dsk'[k] /\ ref'[k] > 0
                      /\ lock'[k] # None => valid'[k]
    BY <2>2, <2>3, <2>4, <2>5
  <2>7. \A k \in Inums \ ks : /\ valid'[k] = valid[k]
                              /\ mem'[k] = mem[k]
                              /\ dsk'[k] = dsk[k]
                              /\ lock'[k] # None => lock[k] # None
    <3>1. \A k \in Inums : valid[k] \in BOOLEAN
      BY <1>1 DEF TypeOK
    <3>2. QED  BY <1>9, <1>10, <3>1
  <2>8. ks \in SUBSET Inums
    BY <1>2
  <2>9. \A k \in Inums : ref'[k] = ref[k] \/ (~Freeing(k) /\ ref'[k] = ref[k] + 1)
    OBVIOUS
  <2> HIDE DEF ks
  <2>10. QED  BY <1>1, <1>5, <1>11, <2>1, <2>6, <2>7, <2>8, <2>9, QuietStep
<1>15. QED  BY <1>7, <1>11, <1>12, <1>13, <1>14 DEF CacheInv

\* The fields of an inode with another link count.
LEMMA NlinkFields ==
  ASSUME NEW d \in Dinode, NEW k \in Int
  PROVE  LET e == [d EXCEPT !.nlink = k] IN
         e \in Dinode /\ e.type = d.type /\ e.nlink = k /\ (k = d.nlink => e = d)
BY DEF Dinode

\* create() fills in the new inode and makes its entry.
LEMMA CreateFillKeeps ==
  ASSUME CacheInv, NEW p \in Procs, CreateFill(p)
  PROVE  CacheInv'
<1> DEFINE d == reg[p].dp
           i == reg[p].ip
           isdir == reg[p].call = "mkdir"
           k == IF isdir THEN mem[d].nlink + 1 ELSE mem[d].nlink
           a == [Load(i) EXCEPT !.nlink = 1]
           b == [mem[d] EXCEPT !.nlink = k]
           new == [mem EXCEPT ![i] = a, ![d].nlink = IF isdir THEN @ + 1 ELSE @]
           ls == IF isdir THEN {i, d} ELSE {i}
           l == IF reg[p].call = "creat" THEN "opened" ELSE "created"
           R == [Blank EXCEPT !.dp = d, !.ip = i]
           s == Going(R, "dp", l)
<1> USE DEF Iputs, WithDp, WithIp, HoldDp, HoldIp
<1>1. /\ TypeOK /\ pc[p] = "create_new" /\ Shape("create_new", reg[p]) /\ reg[p] \in Reg
      /\ CanLock(i) /\ Locked({i, d}, new) /\ iupdate(ls, new)
      /\ dir' = [dir EXCEPT
           ![i] = IF isdir THEN [@ EXCEPT !["."] = i, ![".."] = d] ELSE @,
           ![d][reg[p].name] = i]
      /\ lock' = [lock EXCEPT ![d] = None, ![i] = p]
      /\ strayed' = (strayed \/ mem[d].nlink = 0)
      /\ Goto(p, "iput", s)
      /\ UNCHANGED <<ref, cwd, fd, panicked, overtaken>>
  BY CallState DEF CreateFill, GotoIput, Going
<1>2. d # None /\ d \in Inums /\ i # None /\ i \in Inums
  BY <1>1 DEF Shape, Reg, Linking
<1>3. a \in Dinode /\ a.type = Load(i).type
  <2>1. Load(i) \in Dinode
    BY <1>1, <1>2, DinodeFields
  <2>2. QED  BY <2>1 DEF Dinode
<1>4. b \in Dinode /\ b.type = mem[d].type /\ (~isdir => b = mem[d])
  <2>1. mem[d] \in Dinode /\ mem[d].nlink \in Int
    BY <1>1, <1>2, DinodeFields DEF TypeOK
  <2>2. k \in Int /\ (~isdir => k = mem[d].nlink)
    BY <2>1
  <2> HIDE DEF k, isdir
  <2>3. QED  BY <2>1, <2>2, NlinkFields
<1>5. d # i => new[i] = a /\ new[d] = b
  <2> HIDE DEF a
  <2>1. QED  BY <1>1, <1>2 DEF TypeOK
<1>6. ls \in SUBSET {i, d} /\ i \in ls /\ (d \notin ls => ~isdir)
  OBVIOUS
<1>7. dir' \in [Inums -> [Names \cup Dots -> Inums \cup {None}]]
  <2> DEFINE e == IF isdir THEN [dir[i] EXCEPT !["."] = i, ![".."] = d] ELSE dir[i]
             D == [dir EXCEPT ![i] = e]
  <2>1. e \in [Names \cup Dots -> Inums \cup {None}]
    BY <1>1, <1>2 DEF TypeOK
  <2>2. dir' = [D EXCEPT ![d] = [D[d] EXCEPT ![reg[p].name] = i]]
    BY <1>1
  <2> HIDE DEF e
  <2>3. D \in [Inums -> [Names \cup Dots -> Inums \cup {None}]]
    BY <1>1, <2>1 DEF TypeOK
  <2> HIDE DEF D
  <2>4. QED  BY <1>2, <2>2, <2>3
<1>8. strayed' \in BOOLEAN /\ (~strayed' => ~strayed)
  BY <1>1
<1>9. l \in {"opened", "created", "unlink_dec"} /\ l \in Labels /\ l # "user"
  BY DEF Labels
<1>10. R \in Reg /\ R.call = None /\ R.cur = None /\ R.dp = d /\ R.ip = i
  <2> HIDE DEF d, i
  <2>1. QED  BY <1>2, BlankReg DEF Blank, Reg
<1>11. /\ s \in Reg /\ s.call = None /\ s.cur = None /\ s.dp = None /\ s.ip = i
       /\ s.put = d /\ s.ret = l
  <2> HIDE DEF R, l
  <2>1. Goes(s, R, "dp", l)
    BY <1>9, <1>10, GoingFields
  <2>2. QED  BY <1>9, <1>10, <2>1 DEF Goes
<1> HIDE DEF s
<1>12. Shape(l, s)
  BY <1>2, <1>9, <1>11, InodeAssumption DEF Shape, Labels
<1> HIDE DEF l, a, b, ls, isdir, k, R
<1> HIDE DEF new
<1>13. /\ pc[p] \in {"create_new", "unlink_ip"}
       /\ CanLock(i) /\ Locked({i, d}, new) /\ iupdate(ls, new)
       /\ lock' = [lock EXCEPT ![d] = None, ![i] = p]
       /\ Goto(p, "iput", s)
       /\ UNCHANGED <<ref, cwd, fd, panicked, overtaken>>
  BY <1>1
<1>14. (i \notin ls => a = Load(i)) /\ (d \notin ls => b = mem[d])
  BY <1>4, <1>6
<1>15. QED
  BY <1>3, <1>4, <1>5, <1>6, <1>7, <1>8, <1>9, <1>11, <1>12, <1>13, <1>14, SwapLocksKeeps

\* unlink() erases the entry.
LEMMA UnlinkEntryKeeps ==
  ASSUME CacheInv, NEW p \in Procs, UnlinkEntry(p)
  PROVE  CacheInv'
<1> DEFINE d == reg[p].dp
           i == reg[p].ip
           isdir == Load(i).type = "dir"
           k == IF isdir THEN mem[d].nlink - 1 ELSE mem[d].nlink
           a == Load(i)
           b == [mem[d] EXCEPT !.nlink = k]
           new == [mem EXCEPT ![i] = a, ![d].nlink = IF isdir THEN @ - 1 ELSE @]
           ls == IF isdir THEN {d} ELSE {}
           l == "unlink_dec"
           s == Going(reg[p], "dp", l)
<1> USE DEF Iputs, WithDp, WithIp, HoldDp, HoldIp
<1>1. /\ TypeOK /\ pc[p] = "unlink_ip" /\ Shape("unlink_ip", reg[p]) /\ reg[p] \in Reg
      /\ CanLock(i) /\ Locked({i, d}, new) /\ iupdate(ls, new)
      /\ dir' = [dir EXCEPT ![d][reg[p].name] = None]
      /\ lock' = [lock EXCEPT ![d] = None, ![i] = p]
      /\ Goto(p, "iput", s)
      /\ UNCHANGED <<ref, cwd, fd, panicked, overtaken, strayed>>
  BY CallState DEF UnlinkEntry, GotoIput, Going, history
<1>2. d # None /\ d \in Inums /\ i # None /\ i \in Inums /\ reg[p].cur = None
      /\ reg[p].call = "unlink"
  BY <1>1 DEF Shape, Reg, Linking
<1>3. a \in Dinode /\ a.type = Load(i).type
  <2>1. Load(i) \in Dinode
    BY <1>1, <1>2, DinodeFields
  <2>2. QED  BY <2>1 DEF Dinode
<1>4. b \in Dinode /\ b.type = mem[d].type /\ (~isdir => b = mem[d])
  <2>1. mem[d] \in Dinode /\ mem[d].nlink \in Int
    BY <1>1, <1>2, DinodeFields DEF TypeOK
  <2>2. k \in Int /\ (~isdir => k = mem[d].nlink)
    BY <2>1
  <2> HIDE DEF k, isdir
  <2>3. QED  BY <2>1, <2>2, NlinkFields
<1>5. d # i => new[i] = a /\ new[d] = b
  <2> HIDE DEF isdir
  <2>1. QED  BY <1>1, <1>2 DEF TypeOK
<1>6. ls \in SUBSET {i, d} /\ (d \notin ls => ~isdir) /\ a = Load(i)
  OBVIOUS
<1>7. dir' \in [Inums -> [Names \cup Dots -> Inums \cup {None}]]
  BY <1>1, <1>2 DEF TypeOK
<1>8. strayed' \in BOOLEAN /\ (~strayed' => ~strayed)
  BY <1>1 DEF TypeOK
<1>9. l \in {"opened", "created", "unlink_dec"} /\ l \in Labels /\ l # "user"
  BY DEF Labels
<1>10. /\ s \in Reg /\ s.call = "unlink" /\ s.cur = None /\ s.dp = None /\ s.ip = i
       /\ s.put = d /\ s.ret = l
  <2>1. Goes(s, reg[p], "dp", l)
    BY <1>1, <1>9, GoingFields
  <2> HIDE DEF s
  <2>2. QED  BY <1>2, <1>9, <2>1 DEF Goes
<1> HIDE DEF s
<1>11. Shape(l, s)
  BY <1>2, <1>9, <1>10, InodeAssumption DEF Shape, Labels
<1> HIDE DEF l, b, ls, isdir, k, new
<1>12. {i, d} = {reg[p].ip, reg[p].dp} /\ pc[p] \in {"create_new", "unlink_ip"}
  BY <1>1
<1> HIDE DEF a
<1>13. QED
  BY <1>1, <1>3, <1>4, <1>5, <1>6, <1>7, <1>8, <1>9, <1>10, <1>11, <1>12, SwapLocksKeeps

\* unlink() takes the count back.
LEMMA UnlinkDecKeeps ==
  ASSUME CacheInv, NEW p \in Procs, UnlinkDec(p)
  PROVE  CacheInv'
<1> DEFINE j == reg[p].ip
           e == [mem[j] EXCEPT !.nlink = @ - 1]
           new == [mem EXCEPT ![j] = e]
           s == Going(reg[p], "ip", "user")
<1> USE DEF Iputs, WithDp, WithIp, HoldDp, HoldIp
<1>1. /\ TypeOK /\ ShapeInv /\ LockInv /\ RefInv
      /\ Regular => FreeInv /\ MemInv
      /\ pc[p] = "unlink_dec" /\ Shape("unlink_dec", reg[p]) /\ reg[p] \in Reg
      /\ reg[p].put = None /\ At(p) = "unlink_dec"
      /\ mem' = new /\ iupdate({j}, new) /\ lock' = [lock EXCEPT ![j] = None]
      /\ GotoIput(p, reg[p], "ip", "user")
      /\ UNCHANGED <<dir, ref, valid, cwd, fd, panicked, overtaken, strayed>>
  BY CallState DEF UnlinkDec, history
<1>2. /\ reg[p].cur = None /\ reg[p].dp = None /\ j # None /\ j \in Inums
  BY <1>1 DEF Shape, Reg, Linking
<1>3. e \in Dinode /\ e.type = mem[j].type
  <2>1. mem[j] \in Dinode /\ mem[j].nlink - 1 \in Int
    BY <1>1, <1>2 DEF TypeOK, Dinode
  <2>2. QED  BY <2>1, NlinkFields
<1>4. /\ RefInv' /\ ShapeInv'
      /\ pc' \in [Procs -> Labels] /\ reg' \in [Procs -> Reg]
      /\ s \in Reg /\ Goto(p, "iput", s) /\ Place("iput", s) = "user"
  <2>1. /\ "ip" \in {"cur", "dp", "ip"} /\ reg[p]["ip"] # None /\ pc[p] \notin Iputs
        /\ "user" \in Labels \ Iputs
        /\ "user" = "user" => \A z \in {"cur", "dp", "ip"} \ {"ip"} : reg[p][z] = None
        /\ "user" # "user" => Shape("user", Going(reg[p], "ip", "user"))
    BY <1>1, <1>2 DEF Labels
  <2>2. QED  BY <1>1, <2>1, PutStep
<1> HIDE DEF s, e
<1>5. /\ mem' \in [Inums -> Dinode] /\ dsk' \in [Inums -> Dinode]
      /\ lock' \in [Inums -> Procs \cup {None}]
      /\ \A i \in Inums : /\ mem'[i] = IF i = j THEN e ELSE mem[i]
                          /\ dsk'[i] = IF i = j THEN e ELSE dsk[i]
                          /\ lock'[i] = IF i = j THEN None ELSE lock[i]
  <2>1. new[j] = e /\ {j} \in SUBSET Inums /\ \A i \in {j} : new[i] \in Dinode
    BY <1>1, <1>2, <1>3 DEF TypeOK
  <2>2. /\ mem' \in [Inums -> Dinode] /\ lock' \in [Inums -> Procs \cup {None}]
        /\ \A i \in Inums : /\ mem'[i] = IF i = j THEN e ELSE mem[i]
                            /\ lock'[i] = IF i = j THEN None ELSE lock[i]
    BY <1>1, <1>2, <1>3 DEF TypeOK
  <2> HIDE DEF new
  <2>3. /\ dsk' \in [Inums -> Dinode]
        /\ \A i \in Inums : dsk'[i] = IF i \in {j} THEN new[i] ELSE dsk[i]
    BY <1>1, <2>1, UpdateTypes
  <2>4. QED  BY <2>1, <2>2, <2>3
<1>6. TypeOK'
  BY <1>1, <1>4, <1>5 DEF TypeOK
<1>7. "iput" \in Labels /\ "iput" \notin Frees /\ pc[p] \notin Iputs /\ pc[p] \notin Frees
  BY <1>1 DEF Labels, Frees
<1>8. LockInv'
  <2>1. \A i \in Inums : lock[i] = p <=> i = j
    BY <1>1, <1>2 DEF LockInv, Has
  <2>2. \A i \in Inums : ~Has(Place("iput", s), s, i)
    BY <1>4 DEF Has
  <2>3. \A i \in Inums :
          /\ lock'[i] = lock[i] \/ {lock[i], lock'[i]} \subseteq {None, p}
          /\ lock'[i] = p <=> Has(Place("iput", s), s, i)
    BY <1>5, <2>1, <2>2, InodeAssumption
  <2>4. QED  BY <1>1, <1>4, <1>7, <2>3, LockStep
<1>9. ASSUME Regular' PROVE FreeInv' /\ MemInv'
  <2>1. Regular /\ FreeInv /\ MemInv
    BY <1>1, <1>9 DEF Regular
  <2>2. /\ valid[j] /\ mem[j] = dsk[j] /\ dsk[j].type # "free" /\ ref[j] > 0 /\ ~Freeing(j)
    <3>1. "ip" \in {"dp", "ip"} /\ reg[p]["ip"] # None /\ Has(At(p), reg[p], reg[p]["ip"])
      BY <1>1, <1>2 DEF Has
    <3>2. LET k == reg[p]["ip"] IN
            /\ valid[k] /\ mem[k] = dsk[k] /\ dsk[k].type # "free" /\ ref[k] > 0
            /\ ~Freeing(k)
      BY <1>1, <2>1, <3>1, HeldIsDisk
    <3>3. QED  BY <3>2
  <2> DEFINE ls == {j}
  <2>3. \A i \in ls : /\ ~Freeing(i)
                      /\ dsk'[i].type # "free"
                      /\ valid'[i] => mem'[i] = dsk'[i] /\ ref'[i] > 0
                      /\ lock'[i] # None => valid'[i]
    BY <1>1, <1>2, <1>3, <1>5, <2>2
  <2>4. \A i \in Inums \ ls : /\ valid'[i] = valid[i]
                              /\ mem'[i] = mem[i]
                              /\ dsk'[i] = dsk[i]
                              /\ lock'[i] # None => lock[i] # None
    BY <1>1, <1>5
  <2>5. ls \in SUBSET Inums
    BY <1>2
  <2>6. \A i \in Inums : ref'[i] = ref[i] \/ (~Freeing(i) /\ ref'[i] = ref[i] + 1)
    BY <1>1
  <2> HIDE DEF ls
  <2>7. QED  BY <1>1, <1>4, <1>6, <1>7, <2>1, <2>3, <2>4, <2>5, <2>6, QuietStep
<1>10. QED  BY <1>4, <1>6, <1>8, <1>9 DEF CacheInv

\* The labels and variables after a step of p.
LEMMA StepOf ==
  ASSUME TypeOK, NEW p \in Procs, NEW l, NEW r, Goto(p, l, r)
  PROVE  \A q \in Procs : /\ pc'[q] = IF q = p THEN l ELSE pc[q]
                          /\ reg'[q] = IF q = p THEN r ELSE reg[q]
BY DEF Goto, TypeOK

\* The inode that iput() is about: the pointer is not the only one when the
\* inode is locked, or when another process is freeing it.
LEMMA PutIsOnly ==
  ASSUME TypeOK, ShapeInv, LockInv, RefInv, FreeInv, NEW p \in Procs,
         pc[p] \in Iputs
  PROVE  LET i == reg[p].put IN
         /\ i \in Inums
         /\ ref[i] = 1 => lock[i] = None
         /\ \A q \in Procs \ {p} : pc[q] \in Frees =>
              reg[q].put # i /\ reg[q].put \in Inums
<1> DEFINE i == reg[p].put
<1>1. \A q \in Procs : pc[q] \in Iputs => reg[q].put \in Inums
  BY DEF TypeOK, Reg, ShapeInv, ShapeOK
<1>2. i \in Inums /\ Pts[p]["put"] = i /\ "put" \in Places
  BY <1>1, PtsType DEF Pointers, Places
<1>3. ASSUME ref[i] = 1, lock[i] # None  PROVE FALSE
  <2>1. PICK q \in Procs : lock[i] = q
    BY <1>2, <1>3 DEF TypeOK
  <2>2. Has(At(q), reg[q], i)
    BY <1>2, <2>1 DEF LockInv
  <2>3. PICK x \in {"dp", "ip"} : reg[q][x] = i
    BY <2>2 DEF Has
  <2>4. x \in Places /\ x # "put" /\ Pts[q][x] = i
    BY <2>3, PtsType DEF Pointers, Places
  <2>5. ref[i] > 1
    BY <1>2, <2>4, TwoRefs
  <2>6. QED  BY <1>3, <2>5
<1>4. ASSUME NEW q \in Procs \ {p}, pc[q] \in Frees
      PROVE  reg[q].put # i /\ reg[q].put \in Inums
  <2>1. reg[q].put \in Inums
    BY <1>1, <1>4 DEF Frees, Iputs
  <2>2. ASSUME reg[q].put = i  PROVE FALSE
    <3>1. Pts[q]["put"] = i
      BY <2>2, PtsType DEF Pointers
    <3>2. ref[i] > 1
      BY <1>2, <3>1, TwoRefs
    <3>3. ref[i] = 1
      BY <1>4, <2>2 DEF FreeInv
    <3>4. QED  BY <3>2, <3>3
  <2>3. QED  BY <2>1, <2>2
<1>5. QED  BY <1>2, <1>3, <1>4

\* iput() drops its reference and the call goes on.
LEMMA DroppedKeeps ==
  ASSUME CacheInv, NEW p \in Procs, pc[p] \in {"iput", "iput_done"},
         Dropped(reg[p].put), Return(p),
         valid' = IF ref[reg[p].put] = 1 \/ pc[p] = "iput_done"
                  THEN [valid EXCEPT ![reg[p].put] = FALSE] ELSE valid,
         UNCHANGED <<dsk, dir, lock, cwd, fd, panicked, overtaken, strayed>>
  PROVE  CacheInv'
<1> DEFINE i == reg[p].put
           l == reg[p].ret
           s == [reg[p] EXCEPT !.put = None, !.ret = None]
<1>1. /\ TypeOK /\ ShapeInv /\ LockInv /\ RefInv
      /\ Regular => FreeInv /\ MemInv
      /\ reg[p] \in Reg /\ At(p) = l /\ Shape(l, reg[p]) /\ i # None /\ i \in Inums
      /\ pc[p] \in Iputs
  BY DEF CacheInv, TypeOK, ShapeInv, ShapeOK, At, Place, Iputs, Reg
<1>2. /\ s \in Reg /\ s.call = reg[p].call /\ s.want = reg[p].want /\ s.cur = reg[p].cur
      /\ s.dp = reg[p].dp /\ s.ip = reg[p].ip /\ s.name = reg[p].name /\ s.put = None
  BY <1>1 DEF Reg
<1>3. l \in Labels /\ l \notin Iputs /\ l \notin Frees /\ Goto(p, l, s)
  BY <1>1 DEF Shape, Return, Iputs, Frees
<1>4. Place(l, s) = l
  BY <1>3 DEF Place
<1> HIDE DEF l, s
<1>5. ShapeOK(l, s)
  BY <1>1, <1>2, <1>3, <1>4 DEF ShapeOK, Shape, Linking
<1>6. ShapeInv' /\ pc' \in [Procs -> Labels] /\ reg' \in [Procs -> Reg]
  BY <1>1, <1>2, <1>3, <1>5, ShapeStep
<1>7. LockInv'
  <2>1. \A k \in Inums : Has(Place(l, s), s, k) <=> Has(At(p), reg[p], k)
    BY <1>1, <1>2, <1>4 DEF Has
  <2>2. QED  BY <1>1, <1>2, <1>3, <2>1, LockSame
<1>8. ref' = [ref EXCEPT ![i] = @ - 1]
  BY DEF Dropped
<1>9. RefInv' /\ ref[i] > 0
  <2>1. \A z \in Pointers \ {"put"} : s[z] = reg[p][z]
    BY <1>2 DEF Pointers
  <2>2. QED  BY <1>1, <1>2, <1>3, <1>8, <2>1, DropRef
<1>10. /\ ref' \in [Inums -> Nat] /\ valid' \in [Inums -> BOOLEAN]
       /\ mem' \in [Inums -> Dinode]
       /\ \A k \in Inums \ {i} : /\ ref'[k] = ref[k] /\ valid'[k] = valid[k]
                                 /\ mem'[k] = mem[k]
       /\ ref'[i] = ref[i] - 1
       /\ ref[i] = 1 => ~valid'[i]
       /\ ref[i] # 1 => mem' = mem
  <2>1. /\ ref' \in [Inums -> Nat] /\ ref'[i] = ref[i] - 1
        /\ \A k \in Inums \ {i} : ref'[k] = ref[k]
    BY <1>1, <1>8, <1>9 DEF TypeOK
  <2>2. /\ valid' \in [Inums -> BOOLEAN] /\ (ref[i] = 1 => ~valid'[i])
        /\ \A k \in Inums \ {i} : valid'[k] = valid[k]
    BY <1>1 DEF TypeOK
  <2>3. Free \in Dinode
    BY DEF Free, Dinode
  <2>4. mem' = IF ref[i] = 1 THEN [mem EXCEPT ![i] = Free] ELSE mem
    BY DEF Dropped
  <2>5. /\ mem' \in [Inums -> Dinode] /\ (ref[i] # 1 => mem' = mem)
        /\ \A k \in Inums \ {i} : mem'[k] = mem[k]
    BY <1>1, <2>3, <2>4 DEF TypeOK
  <2>6. QED  BY <2>1, <2>2, <2>5
<1>11. TypeOK'
  BY <1>1, <1>6, <1>10 DEF TypeOK
<1>12. ASSUME Regular' PROVE FreeInv' /\ MemInv'
  <2>1. Regular /\ FreeInv /\ MemInv
    BY <1>1, <1>12 DEF Regular
  <2>2. /\ ref[i] = 1 => lock[i] = None
        /\ \A q \in Procs \ {p} : pc[q] \in Frees => reg[q].put # i /\ reg[q].put \in Inums
    BY <1>1, <2>1, PutIsOnly
  <2>3. \A q \in Procs : /\ pc'[q] = IF q = p THEN l ELSE pc[q]
                         /\ reg'[q] = IF q = p THEN s ELSE reg[q]
    BY <1>1, <1>3, StepOf
  <2>4. FreeInv'
    <3> SUFFICES ASSUME NEW q \in Procs, pc'[q] \in Frees
                 PROVE  LET k == reg'[q].put IN
                        /\ ref'[k] = 1 /\ valid'[k] /\ mem'[k].nlink = 0
                        /\ pc'[q] = "iput_done" => mem'[k].type = "free"
      BY DEF FreeInv
    <3>1. q # p /\ pc'[q] = pc[q] /\ reg'[q] = reg[q]
      BY <1>3, <2>3
    <3>2. reg[q].put \in Inums \ {i}
      BY <2>2, <3>1
    <3>3. LET k == reg[q].put IN
          /\ ref[k] = 1 /\ valid[k] /\ mem[k].nlink = 0
          /\ pc[q] = "iput_done" => mem[k].type = "free"
      BY <2>1, <3>1 DEF FreeInv
    <3>4. LET k == reg[q].put IN
          ref'[k] = ref[k] /\ valid'[k] = valid[k] /\ mem'[k] = mem[k]
      BY <1>10, <3>2
    <3>5. QED  BY <3>1, <3>3, <3>4
  <2>5. MemInv'
    <3> SUFFICES ASSUME NEW k \in Inums
                 PROVE  /\ lock'[k] # None => valid'[k]
                        /\ valid'[k] => ref'[k] > 0 /\ mem'[k] = dsk'[k]
                        /\ valid'[k] /\ dsk'[k].type = "free" =>
                             \E q \in Procs : pc'[q] = "iput_done" /\ reg'[q].put = k
      BY DEF MemInv
    <3>1. /\ lock[k] # None => valid[k]
          /\ valid[k] => ref[k] > 0 /\ mem[k] = dsk[k]
      BY <2>1 DEF MemInv
    <3>2. ASSUME NEW q \in Procs, pc[q] = "iput_done", reg[q].put = k, q # p
          PROVE  \E u \in Procs : pc'[u] = "iput_done" /\ reg'[u].put = k
      BY <2>3, <3>2
    <3>3. valid[k] /\ dsk[k].type = "free" =>
            \E q \in Procs : pc[q] = "iput_done" /\ reg[q].put = k
      BY <2>1 DEF MemInv
    <3>4. CASE k # i
      <4>1. valid[k] /\ dsk[k].type = "free" =>
              \E q \in Procs : pc[q] = "iput_done" /\ reg[q].put = k /\ q # p
        BY <3>3, <3>4
      <4>2. ref'[k] = ref[k] /\ valid'[k] = valid[k] /\ mem'[k] = mem[k]
        BY <1>10, <3>4
      <4>3. QED  BY <3>1, <3>2, <4>1, <4>2
    <3>5. CASE k = i /\ ref[i] = 1
      BY <1>10, <2>2, <3>5
    <3>6. CASE k = i /\ ref[i] # 1
      <4>1. pc[p] # "iput_done"
        BY <2>1, <3>6 DEF FreeInv, Frees
      <4>2. valid' = valid /\ mem' = mem
        BY <1>10, <3>6, <4>1
      <4>3. ref'[i] > 0
        <5>1. ref[i] \in Nat
          BY <1>1 DEF TypeOK
        <5>2. QED  BY <1>9, <1>10, <3>6, <5>1
      <4>4. valid[k] /\ dsk[k].type = "free" =>
              \E q \in Procs : pc[q] = "iput_done" /\ reg[q].put = k /\ q # p
        BY <3>3, <4>1
      <4>5. QED  BY <3>1, <3>2, <3>6, <4>2, <4>3, <4>4
    <3>7. QED  BY <3>4, <3>5, <3>6
  <2>6. QED  BY <2>4, <2>5
<1>13. QED  BY <1>6, <1>7, <1>9, <1>11, <1>12 DEF CacheInv

\* iput() of an inode that stays.
LEMMA IputKeeps ==
  ASSUME CacheInv, NEW p \in Procs, Iput(p)
  PROVE  CacheInv'
<1>1. /\ pc[p] = "iput" /\ Dropped(reg[p].put) /\ Return(p)
      /\ valid' = IF ref[reg[p].put] = 1 THEN [valid EXCEPT ![reg[p].put] = FALSE] ELSE valid
      /\ UNCHANGED <<dsk, dir, lock, cwd, fd, panicked, overtaken, strayed>>
  BY DEF Iput, diskVars, history
<1>2. valid' = IF ref[reg[p].put] = 1 \/ pc[p] = "iput_done"
               THEN [valid EXCEPT ![reg[p].put] = FALSE] ELSE valid
  BY <1>1
<1>3. QED  BY <1>1, <1>2, DroppedKeeps

\* iput() ends after freeing the inode.
LEMMA IputDoneKeeps ==
  ASSUME CacheInv, NEW p \in Procs, IputDone(p)
  PROVE  CacheInv'
<1>1. /\ pc[p] = "iput_done" /\ Dropped(reg[p].put) /\ Return(p)
      /\ valid' = [valid EXCEPT ![reg[p].put] = FALSE]
      /\ UNCHANGED <<dsk, dir, lock, cwd, fd, panicked, overtaken, strayed>>
  BY DEF IputDone, diskVars, history
<1>2. valid' = IF ref[reg[p].put] = 1 \/ pc[p] = "iput_done"
               THEN [valid EXCEPT ![reg[p].put] = FALSE] ELSE valid
  BY <1>1
<1>3. QED  BY <1>1, <1>2, DroppedKeeps

\* Inside iput() only the label of the process changes.
LEMMA InsideIput ==
  ASSUME CacheInv, NEW p \in Procs, pc[p] \in Iputs, NEW l \in Iputs,
         Goto(p, l, reg[p]), UNCHANGED <<ref, lock, cwd, fd>>
  PROVE  /\ ShapeInv' /\ LockInv' /\ RefInv'
         /\ pc' \in [Procs -> Labels] /\ reg' \in [Procs -> Reg]
<1>1. TypeOK /\ ShapeInv /\ LockInv /\ RefInv /\ reg[p] \in Reg /\ l \in Labels
  BY DEF CacheInv, TypeOK, Labels
<1>2. Place(l, reg[p]) = At(p) /\ ShapeOK(l, reg[p])
  BY <1>1 DEF At, Place, ShapeInv, ShapeOK
<1>3. ShapeInv' /\ pc' \in [Procs -> Labels] /\ reg' \in [Procs -> Reg]
  BY <1>1, <1>2, ShapeStep
<1>4. LockInv'
  BY <1>1, <1>2, LockSame
<1>5. RefInv'
  BY <1>1, KeepRefs
<1>6. QED  BY <1>3, <1>4, <1>5

\* iput() finds the last reference to an inode without links.
LEMMA IputLastKeeps ==
  ASSUME CacheInv, NEW p \in Procs, IputLast(p)
  PROVE  CacheInv'
<1>1. /\ TypeOK
      /\ Regular => FreeInv /\ MemInv
      /\ pc[p] = "iput" /\ LastReference(reg[p].put) /\ Goto(p, "itrunc", reg[p])
      /\ UNCHANGED <<dsk, dir, ref, valid, mem, lock, cwd, fd, panicked, overtaken, strayed>>
  BY DEF CacheInv, IputLast, diskVars, history
<1>2. /\ ShapeInv' /\ LockInv' /\ RefInv'
      /\ pc' \in [Procs -> Labels] /\ reg' \in [Procs -> Reg]
  <2>1. pc[p] \in Iputs /\ "itrunc" \in Iputs
    BY <1>1 DEF Iputs
  <2>2. QED  BY <1>1, <2>1, InsideIput
<1>3. TypeOK'
  BY <1>1, <1>2 DEF TypeOK
<1>4. ASSUME Regular' PROVE FreeInv' /\ MemInv'
  <2>1. FreeInv /\ MemInv
    BY <1>1, <1>4 DEF Regular
  <2>2. \A q \in Procs : /\ pc'[q] = IF q = p THEN "itrunc" ELSE pc[q]
                         /\ reg'[q] = IF q = p THEN reg[p] ELSE reg[q]
    BY <1>1, StepOf
  <2>3. FreeInv'
    BY <1>1, <2>1, <2>2 DEF FreeInv, LastReference
  <2>4. MemInv'
    <3>1. \A q \in Procs : pc[q] = "iput_done" => pc'[q] = "iput_done" /\ reg'[q] = reg[q]
      BY <1>1, <2>2
    <3>2. QED  BY <1>1, <2>1, <3>1 DEF MemInv
  <2>5. QED  BY <2>3, <2>4
<1>5. QED  BY <1>2, <1>3, <1>4 DEF CacheInv

\* iput() frees the inode.
LEMMA ItruncKeeps ==
  ASSUME CacheInv, NEW p \in Procs, Itrunc(p)
  PROVE  CacheInv'
<1> DEFINE i == reg[p].put
           e == [mem[i] EXCEPT !.type = "free"]
<1>1. /\ TypeOK /\ ShapeInv /\ LockInv /\ RefInv
      /\ Regular => FreeInv /\ MemInv
      /\ pc[p] = "itrunc" /\ Goto(p, "iput_done", reg[p])
      /\ mem' = [mem EXCEPT ![i] = e] /\ dsk' = [dsk EXCEPT ![i] = mem'[i]]
      /\ dir' = [dir EXCEPT ![i] = NoEntries]
      /\ UNCHANGED <<ref, valid, lock, cwd, fd, panicked, overtaken, strayed>>
  BY DEF CacheInv, Itrunc, history
<1>2. /\ ShapeInv' /\ LockInv' /\ RefInv'
      /\ pc' \in [Procs -> Labels] /\ reg' \in [Procs -> Reg]
  <2>1. pc[p] \in Iputs /\ "iput_done" \in Iputs
    BY <1>1 DEF Iputs
  <2>2. QED  BY <1>1, <2>1, InsideIput
<1>3. i \in Inums
  BY <1>1 DEF ShapeInv, ShapeOK, TypeOK, Reg, Iputs
<1>4. e \in Dinode /\ e.type = "free" /\ e.nlink = mem[i].nlink
  BY <1>1, <1>3 DEF TypeOK, Dinode
<1> HIDE DEF e
<1>5. /\ mem' \in [Inums -> Dinode] /\ dsk' \in [Inums -> Dinode]
      /\ mem'[i] = e /\ dsk'[i] = e
      /\ \A k \in Inums \ {i} : mem'[k] = mem[k] /\ dsk'[k] = dsk[k]
  BY <1>1, <1>3, <1>4 DEF TypeOK
<1>6. TypeOK'
  <2>1. dir' \in [Inums -> [Names \cup Dots -> Inums \cup {None}]]
    BY <1>1, <1>3 DEF TypeOK, NoEntries
  <2>2. QED  BY <1>1, <1>2, <1>5, <2>1 DEF TypeOK
<1>7. ASSUME Regular' PROVE FreeInv' /\ MemInv'
  <2>1. FreeInv /\ MemInv
    BY <1>1, <1>7 DEF Regular
  <2>2. \A q \in Procs \ {p} : pc[q] \in Frees => reg[q].put # i /\ reg[q].put \in Inums
    <3>1. pc[p] \in Iputs
      BY <1>1 DEF Iputs
    <3>2. QED  BY <1>1, <2>1, <3>1, PutIsOnly
  <2>3. \A q \in Procs : /\ pc'[q] = IF q = p THEN "iput_done" ELSE pc[q]
                         /\ reg'[q] = IF q = p THEN reg[p] ELSE reg[q]
    BY <1>1, StepOf
  <2>4. ref[i] = 1 /\ valid[i] /\ mem[i].nlink = 0
    BY <1>1, <2>1 DEF FreeInv, Frees
  <2>5. FreeInv'
    <3> SUFFICES ASSUME NEW q \in Procs, pc'[q] \in Frees
                 PROVE  LET k == reg'[q].put IN
                        /\ ref'[k] = 1 /\ valid'[k] /\ mem'[k].nlink = 0
                        /\ pc'[q] = "iput_done" => mem'[k].type = "free"
      BY DEF FreeInv
    <3>1. CASE q = p  BY <1>1, <1>4, <1>5, <2>3, <2>4, <3>1
    <3>2. CASE q # p
      <4>1. pc'[q] = pc[q] /\ reg'[q] = reg[q]
        BY <2>3, <3>2
      <4>2. LET k == reg[q].put IN
            /\ ref[k] = 1 /\ valid[k] /\ mem[k].nlink = 0
            /\ pc[q] = "iput_done" => mem[k].type = "free"
        BY <2>1, <4>1 DEF FreeInv
      <4>3. mem'[reg[q].put] = mem[reg[q].put]
        BY <1>5, <2>2, <3>2, <4>1
      <4>4. QED  BY <1>1, <4>1, <4>2, <4>3
    <3>3. QED  BY <3>1, <3>2
  <2>6. MemInv'
    <3> SUFFICES ASSUME NEW k \in Inums
                 PROVE  /\ lock'[k] # None => valid'[k]
                        /\ valid'[k] => ref'[k] > 0 /\ mem'[k] = dsk'[k]
                        /\ valid'[k] /\ dsk'[k].type = "free" =>
                             \E q \in Procs : pc'[q] = "iput_done" /\ reg'[q].put = k
      BY DEF MemInv
    <3>1. CASE k = i  BY <1>1, <1>5, <2>3, <2>4, <3>1
    <3>2. CASE k # i
      <4>1. mem'[k] = mem[k] /\ dsk'[k] = dsk[k]
        BY <1>5, <3>2
      <4>2. \A q \in Procs : pc[q] = "iput_done" => pc'[q] = "iput_done" /\ reg'[q] = reg[q]
        BY <2>3
      <4>3. QED  BY <1>1, <2>1, <4>1, <4>2 DEF MemInv
    <3>3. QED  BY <3>1, <3>2
  <2>7. QED  BY <2>5, <2>6
<1>8. QED  BY <1>2, <1>6, <1>7 DEF CacheInv

-----------------------------------------------------------------------------
(***************************************************************************)
(* The invariant.                                                          *)
(***************************************************************************)

\* Nothing changes but the panic.
LEMMA SameKeeps ==
  ASSUME CacheInv, panicked' \in Panics \cup {None},
         UNCHANGED <<dsk, dir, ref, valid, mem, lock, cwd, fd, pc, reg,
                     overtaken, strayed>>
  PROVE  CacheInv'
<1>1. TypeOK'
  BY DEF CacheInv, TypeOK
<1>2. ShapeInv' /\ LockInv'
  BY DEF CacheInv, ShapeInv, LockInv, At
<1>3. RefInv'
  BY DEF CacheInv, RefInv, Counted, To, Pts
<1>4. Regular' => FreeInv' /\ MemInv'
  BY DEF CacheInv, Regular, FreeInv, MemInv
<1>5. QED  BY <1>1, <1>2, <1>3, <1>4 DEF CacheInv

\* A panic.
LEMMA PanicKeeps ==
  ASSUME CacheInv, NEW p \in Procs, Panic(p)
  PROVE  CacheInv'
<1>1. /\ panicked' \in Panics \cup {None}
      /\ UNCHANGED <<dsk, dir, ref, valid, mem, lock, cwd, fd, pc, reg,
                     overtaken, strayed>>
  BY DEF Panic, Panics, diskVars, history
<1>2. QED  BY <1>1, SameKeeps

\* The initial states.
LEMMA InitHolds == Init => CacheInv
<1> SUFFICES ASSUME Init PROVE CacheInv
  OBVIOUS
<1> USE DEF Init
<1>1. TypeOK
  <2>1. Free \in Dinode /\ [type |-> "dir", nlink |-> 1] \in Dinode
    BY DEF Free, Dinode
  <2>2. Blank \in Reg
    BY BlankReg
  <2>3. "user" \in Labels /\ Root \in Inums
    BY InodeAssumption DEF Labels
  <2>4. Cardinality(Procs) \in Nat
    BY InodeAssumption, FS_CardinalityType
  <2>5. dsk \in [Inums -> Dinode] /\ mem \in [Inums -> Dinode]
    BY <2>1
  <2>6. dir \in [Inums -> [Names \cup Dots -> Inums \cup {None}]]
    BY <2>3
  <2>7. /\ ref \in [Inums -> Nat] /\ valid \in [Inums -> BOOLEAN]
        /\ lock \in [Inums -> Procs \cup {None}]
        /\ cwd \in [Procs -> Inums] /\ fd \in [Procs -> Inums \cup {None}]
    BY <2>3, <2>4
  <2>8. pc \in [Procs -> Labels] /\ reg \in [Procs -> Reg]
    BY <2>2, <2>3
  <2>9. QED  BY <2>5, <2>6, <2>7, <2>8 DEF TypeOK
<1>2. \A p \in Procs : /\ pc[p] = "user" /\ reg[p] = Blank
                       /\ At(p) = "user" /\ Place(pc[p], reg[p]) = "user"
  BY DEF At, Place, Iputs
<1>3. ShapeInv
  <2>1. /\ Blank.call = None /\ Blank.cur = None /\ Blank.dp = None /\ Blank.ip = None
        /\ Blank.put = None
    BY DEF Blank
  <2>2. Shape("user", Blank)
    BY <2>1 DEF Shape, Labels, Iputs, WithDp, WithIp, HoldDp, HoldIp
  <2>3. QED  BY <1>2, <2>1, <2>2 DEF ShapeInv, ShapeOK, Iputs
<1>4. LockInv
  BY <1>2, InodeAssumption DEF LockInv, Has, HoldIp, HoldDp
<1>5. RefInv
  <2>1. \A p \in Procs, x \in Places : Pts[p][x] = IF x = "cwd" THEN Root ELSE None
    <3>1. \A x \in Pointers : Blank[x] = None
      BY DEF Blank, Pointers
    <3>2. QED  BY <3>1 DEF Pts, Places, Pointers
  <2>2. ASSUME NEW i \in Inums
        PROVE  ref[i] = Cardinality(To(Pts, i))
    <3>1. i # None /\ IsFiniteSet(Procs)
      BY InodeAssumption
    <3>2. CASE i # Root
      <4>1. To(Pts, i) = {}
        BY <2>1, <3>1, <3>2 DEF To
      <4>2. QED  BY <3>2, <4>1, FS_EmptySet
    <3>3. CASE i = Root
      <4>1. To(Pts, i) = Procs \X {"cwd"}
        BY <2>1, <3>1, <3>3 DEF To, Places
      <4>2. IsFiniteSet({"cwd"}) /\ Cardinality({"cwd"}) = 1
        BY FS_Singleton
      <4>3. Cardinality(Procs) \in Nat
        BY <3>1, FS_CardinalityType
      <4>4. Cardinality(Procs \X {"cwd"}) = Cardinality(Procs) * 1
        BY <3>1, <4>2, FS_Product
      <4>5. QED  BY <3>3, <4>1, <4>3, <4>4
    <3>4. QED  BY <3>2, <3>3
  <2>3. QED  BY <2>2 DEF RefInv, Counted
<1>6. FreeInv /\ MemInv
  BY <1>2 DEF FreeInv, MemInv, Frees
<1>7. QED  BY <1>1, <1>3, <1>4, <1>5, <1>6 DEF CacheInv

\* Every step keeps the invariant.
LEMMA NextKeeps == CacheInv /\ [Next]_vars => CacheInv'
<1> SUFFICES ASSUME CacheInv, [Next]_vars PROVE CacheInv'
  OBVIOUS
<1>1. ASSUME NEW p \in Procs, BeginStep(p) PROVE CacheInv'
  BY <1>1, BeginKeeps DEF BeginStep
<1>2. ASSUME NEW p \in Procs, NamexStep(p) PROVE CacheInv'
  BY <1>2, NamexParentKeeps, NamexNextKeeps, NamexFailsKeeps, NamexEndKeeps DEF NamexStep
<1>3. ASSUME NEW p \in Procs, CacheStep(p) PROVE CacheInv'
  BY <1>3, IputKeeps, IputLastKeeps, ItruncKeeps, IputDoneKeeps DEF CacheStep
<1>4. ASSUME NEW p \in Procs, OpenStep(p) PROVE CacheInv'
  BY <1>4, OpenKeeps, OpenFileKeeps, CloseKeeps, ChdirKeeps DEF OpenStep
<1>5. ASSUME NEW p \in Procs, CreateStep(p) PROVE CacheInv'
  BY <1>5, CreateFoundKeeps, CreateOldKeeps, CreateFillKeeps, CreatedKeeps, CreateNewKeeps
     DEF CreateStep
<1>6. ASSUME NEW p \in Procs, LinkStep(p) PROVE CacheInv'
  BY <1>6, LinkIpKeeps, LinkDirectoryKeeps, LinkDpKeeps, LinkDoneKeeps, LinkBadKeeps
     DEF LinkStep
<1>7. ASSUME NEW p \in Procs, UnlinkStep(p) PROVE CacheInv'
  BY <1>7, UnlinkFailsKeeps, UnlinkFoundKeeps, UnlinkNotEmptyKeeps, UnlinkBadKeeps,
     UnlinkEntryKeeps, UnlinkDecKeeps DEF UnlinkStep
<1>8. ASSUME UNCHANGED vars PROVE CacheInv'
  <2>1. /\ panicked' \in Panics \cup {None}
        /\ UNCHANGED <<dsk, dir, ref, valid, mem, lock, cwd, fd, pc, reg,
                       overtaken, strayed>>
    BY <1>8 DEF vars, diskVars, history, CacheInv, TypeOK
  <2>2. QED  BY <2>1, SameKeeps
<1>9. QED
  BY <1>1, <1>2, <1>3, <1>4, <1>5, <1>6, <1>7, <1>8, PanicKeeps DEF Next, Stopped

\* The inode cache keeps its invariant: the pointers a call has at every label,
\* the locks it holds, the reference counts and, as long as the histories are
\* regular, that the cache agrees with the disk.
THEOREM Invariance == Spec => []CacheInv
<1>1. Init => CacheInv
  BY InitHolds
<1>2. CacheInv /\ [Next]_vars => CacheInv'
  BY NextKeeps
<1>3. QED  BY <1>1, <1>2, PTL DEF Spec

\* The number of table entries is the sum of the three kinds of pointers.
LEMMA CountedApart ==
  ASSUME TypeOK, NEW i \in Inums
  PROVE  Cardinality(To(Pts, i)) =
           Cardinality({p \in Procs : cwd[p] = i})
           + Cardinality({p \in Procs : fd[p] = i})
           + Cardinality({e \in Procs \X Pointers : reg[e[1]][e[2]] = i})
<1> DEFINE A == {p \in Procs : cwd[p] = i}
           B == {p \in Procs : fd[p] = i}
           C == {e \in Procs \X Pointers : reg[e[1]][e[2]] = i}
           X == A \X {"cwd"}
           Y == B \X {"fd"}
<1>1. To(Pts, i) = (X \cup Y) \cup C
  <2>1. /\ \A p \in Procs, x \in Pointers : Pts[p][x] = reg[p][x]
        /\ \A p \in Procs : Pts[p]["cwd"] = cwd[p] /\ Pts[p]["fd"] = fd[p]
    BY PtsType
  <2>2. \A e \in To(Pts, i) : e \in (X \cup Y) \cup C
    BY <2>1 DEF To, Places
  <2>3. \A e \in (X \cup Y) \cup C : e \in To(Pts, i)
    BY <2>1 DEF To, Places
  <2>4. QED  BY <2>2, <2>3
<1>2. X \cap Y = {} /\ (X \cup Y) \cap C = {}
  BY DEF Pointers
<1>3. IsFiniteSet(A) /\ IsFiniteSet(B) /\ IsFiniteSet(C)
  <2>1. IsFiniteSet(A) /\ IsFiniteSet(B)
    BY InodeAssumption, FS_Subset
  <2>2. C \subseteq To(Pts, i)
    BY <1>1
  <2>3. IsFiniteSet(C)
    BY <2>2, FiniteTo, FS_Subset
  <2>4. QED  BY <2>1, <2>3
<1> HIDE DEF A, B, C
<1>4. /\ Cardinality(A) \in Nat /\ Cardinality(B) \in Nat /\ Cardinality(C) \in Nat
  BY <1>3, FS_CardinalityType
<1>5. /\ IsFiniteSet(X) /\ Cardinality(X) = Cardinality(A)
      /\ IsFiniteSet(Y) /\ Cardinality(Y) = Cardinality(B)
  <2>1. /\ IsFiniteSet({"cwd"}) /\ Cardinality({"cwd"}) = 1
        /\ IsFiniteSet({"fd"}) /\ Cardinality({"fd"}) = 1
    BY FS_Singleton
  <2>2. /\ IsFiniteSet(X) /\ Cardinality(X) = Cardinality(A) * 1
        /\ IsFiniteSet(Y) /\ Cardinality(Y) = Cardinality(B) * 1
    BY <1>3, <2>1, FS_Product
  <2>3. QED  BY <1>4, <2>2
<1> HIDE DEF X, Y
<1>6. IsFiniteSet(X \cup Y) /\ Cardinality(X \cup Y) = Cardinality(A) + Cardinality(B)
  <2>1. /\ IsFiniteSet(X \cup Y)
        /\ Cardinality(X \cup Y) = Cardinality(X) + Cardinality(Y) - Cardinality({})
    BY <1>2, <1>5, FS_Union
  <2>2. QED  BY <1>4, <1>5, <2>1, FS_EmptySet
<1>7. Cardinality((X \cup Y) \cup C) = Cardinality(A) + Cardinality(B) + Cardinality(C)
  <2>1. Cardinality((X \cup Y) \cup C) =
          Cardinality(X \cup Y) + Cardinality(C) - Cardinality({})
    BY <1>2, <1>3, <1>6, FS_Union
  <2>2. QED  BY <1>4, <1>6, <2>1, FS_EmptySet
<1>8. QED  BY <1>1, <1>7 DEF A, B, C

\* ip->ref is the number of pointers to the entry: every path through every
\* system call of sysfile.c gives back what namex(), dirlookup() and ialloc()
\* took, in all histories, the irregular ones included.
THEOREM ReferencesAreCounted == Spec => []RefsAreCounted
<1>1. CacheInv => RefsAreCounted
  BY CountedApart DEF CacheInv, RefInv, Counted, RefsAreCounted
<1>2. QED  BY <1>1, Invariance, PTL

\* Between ilock() and iunlock() the inode is referenced, in the cache,
\* allocated and as on the disk, as long as no iput() was overtaken and no
\* removed directory was used.
THEOREM LockedInodesAreStable == Spec => []LockedIsStable
<1>1. CacheInv => LockedIsStable
  <2> SUFFICES ASSUME CacheInv, Regular, NEW i \in Inums, lock[i] # None
               PROVE  ref[i] > 0 /\ valid[i] /\ mem[i].type # "free" /\ mem[i] = dsk[i]
    BY DEF LockedIsStable, LockedIsAllocated
  <2>1. TypeOK /\ LockInv /\ RefInv /\ FreeInv /\ MemInv
    BY DEF CacheInv
  <2>2. PICK p \in Procs : lock[i] = p
    BY <2>1 DEF TypeOK
  <2>3. Has(At(p), reg[p], i)
    BY <2>1, <2>2 DEF LockInv
  <2>4. PICK x \in {"dp", "ip"} : reg[p][x] = i
    BY <2>3 DEF Has
  <2>5. reg[p][x] # None /\ Has(At(p), reg[p], reg[p][x])
    BY <2>3, <2>4, InodeAssumption
  <2>6. /\ valid[reg[p][x]] /\ mem[reg[p][x]] = dsk[reg[p][x]]
        /\ dsk[reg[p][x]].type # "free" /\ ref[reg[p][x]] > 0
    BY <2>1, <2>5, HeldIsDisk
  <2>7. QED  BY <2>4, <2>6
<1>2. QED  BY <1>1, Invariance, PTL
-----------------------------------------------------------------------------
(***************************************************************************)
(* The tree on the disk.                                                   *)
(***************************************************************************)

\* The disk's inodes D, the contents E of its directories, and the link each
\* process has counted without a name, W.
Inodes == [Inums -> Dinode]
Dirs == [Inums -> [Names \cup Dots -> Inums \cup {None}]]
Debts == [Procs -> Inums \cup {None}]

LinkedIn(E, d) == d = Root \/ \E e \in Inums, n \in Names : E[e][n] = d

Bare(E, d) == \A x \in Names \cup Dots : E[d][x] = None

\* The directories are a tree, with the root on top.  What is no directory
\* has no entries, only directories that are linked have names in them, and
\* a directory has one name, in the directory its ".." leads to.
TreeOK(D, E) ==
  /\ E[Root][".."] = Root
  /\ \A d \in Inums : D[d].type # "dir" => Bare(E, d)
  /\ \A d \in Inums : E[d]["."] \in {d, None}
  /\ \A d \in Inums, n \in Names : E[d][n] # None =>
       /\ E[d][n] # Root
       /\ LinkedIn(E, d)
       /\ D[E[d][n]].type = "dir" => E[E[d][n]][".."] = d
  /\ \A d \in Inums, e \in Inums, n \in Names, m \in Names :
       E[d][n] # None /\ E[d][n] = E[e][m] /\ D[E[d][n]].type = "dir"
         => d = e /\ n = m

\* A directory is lower than the one it is in.
Low(D, E, h) ==
  \A d \in Inums, n \in Names :
    E[d][n] # None /\ D[E[d][n]].type = "dir" => h[E[d][n]] < h[d]

LowOK(D, E) == \E h \in [Inums -> Nat] : Low(D, E, h)

\* The links to an inode: names, the ".." of linked directories, debts.
Cnt(S, f, i) == Cardinality({x \in S : f[x] = i})
NameTo(E) == [e \in Inums \X Names |-> E[e[1]][e[2]]]
DotTo(E) == [d \in Inums |-> IF LinkedIn(E, d) THEN E[d][".."] ELSE None]
LinksTo(E, W, i) ==
  Cnt(Inums \X Names, NameTo(E), i) + Cnt(Inums, DotTo(E), i) + Cnt(Procs, W, i)

LinkOK(D, E, W) ==
  \A i \in Inums : /\ D[i].nlink = LinksTo(E, W, i)
                   /\ D[i].type = "free" => D[i].nlink = 0

DiskOK(D, E, W) == TreeOK(D, E) /\ LowOK(D, E) /\ LinkOK(D, E, W)

One(u, i) == IF u = i THEN 1 ELSE 0

\* Functions that differ at most at a.
SameBut(S, f, g, a) == \A x \in S \ {a} : g[x] = f[x]

\* Counting with functions that differ at one point.
LEMMA CountChange ==
  ASSUME NEW S, IsFiniteSet(S), NEW f, NEW g, NEW a \in S, NEW i,
         SameBut(S, f, g, a)
  PROVE  /\ Cnt(S, f, i) \in Nat /\ Cnt(S, g, i) \in Nat
         /\ Cnt(S, g, i) + One(f[a], i) = Cnt(S, f, i) + One(g[a], i)
<1> DEFINE B == {x \in S \ {a} : f[x] = i}
<1>1. IsFiniteSet(B) /\ a \notin B
  <2>1. B \subseteq S
    OBVIOUS
  <2>2. QED  BY <2>1, FS_Subset
<1>2. Cardinality(B) \in Nat /\ Cardinality(B \cup {a}) = Cardinality(B) + 1
  <2> HIDE DEF B
  <2>1. QED  BY <1>1, FS_CardinalityType, FS_AddElement
<1>3. {x \in S : f[x] = i} = IF f[a] = i THEN B \cup {a} ELSE B
  OBVIOUS
<1>4. {x \in S : g[x] = i} = IF g[a] = i THEN B \cup {a} ELSE B
  BY DEF SameBut
<1> HIDE DEF B
<1>5. Cnt(S, f, i) = Cardinality(B) + One(f[a], i)
  <2>1. CASE f[a] = i  BY <2>1, <1>2, <1>3 DEF Cnt, One
  <2>2. CASE f[a] # i  BY <2>2, <1>2, <1>3 DEF Cnt, One
  <2>3. QED  BY <2>1, <2>2
<1>6. Cnt(S, g, i) = Cardinality(B) + One(g[a], i)
  <2>1. CASE g[a] = i  BY <2>1, <1>2, <1>4 DEF Cnt, One
  <2>2. CASE g[a] # i  BY <2>2, <1>2, <1>4 DEF Cnt, One
  <2>3. QED  BY <2>1, <2>2
<1>7. QED  BY <1>2, <1>5, <1>6 DEF One

\* Counting with functions that are the same.
LEMMA CountSame ==
  ASSUME NEW S, NEW f, NEW g, NEW i, \A x \in S : g[x] = f[x]
  PROVE  Cnt(S, g, i) = Cnt(S, f, i)
<1>1. {x \in S : g[x] = i} = {x \in S : f[x] = i}
  OBVIOUS
<1>2. QED  BY <1>1 DEF Cnt

\* What is counted is there.
LEMMA CountSome ==
  ASSUME NEW S, IsFiniteSet(S), NEW f, NEW i
  PROVE  /\ Cnt(S, f, i) \in Nat
         /\ Cnt(S, f, i) > 0 <=> \E x \in S : f[x] = i
<1> DEFINE B == {x \in S : f[x] = i}
<1>1. IsFiniteSet(B)
  <2>1. B \subseteq S
    OBVIOUS
  <2>2. QED  BY <2>1, FS_Subset
<1>2. (\E x \in S : f[x] = i) <=> B # {}
  OBVIOUS
<1> HIDE DEF B
<1>3. Cardinality(B) \in Nat /\ (Cardinality(B) = 0 <=> B = {})
  BY <1>1, FS_CardinalityType, FS_EmptySet
<1>4. Cnt(S, f, i) = Cardinality(B)
  BY DEF Cnt, B
<1>5. QED  BY <1>2, <1>3, <1>4

\* The places of links are finitely many.
LEMMA FinitePlaces ==
  IsFiniteSet(Inums \X Names) /\ IsFiniteSet(Inums) /\ IsFiniteSet(Procs)
BY InodeAssumption, FS_Product

\* An inode has links when there is one of the three kinds.
LEMMA LinksSome ==
  ASSUME NEW E, NEW W, NEW i
  PROVE  /\ LinksTo(E, W, i) \in Nat
         /\ LinksTo(E, W, i) > 0 <=>
              \/ \E e \in Inums, n \in Names : E[e][n] = i
              \/ \E d \in Inums : DotTo(E)[d] = i
              \/ \E p \in Procs : W[p] = i
<1> DEFINE a == Cnt(Inums \X Names, NameTo(E), i)
           b == Cnt(Inums, DotTo(E), i)
           c == Cnt(Procs, W, i)
<1>1. a \in Nat /\ (a > 0 <=> \E x \in Inums \X Names : NameTo(E)[x] = i)
  BY FinitePlaces, CountSome
<1>2. b \in Nat /\ (b > 0 <=> \E d \in Inums : DotTo(E)[d] = i)
  BY FinitePlaces, CountSome
<1>3. c \in Nat /\ (c > 0 <=> \E p \in Procs : W[p] = i)
  BY FinitePlaces, CountSome
<1>4. (\E x \in Inums \X Names : NameTo(E)[x] = i)
        <=> (\E e \in Inums, n \in Names : E[e][n] = i)
  <2>1. \A e \in Inums, n \in Names : NameTo(E)[<<e, n>>] = E[e][n]
    BY DEF NameTo
  <2>2. \A x \in Inums \X Names : NameTo(E)[x] = E[x[1]][x[2]]
    BY DEF NameTo
  <2>3. \A x \in Inums \X Names : x[1] \in Inums /\ x[2] \in Names
    OBVIOUS
  <2>4. \A e \in Inums, n \in Names : <<e, n>> \in Inums \X Names
    OBVIOUS
  <2>5. ASSUME NEW x \in Inums \X Names, NameTo(E)[x] = i
        PROVE  \E e \in Inums, n \in Names : E[e][n] = i
    BY <2>2, <2>3, <2>5
  <2>6. ASSUME NEW e \in Inums, NEW n \in Names, E[e][n] = i
        PROVE  \E x \in Inums \X Names : NameTo(E)[x] = i
    BY <2>1, <2>4, <2>6
  <2>7. QED  BY <2>5, <2>6
<1> HIDE DEF a, b, c
<1>5. LinksTo(E, W, i) = a + b + c
  BY DEF LinksTo, a, b, c
<1>6. LinksTo(E, W, i) \in Nat /\ (LinksTo(E, W, i) > 0 <=> a > 0 \/ b > 0 \/ c > 0)
  BY <1>1, <1>2, <1>3, <1>5
<1>7. QED  BY <1>1, <1>2, <1>3, <1>4, <1>6

\* The directories E and F differ at most in entry n of e.
SameNames(E, F, e, n) ==
  \A d \in Inums, m \in Names : <<d, m>> # <<e, n>> => F[d][m] = E[d][m]

\* How the links to i change when those at entry n of e, at the ".." of c and
\* at p do.
Balance(E, F, W, V, i, e, n, c, p) ==
  LinksTo(F, V, i) + One(E[e][n], i) + One(DotTo(E)[c], i) + One(W[p], i)
  = LinksTo(E, W, i) + One(F[e][n], i) + One(DotTo(F)[c], i) + One(V[p], i)

\* One link of each kind changes.
LEMMA LinksChange ==
  ASSUME NEW E, NEW F, NEW W, NEW V, NEW i,
         NEW e \in Inums, NEW n \in Names, NEW c \in Inums, NEW p \in Procs,
         SameNames(E, F, e, n), SameBut(Inums, DotTo(E), DotTo(F), c),
         SameBut(Procs, W, V, p)
  PROVE  Balance(E, F, W, V, i, e, n, c, p)
<1> DEFINE N == Inums \X Names
           x == <<e, n>>
           a1 == Cnt(N, NameTo(E), i)
           a2 == Cnt(N, NameTo(F), i)
           b1 == Cnt(Inums, DotTo(E), i)
           b2 == Cnt(Inums, DotTo(F), i)
           c1 == Cnt(Procs, W, i)
           c2 == Cnt(Procs, V, i)
           u1 == One(E[e][n], i)
           u2 == One(F[e][n], i)
           v1 == One(DotTo(E)[c], i)
           v2 == One(DotTo(F)[c], i)
           w1 == One(W[p], i)
           w2 == One(V[p], i)
<1>1. a1 \in Nat /\ a2 \in Nat /\ a2 + u1 = a1 + u2
  <2>1. x \in N /\ NameTo(E)[x] = E[e][n] /\ NameTo(F)[x] = F[e][n]
    BY DEF NameTo
  <2>2. SameBut(N, NameTo(E), NameTo(F), x)
    BY DEF NameTo, SameBut, SameNames
  <2>3. IsFiniteSet(N)
    BY FinitePlaces
  <2> HIDE DEF N, x
  <2>4. /\ Cnt(N, NameTo(E), i) \in Nat /\ Cnt(N, NameTo(F), i) \in Nat
        /\ Cnt(N, NameTo(F), i) + One(NameTo(E)[x], i)
           = Cnt(N, NameTo(E), i) + One(NameTo(F)[x], i)
    BY <2>1, <2>2, <2>3, CountChange
  <2>5. QED  BY <2>1, <2>4
<1>2. b1 \in Nat /\ b2 \in Nat /\ b2 + v1 = b1 + v2
  BY FinitePlaces, CountChange
<1>3. c1 \in Nat /\ c2 \in Nat /\ c2 + w1 = c1 + w2
  BY FinitePlaces, CountChange
<1>4. /\ u1 \in Nat /\ u2 \in Nat /\ v1 \in Nat /\ v2 \in Nat
      /\ w1 \in Nat /\ w2 \in Nat
  BY DEF One
<1>5. LinksTo(E, W, i) = a1 + b1 + c1 /\ LinksTo(F, V, i) = a2 + b2 + c2
  BY DEF LinksTo
<1>6. SUFFICES LinksTo(F, V, i) + u1 + v1 + w1 = LinksTo(E, W, i) + u2 + v2 + w2
  BY DEF Balance
<1> HIDE DEF N, a1, a2, b1, b2, c1, c2, u1, u2, v1, v2, w1, w2
<1>7. QED  BY <1>1, <1>2, <1>3, <1>4, <1>5

\* Only a debt changes.
LEMMA LinksOwed ==
  ASSUME NEW E, NEW W, NEW V, NEW i, NEW p \in Procs,
         SameBut(Procs, W, V, p)
  PROVE  LinksTo(E, V, i) + One(W[p], i) = LinksTo(E, W, i) + One(V[p], i)
<1>1. /\ Cnt(Procs, W, i) \in Nat /\ Cnt(Procs, V, i) \in Nat
      /\ Cnt(Procs, V, i) + One(W[p], i) = Cnt(Procs, W, i) + One(V[p], i)
  BY FinitePlaces, CountChange
<1>2. Cnt(Inums \X Names, NameTo(E), i) \in Nat /\ Cnt(Inums, DotTo(E), i) \in Nat
  BY FinitePlaces, CountSome
<1>3. One(W[p], i) \in Nat /\ One(V[p], i) \in Nat
  BY DEF One
<1>4. QED  BY <1>1, <1>2, <1>3 DEF LinksTo

\* No link changes.
LEMMA LinksSame ==
  ASSUME NEW E, NEW F, NEW W, NEW i,
         \A d \in Inums, m \in Names : F[d][m] = E[d][m],
         \A d \in Inums : DotTo(F)[d] = DotTo(E)[d]
  PROVE  LinksTo(F, W, i) = LinksTo(E, W, i)
<1>1. \A y \in Inums \X Names : NameTo(F)[y] = NameTo(E)[y]
  BY DEF NameTo
<1>2. Cnt(Inums \X Names, NameTo(F), i) = Cnt(Inums \X Names, NameTo(E), i)
  BY <1>1, CountSame
<1>3. Cnt(Inums, DotTo(F), i) = Cnt(Inums, DotTo(E), i)
  BY CountSame
<1>4. QED  BY <1>2, <1>3 DEF LinksTo

\* The links an inode's count stands for.
LEMMA LinkFacts ==
  ASSUME NEW D \in Inodes, NEW E \in Dirs, NEW W \in Debts, DiskOK(D, E, W),
         NEW i \in Inums
  PROVE  /\ D[i].nlink \in Nat
         /\ D[i].nlink > 0 => D[i].type # "free"
         /\ D[i].nlink > 0 <=>
              \/ \E e \in Inums, n \in Names : E[e][n] = i
              \/ \E d \in Inums : LinkedIn(E, d) /\ E[d][".."] = i
              \/ \E p \in Procs : W[p] = i
<1>1. D[i].nlink = LinksTo(E, W, i) /\ (D[i].type = "free" => D[i].nlink = 0)
  BY DEF DiskOK, LinkOK
<1>2. i # None
  BY InodeAssumption
<1>3. \A d \in Inums : DotTo(E)[d] = i <=> LinkedIn(E, d) /\ E[d][".."] = i
  BY <1>2 DEF DotTo
<1>4. QED  BY <1>1, <1>3, LinksSome

\* The root is a directory, with a link.
LEMMA RootFacts ==
  ASSUME NEW D \in Inodes, NEW E \in Dirs, NEW W \in Debts, DiskOK(D, E, W)
  PROVE  Root \in Inums /\ D[Root].type = "dir" /\ D[Root].nlink > 0
<1>1. Root \in Inums /\ Root # None
  BY InodeAssumption
<1>2. E[Root][".."] = Root /\ LinkedIn(E, Root)
  BY DEF DiskOK, TreeOK, LinkedIn
<1>3. D[Root].nlink > 0
  BY <1>1, <1>2, LinkFacts
<1>4. D[Root].type = "dir"
  <2>1. ".." \in Names \cup Dots
    BY DEF Dots
  <2>2. QED  BY <1>1, <1>2, <2>1 DEF DiskOK, TreeOK, Bare
<1>5. QED  BY <1>1, <1>3, <1>4

\* A directory with a link count has a name, unless unlink() still counts it.
LEMMA CountedIsLinked ==
  ASSUME NEW D \in Inodes, NEW E \in Dirs, NEW W \in Debts, DiskOK(D, E, W),
         NEW d \in Inums, D[d].type = "dir", D[d].nlink > 0,
         \A p \in Procs : W[p] # d
  PROVE  LinkedIn(E, d)
<1>1. CASE \E e \in Inums, n \in Names : E[e][n] = d
  BY <1>1 DEF LinkedIn
<1>2. ASSUME NEW c \in Inums, LinkedIn(E, c), E[c][".."] = d
      PROVE  LinkedIn(E, d)
  <2>1. CASE c = Root
    BY <1>2, <2>1 DEF DiskOK, TreeOK, LinkedIn
  <2>2. CASE c # Root
    <3>1. PICK e \in Inums, n \in Names : E[e][n] = c
      BY <1>2, <2>2 DEF LinkedIn
    <3>2. c # None /\ d # None /\ ".." \in Names \cup Dots
      BY InodeAssumption DEF Dots
    <3>3. D[c].type = "dir"
      BY <1>2, <3>2 DEF DiskOK, TreeOK, Bare
    <3>4. E[c][".."] = e /\ LinkedIn(E, e)
      BY <3>1, <3>2, <3>3 DEF DiskOK, TreeOK
    <3>5. QED  BY <1>2, <3>4
  <2>3. QED  BY <2>1, <2>2
<1>3. QED  BY <1>1, <1>2, LinkFacts

\* A directory has one name.
LEMMA OneName ==
  ASSUME NEW D, NEW E, TreeOK(D, E),
         NEW d \in Inums, NEW e \in Inums, NEW n \in Names, NEW m \in Names,
         E[d][n] # None, E[d][n] = E[e][m], D[E[d][n]].type = "dir"
  PROVE  d = e /\ n = m
BY DEF TreeOK

\* The tree depends on the types of the inodes, not on their counts.
LEMMA TypesOnly ==
  ASSUME NEW D, NEW D2, NEW E \in Dirs, TreeOK(D, E), LowOK(D, E),
         \A i \in Inums : D2[i].type = D[i].type
  PROVE  TreeOK(D2, E) /\ LowOK(D2, E)
<1>1. \A d \in Inums, n \in Names : E[d][n] # None => E[d][n] \in Inums
  BY DEF Dirs
<1>2. TreeOK(D2, E)
  BY <1>1 DEF TreeOK
<1>3. LowOK(D2, E)
  <2>1. PICK h \in [Inums -> Nat] : Low(D, E, h)
    BY DEF LowOK
  <2>2. Low(D2, E, h)
    BY <1>1, <2>1 DEF Low
  <2>3. QED  BY <2>2 DEF LowOK
<1>4. QED  BY <1>2, <1>3

\* ialloc() of a free inode.
LEMMA AllocDisk ==
  ASSUME NEW D \in Inodes, NEW E \in Dirs, NEW W \in Debts, DiskOK(D, E, W),
         NEW i \in Inums, D[i].type = "free", NEW D2 \in Inodes,
         D2[i].type # "free", D2[i].nlink = 0,
         \A j \in Inums \ {i} : D2[j] = D[j]
  PROVE  DiskOK(D2, E, W)
<1>1. \A d \in Inums, n \in Names : E[d][n] # i
  BY LinkFacts
<1>2. \A d \in Inums, n \in Names : E[d][n] # None =>
        E[d][n] \in Inums /\ D2[E[d][n]] = D[E[d][n]]
  BY <1>1 DEF Dirs
<1>3. TreeOK(D2, E)
  <2>1. TreeOK(D, E)
    BY DEF DiskOK
  <2>2. \A d \in Inums : D2[d].type # "dir" => Bare(E, d)
    BY <2>1 DEF TreeOK
  <2>3. QED  BY <1>2, <2>1, <2>2 DEF TreeOK
<1>4. LowOK(D2, E)
  <2>1. PICK h \in [Inums -> Nat] : Low(D, E, h)
    BY DEF DiskOK, LowOK
  <2>2. Low(D2, E, h)
    BY <1>2, <2>1 DEF Low
  <2>3. QED  BY <2>2 DEF LowOK
<1>5. LinkOK(D2, E, W)
  <2>1. LinkOK(D, E, W)
    BY DEF DiskOK
  <2>2. QED  BY <2>1 DEF LinkOK
<1>6. QED  BY <1>3, <1>4, <1>5 DEF DiskOK

\* iput() frees an inode without links.
LEMMA FreeDisk ==
  ASSUME NEW D \in Inodes, NEW E \in Dirs, NEW W \in Debts, DiskOK(D, E, W),
         NEW i \in Inums, D[i].nlink = 0, NEW D2 \in Inodes, NEW E2 \in Dirs,
         D2[i].type = "free", D2[i].nlink = 0,
         \A j \in Inums \ {i} : D2[j] = D[j],
         Bare(E2, i),
         \A j \in Inums \ {i} : E2[j] = E[j]
  PROVE  DiskOK(D2, E2, W)
<1>0. TreeOK(D, E) /\ LinkOK(D, E, W) /\ None \notin Inums
  BY InodeAssumption DEF DiskOK
<1>1. (\A d \in Inums, n \in Names : E[d][n] # i) /\ i # Root
  BY LinkFacts, RootFacts
<1>2. ~LinkedIn(E, i)
  BY <1>1 DEF LinkedIn
<1>3. \A d \in Inums, n \in Names : E2[d][n] = E[d][n]
  <2>1. \A n \in Names : E[i][n] = None
    BY <1>0, <1>2 DEF TreeOK
  <2>2. QED  BY <2>1 DEF Bare
<1>4. \A d \in Inums : LinkedIn(E2, d) <=> LinkedIn(E, d)
  BY <1>3 DEF LinkedIn
<1>5. \A d \in Inums : DotTo(E2)[d] = DotTo(E)[d]
  BY <1>2, <1>4 DEF DotTo
<1>6. \A d \in Inums, n \in Names : E[d][n] # None =>
        /\ E[d][n] \in Inums /\ D2[E[d][n]] = D[E[d][n]] /\ E2[E[d][n]] = E[E[d][n]]
  BY <1>1 DEF Dirs
<1>7. TreeOK(D2, E2)
  <2>1. E2[Root][".."] = Root
    BY <1>0, <1>1, InodeAssumption DEF TreeOK
  <2>2. \A d \in Inums : D2[d].type # "dir" => Bare(E2, d)
    BY <1>0 DEF TreeOK, Bare
  <2>3. \A d \in Inums : E2[d]["."] \in {d, None}
    BY <1>0 DEF TreeOK, Bare, Dots
  <2>4. \A d \in Inums, n \in Names : E2[d][n] # None =>
          /\ E2[d][n] # Root
          /\ LinkedIn(E2, d)
          /\ D2[E2[d][n]].type = "dir" => E2[E2[d][n]][".."] = d
    BY <1>0, <1>3, <1>4, <1>6 DEF TreeOK
  <2>5. \A d \in Inums, e \in Inums, n \in Names, m \in Names :
          E2[d][n] # None /\ E2[d][n] = E2[e][m] /\ D2[E2[d][n]].type = "dir"
            => d = e /\ n = m
    BY <1>0, <1>3, <1>6 DEF TreeOK
  <2>6. QED  BY <2>1, <2>2, <2>3, <2>4, <2>5 DEF TreeOK
<1>8. LowOK(D2, E2)
  <2>1. PICK h \in [Inums -> Nat] : Low(D, E, h)
    BY DEF DiskOK, LowOK
  <2>2. Low(D2, E2, h)
    BY <1>3, <1>6, <2>1 DEF Low
  <2>3. QED  BY <2>2 DEF LowOK
<1>9. LinkOK(D2, E2, W)
  <2>1. \A j \in Inums : LinksTo(E2, W, j) = LinksTo(E, W, j)
    BY <1>3, <1>5, LinksSame
  <2>2. QED  BY <1>0, <2>1 DEF LinkOK
<1>10. QED  BY <1>7, <1>8, <1>9 DEF DiskOK

\* A link is counted before its name is made, or no longer.
LEMMA RecountDisk ==
  ASSUME NEW D \in Inodes, NEW E \in Dirs, NEW W \in Debts, DiskOK(D, E, W),
         NEW D2 \in Inodes, NEW W2 \in Debts, NEW p \in Procs,
         SameBut(Procs, W, W2, p),
         \A j \in Inums : /\ D2[j].type = D[j].type
                          /\ D2[j].nlink = D[j].nlink + One(W2[p], j) - One(W[p], j),
         W2[p] # None => D[W2[p]].type # "free"
  PROVE  DiskOK(D2, E, W2)
<1>1. TreeOK(D2, E) /\ LowOK(D2, E)
  BY TypesOnly DEF DiskOK
<1>2. ASSUME NEW j \in Inums
      PROVE  D2[j].nlink = LinksTo(E, W2, j) /\ (D2[j].type = "free" => D2[j].nlink = 0)
  <2>1. D[j].nlink = LinksTo(E, W, j) /\ D[j].nlink \in Nat
    BY LinkFacts DEF DiskOK, LinkOK
  <2>2. LinksTo(E, W2, j) + One(W[p], j) = LinksTo(E, W, j) + One(W2[p], j)
    BY LinksOwed
  <2>3. One(W[p], j) \in Nat /\ One(W2[p], j) \in Nat /\ LinksTo(E, W2, j) \in Nat
    BY LinksSome DEF One
  <2>4. D2[j].nlink = LinksTo(E, W2, j)
    BY <2>1, <2>2, <2>3
  <2>5. ASSUME D2[j].type = "free" PROVE D2[j].nlink = 0
    <3>1. D[j].nlink = 0
      BY <2>1, <2>5, LinkFacts
    <3>2. W[p] # j
      BY <3>1, LinkFacts
    <3>3. W2[p] # j
      BY <2>5, InodeAssumption
    <3>4. QED  BY <3>1, <3>2, <3>3 DEF One
  <2>6. QED  BY <2>4, <2>5
<1>3. QED  BY <1>1, <1>2 DEF DiskOK, LinkOK

\* F is E with entry n of d set to i.
Entered(F, E, d, n, i) ==
  /\ F[d][n] = i
  /\ \A e \in Inums, x \in Names \cup Dots : <<e, x>> # <<d, n>> => F[e][x] = E[e][x]

\* link() makes the name it has counted, for something that is no directory.
LEMMA NameDisk ==
  ASSUME NEW D \in Inodes, NEW E \in Dirs, NEW W \in Debts, DiskOK(D, E, W),
         NEW E2 \in Dirs, NEW W2 \in Debts, NEW p \in Procs,
         SameBut(Procs, W, W2, p),
         NEW i \in Inums, W[p] = i, W2[p] = None, D[i].type # "dir",
         NEW d \in Inums, LinkedIn(E, d), D[d].type = "dir",
         NEW n \in Names, E[d][n] = None, Entered(E2, E, d, n, i)
  PROVE  DiskOK(D, E2, W2)
<1>0. TreeOK(D, E) /\ LinkOK(D, E, W) /\ None \notin Inums /\ n \notin Dots
      /\ n \in Names \cup Dots
  BY InodeAssumption DEF DiskOK
<1>1. E2[d][n] = i /\ Bare(E, i) /\ i # Root /\ i # d
  BY <1>0, RootFacts DEF Entered, TreeOK
<1>2. \A e \in Inums, x \in Names \cup Dots : <<e, x>> # <<d, n>> => E2[e][x] = E[e][x]
  BY DEF Entered
<1>3. \A e \in Inums : E2[e][".."] = E[e][".."] /\ E2[e]["."] = E[e]["."]
  BY <1>0, <1>2 DEF Dots
<1>4. \A e \in Inums \ {i} : LinkedIn(E2, e) <=> LinkedIn(E, e)
  BY <1>0, <1>1, <1>2 DEF LinkedIn
<1>5. \A e \in Inums : DotTo(E2)[e] = DotTo(E)[e]
  <2>1. E[i][".."] = None
    BY <1>1 DEF Bare, Dots
  <2>2. QED  BY <1>3, <1>4, <2>1 DEF DotTo
<1>6. \A e \in Inums, m \in Names : E2[e][m] # None => E2[e][m] \in Inums
  BY DEF Dirs
<1>7. TreeOK(D, E2)
  <2>1. E2[Root][".."] = Root
    BY <1>0, <1>3, InodeAssumption DEF TreeOK
  <2>2. \A e \in Inums : D[e].type # "dir" => Bare(E2, e)
    BY <1>0, <1>2 DEF TreeOK, Bare
  <2>3. \A e \in Inums : E2[e]["."] \in {e, None}
    BY <1>0, <1>3 DEF TreeOK
  <2>4. ASSUME NEW e \in Inums, NEW m \in Names, E2[e][m] # None
        PROVE  /\ E2[e][m] # Root
               /\ LinkedIn(E2, e)
               /\ D[E2[e][m]].type = "dir" => E2[E2[e][m]][".."] = e
    <3>1. CASE <<e, m>> = <<d, n>>
      BY <1>1, <1>4, <3>1
    <3>2. CASE <<e, m>> # <<d, n>>
      <4>1. E2[e][m] = E[e][m]
        BY <1>2, <3>2
      <4>2. /\ E[e][m] # Root /\ LinkedIn(E, e)
            /\ D[E[e][m]].type = "dir" => E[E[e][m]][".."] = e
        BY <1>0, <2>4, <4>1 DEF TreeOK
      <4>3. e # i
        BY <1>1, <2>4, <4>1 DEF Bare
      <4>4. QED  BY <1>3, <1>4, <1>6, <2>4, <4>1, <4>2, <4>3
    <3>3. QED  BY <3>1, <3>2
  <2>5. ASSUME NEW e \in Inums, NEW c \in Inums, NEW m \in Names, NEW k \in Names,
               E2[e][m] # None, E2[e][m] = E2[c][k], D[E2[e][m]].type = "dir"
        PROVE  e = c /\ m = k
    <3>1. <<e, m>> # <<d, n>> /\ <<c, k>> # <<d, n>>
      BY <1>1, <2>5
    <3>2. E2[e][m] = E[e][m] /\ E2[c][k] = E[c][k]
      BY <1>2, <3>1
    <3>3. E[e][m] # None /\ E[e][m] = E[c][k] /\ D[E[e][m]].type = "dir"
      BY <2>5, <3>2
    <3>4. QED  BY <1>0, <3>3, OneName
  <2>6. QED  BY <2>1, <2>2, <2>3, <2>4, <2>5 DEF TreeOK
<1>8. LowOK(D, E2)
  <2>1. PICK h \in [Inums -> Nat] : Low(D, E, h)
    BY DEF DiskOK, LowOK
  <2>2. Low(D, E2, h)
    <3> SUFFICES ASSUME NEW e \in Inums, NEW m \in Names,
                        E2[e][m] # None, D[E2[e][m]].type = "dir"
                 PROVE  h[E2[e][m]] < h[e]
      BY DEF Low
    <3>1. E2[e][m] = E[e][m]
      BY <1>1, <1>2
    <3>2. QED  BY <2>1, <3>1 DEF Low
  <2>3. QED  BY <2>2 DEF LowOK
<1>9. LinkOK(D, E2, W2)
  <2> SUFFICES ASSUME NEW j \in Inums
               PROVE  D[j].nlink = LinksTo(E2, W2, j) /\ (D[j].type = "free" => D[j].nlink = 0)
    BY DEF LinkOK
  <2>1. SameNames(E, E2, d, n)
    BY <1>2 DEF SameNames
  <2>2. Balance(E, E2, W, W2, j, d, n, d, p)
    <3>1. SameBut(Inums, DotTo(E), DotTo(E2), d)
      BY <1>5 DEF SameBut
    <3>2. QED  BY <2>1, <3>1, LinksChange
  <2>3. One(E[d][n], j) = 0 /\ One(W2[p], j) = 0
    BY <1>0 DEF One
  <2>4. One(W[p], j) = One(E2[d][n], j) /\ One(W[p], j) \in Nat
    BY <1>1 DEF One
  <2>5. One(DotTo(E2)[d], j) = One(DotTo(E)[d], j) /\ One(DotTo(E)[d], j) \in Nat
    BY <1>5 DEF One
  <2>6. LinksTo(E2, W2, j) \in Nat /\ LinksTo(E, W, j) \in Nat
    BY LinksSome
  <2>7. LinksTo(E2, W2, j) = LinksTo(E, W, j)
    BY <2>2, <2>3, <2>4, <2>5, <2>6 DEF Balance
  <2>8. QED  BY <1>0, <2>7 DEF LinkOK
<1>10. QED  BY <1>7, <1>8, <1>9 DEF DiskOK

\* unlink() erases a name that it still counts.
LEMMA EraseDisk ==
  ASSUME NEW D \in Inodes, NEW E \in Dirs, NEW W \in Debts, DiskOK(D, E, W),
         NEW D2 \in Inodes, NEW E2 \in Dirs, NEW W2 \in Debts, NEW p \in Procs,
         SameBut(Procs, W, W2, p),
         NEW i \in Inums, W[p] = None, W2[p] = i,
         NEW d \in Inums, NEW n \in Names, E[d][n] = i,
         Entered(E2, E, d, n, None),
         D[i].type = "dir" => \A m \in Names : E[i][m] = None,
         \A j \in Inums : /\ D2[j].type = D[j].type
                          /\ D2[j].nlink = IF j = d /\ D[i].type = "dir"
                                           THEN D[j].nlink - 1 ELSE D[j].nlink
  PROVE  DiskOK(D2, E2, W2)
<1>0. TreeOK(D, E) /\ LinkOK(D, E, W) /\ None \notin Inums /\ n \notin Dots
      /\ n \in Names \cup Dots
  BY InodeAssumption DEF DiskOK
<1>1. E2[d][n] = None /\ i # Root /\ (\A m \in Names : E[i][m] = None) /\ i # d
  BY <1>0 DEF Entered, TreeOK, Bare
<1>2. \A e \in Inums, x \in Names \cup Dots : <<e, x>> # <<d, n>> => E2[e][x] = E[e][x]
  BY DEF Entered
<1>3. \A e \in Inums : E2[e][".."] = E[e][".."] /\ E2[e]["."] = E[e]["."]
  BY <1>0, <1>2 DEF Dots
<1>4. \A e \in Inums, m \in Names : E2[e][m] # None =>
        E2[e][m] = E[e][m] /\ E[e][m] \in Inums
  BY <1>1, <1>2 DEF Dirs
<1>5. \A e \in Inums \ {i} : LinkedIn(E2, e) <=> LinkedIn(E, e)
  <2>1. \A e \in Inums : LinkedIn(E2, e) => LinkedIn(E, e)
    BY <1>0, <1>4 DEF LinkedIn
  <2>2. ASSUME NEW e \in Inums \ {i}, LinkedIn(E, e), e # Root PROVE LinkedIn(E2, e)
    <3>1. PICK c \in Inums, m \in Names : E[c][m] = e
      BY <2>2 DEF LinkedIn
    <3>2. E2[c][m] = e
      BY <1>2, <3>1
    <3>3. QED  BY <3>2 DEF LinkedIn
  <2>3. QED  BY <2>1, <2>2 DEF LinkedIn
<1>6. TreeOK(D2, E2)
  <2>1. E2[Root][".."] = Root
    BY <1>0, <1>3, InodeAssumption DEF TreeOK
  <2>2. \A e \in Inums : D2[e].type # "dir" => Bare(E2, e)
    BY <1>0, <1>1, <1>2 DEF TreeOK, Bare
  <2>3. \A e \in Inums : E2[e]["."] \in {e, None}
    BY <1>0, <1>3 DEF TreeOK
  <2>4. ASSUME NEW e \in Inums, NEW m \in Names, E2[e][m] # None
        PROVE  /\ E2[e][m] # Root
               /\ LinkedIn(E2, e)
               /\ D2[E2[e][m]].type = "dir" => E2[E2[e][m]][".."] = e
    <3>1. E2[e][m] = E[e][m] /\ E[e][m] \in Inums /\ e # i
      BY <1>1, <1>4, <2>4
    <3>2. /\ E[e][m] # Root /\ LinkedIn(E, e)
          /\ D[E[e][m]].type = "dir" => E[E[e][m]][".."] = e
      BY <1>0, <2>4, <3>1 DEF TreeOK
    <3>3. QED  BY <1>3, <1>5, <3>1, <3>2
  <2>5. ASSUME NEW e \in Inums, NEW c \in Inums, NEW m \in Names, NEW k \in Names,
               E2[e][m] # None, E2[e][m] = E2[c][k], D2[E2[e][m]].type = "dir"
        PROVE  e = c /\ m = k
    <3>1. E2[e][m] = E[e][m] /\ E2[c][k] = E[c][k] /\ E[e][m] \in Inums
      BY <1>4, <2>5
    <3>2. E[e][m] # None /\ E[e][m] = E[c][k] /\ D[E[e][m]].type = "dir"
      BY <2>5, <3>1
    <3>3. QED  BY <1>0, <3>2, OneName
  <2>6. QED  BY <2>1, <2>2, <2>3, <2>4, <2>5 DEF TreeOK
<1>7. LowOK(D2, E2)
  <2>1. PICK h \in [Inums -> Nat] : Low(D, E, h)
    BY DEF DiskOK, LowOK
  <2>2. Low(D2, E2, h)
    BY <1>4, <2>1 DEF Low
  <2>3. QED  BY <2>2 DEF LowOK
<1>8. /\ \A e \in Inums \ {i} : DotTo(E2)[e] = DotTo(E)[e]
      /\ DotTo(E)[i] = IF D[i].type = "dir" THEN d ELSE None
      /\ DotTo(E2)[i] = None
  <2>1. \A e \in Inums \ {i} : DotTo(E2)[e] = DotTo(E)[e]
    BY <1>3, <1>5 DEF DotTo
  <2>2. CASE D[i].type # "dir"
    <3>1. E[i][".."] = None
      BY <1>0, <2>2 DEF TreeOK, Bare, Dots
    <3>2. QED  BY <1>3, <2>1, <2>2, <3>1 DEF DotTo
  <2>3. CASE D[i].type = "dir"
    <3>1. E[i][".."] = d /\ LinkedIn(E, i)
      BY <1>0, <2>3 DEF TreeOK, LinkedIn
    <3>2. ~LinkedIn(E2, i)
      <4> SUFFICES ASSUME NEW e \in Inums, NEW m \in Names, E2[e][m] = i
                   PROVE  FALSE
        BY <1>1 DEF LinkedIn
      <4>1. E[e][m] = i
        BY <1>0, <1>4
      <4>2. e = d /\ m = n
        BY <1>0, <2>3, <4>1 DEF TreeOK
      <4>3. QED  BY <1>0, <1>1, <4>2
    <3>3. QED  BY <2>1, <2>3, <3>1, <3>2 DEF DotTo
  <2>4. QED  BY <2>2, <2>3
<1>9. LinkOK(D2, E2, W2)
  <2> SUFFICES ASSUME NEW j \in Inums
               PROVE  D2[j].nlink = LinksTo(E2, W2, j)
                      /\ (D2[j].type = "free" => D2[j].nlink = 0)
    BY DEF LinkOK
  <2>1. SameNames(E, E2, d, n)
    BY <1>2 DEF SameNames
  <2>2. Balance(E, E2, W, W2, j, d, n, i, p)
    <3>1. SameBut(Inums, DotTo(E), DotTo(E2), i)
      BY <1>8 DEF SameBut
    <3>2. QED  BY <2>1, <3>1, LinksChange
  <2>3. One(E2[d][n], j) = 0 /\ One(W[p], j) = 0 /\ One(DotTo(E2)[i], j) = 0
    BY <1>0, <1>1, <1>8 DEF One
  <2>4. One(W2[p], j) = One(E[d][n], j) /\ One(W2[p], j) \in Nat
    BY DEF One
  <2>5. One(DotTo(E)[i], j) = IF j = d /\ D[i].type = "dir" THEN 1 ELSE 0
    BY <1>0, <1>8 DEF One
  <2>6. LinksTo(E2, W2, j) \in Nat /\ LinksTo(E, W, j) \in Nat
    BY LinksSome
  <2>7. D[j].nlink = LinksTo(E, W, j) /\ (D[j].type = "free" => D[j].nlink = 0)
    BY <1>0 DEF LinkOK
  <2>8. CASE j = d /\ D[i].type = "dir"
    <3>1. D2[j].nlink = D[j].nlink - 1 /\ D[j].type # "free" /\ D2[j].type = D[j].type
      <4>1. j # None /\ D[j].nlink > 0
        BY <1>0, <1>8, <2>8, LinkFacts DEF DotTo
      <4>2. QED  BY <2>7, <2>8, <4>1
    <3>2. LinksTo(E2, W2, j) + 1 = LinksTo(E, W, j)
      BY <2>2, <2>3, <2>4, <2>5, <2>6, <2>8 DEF Balance
    <3>3. QED  BY <2>6, <2>7, <3>1, <3>2
  <2>9. CASE ~(j = d /\ D[i].type = "dir")
    <3>1. D2[j].nlink = D[j].nlink /\ D2[j].type = D[j].type
      BY <2>9
    <3>2. LinksTo(E2, W2, j) = LinksTo(E, W, j)
      BY <2>2, <2>3, <2>4, <2>5, <2>6, <2>9 DEF Balance
    <3>3. QED  BY <2>7, <3>1, <3>2
  <2>10. QED  BY <2>8, <2>9
<1>10. QED  BY <1>6, <1>7, <1>9 DEF DiskOK

\* create() gives a new inode its count, its dots if it is a directory, and its
\* name.
LEMMA FillDisk ==
  ASSUME NEW D \in Inodes, NEW E \in Dirs, NEW W \in Debts, DiskOK(D, E, W),
         NEW D2 \in Inodes, NEW E2 \in Dirs, NEW p \in Procs,
         NEW i \in Inums, D[i].nlink = 0, Bare(E, i), D[i].type # "free",
         NEW d \in Inums, d # i, LinkedIn(E, d), D[d].type = "dir",
         NEW n \in Names, E[d][n] = None, E2[d][n] = i,
         \A e \in Inums, x \in Names \cup Dots :
           <<e, x>> # <<d, n>> /\ (e # i \/ x \in Names) => E2[e][x] = E[e][x],
         IF D[i].type = "dir" THEN E2[i]["."] = i /\ E2[i][".."] = d
         ELSE Bare(E2, i),
         \A j \in Inums : /\ D2[j].type = D[j].type
                          /\ D2[j].nlink = IF j = i THEN 1
                                           ELSE IF j = d /\ D[i].type = "dir"
                                           THEN D[j].nlink + 1 ELSE D[j].nlink
  PROVE  DiskOK(D2, E2, W)
<1>0. TreeOK(D, E) /\ LinkOK(D, E, W) /\ None \notin Inums /\ n \notin Dots
      /\ n \in Names \cup Dots
  BY InodeAssumption DEF DiskOK
<1>1. /\ i # Root
      /\ \A e \in Inums, m \in Names : E[e][m] # i
      /\ \A e \in Inums : ~(LinkedIn(E, e) /\ E[e][".."] = i)
      /\ \A q \in Procs : W[q] # i
  BY LinkFacts, RootFacts
<1>2. \A e \in Inums, m \in Names : <<e, m>> # <<d, n>> => E2[e][m] = E[e][m]
  OBVIOUS
<1>3. \A m \in Names : E2[i][m] = None
  BY <1>2 DEF Bare
<1>4. \A e \in Inums \ {i} : E2[e][".."] = E[e][".."] /\ E2[e]["."] = E[e]["."]
  BY <1>0 DEF Dots
<1>5. \A e \in Inums \ {i} : LinkedIn(E2, e) <=> LinkedIn(E, e)
  BY <1>0, <1>2 DEF LinkedIn
<1>6. \A e \in Inums, m \in Names : E2[e][m] # None => E2[e][m] \in Inums
  BY DEF Dirs
<1>7. TreeOK(D2, E2)
  <2>1. E2[Root][".."] = Root
    BY <1>0, <1>1, <1>4, InodeAssumption DEF TreeOK
  <2>2. \A e \in Inums : D2[e].type # "dir" => Bare(E2, e)
    <3>1. ASSUME NEW e \in Inums \ {i}, D[e].type # "dir"
          PROVE  Bare(E2, e)
      <4>1. Bare(E, e) /\ e # d
        BY <1>0, <3>1 DEF TreeOK
      <4>2. QED  BY <4>1 DEF Bare
    <3>2. QED  BY <3>1
  <2>3. \A e \in Inums : E2[e]["."] \in {e, None}
    <3>1. E2[i]["."] \in {i, None}
      BY DEF Bare, Dots
    <3>2. QED  BY <1>0, <1>4, <3>1 DEF TreeOK
  <2>4. ASSUME NEW e \in Inums, NEW m \in Names, E2[e][m] # None
        PROVE  /\ E2[e][m] # Root
               /\ LinkedIn(E2, e)
               /\ D2[E2[e][m]].type = "dir" => E2[E2[e][m]][".."] = e
    <3>1. CASE <<e, m>> = <<d, n>>
      BY <1>1, <1>5, <3>1
    <3>2. CASE <<e, m>> # <<d, n>>
      <4>1. E2[e][m] = E[e][m] /\ E[e][m] # i /\ E[e][m] \in Inums
        BY <1>1, <1>2, <1>6, <2>4, <3>2
      <4>2. /\ E[e][m] # Root /\ LinkedIn(E, e)
            /\ D[E[e][m]].type = "dir" => E[E[e][m]][".."] = e
        BY <1>0, <2>4, <4>1 DEF TreeOK
      <4>3. e # i
        BY <1>3, <2>4
      <4>4. QED  BY <1>4, <1>5, <4>1, <4>2, <4>3
    <3>3. QED  BY <3>1, <3>2
  <2>5. ASSUME NEW e \in Inums, NEW c \in Inums, NEW m \in Names, NEW k \in Names,
               E2[e][m] # None, E2[e][m] = E2[c][k], D2[E2[e][m]].type = "dir"
        PROVE  e = c /\ m = k
    <3>1. CASE E2[e][m] = i
      <4>1. \A a \in Inums, l \in Names : E2[a][l] = i => <<a, l>> = <<d, n>>
        BY <1>1, <1>2
      <4>2. E2[c][k] = i
        BY <2>5, <3>1
      <4>3. QED  BY <3>1, <4>1, <4>2
    <3>2. CASE E2[e][m] # i
      <4>1. <<e, m>> # <<d, n>> /\ <<c, k>> # <<d, n>>
        BY <2>5, <3>2
      <4>2. E2[e][m] = E[e][m] /\ E2[c][k] = E[c][k] /\ E2[e][m] \in Inums
        BY <1>2, <1>6, <2>5, <4>1
      <4>3. E[e][m] # None /\ E[e][m] = E[c][k] /\ D[E[e][m]].type = "dir"
        BY <2>5, <4>2
      <4>4. QED  BY <1>0, <4>3, OneName
    <3>3. QED  BY <3>1, <3>2
  <2>6. QED  BY <2>1, <2>2, <2>3, <2>4, <2>5 DEF TreeOK
<1>8. LowOK(D2, E2)
  <2>1. PICK h \in [Inums -> Nat] : Low(D, E, h)
    BY DEF DiskOK, LowOK
  <2> DEFINE g == [e \in Inums |-> IF e = i THEN 0 ELSE h[e] + 1]
  <2>2. g \in [Inums -> Nat]
    OBVIOUS
  <2>3. Low(D2, E2, g)
    <3> SUFFICES ASSUME NEW e \in Inums, NEW m \in Names,
                        E2[e][m] # None, D2[E2[e][m]].type = "dir"
                 PROVE  g[E2[e][m]] < g[e]
      BY DEF Low
    <3>1. e # i /\ E2[e][m] \in Inums
      BY <1>3, <1>6
    <3>2. CASE E2[e][m] = i
      BY <3>1, <3>2
    <3>3. CASE E2[e][m] # i
      <4>1. E2[e][m] = E[e][m]
        BY <1>2, <3>3
      <4>2. h[E[e][m]] < h[e]
        <5>1. E[e][m] # None /\ D[E[e][m]].type = "dir"
          BY <3>1, <4>1
        <5> HIDE DEF g
        <5>2. QED  BY <2>1, <5>1 DEF Low
      <4>3. QED  BY <3>1, <3>3, <4>1, <4>2
    <3>4. QED  BY <3>2, <3>3
  <2> HIDE DEF g
  <2>4. QED  BY <2>2, <2>3 DEF LowOK
<1>9. /\ \A e \in Inums \ {i} : DotTo(E2)[e] = DotTo(E)[e]
      /\ DotTo(E)[i] = None
      /\ DotTo(E2)[i] = IF D[i].type = "dir" THEN d ELSE None
  <2>1. \A e \in Inums \ {i} : DotTo(E2)[e] = DotTo(E)[e]
    BY <1>4, <1>5 DEF DotTo
  <2>2. E[i][".."] = None
    BY DEF Bare, Dots
  <2>3. LinkedIn(E2, i)
    BY DEF LinkedIn
  <2>4. CASE D[i].type = "dir"  BY <2>1, <2>2, <2>3, <2>4 DEF DotTo
  <2>5. CASE D[i].type # "dir"
    <3>1. E2[i][".."] = None
      BY <2>5 DEF Bare, Dots
    <3>2. QED  BY <2>1, <2>2, <2>5, <3>1 DEF DotTo
  <2>6. QED  BY <2>4, <2>5
<1>10. LinkOK(D2, E2, W)
  <2> SUFFICES ASSUME NEW j \in Inums
               PROVE  D2[j].nlink = LinksTo(E2, W, j)
                      /\ (D2[j].type = "free" => D2[j].nlink = 0)
    BY DEF LinkOK
  <2>1. SameNames(E, E2, d, n)
    BY <1>2 DEF SameNames
  <2>2. Balance(E, E2, W, W, j, d, n, i, p)
    <3>1. SameBut(Inums, DotTo(E), DotTo(E2), i) /\ SameBut(Procs, W, W, p)
      BY <1>9 DEF SameBut
    <3>2. QED  BY <2>1, <3>1, LinksChange
  <2>3. One(E[d][n], j) = 0 /\ One(DotTo(E)[i], j) = 0
    BY <1>0, <1>9 DEF One
  <2>4. One(W[p], j) \in Nat /\ One(E2[d][n], j) = IF j = i THEN 1 ELSE 0
    BY DEF One
  <2>5. One(DotTo(E2)[i], j) = IF j = d /\ D[i].type = "dir" THEN 1 ELSE 0
    BY <1>0, <1>9 DEF One
  <2>6. LinksTo(E2, W, j) \in Nat /\ LinksTo(E, W, j) \in Nat
    BY LinksSome
  <2>7. D[j].nlink = LinksTo(E, W, j) /\ (D[j].type = "free" => D[j].nlink = 0)
    BY <1>0 DEF LinkOK
  <2>8. LinksTo(E2, W, j) = LinksTo(E, W, j) + One(E2[d][n], j) + One(DotTo(E2)[i], j)
    <3>1. One(E2[d][n], j) \in Nat /\ One(DotTo(E2)[i], j) \in Nat
      BY DEF One
    <3>2. QED  BY <2>2, <2>3, <2>4, <2>6, <3>1 DEF Balance
  <2>9. D2[j].nlink = LinksTo(E2, W, j)
    <3>1. CASE j = i
      BY <2>4, <2>5, <2>6, <2>7, <2>8, <3>1
    <3>2. CASE j # i
      BY <2>4, <2>5, <2>6, <2>7, <2>8, <3>2
    <3>3. QED  BY <3>1, <3>2
  <2>10. D2[j].type = "free" => D2[j].nlink = 0
    BY <2>7
  <2>11. QED  BY <2>9, <2>10
<1>11. QED  BY <1>7, <1>8, <1>10 DEF DiskOK
-----------------------------------------------------------------------------
(***************************************************************************)
(* The calls and the tree.                                                 *)
(***************************************************************************)

\* The link that a call at label l has counted without a name: the one that
\* link() will make, or that unlink() has erased.
Owes(l, r) ==
  IF \/ Linking(r) /\ "link_done" \notin {l, r.ret}
     \/ r.call = "unlink" /\ "unlink_dec" \in {l, r.ret}
  THEN r.ip ELSE None

Owe == [p \in Procs |-> Owes(pc[p], reg[p])]

\* What a call knows of its inodes: dp is a directory, link() has none as its
\* ip, a new inode is its creator's, and the entry unlink() has found stays.
Knows(D, E, f, l, r) ==
  /\ IF l \in Iputs THEN r.ret \notin {"create_new", "unlink_ip"} ELSE r.ret = None
  /\ r.dp # None => D[r.dp].type = "dir"
  /\ Linking(r) /\ r.ip # None => D[r.ip].type # "dir"
  /\ l = "create_new" =>
       /\ f[r.ip] = 1
       /\ D[r.ip].type = Type(r.call) /\ D[r.ip].nlink = 0
       /\ Bare(E, r.ip)
       /\ E[r.dp][r.name] = None
  /\ l = "unlink_ip" => E[r.dp][r.name] = r.ip

CallInv == \A p \in Procs : Knows(dsk, dir, ref, pc[p], reg[p])

\* Inodes between ialloc() and their first link.
Fresh(i) == \E p \in Procs : pc[p] = "create_new" /\ reg[p].ip = i

\* An inode without links is in the cache, a free one has no pointer but the
\* last of iput(), and a directory has its dots.
UseOK(i) ==
  /\ dsk[i].type # "free" /\ dsk[i].nlink = 0 => valid[i] \/ Fresh(i)
  /\ dsk[i].type = "free" /\ ref[i] > 0 =>
       \E p \in Procs : pc[p] = "iput_done" /\ reg[p].put = i
  /\ dsk[i].type = "dir" => (dir[i]["."] = i /\ dir[i][".."] # None) \/ Fresh(i)

UseInv == \A i \in Inums : UseOK(i)

FsInv == DiskOK(dsk, dir, Owe) /\ CallInv /\ UseInv /\ panicked # "broken"

\* A regular state.
Ready == CacheInv /\ Regular /\ FsInv

\* Its parts.
LEMMA ReadyFacts ==
  ASSUME Ready
  PROVE  /\ TypeOK /\ ShapeInv /\ LockInv /\ RefInv /\ FreeInv /\ MemInv
         /\ dsk \in Inodes /\ dir \in Dirs /\ Owe \in Debts
         /\ DiskOK(dsk, dir, Owe) /\ CallInv /\ UseInv
<1>1. TypeOK /\ ShapeInv /\ LockInv /\ RefInv /\ FreeInv /\ MemInv
      /\ DiskOK(dsk, dir, Owe) /\ CallInv /\ UseInv
  BY DEF Ready, CacheInv, FsInv
<1>2. dsk \in Inodes /\ dir \in Dirs
  BY <1>1 DEF TypeOK, Inodes, Dirs
<1>3. Owe \in Debts
  BY <1>1 DEF TypeOK, Reg, Owe, Owes, Debts
<1>4. QED  BY <1>1, <1>2, <1>3

\* A pointer's inode is allocated.
LEMMA PointerFacts ==
  ASSUME Ready, NEW p \in Procs, NEW x \in Places, NEW i \in Inums,
         Pts[p][x] = i, x = "put" => pc[p] \notin Frees
  PROVE  /\ dsk[i].type # "free" /\ ~Freeing(i) /\ ref[i] > 0
         /\ x # "ip" \/ pc[p] # "create_new" => ~Fresh(i)
<1>1. TypeOK /\ ShapeInv /\ LockInv /\ RefInv /\ FreeInv /\ MemInv /\ CallInv /\ UseInv
  BY ReadyFacts
<1>2. ~Freeing(i) /\ ref[i] > 0
  BY <1>1, NotFreed, OneRef
<1>3. dsk[i].type # "free"
  BY <1>1, <1>2 DEF UseInv, UseOK, Freeing
<1>4. ASSUME x # "ip" \/ pc[p] # "create_new", Fresh(i)
      PROVE  FALSE
  <2>1. PICK q \in Procs : pc[q] = "create_new" /\ reg[q].ip = i
    BY <1>4 DEF Fresh
  <2>2. ref[i] = 1
    BY <1>1, <2>1 DEF CallInv, Knows
  <2>3. "ip" \in Places /\ Pts[q]["ip"] = i /\ (p # q \/ x # "ip")
    BY <1>1, <1>4, <2>1, PtsType DEF Places, Pointers
  <2>4. ref[i] > 1
    BY <1>1, <2>3, TwoRefs
  <2>5. QED  BY <2>2, <2>4
<1>5. QED  BY <1>2, <1>3, <1>4

\* The same for the pointers of a call.
LEMMA RegFacts ==
  ASSUME Ready, NEW p \in Procs, NEW x \in Pointers, reg[p][x] # None,
         x = "put" => pc[p] \notin Frees
  PROVE  LET i == reg[p][x] IN
         /\ i \in Inums
         /\ dsk[i].type # "free" /\ ~Freeing(i) /\ ref[i] > 0
         /\ x # "ip" \/ pc[p] # "create_new" => ~Fresh(i)
<1>1. TypeOK
  BY ReadyFacts
<1>2. x \in Places /\ Pts[p][x] = reg[p][x] /\ reg[p][x] \in Inums
  BY <1>1, PtsType DEF Places, Table
<1>3. QED  BY <1>2, PointerFacts

\* An inode that is linked is allocated, and not new.
LEMMA CountedFacts ==
  ASSUME Ready, NEW i \in Inums, dsk[i].nlink > 0
  PROVE  dsk[i].type # "free" /\ ~Fresh(i)
<1>1. dsk[i].type # "free"
  BY ReadyFacts, LinkFacts
<1>2. ASSUME Fresh(i) PROVE FALSE
  <2>1. PICK q \in Procs : pc[q] = "create_new" /\ reg[q].ip = i
    BY <1>2 DEF Fresh
  <2>2. dsk[i].nlink = 0
    BY <2>1, ReadyFacts DEF CallInv, Knows
  <2>3. QED  BY <2>2
<1>3. QED  BY <1>1, <1>2

\* Whoever owes a directory's link has it locked.
LEMMA OwedIsLocked ==
  ASSUME Ready, NEW q \in Procs, NEW d \in Inums, Owe[q] = d, dsk[d].type = "dir"
  PROVE  lock[d] = q /\ At(q) = "unlink_dec"
<1>1. LockInv /\ Knows(dsk, dir, ref, pc[q], reg[q])
  BY ReadyFacts DEF CallInv
<1>2. d # None
  BY InodeAssumption
<1>3. reg[q].ip = d /\ Owes(pc[q], reg[q]) = d
  BY <1>2 DEF Owe, Owes
<1>4. ~Linking(reg[q])
  BY <1>1, <1>2, <1>3 DEF Knows
<1>5. "unlink_dec" \in {pc[q], reg[q].ret}
  BY <1>2, <1>3, <1>4 DEF Owes
<1>6. At(q) = "unlink_dec"
  BY <1>1, <1>5, InodeAssumption DEF Knows, At, Place, Iputs, Labels
<1>7. QED  BY <1>1, <1>3, <1>6 DEF LockInv, Has, HoldIp

\* A directory with a link count that nobody else has locked is linked.
LEMMA LinkedDir ==
  ASSUME Ready, NEW d \in Inums, dsk[d].type = "dir", dsk[d].nlink # 0,
         NEW p \in Procs, lock[d] \in {p, None}, At(p) # "unlink_dec"
  PROVE  LinkedIn(dir, d) /\ dsk[d].nlink > 0
<1>1. \A q \in Procs : Owe[q] # d
  BY OwedIsLocked, InodeAssumption
<1>2. dsk[d].nlink > 0
  <2>1. dsk[d].nlink \in Nat
    BY ReadyFacts, LinkFacts
  <2>2. QED  BY <2>1
<1>3. QED  BY <1>1, <1>2, ReadyFacts, CountedIsLinked

\* A step of p, in which inodes outside of T stay as they are: what the other
\* calls know still holds.
LEMMA OthersKeep ==
  ASSUME Ready, NEW p \in Procs, NEW l, NEW r, Goto(p, l, r),
         NEW T \in SUBSET Inums,
         \A i \in Inums \ T : /\ dsk'[i] = dsk[i] /\ dir'[i] = dir[i]
                              /\ ref'[i] = ref[i] \/ ~Fresh(i),
         \A i \in T : \A q \in Procs \ {p} :
           /\ pc[q] = "create_new" => reg[q].ip # i
           /\ lock[i] = q => dir'[i] = dir[i]
           /\ dsk'[i].type = dsk[i].type \/ (reg[q].dp # i /\ reg[q].ip # i),
         NEW q \in Procs \ {p}
  PROVE  Knows(dsk', dir', ref', pc[q], reg[q])
<1>1. pc'[q] = pc[q] /\ reg'[q] = reg[q]
  BY ReadyFacts, StepOf
<1> DEFINE l0 == pc[q]
           s == reg[q]
<1>2. Knows(dsk, dir, ref, l0, s) /\ s \in Reg /\ LockInv
  BY ReadyFacts DEF CallInv, TypeOK
<1>3. /\ s.dp # None => dsk'[s.dp].type = dsk[s.dp].type
      /\ s.ip # None => dsk'[s.ip].type = dsk[s.ip].type
      /\ \A i \in Inums : lock[i] = q => dir'[i] = dir[i]
  <2>1. ASSUME NEW i \in Inums
        PROVE  /\ s.dp = i \/ s.ip = i => dsk'[i].type = dsk[i].type
               /\ lock[i] = q => dir'[i] = dir[i]
    <3>1. CASE i \in T  BY <3>1
    <3>2. CASE i \notin T  BY <3>2
    <3>3. QED  BY <3>1, <3>2
  <2>2. s.dp \in Inums \cup {None} /\ s.ip \in Inums \cup {None}
    BY <1>2 DEF Reg
  <2>3. QED  BY <2>1, <2>2
<1>4. l0 \in {"create_new", "unlink_ip"} =>
        /\ s.dp \in Inums /\ s.ip \in Inums /\ dir'[s.dp] = dir[s.dp]
  <2> SUFFICES ASSUME l0 \in {"create_new", "unlink_ip"}
               PROVE  s.dp \in Inums /\ s.ip \in Inums /\ dir'[s.dp] = dir[s.dp]
    OBVIOUS
  <2>1. At(q) = l0 /\ Shape(l0, s)
    BY ReadyFacts, CallState DEF Ready, Iputs
  <2>2. s.dp \in Inums /\ s.ip \in Inums
    BY <1>2, <2>1 DEF Shape, Reg, WithDp, HoldDp, WithIp
  <2>3. lock[s.dp] = q
    BY <1>2, <2>1, <2>2 DEF LockInv, Has, HoldDp
  <2>4. QED  BY <1>3, <2>2, <2>3
<1>5. ASSUME l0 = "create_new"
      PROVE  /\ ref'[s.ip] = ref[s.ip] /\ dsk'[s.ip] = dsk[s.ip]
             /\ dir'[s.ip] = dir[s.ip]
  <2>1. s.ip \in Inums /\ Fresh(s.ip)
    BY <1>4, <1>5 DEF Fresh
  <2>2. QED  BY <1>5, <2>1
<1> HIDE DEF l0, s
<1>6. /\ IF l0 \in Iputs THEN s.ret \notin {"create_new", "unlink_ip"} ELSE s.ret = None
      /\ s.dp # None => dsk'[s.dp].type = "dir"
      /\ Linking(s) /\ s.ip # None => dsk'[s.ip].type # "dir"
  BY <1>2, <1>3 DEF Knows
<1>7. ASSUME l0 = "create_new"
      PROVE  /\ ref'[s.ip] = 1
             /\ dsk'[s.ip].type = Type(s.call) /\ dsk'[s.ip].nlink = 0
             /\ Bare(dir', s.ip)
             /\ dir'[s.dp][s.name] = None
  BY <1>2, <1>4, <1>5, <1>7 DEF Knows, Bare
<1>8. l0 = "unlink_ip" => dir'[s.dp][s.name] = s.ip
  BY <1>2, <1>4 DEF Knows
<1>9. Knows(dsk', dir', ref', l0, s)
  BY <1>1, <1>6, <1>7, <1>8 DEF Knows, l0, s
<1>10. QED  BY <1>1, <1>9 DEF l0, s

\* A step of p in which inodes outside of T at most get or lose a reference.
LEMMA FsStep ==
  ASSUME Ready, NEW p \in Procs, NEW l, NEW r, Goto(p, l, r), panicked' = panicked,
         NEW T \in SUBSET Inums,
         \A i \in Inums \ T :
           /\ dsk'[i] = dsk[i] /\ dir'[i] = dir[i]
           /\ \/ ref'[i] = ref[i]
              \/ ~Fresh(i) /\ (dsk[i].type = "free" => ref'[i] <= ref[i])
           /\ dsk[i].type # "free" /\ dsk[i].nlink = 0 /\ valid[i] => valid'[i]
           /\ pc[p] = "create_new" => reg[p].ip # i
           /\ pc[p] = "iput_done" /\ reg[p].put = i => ref'[i] = 0,
         \A i \in T : \A q \in Procs \ {p} :
           /\ pc[q] = "create_new" => reg[q].ip # i
           /\ lock[i] = q => dir'[i] = dir[i]
           /\ dsk'[i].type = dsk[i].type \/ (reg[q].dp # i /\ reg[q].ip # i),
         CacheInv',
         DiskOK(dsk', dir', Owe'), Knows(dsk', dir', ref', l, r), \A i \in T : UseOK(i)'
  PROVE  FsInv'
<1>1. \A q \in Procs : /\ pc'[q] = IF q = p THEN l ELSE pc[q]
                       /\ reg'[q] = IF q = p THEN r ELSE reg[q]
  BY ReadyFacts, StepOf
<1>2. CallInv'
  <2>1. \A i \in Inums \ T : /\ dsk'[i] = dsk[i] /\ dir'[i] = dir[i]
                             /\ ref'[i] = ref[i] \/ ~Fresh(i)
    OBVIOUS
  <2>2. \A q \in Procs \ {p} : Knows(dsk', dir', ref', pc[q], reg[q])
    BY <2>1, OthersKeep
  <2>3. QED  BY <1>1, <2>2 DEF CallInv
<1>3. ASSUME NEW i \in Inums \ T PROVE UseOK(i)'
  <2>1. UseOK(i)
    BY ReadyFacts DEF UseInv
  <2>2. Fresh(i) => Fresh(i)'
    <3>1. \A q \in Procs : pc[q] = "create_new" /\ reg[q].ip = i =>
            pc'[q] = "create_new" /\ reg'[q].ip = i
      BY <1>1
    <3>2. QED  BY <3>1 DEF Fresh
  <2>3. dsk'[i] = dsk[i] /\ dir'[i] = dir[i]
    OBVIOUS
  <2>4. ASSUME dsk[i].type = "free", ref'[i] > 0
        PROVE  \E q \in Procs : pc'[q] = "iput_done" /\ reg'[q].put = i
    <3>1. ref[i] > 0
      <4>1. ref[i] \in Nat /\ ref'[i] \in Nat
        BY ReadyFacts DEF TypeOK, CacheInv
      <4>2. QED  BY <2>4, <4>1
    <3>2. PICK q \in Procs : pc[q] = "iput_done" /\ reg[q].put = i
      BY <2>1, <2>4, <3>1 DEF UseOK
    <3>3. q # p
      BY <2>4, <3>2
    <3>4. QED  BY <1>1, <3>2, <3>3
  <2>5. QED  BY <2>1, <2>2, <2>3, <2>4 DEF UseOK
<1>4. UseInv'
  BY <1>3 DEF UseInv
<1>5. panicked' # "broken"
  BY DEF Ready, FsInv
<1>6. QED  BY <1>2, <1>4, <1>5 DEF FsInv

\* The types after a step, and the debts.
LEMMA AfterFacts ==
  ASSUME CacheInv'
  PROVE  dsk' \in Inodes /\ dir' \in Dirs /\ Owe' \in Debts
<1>1. TypeOK'
  BY DEF CacheInv
<1>2. dsk' \in Inodes /\ dir' \in Dirs
  BY <1>1 DEF TypeOK, Inodes, Dirs
<1>3. Owe' \in Debts
  BY <1>1 DEF TypeOK, Reg, Owe, Owes, Debts
<1>4. QED  BY <1>2, <1>3

LEMMA OweStep ==
  ASSUME TypeOK, NEW p \in Procs, NEW l, NEW r, Goto(p, l, r)
  PROVE  /\ Owe'[p] = Owes(l, r) /\ Owe[p] = Owes(pc[p], reg[p])
         /\ SameBut(Procs, Owe, Owe', p)
         /\ Owes(l, r) = Owes(pc[p], reg[p]) => Owe' = Owe
<1>1. \A q \in Procs : /\ pc'[q] = IF q = p THEN l ELSE pc[q]
                       /\ reg'[q] = IF q = p THEN r ELSE reg[q]
  BY StepOf
<1>2. \A q \in Procs : Owe'[q] = IF q = p THEN Owes(l, r) ELSE Owe[q]
  BY <1>1 DEF Owe, Owes, Linking
<1>3. Owe[p] = Owes(pc[p], reg[p])
  BY DEF Owe
<1>4. Owes(l, r) = Owes(pc[p], reg[p]) => \A q \in Procs : Owe'[q] = Owe[q]
  BY <1>2, <1>3
<1>5. (\A q \in Procs : Owe'[q] = Owe[q]) => Owe' = Owe
  BY DEF Owe
<1>6. QED  BY <1>2, <1>3, <1>4, <1>5 DEF SameBut

\* A step that leaves the disk alone.
LEMMA QuietFs ==
  ASSUME Ready, CacheInv', NEW p \in Procs, NEW l, NEW r, Goto(p, l, r),
         UNCHANGED <<dsk, dir, panicked>>,
         pc[p] # "create_new", l # "create_new",
         Owes(l, r) = Owes(pc[p], reg[p]),
         Knows(dsk, dir, ref, l, r),
         \A i \in Inums :
           /\ \/ ref'[i] = ref[i]
              \/ ~Fresh(i) /\ (dsk[i].type = "free" => ref'[i] <= ref[i])
           /\ dsk[i].type # "free" /\ dsk[i].nlink = 0 /\ valid[i] => valid'[i]
           /\ pc[p] = "iput_done" /\ reg[p].put = i => ref'[i] = 0
  PROVE  FsInv'
<1>1. DiskOK(dsk', dir', Owe')
  <2>1. Owe' = Owe
    BY ReadyFacts, OweStep
  <2>2. QED  BY <2>1, ReadyFacts
<1>2. Knows(dsk', dir', ref', l, r)
  BY DEF Knows
<1> DEFINE T == {}
<1>3. T \in SUBSET Inums
  OBVIOUS
<1>4. \A i \in Inums \ T :
        /\ dsk'[i] = dsk[i] /\ dir'[i] = dir[i]
        /\ \/ ref'[i] = ref[i]
           \/ ~Fresh(i) /\ (dsk[i].type = "free" => ref'[i] <= ref[i])
        /\ dsk[i].type # "free" /\ dsk[i].nlink = 0 /\ valid[i] => valid'[i]
        /\ pc[p] = "create_new" => reg[p].ip # i
        /\ pc[p] = "iput_done" /\ reg[p].put = i => ref'[i] = 0
  OBVIOUS
<1>5. /\ \A i \in T : UseOK(i)'
      /\ \A i \in T : \A q \in Procs \ {p} :
           /\ pc[q] = "create_new" => reg[q].ip # i
           /\ lock[i] = q => dir'[i] = dir[i]
           /\ dsk'[i].type = dsk[i].type \/ (reg[q].dp # i /\ reg[q].ip # i)
  OBVIOUS
<1> HIDE DEF T
<1>6. QED  BY <1>1, <1>2, <1>3, <1>4, <1>5, FsStep

\* The same outside of iput() and without a new reference.
LEMMA PlainFs ==
  ASSUME Ready, CacheInv', NEW p \in Procs, NEW l, NEW r, Goto(p, l, r),
         UNCHANGED <<dsk, dir, panicked, ref>>,
         pc[p] \notin {"create_new", "iput_done"}, l # "create_new",
         Owes(l, r) = Owes(pc[p], reg[p]),
         Knows(dsk, dir, ref, l, r),
         \A i \in Inums : valid[i] => valid'[i]
  PROVE  FsInv'
<1>1. \A i \in Inums :
        /\ \/ ref'[i] = ref[i]
           \/ ~Fresh(i) /\ (dsk[i].type = "free" => ref'[i] <= ref[i])
        /\ dsk[i].type # "free" /\ dsk[i].nlink = 0 /\ valid[i] => valid'[i]
        /\ pc[p] = "iput_done" /\ reg[p].put = i => ref'[i] = 0
  OBVIOUS
<1>2. UNCHANGED <<dsk, dir, panicked>>
  OBVIOUS
<1>3. QED  BY <1>1, <1>2, QuietFs

\* The same with iget() of an inode that is in use.
LEMMA GetFs ==
  ASSUME Ready, CacheInv', NEW p \in Procs, NEW l, NEW r, Goto(p, l, r),
         UNCHANGED <<dsk, dir, panicked>>,
         pc[p] \notin {"create_new", "iput_done"}, l # "create_new",
         Owes(l, r) = Owes(pc[p], reg[p]),
         Knows(dsk, dir, ref, l, r),
         \A i \in Inums : valid[i] => valid'[i],
         NEW n \in Inums, iget(n), dsk[n].type # "free", ~Fresh(n)
  PROVE  FsInv'
<1>1. \A i \in Inums : ref'[i] = IF i = n THEN ref[i] + 1 ELSE ref[i]
  BY ReadyFacts DEF iget, TypeOK
<1>2. \A i \in Inums :
        /\ \/ ref'[i] = ref[i]
           \/ ~Fresh(i) /\ (dsk[i].type = "free" => ref'[i] <= ref[i])
        /\ dsk[i].type # "free" /\ dsk[i].nlink = 0 /\ valid[i] => valid'[i]
        /\ pc[p] = "iput_done" /\ reg[p].put = i => ref'[i] = 0
  BY <1>1
<1>3. QED  BY <1>2, QuietFs

\* A call goes on with iput() of pointer x and then at l.
LEMMA PutFs ==
  ASSUME Ready, CacheInv', NEW p \in Procs,
         pc[p] \notin Iputs \cup {"create_new"},
         NEW x \in {"cur", "dp", "ip"},
         NEW l \in Labels \ {"create_new", "unlink_ip"},
         GotoIput(p, reg[p], x, l),
         UNCHANGED <<dsk, dir, panicked, ref>>,
         \A i \in Inums : valid[i] => valid'[i],
         l = "user" => Owe[p] = None,
         l # "user" => Owes("iput", Going(reg[p], x, l)) = Owe[p]
  PROVE  FsInv'
<1> DEFINE s == Going(reg[p], x, l)
<1>1. Goto(p, "iput", s)
  BY DEF GotoIput, Going
<1>2. reg[p] \in Reg /\ l \in Labels /\ Knows(dsk, dir, ref, pc[p], reg[p])
      /\ Owe[p] = Owes(pc[p], reg[p])
  BY ReadyFacts DEF TypeOK, CallInv, Owe
<1>3. Goes(s, reg[p], x, l)
  BY <1>2, GoingFields
<1> HIDE DEF s
<1>4. Owes("iput", s) = Owes(pc[p], reg[p])
  <2>1. CASE l = "user"
    <3>1. s.call = None
      BY <1>3, <2>1 DEF Goes
    <3>2. s.call \notin {"link", "unlink"}
      BY <3>1, InodeAssumption DEF CallNames
    <3>3. Owes("iput", s) = None
      BY <3>2 DEF Owes, Linking
    <3>4. QED  BY <1>2, <2>1, <3>3
  <2>2. CASE l # "user"  BY <1>2, <2>2 DEF s
  <2>3. QED  BY <2>1, <2>2
<1>5. Knows(dsk, dir, ref, "iput", s)
  <2>1. s.dp # None => s.dp = reg[p].dp
    BY <1>3 DEF Goes
  <2>2. Linking(s) /\ s.ip # None => Linking(reg[p]) /\ s.ip = reg[p].ip
    BY <1>3 DEF Goes, Linking
  <2>3. s.ret = l
    BY <1>3 DEF Goes
  <2>4. QED  BY <1>2, <2>1, <2>2, <2>3 DEF Knows, Iputs
<1>6. QED  BY <1>1, <1>4, <1>5, PlainFs DEF Iputs

\* The debt of a call outside of iput().
LEMMA OweAt ==
  ASSUME NEW l, NEW r, r.ret = None
  PROVE  Owes(l, r) = IF \/ Linking(r) /\ l # "link_done"
                         \/ r.call = "unlink" /\ l = "unlink_dec"
                      THEN r.ip ELSE None
BY InodeAssumption DEF Owes

\* A call outside of iput().
LEMMA CallFacts ==
  ASSUME Ready, NEW p \in Procs, pc[p] \notin Iputs
  PROVE  /\ reg[p] \in Reg /\ reg[p].ret = None /\ reg[p].put = None
         /\ At(p) = pc[p] /\ Shape(pc[p], reg[p])
         /\ Knows(dsk, dir, ref, pc[p], reg[p])
         /\ Owe[p] = Owes(pc[p], reg[p])
         /\ Owe[p] = IF \/ Linking(reg[p]) /\ pc[p] # "link_done"
                        \/ reg[p].call = "unlink" /\ pc[p] = "unlink_dec"
                     THEN reg[p].ip ELSE None
<1>1. Knows(dsk, dir, ref, pc[p], reg[p])
  BY ReadyFacts DEF CallInv
<1>2. reg[p].ret = None
  BY <1>1 DEF Knows
<1>3. Owe[p] = Owes(pc[p], reg[p])
  BY DEF Owe
<1>4. QED  BY <1>1, <1>2, <1>3, OweAt, CallState DEF Ready

\* ilock() keeps what is in the cache.
LEMMA IlockValid ==
  ASSUME NEW j, ilock(j)
  PROVE  \A i \in Inums : valid[i] => valid'[i]
BY DEF ilock, Locked

\* ilock() by a call of one of its inodes.
LEMMA IlockFacts ==
  ASSUME Ready, NEW p \in Procs, NEW x \in {"cur", "dp", "ip"}, reg[p][x] # None,
         CanLock(reg[p][x])
  PROVE  LET i == reg[p][x] IN
         /\ i \in Inums /\ lock[i] = None /\ Load(i) = dsk[i]
         /\ dsk[i].type # "free" /\ ref[i] > 0 /\ ~Freeing(i)
         /\ x # "ip" \/ pc[p] # "create_new" => ~Fresh(i)
<1> DEFINE i == reg[p][x]
<1>1. x \in Pointers /\ x # "put"
  BY DEF Pointers
<1>2. /\ i \in Inums /\ dsk[i].type # "free" /\ ref[i] > 0 /\ ~Freeing(i)
      /\ x # "ip" \/ pc[p] # "create_new" => ~Fresh(i)
  BY <1>1, RegFacts
<1>3. Load(i) = dsk[i]
  BY <1>2, ReadyFacts, LoadedIsDisk
<1>4. lock[i] = None
  BY DEF CanLock
<1>5. QED  BY <1>2, <1>3, <1>4

\* An inode that dirlookup() finds, in a directory the call has locked.
LEMMA LookedUp ==
  ASSUME Ready, NEW p \in Procs, NEW x \in {"cur", "dp"}, reg[p][x] # None,
         CanLock(reg[p][x]), dsk[reg[p][x]].type = "dir", At(p) # "unlink_dec",
         NEW n \in Names \cup Dots, dir[reg[p][x]][n] # None,
         n = ".." => dsk[reg[p][x]].nlink # 0
  PROVE  LET i == dir[reg[p][x]][n] IN
         i \in Inums /\ dsk[i].type # "free" /\ ~Fresh(i)
<1> DEFINE d == reg[p][x]
           i == dir[d][n]
<1>1. d \in Inums /\ lock[d] = None /\ dsk[d].type # "free" /\ ~Fresh(d)
  BY IlockFacts
<1>2. i \in Inums /\ DiskOK(dsk, dir, Owe) /\ dsk \in Inodes /\ dir \in Dirs /\ Owe \in Debts
  BY <1>1, ReadyFacts DEF Dirs
<1>3. CASE n \in Names
  <2>1. dsk[i].nlink > 0
    BY <1>1, <1>2, <1>3, LinkFacts
  <2>2. QED  BY <1>2, <2>1, CountedFacts
<1>4. CASE n = "."
  <2>1. i = d
    BY <1>1, <1>2, <1>4 DEF DiskOK, TreeOK
  <2>2. QED  BY <1>1, <2>1
<1>5. CASE n = ".."
  <2>1. LinkedIn(dir, d)
    BY <1>1, <1>5, LinkedDir
  <2>2. dsk[i].nlink > 0
    BY <1>1, <1>2, <1>5, <2>1, LinkFacts
  <2>3. QED  BY <1>2, <2>2, CountedFacts
<1>6. QED  BY <1>3, <1>4, <1>5 DEF Dots

-----------------------------------------------------------------------------
(***************************************************************************)
(* The actions that leave the disk alone.                                  *)
(***************************************************************************)

\* iget() of where a path begins.
LEMMA StartFacts ==
  ASSUME Ready, NEW p \in Procs, NEW path \in Paths
  PROVE  LET n == Start(p, path) IN
         n \in Inums /\ dsk[n].type # "free" /\ ~Fresh(n)
<1>1. Root \in Inums /\ dsk[Root].type # "free" /\ ~Fresh(Root)
  BY ReadyFacts, RootFacts, CountedFacts
<1>2. cwd[p] \in Inums /\ dsk[cwd[p]].type # "free" /\ ~Fresh(cwd[p])
  <2>1. cwd[p] \in Inums /\ "cwd" \in Places /\ Pts[p]["cwd"] = cwd[p]
    BY ReadyFacts, PtsType DEF TypeOK, Places
  <2>2. QED  BY <2>1, PointerFacts
<1>3. QED  BY <1>1, <1>2 DEF Start

LEMMA BeginFs ==
  ASSUME Ready, CacheInv', NEW p \in Procs, NEW c \in CallNames, NEW path \in Paths,
         Begin(p, c, path)
  PROVE  FsInv'
<1> DEFINE n == Start(p, path)
           t == path.elems
           w == Wanted(c)
           s == [Blank EXCEPT !.call = c, !.path = t, !.want = w, !.cur = n]
<1>1. /\ pc[p] = "user" /\ iget(n) /\ Goto(p, "namex", s)
      /\ UNCHANGED <<dsk, dir, panicked, valid>>
  BY DEF Begin, diskVars
<1>2. Owe[p] = None /\ Owe[p] = Owes(pc[p], reg[p])
  <2>1. pc[p] \notin Iputs /\ Shape(pc[p], reg[p])
    BY <1>1, CallFacts DEF Iputs
  <2>2. reg[p].call = None
    BY <1>1, <2>1 DEF Shape
  <2>3. QED  BY <1>1, <2>1, <2>2, CallFacts, InodeAssumption DEF Linking, CallNames
<1>3. s.ret = None /\ s.dp = None /\ s.ip = None
  <2> HIDE DEF n, t, w
  <2>1. QED  BY DEF Blank
<1> HIDE DEF s
<1>4. Owes("namex", s) = Owes(pc[p], reg[p])
  BY <1>2, <1>3 DEF Owes
<1>5. Knows(dsk, dir, ref, "namex", s)
  BY <1>3 DEF Knows, Iputs
<1>6. n \in Inums /\ dsk[n].type # "free" /\ ~Fresh(n)
  BY StartFacts
<1> HIDE DEF n
<1>7. QED  BY <1>1, <1>4, <1>5, <1>6, GetFs

\* namex() returns nothing.
LEMMA NotFoundFs ==
  ASSUME Ready, CacheInv', NEW p \in Procs, pc[p] = "namex",
         GotoIput(p, reg[p], "cur", NotFound(reg[p])),
         UNCHANGED <<dsk, dir, panicked, ref>>,
         \A i \in Inums : valid[i] => valid'[i]
  PROVE  FsInv'
<1> DEFINE l == NotFound(reg[p])
<1>1. /\ pc[p] \notin Iputs \cup {"create_new"}
      /\ l \in Labels \ {"create_new", "unlink_ip"}
  BY DEF Iputs, NotFound, Labels, WithIp
<1>2. l = "user" => Owe[p] = None
  BY <1>1, CallFacts DEF NotFound, Linking
<1>3. ASSUME l # "user" PROVE Owes("iput", Going(reg[p], "cur", l)) = Owe[p]
  <2> DEFINE s == Going(reg[p], "cur", l)
  <2>1. Goes(s, reg[p], "cur", l)
    BY <1>1, CallFacts, GoingFields
  <2> HIDE DEF s
  <2>2. l = "link_bad" /\ Linking(reg[p])
    BY <1>3 DEF NotFound, Linking
  <2>3. Owe[p] = reg[p].ip
    BY <1>1, <2>2, CallFacts
  <2>4. Owes("iput", s) = reg[p].ip
    BY <2>1, <2>2 DEF Goes, Owes, Linking
  <2>5. QED  BY <2>3, <2>4 DEF s
<1> HIDE DEF l
<1>4. GotoIput(p, reg[p], "cur", l)
  BY DEF l
<1>5. QED  BY <1>1, <1>2, <1>3, <1>4, PutFs

\* namex() meets a name that is not there, or no directory.
LEMMA NamexFailsFs ==
  ASSUME Ready, CacheInv', NEW p \in Procs, NamexFails(p)
  PROVE  FsInv'
<1>1. /\ pc[p] = "namex" /\ ilock(reg[p].cur)
      /\ GotoIput(p, reg[p], "cur", NotFound(reg[p]))
      /\ UNCHANGED <<dsk, dir, panicked, ref>>
  BY DEF NamexFails, Visits, diskVars
<1>2. \A i \in Inums : valid[i] => valid'[i]
  BY <1>1, IlockValid
<1>3. QED  BY <1>1, <1>2, NotFoundFs

\* The path is used up.
LEMMA NamexEndFs ==
  ASSUME Ready, CacheInv', NEW p \in Procs, NamexEnd(p)
  PROVE  FsInv'
<1> DEFINE r == reg[p]
           s == [r EXCEPT !.ip = r.cur, !.cur = None]
<1>1. pc[p] = "namex" /\ UNCHANGED <<dsk, dir, panicked, ref, valid>>
  BY DEF NamexEnd, diskVars
<1>2. CASE r.want = "ip"
  <2>1. Goto(p, Found(r), s)
    BY <1>2 DEF NamexEnd
  <2>2. /\ pc[p] \notin Iputs /\ r \in Reg /\ r.ret = None /\ Shape("namex", r)
        /\ Owe[p] = Owes(pc[p], reg[p])
        /\ Owe[p] = IF \/ Linking(reg[p]) /\ pc[p] # "link_done"
                       \/ reg[p].call = "unlink" /\ pc[p] = "unlink_dec"
                    THEN reg[p].ip ELSE None
    BY <1>1, CallFacts DEF Iputs
  <2>3. r.call \in {"open", "chdir", "link"} /\ r.dp = None
    BY <1>2, <2>2 DEF Shape, CallNames, Creating, WithDp, HoldDp
  <2>4. Found(r) \in {"open", "chdir", "link"}
    BY <1>2, <2>3 DEF Found
  <2>5. /\ s.ret = None /\ s.dp = None /\ s.want = "ip" /\ s.call = r.call
    BY <1>2, <2>2, <2>3 DEF Reg
  <2> HIDE DEF s
  <2>6. Owes(Found(r), s) = None
    BY <2>3, <2>5, OweAt DEF Linking
  <2>7. Owe[p] = None
    BY <1>2, <2>2, <2>3 DEF Linking
  <2>8. Knows(dsk, dir, ref, Found(r), s)
    BY <2>4, <2>5 DEF Knows, Iputs, Linking
  <2> HIDE DEF r
  <2>9. Found(r) # "create_new"
    BY <2>4
  <2>10. QED  BY <1>1, <2>1, <2>2, <2>6, <2>7, <2>8, <2>9, PlainFs
<1>3. CASE r.want # "ip"
  <2>1. GotoIput(p, r, "cur", NotFound(r))
    BY <1>3 DEF NamexEnd
  <2>2. QED  BY <1>1, <2>1, NotFoundFs
<1>4. QED  BY <1>2, <1>3

\* nameiparent() stops at the last element, in a directory.
LEMMA NamexParentFs ==
  ASSUME Ready, CacheInv', NEW p \in Procs, NamexParent(p)
  PROVE  FsInv'
<1> DEFINE r == reg[p]
           n == Head(r.path)
           s == [r EXCEPT !.dp = r.cur, !.cur = None, !.name = n, !.path = <<>>]
<1>1. /\ pc[p] = "namex" /\ ilock(r.cur) /\ Load(r.cur).type = "dir" /\ r.want = "dp"
      /\ Goto(p, Found(r), s) /\ UNCHANGED <<dsk, dir, panicked, ref>>
  BY DEF NamexParent, Visits, AtParent, diskVars
<1>2. /\ pc[p] \notin Iputs /\ r \in Reg /\ r.ret = None /\ Shape("namex", r)
      /\ Knows(dsk, dir, ref, pc[p], reg[p])
      /\ Owe[p] = Owes(pc[p], reg[p])
      /\ Owe[p] = IF \/ Linking(reg[p]) /\ pc[p] # "link_done"
                     \/ reg[p].call = "unlink" /\ pc[p] = "unlink_dec"
                  THEN reg[p].ip ELSE None
  BY <1>1, CallFacts DEF Iputs
<1>3. Found(r) \in {"create", "link_dp", "unlink"}
  BY <1>1, <1>2 DEF Found, Shape, CallNames, Creating
<1>4. r["cur"] # None /\ CanLock(r["cur"])
  BY <1>1, <1>2 DEF Shape, ilock
<1>5. dsk[r.cur].type = "dir"
  <2>1. Load(r["cur"]) = dsk[r["cur"]]
    BY <1>4, IlockFacts
  <2>2. QED  BY <1>1, <2>1
<1>6. /\ s.ret = None /\ s.dp = r.cur /\ s.want = "dp" /\ s.call = r.call /\ s.ip = r.ip
  <2> HIDE DEF n
  <2>1. QED  BY <1>1, <1>2 DEF Reg
<1> HIDE DEF s
<1>7. Owes(Found(r), s) = Owe[p]
  <2>1. Linking(s) <=> Linking(r)
    BY <1>1, <1>6 DEF Linking
  <2>2. QED  BY <1>1, <1>2, <1>3, <1>6, <2>1, OweAt
<1>8. Knows(dsk, dir, ref, Found(r), s)
  <2>1. Linking(s) /\ s.ip # None => dsk[s.ip].type # "dir"
    BY <1>1, <1>2, <1>6 DEF Linking, Knows
  <2>2. QED  BY <1>3, <1>5, <1>6, <2>1 DEF Knows, Iputs
<1>9. \A i \in Inums : valid[i] => valid'[i]
  BY <1>1, IlockValid
<1>10. Found(r) # "create_new"
  BY <1>3
<1> HIDE DEF r
<1>11. QED  BY <1>1, <1>2, <1>7, <1>8, <1>9, <1>10, PlainFs

\* namex() goes on to the next element.
LEMMA NamexNextFs ==
  ASSUME Ready, CacheInv', Regular', NEW p \in Procs, NamexNext(p)
  PROVE  FsInv'
<1> DEFINE r == reg[p]
           d == r.cur
           n == Head(r.path)
           i == dir[d][n]
           t == Tail(r.path)
           s == [r EXCEPT !.put = d, !.cur = i, !.path = t, !.ret = "namex"]
<1>1. /\ pc[p] = "namex" /\ r.path # <<>> /\ ilock(d) /\ Load(d).type = "dir"
      /\ i # None /\ iget(i) /\ Goto(p, "iput", s)
      /\ strayed' = (strayed \/ (n = ".." /\ Load(d).nlink = 0))
      /\ UNCHANGED <<dsk, dir, panicked>>
  BY DEF NamexNext, Visits, Entry, diskVars
<1>2. /\ pc[p] \notin Iputs /\ r \in Reg /\ r.ret = None /\ Shape("namex", r)
      /\ At(p) = "namex"
      /\ Knows(dsk, dir, ref, pc[p], reg[p])
      /\ Owe[p] = Owes(pc[p], reg[p])
      /\ Owe[p] = IF \/ Linking(reg[p]) /\ pc[p] # "link_done"
                     \/ reg[p].call = "unlink" /\ pc[p] = "unlink_dec"
                  THEN reg[p].ip ELSE None
  BY <1>1, CallFacts DEF Iputs
<1>3. n \in Names \cup Dots
  BY <1>1, <1>2 DEF Reg
<1>4. r["cur"] # None /\ CanLock(r["cur"])
  BY <1>1, <1>2 DEF Shape, ilock
<1>5. Load(d) = dsk[d]
  <2>1. Load(r["cur"]) = dsk[r["cur"]]
    BY <1>4, IlockFacts
  <2>2. QED  BY <2>1
<1>6. n = ".." => dsk[d].nlink # 0
  BY <1>1, <1>5 DEF Regular
<1>7. i \in Inums /\ dsk[i].type # "free" /\ ~Fresh(i)
  <2>1. "cur" \in {"cur", "dp"} /\ dsk[r["cur"]].type = "dir"
        /\ dir[r["cur"]][n] # None /\ (n = ".." => dsk[r["cur"]].nlink # 0)
    BY <1>1, <1>5, <1>6
  <2>2. LET k == dir[r["cur"]][n] IN
        k \in Inums /\ dsk[k].type # "free" /\ ~Fresh(k)
    <3> HIDE DEF n
    <3>1. QED  BY <1>2, <1>3, <1>4, <2>1, LookedUp
  <2>3. QED  BY <2>2
<1>8. /\ s.ret = "namex" /\ s.dp = r.dp /\ s.want = r.want /\ s.call = r.call /\ s.ip = r.ip
  <2> HIDE DEF n, d, t, i
  <2>1. QED  BY <1>1, <1>2 DEF Reg
<1> HIDE DEF s, i
<1>9. Owes("iput", s) = Owe[p]
  <2>1. Linking(s) <=> Linking(r)
    BY <1>1, <1>8 DEF Linking
  <2>2. QED  BY <1>1, <1>2, <1>8, <2>1 DEF Owes
<1>10. Knows(dsk, dir, ref, "iput", s)
  <2>1. Linking(s) /\ s.ip # None => dsk[s.ip].type # "dir"
    BY <1>1, <1>2, <1>8 DEF Linking, Knows
  <2>2. s.dp # None => dsk[s.dp].type = "dir"
    BY <1>2, <1>8 DEF Knows
  <2>3. QED  BY <1>8, <2>1, <2>2 DEF Knows, Iputs
<1>11. \A k \in Inums : valid[k] => valid'[k]
  BY <1>1, IlockValid
<1> HIDE DEF r
<1>12. QED  BY <1>1, <1>2, <1>7, <1>9, <1>10, <1>11, GetFs

\* A call that owes nothing returns by way of iput().
LEMMA ReturnFs ==
  ASSUME Ready, CacheInv', NEW p \in Procs,
         pc[p] \notin Iputs \cup {"create_new", "unlink_dec"},
         Linking(reg[p]) => pc[p] = "link_done",
         NEW x \in {"cur", "dp", "ip"}, GotoIput(p, reg[p], x, "user"),
         UNCHANGED <<dsk, dir, panicked, ref>>,
         \A i \in Inums : valid[i] => valid'[i]
  PROVE  FsInv'
<1>1. Owe[p] = None
  BY CallFacts
<1>2. "user" \in Labels \ {"create_new", "unlink_ip"}
  BY DEF Labels
<1>3. QED  BY <1>1, <1>2, PutFs

\* The labels at which a call owes nothing.
LEMMA OwesNothing ==
  ASSUME Ready, NEW p \in Procs,
         pc[p] \in {"user", "open", "opened", "chdir", "create", "create_old",
                    "create_new", "created", "link", "link_done", "unlink",
                    "unlink_ip", "unlink_bad"}
  PROVE  /\ pc[p] \notin Iputs /\ pc[p] # "unlink_dec"
         /\ Linking(reg[p]) => pc[p] = "link_done"
         /\ Owe[p] = None /\ Owe[p] = Owes(pc[p], reg[p])
<1>1. pc[p] \notin Iputs /\ Shape(pc[p], reg[p])
  BY CallFacts DEF Iputs
<1>2. Linking(reg[p]) => pc[p] = "link_done"
  BY <1>1, InodeAssumption DEF Shape, Linking, CallNames, Creating
<1>3. QED  BY <1>1, <1>2, CallFacts

\* A call goes on without pointers but ip or put.
LEMMA AloneFs ==
  ASSUME Ready, CacheInv', NEW p \in Procs,
         pc[p] \in {"user", "open", "opened", "chdir", "create_old"},
         NEW l \in {"user", "opened", "iput"}, NEW s, Goto(p, l, s),
         s.call = None, s.dp = None,
         s.ret = IF l = "iput" THEN "user" ELSE None,
         UNCHANGED <<dsk, dir, panicked, ref>>,
         \A i \in Inums : valid[i] => valid'[i]
  PROVE  FsInv'
<1>1. Owe[p] = None /\ Owe[p] = Owes(pc[p], reg[p])
  BY OwesNothing
<1>2. ~Linking(s) /\ s.call # "unlink"
  BY InodeAssumption DEF Linking, CallNames
<1>3. Owes(l, s) = None
  BY <1>2 DEF Owes
<1>4. Knows(dsk, dir, ref, l, s)
  BY <1>2 DEF Knows, Iputs
<1>5. QED  BY <1>1, <1>3, <1>4, PlainFs

\* open() locks the inode.
LEMMA OpenFs ==
  ASSUME Ready, CacheInv', NEW p \in Procs, Open(p)
  PROVE  FsInv'
<1> DEFINE i == reg[p].ip
           s == [Blank EXCEPT !.ip = i]
<1>1. pc[p] = "open" /\ ilock(i) /\ UNCHANGED <<dsk, dir, panicked, ref>>
  BY DEF Open, diskVars
<1>2. \A k \in Inums : valid[k] => valid'[k]
  BY <1>1, IlockValid
<1>3. CASE Goto(p, "opened", s)
  <2>1. s.call = None /\ s.dp = None /\ s.ret = None
    BY DEF Blank
  <2> HIDE DEF s
  <2>2. QED  BY <1>1, <1>2, <1>3, <2>1, AloneFs
<1>4. CASE GotoIput(p, reg[p], "ip", "user")
  BY <1>1, <1>2, <1>4, OwesNothing, ReturnFs
<1>5. QED  BY <1>3, <1>4 DEF Open

\* open() finds a struct file and a descriptor, or not.
LEMMA OpenFileFs ==
  ASSUME Ready, CacheInv', NEW p \in Procs, OpenFile(p)
  PROVE  FsInv'
<1>1. pc[p] = "opened" /\ UNCHANGED <<dsk, dir, panicked, ref, valid>>
  BY DEF OpenFile, diskVars
<1>2. CASE Goto(p, "user", Blank)
  <2>1. Blank.call = None /\ Blank.dp = None /\ Blank.ret = None
    BY DEF Blank
  <2>2. QED  BY <1>1, <1>2, <2>1, AloneFs
<1>3. CASE GotoIput(p, reg[p], "ip", "user")
  BY <1>1, <1>3, OwesNothing, ReturnFs
<1>4. QED  BY <1>2, <1>3 DEF OpenFile

\* close()
LEMMA CloseFs ==
  ASSUME Ready, CacheInv', NEW p \in Procs, Close(p)
  PROVE  FsInv'
<1> DEFINE i == fd[p]
           s == [Blank EXCEPT !.put = i, !.ret = "user"]
<1>1. /\ pc[p] = "user" /\ Goto(p, "iput", s)
      /\ UNCHANGED <<dsk, dir, panicked, ref, valid>>
  BY DEF Close, diskVars
<1>2. s.call = None /\ s.dp = None /\ s.ret = "user"
  <2> HIDE DEF i
  <2>1. QED  BY DEF Blank
<1> HIDE DEF s
<1>3. QED  BY <1>1, <1>2, AloneFs

\* chdir() has the new working directory, or no directory.
LEMMA ChdirFs ==
  ASSUME Ready, CacheInv', NEW p \in Procs, Chdir(p)
  PROVE  FsInv'
<1> DEFINE i == cwd[p]
           s == [Blank EXCEPT !.put = i, !.ret = "user"]
<1>1. pc[p] = "chdir" /\ ilock(reg[p].ip) /\ UNCHANGED <<dsk, dir, panicked, ref>>
  BY DEF Chdir, diskVars
<1>2. \A k \in Inums : valid[k] => valid'[k]
  BY <1>1, IlockValid
<1>3. CASE Goto(p, "iput", s)
  <2>1. s.call = None /\ s.dp = None /\ s.ret = "user"
    <3> HIDE DEF i
    <3>1. QED  BY DEF Blank
  <2> HIDE DEF s
  <2>2. QED  BY <1>1, <1>2, <1>3, <2>1, AloneFs
<1>4. CASE GotoIput(p, reg[p], "ip", "user")
  BY <1>1, <1>2, <1>4, OwesNothing, ReturnFs
<1>5. QED  BY <1>3, <1>4 DEF Chdir

\* create() locks the inode that was there.
LEMMA CreateOldFs ==
  ASSUME Ready, CacheInv', NEW p \in Procs, CreateOld(p)
  PROVE  FsInv'
<1> DEFINE i == reg[p].ip
           s == [Blank EXCEPT !.ip = i]
<1>1. pc[p] = "create_old" /\ ilock(i) /\ UNCHANGED <<dsk, dir, panicked, ref>>
  BY DEF CreateOld, diskVars
<1>2. \A k \in Inums : valid[k] => valid'[k]
  BY <1>1, IlockValid
<1>3. CASE Goto(p, "opened", s)
  <2>1. s.call = None /\ s.dp = None /\ s.ret = None
    BY DEF Blank
  <2> HIDE DEF s
  <2>2. QED  BY <1>1, <1>2, <1>3, <2>1, AloneFs
<1>4. CASE GotoIput(p, reg[p], "ip", "user")
  BY <1>1, <1>2, <1>4, OwesNothing, ReturnFs
<1>5. QED  BY <1>3, <1>4 DEF CreateOld

\* mkdir() and mknod() return.
LEMMA CreatedFs ==
  ASSUME Ready, CacheInv', NEW p \in Procs, Created(p)
  PROVE  FsInv'
<1>1. /\ pc[p] = "created" /\ GotoIput(p, reg[p], "ip", "user")
      /\ UNCHANGED <<dsk, dir, panicked, ref, valid>>
  BY DEF Created, diskVars
<1>2. QED  BY <1>1, OwesNothing, ReturnFs

\* link() of a directory fails.
LEMMA LinkDirectoryFs ==
  ASSUME Ready, CacheInv', NEW p \in Procs, LinkDirectory(p)
  PROVE  FsInv'
<1>1. /\ pc[p] = "link" /\ ilock(reg[p].ip) /\ GotoIput(p, reg[p], "ip", "user")
      /\ UNCHANGED <<dsk, dir, panicked, ref>>
  BY DEF LinkDirectory, diskVars
<1>2. QED  BY <1>1, OwesNothing, ReturnFs, IlockValid

\* link() returns.
LEMMA LinkDoneFs ==
  ASSUME Ready, CacheInv', NEW p \in Procs, LinkDone(p)
  PROVE  FsInv'
<1>1. /\ pc[p] = "link_done" /\ GotoIput(p, reg[p], "ip", "user")
      /\ UNCHANGED <<dsk, dir, panicked, ref, valid>>
  BY DEF LinkDone, diskVars
<1>2. QED  BY <1>1, OwesNothing, ReturnFs

\* unlink() fails, with the directory locked
LEMMA UnlinkFailsFs ==
  ASSUME Ready, CacheInv', NEW p \in Procs, UnlinkFails(p)
  PROVE  FsInv'
<1>1. /\ pc[p] = "unlink" /\ ilock(reg[p].dp) /\ GotoIput(p, reg[p], "dp", "user")
      /\ UNCHANGED <<dsk, dir, panicked, ref>>
  BY DEF UnlinkFails, diskVars
<1>2. QED  BY <1>1, OwesNothing, ReturnFs, IlockValid

\* or after it has found a directory that is not empty.
LEMMA UnlinkBadFs ==
  ASSUME Ready, CacheInv', NEW p \in Procs, UnlinkBad(p)
  PROVE  FsInv'
<1>1. /\ pc[p] = "unlink_bad" /\ GotoIput(p, reg[p], "dp", "user")
      /\ UNCHANGED <<dsk, dir, panicked, ref, valid>>
  BY DEF UnlinkBad, diskVars
<1>2. QED  BY <1>1, OwesNothing, ReturnFs

\* That directory goes to iput() first.
LEMMA UnlinkNotEmptyFs ==
  ASSUME Ready, CacheInv', NEW p \in Procs, UnlinkNotEmpty(p)
  PROVE  FsInv'
<1> DEFINE s == Going(reg[p], "ip", "unlink_bad")
<1>1. /\ pc[p] = "unlink_ip" /\ ilock(reg[p].ip) /\ GotoIput(p, reg[p], "ip", "unlink_bad")
      /\ UNCHANGED <<dsk, dir, panicked, ref>>
  BY DEF UnlinkNotEmpty, diskVars
<1>2. pc[p] \notin Iputs \cup {"create_new"} /\ Owe[p] = None /\ reg[p] \in Reg
      /\ reg[p].call = "unlink"
  BY <1>1, OwesNothing, CallFacts DEF Shape
<1>3. "unlink_bad" \in Labels \ {"create_new", "unlink_ip"}
  BY DEF Labels, WithDp, HoldDp
<1>4. Goes(s, reg[p], "ip", "unlink_bad")
  BY <1>2, <1>3, GoingFields
<1> HIDE DEF s
<1>5. Owes("iput", s) = None
  BY <1>2, <1>4 DEF Owes, Goes, Linking
<1>6. QED  BY <1>1, <1>2, <1>3, <1>5, PutFs, IlockValid DEF s

\* create() finds the name.
LEMMA CreateFoundFs ==
  ASSUME Ready, CacheInv', Regular', NEW p \in Procs, CreateFound(p)
  PROVE  FsInv'
<1> DEFINE r == reg[p]
           d == r.dp
           i == dir[d][r.name]
           R == [r EXCEPT !.ip = i, !.name = None]
           s == Going(R, "dp", "create_old")
<1>1. /\ pc[p] = "create" /\ ilock(d) /\ Load(d).type = "dir"
      /\ i # None /\ iget(i) /\ Goto(p, "iput", s)
      /\ strayed' = (strayed \/ (r.name = ".." /\ Load(d).nlink = 0))
      /\ UNCHANGED <<dsk, dir, panicked>>
  BY DEF CreateFound, LooksInto, Target, GotoIput, Going, diskVars
<1>2. /\ Owe[p] = None /\ Owe[p] = Owes(pc[p], reg[p]) /\ pc[p] \notin Iputs
      /\ r \in Reg /\ Shape("create", r) /\ At(p) = "create"
  BY <1>1, OwesNothing, CallFacts
<1>3. r.name \in Names \cup Dots /\ r.dp # None /\ r.call \in Creating
  BY <1>2 DEF Reg, Shape, WithDp
<1>4. r["dp"] # None /\ CanLock(r["dp"])
  BY <1>1, <1>3 DEF ilock
<1>5. Load(d) = dsk[d]
  <2>1. Load(r["dp"]) = dsk[r["dp"]]
    BY <1>4, IlockFacts
  <2>2. QED  BY <2>1
<1>6. r.name = ".." => dsk[d].nlink # 0
  BY <1>1, <1>5 DEF Regular
<1>7. i \in Inums /\ dsk[i].type # "free" /\ ~Fresh(i)
  <2>1. "dp" \in {"cur", "dp"} /\ dsk[r["dp"]].type = "dir"
        /\ dir[r["dp"]][r.name] # None /\ (r.name = ".." => dsk[r["dp"]].nlink # 0)
    BY <1>1, <1>5, <1>6
  <2>2. LET k == dir[r["dp"]][r.name] IN
        k \in Inums /\ dsk[k].type # "free" /\ ~Fresh(k)
    BY <1>2, <1>3, <1>4, <2>1, LookedUp
  <2>3. QED  BY <2>2
<1>8. R \in Reg /\ R.call = r.call
  <2> HIDE DEF i
  <2>1. QED  BY <1>2, <1>7 DEF Reg
<1>9. /\ s.ret = "create_old" /\ s.dp = None /\ s.call = r.call
  <2> HIDE DEF R
  <2>1. "create_old" \in Labels
    BY DEF Labels, WithIp
  <2>2. Goes(s, R, "dp", "create_old")
    BY <1>8, <2>1, GoingFields
  <2>3. QED  BY <1>8, <2>2 DEF Goes
<1> HIDE DEF s, i
<1>10. ~Linking(s) /\ s.call # "unlink"
  BY <1>3, <1>9 DEF Linking, Creating
<1>11. Owes("iput", s) = Owes(pc[p], reg[p])
  BY <1>2, <1>10 DEF Owes
<1>12. Knows(dsk, dir, ref, "iput", s)
  BY <1>9, <1>10 DEF Knows, Iputs
<1>13. \A k \in Inums : valid[k] => valid'[k]
  BY <1>1, IlockValid
<1>14. QED  BY <1>1, <1>2, <1>7, <1>11, <1>12, <1>13, GetFs

\* unlink() finds the name.
LEMMA UnlinkFoundFs ==
  ASSUME Ready, CacheInv', Regular', NEW p \in Procs, UnlinkFound(p)
  PROVE  FsInv'
<1> DEFINE r == reg[p]
           d == r.dp
           i == dir[d][r.name]
           s == [r EXCEPT !.ip = i]
<1>1. /\ pc[p] = "unlink" /\ ilock(d) /\ Load(d).type = "dir" /\ r.name \notin Dots
      /\ i # None /\ iget(i) /\ Goto(p, "unlink_ip", s)
      /\ UNCHANGED <<dsk, dir, panicked>>
  BY DEF UnlinkFound, LooksInto, Target, diskVars
<1>2. /\ Owe[p] = None /\ Owe[p] = Owes(pc[p], reg[p]) /\ pc[p] \notin Iputs
      /\ r \in Reg /\ Shape("unlink", r) /\ At(p) = "unlink" /\ r.ret = None
      /\ Knows(dsk, dir, ref, pc[p], r)
  BY <1>1, OwesNothing, CallFacts
<1>3. r.name \in Names /\ r.dp # None /\ r.call = "unlink"
  BY <1>1, <1>2 DEF Reg, Shape, WithDp
<1>4. r["dp"] # None /\ CanLock(r["dp"])
  BY <1>1, <1>3 DEF ilock
<1>5. Load(d) = dsk[d]
  <2>1. Load(r["dp"]) = dsk[r["dp"]]
    BY <1>4, IlockFacts
  <2>2. QED  BY <2>1
<1>6. i \in Inums /\ dsk[i].type # "free" /\ ~Fresh(i)
  <2>1. "dp" \in {"cur", "dp"} /\ dsk[r["dp"]].type = "dir"
        /\ dir[r["dp"]][r.name] # None /\ r.name # ".."
        /\ r.name \in Names \cup Dots
    BY <1>1, <1>3, <1>5 DEF Dots
  <2>2. LET k == dir[r["dp"]][r.name] IN
        k \in Inums /\ dsk[k].type # "free" /\ ~Fresh(k)
    BY <1>2, <1>4, <2>1, LookedUp
  <2>3. QED  BY <2>2
<1>7. /\ s.ret = None /\ s.dp = d /\ s.call = "unlink" /\ s.name = r.name /\ s.ip = i
  <2> HIDE DEF i
  <2>1. QED  BY <1>2, <1>3 DEF Reg
<1>8. s.name = r.name /\ dir[s.dp][s.name] = s.ip
  BY <1>7
<1> HIDE DEF s, i
<1>9. ~Linking(s)
  BY <1>7 DEF Linking
<1>10. Owes("unlink_ip", s) = Owes(pc[p], reg[p])
  BY <1>2, <1>7, <1>9, OweAt
<1>11. Knows(dsk, dir, ref, "unlink_ip", s)
  BY <1>1, <1>5, <1>7, <1>8, <1>9 DEF Knows, Iputs
<1>12. \A k \in Inums : valid[k] => valid'[k]
  BY <1>1, IlockValid
<1>13. QED  BY <1>1, <1>2, <1>6, <1>10, <1>11, <1>12, GetFs

\* What is on its way to iput() is not new.
LEMMA PutFacts ==
  ASSUME Ready, NEW p \in Procs, pc[p] \in Iputs
  PROVE  LET i == reg[p].put IN
         /\ i \in Inums /\ ref[i] > 0 /\ ~Fresh(i)
         /\ \A q \in Procs, x \in {"cur", "dp", "ip"} : reg[q][x] = i => ref[i] > 1
<1> DEFINE i == reg[p].put
<1>1. TypeOK /\ RefInv /\ CallInv
  BY ReadyFacts
<1>2. i \in Inums
  BY ReadyFacts DEF TypeOK, Reg, ShapeInv, ShapeOK
<1>3. "put" \in Places /\ Pts[p]["put"] = i
  BY <1>1, PtsType DEF Places, Pointers
<1>4. ASSUME NEW q \in Procs, NEW x \in {"cur", "dp", "ip"}, reg[q][x] = i
      PROVE  ref[i] > 1
  <2>1. x \in Places /\ Pts[q][x] = i /\ x # "put"
    BY <1>1, <1>4, PtsType DEF Places, Pointers
  <2>2. QED  BY <1>1, <1>2, <1>3, <2>1, TwoRefs
<1>5. ASSUME Fresh(i) PROVE FALSE
  <2>1. PICK q \in Procs : pc[q] = "create_new" /\ reg[q].ip = i
    BY <1>5 DEF Fresh
  <2>2. ref[i] = 1
    BY <1>1, <2>1 DEF CallInv, Knows
  <2>3. "ip" \in {"cur", "dp", "ip"} /\ reg[q]["ip"] = i
    BY <2>1
  <2>4. ref[i] > 1
    BY <1>4, <2>3
  <2>5. QED  BY <2>2, <2>4
<1>6. ref[i] > 0
  BY <1>1, <1>2, <1>3, OneRef
<1>7. QED  BY <1>2, <1>4, <1>5, <1>6

\* iput() drops its reference and the call goes on.
LEMMA DroppedFs ==
  ASSUME Ready, CacheInv', NEW p \in Procs, pc[p] \in {"iput", "iput_done"},
         Dropped(reg[p].put), Return(p),
         UNCHANGED <<dsk, dir, panicked>>,
         pc[p] = "iput_done" => ref[reg[p].put] = 1,
         \A i \in Inums :
           dsk[i].type # "free" /\ dsk[i].nlink = 0 /\ valid[i] => valid'[i]
  PROVE  FsInv'
<1> DEFINE i == reg[p].put
           l == reg[p].ret
           s == [reg[p] EXCEPT !.put = None, !.ret = None]
<1>1. pc[p] \in Iputs /\ Goto(p, l, s) /\ reg[p] \in Reg
  BY ReadyFacts DEF Return, Iputs, TypeOK
<1>2. i \in Inums /\ ref[i] > 0 /\ ~Fresh(i)
  BY <1>1, PutFacts
<1>3. \A k \in Inums : ref'[k] = IF k = i THEN ref[k] - 1 ELSE ref[k]
  BY <1>2, ReadyFacts DEF Dropped, TypeOK
<1>4. Knows(dsk, dir, ref, pc[p], reg[p]) /\ l \notin Iputs
  BY <1>1, ReadyFacts DEF CallInv, ShapeInv, ShapeOK, Shape, Place
<1>5. /\ s.ret = None /\ s.dp = reg[p].dp /\ s.ip = reg[p].ip
      /\ s.call = reg[p].call /\ s.want = reg[p].want
  BY <1>1 DEF Reg
<1> HIDE DEF s
<1>6. Linking(s) <=> Linking(reg[p])
  BY <1>5 DEF Linking
<1>7. Owes(l, s) = Owes(pc[p], reg[p])
  BY <1>1, <1>5, <1>6, InodeAssumption DEF Owes, Iputs
<1>8. l # "create_new" /\ l # "unlink_ip"
  BY <1>1, <1>4 DEF Knows
<1>9. Knows(dsk, dir, ref, l, s)
  BY <1>4, <1>5, <1>6, <1>8 DEF Knows
<1>10. \A k \in Inums :
         /\ \/ ref'[k] = ref[k]
            \/ ~Fresh(k) /\ (dsk[k].type = "free" => ref'[k] <= ref[k])
         /\ dsk[k].type # "free" /\ dsk[k].nlink = 0 /\ valid[k] => valid'[k]
         /\ pc[p] = "iput_done" /\ reg[p].put = k => ref'[k] = 0
  <2>1. \A k \in Inums : ref[k] \in Nat
    BY ReadyFacts DEF TypeOK
  <2>2. QED  BY <1>2, <1>3, <2>1
<1>11. pc[p] # "create_new"
  OBVIOUS
<1> HIDE DEF l
<1>12. QED  BY <1>1, <1>7, <1>8, <1>9, <1>10, <1>11, QuietFs

\* It was not the last, or the inode has links.
LEMMA IputFs ==
  ASSUME Ready, CacheInv', NEW p \in Procs, Iput(p)
  PROVE  FsInv'
<1> DEFINE i == reg[p].put
<1>1. /\ pc[p] = "iput" /\ ~LastReference(i) /\ Dropped(i) /\ Return(p)
      /\ valid' = IF ref[i] = 1 THEN [valid EXCEPT ![i] = FALSE] ELSE valid
      /\ UNCHANGED <<dsk, dir, panicked>>
  BY DEF Iput, diskVars
<1>2. ASSUME NEW k \in Inums, dsk[k].type # "free", dsk[k].nlink = 0, valid[k]
      PROVE  valid'[k]
  <2>1. mem[k] = dsk[k] /\ valid \in [Inums -> BOOLEAN]
    BY <1>2, ReadyFacts DEF MemInv, TypeOK
  <2>2. CASE k = i /\ ref[i] = 1
    BY <1>1, <1>2, <2>1, <2>2 DEF LastReference
  <2>3. CASE ~(k = i /\ ref[i] = 1)
    BY <1>1, <1>2, <2>1, <2>3
  <2>4. QED  BY <2>2, <2>3
<1>3. QED  BY <1>1, <1>2, DroppedFs

\* The inode was freed.
LEMMA IputDoneFs ==
  ASSUME Ready, CacheInv', NEW p \in Procs, IputDone(p)
  PROVE  FsInv'
<1> DEFINE i == reg[p].put
<1>1. /\ pc[p] = "iput_done" /\ Dropped(i) /\ Return(p)
      /\ valid' = [valid EXCEPT ![i] = FALSE]
      /\ UNCHANGED <<dsk, dir, panicked>>
  BY DEF IputDone, diskVars
<1>2. i \in Inums
  BY <1>1, PutFacts DEF Iputs
<1>3. ref[i] = 1 /\ valid[i] /\ mem[i].type = "free"
  BY <1>1, ReadyFacts DEF FreeInv, Frees
<1>4. dsk[i].type = "free" /\ valid \in [Inums -> BOOLEAN]
  BY <1>2, <1>3, ReadyFacts DEF MemInv, TypeOK
<1>5. \A k \in Inums :
        dsk[k].type # "free" /\ dsk[k].nlink = 0 /\ valid[k] => valid'[k]
  BY <1>1, <1>4
<1>6. QED  BY <1>1, <1>3, <1>5, DroppedFs

\* iput() finds the last reference to an inode without links.
LEMMA IputLastFs ==
  ASSUME Ready, CacheInv', NEW p \in Procs, IputLast(p)
  PROVE  FsInv'
<1>1. /\ pc[p] = "iput" /\ Goto(p, "itrunc", reg[p])
      /\ UNCHANGED <<dsk, dir, panicked, ref, valid>>
  BY DEF IputLast, diskVars
<1>2. Knows(dsk, dir, ref, pc[p], reg[p])
  BY ReadyFacts DEF CallInv
<1>3. Knows(dsk, dir, ref, "itrunc", reg[p])
  BY <1>1, <1>2 DEF Knows, Iputs
<1>4. Owes("itrunc", reg[p]) = Owes(pc[p], reg[p])
  BY <1>1 DEF Owes
<1>5. QED  BY <1>1, <1>3, <1>4, PlainFs

-----------------------------------------------------------------------------
(***************************************************************************)
(* The actions that write the disk.                                        *)
(***************************************************************************)

\* A name that is not in a directory is no dot.
LEMMA MissingName ==
  ASSUME Ready, NEW d \in Inums, dsk[d].type = "dir", ~Fresh(d),
         NEW n \in Names \cup Dots, dir[d][n] = None
  PROVE  n \in Names
<1>1. dir[d]["."] = d /\ dir[d][".."] # None /\ d # None
  BY ReadyFacts, InodeAssumption DEF UseInv, UseOK
<1>2. QED  BY <1>1 DEF Dots

\* A call outside of iput() changes the link count of its ip by the link it
\* owes before and after.
LEMMA RecountFs ==
  ASSUME Ready, CacheInv', NEW p \in Procs, NEW l, NEW r, Goto(p, l, r),
         UNCHANGED <<dir, panicked>>,
         pc[p] \notin Iputs \cup {"create_new"}, l # "create_new", l # "unlink_ip",
         NEW j, j = reg[p].ip, j # None, NEW e,
         dsk[j].type # "free", e.type = dsk[j].type,
         e.nlink = dsk[j].nlink + One(Owes(l, r), j) - One(Owe[p], j),
         Owe[p] \in {j, None}, Owes(l, r) \in {j, None},
         \A i \in Inums : dsk'[i] = IF i = j THEN e ELSE dsk[i],
         \A i \in Inums : valid[i] => valid'[i], valid'[j],
         \A i \in Inums : \/ ref'[i] = ref[i]
                          \/ ~Fresh(i) /\ dsk[i].type # "free",
         Knows(dsk, dir, ref, l, r)
  PROVE  FsInv'
<1>1. j \in Inums /\ ~Fresh(j) /\ UseOK(j)
  <2>1. "ip" \in Pointers /\ reg[p]["ip"] # None
    BY DEF Pointers
  <2>2. reg[p]["ip"] \in Inums /\ ~Fresh(reg[p]["ip"])
    BY <2>1, RegFacts
  <2>3. j \in Inums /\ ~Fresh(j)
    BY <2>2
  <2>4. QED  BY <2>3, ReadyFacts DEF UseInv
<1>2. \A i \in Inums : dsk'[i].type = dsk[i].type
  OBVIOUS
<1>3. DiskOK(dsk', dir', Owe')
  <2>1. Owe'[p] = Owes(l, r) /\ SameBut(Procs, Owe, Owe', p)
    BY ReadyFacts, OweStep
  <2> DEFINE u == Owe[p]
             v == Owe'[p]
  <2>2. v = Owes(l, r) /\ u \in {j, None} /\ v \in {j, None}
    BY <2>1
  <2>3. \A i \in Inums : dsk'[i].nlink = dsk[i].nlink + One(v, i) - One(u, i)
    <3> SUFFICES ASSUME NEW i \in Inums
                 PROVE  dsk'[i].nlink = dsk[i].nlink + One(v, i) - One(u, i)
      OBVIOUS
    <3>1. CASE i = j  BY <2>2, <3>1 DEF u
    <3>2. CASE i # j
      <4>1. One(u, i) = 0 /\ One(v, i) = 0
        BY <2>2, <3>2, InodeAssumption DEF One
      <4>2. dsk[i].nlink \in Int
        BY ReadyFacts DEF Inodes, Dinode
      <4>3. QED  BY <3>2, <4>1, <4>2
    <3>3. QED  BY <3>1, <3>2
  <2>4. v # None => dsk[v].type # "free"
    BY <2>2
  <2>5. dsk' \in Inodes /\ Owe' \in Debts
    BY AfterFacts
  <2>6. DiskOK(dsk', dir, Owe')
    BY <1>2, <2>1, <2>3, <2>4, <2>5, ReadyFacts, RecountDisk DEF u, v
  <2>7. QED  BY <2>6
<1>4. Knows(dsk', dir', ref', l, r)
  <2>1. r \in Reg
    <3>1. reg' \in [Procs -> Reg]
      BY DEF CacheInv, TypeOK
    <3>2. reg'[p] = r
      BY ReadyFacts, StepOf
    <3>3. QED  BY <3>1, <3>2
  <2>2. (r.dp # None => r.dp \in Inums) /\ (r.ip # None => r.ip \in Inums)
    BY <2>1 DEF Reg
  <2>3. r.dp # None => dsk'[r.dp].type = "dir"
    BY <1>2, <2>2 DEF Knows
  <2>4. Linking(r) /\ r.ip # None => dsk'[r.ip].type # "dir"
    BY <1>2, <2>2 DEF Knows
  <2>5. QED  BY <2>3, <2>4 DEF Knows
<1> DEFINE T == {j}
<1>5. T \in SUBSET Inums
  BY <1>1
<1>6. \A i \in Inums \ T :
        /\ dsk'[i] = dsk[i] /\ dir'[i] = dir[i]
        /\ \/ ref'[i] = ref[i]
           \/ ~Fresh(i) /\ (dsk[i].type = "free" => ref'[i] <= ref[i])
        /\ dsk[i].type # "free" /\ dsk[i].nlink = 0 /\ valid[i] => valid'[i]
        /\ pc[p] = "create_new" => reg[p].ip # i
        /\ pc[p] = "iput_done" /\ reg[p].put = i => ref'[i] = 0
  BY DEF Iputs
<1>7. \A i \in T : \A q \in Procs \ {p} :
        /\ pc[q] = "create_new" => reg[q].ip # i
        /\ lock[i] = q => dir'[i] = dir[i]
        /\ dsk'[i].type = dsk[i].type \/ (reg[q].dp # i /\ reg[q].ip # i)
  BY <1>1, <1>2 DEF Fresh
<1>8. \A i \in T : UseOK(i)'
  <2>1. UseOK(j)'
    BY <1>1, <1>2 DEF UseOK
  <2>2. QED  BY <2>1
<1> HIDE DEF T
<1>9. QED  BY <1>3, <1>4, <1>5, <1>6, <1>7, <1>8, FsStep

\* What ilock() of ip and iupdate() with another link count come to.
LEMMA RecountWrites ==
  ASSUME Ready, NEW j \in Inums, Load(j) = dsk[j], NEW k \in Int,
         Locked({j}, [mem EXCEPT ![j] = [Load(j) EXCEPT !.nlink = k]]),
         iupdate({j}, [mem EXCEPT ![j] = [Load(j) EXCEPT !.nlink = k]])
  PROVE  /\ \A i \in Inums : dsk'[i] = IF i = j THEN [dsk[j] EXCEPT !.nlink = k]
                                       ELSE dsk[i]
         /\ \A i \in Inums : valid[i] => valid'[i]
         /\ valid'[j]
<1> DEFINE e == [dsk[j] EXCEPT !.nlink = k]
           new == [mem EXCEPT ![j] = e]
<1>1. Locked({j}, new) /\ iupdate({j}, new)
  OBVIOUS
<1>2. mem \in [Inums -> Dinode]
  BY ReadyFacts DEF TypeOK
<1> HIDE DEF e
<1>3. new[j] = e
  BY <1>2
<1> HIDE DEF new
<1>4. \A i \in Inums : dsk'[i] = IF i = j THEN e ELSE dsk[i]
  BY <1>1, <1>3 DEF iupdate
<1>5. (\A i \in Inums : valid[i] => valid'[i]) /\ valid'[j]
  BY <1>1 DEF Locked
<1>6. QED  BY <1>4, <1>5 DEF e

\* link() counts the link and looks up the new path.
LEMMA LinkIpFs ==
  ASSUME Ready, CacheInv', NEW p \in Procs, NEW path \in Paths, LinkIp(p, path)
  PROVE  FsInv'
<1> DEFINE j == reg[p].ip
           n == Start(p, path)
           k == Load(j).nlink + 1
           t == path.elems
           e == [dsk[j] EXCEPT !.nlink = k]
           s == [reg[p] EXCEPT !.path = t, !.want = "dp", !.cur = n]
<1>1. /\ pc[p] = "link" /\ CanLock(j) /\ Load(j).type # "dir"
      /\ Locked({j}, [mem EXCEPT ![j] = [Load(j) EXCEPT !.nlink = k]])
      /\ iupdate({j}, [mem EXCEPT ![j] = [Load(j) EXCEPT !.nlink = k]])
      /\ iget(n) /\ Goto(p, "namex", s)
      /\ UNCHANGED <<dir, panicked>>
  BY DEF LinkIp
<1>2. /\ pc[p] \notin Iputs \cup {"create_new"} /\ Owe[p] = None
      /\ reg[p] \in Reg /\ Shape("link", reg[p]) /\ reg[p].ret = None
  BY <1>1, OwesNothing, CallFacts
<1>3. reg[p].call = "link" /\ reg[p].dp = None /\ j # None
  BY <1>2 DEF Shape, WithDp, HoldDp, WithIp
<1>4. j \in Inums /\ Load(j) = dsk[j] /\ dsk[j].type # "free"
  <2>1. reg[p]["ip"] # None /\ CanLock(reg[p]["ip"]) /\ "ip" \in {"cur", "dp", "ip"}
    BY <1>1, <1>3
  <2>2. LET i == reg[p]["ip"] IN i \in Inums /\ Load(i) = dsk[i] /\ dsk[i].type # "free"
    BY <2>1, IlockFacts
  <2>3. QED  BY <2>2
<1>5. dsk[j] \in Dinode /\ dsk[j].nlink \in Int /\ k = dsk[j].nlink + 1 /\ k \in Int
  BY <1>4, ReadyFacts DEF Inodes, Dinode
<1>6. e.type = dsk[j].type /\ e.nlink = k
  <2> HIDE DEF k
  <2>1. QED  BY <1>5, NlinkFields
<1>7. /\ s.call = "link" /\ s.want = "dp" /\ s.ret = None /\ s.dp = None /\ s.ip = j
  <2> HIDE DEF n, t
  <2>1. QED  BY <1>2, <1>3 DEF Reg
<1>8. /\ \A i \in Inums : dsk'[i] = IF i = j THEN e ELSE dsk[i]
      /\ \A i \in Inums : valid[i] => valid'[i]
      /\ valid'[j]
  <2> HIDE DEF k, j
  <2>1. QED  BY <1>1, <1>4, <1>5, RecountWrites
<1> HIDE DEF s, e
<1>9. Owes("namex", s) = j
  BY <1>7, OweAt DEF Linking
<1>10. e.nlink = dsk[j].nlink + One(Owes("namex", s), j) - One(Owe[p], j)
  <2>1. One(Owes("namex", s), j) = 1 /\ One(Owe[p], j) = 0
    BY <1>2, <1>3, <1>9 DEF One
  <2>2. QED  BY <1>5, <1>6, <2>1
<1>11. Knows(dsk, dir, ref, "namex", s)
  BY <1>1, <1>4, <1>7 DEF Knows, Iputs
<1>12. \A i \in Inums : ref'[i] = ref[i] \/ (~Fresh(i) /\ dsk[i].type # "free")
  <2>1. n \in Inums /\ dsk[n].type # "free" /\ ~Fresh(n)
    BY StartFacts
  <2> HIDE DEF n
  <2>2. \A i \in Inums : ref'[i] = IF i = n THEN ref[i] + 1 ELSE ref[i]
    BY <1>1, ReadyFacts DEF iget, TypeOK
  <2>3. QED  BY <2>1, <2>2
<1>13. Owe[p] \in {j, None} /\ Owes("namex", s) \in {j, None} /\ j = reg[p].ip
  BY <1>2, <1>9
<1> HIDE DEF j
<1>14. QED
  BY <1>1, <1>2, <1>3, <1>4, <1>6, <1>8, <1>10, <1>11, <1>12, <1>13, RecountFs

\* link() takes the count back.
LEMMA LinkBadFs ==
  ASSUME Ready, CacheInv', NEW p \in Procs, LinkBad(p)
  PROVE  FsInv'
<1> DEFINE j == reg[p].ip
           k == Load(j).nlink - 1
           e == [dsk[j] EXCEPT !.nlink = k]
           s == Going(reg[p], "ip", "user")
<1>1. /\ pc[p] = "link_bad" /\ CanLock(j)
      /\ Locked({j}, [mem EXCEPT ![j] = [Load(j) EXCEPT !.nlink = k]])
      /\ iupdate({j}, [mem EXCEPT ![j] = [Load(j) EXCEPT !.nlink = k]])
      /\ Goto(p, "iput", s)
      /\ UNCHANGED <<dir, panicked, ref>>
  BY DEF LinkBad, GotoIput, Going
<1>2. /\ pc[p] \notin Iputs \cup {"create_new"}
      /\ reg[p] \in Reg /\ Shape("link_bad", reg[p])
      /\ Owe[p] = IF \/ Linking(reg[p]) /\ pc[p] # "link_done"
                     \/ reg[p].call = "unlink" /\ pc[p] = "unlink_dec"
                  THEN reg[p].ip ELSE None
  BY <1>1, CallFacts DEF Iputs
<1>3. Linking(reg[p]) /\ j # None
  BY <1>2 DEF Shape, WithIp
<1>4. Owe[p] = j
  BY <1>1, <1>2, <1>3
<1>5. j \in Inums /\ Load(j) = dsk[j] /\ dsk[j].type # "free"
  <2>1. reg[p]["ip"] # None /\ CanLock(reg[p]["ip"]) /\ "ip" \in {"cur", "dp", "ip"}
    BY <1>1, <1>3
  <2>2. LET i == reg[p]["ip"] IN i \in Inums /\ Load(i) = dsk[i] /\ dsk[i].type # "free"
    BY <2>1, IlockFacts
  <2>3. QED  BY <2>2
<1>6. dsk[j] \in Dinode /\ dsk[j].nlink \in Int /\ k = dsk[j].nlink - 1 /\ k \in Int
  BY <1>5, ReadyFacts DEF Inodes, Dinode
<1>7. e.type = dsk[j].type /\ e.nlink = k
  <2> HIDE DEF k
  <2>1. QED  BY <1>6, NlinkFields
<1>8. s.ret = "user" /\ s.call = None /\ s.dp = None /\ s.ip = None
  <2>1. "user" \in Labels
    BY DEF Labels
  <2>2. Goes(s, reg[p], "ip", "user")
    BY <1>2, <2>1, GoingFields
  <2> HIDE DEF s
  <2>3. QED  BY <2>2 DEF Goes
<1>9. /\ \A i \in Inums : dsk'[i] = IF i = j THEN e ELSE dsk[i]
      /\ \A i \in Inums : valid[i] => valid'[i]
      /\ valid'[j]
  <2> HIDE DEF k, j
  <2>1. QED  BY <1>1, <1>5, <1>6, RecountWrites
<1> HIDE DEF s, e
<1>10. Owes("iput", s) = None
  BY <1>8 DEF Owes
<1>11. e.nlink = dsk[j].nlink + One(Owes("iput", s), j) - One(Owe[p], j)
  <2>1. One(Owes("iput", s), j) = 0 /\ One(Owe[p], j) = 1
    BY <1>3, <1>4, <1>10 DEF One
  <2>2. QED  BY <1>6, <1>7, <2>1
<1>12. Knows(dsk, dir, ref, "iput", s)
  BY <1>8 DEF Knows, Iputs
<1>13. Owe[p] \in {j, None} /\ Owes("iput", s) \in {j, None} /\ j = reg[p].ip
  BY <1>4, <1>10
<1> HIDE DEF j
<1>14. QED
  BY <1>1, <1>2, <1>3, <1>5, <1>7, <1>9, <1>11, <1>12, <1>13, RecountFs

\* unlink() no longer counts the link.
LEMMA UnlinkDecFs ==
  ASSUME Ready, CacheInv', NEW p \in Procs, UnlinkDec(p)
  PROVE  FsInv'
<1> DEFINE j == reg[p].ip
           k == mem[j].nlink - 1
           e == [mem[j] EXCEPT !.nlink = k]
           new == [mem EXCEPT ![j] = e]
           s == Going(reg[p], "ip", "user")
<1>1. /\ pc[p] = "unlink_dec" /\ iupdate({j}, new) /\ Goto(p, "iput", s)
      /\ UNCHANGED <<dir, panicked, ref, valid>>
  BY DEF UnlinkDec, GotoIput, Going
<1>2. /\ pc[p] \notin Iputs \cup {"create_new"}
      /\ reg[p] \in Reg /\ Shape("unlink_dec", reg[p]) /\ At(p) = "unlink_dec"
      /\ Owe[p] = IF \/ Linking(reg[p]) /\ pc[p] # "link_done"
                     \/ reg[p].call = "unlink" /\ pc[p] = "unlink_dec"
                  THEN reg[p].ip ELSE None
  BY <1>1, CallFacts DEF Iputs
<1>3. reg[p].call = "unlink" /\ j # None
  BY <1>2 DEF Shape, WithIp, HoldIp
<1>4. Owe[p] = j
  BY <1>1, <1>2, <1>3
<1>5. j \in Inums /\ mem[j] = dsk[j] /\ dsk[j].type # "free" /\ valid[j]
  <2>1. "ip" \in {"dp", "ip"} /\ reg[p]["ip"] # None /\ Has(At(p), reg[p], reg[p]["ip"])
    BY <1>2, <1>3 DEF Has, HoldIp
  <2>2. LET i == reg[p]["ip"] IN
          i \in Inums /\ mem[i] = dsk[i] /\ dsk[i].type # "free" /\ valid[i]
    BY <2>1, ReadyFacts, HeldIsDisk
  <2>3. QED  BY <2>2
<1>6. dsk[j] \in Dinode /\ dsk[j].nlink \in Int /\ k = dsk[j].nlink - 1 /\ k \in Int
  BY <1>5, ReadyFacts DEF Inodes, Dinode
<1>7. e.type = dsk[j].type /\ e.nlink = k
  <2> HIDE DEF k
  <2>1. QED  BY <1>5, <1>6, NlinkFields
<1>8. s.ret = "user" /\ s.call = None /\ s.dp = None /\ s.ip = None
  <2>1. "user" \in Labels
    BY DEF Labels
  <2>2. Goes(s, reg[p], "ip", "user")
    BY <1>2, <2>1, GoingFields
  <2> HIDE DEF s
  <2>3. QED  BY <2>2 DEF Goes
<1> HIDE DEF s, e
<1>9. \A i \in Inums : dsk'[i] = IF i = j THEN e ELSE dsk[i]
  <2>1. new[j] = e
    BY <1>5, ReadyFacts DEF TypeOK
  <2> HIDE DEF new
  <2>2. QED  BY <1>1, <2>1 DEF iupdate
<1>10. Owes("iput", s) = None
  BY <1>8 DEF Owes
<1>11. e.nlink = dsk[j].nlink + One(Owes("iput", s), j) - One(Owe[p], j)
  <2>1. One(Owes("iput", s), j) = 0 /\ One(Owe[p], j) = 1
    BY <1>3, <1>4, <1>10 DEF One
  <2>2. QED  BY <1>6, <1>7, <2>1
<1>12. Knows(dsk, dir, ref, "iput", s)
  BY <1>8 DEF Knows, Iputs
<1>13. Owe[p] \in {j, None} /\ Owes("iput", s) \in {j, None} /\ j = reg[p].ip
       /\ valid'[j]
  BY <1>1, <1>4, <1>5, <1>10
<1> HIDE DEF j
<1>14. QED
  BY <1>1, <1>2, <1>3, <1>5, <1>7, <1>9, <1>11, <1>12, <1>13, RecountFs

\* iput() frees the inode.
LEMMA ItruncFs ==
  ASSUME Ready, CacheInv', NEW p \in Procs, Itrunc(p)
  PROVE  FsInv'
<1> DEFINE i == reg[p].put
           e == [mem[i] EXCEPT !.type = "free"]
<1>1. /\ pc[p] = "itrunc" /\ pc[p] \in Iputs /\ pc[p] \in Frees
      /\ mem' = [mem EXCEPT ![i] = e] /\ dsk' = [dsk EXCEPT ![i] = mem'[i]]
      /\ dir' = [dir EXCEPT ![i] = NoEntries]
      /\ Goto(p, "iput_done", reg[p])
      /\ UNCHANGED <<ref, valid, panicked>>
  BY DEF Itrunc, Iputs, Frees
<1>2. /\ i \in Inums /\ ~Fresh(i) /\ ref[i] = 1 /\ valid[i] /\ mem[i].nlink = 0
      /\ \A q \in Procs : reg[q].dp # i /\ reg[q].ip # i
  <2>1. i \in Inums /\ ~Fresh(i)
        /\ \A q \in Procs, x \in {"cur", "dp", "ip"} : reg[q][x] = i => ref[i] > 1
    BY <1>1, PutFacts
  <2>2. ref[i] = 1 /\ valid[i] /\ mem[i].nlink = 0
    BY <1>1, ReadyFacts DEF FreeInv
  <2>3. QED  BY <2>1, <2>2
<1>3. lock[i] = None /\ dsk[i].nlink = 0
  <2>1. lock[i] = None
    BY <1>1, <1>2, ReadyFacts, PutIsOnly
  <2>2. QED  BY <1>2, <2>1, ReadyFacts DEF MemInv
<1>4. e.type = "free" /\ e.nlink = 0
  BY <1>2, ReadyFacts DEF TypeOK, Dinode
<1> HIDE DEF e
<1>5. /\ dsk'[i] = e /\ \A k \in Inums \ {i} : dsk'[k] = dsk[k]
      /\ Bare(dir', i) /\ \A k \in Inums \ {i} : dir'[k] = dir[k]
  <2>1. mem'[i] = e
    BY <1>1, <1>2, ReadyFacts DEF TypeOK
  <2>2. dsk'[i] = e /\ \A k \in Inums \ {i} : dsk'[k] = dsk[k]
    BY <1>1, <1>2, <2>1, ReadyFacts DEF TypeOK
  <2>3. dir'[i] = NoEntries /\ \A k \in Inums \ {i} : dir'[k] = dir[k]
    BY <1>1, <1>2, ReadyFacts DEF TypeOK
  <2>4. Bare(dir', i)
    BY <2>3 DEF Bare, NoEntries
  <2>5. QED  BY <2>2, <2>3, <2>4
<1>6. DiskOK(dsk', dir', Owe')
  <2>1. Owes("iput_done", reg[p]) = Owes(pc[p], reg[p])
    BY <1>1 DEF Owes
  <2>2. Owe' = Owe
    BY <1>1, <2>1, ReadyFacts, OweStep
  <2>3. DiskOK(dsk', dir', Owe)
    BY <1>2, <1>3, <1>4, <1>5, ReadyFacts, AfterFacts, FreeDisk
  <2>4. QED  BY <2>2, <2>3
<1>7. Knows(dsk', dir', ref', "iput_done", reg[p])
  <2>1. Knows(dsk, dir, ref, pc[p], reg[p]) /\ reg[p] \in Reg
    BY ReadyFacts DEF CallInv, TypeOK
  <2>2. /\ reg[p].dp # None => dsk'[reg[p].dp] = dsk[reg[p].dp]
        /\ reg[p].ip # None => dsk'[reg[p].ip] = dsk[reg[p].ip]
    BY <1>2, <1>5, <2>1 DEF Reg
  <2>3. QED  BY <1>1, <2>1, <2>2 DEF Knows, Iputs
<1> DEFINE T == {i}
<1>8. T \in SUBSET Inums
  BY <1>2
<1>9. \A k \in Inums \ T :
        /\ dsk'[k] = dsk[k] /\ dir'[k] = dir[k]
        /\ \/ ref'[k] = ref[k]
           \/ ~Fresh(k) /\ (dsk[k].type = "free" => ref'[k] <= ref[k])
        /\ dsk[k].type # "free" /\ dsk[k].nlink = 0 /\ valid[k] => valid'[k]
        /\ pc[p] = "create_new" => reg[p].ip # k
        /\ pc[p] = "iput_done" /\ reg[p].put = k => ref'[k] = 0
  BY <1>1, <1>5
<1>10. \A k \in T : \A q \in Procs \ {p} :
         /\ pc[q] = "create_new" => reg[q].ip # k
         /\ lock[k] = q => dir'[k] = dir[k]
         /\ dsk'[k].type = dsk[k].type \/ (reg[q].dp # k /\ reg[q].ip # k)
  BY <1>2, <1>3, InodeAssumption
<1>11. \A k \in T : UseOK(k)'
  <2>1. pc'[p] = "iput_done" /\ reg'[p] = reg[p]
    BY <1>1, ReadyFacts, StepOf
  <2>2. \E q \in Procs : pc'[q] = "iput_done" /\ reg'[q].put = i
    BY <2>1
  <2>3. dsk'[i].type = "free"
    BY <1>4, <1>5
  <2>4. ASSUME NEW k, k = i PROVE UseOK(k)'
    BY <2>2, <2>3, <2>4 DEF UseOK
  <2>5. QED  BY <2>4
<1> HIDE DEF T
<1>12. panicked' = panicked
  BY <1>1
<1>13. QED  BY <1>1, <1>6, <1>7, <1>8, <1>9, <1>10, <1>11, <1>12, FsStep

\* ialloc() takes a free inode.
LEMMA CreateNewFs ==
  ASSUME Ready, CacheInv', Regular', NEW p \in Procs, NEW n \in Inums, CreateNew(p, n)
  PROVE  FsInv'
<1> DEFINE r == reg[p]
           d == r.dp
           e == [type |-> Type(r.call), nlink |-> 0]
           s == [r EXCEPT !.ip = n]
<1>1. /\ pc[p] = "create" /\ ilock(d) /\ Load(d).type = "dir"
      /\ dir[d][r.name] = None /\ dsk[n].type = "free"
      /\ dsk' = [dsk EXCEPT ![n] = e] /\ iget(n) /\ Goto(p, "create_new", s)
      /\ UNCHANGED <<dir, panicked>>
  BY DEF CreateNew, LooksInto, Target
<1>2. /\ Owe[p] = None /\ Owe[p] = Owes(pc[p], reg[p]) /\ pc[p] \notin Iputs
      /\ r \in Reg /\ Shape("create", r) /\ r.ret = None
      /\ Knows(dsk, dir, ref, pc[p], r)
  BY <1>1, OwesNothing, CallFacts
<1>3. r.call \in Creating /\ d # None /\ d \in Inums
  BY <1>2 DEF Reg, Shape, WithDp
<1>4. dsk[d].type = "dir"
  BY <1>2, <1>3 DEF Knows
<1>5. e.type = Type(r.call) /\ e.nlink = 0 /\ e.type # "free"
  BY <1>3 DEF Type, Creating
<1>6. ref[n] = 0
  <2>1. ~Freeing(n)
    BY <1>1 DEF Regular, iget
  <2>2. UseOK(n) /\ ref[n] \in Nat
    BY ReadyFacts DEF UseInv, TypeOK
  <2>3. QED  BY <1>1, <2>1, <2>2 DEF UseOK, Freeing
<1>7. \A q \in Procs : reg[q].dp # n /\ reg[q].ip # n
  <2>1. ASSUME NEW q \in Procs, NEW x \in {"dp", "ip"}, reg[q][x] = n
        PROVE  FALSE
    <3>1. x \in Places /\ Pts[q][x] = n
      BY <2>1, ReadyFacts, PtsType DEF Places, Pointers
    <3>2. QED  BY <1>6, <3>1, ReadyFacts, OneRef
  <2>2. QED  BY <2>1
<1>8. /\ s.ret = None /\ s.dp = d /\ s.call = r.call /\ s.name = r.name /\ s.ip = n
  BY <1>2 DEF Reg
<1> HIDE DEF s, e
<1>9. /\ dsk'[n] = e /\ \A k \in Inums \ {n} : dsk'[k] = dsk[k]
      /\ ref'[n] = 1 /\ \A k \in Inums \ {n} : ref'[k] = ref[k]
  BY <1>1, <1>6, ReadyFacts DEF TypeOK, iget
<1>10. ~Linking(s) /\ s.call # "unlink"
  BY <1>3, <1>8 DEF Linking, Creating
<1>11. DiskOK(dsk', dir', Owe')
  <2>1. Owes("create_new", s) = Owes(pc[p], reg[p])
    BY <1>2, <1>10 DEF Owes
  <2>2. Owe' = Owe
    BY <1>1, <2>1, ReadyFacts, OweStep
  <2>3. dsk'[n].type # "free" /\ dsk'[n].nlink = 0
    BY <1>5, <1>9
  <2>4. DiskOK(dsk', dir, Owe)
    BY <1>1, <1>9, <2>3, ReadyFacts, AfterFacts, AllocDisk
  <2>5. QED  BY <1>1, <2>2, <2>4
<1>12. Knows(dsk', dir', ref', "create_new", s)
  <2>1. Bare(dir', n)
    BY <1>1, ReadyFacts DEF DiskOK, TreeOK
  <2>2. dsk'[d].type = "dir"
    BY <1>1, <1>3, <1>4, <1>9
  <2>3. dir'[s.dp][s.name] = None
    BY <1>1, <1>8
  <2>4. QED  BY <1>5, <1>8, <1>9, <1>10, <2>1, <2>2, <2>3 DEF Knows, Iputs
<1> DEFINE T == {n}
<1>13. T \in SUBSET Inums
  OBVIOUS
<1>14. \A k \in Inums \ T :
         /\ dsk'[k] = dsk[k] /\ dir'[k] = dir[k]
         /\ \/ ref'[k] = ref[k]
            \/ ~Fresh(k) /\ (dsk[k].type = "free" => ref'[k] <= ref[k])
         /\ dsk[k].type # "free" /\ dsk[k].nlink = 0 /\ valid[k] => valid'[k]
         /\ pc[p] = "create_new" => reg[p].ip # k
         /\ pc[p] = "iput_done" /\ reg[p].put = k => ref'[k] = 0
  <2>1. \A k \in Inums : valid[k] => valid'[k]
    BY <1>1, IlockValid
  <2>2. QED  BY <1>1, <1>9, <2>1
<1>15. \A k \in T : \A q \in Procs \ {p} :
         /\ pc[q] = "create_new" => reg[q].ip # k
         /\ lock[k] = q => dir'[k] = dir[k]
         /\ dsk'[k].type = dsk[k].type \/ (reg[q].dp # k /\ reg[q].ip # k)
  BY <1>1, <1>7
<1>16. \A k \in T : UseOK(k)'
  <2>1. pc'[p] = "create_new" /\ reg'[p].ip = n
    BY <1>1, <1>8, ReadyFacts, StepOf
  <2>2. Fresh(n)'
    BY <2>1 DEF Fresh
  <2>3. UseOK(n)'
    BY <1>5, <1>9, <2>2 DEF UseOK
  <2>4. QED  BY <2>3
<1> HIDE DEF T
<1>17. panicked' = panicked
  BY <1>1
<1>18. QED  BY <1>1, <1>11, <1>12, <1>13, <1>14, <1>15, <1>16, <1>17, FsStep

\* link() makes the entry, or meets the name.
LEMMA LinkDpFs ==
  ASSUME Ready, CacheInv', Regular', NEW p \in Procs, LinkDp(p)
  PROVE  FsInv'
<1> DEFINE r == reg[p]
           d == r.dp
           i == r.ip
           n == r.name
<1>1. /\ pc[p] = "link_dp" /\ ilock(d) /\ Load(d).type = "dir"
      /\ UNCHANGED <<dsk, panicked, ref>>
  BY DEF LinkDp, LooksInto
<1>2. /\ pc[p] \notin Iputs /\ r \in Reg /\ Shape("link_dp", r) /\ r.ret = None
      /\ At(p) = "link_dp" /\ Knows(dsk, dir, ref, pc[p], r)
      /\ Owe[p] = IF \/ Linking(r) /\ pc[p] # "link_done"
                     \/ r.call = "unlink" /\ pc[p] = "unlink_dec"
                  THEN r.ip ELSE None
  BY <1>1, CallFacts DEF Iputs
<1>3. /\ Linking(r) /\ d # None /\ d \in Inums /\ i # None /\ i \in Inums
      /\ n \in Names \cup Dots
  BY <1>2 DEF Reg, Shape, WithDp, WithIp
<1>4. Owe[p] = i /\ dsk[d].type = "dir" /\ dsk[i].type # "dir"
  BY <1>1, <1>2, <1>3 DEF Knows
<1>5. lock[d] = None /\ ~Fresh(d) /\ Load(d) = dsk[d]
  <2>1. r["dp"] # None /\ CanLock(r["dp"]) /\ "dp" \in {"cur", "dp", "ip"}
    BY <1>1, <1>3 DEF ilock
  <2>2. LET k == r["dp"] IN lock[k] = None /\ ~Fresh(k) /\ Load(k) = dsk[k]
    BY <2>1, IlockFacts
  <2>3. QED  BY <2>2
<1>6. \A k \in Inums : valid[k] => valid'[k]
  BY <1>1, IlockValid
<1>7. {"link_done", "link_bad"} \subseteq Labels \ {"create_new", "unlink_ip"}
  BY DEF Labels, WithIp
<1>8. CASE dir[d][n] # None
  <2> DEFINE s == Going(r, "dp", "link_bad")
  <2>1. GotoIput(p, r, "dp", "link_bad") /\ UNCHANGED dir
    BY <1>8 DEF LinkDp, Target
  <2>2. Goes(s, r, "dp", "link_bad")
    BY <1>2, <1>7, GoingFields
  <2> HIDE DEF s
  <2>3. Owes("iput", s) = Owe[p]
    BY <1>3, <1>4, <2>2 DEF Owes, Goes, Linking
  <2>4. "link_bad" # "user" /\ "link_bad" \in Labels \ {"create_new", "unlink_ip"}
        /\ pc[p] \notin Iputs \cup {"create_new"}
    BY <1>1, <1>2, <1>7
  <2>5. QED  BY <1>1, <1>6, <2>1, <2>3, <2>4, PutFs DEF s
<1>9. CASE dir[d][n] = None
  <2> DEFINE s == Going(r, "dp", "link_done")
  <2>1. /\ Goto(p, "iput", s) /\ dir' = [dir EXCEPT ![d][n] = i]
        /\ strayed' = (strayed \/ Load(d).nlink = 0)
    BY <1>9 DEF LinkDp, Target, GotoIput, Going
  <2>2. Goes(s, r, "dp", "link_done")
    BY <1>2, <1>7, GoingFields
  <2> HIDE DEF s
  <2>3. /\ s.ret = "link_done" /\ s.dp = None /\ s.ip = i /\ Linking(s)
    BY <1>3, <2>2 DEF Goes, Linking
  <2>4. Owes("iput", s) = None
    BY <2>3 DEF Owes, Linking
  <2>5. n \in Names
    BY <1>3, <1>4, <1>5, <1>9, MissingName
  <2>6. LinkedIn(dir, d) /\ dsk[d].nlink > 0
    <3>1. dsk[d].nlink # 0
      BY <1>5, <2>1 DEF Regular
    <3>2. QED  BY <1>2, <1>3, <1>4, <1>5, <3>1, LinkedDir
  <2>7. /\ Entered(dir', dir, d, n, i)
        /\ \A k \in Inums \ {d} : dir'[k] = dir[k]
    <3>1. dir \in [Inums -> [Names \cup Dots -> Inums \cup {None}]]
      BY ReadyFacts DEF Dirs
    <3>2. QED  BY <1>3, <2>1, <3>1 DEF Entered
  <2>8. DiskOK(dsk', dir', Owe')
    <3>1. Owe'[p] = None /\ SameBut(Procs, Owe, Owe', p)
      BY <2>1, <2>4, ReadyFacts, OweStep
    <3>2. DiskOK(dsk, dir', Owe')
      BY <1>3, <1>4, <1>9, <2>5, <2>6, <2>7, <3>1, ReadyFacts, AfterFacts, NameDisk
    <3>3. QED  BY <1>1, <3>2
  <2>9. Knows(dsk', dir', ref', "iput", s)
    BY <1>1, <1>4, <2>3 DEF Knows, Iputs
  <2> DEFINE T == {d}
  <2>10. T \in SUBSET Inums
    BY <1>3
  <2>11. \A k \in Inums \ T :
           /\ dsk'[k] = dsk[k] /\ dir'[k] = dir[k]
           /\ \/ ref'[k] = ref[k]
              \/ ~Fresh(k) /\ (dsk[k].type = "free" => ref'[k] <= ref[k])
           /\ dsk[k].type # "free" /\ dsk[k].nlink = 0 /\ valid[k] => valid'[k]
           /\ pc[p] = "create_new" => reg[p].ip # k
           /\ pc[p] = "iput_done" /\ reg[p].put = k => ref'[k] = 0
    BY <1>1, <1>6, <2>7
  <2>12. \A k \in T : \A q \in Procs \ {p} :
           /\ pc[q] = "create_new" => reg[q].ip # k
           /\ lock[k] = q => dir'[k] = dir[k]
           /\ dsk'[k].type = dsk[k].type \/ (reg[q].dp # k /\ reg[q].ip # k)
    BY <1>1, <1>5, InodeAssumption DEF Fresh
  <2>13. \A k \in T : UseOK(k)'
    <3>1. dir'[d]["."] = dir[d]["."] /\ dir'[d][".."] = dir[d][".."]
      <4>1. "." \in Names \cup Dots /\ ".." \in Names \cup Dots /\ n \notin Dots
        BY <2>5, InodeAssumption DEF Dots
      <4>2. QED  BY <1>3, <2>7, <4>1 DEF Entered, Dots
    <3>2. dir[d]["."] = d /\ dir[d][".."] # None
      BY <1>3, <1>4, <1>5, ReadyFacts DEF UseInv, UseOK
    <3>3. dsk'[d] = dsk[d] /\ dsk[d].nlink # 0
      BY <1>1, <2>6
    <3>4. ASSUME NEW k, k = d PROVE UseOK(k)'
      BY <1>4, <3>1, <3>2, <3>3, <3>4 DEF UseOK
    <3>5. QED  BY <3>4
  <2> HIDE DEF T
  <2>14. panicked' = panicked
    BY <1>1
  <2>15. QED
    BY <2>1, <2>8, <2>9, <2>10, <2>11, <2>12, <2>13, <2>14, FsStep
<1>10. QED  BY <1>8, <1>9

\* The directory that a call has locked, and the inode it locks next.
LEMMA TwoLocks ==
  ASSUME Ready, NEW p \in Procs, pc[p] \in {"create_new", "unlink_ip"},
         CanLock(reg[p].ip)
  PROVE  LET d == reg[p].dp  i == reg[p].ip IN
         /\ d \in Inums /\ i \in Inums /\ d # i
         /\ lock[d] = p /\ lock[i] = None
         /\ valid[d] /\ mem[d] = dsk[d] /\ dsk[d].type = "dir" /\ ~Fresh(d)
         /\ Load(i) = dsk[i] /\ dsk[i].type # "free"
         /\ pc[p] = "unlink_ip" => ~Fresh(i)
         /\ \A q \in Procs \ {p} : pc[q] = "create_new" => reg[q].ip # i
         /\ dir[d]["."] = d /\ dir[d][".."] # None
<1> DEFINE d == reg[p].dp
           i == reg[p].ip
<1>1. pc[p] \notin Iputs
  BY DEF Iputs
<1>2. /\ reg[p] \in Reg /\ Shape(pc[p], reg[p]) /\ At(p) = pc[p]
      /\ Knows(dsk, dir, ref, pc[p], reg[p])
  BY <1>1, CallFacts
<1>3. d # None /\ i # None
  BY <1>2 DEF Shape, WithDp, HoldDp, WithIp
<1>4. d \in Inums /\ lock[d] = p /\ valid[d] /\ mem[d] = dsk[d]
  <2>1. "dp" \in {"dp", "ip"} /\ reg[p]["dp"] # None /\ Has(At(p), reg[p], reg[p]["dp"])
    BY <1>2, <1>3 DEF Has, HoldDp
  <2>2. LET k == reg[p]["dp"] IN k \in Inums /\ lock[k] = p /\ valid[k] /\ mem[k] = dsk[k]
    BY <2>1, ReadyFacts, HeldIsDisk
  <2>3. QED  BY <2>2
<1>5. ~Fresh(d)
  <2>1. "dp" \in Pointers /\ reg[p]["dp"] # None /\ "dp" # "ip"
    BY <1>3 DEF Pointers
  <2>2. ~Fresh(reg[p]["dp"])
    BY <2>1, RegFacts
  <2>3. QED  BY <2>2
<1>6. /\ i \in Inums /\ lock[i] = None /\ Load(i) = dsk[i] /\ dsk[i].type # "free"
      /\ pc[p] = "unlink_ip" => ~Fresh(i)
  <2>1. reg[p]["ip"] # None /\ CanLock(reg[p]["ip"]) /\ "ip" \in {"cur", "dp", "ip"}
    BY <1>3
  <2>2. LET k == reg[p]["ip"] IN
        /\ k \in Inums /\ lock[k] = None /\ Load(k) = dsk[k] /\ dsk[k].type # "free"
        /\ pc[p] # "create_new" => ~Fresh(k)
    BY <2>1, IlockFacts
  <2>3. QED  BY <2>2
<1>7. ASSUME NEW q \in Procs \ {p}, pc[q] = "create_new", reg[q].ip = i
      PROVE  FALSE
  <2>1. ref[i] = 1
    BY <1>7, ReadyFacts DEF CallInv, Knows
  <2>2. "ip" \in Places /\ Pts[p]["ip"] = i /\ Pts[q]["ip"] = i
    BY <1>7, ReadyFacts, PtsType DEF Places, Pointers
  <2>3. ref[i] > 1
    BY <1>6, <1>7, <2>2, ReadyFacts, TwoRefs
  <2>4. QED  BY <2>1, <2>3
<1>8. dsk[d].type = "dir"
  BY <1>2, <1>3 DEF Knows
<1>9. dir[d]["."] = d /\ dir[d][".."] # None
  BY <1>4, <1>5, <1>8, ReadyFacts DEF UseInv, UseOK
<1>10. d # i
  BY <1>4, <1>6, InodeAssumption
<1>11. QED  BY <1>4, <1>5, <1>6, <1>7, <1>8, <1>9, <1>10

\* unlink() erases the entry.
LEMMA UnlinkEntryFs ==
  ASSUME Ready, CacheInv', NEW p \in Procs, UnlinkEntry(p)
  PROVE  FsInv'
<1> DEFINE d == reg[p].dp
           i == reg[p].ip
           n == reg[p].name
           isdir == Load(i).type = "dir"
           new == [mem EXCEPT ![i] = Load(i), ![d].nlink = IF isdir THEN @ - 1 ELSE @]
           ls == IF isdir THEN {d} ELSE {}
           s == Going(reg[p], "dp", "unlink_dec")
<1>1. /\ pc[p] = "unlink_ip" /\ CanLock(i) /\ Load(i).nlink >= 1
      /\ isdir => \A m \in Names : dir[i][m] = None
      /\ Locked({i, d}, new) /\ iupdate(ls, new)
      /\ dir' = [dir EXCEPT ![d][n] = None]
      /\ Goto(p, "iput", s) /\ UNCHANGED <<ref, panicked>>
  BY DEF UnlinkEntry, GotoIput, Going, isdirempty
<1>2. /\ d \in Inums /\ i \in Inums /\ d # i
      /\ lock[d] = p /\ lock[i] = None
      /\ valid[d] /\ mem[d] = dsk[d] /\ dsk[d].type = "dir" /\ ~Fresh(d)
      /\ Load(i) = dsk[i] /\ dsk[i].type # "free" /\ ~Fresh(i)
      /\ dir[d]["."] = d /\ dir[d][".."] # None
  BY <1>1, TwoLocks
<1>3. /\ Owe[p] = None /\ reg[p] \in Reg /\ Shape("unlink_ip", reg[p])
      /\ Knows(dsk, dir, ref, "unlink_ip", reg[p])
  BY <1>1, OwesNothing, CallFacts
<1>4. n \in Names /\ dir[d][n] = i /\ reg[p].call = "unlink" /\ n \notin Dots
  BY <1>3 DEF Shape, Reg, Knows, WithDp, HoldDp
<1>5. /\ s.ret = "unlink_dec" /\ s.dp = None /\ s.ip = i /\ s.call = "unlink"
  <2>1. "unlink_dec" \in Labels
    BY DEF Labels, WithIp, HoldIp
  <2>2. Goes(s, reg[p], "dp", "unlink_dec")
    BY <1>3, <2>1, GoingFields
  <2> HIDE DEF s
  <2>3. QED  BY <1>4, <2>2 DEF Goes
<1> HIDE DEF s
<1>6. Owes("iput", s) = i /\ ~Linking(s)
  BY <1>5 DEF Owes, Linking
<1>7. dsk[d] \in Dinode /\ dsk[i] \in Dinode /\ dsk[d].nlink \in Int
  BY <1>2, ReadyFacts DEF Inodes, Dinode
<1>8. ASSUME NEW k \in Inums
      PROVE  /\ dsk'[k].type = dsk[k].type
             /\ dsk'[k].nlink = IF k = d /\ dsk[i].type = "dir"
                                THEN dsk[k].nlink - 1 ELSE dsk[k].nlink
             /\ k # d => dsk'[k] = dsk[k]
  <2>1. dsk'[k] = IF k \in ls THEN new[k] ELSE dsk[k]
    BY <1>1 DEF iupdate
  <2>2. CASE ~(k = d /\ isdir)
    <3>1. dsk'[k] = dsk[k]
      BY <2>1, <2>2
    <3>2. QED  BY <1>2, <2>2, <3>1
  <2>3. CASE k = d /\ isdir
    <3> DEFINE m == dsk[d].nlink - 1
    <3>1. dsk'[d] = new[d]
      BY <2>1, <2>3
    <3>2. new[d] = [dsk[d] EXCEPT !.nlink = m]
      <4>1. mem \in [Inums -> Dinode]
        BY ReadyFacts DEF TypeOK
      <4>2. QED  BY <1>2, <2>3, <4>1
    <3>3. m \in Int
      BY <1>7
    <3>4. dsk'[d] = [dsk[d] EXCEPT !.nlink = m]
      BY <3>1, <3>2
    <3> HIDE DEF m, new
    <3>5. dsk'[d].type = dsk[d].type /\ dsk'[d].nlink = m
      BY <1>7, <3>3, <3>4, NlinkFields
    <3>6. QED  BY <1>2, <2>3, <3>5 DEF m
  <2>4. QED  BY <2>2, <2>3
<1>9. valid'[d] /\ valid'[i] /\ \A k \in Inums : valid[k] => valid'[k]
  BY <1>1, <1>2 DEF Locked
<1>10. /\ Entered(dir', dir, d, n, None)
       /\ \A k \in Inums \ {d} : dir'[k] = dir[k]
  <2>1. dir \in [Inums -> [Names \cup Dots -> Inums \cup {None}]]
    BY ReadyFacts DEF Dirs
  <2>2. QED  BY <1>1, <1>2, <1>4, <2>1 DEF Entered
<1> HIDE DEF new, ls
<1>11. DiskOK(dsk', dir', Owe')
  <2>1. Owe'[p] = i /\ SameBut(Procs, Owe, Owe', p)
    BY <1>1, <1>6, ReadyFacts, OweStep
  <2>2. dsk[i].type = "dir" => \A m \in Names : dir[i][m] = None
    BY <1>1, <1>2
  <2>3. \A k \in Inums :
          /\ dsk'[k].type = dsk[k].type
          /\ dsk'[k].nlink = IF k = d /\ dsk[i].type = "dir"
                             THEN dsk[k].nlink - 1 ELSE dsk[k].nlink
    BY <1>8
  <2>4. dsk \in Inodes /\ dir \in Dirs /\ Owe \in Debts /\ DiskOK(dsk, dir, Owe)
        /\ dsk' \in Inodes /\ dir' \in Dirs /\ Owe' \in Debts
    BY ReadyFacts, AfterFacts
  <2>5. QED
    BY <1>2, <1>3, <1>4, <1>10, <2>1, <2>2, <2>3, <2>4, EraseDisk
<1>12. Knows(dsk', dir', ref', "iput", s)
  BY <1>5, <1>6 DEF Knows, Iputs
<1> DEFINE T == {i, d}
<1>13. T \in SUBSET Inums
  BY <1>2
<1>14. \A k \in Inums \ T :
         /\ dsk'[k] = dsk[k] /\ dir'[k] = dir[k]
         /\ \/ ref'[k] = ref[k]
            \/ ~Fresh(k) /\ (dsk[k].type = "free" => ref'[k] <= ref[k])
         /\ dsk[k].type # "free" /\ dsk[k].nlink = 0 /\ valid[k] => valid'[k]
         /\ pc[p] = "create_new" => reg[p].ip # k
         /\ pc[p] = "iput_done" /\ reg[p].put = k => ref'[k] = 0
  BY <1>1, <1>8, <1>9, <1>10
<1>15. \A k \in T : \A q \in Procs \ {p} :
         /\ pc[q] = "create_new" => reg[q].ip # k
         /\ lock[k] = q => dir'[k] = dir[k]
         /\ dsk'[k].type = dsk[k].type \/ (reg[q].dp # k /\ reg[q].ip # k)
  <2>1. \A k \in T : dsk'[k].type = dsk[k].type
    BY <1>2, <1>8
  <2>2. \A k \in T : ~Fresh(k) /\ lock[k] \in {p, None}
    BY <1>2
  <2>3. QED  BY <2>1, <2>2, InodeAssumption DEF Fresh
<1>16. \A k \in T : UseOK(k)'
  <2>1. /\ dir'[d]["."] = dir[d]["."] /\ dir'[d][".."] = dir[d][".."]
        /\ dir'[i] = dir[i]
    <3>1. "." \in Names \cup Dots /\ ".." \in Names \cup Dots /\ n # "." /\ n # ".."
      BY <1>4 DEF Dots
    <3>2. QED  BY <1>2, <1>10, <3>1 DEF Entered
  <2>2. ASSUME NEW k, k = d PROVE UseOK(k)'
    BY <1>2, <1>8, <1>9, <2>1, <2>2 DEF UseOK
  <2>3. ASSUME NEW k, k = i PROVE UseOK(k)'
    <3>1. (dir[i]["."] = i /\ dir[i][".."] # None) \/ dsk[i].type # "dir"
      BY <1>2, ReadyFacts DEF UseInv, UseOK
    <3>2. dsk'[i] = dsk[i]
      BY <1>2, <1>8
    <3>3. QED  BY <1>2, <1>9, <2>1, <2>3, <3>1, <3>2 DEF UseOK
  <2>4. QED  BY <2>2, <2>3
<1> HIDE DEF T
<1>17. panicked' = panicked
  BY <1>1
<1>18. QED  BY <1>1, <1>11, <1>12, <1>13, <1>14, <1>15, <1>16, <1>17, FsStep

\* create() fills in the new inode and makes its entry.
LEMMA CreateFillFs ==
  ASSUME Ready, CacheInv', Regular', NEW p \in Procs, CreateFill(p)
  PROVE  FsInv'
<1> DEFINE d == reg[p].dp
           i == reg[p].ip
           n == reg[p].name
           isdir == reg[p].call = "mkdir"
           a == [Load(i) EXCEPT !.nlink = 1]
           new == [mem EXCEPT ![i] = a, ![d].nlink = IF isdir THEN @ + 1 ELSE @]
           ls == IF isdir THEN {i, d} ELSE {i}
           l == IF reg[p].call = "creat" THEN "opened" ELSE "created"
           R == [Blank EXCEPT !.dp = d, !.ip = i]
           s == Going(R, "dp", l)
<1>1. /\ pc[p] = "create_new" /\ CanLock(i)
      /\ Locked({i, d}, new) /\ iupdate(ls, new)
      /\ dir' = [dir EXCEPT
           ![i] = IF isdir THEN [@ EXCEPT !["."] = i, ![".."] = d] ELSE @,
           ![d][n] = i]
      /\ strayed' = (strayed \/ mem[d].nlink = 0)
      /\ Goto(p, "iput", s) /\ UNCHANGED <<ref, panicked>>
  BY DEF CreateFill, GotoIput, Going
<1>2. /\ d \in Inums /\ i \in Inums /\ d # i
      /\ lock[d] = p /\ lock[i] = None
      /\ valid[d] /\ mem[d] = dsk[d] /\ dsk[d].type = "dir" /\ ~Fresh(d)
      /\ Load(i) = dsk[i] /\ dsk[i].type # "free"
      /\ \A q \in Procs \ {p} : pc[q] = "create_new" => reg[q].ip # i
      /\ dir[d]["."] = d /\ dir[d][".."] # None
  BY <1>1, TwoLocks
<1>3. /\ Owe[p] = None /\ Owe[p] = Owes(pc[p], reg[p])
      /\ reg[p] \in Reg /\ Shape("create_new", reg[p]) /\ At(p) = "create_new"
      /\ Knows(dsk, dir, ref, "create_new", reg[p])
  BY <1>1, OwesNothing, CallFacts
<1>4. /\ dsk[i].nlink = 0 /\ Bare(dir, i) /\ dir[d][n] = None
      /\ dsk[i].type = "dir" <=> isdir
  <2>1. reg[p].call \in Creating /\ dsk[i].type = Type(reg[p].call)
    BY <1>3 DEF Shape, Knows
  <2>2. dsk[i].type = "dir" <=> isdir
    BY <2>1 DEF Creating, Type
  <2>3. QED  BY <1>3, <2>2 DEF Knows
<1>5. n \in Names /\ n \notin Dots
  <2>1. n \in Names \cup Dots
    BY <1>3 DEF Shape, Reg, WithDp, HoldDp
  <2>2. n \in Names
    BY <1>2, <1>4, <2>1, MissingName
  <2>3. QED  BY <2>2, InodeAssumption
<1>6. LinkedIn(dir, d) /\ dsk[d].nlink > 0
  <2>1. dsk[d].nlink # 0
    BY <1>1, <1>2 DEF Regular
  <2>2. QED  BY <1>2, <1>3, <2>1, LinkedDir
<1>7. s.ret = l /\ s.dp = None /\ s.call = None /\ l \in {"opened", "created"}
  <2>1. l \in Labels /\ l # "user" /\ l \in {"opened", "created"}
    BY DEF Labels, WithIp, HoldIp
  <2>2. R \in Reg /\ R.call = None
    <3>1. d \in Inums /\ i \in Inums
      BY <1>2
    <3> HIDE DEF d, i
    <3>2. QED  BY <3>1, BlankReg DEF Blank, Reg
  <2> HIDE DEF R, l
  <2>3. Goes(s, R, "dp", l)
    BY <2>1, <2>2, GoingFields
  <2> HIDE DEF s
  <2>4. QED  BY <2>1, <2>2, <2>3 DEF Goes
<1> HIDE DEF s, l
<1>8. ~Linking(s) /\ s.call # "unlink"
  BY <1>7, InodeAssumption DEF Linking, CallNames
<1>9. Owes("iput", s) = Owes(pc[p], reg[p])
  BY <1>3, <1>8 DEF Owes
<1>10. dsk[d] \in Dinode /\ dsk[i] \in Dinode /\ dsk[d].nlink \in Int
  BY <1>2, ReadyFacts DEF Inodes, Dinode
<1>11. ASSUME NEW k \in Inums
       PROVE  /\ dsk'[k].type = dsk[k].type
              /\ dsk'[k].nlink = IF k = i THEN 1
                                 ELSE IF k = d /\ dsk[i].type = "dir"
                                 THEN dsk[k].nlink + 1 ELSE dsk[k].nlink
              /\ k \notin {i, d} => dsk'[k] = dsk[k]
  <2>1. dsk'[k] = IF k \in ls THEN new[k] ELSE dsk[k]
    BY <1>1 DEF iupdate
  <2>2. mem \in [Inums -> Dinode]
    BY ReadyFacts DEF TypeOK
  <2>3. CASE k = i
    <3>1. new[i] = a
      <4> HIDE DEF a
      <4>1. QED  BY <1>2, <2>2
    <3>2. dsk'[i] = [dsk[i] EXCEPT !.nlink = 1]
      BY <1>2, <2>1, <2>3, <3>1
    <3>3. dsk'[i].type = dsk[i].type /\ dsk'[i].nlink = 1
      <4> HIDE DEF new
      <4>1. QED  BY <1>10, <3>2, NlinkFields
    <3>4. QED  BY <2>3, <3>3
  <2>4. CASE k = d /\ isdir
    <3> DEFINE m == dsk[d].nlink + 1
    <3>1. new[d] = [dsk[d] EXCEPT !.nlink = m]
      <4> HIDE DEF a
      <4>1. QED  BY <1>2, <2>2, <2>4
    <3>2. m \in Int
      BY <1>10
    <3>3. dsk'[d] = [dsk[d] EXCEPT !.nlink = m]
      BY <2>1, <2>4, <3>1
    <3> HIDE DEF m, new
    <3>4. dsk'[d].type = dsk[d].type /\ dsk'[d].nlink = m
      BY <1>10, <3>2, <3>3, NlinkFields
    <3>5. QED  BY <1>2, <1>4, <2>4, <3>4 DEF m
  <2>5. CASE k # i /\ ~(k = d /\ isdir)
    <3>1. dsk'[k] = dsk[k]
      BY <2>1, <2>5
    <3>2. QED  BY <1>4, <2>5, <3>1
  <2>6. QED  BY <2>3, <2>4, <2>5
<1>12. valid'[d] /\ valid'[i] /\ \A k \in Inums : valid[k] => valid'[k]
  BY <1>1, <1>2 DEF Locked
<1>13. /\ dir'[d][n] = i
       /\ \A x \in (Names \cup Dots) \ {n} : dir'[d][x] = dir[d][x]
       /\ \A x \in Names : dir'[i][x] = dir[i][x]
       /\ isdir => dir'[i]["."] = i /\ dir'[i][".."] = d
       /\ ~isdir => dir'[i] = dir[i]
       /\ \A k \in Inums \ {i, d} : dir'[k] = dir[k]
  <2> DEFINE e == IF isdir THEN [dir[i] EXCEPT !["."] = i, ![".."] = d] ELSE dir[i]
             E == [dir EXCEPT ![i] = e]
  <2>1. dir \in [Inums -> [Names \cup Dots -> Inums \cup {None}]]
    BY ReadyFacts DEF Dirs
  <2>2. dir' = [E EXCEPT ![d] = [E[d] EXCEPT ![n] = i]]
    BY <1>1
  <2>3. /\ \A x \in Names : e[x] = dir[i][x]
        /\ isdir => e["."] = i /\ e[".."] = d
        /\ ~isdir => e = dir[i]
    <3>1. "." \notin Names /\ ".." \notin Names /\ "." \in Names \cup Dots
          /\ ".." \in Names \cup Dots
      BY InodeAssumption DEF Dots
    <3>2. dir[i] \in [Names \cup Dots -> Inums \cup {None}]
      BY <1>2, <2>1
    <3>3. QED  BY <3>1, <3>2
  <2> HIDE DEF e
  <2>4. E[i] = e /\ E[d] = dir[d] /\ \A k \in Inums \ {i} : E[k] = dir[k]
    BY <1>2, <2>1
  <2>5. DOMAIN E = Inums /\ dir[d] \in [Names \cup Dots -> Inums \cup {None}]
    BY <1>2, <2>1
  <2> HIDE DEF E
  <2>6. dir'[d] = [dir[d] EXCEPT ![n] = i] /\ \A k \in Inums \ {d} : dir'[k] = E[k]
    BY <1>2, <2>2, <2>4, <2>5
  <2>7. dir'[i] = e
    BY <1>2, <2>4, <2>6
  <2>8. /\ dir'[d][n] = i
        /\ \A x \in (Names \cup Dots) \ {n} : dir'[d][x] = dir[d][x]
    BY <1>5, <2>5, <2>6
  <2>9. \A k \in Inums \ {i, d} : dir'[k] = dir[k]
    BY <2>4, <2>6
  <2>10. QED  BY <2>3, <2>7, <2>8, <2>9
<1> HIDE DEF new, ls, a
<1>14. DiskOK(dsk', dir', Owe')
  <2>1. Owe' = Owe
    BY <1>1, <1>9, ReadyFacts, OweStep
  <2>2. dsk \in Inodes /\ dir \in Dirs /\ Owe \in Debts /\ DiskOK(dsk, dir, Owe)
        /\ dsk' \in Inodes /\ dir' \in Dirs
    BY ReadyFacts, AfterFacts
  <2>3. \A k \in Inums :
          /\ dsk'[k].type = dsk[k].type
          /\ dsk'[k].nlink = IF k = i THEN 1
                             ELSE IF k = d /\ dsk[i].type = "dir"
                             THEN dsk[k].nlink + 1 ELSE dsk[k].nlink
    BY <1>11
  <2>4. \A e \in Inums, x \in Names \cup Dots :
          <<e, x>> # <<d, n>> /\ (e # i \/ x \in Names) => dir'[e][x] = dir[e][x]
    BY <1>2, <1>13
  <2>5. IF dsk[i].type = "dir" THEN dir'[i]["."] = i /\ dir'[i][".."] = d
        ELSE Bare(dir', i)
    BY <1>4, <1>13 DEF Bare
  <2>6. dir'[d][n] = i
    BY <1>13
  <2>7. DiskOK(dsk', dir', Owe)
    <3>1. /\ d \in Inums /\ i \in Inums /\ d # i /\ dsk[d].type = "dir"
          /\ dsk[i].type # "free" /\ dsk[i].nlink = 0 /\ Bare(dir, i)
          /\ LinkedIn(dir, d) /\ n \in Names /\ dir[d][n] = None
      BY <1>2, <1>4, <1>5, <1>6
    <3> HIDE DEF d, i, n
    <3>2. QED  BY <2>2, <2>3, <2>4, <2>5, <2>6, <3>1, FillDisk
  <2>8. QED  BY <2>1, <2>7
<1>15. Knows(dsk', dir', ref', "iput", s)
  BY <1>7, <1>8 DEF Knows, Iputs
<1> DEFINE T == {i, d}
<1>16. T \in SUBSET Inums
  BY <1>2
<1>17. \A k \in Inums \ T :
         /\ dsk'[k] = dsk[k] /\ dir'[k] = dir[k]
         /\ \/ ref'[k] = ref[k]
            \/ ~Fresh(k) /\ (dsk[k].type = "free" => ref'[k] <= ref[k])
         /\ dsk[k].type # "free" /\ dsk[k].nlink = 0 /\ valid[k] => valid'[k]
         /\ pc[p] = "create_new" => reg[p].ip # k
         /\ pc[p] = "iput_done" /\ reg[p].put = k => ref'[k] = 0
  BY <1>1, <1>11, <1>12, <1>13
<1>18. \A k \in T : \A q \in Procs \ {p} :
         /\ pc[q] = "create_new" => reg[q].ip # k
         /\ lock[k] = q => dir'[k] = dir[k]
         /\ dsk'[k].type = dsk[k].type \/ (reg[q].dp # k /\ reg[q].ip # k)
  <2>1. \A k \in T : dsk'[k].type = dsk[k].type
    BY <1>2, <1>11
  <2>2. \A k \in T : lock[k] \in {p, None}
    BY <1>2
  <2>3. \A k \in T : \A q \in Procs \ {p} : pc[q] = "create_new" => reg[q].ip # k
    BY <1>2 DEF Fresh
  <2>4. QED  BY <2>1, <2>2, <2>3, InodeAssumption
<1>19. \A k \in T : UseOK(k)'
  <2>1. ASSUME NEW k, k = d PROVE UseOK(k)'
    <3>1. dir'[d]["."] = dir[d]["."] /\ dir'[d][".."] = dir[d][".."]
      <4>1. "." \in (Names \cup Dots) \ {n} /\ ".." \in (Names \cup Dots) \ {n}
        BY <1>5 DEF Dots
      <4>2. QED  BY <1>13, <4>1
    <3>2. QED  BY <1>2, <1>11, <1>12, <2>1, <3>1 DEF UseOK
  <2>2. ASSUME NEW k, k = i PROVE UseOK(k)'
    <3>1. dsk'[i].type = dsk[i].type
      BY <1>2, <1>11
    <3>2. dsk[i].type = "dir" => dir'[i]["."] = i /\ dir'[i][".."] # None
      BY <1>2, <1>4, <1>13, InodeAssumption
    <3>3. QED  BY <1>2, <1>12, <2>2, <3>1, <3>2 DEF UseOK
  <2>3. QED  BY <2>1, <2>2
<1> HIDE DEF T
<1>20. panicked' = panicked
  BY <1>1
<1>21. QED  BY <1>1, <1>14, <1>15, <1>16, <1>17, <1>18, <1>19, <1>20, FsStep

-----------------------------------------------------------------------------
(***************************************************************************)
(* The invariant of the tree.                                              *)
(***************************************************************************)

\* Nothing changes but the panic.
LEMMA SameFs ==
  ASSUME FsInv, panicked' # "broken",
         UNCHANGED <<dsk, dir, ref, valid, mem, lock, cwd, fd, pc, reg,
                     overtaken, strayed>>
  PROVE  FsInv'
<1>1. Owe' = Owe
  BY DEF Owe, Owes, Linking
<1>2. DiskOK(dsk, dir, Owe)'
  BY <1>1 DEF FsInv
<1>3. CallInv'
  BY DEF FsInv, CallInv, Knows
<1>4. UseInv'
  BY DEF FsInv, UseInv, UseOK, Fresh
<1>5. QED  BY <1>2, <1>3, <1>4 DEF FsInv

\* The inode that a call is about to lock is one of its own.
LEMMA NeedsFacts ==
  ASSUME Ready, NEW p \in Procs, Needs(p) # None
  PROVE  /\ pc[p] \notin Iputs
         /\ \E x \in {"cur", "dp", "ip"} :
              /\ Needs(p) = reg[p][x]
              /\ x = "ip" =>
                   pc[p] \in {"open", "chdir", "link", "link_bad", "create_old",
                              "create_new", "unlink_ip"}
<1>1. CASE pc[p] = "namex" /\ reg[p].path # <<>>
  BY <1>1 DEF Needs, Iputs
<1>2. CASE pc[p] \in {"create", "link_dp", "unlink"}
  <2>1. Needs(p) = reg[p].dp
    BY <1>2 DEF Needs
  <2>2. QED  BY <1>2, <2>1 DEF Iputs
<1>3. CASE pc[p] \in {"open", "chdir", "link", "link_bad", "create_old",
                      "create_new", "unlink_ip"}
  <2>1. Needs(p) = reg[p].ip
    BY <1>3 DEF Needs
  <2>2. QED  BY <1>3, <2>1 DEF Iputs
<1>4. QED  BY <1>1, <1>2, <1>3 DEF Needs

\* ilock() finds a type.
LEMMA TypeIsThere ==
  ASSUME Ready, NEW p \in Procs
  PROVE  ~NoType(p)
<1> SUFFICES ASSUME NoType(p) PROVE FALSE
  OBVIOUS
<1>1. Needs(p) # None /\ dsk[Needs(p)].type = "free"
  BY DEF NoType
<1>2. PICK x \in {"cur", "dp", "ip"} : Needs(p) = reg[p][x]
  BY <1>1, NeedsFacts
<1>3. x \in Pointers /\ x # "put"
  BY DEF Pointers
<1>4. dsk[reg[p][x]].type # "free"
  BY <1>1, <1>2, <1>3, RegFacts
<1>5. QED  BY <1>1, <1>2, <1>4

\* dirlookup() and dirlink() are called with directories.
LEMMA DirectoryIsOne ==
  ASSUME Ready, NEW p \in Procs
  PROVE  ~NotDirectory(p)
<1> SUFFICES ASSUME NotDirectory(p) PROVE FALSE
  OBVIOUS
<1>1. CASE /\ pc[p] \in {"create", "link_dp", "unlink"}
           /\ CanLock(reg[p].dp)
           /\ Load(reg[p].dp).type # "dir"
  <2>1. Shape(pc[p], reg[p]) /\ Knows(dsk, dir, ref, pc[p], reg[p])
    BY <1>1, CallFacts DEF Iputs
  <2>2. reg[p].dp # None
    BY <1>1, <2>1 DEF Shape, WithDp
  <2>3. dsk[reg[p].dp].type = "dir"
    BY <2>1, <2>2 DEF Knows
  <2>4. Load(reg[p].dp) = dsk[reg[p].dp]
    BY <1>1, <2>2, IlockFacts
  <2>5. QED  BY <1>1, <2>3, <2>4
<1>2. CASE /\ pc[p] = "create_new" /\ reg[p].call = "mkdir"
           /\ CanLock(reg[p].ip)
           /\ Load(reg[p].ip).type # "dir"
  <2>1. Knows(dsk, dir, ref, "create_new", reg[p])
    BY <1>2, CallFacts DEF Iputs
  <2>2. dsk[reg[p].ip].type = "dir"
    BY <1>2, <2>1 DEF Knows, Type
  <2>3. Load(reg[p].ip) = dsk[reg[p].ip]
    BY <1>2, TwoLocks
  <2>4. QED  BY <1>2, <2>2, <2>3
<1>3. QED  BY <1>1, <1>2 DEF NotDirectory

\* What unlink() has found in the directory has a link.
LEMMA LinkIsThere ==
  ASSUME Ready, NEW p \in Procs
  PROVE  ~NoLink(p)
<1> SUFFICES ASSUME NoLink(p) PROVE FALSE
  OBVIOUS
<1> DEFINE d == reg[p].dp
           i == reg[p].ip
           n == reg[p].name
<1>1. pc[p] = "unlink_ip" /\ CanLock(i) /\ Load(i).nlink < 1
  BY DEF NoLink
<1>2. d \in Inums /\ i \in Inums /\ Load(i) = dsk[i]
  BY <1>1, TwoLocks
<1>3. Shape("unlink_ip", reg[p]) /\ Knows(dsk, dir, ref, "unlink_ip", reg[p])
      /\ reg[p] \in Reg
  BY <1>1, CallFacts DEF Iputs
<1>4. dir[d][n] = i
  BY <1>3 DEF Knows
<1>5. n \in Names
  BY <1>3 DEF Shape, Reg, WithDp, HoldDp
<1>6. dsk[i].nlink > 0
  BY <1>2, <1>4, <1>5, ReadyFacts, LinkFacts
<1>7. dsk[i].nlink \in Int
  BY <1>2, ReadyFacts DEF Inodes, Dinode
<1>8. QED  BY <1>1, <1>2, <1>6, <1>7

\* A panic is for want of inodes.
LEMMA PanicFs ==
  ASSUME Ready, NEW p \in Procs, Panic(p)
  PROVE  FsInv'
<1>1. /\ panicked' # "broken"
      /\ UNCHANGED <<dsk, dir, ref, valid, mem, lock, cwd, fd, pc, reg,
                     overtaken, strayed>>
  BY TypeIsThere, DirectoryIsOne, LinkIsThere DEF Panic, diskVars, history
<1>2. QED  BY <1>1, SameFs DEF Ready

\* What was irregular stays so.
LEMMA RegularBefore ==
  ASSUME [Next]_vars, Regular'
  PROVE  Regular
<1>1. ASSUME NEW i, iget(i) PROVE ~overtaken
  BY <1>1, Zenon DEF iget, Regular
<1>2. ASSUME NEW p \in Procs, BeginStep(p) PROVE Regular
  BY <1>1, <1>2 DEF BeginStep, Begin, Regular
<1>3. ASSUME NEW p \in Procs, NamexStep(p) PROVE Regular
  <2>1. CASE NamexNext(p)
    <3>1. ~overtaken
      BY <1>1, <2>1 DEF NamexNext
    <3>2. ~strayed
      BY <2>1, Zenon DEF NamexNext, Regular
    <3>3. QED  BY <3>1, <3>2 DEF Regular
  <2>2. CASE NamexParent(p) \/ NamexFails(p) \/ NamexEnd(p)
    BY <2>2 DEF NamexParent, NamexFails, NamexEnd, Regular, history
  <2>3. QED  BY <1>3, <2>1, <2>2 DEF NamexStep
<1>4. ASSUME NEW p \in Procs, CacheStep(p) PROVE Regular
  BY <1>4 DEF CacheStep, Iput, IputLast, Itrunc, IputDone, Regular, history
<1>5. ASSUME NEW p \in Procs, OpenStep(p) PROVE Regular
  BY <1>5 DEF OpenStep, Open, OpenFile, Close, Chdir, Regular, history
<1>6. ASSUME NEW p \in Procs, CreateStep(p) PROVE Regular
  <2>1. CASE CreateFound(p)
    <3>1. ~overtaken
      BY <1>1, <2>1 DEF CreateFound
    <3>2. ~strayed
      BY <2>1, Zenon DEF CreateFound, Regular
    <3>3. QED  BY <3>1, <3>2 DEF Regular
  <2>2. CASE CreateFill(p)
    <3>1. ~strayed
      BY <2>2, Zenon DEF CreateFill, Regular
    <3>2. QED  BY <2>2, <3>1 DEF CreateFill, Regular
  <2>3. CASE \E i \in Inums : CreateNew(p, i)
    BY <1>1, <2>3 DEF CreateNew, Regular
  <2>4. CASE CreateOld(p) \/ Created(p)
    BY <2>4 DEF CreateOld, Created, Regular, history
  <2>5. QED  BY <1>6, <2>1, <2>2, <2>3, <2>4 DEF CreateStep
<1>7. ASSUME NEW p \in Procs, LinkStep(p) PROVE Regular
  <2>1. CASE LinkDp(p)
    <3>1. ~strayed
      BY <2>1, Zenon DEF LinkDp, Regular
    <3>2. QED  BY <2>1, <3>1 DEF LinkDp, Regular
  <2>2. CASE \E path \in Paths : LinkIp(p, path)
    BY <1>1, <2>2 DEF LinkIp, Regular
  <2>3. CASE LinkDirectory(p) \/ LinkDone(p) \/ LinkBad(p)
    BY <2>3 DEF LinkDirectory, LinkDone, LinkBad, Regular, history
  <2>4. QED  BY <1>7, <2>1, <2>2, <2>3 DEF LinkStep
<1>8. ASSUME NEW p \in Procs, UnlinkStep(p) PROVE Regular
  <2>1. CASE UnlinkFound(p)
    BY <1>1, <2>1 DEF UnlinkFound, Regular
  <2>2. CASE ~UnlinkFound(p)
    BY <1>8, <2>2 DEF UnlinkStep, UnlinkFails, UnlinkNotEmpty, UnlinkBad,
       UnlinkEntry, UnlinkDec, Regular, history
  <2>3. QED  BY <2>1, <2>2
<1>9. ASSUME NEW p \in Procs, Panic(p) PROVE Regular
  BY <1>9 DEF Panic, Regular, history
<1>10. ASSUME UNCHANGED vars PROVE Regular
  BY <1>10 DEF vars, Regular, history
<1>11. QED
  BY <1>2, <1>3, <1>4, <1>5, <1>6, <1>7, <1>8, <1>9, <1>10 DEF Next, Stopped

\* Counting nothing.
LEMMA CountNone ==
  ASSUME NEW S, NEW f, NEW i, \A x \in S : f[x] # i
  PROVE  Cnt(S, f, i) = 0
<1>1. {x \in S : f[x] = i} = {}
  OBVIOUS
<1>2. QED  BY <1>1, FS_EmptySet DEF Cnt

\* The disk that mkfs makes, with the root alone.
LEMMA InitFs == Init => FsInv
<1> SUFFICES ASSUME Init PROVE FsInv
  OBVIOUS
<1>1. /\ Root \in Inums /\ None \notin Inums
      /\ Names \cap Dots = {} /\ "." \in Dots /\ ".." \in Dots
  BY InodeAssumption DEF Dots
<1>2. \A d \in Inums, n \in Names : dir[d][n] = None
  BY <1>1 DEF Init
<1>3. /\ dir[Root]["."] = Root /\ dir[Root][".."] = Root
      /\ \A d \in Inums \ {Root} : \A n \in Names \cup Dots : dir[d][n] = None
  BY <1>1 DEF Init
<1>4. /\ dsk[Root] = [type |-> "dir", nlink |-> 1]
      /\ \A i \in Inums \ {Root} : dsk[i] = [type |-> "free", nlink |-> 0] /\ ref[i] = 0
  BY <1>1 DEF Init, Free
<1>5. \A p \in Procs : pc[p] = "user" /\ reg[p] = Blank
  BY DEF Init
<1>6. /\ Blank.call = None /\ Blank.dp = None /\ Blank.ip = None /\ Blank.ret = None
      /\ None \notin {"link", "unlink"}
  BY InodeAssumption DEF Blank, CallNames
<1>7. \A p \in Procs : Owe[p] = None
  BY <1>5, <1>6 DEF Owe, Owes, Linking
<1>8. \A d \in Inums : LinkedIn(dir, d) <=> d = Root
  BY <1>1, <1>2 DEF LinkedIn
<1>9. TreeOK(dsk, dir)
  <2>1. \A d \in Inums : dsk[d].type # "dir" => Bare(dir, d)
    BY <1>3, <1>4 DEF Bare
  <2>2. \A d \in Inums : dir[d]["."] \in {d, None}
    BY <1>1, <1>3
  <2>3. QED  BY <1>2, <1>3, <2>1, <2>2 DEF TreeOK
<1>10. LowOK(dsk, dir)
  <2>1. Low(dsk, dir, [i \in Inums |-> 0])
    BY <1>2 DEF Low
  <2>2. [i \in Inums |-> 0] \in [Inums -> Nat]
    OBVIOUS
  <2>3. QED  BY <2>1, <2>2 DEF LowOK
<1>11. ASSUME NEW i \in Inums
       PROVE  /\ dsk[i].nlink = LinksTo(dir, Owe, i)
              /\ dsk[i].type = "free" => dsk[i].nlink = 0
  <2>1. Cnt(Inums \X Names, NameTo(dir), i) = 0
    <3>1. \A e \in Inums \X Names : NameTo(dir)[e] # i
      BY <1>1, <1>2 DEF NameTo
    <3>2. QED  BY <3>1, CountNone
  <2>2. Cnt(Procs, Owe, i) = 0
    <3>1. \A p \in Procs : Owe[p] # i
      BY <1>1, <1>7
    <3>2. QED  BY <3>1, CountNone
  <2>3. \A d \in Inums : DotTo(dir)[d] = IF d = Root THEN Root ELSE None
    BY <1>3, <1>8 DEF DotTo
  <2>4. CASE i = Root
    <3>1. {d \in Inums : DotTo(dir)[d] = i} = {Root}
      BY <1>1, <2>3, <2>4
    <3>2. Cnt(Inums, DotTo(dir), i) = 1
      BY <3>1, FS_Singleton DEF Cnt
    <3>3. QED  BY <1>4, <2>1, <2>2, <2>4, <3>2 DEF LinksTo
  <2>5. CASE i # Root
    <3>1. \A d \in Inums : DotTo(dir)[d] # i
      BY <1>1, <2>3, <2>5
    <3>2. Cnt(Inums, DotTo(dir), i) = 0
      BY <3>1, CountNone
    <3>3. QED  BY <1>4, <2>1, <2>2, <2>5, <3>2 DEF LinksTo
  <2>6. QED  BY <2>4, <2>5
<1>12. DiskOK(dsk, dir, Owe)
  BY <1>9, <1>10, <1>11 DEF DiskOK, LinkOK
<1>13. CallInv
  BY <1>5, <1>6 DEF CallInv, Knows, Linking, Iputs
<1>14. UseInv
  BY <1>1, <1>3, <1>4 DEF UseInv, UseOK
<1>15. panicked # "broken"
  BY InodeAssumption DEF Init, Panics
<1>16. QED  BY <1>12, <1>13, <1>14, <1>15 DEF FsInv

\* A step keeps the tree, as long as the history is regular.
LEMMA NextFs ==
  ASSUME CacheInv, CacheInv', Regular => FsInv, [Next]_vars, Regular'
  PROVE  FsInv'
<1>1. Regular
  BY RegularBefore
<1>2. Ready
  BY <1>1 DEF Ready
<1>3. ASSUME NEW p \in Procs, BeginStep(p) PROVE FsInv'
  <2>1. PICK c \in Calls : Begin(p, c[1], c[2])
    BY <1>3 DEF BeginStep
  <2>2. c[1] \in CallNames /\ c[2] \in Paths
    BY InodeAssumption
  <2>3. QED  BY <1>2, <2>1, <2>2, BeginFs
<1>4. ASSUME NEW p \in Procs, NamexStep(p) PROVE FsInv'
  BY <1>2, <1>4, NamexParentFs, NamexNextFs, NamexFailsFs, NamexEndFs DEF NamexStep
<1>5. ASSUME NEW p \in Procs, CacheStep(p) PROVE FsInv'
  BY <1>2, <1>5, IputFs, IputLastFs, ItruncFs, IputDoneFs DEF CacheStep
<1>6. ASSUME NEW p \in Procs, OpenStep(p) PROVE FsInv'
  BY <1>2, <1>6, OpenFs, OpenFileFs, CloseFs, ChdirFs DEF OpenStep
<1>7. ASSUME NEW p \in Procs, CreateStep(p) PROVE FsInv'
  BY <1>2, <1>7, CreateFoundFs, CreateOldFs, CreateFillFs, CreatedFs, CreateNewFs
     DEF CreateStep
<1>8. ASSUME NEW p \in Procs, LinkStep(p) PROVE FsInv'
  BY <1>2, <1>8, LinkIpFs, LinkDirectoryFs, LinkDpFs, LinkDoneFs, LinkBadFs
     DEF LinkStep
<1>9. ASSUME NEW p \in Procs, UnlinkStep(p) PROVE FsInv'
  BY <1>2, <1>9, UnlinkFailsFs, UnlinkFoundFs, UnlinkNotEmptyFs, UnlinkBadFs,
     UnlinkEntryFs, UnlinkDecFs DEF UnlinkStep
<1>10. ASSUME NEW p \in Procs, Panic(p) PROVE FsInv'
  BY <1>2, <1>10, PanicFs
<1>11. ASSUME UNCHANGED vars PROVE FsInv'
  <2>1. /\ panicked' # "broken"
        /\ UNCHANGED <<dsk, dir, ref, valid, mem, lock, cwd, fd, pc, reg,
                       overtaken, strayed>>
    BY <1>2, <1>11 DEF vars, diskVars, history, Ready, FsInv
  <2>2. QED  BY <1>2, <2>1, SameFs DEF Ready
<1>12. QED
  BY <1>3, <1>4, <1>5, <1>6, <1>7, <1>8, <1>9, <1>10, <1>11 DEF Next, Stopped

\* In regular histories the directories are a tree, links are counted and no
\* call panics for what another has done.
THEOREM TreeInvariance == Spec => [](Regular => FsInv)
<1>1. Init => (Regular => FsInv)
  BY InitFs
<1>2. CacheInv /\ CacheInv' /\ (Regular => FsInv) /\ [Next]_vars => (Regular => FsInv)'
  BY NextFs
<1>3. QED  BY <1>1, <1>2, Invariance, PTL DEF Spec

\* The links the invariant counts are the ones LinksAreCounted speaks of.
LEMMA LinksApart ==
  ASSUME NEW i \in Inums
  PROVE  LinksTo(dir, Owe, i) =
           Cardinality({e \in Inums \X Names : dir[e[1]][e[2]] = i})
           + Cardinality({d \in Inums : dir[d][".."] = i /\ Linked(d)})
           + Cardinality(Pending(i))
<1>1. i # None
  BY InodeAssumption
<1>2. {e \in Inums \X Names : NameTo(dir)[e] = i}
        = {e \in Inums \X Names : dir[e[1]][e[2]] = i}
  BY DEF NameTo
<1>3. {d \in Inums : DotTo(dir)[d] = i}
        = {d \in Inums : dir[d][".."] = i /\ Linked(d)}
  BY <1>1 DEF DotTo, LinkedIn, Linked
<1>4. {p \in Procs : Owe[p] = i} = Pending(i)
  <2>1. ASSUME NEW p \in Procs PROVE Owe[p] = i <=> p \in Pending(i)
    BY <1>1 DEF Owe, Owes, Linking, Pending
  <2>2. QED  BY <2>1 DEF Pending
<1>5. QED  BY <1>2, <1>3, <1>4 DEF LinksTo, Cnt

\* In regular histories an inode's link count is the number of its names, of
\* the ".." of directories in it and of the links that link() and unlink() are
\* making or erasing, whatever calls run side by side.
THEOREM LinksCounted == Spec => []LinksAreCounted
<1>1. CacheInv /\ (Regular => FsInv) => LinksAreCounted
  <2> SUFFICES ASSUME CacheInv, Regular, FsInv, NEW i \in Inums
               PROVE  /\ dsk[i].nlink =
                           Cardinality({e \in Inums \X Names : dir[e[1]][e[2]] = i})
                           + Cardinality({d \in Inums : dir[d][".."] = i /\ Linked(d)})
                           + Cardinality(Pending(i))
                      /\ dsk[i].nlink > 0 => dsk[i].type # "free"
    BY DEF LinksAreCounted
  <2>1. Ready
    BY DEF Ready
  <2>2. dsk[i].nlink = LinksTo(dir, Owe, i)
    BY DEF FsInv, DiskOK, LinkOK
  <2>3. dsk[i].nlink > 0 => dsk[i].type # "free"
    BY <2>1, CountedFacts
  <2>4. QED  BY <2>2, <2>3, LinksApart
<1>2. QED  BY <1>1, Invariance, TreeInvariance, PTL

\* In regular histories an inode that is allocated has a link or a reference:
\* no path through a call leaves one behind that nothing will ever free.
THEOREM NoInodeIsLost == Spec => []NothingIsLost
<1>1. CacheInv /\ (Regular => FsInv) => NothingIsLost
  <2> SUFFICES ASSUME CacheInv, Regular, FsInv, NEW i \in Inums,
                      dsk[i].type # "free", ~(dsk[i].nlink > 0)
               PROVE  ref[i] > 0
    BY DEF NothingIsLost
  <2>1. Ready
    BY DEF Ready
  <2>2. dsk[i].nlink = 0
    <3>1. dsk[i].nlink \in Nat
      BY <2>1, ReadyFacts, LinkFacts
    <3>2. QED  BY <3>1
  <2>3. valid[i] \/ Fresh(i)
    BY <2>2 DEF FsInv, UseInv, UseOK
  <2>4. CASE valid[i]
    BY <2>1, <2>4, ReadyFacts DEF MemInv
  <2>5. CASE Fresh(i)
    <3>1. PICK p \in Procs : pc[p] = "create_new" /\ reg[p].ip = i
      BY <2>5 DEF Fresh
    <3>2. ref[i] = 1
      BY <2>1, <3>1, ReadyFacts DEF CallInv, Knows
    <3>3. QED  BY <3>2
  <2>6. QED  BY <2>3, <2>4, <2>5
<1>2. QED  BY <1>1, Invariance, TreeInvariance, PTL

\* In regular histories no call panics for the state it finds an inode in.
THEOREM CallsDoNotPanic == Spec => []NoCallPanics
<1>1. (Regular => FsInv) => NoCallPanics
  BY DEF NoCallPanics, FsInv
<1>2. QED  BY <1>1, TreeInvariance, PTL

\* Of some naturals, one is the lowest.
LEMMA Lowest ==
  ASSUME NEW T \in SUBSET Nat, T # {}
  PROVE  \E x \in T : \A y \in T : ~(y < x)
<1> DEFINE R == OpToRel(<, Nat)
<1>1. IsWellFoundedOn(R, Nat)
  BY NatLessThanWellFounded, Zenon
<1>2. \A x \in Nat, y \in Nat : y < x => <<y, x>> \in R
  BY DEF OpToRel
<1> HIDE DEF R
<1>3. \E x \in T : \A y \in T : ~ (<<y, x>> \in R)
  BY <1>1, WFMin
<1>4. QED  BY <1>2, <1>3

\* A call that has one inode locked and waits for another has its directory,
\* and waits for what it has made or found in it.
LEMMA HoldAndWait ==
  ASSUME Ready, NEW i \in Inums, NEW q \in Procs, lock[i] = q, Needs(q) # None
  PROVE  /\ pc[q] \in {"create_new", "unlink_ip"}
         /\ reg[q].dp = i /\ Needs(q) = reg[q].ip
<1>1. pc[q] \notin Iputs
  BY NeedsFacts
<1>2. LockInv /\ At(q) = pc[q]
  BY <1>1, ReadyFacts, CallState DEF Ready
<1>3. Has(pc[q], reg[q], i)
  BY <1>2 DEF LockInv
<1>4. pc[q] \notin HoldIp \cup {"unlink_bad"}
  <2> SUFFICES ASSUME pc[q] \in HoldIp \cup {"unlink_bad"} PROVE Needs(q) = None
    OBVIOUS
  <2>1. /\ pc[q] # "namex" /\ pc[q] \notin {"create", "link_dp", "unlink"}
        /\ pc[q] \notin {"open", "chdir", "link", "link_bad", "create_old",
                         "create_new", "unlink_ip"}
    BY DEF HoldIp
  <2>2. QED  BY <2>1 DEF Needs
<1>5. pc[q] \in {"create_new", "unlink_ip"} /\ reg[q].dp = i
  BY <1>3, <1>4 DEF Has, HoldDp
<1>6. Needs(q) = reg[q].ip
  BY <1>5 DEF Needs
<1>7. QED  BY <1>5, <1>6

\* It waits downwards: if the one it waits for waits in turn, that one's
\* directory is lower.
LEMMA WaitsBelow ==
  ASSUME Ready, NEW h \in [Inums -> Nat], Low(dsk, dir, h),
         NEW i \in Inums, NEW q \in Procs, lock[i] = q, Needs(q) # None,
         NEW s \in Procs, lock[Needs(q)] = s, Needs(s) # None
  PROVE  /\ reg[q].dp \in Inums /\ reg[s].dp \in Inums
         /\ h[reg[s].dp] < h[reg[q].dp]
<1> DEFINE d == reg[q].dp
           j == reg[q].ip
<1>1. pc[q] \in {"create_new", "unlink_ip"} /\ d = i /\ Needs(q) = j
  BY HoldAndWait
<1>2. j \in Inums
  <2>1. reg[q] \in Reg
    BY ReadyFacts DEF TypeOK
  <2>2. QED  BY <1>1, <2>1 DEF Reg
<1>3. pc[s] \in {"create_new", "unlink_ip"} /\ reg[s].dp = j
  BY <1>1, <1>2, HoldAndWait
<1>4. "dp" \in Pointers /\ j # None
  BY <1>2, InodeAssumption DEF Pointers
<1>5. ~Fresh(j)
  BY <1>3, <1>4, RegFacts
<1>6. pc[q] = "unlink_ip"
  BY <1>1, <1>5 DEF Fresh
<1>7. Shape("unlink_ip", reg[q]) /\ Knows(dsk, dir, ref, "unlink_ip", reg[q])
      /\ reg[q] \in Reg
  BY <1>6, CallFacts DEF Iputs
<1>8. dir[d][reg[q].name] = j /\ reg[q].name \in Names
  BY <1>7 DEF Knows, Shape, Reg, WithDp, HoldDp
<1>9. dsk[j].type = "dir"
  <2>1. Knows(dsk, dir, ref, pc[s], reg[s])
    BY ReadyFacts DEF CallInv
  <2>2. QED  BY <1>3, <1>4, <2>1 DEF Knows
<1>10. h[j] < h[d]
  BY <1>1, <1>4, <1>8, <1>9 DEF Low
<1>11. QED  BY <1>1, <1>2, <1>3, <1>10

\* In regular histories no processes wait for inode locks in a circle: who
\* waits with a lock in hand waits for something lower in the tree.
THEOREM NoDeadlock == Spec => [](Regular => NoCircularWait)
<1>1. CacheInv /\ (Regular => FsInv) => (Regular => NoCircularWait)
  <2> SUFFICES ASSUME CacheInv, Regular, FsInv,
                      NEW S \in SUBSET Procs, S # {},
                      \A p \in S : Needs(p) # None /\ lock[Needs(p)] \in S
               PROVE  FALSE
    BY DEF NoCircularWait
  <2>1. Ready
    BY DEF Ready
  <2>2. PICK h \in [Inums -> Nat] : Low(dsk, dir, h)
    BY DEF FsInv, DiskOK, LowOK
  <2>3. \A p \in S : Needs(p) \in Inums
    <3> SUFFICES ASSUME NEW p \in S PROVE Needs(p) \in Inums
      OBVIOUS
    <3>1. PICK x \in {"cur", "dp", "ip"} : Needs(p) = reg[p][x]
      BY <2>1, NeedsFacts
    <3>2. x \in Pointers /\ x # "put"
      BY DEF Pointers
    <3>3. QED  BY <2>1, <3>1, <3>2, RegFacts
  <2> DEFINE H == {lock[Needs(p)] : p \in S}
             T == {h[reg[q].dp] : q \in H}
  <2>4. ASSUME NEW p \in S
        PROVE  LET q == lock[Needs(p)]
                   s == lock[Needs(q)] IN
               /\ q \in S /\ s \in H
               /\ reg[q].dp \in Inums /\ reg[s].dp \in Inums
               /\ h[reg[s].dp] < h[reg[q].dp]
    <3> DEFINE q == lock[Needs(p)]
               s == lock[Needs(q)]
    <3>1. q \in S /\ s \in S /\ s \in H
      OBVIOUS
    <3>2. q \in Procs /\ s \in Procs /\ Needs(q) # None /\ Needs(s) # None
      BY <3>1
    <3> HIDE DEF q, s, H
    <3>3. lock[Needs(p)] = q /\ lock[Needs(q)] = s /\ Needs(p) \in Inums
      BY <2>3 DEF q, s
    <3>4. reg[q].dp \in Inums /\ reg[s].dp \in Inums /\ h[reg[s].dp] < h[reg[q].dp]
      BY <2>1, <2>2, <3>2, <3>3, WaitsBelow
    <3>5. QED  BY <3>1, <3>4 DEF q, s
  <2>5. T \in SUBSET Nat /\ T # {}
    BY <2>4
  <2>6. PICK x \in T : \A y \in T : ~(y < x)
    <3> HIDE DEF T
    <3>1. QED  BY <2>5, Lowest
  <2>7. PICK p \in S : x = h[reg[lock[Needs(p)]].dp]
    OBVIOUS
  <2>8. h[reg[lock[Needs(lock[Needs(p)])]].dp] \in T
    BY <2>4
  <2>9. QED  BY <2>4, <2>6, <2>7, <2>8
<1>2. QED  BY <1>1, Invariance, TreeInvariance, PTL
=============================================================================
