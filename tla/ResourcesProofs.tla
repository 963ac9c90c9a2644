--------------------------- MODULE ResourcesProofs ---------------------------
(***************************************************************************)
(* Proofs about Resources, for every number of pages, processes,           *)
(* descriptors and files, every program that exec() is given and every     *)
(* argument of sbrk(): the accounts of pages, the address spaces and the   *)
(* counts of open files.                                                   *)
(*                                                                         *)
(* The inductive invariant Inv has four parts besides the types:           *)
(*   Controlled   what the variables of a call are at each of its steps,   *)
(*   HeapInv      there is a map o from pages to owners that the free      *)
(*                list, the directories, their tables and entries, the     *)
(*                processes and the pipes agree with in both directions:   *)
(*                a map gives a page one owner, so no page has two uses,   *)
(*   SpaceInv     which entries a directory has at each step of            *)
(*                copyuvm(), allocuvm() and exec(),                        *)
(*   FileInv      counts are numbers of references, a file without         *)
(*                references has no type, the files that pipealloc() has   *)
(*                taken are its own, and the open ends of pipes are files  *)
(*                or copies in fileclose(), one for each end.              *)
(* It holds until a process that sbrk(-sz) has emptied makes the kernel    *)
(* panic; the panic changes nothing else, so the properties hold on.       *)
(* The module first gives the effect of each operator of Memory on the     *)
(* owners, then one lemma for each action, then the theorems.              *)
(***************************************************************************)
EXTENDS Resources, FiniteSetTheorems, SequenceTheorems, WellFoundedInduction, TLAPS

\* Min of a set of numbers, as fdalloc() and kalloc() use it.
LEMMA LeastExists ==
  ASSUME NEW T \in SUBSET Nat, T # {}
  PROVE  Min(T) \in T /\ \A j \in T : Min(T) <= j
<1>1. PICK d \in T : \A e \in T : <<e, d>> \notin OpToRel(<, Nat)
  BY NatLessThanWellFounded, WFMin
<1>2. ASSUME NEW e \in T PROVE d <= e
  <2>1. e \in Nat /\ d \in Nat
    OBVIOUS
  <2>2. ~(e < d)
    BY <1>1, <2>1 DEF OpToRel
  <2>3. QED  BY <2>1, <2>2
<1>3. QED  BY <1>2 DEF Min

\* What \div and % compute.
LEMMA Division ==
  ASSUME NEW x \in Nat, NEW m \in Nat \ {0}
  PROVE  /\ x \div m \in Nat /\ x % m \in 0 .. m - 1
         /\ x = m * (x \div m) + (x % m)
  OBVIOUS

\* The quotient is the only number that divides so.
LEMMA Quotient ==
  ASSUME NEW x \in Nat, NEW m \in Nat \ {0}, NEW q \in Nat, NEW r \in 0 .. m - 1,
         x = m * q + r
  PROVE  x \div m = q
<1>1. /\ x \div m \in Nat /\ x % m \in 0 .. m - 1
      /\ x = m * (x \div m) + (x % m)
  BY Division
<1> DEFINE d == q - (x \div m)
<1>2. m * d = m * q - m * (x \div m)
  BY <1>1
<1>3. d \in Int /\ -m < m * d /\ m * d < m
  BY <1>1, <1>2
<1>4. d = 0
  BY <1>3
<1>5. QED  BY <1>1, <1>4

\* The pages of an address space of s bytes.
Pgs(s) == Vpn(PGROUNDUP(s))

\* A page number in bytes.
LEMMA Scale ==
  ASSUME NEW m \in Int, NEW n \in Int
  PROVE  /\ m * PGSIZE \in Int
         /\ m < n <=> m * PGSIZE < n * PGSIZE
         /\ m <= n <=> m * PGSIZE <= n * PGSIZE
         /\ (m + 1) * PGSIZE = m * PGSIZE + PGSIZE
         /\ (m + 3) * PGSIZE = m * PGSIZE + 3 * PGSIZE
  BY MemoryAssumption

\* The number of the page of an address.
LEMMA PageOf ==
  ASSUME NEW x \in Nat
  PROVE  /\ Vpn(x) \in Nat
         /\ Vpn(x) * PGSIZE <= x /\ x < Vpn(x) * PGSIZE + PGSIZE
         /\ \A n \in Nat : Vpn(n * PGSIZE) = n
<1>1. Vpn(x) \in Nat /\ Vpn(x) * PGSIZE <= x /\ x < Vpn(x) * PGSIZE + PGSIZE
  BY Division, MemoryAssumption DEF Vpn
<1>2. ASSUME NEW n \in Nat PROVE Vpn(n * PGSIZE) = n
  <2>1. n * PGSIZE \in Nat /\ n * PGSIZE = PGSIZE * n + 0 /\ 0 \in 0 .. PGSIZE - 1
    BY MemoryAssumption
  <2>2. QED  BY <2>1, Quotient, MemoryAssumption DEF Vpn
<1>3. QED  BY <1>1, <1>2

\* PGROUNDUP(s) is the end of the last page below s.
LEMMA RoundUp ==
  ASSUME NEW s \in Nat
  PROVE  /\ Pgs(s) \in Nat /\ PGROUNDUP(s) = Pgs(s) * PGSIZE
         /\ s <= PGROUNDUP(s) /\ PGROUNDUP(s) < s + PGSIZE
<1> DEFINE x == s + PGSIZE - 1
           q == x \div PGSIZE
<1>1. x \in Nat /\ PGSIZE \in Nat \ {0}
  BY MemoryAssumption
<1>2. q \in Nat /\ x % PGSIZE \in 0 .. PGSIZE - 1 /\ x = PGSIZE * q + (x % PGSIZE)
  BY <1>1, Division
<1>3. PGROUNDUP(s) = q * PGSIZE
  BY DEF PGROUNDUP
<1>4. Pgs(s) = q
  BY <1>2, <1>3, PageOf DEF Pgs
<1>5. s <= q * PGSIZE /\ q * PGSIZE < s + PGSIZE
  BY <1>1, <1>2
<1>6. QED  BY <1>2, <1>3, <1>4, <1>5

-----------------------------------------------------------------------------
\* A directory: tables and entries by their numbers.
IsDir(e) ==
  /\ e = [tables |-> e.tables, ptes |-> e.ptes, guard |-> e.guard]
  /\ e.tables = [i \in DOMAIN e.tables |-> e.tables[i]]
  /\ e.ptes = [v \in DOMAIN e.ptes |-> e.ptes[v]]
  /\ DOMAIN e.tables \subseteq Int /\ DOMAIN e.ptes \subseteq Nat

\* A memory: its free and its lost pages, and directories on pages.
IsMem(m) ==
  /\ m = [free |-> m.free, lost |-> m.lost, twice |-> m.twice, dirs |-> m.dirs]
  /\ m.free \subseteq Pages /\ m.lost \subseteq Pages
  /\ m.dirs = [d \in DOMAIN m.dirs |-> m.dirs[d]]
  /\ DOMAIN m.dirs \subseteq Pages
  /\ \A d \in DOMAIN m.dirs : IsDir(m.dirs[d])

\* The owner of a page: the free list, nobody, a step that has it in its hand, a
\* pipe, a process (as kernel stack, as directory, as the directory nd), a
\* directory (as page table or as user page).
Idle == <<"free", 0, 0>>
Astray == <<"lost", 0, 0>>
Hand == <<"hand", 0, 0>>
Ring == <<"pipe", 0, 0>>
StackOf(p) == <<"stack", p, 0>>
SpaceOf(p) == <<"pgdir", p, 0>>
DraftOf(p) == <<"nd", p, 0>>
TableOf(d, i) == <<"table", d, i>>
PageIn(d, v) == <<"pte", d, v>>

\* Owners by kind: outside the address spaces, and of directories.
Kernel == {Ring, Hand} \cup {StackOf(p) : p \in Procs}
Tops == {SpaceOf(p) : p \in Procs} \cup {DraftOf(p) : p \in Procs}
Outer == Kernel \cup Tops
Owner == Outer \cup {Idle, Astray} \cup {TableOf(d, i) : d \in Pages, i \in Int}
         \cup {PageIn(d, v) : d \in Pages, v \in Nat}

\* o names the owner of every page, and the memory agrees: what it frees, loses
\* and maps is what the owners say, in both directions.
Own(m, o) ==
  /\ o \in [Pages -> Owner]
  /\ \A g \in Pages : g \in m.free <=> o[g] = Idle
  /\ \A g \in Pages : g \in m.lost <=> o[g] = Astray
  /\ \A g \in Pages : g \in DOMAIN m.dirs <=> o[g] \in Tops
  /\ \A d \in DOMAIN m.dirs : \A i \in DOMAIN m.dirs[d].tables :
       /\ m.dirs[d].tables[i] \in Pages
       /\ o[m.dirs[d].tables[i]] = TableOf(d, i)
  /\ \A d \in DOMAIN m.dirs : \A v \in DOMAIN m.dirs[d].ptes :
       m.dirs[d].ptes[v] \in Pages /\ o[m.dirs[d].ptes[v]] = PageIn(d, v)
  /\ \A g \in Pages, d \in Pages, i \in Int : o[g] = TableOf(d, i) =>
       /\ d \in DOMAIN m.dirs /\ i \in DOMAIN m.dirs[d].tables
       /\ m.dirs[d].tables[i] = g
  /\ \A g \in Pages, d \in Pages, v \in Nat : o[g] = PageIn(d, v) =>
       /\ d \in DOMAIN m.dirs /\ v \in DOMAIN m.dirs[d].ptes
       /\ m.dirs[d].ptes[v] = g

\* The pages of S have the owner t, the others the one they had.
Given(o, S, t) == [g \in Pages |-> IF g \in S THEN t ELSE o[g]]

\* kalloc() returns a page that was free.
LEMMA TakenIs ==
  ASSUME NEW m, IsMem(m), m.free # {}
  PROVE  /\ kalloc(m) \in m.free /\ kalloc(m) \in Pages /\ kalloc(m) # NoPage
         /\ IsMem(Taken(m))
         /\ Taken(m).free = m.free \ {kalloc(m)}
         /\ Taken(m).lost = m.lost /\ Taken(m).twice = m.twice
         /\ Taken(m).dirs = m.dirs
<1>1. m.free \in SUBSET Nat /\ m.free \subseteq Pages
  BY MemoryAssumption DEF IsMem, Pages
<1>2. kalloc(m) \in m.free
  BY <1>1, LeastExists DEF kalloc
<1>3. kalloc(m) \in Pages /\ kalloc(m) # NoPage
  BY <1>1, <1>2, MemoryAssumption DEF Pages, NoPage
<1>4. /\ IsMem(Taken(m))
      /\ Taken(m).free = m.free \ {kalloc(m)}
      /\ Taken(m).lost = m.lost /\ Taken(m).twice = m.twice
      /\ Taken(m).dirs = m.dirs
  BY <1>1 DEF IsMem, Taken
<1>5. QED  BY <1>2, <1>3, <1>4

\* kalloc(): the page passes to the kernel.
LEMMA OwnTaken ==
  ASSUME NEW m, NEW o, IsMem(m), Own(m, o), m.free # {}, NEW t \in Kernel
  PROVE  Own(Taken(m), Given(o, {kalloc(m)}, t))
<1> DEFINE g0 == kalloc(m)
           n == Taken(m)
           u == Given(o, {kalloc(m)}, t)
<1>1. /\ g0 \in m.free /\ g0 \in Pages
      /\ n.free = m.free \ {g0} /\ n.lost = m.lost /\ n.dirs = m.dirs
  BY TakenIs
<1>2. /\ o \in [Pages -> Owner] /\ o[g0] = Idle
      /\ u \in [Pages -> Owner] /\ \A g \in Pages : u[g] = IF g = g0 THEN t ELSE o[g]
  BY <1>1 DEF Own, Owner, Outer, Given
<1>3. /\ t \notin Tops /\ t # Idle /\ t # Astray /\ Idle \notin Tops /\ Idle # Astray
      /\ \A d, i : t # TableOf(d, i) /\ t # PageIn(d, i) /\ Idle # TableOf(d, i)
                  /\ Idle # PageIn(d, i)
  BY DEF Kernel, Tops, Ring, Hand, StackOf, SpaceOf, DraftOf, TableOf, PageIn, Idle, Astray
<1> HIDE DEF g0, n, u
<1>4. /\ \A g \in Pages : g \in n.free <=> u[g] = Idle
      /\ \A g \in Pages : g \in n.lost <=> u[g] = Astray
      /\ \A g \in Pages : g \in DOMAIN n.dirs <=> u[g] \in Tops
  BY <1>1, <1>2, <1>3 DEF Own
<1>5. /\ \A d \in DOMAIN n.dirs : \A i \in DOMAIN n.dirs[d].tables :
           n.dirs[d].tables[i] \in Pages /\ u[n.dirs[d].tables[i]] = TableOf(d, i)
      /\ \A d \in DOMAIN n.dirs : \A v \in DOMAIN n.dirs[d].ptes :
           n.dirs[d].ptes[v] \in Pages /\ u[n.dirs[d].ptes[v]] = PageIn(d, v)
  BY <1>1, <1>2, <1>3 DEF Own
<1>6. \A g \in Pages, d \in Pages, i \in Int : u[g] = TableOf(d, i) =>
        /\ d \in DOMAIN n.dirs /\ i \in DOMAIN n.dirs[d].tables
        /\ n.dirs[d].tables[i] = g
  BY <1>1, <1>2, <1>3 DEF Own
<1>7. \A g \in Pages, d \in Pages, i \in Nat : u[g] = PageIn(d, i) =>
        /\ d \in DOMAIN n.dirs /\ i \in DOMAIN n.dirs[d].ptes
        /\ n.dirs[d].ptes[i] = g
  BY <1>1, <1>2, <1>3 DEF Own
<1>8. Own(n, u)
  BY <1>2, <1>4, <1>5, <1>6, <1>7 DEF Own
<1>9. QED  BY <1>8 DEF n, u

\* The owners are different from each other.
LEMMA Tokens ==
  /\ Idle \notin Outer /\ Astray \notin Outer /\ Idle # Astray
  /\ \A t \in Kernel : t \notin Tops
  /\ \A d, i : /\ TableOf(d, i) \notin Outer \cup {Idle, Astray}
               /\ PageIn(d, i) \notin Outer \cup {Idle, Astray}
  /\ \A d, i, e, j : /\ TableOf(d, i) # PageIn(e, j)
                     /\ TableOf(d, i) = TableOf(e, j) => d = e /\ i = j
                     /\ PageIn(d, i) = PageIn(e, j) => d = e /\ i = j
  /\ Outer \subseteq Owner /\ Idle \in Owner /\ Astray \in Owner
  /\ Kernel \subseteq Outer /\ Tops \subseteq Outer
  /\ \A d \in Pages, i \in Int : TableOf(d, i) \in Owner
  /\ \A d \in Pages, v \in Nat : PageIn(d, v) \in Owner
BY DEF Owner, Outer, Kernel, Tops, Ring, Hand, StackOf, SpaceOf, DraftOf, TableOf,
       PageIn, Idle, Astray

\* A directory of setupkvm().
LEMMA DirTakenIs ==
  ASSUME NEW m, IsMem(m), m.free # {}, kalloc(m) \notin DOMAIN m.dirs
  PROVE  LET n == DirTaken(m)
             g == kalloc(m)
         IN  /\ IsMem(n) /\ n.free = m.free \ {g} /\ n.lost = m.lost
             /\ n.twice = m.twice /\ DOMAIN n.dirs = DOMAIN m.dirs \cup {g}
             /\ n.dirs[g] = NoDir
             /\ \A x \in DOMAIN m.dirs : n.dirs[x] = m.dirs[x]
<1> DEFINE g == kalloc(m)
           n == DirTaken(m)
           w == Taken(m)
           ds == With(m.dirs, g, NoDir)
<1>1. /\ g \in Pages /\ IsMem(w) /\ w.free = m.free \ {g} /\ w.lost = m.lost
      /\ w.twice = m.twice /\ w.dirs = m.dirs
  BY TakenIs
<1>2. n = [w EXCEPT !.dirs = With(w.dirs, g, NoDir)]
  BY DEF DirTaken
<1>3. n.free = w.free /\ n.lost = w.lost /\ n.twice = w.twice /\ n.dirs = ds
      /\ n = [free |-> n.free, lost |-> n.lost, twice |-> n.twice, dirs |-> n.dirs]
  BY <1>1, <1>2 DEF IsMem
<1>4. /\ DOMAIN ds = DOMAIN m.dirs \cup {g} /\ ds[g] = NoDir
      /\ \A x \in DOMAIN m.dirs : ds[x] = m.dirs[x]
      /\ ds = [x \in DOMAIN ds |-> ds[x]]
  BY DEF With
<1>5. IsDir(NoDir) /\ DOMAIN m.dirs \subseteq Pages
  BY DEF IsDir, NoDir, IsMem
<1> HIDE DEF ds, n, g, w
<1>6. IsMem(n)
  BY <1>1, <1>3, <1>4, <1>5 DEF IsMem
<1>7. QED  BY <1>1, <1>3, <1>4, <1>6 DEF n, g

\* A page table of directory d.
LEMMA TableTakenIs ==
  ASSUME NEW m, IsMem(m), m.free # {}, NEW d \in DOMAIN m.dirs,
         NEW i \in Int, i \notin DOMAIN m.dirs[d].tables
  PROVE  LET n == TableTaken(m, d, i)
             g == kalloc(m)
         IN  /\ IsMem(n) /\ n.free = m.free \ {g} /\ n.lost = m.lost
             /\ n.twice = m.twice /\ DOMAIN n.dirs = DOMAIN m.dirs
             /\ \A x \in DOMAIN m.dirs : x # d => n.dirs[x] = m.dirs[x]
             /\ n.dirs[d].ptes = m.dirs[d].ptes
             /\ DOMAIN n.dirs[d].tables = DOMAIN m.dirs[d].tables \cup {i}
             /\ n.dirs[d].tables[i] = g
             /\ \A j \in DOMAIN m.dirs[d].tables :
                  n.dirs[d].tables[j] = m.dirs[d].tables[j]
<1> DEFINE g == kalloc(m)
           n == TableTaken(m, d, i)
           w == Taken(m)
           ts == With(m.dirs[d].tables, i, g)
<1>1. /\ g \in Pages /\ IsMem(w) /\ w.free = m.free \ {g} /\ w.lost = m.lost
      /\ w.twice = m.twice /\ w.dirs = m.dirs
  BY TakenIs
<1>2. /\ DOMAIN ts = DOMAIN m.dirs[d].tables \cup {i} /\ ts[i] = g
      /\ \A j \in DOMAIN m.dirs[d].tables : ts[j] = m.dirs[d].tables[j]
      /\ ts = [x \in DOMAIN ts |-> ts[x]]
  BY DEF With
<1>3. n = [w EXCEPT !.dirs[d].tables = ts]
  BY <1>1 DEF TableTaken
<1> HIDE DEF ts, n, g, w
<1>4. /\ n.free = w.free /\ n.lost = w.lost /\ n.twice = w.twice
      /\ n = [free |-> n.free, lost |-> n.lost, twice |-> n.twice, dirs |-> n.dirs]
      /\ n.dirs = [m.dirs EXCEPT ![d] = [m.dirs[d] EXCEPT !.tables = ts]]
  BY <1>1, <1>3 DEF IsMem
<1>5. /\ DOMAIN n.dirs = DOMAIN m.dirs
      /\ \A x \in DOMAIN m.dirs : x # d => n.dirs[x] = m.dirs[x]
      /\ n.dirs[d] = [m.dirs[d] EXCEPT !.tables = ts]
      /\ n.dirs = [x \in DOMAIN n.dirs |-> n.dirs[x]]
  BY <1>4 DEF IsMem
<1>6. IsDir(m.dirs[d])
  BY DEF IsMem
<1>7. n.dirs[d].ptes = m.dirs[d].ptes /\ n.dirs[d].tables = ts /\ IsDir(n.dirs[d])
  BY <1>2, <1>5, <1>6 DEF IsDir
<1>8. IsMem(n)
  BY <1>1, <1>4, <1>5, <1>7 DEF IsMem
<1>9. QED  BY <1>1, <1>2, <1>4, <1>5, <1>7, <1>8 DEF n, g

\* kalloc() of setupkvm(): the page becomes a directory.
LEMMA OwnDir ==
  ASSUME NEW m, NEW o, IsMem(m), Own(m, o), m.free # {}, NEW t \in Tops
  PROVE  /\ kalloc(m) \notin DOMAIN m.dirs
         /\ Own(DirTaken(m), Given(o, {kalloc(m)}, t))
<1> DEFINE g0 == kalloc(m)
           n == DirTaken(m)
           u == Given(o, {kalloc(m)}, t)
<1>0. g0 \in m.free /\ g0 \in Pages
  BY TakenIs
<1>1. o \in [Pages -> Owner] /\ o[g0] = Idle /\ g0 \notin DOMAIN m.dirs
  BY <1>0, Tokens DEF Own
<1>2. /\ n.free = m.free \ {g0} /\ n.lost = m.lost
      /\ DOMAIN n.dirs = DOMAIN m.dirs \cup {g0} /\ n.dirs[g0] = NoDir
      /\ \A x \in DOMAIN m.dirs : n.dirs[x] = m.dirs[x]
  BY <1>1, DirTakenIs
<1>3. u \in [Pages -> Owner] /\ \A g \in Pages : u[g] = IF g = g0 THEN t ELSE o[g]
  BY <1>0, <1>1, Tokens DEF Given
<1>4. t # Idle /\ t # Astray /\ \A d, i : t # TableOf(d, i) /\ t # PageIn(d, i)
  BY Tokens
<1>5. DOMAIN NoDir.tables = {} /\ DOMAIN NoDir.ptes = {}
  BY DEF NoDir
<1> HIDE DEF g0, n, u
<1>6. /\ \A g \in Pages : g \in n.free <=> u[g] = Idle
      /\ \A g \in Pages : g \in n.lost <=> u[g] = Astray
      /\ \A g \in Pages : g \in DOMAIN n.dirs <=> u[g] \in Tops
  BY <1>0, <1>1, <1>2, <1>3, <1>4, Tokens DEF Own
<1>7. \A d \in DOMAIN n.dirs : \A i \in DOMAIN n.dirs[d].tables :
        n.dirs[d].tables[i] \in Pages /\ u[n.dirs[d].tables[i]] = TableOf(d, i)
  BY <1>1, <1>2, <1>3, <1>5, Tokens DEF Own
<1>8. \A d \in DOMAIN n.dirs : \A v \in DOMAIN n.dirs[d].ptes :
        n.dirs[d].ptes[v] \in Pages /\ u[n.dirs[d].ptes[v]] = PageIn(d, v)
  BY <1>1, <1>2, <1>3, <1>5, Tokens DEF Own
<1>9. \A g \in Pages, d \in Pages, i \in Int : u[g] = TableOf(d, i) =>
        /\ d \in DOMAIN n.dirs /\ i \in DOMAIN n.dirs[d].tables
        /\ n.dirs[d].tables[i] = g
  BY <1>1, <1>2, <1>3, <1>4 DEF Own
<1>10. \A g \in Pages, d \in Pages, i \in Nat : u[g] = PageIn(d, i) =>
         /\ d \in DOMAIN n.dirs /\ i \in DOMAIN n.dirs[d].ptes
         /\ n.dirs[d].ptes[i] = g
  BY <1>1, <1>2, <1>3, <1>4 DEF Own
<1>11. Own(n, u)
  BY <1>3, <1>6, <1>7, <1>8, <1>9, <1>10 DEF Own
<1>12. QED  BY <1>1, <1>11 DEF n, u, g0

\* kalloc() of walkpgdir(): the page becomes a page table.
LEMMA OwnTable ==
  ASSUME NEW m, NEW o, IsMem(m), Own(m, o), m.free # {}, NEW d \in DOMAIN m.dirs,
         NEW i \in Int, i \notin DOMAIN m.dirs[d].tables
  PROVE  Own(TableTaken(m, d, i), Given(o, {kalloc(m)}, TableOf(d, i)))
<1> DEFINE g0 == kalloc(m)
           n == TableTaken(m, d, i)
           u == Given(o, {kalloc(m)}, TableOf(d, i))
<1>0. g0 \in m.free /\ g0 \in Pages
  BY TakenIs
<1>1. o \in [Pages -> Owner] /\ o[g0] = Idle /\ d \in Pages
  BY <1>0 DEF Own, IsMem
<1>2. /\ n.free = m.free \ {g0} /\ n.lost = m.lost
      /\ DOMAIN n.dirs = DOMAIN m.dirs
      /\ \A x \in DOMAIN m.dirs : x # d => n.dirs[x] = m.dirs[x]
      /\ n.dirs[d].ptes = m.dirs[d].ptes
      /\ DOMAIN n.dirs[d].tables = DOMAIN m.dirs[d].tables \cup {i}
      /\ n.dirs[d].tables[i] = g0
      /\ \A j \in DOMAIN m.dirs[d].tables :
           n.dirs[d].tables[j] = m.dirs[d].tables[j]
  BY TableTakenIs
<1>3. /\ u \in [Pages -> Owner]
      /\ \A g \in Pages : u[g] = IF g = g0 THEN TableOf(d, i) ELSE o[g]
  BY <1>0, <1>1, Tokens DEF Given
<1> HIDE DEF g0, n, u
<1>6. /\ \A g \in Pages : g \in n.free <=> u[g] = Idle
      /\ \A g \in Pages : g \in n.lost <=> u[g] = Astray
      /\ \A g \in Pages : g \in DOMAIN n.dirs <=> u[g] \in Tops
  BY <1>0, <1>1, <1>2, <1>3, Tokens DEF Own
<1>7. ASSUME NEW x \in DOMAIN n.dirs, NEW j \in DOMAIN n.dirs[x].tables
      PROVE  n.dirs[x].tables[j] \in Pages /\ u[n.dirs[x].tables[j]] = TableOf(x, j)
  <2>1. CASE x = d /\ j = i
    BY <1>0, <1>2, <1>3, <2>1
  <2>2. CASE ~(x = d /\ j = i)
    <3>1. j \in DOMAIN m.dirs[x].tables /\ n.dirs[x].tables[j] = m.dirs[x].tables[j]
      BY <1>2, <2>2
    <3>2. m.dirs[x].tables[j] \in Pages /\ o[m.dirs[x].tables[j]] = TableOf(x, j)
      BY <1>2, <3>1 DEF Own
    <3>3. QED  BY <1>1, <1>3, <3>1, <3>2, Tokens
  <2>3. QED  BY <2>1, <2>2
<1>8. ASSUME NEW x \in DOMAIN n.dirs, NEW v \in DOMAIN n.dirs[x].ptes
      PROVE  n.dirs[x].ptes[v] \in Pages /\ u[n.dirs[x].ptes[v]] = PageIn(x, v)
  <2>1. v \in DOMAIN m.dirs[x].ptes /\ n.dirs[x].ptes[v] = m.dirs[x].ptes[v]
    BY <1>2
  <2>2. m.dirs[x].ptes[v] \in Pages /\ o[m.dirs[x].ptes[v]] = PageIn(x, v)
    BY <1>2, <2>1 DEF Own
  <2>3. QED  BY <1>1, <1>3, <2>1, <2>2, Tokens
<1>9. ASSUME NEW g \in Pages, NEW x \in Pages, NEW j \in Int, u[g] = TableOf(x, j)
      PROVE  /\ x \in DOMAIN n.dirs /\ j \in DOMAIN n.dirs[x].tables
             /\ n.dirs[x].tables[j] = g
  <2>1. CASE g = g0
    BY <1>2, <1>3, <1>9, <2>1, Tokens
  <2>2. CASE g # g0
    <3>1. /\ x \in DOMAIN m.dirs /\ j \in DOMAIN m.dirs[x].tables
          /\ m.dirs[x].tables[j] = g
      BY <1>3, <1>9, <2>2 DEF Own
    <3>2. QED  BY <1>2, <3>1
  <2>3. QED  BY <2>1, <2>2
<1>10. ASSUME NEW g \in Pages, NEW x \in Pages, NEW j \in Nat, u[g] = PageIn(x, j)
       PROVE  /\ x \in DOMAIN n.dirs /\ j \in DOMAIN n.dirs[x].ptes
              /\ n.dirs[x].ptes[j] = g
  <2>1. o[g] = PageIn(x, j)
    BY <1>3, <1>10, Tokens
  <2>2. /\ x \in DOMAIN m.dirs /\ j \in DOMAIN m.dirs[x].ptes
        /\ m.dirs[x].ptes[j] = g
    BY <2>1 DEF Own
  <2>3. QED  BY <1>2, <2>2
<1>11. Own(n, u)
  BY <1>3, <1>6, <1>7, <1>8, <1>9, <1>10 DEF Own
<1>12. QED  BY <1>11 DEF n, u

\* The owners of all pages but those of S are the same to the processes.
Same(o, u, S) ==
  \A g \in Pages \ S : u[g] = o[g] \/ (o[g] \notin Outer /\ u[g] \notin Outer)

\* All directories but d are the same.
Others(m, n, d) ==
  /\ DOMAIN n.dirs \cup {d} = DOMAIN m.dirs \cup {d}
  /\ \A x \in DOMAIN m.dirs : x # d => n.dirs[x] = m.dirs[x]

\* Directory d with the entries f for the user's pages.
Entries(m, d, f) == [m EXCEPT !.dirs[d].ptes = f]

\* n is m with the entries f of directory d.
HasEntries(m, n, d, f) ==
  /\ IsMem(n) /\ n.free = m.free /\ n.lost = m.lost /\ n.twice = m.twice
  /\ DOMAIN n.dirs = DOMAIN m.dirs
  /\ \A x \in DOMAIN m.dirs : x # d => n.dirs[x] = m.dirs[x]
  /\ n.dirs[d].ptes = f /\ n.dirs[d].tables = m.dirs[d].tables

\* What a new list of entries changes.
LEMMA PtesIs ==
  ASSUME NEW m, IsMem(m), NEW d \in DOMAIN m.dirs, NEW f,
         f = [x \in DOMAIN f |-> f[x]], DOMAIN f \subseteq Nat,
         NEW n, n = Entries(m, d, f)
  PROVE  HasEntries(m, n, d, f)
<1>4. /\ n.free = m.free /\ n.lost = m.lost /\ n.twice = m.twice
      /\ n = [free |-> n.free, lost |-> n.lost, twice |-> n.twice, dirs |-> n.dirs]
      /\ n.dirs = [m.dirs EXCEPT ![d] = [m.dirs[d] EXCEPT !.ptes = f]]
  BY DEF IsMem, Entries
<1>5. /\ DOMAIN n.dirs = DOMAIN m.dirs
      /\ \A x \in DOMAIN m.dirs : x # d => n.dirs[x] = m.dirs[x]
      /\ n.dirs[d] = [m.dirs[d] EXCEPT !.ptes = f]
      /\ n.dirs = [x \in DOMAIN n.dirs |-> n.dirs[x]]
  BY <1>4 DEF IsMem
<1>6. IsDir(m.dirs[d])
  BY DEF IsMem
<1>7. n.dirs[d].ptes = f /\ n.dirs[d].tables = m.dirs[d].tables /\ IsDir(n.dirs[d])
  BY <1>5, <1>6 DEF IsDir
<1>8. IsMem(n)
  BY <1>4, <1>5, <1>7 DEF IsMem
<1>9. QED  BY <1>4, <1>5, <1>7, <1>8 DEF HasEntries

\* n is m with an entry for page v in directory d.
HasEntry(m, n, d, v) ==
  /\ IsMem(n) /\ n.twice = m.twice /\ DOMAIN n.dirs = DOMAIN m.dirs
  /\ \A x \in DOMAIN m.dirs : x # d => n.dirs[x] = m.dirs[x]
  /\ DOMAIN n.dirs[d].ptes = DOMAIN m.dirs[d].ptes \cup {v}

\* A page in hand becomes page v of directory d.
LEMMA OwnMapped ==
  ASSUME NEW m, NEW o, IsMem(m), Own(m, o), NEW d \in DOMAIN m.dirs,
         NEW v \in Nat, v \notin DOMAIN m.dirs[d].ptes,
         NEW page \in Pages, o[page] = Hand,
         NEW n, n = Entries(m, d, With(m.dirs[d].ptes, v, page))
  PROVE  HasEntry(m, n, d, v) /\ Own(n, Given(o, {page}, PageIn(d, v)))
<1> DEFINE f == With(m.dirs[d].ptes, v, page)
           u == Given(o, {page}, PageIn(d, v))
<1>1. /\ o \in [Pages -> Owner] /\ d \in Pages /\ DOMAIN m.dirs[d].ptes \subseteq Nat
      /\ Hand \in Outer /\ Hand \notin Tops
  BY DEF Own, IsMem, IsDir, Outer, Kernel, Tops, Hand, SpaceOf, DraftOf
<1>2. /\ DOMAIN f = DOMAIN m.dirs[d].ptes \cup {v} /\ f[v] = page
      /\ f = [x \in DOMAIN f |-> f[x]]
      /\ \A x \in DOMAIN m.dirs[d].ptes : f[x] = m.dirs[d].ptes[x]
  BY DEF With
<1>3. DOMAIN f \subseteq Nat /\ n = Entries(m, d, f)
  BY <1>1, <1>2
<1> HIDE DEF f
<1>4. /\ IsMem(n) /\ n.free = m.free /\ n.lost = m.lost /\ n.twice = m.twice
      /\ DOMAIN n.dirs = DOMAIN m.dirs
      /\ \A x \in DOMAIN m.dirs : x # d => n.dirs[x] = m.dirs[x]
      /\ n.dirs[d].ptes = f /\ n.dirs[d].tables = m.dirs[d].tables
  BY <1>2, <1>3, PtesIs DEF HasEntries
<1>5. /\ u \in [Pages -> Owner]
      /\ \A g \in Pages : u[g] = IF g = page THEN PageIn(d, v) ELSE o[g]
  BY <1>1, Tokens DEF Given
<1> HIDE DEF u
<1>6. /\ \A g \in Pages : g \in n.free <=> u[g] = Idle
      /\ \A g \in Pages : g \in n.lost <=> u[g] = Astray
      /\ \A g \in Pages : g \in DOMAIN n.dirs <=> u[g] \in Tops
  BY <1>1, <1>4, <1>5, Tokens DEF Own
<1>7. ASSUME NEW x \in DOMAIN n.dirs, NEW j \in DOMAIN n.dirs[x].tables
      PROVE  n.dirs[x].tables[j] \in Pages /\ u[n.dirs[x].tables[j]] = TableOf(x, j)
  <2>1. x \in DOMAIN m.dirs /\ n.dirs[x].tables = m.dirs[x].tables
    BY <1>4
  <2>2. m.dirs[x].tables[j] \in Pages /\ o[m.dirs[x].tables[j]] = TableOf(x, j)
    BY <2>1 DEF Own
  <2>3. QED  BY <1>1, <1>5, <2>1, <2>2, Tokens
<1>8. ASSUME NEW x \in DOMAIN n.dirs, NEW j \in DOMAIN n.dirs[x].ptes
      PROVE  n.dirs[x].ptes[j] \in Pages /\ u[n.dirs[x].ptes[j]] = PageIn(x, j)
  <2>1. CASE x = d /\ j = v
    BY <1>2, <1>4, <1>5, <2>1
  <2>2. CASE ~(x = d /\ j = v)
    <3>1. /\ x \in DOMAIN m.dirs /\ j \in DOMAIN m.dirs[x].ptes
          /\ n.dirs[x].ptes[j] = m.dirs[x].ptes[j]
      BY <1>2, <1>4, <2>2
    <3>2. m.dirs[x].ptes[j] \in Pages /\ o[m.dirs[x].ptes[j]] = PageIn(x, j)
      BY <3>1 DEF Own
    <3>3. QED  BY <1>1, <1>5, <3>1, <3>2, Tokens
  <2>3. QED  BY <2>1, <2>2
<1>9. ASSUME NEW g \in Pages, NEW x \in Pages, NEW j \in Int, u[g] = TableOf(x, j)
      PROVE  /\ x \in DOMAIN n.dirs /\ j \in DOMAIN n.dirs[x].tables
             /\ n.dirs[x].tables[j] = g
  <2>1. o[g] = TableOf(x, j)
    BY <1>5, <1>9, Tokens
  <2>2. /\ x \in DOMAIN m.dirs /\ j \in DOMAIN m.dirs[x].tables
        /\ m.dirs[x].tables[j] = g
    BY <2>1 DEF Own
  <2>3. QED  BY <1>4, <2>2
<1>10. ASSUME NEW g \in Pages, NEW x \in Pages, NEW j \in Nat, u[g] = PageIn(x, j)
       PROVE  /\ x \in DOMAIN n.dirs /\ j \in DOMAIN n.dirs[x].ptes
              /\ n.dirs[x].ptes[j] = g
  <2>1. CASE g = page
    <3>1. PageIn(x, j) = PageIn(d, v)
      BY <1>5, <1>10, <2>1
    <3>2. x = d /\ j = v
      BY <3>1, Tokens
    <3>3. QED  BY <1>2, <1>4, <2>1, <3>2
  <2>2. CASE g # page
    <3>1. /\ x \in DOMAIN m.dirs /\ j \in DOMAIN m.dirs[x].ptes
          /\ m.dirs[x].ptes[j] = g
      BY <1>5, <1>10, <2>2 DEF Own
    <3>2. CASE x = d
      BY <1>2, <1>4, <3>1, <3>2
    <3>3. CASE x # d
      <4>1. n.dirs[x] = m.dirs[x] /\ x \in DOMAIN n.dirs
        BY <1>4, <3>1, <3>3
      <4>2. QED  BY <3>1, <4>1
    <3>4. QED  BY <3>2, <3>3
  <2>3. QED  BY <2>1, <2>2
<1>11. Own(n, u)
  BY <1>5, <1>6, <1>7, <1>8, <1>9, <1>10 DEF Own
<1>12. QED  BY <1>2, <1>4, <1>11 DEF u, f, HasEntry

\* The pages of S are in n no directories, tables or pages of a space any more.
Gone(m, n, S) ==
  /\ DOMAIN n.dirs = DOMAIN m.dirs \ S
  /\ \A x \in DOMAIN m.dirs \cap S :
       /\ \A j \in DOMAIN m.dirs[x].tables : m.dirs[x].tables[j] \in S
       /\ \A j \in DOMAIN m.dirs[x].ptes : m.dirs[x].ptes[j] \in S
  /\ \A x \in DOMAIN n.dirs :
       /\ \A j : j \in DOMAIN n.dirs[x].tables <=>
                   j \in DOMAIN m.dirs[x].tables /\ m.dirs[x].tables[j] \notin S
       /\ \A j : j \in DOMAIN n.dirs[x].ptes <=>
                   j \in DOMAIN m.dirs[x].ptes /\ m.dirs[x].ptes[j] \notin S
       /\ \A j \in DOMAIN n.dirs[x].tables : n.dirs[x].tables[j] = m.dirs[x].tables[j]
       /\ \A j \in DOMAIN n.dirs[x].ptes : n.dirs[x].ptes[j] = m.dirs[x].ptes[j]

\* Pages that are freed, or lost.
LEMMA OwnGone ==
  ASSUME NEW m, NEW o, NEW n, NEW S \in SUBSET Pages, NEW t \in {Idle, Astray},
         IsMem(m), Own(m, o), Gone(m, n, S),
         \A g \in Pages : g \in n.free <=> IF g \in S THEN t = Idle ELSE g \in m.free,
         \A g \in Pages : g \in n.lost <=> IF g \in S THEN t = Astray ELSE g \in m.lost
  PROVE  Own(n, Given(o, S, t))
<1> DEFINE u == Given(o, S, t)
<1>1. /\ u \in [Pages -> Owner]
      /\ \A g \in Pages : u[g] = IF g \in S THEN t ELSE o[g]
  BY Tokens DEF Given, Own
<1>2. t \notin Tops /\ \A x, j : t # TableOf(x, j) /\ t # PageIn(x, j)
  BY Tokens
<1>3. DOMAIN m.dirs \subseteq Pages /\ DOMAIN n.dirs \subseteq DOMAIN m.dirs
  BY DEF IsMem, Gone
<1> HIDE DEF u
<1>6. /\ \A g \in Pages : g \in n.free <=> u[g] = Idle
      /\ \A g \in Pages : g \in n.lost <=> u[g] = Astray
  BY <1>1, Tokens DEF Own
<1>61. \A g \in Pages : g \in DOMAIN n.dirs <=> u[g] \in Tops
  BY <1>1, <1>2 DEF Own, Gone
<1>7. ASSUME NEW x \in DOMAIN n.dirs, NEW j \in DOMAIN n.dirs[x].tables
      PROVE  n.dirs[x].tables[j] \in Pages /\ u[n.dirs[x].tables[j]] = TableOf(x, j)
  BY <1>1, <1>3 DEF Own, Gone
<1>8. ASSUME NEW x \in DOMAIN n.dirs, NEW j \in DOMAIN n.dirs[x].ptes
      PROVE  n.dirs[x].ptes[j] \in Pages /\ u[n.dirs[x].ptes[j]] = PageIn(x, j)
  BY <1>1, <1>3 DEF Own, Gone
<1>9. ASSUME NEW g \in Pages, NEW x \in Pages, NEW j \in Int, u[g] = TableOf(x, j)
      PROVE  /\ x \in DOMAIN n.dirs /\ j \in DOMAIN n.dirs[x].tables
             /\ n.dirs[x].tables[j] = g
  <2>1. g \notin S /\ o[g] = TableOf(x, j)
    BY <1>1, <1>2, <1>9
  <2>2. /\ x \in DOMAIN m.dirs /\ j \in DOMAIN m.dirs[x].tables
        /\ m.dirs[x].tables[j] = g
    BY <2>1 DEF Own
  <2>3. x \in DOMAIN n.dirs
    BY <2>1, <2>2 DEF Gone
  <2>4. QED  BY <2>1, <2>2, <2>3 DEF Gone
<1>10. ASSUME NEW g \in Pages, NEW x \in Pages, NEW j \in Nat, u[g] = PageIn(x, j)
       PROVE  /\ x \in DOMAIN n.dirs /\ j \in DOMAIN n.dirs[x].ptes
              /\ n.dirs[x].ptes[j] = g
  <2>1. g \notin S /\ o[g] = PageIn(x, j)
    BY <1>1, <1>2, <1>10
  <2>2. /\ x \in DOMAIN m.dirs /\ j \in DOMAIN m.dirs[x].ptes
        /\ m.dirs[x].ptes[j] = g
    BY <2>1 DEF Own
  <2>3. x \in DOMAIN n.dirs
    BY <2>1, <2>2 DEF Gone
  <2>4. QED  BY <2>1, <2>2, <2>3 DEF Gone
<1>11. Own(n, u)
  BY <1>1, <1>6, <1>61, <1>7, <1>8, <1>9, <1>10 DEF Own
<1>12. QED  BY <1>11 DEF u

\* What a step of memory leaves: the owners of pages outside S and the
\* directories but d are the same.
Step(m, n, d, o, u, S) ==
  /\ IsMem(n) /\ n.twice = m.twice
  /\ Own(n, u) /\ Same(o, u, S) /\ Others(m, n, d)

\* mappages() of a page in hand.
LEMMA Mapped ==
  ASSUME NEW m, NEW o, IsMem(m), Own(m, o), NEW d \in DOMAIN m.dirs,
         NEW v \in Nat, v \notin DOMAIN m.dirs[d].ptes, CanWalk(m, d, v),
         NEW page \in Pages, o[page] = Hand
  PROVE  LET n == mappages(m, d, v, page)
         IN  /\ HasEntry(m, n, d, v)
             /\ \E u : Step(m, n, d, o, u, {page}) /\ u[page] \notin Outer
<1> DEFINE i == v \div NPTENTRIES
           w == IF HasTable(m, d, v) THEN m ELSE TableTaken(m, d, i)
           n == mappages(m, d, v, page)
<1>1. i \in Int
  BY MemoryAssumption
<1>2. n = Entries(w, d, With(w.dirs[d].ptes, v, page))
  BY DEF mappages, Entries
<1>3. PICK u : /\ IsMem(w) /\ w.twice = m.twice /\ Own(w, u) /\ u[page] = Hand
               /\ Same(o, u, {page}) /\ DOMAIN w.dirs = DOMAIN m.dirs
               /\ \A x \in DOMAIN m.dirs : x # d => w.dirs[x] = m.dirs[x]
               /\ w.dirs[d].ptes = m.dirs[d].ptes
  <2>1. CASE HasTable(m, d, v)
    <3>1. Same(o, o, {page})
      BY DEF Same
    <3>2. WITNESS o
    <3>3. QED  BY <2>1, <3>1
  <2>2. CASE ~HasTable(m, d, v)
    <3>1. m.free # {} /\ i \notin DOMAIN m.dirs[d].tables
      BY <2>2 DEF CanWalk, HasTable
    <3> DEFINE u == Given(o, {kalloc(m)}, TableOf(d, i))
    <3>2. w = TableTaken(m, d, i)
      BY <2>2
    <3> HIDE DEF i, w
    <3>3. Own(w, u)
      BY <1>1, <3>1, <3>2, OwnTable
    <3>4. /\ IsMem(w) /\ w.twice = m.twice /\ DOMAIN w.dirs = DOMAIN m.dirs
          /\ \A x \in DOMAIN m.dirs : x # d => w.dirs[x] = m.dirs[x]
          /\ w.dirs[d].ptes = m.dirs[d].ptes
      BY <1>1, <3>1, <3>2, TableTakenIs
    <3>5. kalloc(m) \in Pages /\ o[kalloc(m)] = Idle /\ o \in [Pages -> Owner]
      BY <3>1, TakenIs DEF Own
    <3>6. Idle # Hand /\ Idle \notin Outer /\ TableOf(d, i) \notin Outer
      BY Tokens DEF Idle, Hand
    <3>7. u[page] = Hand /\ Same(o, u, {page})
      BY <3>5, <3>6 DEF Same, Given
    <3>8. WITNESS u
    <3>9. QED  BY <3>3, <3>4, <3>7
  <2>3. QED  BY <2>1, <2>2
<1> DEFINE z == Given(u, {page}, PageIn(d, v))
<1> HIDE DEF w
<1>31. /\ d \in DOMAIN w.dirs /\ v \notin DOMAIN w.dirs[d].ptes
       /\ IsMem(w) /\ Own(w, u) /\ u[page] = Hand
  BY <1>3
<1> HIDE DEF n
<1>4. HasEntry(w, n, d, v) /\ Own(n, z)
  BY <1>2, <1>31, OwnMapped
<1>5. z[page] \notin Outer /\ Same(o, z, {page})
  BY <1>3, Tokens DEF Same, Own, Given
<1>6. Others(m, n, d)
  BY <1>3, <1>4 DEF Others, HasEntry
<1>7. Step(m, n, d, o, z, {page})
  BY <1>3, <1>4, <1>5, <1>6 DEF Step, HasEntry
<1> HIDE DEF z, n
<1>8. HasEntry(m, n, d, v)
  BY <1>3, <1>4 DEF HasEntry
<1>9. QED  BY <1>5, <1>7, <1>8 DEF n

\* The same with no change to a directory.
Calm(m, n, o, u, S) ==
  /\ IsMem(n) /\ n.twice = m.twice /\ n.dirs = m.dirs
  /\ Own(n, u) /\ Same(o, u, S)

\* kfree() of pages that are not free.
LEMMA FreedIs ==
  ASSUME NEW m, IsMem(m), NEW S \in SUBSET Pages, S \cap m.free = {},
         NEW n, n = kfree(m, S)
  PROVE  /\ IsMem(n) /\ n.free = m.free \cup S /\ n.lost = m.lost
         /\ n.twice = m.twice /\ n.dirs = m.dirs
  BY DEF IsMem, kfree

\* kfree() of a kernel stack, of a pipe or of a page in hand.
LEMMA OneFreed ==
  ASSUME NEW m, NEW o, IsMem(m), Own(m, o), NEW page \in Pages, o[page] \in Kernel
  PROVE  Calm(m, kfree(m, {page}), o, Given(o, {page}, Idle), {page})
<1> DEFINE n == kfree(m, {page})
           S == {page}
<1>1. o[page] # Idle /\ o[page] \notin Tops
      /\ \A d, i : o[page] # TableOf(d, i) /\ o[page] # PageIn(d, i)
  BY Tokens
<1>2. S \in SUBSET Pages /\ S \cap m.free = {}
  BY <1>1 DEF Own
<1> HIDE DEF n, S
<1>3. /\ IsMem(n) /\ n.free = m.free \cup S /\ n.lost = m.lost
      /\ n.twice = m.twice /\ n.dirs = m.dirs
  BY <1>2, FreedIs DEF n, S
<1>4. page \notin m.lost
  BY Tokens DEF Own
<1>5. Gone(m, n, S)
  BY <1>1, <1>3 DEF Gone, Own, S
<1>6. /\ \A g \in Pages : g \in n.free <=> IF g \in S THEN Idle = Idle ELSE g \in m.free
      /\ \A g \in Pages : g \in n.lost <=> IF g \in S THEN Idle = Astray ELSE g \in m.lost
  BY <1>3, <1>4, Tokens DEF S
<1>7. Own(n, Given(o, S, Idle))
  BY <1>2, <1>5, <1>6, OwnGone
<1>8. Same(o, Given(o, S, Idle), S)
  BY DEF Same, Given
<1>9. QED  BY <1>3, <1>7, <1>8 DEF Calm, n, S

\* A page in hand that is forgotten.
LEMMA OneLost ==
  ASSUME NEW m, NEW o, IsMem(m), Own(m, o), NEW page \in Pages, o[page] = Hand,
         NEW n, n = [m EXCEPT !.lost = @ \cup {page}]
  PROVE  Calm(m, n, o, Given(o, {page}, Astray), {page})
<1> DEFINE S == {page}
<1>1. o[page] # Idle /\ o[page] \notin Tops
      /\ \A d, i : o[page] # TableOf(d, i) /\ o[page] # PageIn(d, i)
  BY Tokens DEF Kernel
<1> HIDE DEF S
<1>3. /\ IsMem(n) /\ n.free = m.free /\ n.lost = m.lost \cup S
      /\ n.twice = m.twice /\ n.dirs = m.dirs
  BY DEF IsMem, S
<1>4. page \notin m.free
  BY <1>1 DEF Own
<1>5. Gone(m, n, S)
  BY <1>1, <1>3 DEF Gone, Own, S
<1>6. /\ \A g \in Pages : g \in n.free <=> IF g \in S THEN Astray = Idle ELSE g \in m.free
      /\ \A g \in Pages : g \in n.lost <=> IF g \in S THEN Astray = Astray ELSE g \in m.lost
  BY <1>3, <1>4, Tokens DEF S
<1>7. Own(n, Given(o, S, Astray))
  BY <1>5, <1>6, OwnGone DEF S
<1>8. Same(o, Given(o, S, Astray), S)
  BY DEF Same, Given
<1>9. QED  BY <1>3, <1>7, <1>8 DEF Calm, S

\* A directory that passes to another owner.
LEMMA Retagged ==
  ASSUME NEW m, NEW o, IsMem(m), Own(m, o), NEW d \in DOMAIN m.dirs, NEW t \in Tops
  PROVE  Own(m, Given(o, {d}, t))
<1> DEFINE u == Given(o, {d}, t)
<1>1. d \in Pages /\ o[d] \in Tops /\ o \in [Pages -> Owner]
  BY DEF IsMem, Own
<1>2. /\ u \in [Pages -> Owner]
      /\ \A g \in Pages : u[g] = IF g = d THEN t ELSE o[g]
  BY <1>1, Tokens DEF Given
<1>3. \A s \in Tops : /\ s # Idle /\ s # Astray
                      /\ \A x, i : s # TableOf(x, i) /\ s # PageIn(x, i)
  BY Tokens
<1> HIDE DEF u
<1>4. /\ \A g \in Pages : g \in m.free <=> u[g] = Idle
      /\ \A g \in Pages : g \in m.lost <=> u[g] = Astray
      /\ \A g \in Pages : g \in DOMAIN m.dirs <=> u[g] \in Tops
  BY <1>1, <1>2, <1>3 DEF Own
<1>5. /\ \A x \in DOMAIN m.dirs : \A i \in DOMAIN m.dirs[x].tables :
           m.dirs[x].tables[i] \in Pages /\ u[m.dirs[x].tables[i]] = TableOf(x, i)
      /\ \A x \in DOMAIN m.dirs : \A v \in DOMAIN m.dirs[x].ptes :
           m.dirs[x].ptes[v] \in Pages /\ u[m.dirs[x].ptes[v]] = PageIn(x, v)
  BY <1>1, <1>2, <1>3 DEF Own
<1>6. \A g \in Pages, x \in Pages, i \in Int : u[g] = TableOf(x, i) =>
        /\ x \in DOMAIN m.dirs /\ i \in DOMAIN m.dirs[x].tables
        /\ m.dirs[x].tables[i] = g
  BY <1>1, <1>2, <1>3 DEF Own
<1>7. \A g \in Pages, x \in Pages, i \in Nat : u[g] = PageIn(x, i) =>
        /\ x \in DOMAIN m.dirs /\ i \in DOMAIN m.dirs[x].ptes
        /\ m.dirs[x].ptes[i] = g
  BY <1>1, <1>2, <1>3 DEF Own
<1>8. Own(m, u)
  BY <1>2, <1>4, <1>5, <1>6, <1>7 DEF Own
<1>9. QED  BY <1>8 DEF u

\* clearpteu() changes no page.
LEMMA Guarded ==
  ASSUME NEW m, NEW o, IsMem(m), Own(m, o), NEW d \in DOMAIN m.dirs, NEW v,
         NEW n, n = clearpteu(m, d, v)
  PROVE  /\ Step(m, n, d, o, o, {}) /\ DOMAIN n.dirs = DOMAIN m.dirs
         /\ n.dirs[d].ptes = m.dirs[d].ptes /\ n.dirs[d].tables = m.dirs[d].tables
<1>1. IsDir(m.dirs[d])
  BY DEF IsMem
<1>2. /\ n.free = m.free /\ n.lost = m.lost /\ n.twice = m.twice
      /\ n = [free |-> n.free, lost |-> n.lost, twice |-> n.twice, dirs |-> n.dirs]
      /\ n.dirs = [m.dirs EXCEPT ![d] = [m.dirs[d] EXCEPT !.guard = @ \cup {v}]]
  BY DEF IsMem, clearpteu
<1>3. /\ DOMAIN n.dirs = DOMAIN m.dirs
      /\ \A x \in DOMAIN m.dirs : x # d => n.dirs[x] = m.dirs[x]
      /\ n.dirs[d] = [m.dirs[d] EXCEPT !.guard = @ \cup {v}]
      /\ n.dirs = [x \in DOMAIN n.dirs |-> n.dirs[x]]
  BY <1>2 DEF IsMem
<1>4. /\ n.dirs[d].ptes = m.dirs[d].ptes /\ n.dirs[d].tables = m.dirs[d].tables
      /\ IsDir(n.dirs[d])
  BY <1>1, <1>3 DEF IsDir
<1>5. IsMem(n)
  BY <1>2, <1>3, <1>4 DEF IsMem
<1>6. /\ DOMAIN n.dirs = DOMAIN m.dirs
      /\ \A x \in DOMAIN m.dirs : /\ n.dirs[x].tables = m.dirs[x].tables
                                  /\ n.dirs[x].ptes = m.dirs[x].ptes
  BY <1>3, <1>4
<1>7. Own(n, o)
  BY <1>2, <1>6 DEF Own
<1>8. Same(o, o, {}) /\ Others(m, n, d)
  BY <1>3 DEF Same, Others
<1>9. QED  BY <1>2, <1>3, <1>4, <1>5, <1>7, <1>8 DEF Step

\* n is m without the entries of directory d in gone.
LacksEntries(m, n, d, gone) ==
  /\ DOMAIN n.dirs = DOMAIN m.dirs /\ n.dirs[d].tables = m.dirs[d].tables
  /\ DOMAIN n.dirs[d].ptes = DOMAIN m.dirs[d].ptes \ gone

\* The pages behind the entries gone.
Held(m, d, gone) == {m.dirs[d].ptes[v] : v \in gone}

\* Some entries of a directory go, and their pages are freed.
LEMMA Removed ==
  ASSUME NEW m, NEW o, IsMem(m), Own(m, o), NEW d \in DOMAIN m.dirs,
         NEW gone \in SUBSET DOMAIN m.dirs[d].ptes,
         NEW n, n = Entries(kfree(m, Held(m, d, gone)), d,
                            Restrict(m.dirs[d].ptes, DOMAIN m.dirs[d].ptes \ gone))
  PROVE  /\ Step(m, n, d, o, Given(o, Held(m, d, gone), Idle), {})
         /\ LacksEntries(m, n, d, gone)
<1> DEFINE S == Held(m, d, gone)
           ptes == m.dirs[d].ptes
           f == Restrict(ptes, DOMAIN ptes \ gone)
           w == kfree(m, S)
           u == Given(o, S, Idle)
<1>1. /\ \A v \in gone : ptes[v] \in S
      /\ \A g \in S : \E v \in gone : g = ptes[v]
  BY DEF Held
<1>2. /\ \A v \in DOMAIN ptes : ptes[v] \in Pages /\ o[ptes[v]] = PageIn(d, v)
      /\ d \in Pages /\ DOMAIN ptes \subseteq Nat
  BY DEF Own, IsMem, IsDir
<1> HIDE DEF S, ptes
<1>3. /\ S \in SUBSET Pages
      /\ \A g \in S : \E v \in gone : o[g] = PageIn(d, v)
  BY <1>1, <1>2 DEF ptes
<1>4. \A g \in S : o[g] # Idle /\ o[g] # Astray /\ o[g] \notin Outer /\ o[g] \notin Tops
  BY <1>3, Tokens
<1>5. S \cap m.free = {} /\ S \cap m.lost = {} /\ S \cap DOMAIN m.dirs = {}
  BY <1>3, <1>4 DEF Own
<1>6. /\ IsMem(w) /\ w.free = m.free \cup S /\ w.lost = m.lost
      /\ w.twice = m.twice /\ w.dirs = m.dirs
  BY <1>3, <1>5, FreedIs
<1>7. /\ DOMAIN f = DOMAIN ptes \ gone /\ \A v \in DOMAIN f : f[v] = ptes[v]
      /\ f = [x \in DOMAIN f |-> f[x]] /\ DOMAIN f \subseteq Nat
  BY <1>2 DEF Restrict
<1> HIDE DEF f, w, u
<1>8. n = Entries(w, d, f)
  BY DEF f, w, S, ptes
<1>9. d \in DOMAIN w.dirs
  BY <1>6
<1>10. /\ IsMem(n) /\ n.free = w.free /\ n.lost = w.lost /\ n.twice = w.twice
       /\ DOMAIN n.dirs = DOMAIN w.dirs
       /\ \A x \in DOMAIN w.dirs : x # d => n.dirs[x] = w.dirs[x]
       /\ n.dirs[d].ptes = f /\ n.dirs[d].tables = w.dirs[d].tables
  <2>1. HasEntries(w, n, d, f)
    BY <1>6, <1>7, <1>8, <1>9, PtesIs
  <2>2. QED  BY <2>1 DEF HasEntries
<1>11. /\ DOMAIN n.dirs = DOMAIN m.dirs \ S
       /\ \A x \in DOMAIN m.dirs \cap S : FALSE
       /\ \A x \in DOMAIN m.dirs : n.dirs[x].tables = m.dirs[x].tables
  BY <1>5, <1>6, <1>10
<1>12. ASSUME NEW x \in DOMAIN m.dirs, NEW j \in DOMAIN m.dirs[x].tables
       PROVE  m.dirs[x].tables[j] \notin S
  <2>1. o[m.dirs[x].tables[j]] = TableOf(x, j)
    BY DEF Own
  <2>2. QED  BY <1>3, <2>1, Tokens
<1>13. ASSUME NEW x \in DOMAIN m.dirs, x # d, NEW j \in DOMAIN m.dirs[x].ptes
       PROVE  m.dirs[x].ptes[j] \notin S
  <2>1. o[m.dirs[x].ptes[j]] = PageIn(x, j)
    BY DEF Own
  <2>2. QED  BY <1>3, <1>13, <2>1, Tokens
<1>14. ASSUME NEW v \in DOMAIN ptes, v \notin gone
       PROVE  ptes[v] \notin S
  <2>1. o[ptes[v]] = PageIn(d, v)
    BY <1>2
  <2>2. QED  BY <1>3, <1>14, <2>1, Tokens
<1>15. ASSUME NEW x \in DOMAIN n.dirs
       PROVE  /\ \A j : j \in DOMAIN n.dirs[x].ptes <=>
                          j \in DOMAIN m.dirs[x].ptes /\ m.dirs[x].ptes[j] \notin S
              /\ \A j \in DOMAIN n.dirs[x].ptes : n.dirs[x].ptes[j] = m.dirs[x].ptes[j]
  <2>1. CASE x = d
    BY <1>1, <1>7, <1>10, <1>14, <2>1 DEF ptes
  <2>2. CASE x # d
    BY <1>6, <1>10, <1>13, <2>2
  <2>3. QED  BY <2>1, <2>2
<1>16. Gone(m, n, S)
  BY <1>11, <1>12, <1>15 DEF Gone
<1>17. /\ \A g \in Pages : g \in n.free <=> IF g \in S THEN Idle = Idle ELSE g \in m.free
       /\ \A g \in Pages : g \in n.lost <=> IF g \in S THEN Idle = Astray ELSE g \in m.lost
  BY <1>5, <1>6, <1>10, Tokens
<1>18. Own(n, u)
  BY <1>3, <1>16, <1>17, OwnGone DEF u
<1>19. Same(o, u, {})
  BY <1>4, Tokens DEF Same, Given, u
<1>20. Others(m, n, d)
  BY <1>6, <1>10 DEF Others
<1>21. Step(m, n, d, o, u, {})
  BY <1>6, <1>10, <1>18, <1>19, <1>20 DEF Step
<1>22. LacksEntries(m, n, d, gone)
  BY <1>6, <1>7, <1>10 DEF LacksEntries, ptes
<1>23. QED  BY <1>21, <1>22 DEF u, S

\* The entries deallocuvm() frees.
Above(m, d, oldsz, newsz) ==
  {v \in DOMAIN m.dirs[d].ptes : PGROUNDUP(newsz) <= v * PGSIZE /\ v * PGSIZE < oldsz}

\* deallocuvm(): the entries between the sizes, and nothing else, are gone.
LEMMA Deallocated ==
  ASSUME NEW m, NEW o, IsMem(m), Own(m, o), NEW d \in DOMAIN m.dirs, NEW oldsz, NEW newsz
  PROVE  LET n == deallocuvm(m, d, oldsz, newsz)
             gone == IF newsz >= oldsz THEN {} ELSE Above(m, d, oldsz, newsz)
         IN  LacksEntries(m, n, d, gone) /\ \E u : Step(m, n, d, o, u, {})
<1> DEFINE n == deallocuvm(m, d, oldsz, newsz)
           gone == Above(m, d, oldsz, newsz)
<1>1. CASE newsz >= oldsz
  <2>1. n = m
    BY <1>1 DEF deallocuvm
  <2>2. Step(m, m, d, o, o, {}) /\ LacksEntries(m, m, d, {})
    BY DEF Step, LacksEntries, Same, Others
  <2>3. QED  BY <1>1, <2>1, <2>2
<1>2. CASE ~(newsz >= oldsz)
  <2>1. n = Entries(kfree(m, Held(m, d, gone)), d,
                    Restrict(m.dirs[d].ptes, DOMAIN m.dirs[d].ptes \ gone))
    BY <1>2 DEF deallocuvm, Entries, Held, Above
  <2>2. gone \in SUBSET DOMAIN m.dirs[d].ptes
    BY DEF Above
  <2> HIDE DEF n, gone
  <2>3. /\ Step(m, n, d, o, Given(o, Held(m, d, gone), Idle), {})
        /\ LacksEntries(m, n, d, gone)
    BY <2>1, <2>2, Removed
  <2>4. QED  BY <1>2, <2>3 DEF n, gone
<1>3. QED  BY <1>1, <1>2

\* A directory and its page tables.
Frame(m, d) == Range(m.dirs[d].tables) \cup {d}

\* A directory without pages goes, and its tables with it.
LEMMA DirGone ==
  ASSUME NEW m, NEW o, IsMem(m), Own(m, o), NEW d \in DOMAIN m.dirs,
         DOMAIN m.dirs[d].ptes = {},
         NEW n, n.dirs = Restrict(m.dirs, DOMAIN m.dirs \ {d})
  PROVE  /\ Gone(m, n, Frame(m, d)) /\ Frame(m, d) \in SUBSET Pages
         /\ Frame(m, d) \cap m.free = {} /\ Frame(m, d) \cap m.lost = {}
         /\ \A g \in Frame(m, d) : g # d => o[g] \notin Outer
         /\ Others(m, n, d) /\ d \notin DOMAIN n.dirs
<1> DEFINE S == Frame(m, d)
           tables == m.dirs[d].tables
<1>1. /\ \A i \in DOMAIN tables : tables[i] \in S
      /\ \A g \in S : g = d \/ \E i \in DOMAIN tables : g = tables[i]
      /\ d \in S
  BY DEF Frame, Range
<1>2. /\ \A i \in DOMAIN tables : tables[i] \in Pages /\ o[tables[i]] = TableOf(d, i)
      /\ d \in Pages /\ o[d] \in Tops
  BY DEF Own, IsMem
<1>3. /\ DOMAIN n.dirs = DOMAIN m.dirs \ {d}
      /\ \A x \in DOMAIN n.dirs : n.dirs[x] = m.dirs[x]
  BY DEF Restrict
<1> HIDE DEF S, tables
<1>4. /\ S \in SUBSET Pages
      /\ \A g \in S : g = d \/ \E i \in DOMAIN tables : o[g] = TableOf(d, i)
  BY <1>1, <1>2
<1>5. \A g \in S : g = d \/ (o[g] # Idle /\ o[g] # Astray /\ o[g] \notin Outer /\ o[g] \notin Tops)
  BY <1>4, Tokens
<1>51. o[d] # Idle /\ o[d] # Astray /\ \A x, i : o[d] # TableOf(x, i) /\ o[d] # PageIn(x, i)
  BY <1>2, Tokens
<1>6. S \cap m.free = {} /\ S \cap m.lost = {} /\ DOMAIN m.dirs \cap S = {d}
  BY <1>1, <1>2, <1>4, <1>5, <1>51 DEF Own
<1>7. ASSUME NEW x \in DOMAIN m.dirs, x # d, NEW j \in DOMAIN m.dirs[x].tables
      PROVE  m.dirs[x].tables[j] \notin S
  <2>1. o[m.dirs[x].tables[j]] = TableOf(x, j)
    BY DEF Own
  <2>2. QED  BY <1>4, <1>51, <1>7, <2>1, Tokens
<1>8. ASSUME NEW x \in DOMAIN m.dirs, x # d, NEW j \in DOMAIN m.dirs[x].ptes
      PROVE  m.dirs[x].ptes[j] \notin S
  <2>1. o[m.dirs[x].ptes[j]] = PageIn(x, j)
    BY DEF Own
  <2>2. QED  BY <1>4, <1>51, <2>1, Tokens
<1>9. DOMAIN n.dirs = DOMAIN m.dirs \ S
  BY <1>3, <1>6
<1>10. \A x \in DOMAIN m.dirs \cap S :
         /\ \A j \in DOMAIN m.dirs[x].tables : m.dirs[x].tables[j] \in S
         /\ \A j \in DOMAIN m.dirs[x].ptes : m.dirs[x].ptes[j] \in S
  BY <1>1, <1>6 DEF tables
<1>11. ASSUME NEW x \in DOMAIN n.dirs
       PROVE  /\ n.dirs[x] = m.dirs[x] /\ x \in DOMAIN m.dirs
              /\ \A j \in DOMAIN m.dirs[x].tables : m.dirs[x].tables[j] \notin S
              /\ \A j \in DOMAIN m.dirs[x].ptes : m.dirs[x].ptes[j] \notin S
  BY <1>3, <1>7, <1>8
<1>12. Gone(m, n, S)
  BY <1>9, <1>10, <1>11 DEF Gone
<1>13. Others(m, n, d) /\ d \notin DOMAIN n.dirs
  BY <1>3 DEF Others
<1>14. QED  BY <1>4, <1>5, <1>6, <1>12, <1>13 DEF S

\* What freevm() leaves: d is free, the other directories are the same.
LEMMA Freed ==
  ASSUME NEW m, NEW o, IsMem(m), Own(m, o), NEW d \in DOMAIN m.dirs,
         \A v \in DOMAIN m.dirs[d].ptes : v * PGSIZE < KERNBASE
  PROVE  \E u : /\ Step(m, freevm(m, d), d, o, u, {d}) /\ u[d] = Idle
                /\ d \notin DOMAIN freevm(m, d).dirs
<1> DEFINE w == deallocuvm(m, d, KERNBASE, 0)
           n == freevm(m, d)
           S == Frame(w, d)
           x1 == kfree(w, S)
<1>1. DOMAIN m.dirs[d].ptes \subseteq Nat /\ d \in Pages /\ DOMAIN m.dirs \subseteq Pages
  BY DEF IsMem, IsDir
<1>2. PGROUNDUP(0) = 0
  <2>1. Pgs(0) \in Nat /\ PGROUNDUP(0) = Pgs(0) * PGSIZE /\ PGROUNDUP(0) < PGSIZE
    BY RoundUp, MemoryAssumption
  <2>2. Pgs(0) < 1
    BY <2>1, MemoryAssumption
  <2>3. QED  BY <2>1, <2>2, MemoryAssumption
<1>3. ~(0 >= KERNBASE) /\ Above(m, d, KERNBASE, 0) = DOMAIN m.dirs[d].ptes
  <2>1. ASSUME NEW v \in DOMAIN m.dirs[d].ptes PROVE v \in Above(m, d, KERNBASE, 0)
    <3>1. v \in Nat /\ 0 <= v * PGSIZE
      BY <1>1, MemoryAssumption
    <3>2. QED  BY <1>2, <3>1 DEF Above
  <2>2. QED  BY <2>1, MemoryAssumption DEF Above
<1>4. PICK u : Step(m, w, d, o, u, {}) /\ LacksEntries(m, w, d, DOMAIN m.dirs[d].ptes)
  BY <1>3, Deallocated
<1>5. /\ IsMem(w) /\ Own(w, u) /\ w.twice = m.twice /\ d \in DOMAIN w.dirs
      /\ DOMAIN w.dirs[d].ptes = {} /\ DOMAIN w.dirs = DOMAIN m.dirs
      /\ \A x \in DOMAIN m.dirs : x # d => w.dirs[x] = m.dirs[x]
      /\ Same(o, u, {})
  BY <1>4 DEF Step, LacksEntries, Others
<1>6. n = Forgotten(x1, d)
  BY DEF freevm, Frame
<1> DEFINE n0 == [dirs |-> Restrict(w.dirs, DOMAIN w.dirs \ {d})]
<1>7. n0.dirs = Restrict(w.dirs, DOMAIN w.dirs \ {d})
  OBVIOUS
<1> HIDE DEF w, n, n0, S, x1
<1>8. /\ Gone(w, n0, Frame(w, d)) /\ Frame(w, d) \in SUBSET Pages
      /\ Frame(w, d) \cap w.free = {} /\ Frame(w, d) \cap w.lost = {}
      /\ \A g \in Frame(w, d) : g # d => u[g] \notin Outer
      /\ Others(w, n0, d) /\ d \notin DOMAIN n0.dirs
  BY <1>5, <1>7, DirGone
<1>9. /\ IsMem(x1) /\ x1.free = w.free \cup S /\ x1.lost = w.lost
      /\ x1.twice = w.twice /\ x1.dirs = w.dirs
  BY <1>5, <1>8, FreedIs DEF x1, S
<1>10. /\ n.free = x1.free /\ n.lost = x1.lost /\ n.twice = x1.twice
       /\ n.dirs = Restrict(w.dirs, DOMAIN w.dirs \ {d})
       /\ n = [free |-> n.free, lost |-> n.lost, twice |-> n.twice, dirs |-> n.dirs]
  BY <1>6, <1>9 DEF Forgotten, IsMem
<1>11. /\ n.dirs = [x \in DOMAIN n.dirs |-> n.dirs[x]]
       /\ DOMAIN n.dirs = DOMAIN w.dirs \ {d}
       /\ \A x \in DOMAIN n.dirs : n.dirs[x] = w.dirs[x]
  BY <1>10 DEF Restrict
<1>12. IsMem(n)
  BY <1>5, <1>9, <1>10, <1>11 DEF IsMem
<1>13. Gone(w, n, S) /\ Others(w, n, d) /\ d \notin DOMAIN n.dirs /\ d \in S
  <2>1. Gone(w, n, Frame(w, d)) /\ Others(w, n, d) /\ d \notin DOMAIN n.dirs
    BY <1>5, <1>10, DirGone
  <2>2. QED  BY <2>1 DEF S, Frame
<1>14. /\ \A g \in Pages : g \in n.free <=> IF g \in S THEN Idle = Idle ELSE g \in w.free
       /\ \A g \in Pages : g \in n.lost <=> IF g \in S THEN Idle = Astray ELSE g \in w.lost
  BY <1>8, <1>9, <1>10, Tokens DEF S
<1> DEFINE z == Given(u, S, Idle)
<1>15. Own(n, z)
  BY <1>5, <1>8, <1>13, <1>14, OwnGone DEF S
<1>16. z[d] = Idle
  BY <1>1, <1>13 DEF Given
<1>17. Same(o, z, {d})
  BY <1>5, <1>8, Tokens DEF Same, Given, S
<1>18. Others(m, n, d)
  BY <1>5, <1>13 DEF Others
<1> HIDE DEF z
<1>19. Step(m, n, d, o, z, {d})
  BY <1>5, <1>9, <1>10, <1>12, <1>15, <1>17, <1>18 DEF Step
<1>20. QED  BY <1>13, <1>16, <1>19 DEF n

\* A directory that setupkvm() forgets.
LEMMA Forsaken ==
  ASSUME NEW m, NEW o, IsMem(m), Own(m, o), NEW d \in DOMAIN m.dirs,
         DOMAIN m.dirs[d].ptes = {}
  PROVE  \E u : /\ Step(m, SetupLost(m, d), d, o, u, {d}) /\ u[d] = Astray
                /\ d \notin DOMAIN SetupLost(m, d).dirs
<1> DEFINE n == SetupLost(m, d)
           S == Frame(m, d)
<1>1. d \in Pages /\ DOMAIN m.dirs \subseteq Pages
  BY DEF IsMem
<1>2. /\ n.free = m.free /\ n.lost = m.lost \cup S /\ n.twice = m.twice
      /\ n.dirs = Restrict(m.dirs, DOMAIN m.dirs \ {d})
      /\ n = [free |-> n.free, lost |-> n.lost, twice |-> n.twice, dirs |-> n.dirs]
  <2> DEFINE k == [m EXCEPT !.lost = @ \cup Range(m.dirs[d].tables) \cup {d}]
  <2>1. /\ k.free = m.free /\ k.lost = m.lost \cup S /\ k.twice = m.twice
        /\ k.dirs = m.dirs
        /\ k = [free |-> k.free, lost |-> k.lost, twice |-> k.twice, dirs |-> k.dirs]
    BY DEF Frame, IsMem
  <2>2. n = Forgotten(k, d)
    BY DEF SetupLost
  <2> HIDE DEF k, n
  <2>3. QED  BY <2>1, <2>2 DEF Forgotten
<1> HIDE DEF n, S
<1>3. /\ n.dirs = [x \in DOMAIN n.dirs |-> n.dirs[x]]
      /\ DOMAIN n.dirs = DOMAIN m.dirs \ {d}
      /\ \A x \in DOMAIN n.dirs : n.dirs[x] = m.dirs[x]
  BY <1>2 DEF Restrict
<1>4. /\ Gone(m, n, Frame(m, d)) /\ Frame(m, d) \in SUBSET Pages
      /\ Frame(m, d) \cap m.free = {} /\ Frame(m, d) \cap m.lost = {}
      /\ \A g \in Frame(m, d) : g # d => o[g] \notin Outer
      /\ Others(m, n, d) /\ d \notin DOMAIN n.dirs
  BY <1>2, DirGone
<1>5. IsMem(n)
  BY <1>2, <1>3, <1>4 DEF IsMem, S
<1>6. /\ \A g \in Pages : g \in n.free <=> IF g \in S THEN Astray = Idle ELSE g \in m.free
      /\ \A g \in Pages : g \in n.lost <=> IF g \in S THEN Astray = Astray ELSE g \in m.lost
  BY <1>2, <1>4, Tokens DEF S
<1> DEFINE z == Given(o, S, Astray)
<1>7. Own(n, z)
  BY <1>4, <1>6, OwnGone DEF S
<1>8. z[d] = Astray
  BY <1>1 DEF Given, S, Frame
<1>9. Same(o, z, {d})
  BY <1>4, Tokens DEF Same, Given, S
<1> HIDE DEF z
<1>10. Step(m, n, d, o, z, {d})
  BY <1>2, <1>4, <1>5, <1>7, <1>9 DEF Step
<1>11. QED  BY <1>4, <1>8, <1>10 DEF n

-----------------------------------------------------------------------------
\* The owner of a page is the process that has it.
Holds(o, p, r) ==
  \A g \in Pages : /\ r.kstack = g <=> o[g] = StackOf(p)
                   /\ r.pgdir = g <=> o[g] = SpaceOf(p)
                   /\ r.nd = g <=> o[g] = DraftOf(p)

\* Memory m with the owners o, processes P, the pages R of pipes and H in hand.
Heap(m, o, P, R, H) ==
  /\ IsMem(m) /\ Own(m, o) /\ m.twice = {}
  /\ \A p \in Procs : Holds(o, p, P[p])
  /\ \A g \in Pages : (g \in R <=> o[g] = Ring) /\ (g \in H <=> o[g] = Hand)

\* The owners outside the address spaces differ from one another.
LEMMA Outers ==
  /\ Ring \in Outer /\ Hand \in Outer /\ Ring # Hand
  /\ \A p \in Procs : StackOf(p) \in Outer /\ SpaceOf(p) \in Outer /\ DraftOf(p) \in Outer
  /\ \A p \in Procs : StackOf(p) \in Kernel /\ SpaceOf(p) \in Tops /\ DraftOf(p) \in Tops
  /\ Ring \in Kernel /\ Hand \in Kernel
  /\ \A p : /\ StackOf(p) # Ring /\ SpaceOf(p) # Ring /\ DraftOf(p) # Ring
            /\ StackOf(p) # Hand /\ SpaceOf(p) # Hand /\ DraftOf(p) # Hand
  /\ \A p, q : /\ StackOf(p) # SpaceOf(q) /\ StackOf(p) # DraftOf(q)
               /\ SpaceOf(p) # DraftOf(q)
               /\ StackOf(p) = StackOf(q) => p = q
               /\ SpaceOf(p) = SpaceOf(q) => p = q
               /\ DraftOf(p) = DraftOf(q) => p = q
BY DEF Outer, Kernel, Tops, Ring, Hand, StackOf, SpaceOf, DraftOf

\* What a process has, x before, when page gets another owner.
After(x, page, mine) == IF mine THEN page ELSE IF x = page THEN NoPage ELSE x

\* From P to Q, page passes to the owner t.
Moved(P, Q, page, t) == \A q \in Procs :
  /\ Q[q].kstack = After(P[q].kstack, page, t = StackOf(q))
  /\ Q[q].pgdir = After(P[q].pgdir, page, t = SpaceOf(q))
  /\ Q[q].nd = After(P[q].nd, page, t = DraftOf(q))
  /\ t = StackOf(q) => P[q].kstack \in {NoPage, page}
  /\ t = SpaceOf(q) => P[q].pgdir \in {NoPage, page}
  /\ t = DraftOf(q) => P[q].nd \in {NoPage, page}

\* One page passes to the owner t.
LEMMA Transfer ==
  ASSUME NEW m, NEW o, NEW P, NEW R, NEW H, Heap(m, o, P, R, H),
         NEW n, NEW u, NEW Q, NEW R1, NEW H1, NEW page \in Pages, NEW t,
         IsMem(n), Own(n, u), n.twice = m.twice, Same(o, u, {page}), u[page] = t,
         Moved(P, Q, page, t),
         R1 = IF t = Ring THEN R \cup {page} ELSE R \ {page},
         H1 = IF t = Hand THEN H \cup {page} ELSE H \ {page}
  PROVE  Heap(n, u, Q, R1, H1)
<1>0. page # NoPage
  BY MemoryAssumption DEF Pages, NoPage
<1>1. \A g \in Pages : g # page =>
        \A s \in Outer : u[g] = s <=> o[g] = s
  BY DEF Same
<1>2. ASSUME NEW p \in Procs, NEW g \in Pages
      PROVE  /\ Q[p].kstack = g <=> u[g] = StackOf(p)
             /\ Q[p].pgdir = g <=> u[g] = SpaceOf(p)
             /\ Q[p].nd = g <=> u[g] = DraftOf(p)
  <2>1. /\ P[p].kstack = g <=> o[g] = StackOf(p)
        /\ P[p].pgdir = g <=> o[g] = SpaceOf(p)
        /\ P[p].nd = g <=> o[g] = DraftOf(p)
    BY DEF Heap, Holds
  <2>2. g # NoPage
    BY MemoryAssumption DEF Pages, NoPage
  <2>3. CASE g = page
    BY <1>0, <2>1, <2>2, <2>3 DEF Moved, After
  <2>4. CASE g # page
    <3>1. /\ o[g] = StackOf(p) <=> u[g] = StackOf(p)
          /\ o[g] = SpaceOf(p) <=> u[g] = SpaceOf(p)
          /\ o[g] = DraftOf(p) <=> u[g] = DraftOf(p)
      BY <1>1, <2>4, Outers
    <3>2. QED  BY <1>0, <2>1, <2>2, <2>4, <3>1 DEF Moved, After
  <2>5. QED  BY <2>3, <2>4
<1>3. ASSUME NEW g \in Pages
      PROVE  (g \in R1 <=> u[g] = Ring) /\ (g \in H1 <=> u[g] = Hand)
  <2>1. (g \in R <=> o[g] = Ring) /\ (g \in H <=> o[g] = Hand)
    BY DEF Heap
  <2>2. CASE g = page
    BY <2>1, <2>2
  <2>3. CASE g # page
    <3>1. (o[g] = Ring <=> u[g] = Ring) /\ (o[g] = Hand <=> u[g] = Hand)
      BY <1>1, <2>3, Outers
    <3>2. QED  BY <2>1, <2>3, <3>1
  <2>4. QED  BY <2>2, <2>3
<1>4. n.twice = {}
  BY DEF Heap
<1>5. QED  BY <1>2, <1>3, <1>4 DEF Heap, Holds

\* No process notices a step that changes no owner it sees.
LEMMA Quiet ==
  ASSUME NEW m, NEW o, NEW P, NEW R, NEW H, Heap(m, o, P, R, H),
         NEW n, NEW u, IsMem(n), Own(n, u), n.twice = m.twice, Same(o, u, {})
  PROVE  Heap(n, u, P, R, H)
<1>1. \A g \in Pages : \A s \in Outer : u[g] = s <=> o[g] = s
  BY DEF Same
<1>2. ASSUME NEW p \in Procs PROVE Holds(u, p, P[p])
  BY <1>1, Outers DEF Heap, Holds
<1>3. \A g \in Pages : (g \in R <=> u[g] = Ring) /\ (g \in H <=> u[g] = Hand)
  BY <1>1, Outers DEF Heap
<1>4. QED  BY <1>2, <1>3 DEF Heap

\* Tables of processes that hold the same pages, but for one.
NewStack(P, Q, p, x) == \A q \in Procs :
  /\ Q[q].kstack = IF q = p THEN x ELSE P[q].kstack
  /\ Q[q].pgdir = P[q].pgdir /\ Q[q].nd = P[q].nd

\* The same for the directory of p,
NewSpace(P, Q, p, x) == \A q \in Procs :
  /\ Q[q].pgdir = IF q = p THEN x ELSE P[q].pgdir
  /\ Q[q].kstack = P[q].kstack /\ Q[q].nd = P[q].nd

\* and for its directory nd.
NewDraft(P, Q, p, x) == \A q \in Procs :
  /\ Q[q].nd = IF q = p THEN x ELSE P[q].nd
  /\ Q[q].kstack = P[q].kstack /\ Q[q].pgdir = P[q].pgdir

\* No process changes what it has.
SameHold(P, Q) == \A q \in Procs :
  Q[q].kstack = P[q].kstack /\ Q[q].pgdir = P[q].pgdir /\ Q[q].nd = P[q].nd

\* A step that changes no stack and no directory of a process.
LEMMA Unmoved ==
  ASSUME NEW m, NEW o, NEW P, NEW R, NEW H, Heap(m, o, P, R, H), NEW Q, SameHold(P, Q)
  PROVE  Heap(m, o, Q, R, H)
<1>1. ASSUME NEW q \in Procs PROVE Holds(o, q, Q[q])
  BY DEF Heap, Holds, SameHold
<1>2. QED  BY <1>1 DEF Heap

\* A page that no process has.
LEMMA Nobodys ==
  ASSUME NEW m, NEW o, NEW P, NEW R, NEW H, Heap(m, o, P, R, H), NEW page \in Pages,
         o[page] \notin Outer \/ o[page] \in {Ring, Hand}
  PROVE  \A q \in Procs : P[q].kstack # page /\ P[q].pgdir # page /\ P[q].nd # page
<1>1. ASSUME NEW q \in Procs
      PROVE  P[q].kstack # page /\ P[q].pgdir # page /\ P[q].nd # page
  <2>1. o[page] # StackOf(q) /\ o[page] # SpaceOf(q) /\ o[page] # DraftOf(q)
    BY Outers
  <2>2. QED  BY <2>1 DEF Heap, Holds
<1>2. QED  BY <1>1

\* A page that a process has is nobody else's.
OnlyStack(m, o, P, p, g) ==
  /\ IsMem(m) /\ Own(m, o) /\ o[g] = StackOf(p)
  /\ \A q \in Procs : (q # p => P[q].kstack # g) /\ P[q].pgdir # g /\ P[q].nd # g

\* The same for a directory,
OnlySpace(m, o, P, p, g) ==
  /\ IsMem(m) /\ Own(m, o) /\ o[g] = SpaceOf(p) /\ g \in DOMAIN m.dirs
  /\ \A q \in Procs : (q # p => P[q].pgdir # g) /\ P[q].kstack # g /\ P[q].nd # g

\* and for a directory nd.
OnlyDraft(m, o, P, p, g) ==
  /\ IsMem(m) /\ Own(m, o) /\ o[g] = DraftOf(p) /\ g \in DOMAIN m.dirs
  /\ \A q \in Procs : (q # p => P[q].nd # g) /\ P[q].kstack # g /\ P[q].pgdir # g

\* A page that a process names is nobody else's.
LEMMA Somebodys ==
  ASSUME NEW m, NEW o, NEW P, NEW R, NEW H, Heap(m, o, P, R, H), NEW g \in Pages,
         NEW p \in Procs
  PROVE  /\ P[p].kstack = g => OnlyStack(m, o, P, p, g)
         /\ P[p].pgdir = g => OnlySpace(m, o, P, p, g)
         /\ P[p].nd = g => OnlyDraft(m, o, P, p, g)
<1>1. \A q \in Procs : /\ P[q].kstack = g <=> o[g] = StackOf(q)
                       /\ P[q].pgdir = g <=> o[g] = SpaceOf(q)
                       /\ P[q].nd = g <=> o[g] = DraftOf(q)
  BY DEF Heap, Holds
<1>2. IsMem(m) /\ Own(m, o) /\ (o[g] \in Tops => g \in DOMAIN m.dirs)
  BY DEF Heap, Own
<1>3. P[p].kstack = g => OnlyStack(m, o, P, p, g)
  BY <1>1, <1>2, Outers DEF OnlyStack
<1>4. P[p].pgdir = g => OnlySpace(m, o, P, p, g)
  BY <1>1, <1>2, Outers DEF OnlySpace
<1>5. P[p].nd = g => OnlyDraft(m, o, P, p, g)
  BY <1>1, <1>2, Outers DEF OnlyDraft
<1>6. QED  BY <1>3, <1>4, <1>5

\* kalloc(): the page is in hand.
LEMMA HeapTake ==
  ASSUME NEW m, NEW o, NEW P, NEW R, Heap(m, o, P, R, {}), m.free # {}
  PROVE  Heap(Taken(m), Given(o, {kalloc(m)}, Hand), P, R, {kalloc(m)})
<1> DEFINE page == kalloc(m)
           u == Given(o, {page}, Hand)
<1>1. IsMem(m) /\ Own(m, o)
  BY DEF Heap
<1>2. page \in Pages /\ page \in m.free /\ IsMem(Taken(m)) /\ Taken(m).twice = m.twice
  BY <1>1, TakenIs
<1>3. o[page] = Idle /\ o[page] \notin Outer /\ o[page] # Ring
  BY <1>1, <1>2, Tokens, Outers DEF Own
<1>4. Own(Taken(m), u)
  BY <1>1, OwnTaken, Outers
<1>5. u[page] = Hand /\ Same(o, u, {page})
  BY <1>2 DEF Given, Same
<1> HIDE DEF page, u
<1>6. \A q \in Procs : P[q].kstack # page /\ P[q].pgdir # page /\ P[q].nd # page
  BY <1>2, <1>3, Nobodys
<1>7. Moved(P, P, page, Hand)
  BY <1>6, Outers DEF Moved, After
<1>8. R = R \ {page} /\ {page} = {} \cup {page}
  BY <1>2, <1>3 DEF Heap
<1>9. Heap(Taken(m), u, P, R, {page})
  BY <1>2, <1>4, <1>5, <1>7, <1>8, Transfer, Outers
<1>10. QED  BY <1>9 DEF page, u

\* kalloc() of a kernel stack.
LEMMA HeapStack ==
  ASSUME NEW m, NEW o, NEW P, NEW R, Heap(m, o, P, R, {}), m.free # {},
         NEW p \in Procs, P[p].kstack = NoPage, NEW Q, NewStack(P, Q, p, kalloc(m))
  PROVE  Heap(Taken(m), Given(o, {kalloc(m)}, StackOf(p)), Q, R, {})
<1> DEFINE page == kalloc(m)
           u == Given(o, {page}, StackOf(p))
<1>1. IsMem(m) /\ Own(m, o)
  BY DEF Heap
<1>2. page \in Pages /\ page \in m.free /\ IsMem(Taken(m)) /\ Taken(m).twice = m.twice
  BY <1>1, TakenIs
<1>3. o[page] = Idle /\ o[page] \notin Outer /\ o[page] # Ring
  BY <1>1, <1>2, Tokens, Outers DEF Own
<1>4. Own(Taken(m), u)
  BY <1>1, OwnTaken, Outers
<1>5. u[page] = StackOf(p) /\ Same(o, u, {page})
  BY <1>2 DEF Given, Same
<1> HIDE DEF u
<1>6. \A q \in Procs : P[q].kstack # page /\ P[q].pgdir # page /\ P[q].nd # page
  BY <1>2, <1>3, Nobodys
<1>7. Moved(P, Q, page, StackOf(p))
  BY <1>6, Outers DEF Moved, After, NewStack
<1> HIDE DEF page
<1>8. R = R \ {page} /\ {} = {} \ {page}
  BY <1>2, <1>3 DEF Heap
<1>9. Heap(Taken(m), u, Q, R, {})
  BY <1>2, <1>4, <1>5, <1>7, <1>8, Transfer, Outers
<1>10. QED  BY <1>9 DEF page, u

\* kalloc() of a pipe.
LEMMA HeapRing ==
  ASSUME NEW m, NEW o, NEW P, NEW R, Heap(m, o, P, R, {}), m.free # {}
  PROVE  /\ Heap(Taken(m), Given(o, {kalloc(m)}, Ring), P, R \cup {kalloc(m)}, {})
         /\ kalloc(m) \notin R
<1> DEFINE page == kalloc(m)
           u == Given(o, {page}, Ring)
<1>1. IsMem(m) /\ Own(m, o)
  BY DEF Heap
<1>2. page \in Pages /\ page \in m.free /\ IsMem(Taken(m)) /\ Taken(m).twice = m.twice
  BY <1>1, TakenIs
<1>3. o[page] = Idle /\ o[page] \notin Outer /\ o[page] # Ring
  BY <1>1, <1>2, Tokens, Outers DEF Own
<1>4. Own(Taken(m), u)
  BY <1>1, OwnTaken, Outers
<1>5. u[page] = Ring /\ Same(o, u, {page})
  BY <1>2 DEF Given, Same
<1> HIDE DEF page, u
<1>6. \A q \in Procs : P[q].kstack # page /\ P[q].pgdir # page /\ P[q].nd # page
  BY <1>2, <1>3, Nobodys
<1>7. Moved(P, P, page, Ring)
  BY <1>6, Outers DEF Moved, After
<1>8. page \notin R /\ {} = {} \ {page}
  BY <1>2, <1>3 DEF Heap
<1>9. Heap(Taken(m), u, P, R \cup {page}, {})
  BY <1>2, <1>4, <1>5, <1>7, <1>8, Transfer, Outers
<1>10. QED  BY <1>8, <1>9 DEF page, u

\* kalloc() of a directory.
LEMMA HeapDir ==
  ASSUME NEW m, NEW o, NEW P, NEW R, Heap(m, o, P, R, {}), m.free # {},
         NEW p \in Procs, P[p].nd = NoPage, NEW Q, NewDraft(P, Q, p, kalloc(m))
  PROVE  Heap(DirTaken(m), Given(o, {kalloc(m)}, DraftOf(p)), Q, R, {})
<1> DEFINE page == kalloc(m)
           u == Given(o, {page}, DraftOf(p))
<1>1. IsMem(m) /\ Own(m, o)
  BY DEF Heap
<1>2. page \in Pages /\ page \in m.free
  BY <1>1, TakenIs
<1>3. o[page] = Idle /\ o[page] \notin Outer /\ o[page] # Ring
  BY <1>1, <1>2, Tokens, Outers DEF Own
<1>4. Own(DirTaken(m), u) /\ kalloc(m) \notin DOMAIN m.dirs
  BY <1>1, OwnDir, Outers
<1>41. IsMem(DirTaken(m)) /\ DirTaken(m).twice = m.twice
  BY <1>1, <1>4, DirTakenIs
<1>5. u[page] = DraftOf(p) /\ Same(o, u, {page})
  BY <1>2 DEF Given, Same
<1> HIDE DEF u
<1>6. \A q \in Procs : P[q].kstack # page /\ P[q].pgdir # page /\ P[q].nd # page
  BY <1>2, <1>3, Nobodys
<1>7. Moved(P, Q, page, DraftOf(p))
  BY <1>6, Outers DEF Moved, After, NewDraft
<1> HIDE DEF page
<1>8. R = R \ {page} /\ {} = {} \ {page}
  BY <1>2, <1>3 DEF Heap
<1>9. Heap(DirTaken(m), u, Q, R, {})
  BY <1>2, <1>4, <1>41, <1>5, <1>7, <1>8, Transfer, Outers
<1>10. QED  BY <1>9 DEF page, u

\* kalloc() of a page table.
LEMMA HeapTable ==
  ASSUME NEW m, NEW o, NEW P, NEW R, Heap(m, o, P, R, {}), m.free # {},
         NEW d \in DOMAIN m.dirs, NEW i \in Int, i \notin DOMAIN m.dirs[d].tables
  PROVE  Heap(TableTaken(m, d, i), Given(o, {kalloc(m)}, TableOf(d, i)), P, R, {})
<1> DEFINE u == Given(o, {kalloc(m)}, TableOf(d, i))
           n == TableTaken(m, d, i)
<1>1. IsMem(m) /\ Own(m, o)
  BY DEF Heap
<1>2. kalloc(m) \in Pages /\ kalloc(m) \in m.free
  BY <1>1, TakenIs
<1>3. o[kalloc(m)] = Idle
  BY <1>1, <1>2 DEF Own
<1>4. Own(n, u)
  BY <1>1, OwnTable
<1>5. IsMem(n) /\ n.twice = m.twice
  BY <1>1, TableTakenIs
<1>6. Same(o, u, {})
  BY <1>2, <1>3, Tokens DEF Given, Same
<1> HIDE DEF u, n
<1>7. Heap(n, u, P, R, {})
  BY <1>4, <1>5, <1>6, Quiet
<1>8. QED  BY <1>7 DEF n, u

\* mappages() of the page in hand.
LEMMA HeapMap ==
  ASSUME NEW m, NEW o, NEW P, NEW R, NEW page \in Pages, Heap(m, o, P, R, {page}),
         NEW d \in DOMAIN m.dirs, NEW v \in Nat, v \notin DOMAIN m.dirs[d].ptes,
         CanWalk(m, d, v)
  PROVE  LET n == mappages(m, d, v, page)
         IN  HasEntry(m, n, d, v) /\ \E u : Heap(n, u, P, R, {})
<1> DEFINE n == mappages(m, d, v, page)
<1>1. IsMem(m) /\ Own(m, o) /\ o[page] = Hand
  BY DEF Heap
<1>2. PICK u : Step(m, n, d, o, u, {page}) /\ u[page] \notin Outer
  BY <1>1, Mapped
<1>3. HasEntry(m, n, d, v)
  BY <1>1, Mapped
<1> HIDE DEF n
<1>4. \A q \in Procs : P[q].kstack # page /\ P[q].pgdir # page /\ P[q].nd # page
  BY <1>1, Nobodys
<1>5. \A q \in Procs : u[page] # StackOf(q) /\ u[page] # SpaceOf(q) /\ u[page] # DraftOf(q)
  BY <1>2, Outers
<1>6. Moved(P, P, page, u[page])
  BY <1>4, <1>5 DEF Moved, After
<1>7. R = R \ {page} /\ {} = {page} \ {page} /\ u[page] # Ring /\ u[page] # Hand
  BY <1>1, <1>2, Outers DEF Heap
<1>8. IsMem(n) /\ Own(n, u) /\ n.twice = m.twice /\ Same(o, u, {page})
  BY <1>2 DEF Step
<1>9. Heap(n, u, P, R, {})
  BY <1>6, <1>7, <1>8, Transfer
<1>10. QED  BY <1>3, <1>9 DEF n

\* kfree() of a kernel stack.
LEMMA HeapStackFreed ==
  ASSUME NEW m, NEW o, NEW P, NEW R, NEW H, Heap(m, o, P, R, H),
         NEW p \in Procs, P[p].kstack \in Pages, NEW Q, NewStack(P, Q, p, NoPage),
         NEW n, n = kfree(m, {P[p].kstack})
  PROVE  n.dirs = m.dirs /\ \E u : Heap(n, u, Q, R, H)
<1> DEFINE page == P[p].kstack
           u == Given(o, {page}, Idle)
<1>1. /\ IsMem(m) /\ Own(m, o) /\ o[page] = StackOf(p)
      /\ \A q \in Procs : /\ q # p => P[q].kstack # page
                          /\ P[q].pgdir # page /\ P[q].nd # page
  <2>1. OnlyStack(m, o, P, p, page)
    BY Somebodys
  <2>2. QED  BY <2>1 DEF OnlyStack
<1>2. Calm(m, n, o, u, {page})
  BY <1>1, OneFreed, Outers
<1>3. /\ IsMem(n) /\ n.twice = m.twice /\ n.dirs = m.dirs /\ Own(n, u)
      /\ Same(o, u, {page}) /\ u[page] = Idle
  BY <1>2 DEF Calm, Given
<1>4. /\ Idle # Ring /\ Idle # Hand
      /\ \A q \in Procs : Idle # StackOf(q) /\ Idle # SpaceOf(q) /\ Idle # DraftOf(q)
  BY Tokens, Outers
<1>5. Moved(P, Q, page, Idle)
  BY <1>1, <1>4 DEF Moved, After, NewStack
<1> HIDE DEF u
<1>6. R = R \ {page} /\ H = H \ {page}
  BY <1>1, Outers DEF Heap
<1>7. Heap(n, u, Q, R, H)
  BY <1>3, <1>4, <1>5, <1>6, Transfer
<1>8. QED  BY <1>3, <1>7

\* kfree() of a pipe.
LEMMA HeapRingFreed ==
  ASSUME NEW m, NEW o, NEW P, NEW R, Heap(m, o, P, R, {}), NEW page \in Pages, page \in R,
         NEW n, n = kfree(m, {page})
  PROVE  n.dirs = m.dirs /\ \E u : Heap(n, u, P, R \ {page}, {})
<1> DEFINE u == Given(o, {page}, Idle)
<1>1. IsMem(m) /\ Own(m, o) /\ o[page] = Ring
  BY DEF Heap
<1>2. Calm(m, n, o, u, {page})
  BY <1>1, OneFreed, Outers
<1>3. /\ IsMem(n) /\ n.twice = m.twice /\ n.dirs = m.dirs /\ Own(n, u)
      /\ Same(o, u, {page}) /\ u[page] = Idle
  BY <1>2 DEF Calm, Given
<1>4. /\ Idle # Ring /\ Idle # Hand
      /\ \A q \in Procs : Idle # StackOf(q) /\ Idle # SpaceOf(q) /\ Idle # DraftOf(q)
  BY Tokens, Outers
<1>41. \A q \in Procs : P[q].kstack # page /\ P[q].pgdir # page /\ P[q].nd # page
  BY <1>1, Nobodys
<1>5. Moved(P, P, page, Idle)
  BY <1>4, <1>41 DEF Moved, After
<1> HIDE DEF u
<1>6. {} = {} \ {page}
  OBVIOUS
<1>7. Heap(n, u, P, R \ {page}, {})
  BY <1>3, <1>4, <1>5, <1>6, Transfer
<1>8. QED  BY <1>3, <1>7

\* The page in hand is freed, or lost.
LEMMA HeapHandGone ==
  ASSUME NEW m, NEW o, NEW P, NEW R, NEW page \in Pages, Heap(m, o, P, R, {page}),
         NEW n, n = kfree(m, {page}) \/ n = [m EXCEPT !.lost = @ \cup {page}]
  PROVE  n.dirs = m.dirs /\ \E u : Heap(n, u, P, R, {})
<1>1. IsMem(m) /\ Own(m, o) /\ o[page] = Hand
  BY DEF Heap
<1>2. PICK t \in {Idle, Astray} : Calm(m, n, o, Given(o, {page}, t), {page})
  <2>1. CASE n = kfree(m, {page})
    <3>1. Calm(m, n, o, Given(o, {page}, Idle), {page})
      BY <1>1, <2>1, OneFreed, Outers
    <3>2. QED  BY <3>1
  <2>2. CASE n = [m EXCEPT !.lost = @ \cup {page}]
    <3>1. Calm(m, n, o, Given(o, {page}, Astray), {page})
      BY <1>1, <2>2, OneLost
    <3>2. QED  BY <3>1
  <2>3. QED  BY <2>1, <2>2
<1> DEFINE u == Given(o, {page}, t)
<1>3. /\ IsMem(n) /\ n.twice = m.twice /\ n.dirs = m.dirs /\ Own(n, u)
      /\ Same(o, u, {page}) /\ u[page] = t
  BY <1>2 DEF Calm, Given
<1>4. /\ t # Ring /\ t # Hand
      /\ \A q \in Procs : t # StackOf(q) /\ t # SpaceOf(q) /\ t # DraftOf(q)
  BY Tokens, Outers
<1>41. \A q \in Procs : P[q].kstack # page /\ P[q].pgdir # page /\ P[q].nd # page
  BY <1>1, Nobodys
<1>5. Moved(P, P, page, t)
  BY <1>4, <1>41 DEF Moved, After
<1> HIDE DEF u
<1>6. {} = {page} \ {page} /\ R = R \ {page}
  BY <1>1, Outers DEF Heap
<1>7. Heap(n, u, P, R, {})
  BY <1>3, <1>4, <1>5, <1>6, Transfer
<1>8. QED  BY <1>3, <1>7

\* deallocuvm()
LEMMA HeapDealloc ==
  ASSUME NEW m, NEW o, NEW P, NEW R, NEW H, Heap(m, o, P, R, H), NEW d \in DOMAIN m.dirs,
         NEW oldsz, NEW newsz, NEW n, n = deallocuvm(m, d, oldsz, newsz)
  PROVE  /\ LacksEntries(m, n, d, IF newsz >= oldsz THEN {} ELSE Above(m, d, oldsz, newsz))
         /\ Others(m, n, d) /\ \E u : Heap(n, u, P, R, H)
<1>1. IsMem(m) /\ Own(m, o)
  BY DEF Heap
<1>2. PICK u : Step(m, n, d, o, u, {})
  BY <1>1, Deallocated
<1>3. LacksEntries(m, n, d, IF newsz >= oldsz THEN {} ELSE Above(m, d, oldsz, newsz))
  BY <1>1, Deallocated
<1>4. IsMem(n) /\ Own(n, u) /\ n.twice = m.twice /\ Same(o, u, {}) /\ Others(m, n, d)
  BY <1>2 DEF Step
<1>5. Heap(n, u, P, R, H)
  BY <1>4, Quiet
<1>6. QED  BY <1>3, <1>4, <1>5

\* clearpteu()
LEMMA HeapGuard ==
  ASSUME NEW m, NEW o, NEW P, NEW R, Heap(m, o, P, R, {}), NEW d \in DOMAIN m.dirs,
         NEW v, NEW n, n = clearpteu(m, d, v)
  PROVE  Heap(n, o, P, R, {}) /\ LacksEntries(m, n, d, {}) /\ Others(m, n, d)
<1>1. IsMem(m) /\ Own(m, o)
  BY DEF Heap
<1>2. /\ Step(m, n, d, o, o, {}) /\ DOMAIN n.dirs = DOMAIN m.dirs
      /\ n.dirs[d].ptes = m.dirs[d].ptes /\ n.dirs[d].tables = m.dirs[d].tables
  BY <1>1, Guarded
<1>3. IsMem(n) /\ Own(n, o) /\ n.twice = m.twice /\ Same(o, o, {}) /\ Others(m, n, d)
  BY <1>2 DEF Step
<1>4. Heap(n, o, P, R, {})
  BY <1>3, Quiet
<1>5. LacksEntries(m, n, d, {})
  BY <1>2 DEF LacksEntries
<1>6. QED  BY <1>3, <1>4, <1>5

\* All entries of d are for pages below KERNBASE.
Low(m, d) == \A v \in DOMAIN m.dirs[d].ptes : v * PGSIZE < KERNBASE

\* A directory is freed, or forgotten while it is empty.
DraftEnds(m, n, d) ==
  \/ n = freevm(m, d) /\ Low(m, d)
  \/ n = SetupLost(m, d) /\ DOMAIN m.dirs[d].ptes = {}

\* The directory that p was making goes.
LEMMA HeapDraftGone ==
  ASSUME NEW m, NEW o, NEW P, NEW R, NEW H, Heap(m, o, P, R, H),
         NEW p \in Procs, NEW d \in Pages, P[p].nd = d,
         NEW Q, NewDraft(P, Q, p, NoPage),
         NEW n, DraftEnds(m, n, d)
  PROVE  Others(m, n, d) /\ d \notin DOMAIN n.dirs /\ \E u : Heap(n, u, Q, R, H)
<1>1. /\ IsMem(m) /\ Own(m, o) /\ o[d] = DraftOf(p) /\ d \in DOMAIN m.dirs
      /\ \A q \in Procs : /\ q # p => P[q].nd # d
                          /\ P[q].kstack # d /\ P[q].pgdir # d
  <2>1. OnlyDraft(m, o, P, p, d)
    BY Somebodys
  <2>2. QED  BY <2>1 DEF OnlyDraft
<1>2. PICK u : /\ Step(m, n, d, o, u, {d}) /\ d \notin DOMAIN n.dirs
               /\ u[d] \in {Idle, Astray}
  <2>1. CASE n = freevm(m, d) /\ Low(m, d)
    BY ZenonT(60), <1>1, <2>1, Freed DEF Low
  <2>2. CASE n = SetupLost(m, d) /\ DOMAIN m.dirs[d].ptes = {}
    BY <1>1, <2>2, Forsaken
  <2>3. QED  BY <2>1, <2>2 DEF DraftEnds
<1>3. IsMem(n) /\ n.twice = m.twice /\ Own(n, u) /\ Same(o, u, {d}) /\ Others(m, n, d)
  BY <1>2 DEF Step
<1> DEFINE t == u[d]
<1>4. /\ t # Ring /\ t # Hand
      /\ \A q \in Procs : t # StackOf(q) /\ t # SpaceOf(q) /\ t # DraftOf(q)
  BY <1>2, Tokens, Outers
<1>5. Moved(P, Q, d, t)
  BY <1>1, <1>4 DEF Moved, After, NewDraft
<1>6. R = R \ {d} /\ H = H \ {d}
  BY <1>1, Outers DEF Heap
<1>7. Heap(n, u, Q, R, H)
  BY <1>2, <1>3, <1>4, <1>5, <1>6, Transfer
<1>8. QED  BY <1>2, <1>3, <1>7

\* The address space of p is freed.
LEMMA HeapSpaceGone ==
  ASSUME NEW m, NEW o, NEW P, NEW R, NEW H, Heap(m, o, P, R, H),
         NEW p \in Procs, NEW d \in Pages, P[p].pgdir = d, Low(m, d),
         NEW Q, NewSpace(P, Q, p, NoPage), NEW n, n = freevm(m, d)
  PROVE  Others(m, n, d) /\ d \notin DOMAIN n.dirs /\ \E u : Heap(n, u, Q, R, H)
<1>1. /\ IsMem(m) /\ Own(m, o) /\ o[d] = SpaceOf(p) /\ d \in DOMAIN m.dirs
      /\ \A q \in Procs : /\ q # p => P[q].pgdir # d
                          /\ P[q].kstack # d /\ P[q].nd # d
  <2>1. OnlySpace(m, o, P, p, d)
    BY Somebodys
  <2>2. QED  BY <2>1 DEF OnlySpace
<1>2. PICK u : Step(m, n, d, o, u, {d}) /\ u[d] = Idle /\ d \notin DOMAIN n.dirs
  BY ZenonT(60), <1>1, Freed DEF Low
<1>3. IsMem(n) /\ n.twice = m.twice /\ Own(n, u) /\ Same(o, u, {d}) /\ Others(m, n, d)
  BY <1>2 DEF Step
<1>4. /\ Idle # Ring /\ Idle # Hand
      /\ \A q \in Procs : Idle # StackOf(q) /\ Idle # SpaceOf(q) /\ Idle # DraftOf(q)
  BY Tokens, Outers
<1>5. Moved(P, Q, d, Idle)
  BY <1>1, <1>4 DEF Moved, After, NewSpace
<1>6. R = R \ {d} /\ H = H \ {d}
  BY <1>1, Outers DEF Heap
<1>7. Heap(n, u, Q, R, H)
  BY <1>2, <1>3, <1>4, <1>5, <1>6, Transfer
<1>8. QED  BY <1>2, <1>3, <1>7

\* The directory d of one process becomes that of the owner t.
LEMMA HeapPassed ==
  ASSUME NEW m, NEW o, NEW P, NEW R, Heap(m, o, P, R, {}), NEW d \in DOMAIN m.dirs,
         NEW t \in Tops, NEW Q, Moved(P, Q, d, t)
  PROVE  Heap(m, Given(o, {d}, t), Q, R, {})
<1> DEFINE u == Given(o, {d}, t)
<1>1. IsMem(m) /\ Own(m, o) /\ d \in Pages /\ o[d] \in Tops
  BY DEF Heap, IsMem, Own
<1>2. Own(m, u) /\ u[d] = t /\ Same(o, u, {d})
  BY <1>1, Retagged DEF Given, Same
<1>3. \A s \in Tops : s # Ring /\ s # Hand
  BY Outers DEF Tops
<1>4. R = R \ {d} /\ {} = {} \ {d}
  BY <1>1, <1>3 DEF Heap
<1> HIDE DEF u
<1>5. Heap(m, u, Q, R, {})
  BY <1>1, <1>2, <1>3, <1>4, Transfer
<1>6. QED  BY <1>5 DEF u

-----------------------------------------------------------------------------
\* The types of the variables.
Pcs == {"user", "stack", "dir", "table", "copy", "dup", "grow", "load", "switch",
        "drop", "close", "ff", "file", "page"}
File == [ref : Nat, type : {"NONE", "PIPE", "INODE"}, pipe : Nat, writable : BOOLEAN]
Seg == [vaddr : Uints, memsz : Uints, filesz : Uints]
Slot == Pages \cup {NoPage}
Process ==
  [state : {"UNUSED", "EMBRYO", "RUNNING", "ZOMBIE"}, parent : Procs \cup {0},
   pgdir : Slot, sz : Nat, kstack : Slot, cr3 : Slot,
   ofile : [Fds -> FileIds \cup {None}], pc : Pcs,
   call : {"none", "fork", "exec", "sbrk", "exit"}, np : Procs \cup {0}, nd : Slot,
   old : Nat, a : Nat, to : Nat, segs : Seq(Seg), image : Nat, args : Nat,
   files : Seq(FileIds), ff : File]

\* The types of the variables that Resources declares.
TypeOK ==
  /\ ftable \in [FileIds -> File]
  /\ pipes = [page \in DOMAIN pipes |-> pipes[page]]
  /\ DOMAIN pipes \subseteq Pages
  /\ \A page \in DOMAIN pipes : pipes[page] \subseteq BOOLEAN
  /\ pr \in [Procs -> Process]
  /\ calls \in Nat /\ panicked \in BOOLEAN

\* A process with no open files.
NoFiles(r) == \A fd \in Fds : r.ofile[fd] = None

\* What the variables of a process say of each other.
Control(r) ==
  /\ r.state = "UNUSED" => r = NoProc
  /\ r.pc # "user" => r.state = "RUNNING"
  /\ r.pc = "user" => r.call = "none"
  /\ r.pc \in {"user", "stack", "dir", "table"} => r.a = 0 /\ r.to = 0
  /\ r.pc \in {"stack", "copy", "dup"} => r.call = "fork"
  /\ r.pc \in {"dir", "table"} => r.call \in {"fork", "exec"}
  /\ r.pc \in {"load", "switch", "drop"} => r.call = "exec"
  /\ r.pc = "grow" => r.call \in {"exec", "sbrk"}
  /\ r.pc \in {"close", "ff"} => r.call \in {"none", "exit"}
  /\ r.pc \in {"file", "page"} => r.call = "none"
  /\ r.np # 0 <=> r.call = "fork"
  /\ r.nd # NoPage <=> \/ r.pc \in {"table", "copy", "load", "switch", "drop"}
                       \/ r.pc = "grow" /\ r.call = "exec"
  /\ r.state \in {"RUNNING", "ZOMBIE"} => r.kstack # NoPage /\ r.pgdir # NoPage
  /\ r.state = "ZOMBIE" => NoFiles(r)
  /\ r.pc \notin {"close", "ff", "file", "page"} => r.files = <<>>
  /\ r.pc \in {"close", "ff"} => Len(r.files) <= 2
  /\ r.pc = "file" => Len(r.files) = 1
  /\ r.pc = "page" => Len(r.files) = 2 /\ r.files[1] # r.files[2]
  /\ r.pc # "ff" => r.ff = NoFile

\* A process in fork() and its child.
Child(r, c) ==
  /\ c.state = "EMBRYO"
  /\ c.kstack # NoPage <=> r.pc # "stack"
  /\ c.pgdir # NoPage <=> r.pc = "dup"
  /\ r.pc # "dup" => NoFiles(c)

\* The variables of every process agree with where it is, and a child that
\* fork() makes has one parent.
Controlled(P) ==
  /\ \A p \in Procs : Control(P[p])
  /\ \A p \in Procs : P[p].np # 0 => Child(P[p], P[P[p].np])
  /\ \A p, q \in Procs : P[p].np # 0 /\ P[p].np = P[q].np => p = q

\* A free slot.
LEMMA NoProcIs ==
  /\ NoProc \in Process /\ Control(NoProc) /\ NoProc.np = 0
  /\ NoProc.kstack = NoPage /\ NoProc.pgdir = NoPage /\ NoProc.nd = NoPage
<1>1. NoFile \in File
  BY DEF NoFile, File
<1>2. <<>> \in Seq(Seg) /\ <<>> \in Seq(FileIds)
  OBVIOUS
<1>3. NoProc \in Process
  BY <1>1, <1>2 DEF NoProc, Process, Slot, Pcs
<1>4. Control(NoProc)
  BY DEF NoProc, Control, NoPage
<1>5. QED  BY <1>3, <1>4 DEF NoProc, NoPage

\* The call of a process is over.
LEMMA BackIs ==
  ASSUME NEW r \in Process
  PROVE  /\ Back(r) \in Process
         /\ Back(r).state = r.state /\ Back(r).parent = r.parent /\ Back(r).sz = r.sz
         /\ Back(r).kstack = r.kstack /\ Back(r).pgdir = r.pgdir /\ Back(r).cr3 = r.cr3
         /\ Back(r).ofile = r.ofile
         /\ Back(r).pc = "user" /\ Back(r).call = "none" /\ Back(r).np = 0
         /\ Back(r).nd = NoPage /\ Back(r).a = 0 /\ Back(r).to = 0
         /\ Back(r).files = <<>> /\ Back(r).ff = NoFile
         /\ (Control(r) /\ r.state = "RUNNING" => Control(Back(r)))
<1>1. NoFile \in File
  BY DEF NoFile, File
<1>2. <<>> \in Seq(Seg) /\ <<>> \in Seq(FileIds)
  OBVIOUS
<1>3. Back(r) \in Process
  <2>1. "user" \in Pcs /\ NoPage \in Slot /\ 0 \in Nat /\ 0 \in Procs \cup {0}
    BY DEF Pcs, Slot
  <2>2. QED  BY <1>1, <1>2, <2>1 DEF Back, Process
<1>4. /\ Back(r).state = r.state /\ Back(r).parent = r.parent /\ Back(r).sz = r.sz
      /\ Back(r).kstack = r.kstack /\ Back(r).pgdir = r.pgdir /\ Back(r).cr3 = r.cr3
      /\ Back(r).ofile = r.ofile
      /\ Back(r).pc = "user" /\ Back(r).call = "none" /\ Back(r).np = 0
      /\ Back(r).nd = NoPage /\ Back(r).a = 0 /\ Back(r).to = 0
      /\ Back(r).files = <<>> /\ Back(r).ff = NoFile
  BY DEF Back, Process
<1>5. Control(r) /\ r.state = "RUNNING" => Control(Back(r))
  BY <1>4 DEF Control
<1>6. QED  BY <1>3, <1>4, <1>5

\* A process that is not starting is nobody's child.
LEMMA NoChild ==
  ASSUME NEW P, Controlled(P), NEW p \in Procs, NEW c \in Procs,
         P[c].state # "EMBRYO"
  PROVE  P[p].np # c
<1>1. c # 0
  BY ResourcesAssumption DEF Procs
<1>2. QED  BY <1>1 DEF Controlled, Child

\* Q is P with r for process p.
Becomes(P, Q, p, r) ==
  /\ Q = [q \in Procs |-> Q[q]]
  /\ \A q \in Procs : Q[q] = IF q = p THEN r ELSE P[q]

\* Process p changes, and goes on with the same child.
LEMMA ControlAlone ==
  ASSUME NEW P \in [Procs -> Process], Controlled(P), NEW p \in Procs, NEW r,
         P[p].state = "RUNNING", Control(r), r.np = P[p].np,
         r.np # 0 => Child(r, P[r.np]), NEW Q, Becomes(P, Q, p, r)
  PROVE  Controlled(Q)
<1>1. \A q \in Procs : Q[q] = IF q = p THEN r ELSE P[q]
  BY DEF Becomes
<1>11. ASSUME NEW q \in Procs PROVE P[q].np # p
  BY NoChild
<1>2. \A q \in Procs : P[q].np # p /\ P[q].np \in Procs \cup {0} /\ Q[q].np = P[q].np
  BY <1>1, <1>11 DEF Process
<1>3. ASSUME NEW q \in Procs, Q[q].np # 0 PROVE Child(Q[q], Q[Q[q].np])
  BY <1>1, <1>2, <1>3 DEF Controlled
<1>4. QED  BY <1>1, <1>2, <1>3 DEF Controlled

\* Process p changes, and another one, c, that can only be its child.
LEMMA ControlPair ==
  ASSUME NEW P \in [Procs -> Process], Controlled(P), NEW p \in Procs, NEW c \in Procs,
         p # c, P[p].state = "RUNNING", \A q \in Procs : q # p => P[q].np # c,
         NEW Q, NEW r, NEW k, \A q \in Procs : Q[q] = IF q = p THEN r ELSE IF q = c THEN k ELSE P[q],
         Control(r), Control(k), k.np = 0, r.np \in {0, c}, r.np = c => Child(r, k)
  PROVE  Controlled(Q)
<1>1. ASSUME NEW q \in Procs PROVE P[q].np # p
  BY NoChild
<1>2. \A q \in Procs : P[q].np # p /\ P[q].np \in Procs \cup {0}
  BY <1>1 DEF Process
<1>3. ASSUME NEW q \in Procs, Q[q].np # 0 PROVE Child(Q[q], Q[Q[q].np])
  <2>1. CASE q = p
    BY <1>3, <2>1
  <2>2. CASE q = c
    BY <1>3, <2>2
  <2>3. CASE q # p /\ q # c
    <3>1. Q[q] = P[q] /\ P[q].np # c /\ P[q].np # p /\ P[q].np \in Procs
      BY <1>2, <1>3, <2>3
    <3>2. QED  BY <1>3, <3>1 DEF Controlled
  <2>4. QED  BY <2>1, <2>2, <2>3
<1>4. ASSUME NEW q \in Procs, NEW s \in Procs, Q[q].np # 0, Q[q].np = Q[s].np PROVE q = s
  BY <1>2, <1>4 DEF Controlled
<1>5. QED  BY <1>3, <1>4 DEF Controlled

-----------------------------------------------------------------------------
\* Directory d has exactly the first n pages.
Covers(m, d, n) == DOMAIN m.dirs[d].ptes = 0 .. n - 1

\* Directory d has them, or sbrk(-sz) has taken the first one.
Filled(m, d, n) ==
  \/ Covers(m, d, n)
  \/ 0 \notin DOMAIN m.dirs[d].ptes /\ DOMAIN m.dirs[d].ptes \subseteq 0 .. n - 1

\* The address space of a process.
Space(m, r) ==
  /\ r.sz <= KERNBASE
  /\ r.state \in {"EMBRYO", "RUNNING"} /\ r.pgdir # NoPage =>
       /\ r.cr3 = IF r.pc = "switch" THEN r.nd ELSE r.pgdir
       /\ r.call # "sbrk" => Filled(m, r.pgdir, Pgs(r.sz))

\* The directory that setupkvm() fills.
Blank(m, r) ==
  /\ Covers(m, r.nd, 0)
  /\ \E n \in 0 .. KernTables - 1 : DOMAIN m.dirs[r.nd].tables = -n .. -1

\* copyuvm() has come to page a.
Copying(m, r) ==
  /\ r.a = Vpn(r.a) * PGSIZE /\ r.a <= PGROUNDUP(r.sz)
  /\ Covers(m, r.nd, Vpn(r.a))

\* The directory that grows.
Target(r) == IF r.call = "exec" THEN r.nd ELSE r.pgdir

\* It has n pages: all of them when exec() builds it.
Grown(m, r, n) ==
  /\ Filled(m, Target(r), n)
  /\ r.call = "exec" => Covers(m, r.nd, n)

\* allocuvm() has come to page a.
Extending(m, r) ==
  /\ r.a = Vpn(r.a) * PGSIZE /\ Grown(m, r, Vpn(r.a))
  /\ PGROUNDUP(r.old) <= r.a /\ r.a <= PGROUNDUP(r.to)
  /\ r.old <= r.to /\ r.to <= KERNBASE
  /\ r.call = "sbrk" => r.old = r.sz
  /\ r.call = "exec" /\ r.segs # <<>> =>
       /\ Head(r.segs).filesz <= Head(r.segs).memsz
       /\ Head(r.segs).vaddr + Head(r.segs).memsz <= r.to

\* The address spaces of a process, at every point of its calls.
Room(m, r) ==
  /\ Space(m, r)
  /\ r.pc = "table" => Blank(m, r)
  /\ r.pc = "copy" => Copying(m, r)
  /\ r.pc = "load" => Covers(m, r.nd, Pgs(r.to)) /\ r.to <= KERNBASE
  /\ r.pc = "grow" => Extending(m, r)

\* The directories of q are the same in n.
LEMMA RoomStays ==
  ASSUME NEW m, NEW n, NEW r, Control(r), Room(m, r),
         r.pgdir # NoPage => n.dirs[r.pgdir] = m.dirs[r.pgdir],
         r.nd # NoPage => n.dirs[r.nd] = m.dirs[r.nd]
  PROVE  Room(n, r)
<1>1. Space(n, r)
  BY DEF Room, Space, Filled, Covers
<1>2. r.pc = "table" => Blank(n, r)
  BY DEF Room, Blank, Covers, Control
<1>3. r.pc = "copy" => Copying(n, r)
  BY DEF Room, Copying, Covers, Control
<1>4. r.pc = "load" => Covers(n, r.nd, Pgs(r.to)) /\ r.to <= KERNBASE
  BY DEF Room, Covers, Control
<1>5. r.pc = "grow" => Extending(n, r)
  BY DEF Room, Extending, Grown, Filled, Covers, Control, Target
<1>6. QED  BY <1>1, <1>2, <1>3, <1>4, <1>5 DEF Room

\* Every process has what it expects, below KERNBASE.
Roomy(m, P) ==
  /\ \A p \in Procs : Room(m, P[p])
  /\ \A d \in DOMAIN m.dirs : Low(m, d)

\* What a step on directory d leaves to another process.
LEMMA RoomOthers ==
  ASSUME NEW m, NEW o, NEW P \in [Procs -> Process], NEW R, Heap(m, o, P, R, {}),
         Controlled(P), Roomy(m, P), NEW n, NEW d, Others(m, n, d),
         NEW q \in Procs, P[q].pgdir # d, P[q].nd # d
  PROVE  Room(n, P[q])
<1>1. P[q] \in Process /\ P[q].pgdir \in Pages \cup {NoPage} /\ P[q].nd \in Pages \cup {NoPage}
  BY DEF Process, Slot
<1>2. P[q].pgdir # NoPage => P[q].pgdir \in DOMAIN m.dirs
  <2>1. CASE P[q].pgdir # NoPage
    <3>1. OnlySpace(m, o, P, q, P[q].pgdir)
      BY <1>1, <2>1, Somebodys
    <3>2. QED  BY <3>1 DEF OnlySpace
  <2>2. QED  BY <2>1
<1>3. P[q].nd # NoPage => P[q].nd \in DOMAIN m.dirs
  <2>1. CASE P[q].nd # NoPage
    <3>1. OnlyDraft(m, o, P, q, P[q].nd)
      BY <1>1, <2>1, Somebodys
    <3>2. QED  BY <3>1 DEF OnlyDraft
  <2>2. QED  BY <2>1
<1>4. Control(P[q]) /\ Room(m, P[q])
  BY DEF Controlled, Roomy
<1>5. /\ P[q].pgdir # NoPage => n.dirs[P[q].pgdir] = m.dirs[P[q].pgdir]
      /\ P[q].nd # NoPage => n.dirs[P[q].nd] = m.dirs[P[q].nd]
  BY <1>2, <1>3 DEF Others
<1>6. QED  BY <1>4, <1>5, RoomStays

\* Whole pages.
LEMMA PgsFacts ==
  ASSUME NEW s \in Nat, NEW x \in Nat
  PROVE  /\ Pgs(0) = 0 /\ PGROUNDUP(0) = 0 /\ Vpn(0) = 0
         /\ PGROUNDUP(KERNBASE) = KERNBASE
         /\ s <= x => PGROUNDUP(s) <= PGROUNDUP(x) /\ Pgs(s) <= Pgs(x)
         /\ Pgs(PGROUNDUP(s)) = Pgs(s) /\ PGROUNDUP(PGROUNDUP(s)) = PGROUNDUP(s)
         /\ Pgs(s) \in Nat /\ PGROUNDUP(s) \in Nat /\ Vpn(PGROUNDUP(s)) = Pgs(s)
<1>1. ASSUME NEW y \in Nat
      PROVE  /\ Pgs(y) \in Nat /\ PGROUNDUP(y) = Pgs(y) * PGSIZE /\ PGROUNDUP(y) \in Nat
             /\ y <= PGROUNDUP(y) /\ PGROUNDUP(y) < y + PGSIZE
  BY RoundUp, MemoryAssumption
<1>2. ASSUME NEW y \in Nat, NEW k \in Nat, y = k * PGSIZE
      PROVE  Pgs(y) = k /\ PGROUNDUP(y) = y
  <2>1. k * PGSIZE <= Pgs(y) * PGSIZE /\ Pgs(y) * PGSIZE < (k + 1) * PGSIZE
    BY <1>1, <1>2, Scale
  <2>11. Pgs(y) \in Int /\ k \in Int /\ k + 1 \in Int
    BY <1>1
  <2>12. k <= Pgs(y) <=> k * PGSIZE <= Pgs(y) * PGSIZE
    BY <2>11, Scale
  <2>13. Pgs(y) < k + 1 <=> Pgs(y) * PGSIZE < (k + 1) * PGSIZE
    BY <2>11, Scale
  <2>2. k <= Pgs(y) /\ Pgs(y) < k + 1
    BY <2>1, <2>12, <2>13
  <2>3. Pgs(y) = k
    BY <1>1, <2>2
  <2>4. QED  BY <1>1, <1>2, <2>3
<1>3. Pgs(0) = 0 /\ PGROUNDUP(0) = 0
  <2>1. 0 = 0 * PGSIZE
    BY MemoryAssumption
  <2>2. QED  BY <1>2, <2>1
<1>4. Vpn(0) = 0
  BY <1>3 DEF Pgs
<1>5. PGROUNDUP(KERNBASE) = KERNBASE
  <2>1. KERNBASE \div PGSIZE \in Nat /\ KERNBASE = (KERNBASE \div PGSIZE) * PGSIZE
    BY MemoryAssumption, Division
  <2>2. QED  BY <1>2, <2>1, MemoryAssumption
<1>6. s <= x => PGROUNDUP(s) <= PGROUNDUP(x) /\ Pgs(s) <= Pgs(x)
  <2>1. CASE s <= x
    <3>1. Pgs(s) * PGSIZE < Pgs(x) * PGSIZE + PGSIZE
      BY <1>1, <2>1, MemoryAssumption
    <3>2. Pgs(s) * PGSIZE < (Pgs(x) + 1) * PGSIZE
      BY <1>1, <3>1, Scale
    <3>3. Pgs(s) < Pgs(x) + 1
      BY <1>1, <3>2, Scale
    <3>4. Pgs(s) <= Pgs(x)
      BY <1>1, <3>3
    <3>5. QED  BY <1>1, <3>4, Scale
  <2>2. QED  BY <2>1
<1>7. Pgs(PGROUNDUP(s)) = Pgs(s) /\ PGROUNDUP(PGROUNDUP(s)) = PGROUNDUP(s)
  BY <1>1, <1>2
<1>8. QED  BY <1>1, <1>3, <1>4, <1>5, <1>6, <1>7 DEF Pgs

\* A page number is below Pgs(s) exactly when the page begins below s.
LEMMA PageBelow ==
  ASSUME NEW s \in Nat, NEW v \in Nat
  PROVE  /\ v < Pgs(s) <=> v * PGSIZE < s
         /\ v < Pgs(s) <=> v * PGSIZE < PGROUNDUP(s)
<1>1. /\ Pgs(s) \in Nat /\ PGROUNDUP(s) = Pgs(s) * PGSIZE /\ s <= PGROUNDUP(s)
      /\ PGROUNDUP(s) < s + PGSIZE
  BY RoundUp
<1>2. v < Pgs(s) <=> v * PGSIZE < PGROUNDUP(s)
  <2>1. Pgs(s) \in Int /\ v \in Int
    BY <1>1
  <2>2. v < Pgs(s) <=> v * PGSIZE < Pgs(s) * PGSIZE
    BY <2>1, Scale
  <2>3. QED  BY <1>1, <2>2
<1>3. v * PGSIZE < s => v < Pgs(s)
  BY <1>1, <1>2, Scale, MemoryAssumption
<1>4. v < Pgs(s) => v * PGSIZE < s
  <2>1. CASE v < Pgs(s)
    <3>1. v + 1 <= Pgs(s)
      BY <1>1, <2>1
    <3>2. (v + 1) * PGSIZE <= Pgs(s) * PGSIZE /\ (v + 1) * PGSIZE = v * PGSIZE + PGSIZE
      BY <1>1, <3>1, Scale
    <3>3. v * PGSIZE \in Nat
      BY MemoryAssumption
    <3>4. QED  BY <1>1, <3>2, <3>3, MemoryAssumption
  <2>2. QED  BY <2>1
<1>5. QED  BY <1>2, <1>3, <1>4

-----------------------------------------------------------------------------
\* Where references to files are kept, as one table.
Cells == Procs \X Places

\* The reference of a process at a place,
KeptBy(r, x) ==
  IF x < NOFILE THEN r.ofile[x]
  ELSE IF x - NOFILE < Len(r.files) THEN r.files[x - NOFILE + 1]
  ELSE None

\* of all processes,
Refs(P) == [e \in Cells |-> KeptBy(P[e[1]], e[2])]
Marks == [Cells -> FileIds \cup {None}]
Count(K, f) == Cardinality({e \in Cells : K[e] = f})

\* Every count is the number of references, and a file without any is closed.
Counted(t, K) == \A f \in FileIds : t[f].ref = Count(K, f)
Shut(t) == \A f \in FileIds : t[f].ref = 0 => t[f].type = "NONE"

\* pipealloc() has the only reference to its files.
Fresh(t, P) == \A p \in Procs : P[p].pc \in {"file", "page"} =>
  \A k \in DOMAIN P[p].files : /\ t[P[p].files[k]].ref = 1
                               /\ t[P[p].files[k]].type = "NONE"

\* What can stand for an end of a pipe: a file, or the copy in fileclose().
EndIds == 1 .. NFILE + NPROC
Ends(t, P) == [e \in EndIds |-> IF e <= NFILE THEN t[e] ELSE P[e - NFILE].ff]

\* The file, or the copy, stands for an end of pipe g.
Stands(x, g, w) == x.type = "PIPE" /\ x.pipe = g /\ x.writable = w

\* Exactly the open ends are stood for, each by one file.
Ended(E, pi) ==
  /\ \A e \in EndIds : E[e].type = "PIPE" =>
       E[e].pipe \in DOMAIN pi /\ E[e].writable \in pi[E[e].pipe]
  /\ \A g \in DOMAIN pi : \A w \in pi[g] : \E e \in EndIds : Stands(E[e], g, w)
  /\ \A e, i \in EndIds : \A g, w : Stands(E[e], g, w) /\ Stands(E[i], g, w) => e = i

\* The part of the invariant about files and pipes.
FileInv ==
  /\ Counted(ftable, Refs(pr)) /\ Shut(ftable) /\ Fresh(ftable, pr)
  /\ Ended(Ends(ftable, pr), pipes)

\* No process changes its files.
SameFiles(P, Q) == \A q \in Procs :
  /\ Q[q].ofile = P[q].ofile /\ Q[q].files = P[q].files /\ Q[q].ff = P[q].ff
  /\ Q[q].pc \in {"file", "page"} => P[q].pc \in {"file", "page"}

\* The places of references are pairs.
LEMMA CellsAre ==
  /\ \A e \in Cells : e[1] \in Procs /\ e[2] \in Places /\ e = <<e[1], e[2]>>
  /\ \A p \in Procs, x \in Places : <<p, x>> \in Cells
  BY DEF Cells

\* Steps that change no file and no descriptor.
LEMMA FilesStay ==
  ASSUME NEW t, NEW pi, NEW P, NEW Q, SameFiles(P, Q)
  PROVE  /\ Refs(Q) = Refs(P) /\ Ends(t, Q) = Ends(t, P)
         /\ Fresh(t, P) => Fresh(t, Q)
<1>1. Refs(Q) = Refs(P)
  BY CellsAre DEF Refs, KeptBy, SameFiles
<1>2. ASSUME NEW e \in EndIds PROVE e <= NFILE \/ e - NFILE \in Procs
  BY ResourcesAssumption DEF EndIds, Procs
<1>3. Ends(t, Q) = Ends(t, P)
  BY <1>2 DEF Ends, SameFiles
<1>4. Fresh(t, P) => Fresh(t, Q)
  BY DEF Fresh, SameFiles
<1>5. QED  BY <1>1, <1>3, <1>4

\* A step that touches no file and no reference.
LEMMA FilesKept ==
  ASSUME FileInv, NEW Q, SameFiles(pr, Q), pr' = Q, ftable' = ftable, pipes' = pipes
  PROVE  FileInv'
<1>1. /\ Refs(Q) = Refs(pr) /\ Ends(ftable, Q) = Ends(ftable, pr)
      /\ Fresh(ftable, pr) => Fresh(ftable, Q)
  BY FilesStay
<1>2. /\ Counted(ftable, Refs(Q)) /\ Shut(ftable) /\ Fresh(ftable, Q)
      /\ Ended(Ends(ftable, Q), pipes)
  BY <1>1 DEF FileInv
<1>3. QED  BY <1>2 DEF FileInv

\* References are files.
LEMMA RefsTyped ==
  ASSUME NEW P \in [Procs -> Process]
  PROVE  Refs(P) \in Marks
<1>1. ASSUME NEW e \in Cells PROVE KeptBy(P[e[1]], e[2]) \in FileIds \cup {None}
  <2> DEFINE r == P[e[1]]
             x == e[2]
  <2>1. r \in Process /\ x \in Places
    BY CellsAre
  <2>2. r.ofile \in [Fds -> FileIds \cup {None}] /\ r.files \in Seq(FileIds)
    BY <2>1 DEF Process
  <2>3. x \in Nat /\ x <= NOFILE + 1 /\ NOFILE \in Nat
    BY <2>1, ResourcesAssumption DEF Places
  <2> HIDE DEF r, x
  <2>4. CASE x < NOFILE
    <3>1. x \in Fds
      BY <2>3, <2>4 DEF Fds
    <3>2. QED  BY <2>2, <2>4, <3>1 DEF KeptBy, r, x
  <2>5. CASE ~(x < NOFILE) /\ x - NOFILE < Len(r.files)
    <3>1. x - NOFILE + 1 \in 1 .. Len(r.files)
      BY <2>2, <2>3, <2>5
    <3>2. r.files[x - NOFILE + 1] \in FileIds
      BY <2>2, <3>1
    <3>3. QED  BY <2>5, <3>2 DEF KeptBy, r, x
  <2>6. CASE ~(x < NOFILE) /\ ~(x - NOFILE < Len(r.files))
    BY <2>6 DEF KeptBy, r, x
  <2>7. QED  BY <2>4, <2>5, <2>6
<1>2. QED  BY <1>1 DEF Refs, Marks

\* There are finitely many places,
LEMMA CellsFinite == IsFiniteSet(Cells)
<1>1. IsFiniteSet(Procs) /\ IsFiniteSet(Places)
  BY FS_Interval, ResourcesAssumption DEF Procs, Places
<1>2. QED  BY <1>1, FS_Product DEF Cells

\* and a file has finitely many references.
LEMMA CountFinite ==
  ASSUME NEW K, NEW f
  PROVE  IsFiniteSet({e \in Cells : K[e] = f}) /\ Count(K, f) \in Nat
<1>1. {e \in Cells : K[e] = f} \subseteq Cells
  OBVIOUS
<1>2. IsFiniteSet({e \in Cells : K[e] = f})
  BY <1>1, CellsFinite, FS_Subset
<1>3. QED  BY <1>2, FS_CardinalityType DEF Count

\* One cell of the table.
Marked(K, c, f) == [K EXCEPT ![c] = f]

\* A reference more.
LEMMA CountSet ==
  ASSUME NEW K \in Marks, NEW c \in Cells, K[c] = None, NEW f \in FileIds
  PROVE  /\ Marked(K, c, f) \in Marks
         /\ Count(Marked(K, c, f), f) = Count(K, f) + 1
         /\ \A g \in FileIds : g # f => Count(Marked(K, c, f), g) = Count(K, g)
<1> DEFINE L == Marked(K, c, f)
           S == {e \in Cells : K[e] = f}
<1>0. None \notin FileIds
  BY ResourcesAssumption
<1>1. L \in Marks /\ \A e \in Cells : L[e] = IF e = c THEN f ELSE K[e]
  BY DEF Marks, Marked
<1> HIDE DEF L
<1>2. {e \in Cells : L[e] = f} = S \cup {c} /\ c \notin S
  BY <1>0, <1>1
<1>3. IsFiniteSet(S)
  BY CountFinite
<1> HIDE DEF S
<1>4. Cardinality(S \cup {c}) = Cardinality(S) + 1
  BY <1>2, <1>3, FS_AddElement
<1>5. Count(L, f) = Count(K, f) + 1
  BY <1>2, <1>4 DEF Count, S
<1>6. ASSUME NEW g \in FileIds, g # f PROVE Count(L, g) = Count(K, g)
  <2>1. {e \in Cells : L[e] = g} = {e \in Cells : K[e] = g}
    BY <1>0, <1>1, <1>6
  <2>2. QED  BY <2>1 DEF Count
<1>7. QED  BY <1>1, <1>5, <1>6 DEF L

\* A reference less.
LEMMA CountClear ==
  ASSUME NEW K \in Marks, NEW c \in Cells, NEW f \in FileIds, K[c] = f
  PROVE  /\ Marked(K, c, None) \in Marks
         /\ Count(K, f) = Count(Marked(K, c, None), f) + 1
         /\ \A g \in FileIds : g # f => Count(Marked(K, c, None), g) = Count(K, g)
<1> DEFINE L == Marked(K, c, None)
<1>1. L \in Marks /\ \A e \in Cells : L[e] = IF e = c THEN None ELSE K[e]
  BY DEF Marks, Marked
<1>2. L[c] = None
  BY <1>1
<1> HIDE DEF L
<1>3. K = Marked(L, c, f)
  BY <1>1 DEF Marked, Marks
<1>4. /\ Count(Marked(L, c, f), f) = Count(L, f) + 1
      /\ \A g \in FileIds : g # f => Count(Marked(L, c, f), g) = Count(L, g)
  BY <1>1, <1>2, CountSet
<1>5. QED  BY <1>1, <1>3, <1>4 DEF L

\* A reference moves.
LEMMA CountMove ==
  ASSUME NEW K \in Marks, NEW c \in Cells, NEW e \in Cells, NEW f \in FileIds,
         K[c] = f, K[e] = None
  PROVE  /\ Marked(Marked(K, c, None), e, f) \in Marks
         /\ \A g \in FileIds : Count(Marked(Marked(K, c, None), e, f), g) = Count(K, g)
<1> DEFINE L == Marked(K, c, None)
<1>1. /\ L \in Marks /\ Count(K, f) = Count(L, f) + 1
      /\ \A g \in FileIds : g # f => Count(L, g) = Count(K, g)
  BY CountClear
<1>2. L[e] = None
  BY DEF Marked, Marks
<1> HIDE DEF L
<1>3. /\ Marked(L, e, f) \in Marks
      /\ Count(Marked(L, e, f), f) = Count(L, f) + 1
      /\ \A g \in FileIds : g # f => Count(Marked(L, e, f), g) = Count(L, g)
  BY <1>1, <1>2, CountSet
<1>4. QED  BY <1>1, <1>3 DEF L

\* References(), in the terms of the invariant.
LEMMA RefIs ==
  ASSUME NEW f
  PROVE  References(f) = Count(Refs(pr), f)
<1>1. \A e \in Cells : Refs(pr)[e] = Kept(e[1], e[2])
  BY DEF Refs, KeptBy, Kept
<1>2. {e \in Cells : Refs(pr)[e] = f} = {e \in Procs \X Places : Kept(e[1], e[2]) = f}
  BY <1>1 DEF Cells
<1>3. QED  BY <1>2 DEF References, Count

-----------------------------------------------------------------------------
\* Every page has one owner, and nothing is in hand between two steps.
HeapInv == \E o : Heap(mm, o, pr, DOMAIN pipes, {})

\* The part about address spaces.
SpaceInv == Roomy(mm, pr) /\ ~panicked

\* The inductive invariant.
Inv == TypeOK /\ Controlled(pr) /\ HeapInv /\ SpaceInv /\ FileInv

\* A process goes on to r with the memory and the files it had.
GoesOn(p, r) ==
  /\ r \in Process /\ Control(r) /\ Becomes(pr, pr', p, r)
  /\ pr[p].state = "RUNNING"
  /\ r.np = pr[p].np /\ (r.np # 0 => Child(r, pr[r.np]))
  /\ r.kstack = pr[p].kstack /\ r.pgdir = pr[p].pgdir /\ r.nd = pr[p].nd
  /\ Room(mm, r)
  /\ r.ofile = pr[p].ofile /\ r.files = pr[p].files /\ r.ff = pr[p].ff
  /\ r.pc \notin {"file", "page"}

\* A step of a process that changes only its own variables.
LEMMA Solo ==
  ASSUME Inv, NEW p \in Procs, NEW r, GoesOn(p, r), UNCHANGED <<mm, fileVars>>,
         calls' \in Nat, panicked' = FALSE
  PROVE  Inv'
<1>1. /\ pr' = [q \in Procs |-> pr'[q]]
      /\ \A q \in Procs : pr'[q] = IF q = p THEN r ELSE pr[q]
      /\ r \in Process /\ mm' = mm /\ ftable' = ftable /\ pipes' = pipes
  BY DEF GoesOn, Becomes, fileVars
<1>2. pr \in [Procs -> Process] /\ Controlled(pr)
  BY DEF Inv, TypeOK
<1>3. pr' \in [Procs -> Process]
  BY <1>1, <1>2
<1>4. TypeOK'
  BY <1>1, <1>3 DEF Inv, TypeOK
<1>5. Controlled(pr')
  BY <1>2, ControlAlone DEF GoesOn
<1>6. SameHold(pr, pr')
  BY <1>1 DEF SameHold, GoesOn
<1>7. HeapInv'
  <2>1. PICK o : Heap(mm, o, pr, DOMAIN pipes, {})
    BY DEF Inv, HeapInv
  <2>2. Heap(mm, o, pr', DOMAIN pipes, {})
    BY <1>6, <2>1, Unmoved
  <2>3. QED  BY <1>1, <2>2 DEF HeapInv
<1>8. SpaceInv'
  BY <1>1 DEF Inv, SpaceInv, Roomy, GoesOn
<1>9. SameFiles(pr, pr')
  BY <1>1 DEF SameFiles, GoesOn
<1>10. FileInv'
  BY <1>1, <1>9, FilesKept DEF Inv
<1>11. QED  BY <1>4, <1>5, <1>7, <1>8, <1>10 DEF Inv

\* What the invariant says of one process.
LEMMA OfProcess ==
  ASSUME Inv, NEW p \in Procs
  PROVE  /\ pr \in [Procs -> Process] /\ pr[p] \in Process /\ Control(pr[p])
         /\ Room(mm, pr[p]) /\ pr[p].sz \in Nat /\ pr[p].a \in Nat /\ pr[p].to \in Nat
         /\ pr[p].old \in Nat /\ pr[p].sz <= KERNBASE
         /\ pr[p].pc # "user" => pr[p].state = "RUNNING"
         /\ panicked = FALSE /\ calls \in Nat
<1>1. pr \in [Procs -> Process] /\ Control(pr[p]) /\ Room(mm, pr[p])
      /\ panicked = FALSE /\ calls \in Nat
  BY DEF Inv, TypeOK, Controlled, SpaceInv, Roomy
<1>2. QED  BY <1>1 DEF Process, Control, Room, Space

\* A process that calls has the pages below its size, or has been emptied.
LEMMA Caller ==
  ASSUME Inv, NEW p \in Procs, CanCall(p)
  PROVE  /\ pr[p].state = "RUNNING" /\ pr[p].pc = "user" /\ pr[p].call = "none"
         /\ pr[p].np = 0 /\ pr[p].nd = NoPage /\ pr[p].pgdir # NoPage
         /\ pr[p].cr3 = pr[p].pgdir /\ pr[p].a = 0 /\ pr[p].to = 0
         /\ pr[p].files = <<>> /\ pr[p].ff = NoFile
         /\ Filled(mm, pr[p].pgdir, Pgs(pr[p].sz))
<1>1. pr[p] \in Process /\ Control(pr[p]) /\ Room(mm, pr[p])
  BY OfProcess
<1>2. pr[p].state = "RUNNING" /\ pr[p].pc = "user"
  BY DEF CanCall
<1>3. /\ pr[p].call = "none" /\ pr[p].np = 0 /\ pr[p].nd = NoPage /\ pr[p].pgdir # NoPage
      /\ pr[p].a = 0 /\ pr[p].to = 0 /\ pr[p].files = <<>> /\ pr[p].ff = NoFile
  BY <1>1, <1>2 DEF Control
<1>4. QED  BY <1>1, <1>2, <1>3 DEF Room, Space

-----------------------------------------------------------------------------
\* exec() has read the header.
LEMMA ExecStep ==
  ASSUME Inv, NEW p \in Procs, NEW prog \in Programs, Exec(p, prog)
  PROVE  Inv'
<1> DEFINE r == [pr[p] EXCEPT !.pc = "dir", !.call = "exec", !.segs = prog.segs,
                              !.args = prog.args]
<1>1. /\ pr \in [Procs -> Process] /\ pr[p] \in Process /\ Control(pr[p])
      /\ Room(mm, pr[p]) /\ panicked = FALSE /\ calls \in Nat
  BY OfProcess
<1>2. /\ pr[p].state = "RUNNING" /\ pr[p].pc = "user" /\ pr[p].call = "none"
      /\ pr[p].np = 0 /\ pr[p].nd = NoPage /\ pr[p].pgdir # NoPage
      /\ pr[p].cr3 = pr[p].pgdir /\ pr[p].a = 0 /\ pr[p].to = 0
      /\ pr[p].files = <<>> /\ pr[p].ff = NoFile
      /\ Filled(mm, pr[p].pgdir, Pgs(pr[p].sz))
  BY Caller DEF Exec
<1>3. prog.segs \in Seq(Seg) /\ prog.args \in Nat
  BY ResourcesAssumption DEF Seg
<1>4. /\ r \in Process
      /\ r.pc = "dir"
      /\ r.call = "exec" /\ r.state = "RUNNING" /\ r.np = 0 /\ r.nd = NoPage
      /\ r.a = 0 /\ r.to = 0 /\ r.sz = pr[p].sz /\ r.cr3 = pr[p].cr3
      /\ r.kstack = pr[p].kstack /\ r.pgdir = pr[p].pgdir
      /\ r.ofile = pr[p].ofile /\ r.files = <<>> /\ r.ff = NoFile
  <2>1. "dir" \in Pcs
    BY DEF Pcs
  <2>2. QED  BY <1>1, <1>2, <1>3, <2>1 DEF Process
<1>5. Becomes(pr, pr', p, r)
  BY <1>1 DEF Exec, Becomes
<1> HIDE DEF r
<1>6. Control(r)
  BY <1>1, <1>2, <1>4 DEF Control
<1>7. Room(mm, r)
  BY <1>1, <1>2, <1>4 DEF Room, Space
<1>8. GoesOn(p, r)
  BY <1>2, <1>4, <1>5, <1>6, <1>7 DEF GoesOn
<1>9. UNCHANGED <<mm, fileVars>> /\ calls' \in Nat /\ panicked' = FALSE
  BY <1>1 DEF Exec, Call
<1>10. QED  BY <1>8, <1>9, Solo

\* The last page that starts below s.
LEMMA GrowEnd ==
  ASSUME NEW x \in Nat, NEW s \in Nat, x = Vpn(x) * PGSIZE, s <= x, x <= PGROUNDUP(s)
  PROVE  Vpn(x) = Pgs(s)
<1>1. Vpn(x) \in Nat /\ Pgs(s) \in Nat /\ PGROUNDUP(s) = Pgs(s) * PGSIZE
  BY PageOf, RoundUp
<1>2. ~(Vpn(x) < Pgs(s))
  BY <1>1, PageBelow
<1>3. Vpn(x) <= Pgs(s) <=> Vpn(x) * PGSIZE <= Pgs(s) * PGSIZE
  BY <1>1, Scale
<1>4. QED  BY <1>1, <1>2, <1>3

\* growproc() sets the new size.
LEMMA SbrkGrownStep ==
  ASSUME Inv, NEW p \in Procs, SbrkGrown(p)
  PROVE  Inv'
<1> DEFINE k == [pr[p] EXCEPT !.sz = pr[p].to, !.cr3 = pr[p].pgdir]
           r == Back(k)
<1>1. /\ pr \in [Procs -> Process] /\ pr[p] \in Process /\ Control(pr[p])
      /\ Room(mm, pr[p]) /\ panicked = FALSE /\ calls \in Nat
      /\ pr[p].a \in Nat /\ pr[p].to \in Nat /\ pr[p].pc = "grow" /\ pr[p].call = "sbrk"
      /\ pr[p].state = "RUNNING" /\ pr[p].a >= pr[p].to
  BY OfProcess DEF SbrkGrown
<1>2. k \in Process /\ k.sz = pr[p].to /\ k.cr3 = pr[p].pgdir /\ k.state = "RUNNING"
      /\ k.kstack = pr[p].kstack /\ k.pgdir = pr[p].pgdir /\ k.ofile = pr[p].ofile
  BY <1>1 DEF Process
<1>3. /\ r \in Process /\ r.sz = pr[p].to /\ r.cr3 = pr[p].pgdir /\ r.state = "RUNNING"
      /\ r.kstack = pr[p].kstack /\ r.pgdir = pr[p].pgdir /\ r.ofile = pr[p].ofile
      /\ r.pc = "user" /\ r.call = "none" /\ r.np = 0 /\ r.nd = NoPage
      /\ r.a = 0 /\ r.to = 0 /\ r.files = <<>> /\ r.ff = NoFile
  BY <1>2, BackIs
<1>4. Becomes(pr, pr', p, r)
  BY <1>1 DEF SbrkGrown, Becomes
<1> HIDE DEF k, r
<1>5. Control(r)
  BY <1>1, <1>3 DEF Control
<1>6. Filled(mm, r.pgdir, Pgs(r.sz)) /\ r.sz <= KERNBASE
  <2>1. Extending(mm, pr[p])
    BY <1>1 DEF Room
  <2>2. Vpn(pr[p].a) = Pgs(pr[p].to)
    BY <1>1, <2>1, GrowEnd DEF Extending
  <2>3. QED  BY <1>1, <1>3, <2>1, <2>2 DEF Extending, Grown, Target
<1>7. Room(mm, r)
  BY <1>3, <1>6 DEF Room, Space
<1>8. pr[p].np = 0 /\ pr[p].nd = NoPage /\ pr[p].files = <<>> /\ pr[p].ff = NoFile
  BY <1>1 DEF Control
<1>9. GoesOn(p, r)
  BY <1>1, <1>3, <1>4, <1>5, <1>7, <1>8 DEF GoesOn
<1>10. UNCHANGED <<mm, fileVars>> /\ calls' \in Nat /\ panicked' = FALSE
  BY <1>1 DEF SbrkGrown
<1>11. QED  BY <1>9, <1>10, Solo

\* switchuvm() of exec().
LEMMA SwitchStep ==
  ASSUME Inv, NEW p \in Procs, switchuvm(p)
  PROVE  Inv'
<1> DEFINE r == [pr[p] EXCEPT !.cr3 = pr[p].pgdir, !.pc = "drop"]
<1>1. /\ pr \in [Procs -> Process] /\ pr[p] \in Process /\ Control(pr[p])
      /\ Room(mm, pr[p]) /\ panicked = FALSE /\ calls \in Nat
      /\ pr[p].pc = "switch" /\ pr[p].state = "RUNNING"
  BY OfProcess DEF switchuvm
<1>2. pr[p].call = "exec" /\ pr[p].np = 0 /\ pr[p].pgdir # NoPage
  BY <1>1 DEF Control
<1>3. /\ r \in Process /\ r.pc = "drop" /\ r.cr3 = pr[p].pgdir /\ r.state = "RUNNING"
      /\ r.call = "exec" /\ r.np = 0 /\ r.nd = pr[p].nd /\ r.sz = pr[p].sz
      /\ r.kstack = pr[p].kstack /\ r.pgdir = pr[p].pgdir
      /\ r.ofile = pr[p].ofile /\ r.files = pr[p].files /\ r.ff = pr[p].ff
  <2>1. "drop" \in Pcs
    BY DEF Pcs
  <2>2. QED  BY ZenonT(60), <1>1, <1>2, <2>1 DEF Process
<1>4. Becomes(pr, pr', p, r)
  BY <1>1 DEF switchuvm, Becomes
<1> HIDE DEF r
<1>5. Control(r)
  BY <1>1, <1>2, <1>3 DEF Control
<1>6. Room(mm, r)
  BY <1>1, <1>2, <1>3 DEF Room, Space
<1>7. GoesOn(p, r)
  BY <1>1, <1>2, <1>3, <1>4, <1>5, <1>6 DEF GoesOn
<1>8. UNCHANGED <<mm, fileVars>> /\ calls' \in Nat /\ panicked' = FALSE
  BY <1>1 DEF switchuvm
<1>9. QED  BY <1>7, <1>8, Solo

\* exit() begins.
LEMMA ExitStep ==
  ASSUME Inv, NEW p \in Procs, Exit(p)
  PROVE  Inv'
<1> DEFINE r == [pr[p] EXCEPT !.pc = "close", !.call = "exit"]
<1>1. /\ pr \in [Procs -> Process] /\ pr[p] \in Process /\ Control(pr[p])
      /\ Room(mm, pr[p]) /\ panicked = FALSE /\ calls \in Nat
      /\ pr[p].pc = "user" /\ pr[p].state = "RUNNING"
  BY OfProcess DEF Exit, CanCall
<1>2. /\ pr[p].call = "none" /\ pr[p].np = 0 /\ pr[p].pgdir # NoPage
      /\ pr[p].nd = NoPage /\ pr[p].files = <<>> /\ pr[p].ff = NoFile
  BY <1>1 DEF Control
<1>3. /\ r \in Process /\ r.pc = "close" /\ r.state = "RUNNING"
      /\ r.call = "exit" /\ r.np = 0 /\ r.nd = NoPage /\ r.sz = pr[p].sz
      /\ r.kstack = pr[p].kstack /\ r.pgdir = pr[p].pgdir /\ r.cr3 = pr[p].cr3
      /\ r.ofile = pr[p].ofile /\ r.files = <<>> /\ r.ff = NoFile
  <2>1. "close" \in Pcs
    BY DEF Pcs
  <2>2. QED  BY ZenonT(60), <1>1, <1>2, <2>1 DEF Process
<1>4. Becomes(pr, pr', p, r)
  BY <1>1 DEF Exit, Becomes
<1> HIDE DEF r
<1>5. Control(r)
  BY <1>1, <1>2, <1>3 DEF Control
<1>6. Room(mm, r)
  BY <1>1, <1>2, <1>3 DEF Room, Space
<1>7. GoesOn(p, r)
  BY <1>1, <1>2, <1>3, <1>4, <1>5, <1>6 DEF GoesOn
<1>8. UNCHANGED <<mm, fileVars>> /\ calls' \in Nat /\ panicked' = FALSE
  BY <1>1 DEF Exit
<1>9. QED  BY <1>7, <1>8, Solo

\* A call that has closed its files returns.
LEMMA CloseDoneStep ==
  ASSUME Inv, NEW p \in Procs, CloseDone(p)
  PROVE  Inv'
<1> DEFINE r == Back(pr[p])
<1>1. /\ pr \in [Procs -> Process] /\ pr[p] \in Process /\ Control(pr[p])
      /\ Room(mm, pr[p]) /\ panicked = FALSE /\ calls \in Nat
      /\ pr[p].pc = "close" /\ pr[p].state = "RUNNING" /\ pr[p].files = <<>>
      /\ pr[p].call # "exit"
  BY OfProcess DEF CloseDone
<1>2. /\ pr[p].call = "none" /\ pr[p].np = 0 /\ pr[p].pgdir # NoPage
      /\ pr[p].nd = NoPage /\ pr[p].ff = NoFile
  BY <1>1 DEF Control
<1>3. /\ r \in Process /\ r.state = "RUNNING" /\ r.sz = pr[p].sz /\ r.cr3 = pr[p].cr3
      /\ r.kstack = pr[p].kstack /\ r.pgdir = pr[p].pgdir /\ r.ofile = pr[p].ofile
      /\ r.pc = "user" /\ r.call = "none" /\ r.np = 0 /\ r.nd = NoPage
      /\ r.files = <<>> /\ r.ff = NoFile /\ Control(r)
  BY <1>1, BackIs
<1>4. Becomes(pr, pr', p, r)
  BY <1>1 DEF CloseDone, Becomes
<1> HIDE DEF r
<1>6. Room(mm, r)
  BY <1>1, <1>2, <1>3 DEF Room, Space
<1>7. GoesOn(p, r)
  BY <1>1, <1>2, <1>3, <1>4, <1>6 DEF GoesOn
<1>8. UNCHANGED <<mm, fileVars>> /\ calls' \in Nat /\ panicked' = FALSE
  BY <1>1 DEF CloseDone
<1>9. QED  BY <1>7, <1>8, Solo

-----------------------------------------------------------------------------
\* A process goes on to r, with the files it had, in a step on directory d.
Works(p, r, d) ==
  /\ r \in Process /\ Control(r) /\ Becomes(pr, pr', p, r)
  /\ pr[p].state = "RUNNING"
  /\ r.np = pr[p].np /\ (r.np # 0 => Child(r, pr[r.np]))
  /\ r.ofile = pr[p].ofile /\ r.files = pr[p].files /\ r.ff = pr[p].ff
  /\ r.pc \notin {"file", "page"}
  /\ Others(mm, mm', d) /\ (d \in DOMAIN mm'.dirs => Low(mm', d))
  /\ \A q \in Procs : q # p => pr[q].pgdir # d /\ pr[q].nd # d
  /\ Room(mm', r)

\* A step of a process that changes one directory, which no other process has.
LEMMA MemSolo ==
  ASSUME Inv, NEW p \in Procs, NEW r, NEW d, Works(p, r, d),
         NEW u, Heap(mm', u, pr', DOMAIN pipes, {}), UNCHANGED fileVars,
         calls' \in Nat, panicked' = FALSE
  PROVE  Inv'
<1>1. /\ pr' = [q \in Procs |-> pr'[q]]
      /\ \A q \in Procs : pr'[q] = IF q = p THEN r ELSE pr[q]
      /\ r \in Process /\ ftable' = ftable /\ pipes' = pipes
  BY DEF Works, Becomes, fileVars
<1>2. pr \in [Procs -> Process] /\ Controlled(pr)
  BY DEF Inv, TypeOK
<1>3. pr' \in [Procs -> Process]
  BY <1>1, <1>2
<1>4. TypeOK'
  BY <1>1, <1>3 DEF Inv, TypeOK
<1>5. Controlled(pr')
  BY <1>2, ControlAlone DEF Works
<1>6. HeapInv'
  BY <1>1 DEF HeapInv
<1>7. PICK o : Heap(mm, o, pr, DOMAIN pipes, {})
  BY DEF Inv, HeapInv
<1>8. ASSUME NEW q \in Procs PROVE Room(mm', pr'[q])
  <2>1. CASE q = p
    BY <1>1, <2>1 DEF Works
  <2>2. CASE q # p
    <3>1. Others(mm, mm', d) /\ pr[q].pgdir # d /\ pr[q].nd # d
      BY <2>2 DEF Works
    <3>2. Roomy(mm, pr)
      BY DEF Inv, SpaceInv
    <3>3. Room(mm', pr[q])
      BY <1>2, <1>7, <3>1, <3>2, RoomOthers
    <3>4. QED  BY <1>1, <2>2, <3>3
  <2>3. QED  BY <2>1, <2>2
<1>9. ASSUME NEW x \in DOMAIN mm'.dirs PROVE Low(mm', x)
  <2>1. CASE x = d
    BY <2>1 DEF Works
  <2>2. CASE x # d
    BY <2>2 DEF Works, Others, Inv, SpaceInv, Roomy, Low
  <2>3. QED  BY <2>1, <2>2
<1>10. SpaceInv'
  BY <1>8, <1>9 DEF SpaceInv, Roomy
<1>11. SameFiles(pr, pr')
  BY <1>1 DEF SameFiles, Works
<1>12. FileInv'
  BY <1>1, <1>11, FilesKept DEF Inv
<1>13. QED  BY <1>4, <1>5, <1>6, <1>10, <1>12 DEF Inv

\* A process that is not in fork() gives up, with its draft if it has one.
LEMMA BadStep ==
  ASSUME Inv, NEW p \in Procs, pr[p].pc \in {"dir", "table", "load", "grow", "drop"},
         pr[p].call # "fork", NEW d, NEW m, NEW o, Heap(m, o, pr, DOMAIN pipes, {}),
         d = Target(pr[p]), Others(mm, m, d), d \in DOMAIN m.dirs => Low(m, d),
         pr[p].call = "exec" => m.dirs[pr[p].pgdir] = mm.dirs[pr[p].pgdir],
         pr[p].call = "sbrk" => Filled(m, pr[p].pgdir, Pgs(pr[p].sz)),
         pr[p].nd # NoPage \/ pr[p].call = "sbrk",
         Bad(p, m), UNCHANGED fileVars, calls' \in Nat, panicked' = FALSE
  PROVE  Inv'
<1> DEFINE r == Back(pr[p])
<1>1. /\ pr \in [Procs -> Process] /\ pr[p] \in Process /\ Control(pr[p])
      /\ Room(mm, pr[p]) /\ pr[p].state = "RUNNING"
  BY OfProcess
<1>2. /\ pr[p].call \in {"exec", "sbrk"} /\ pr[p].np = 0 /\ pr[p].pgdir # NoPage
      /\ pr[p].files = <<>> /\ pr[p].ff = NoFile /\ pr[p].pgdir \in Pages
      /\ pr[p].nd \in Slot
  BY <1>1 DEF Control, Process, Slot
<1>3. /\ r \in Process /\ r.state = "RUNNING" /\ r.sz = pr[p].sz /\ r.cr3 = pr[p].cr3
      /\ r.kstack = pr[p].kstack /\ r.pgdir = pr[p].pgdir /\ r.ofile = pr[p].ofile
      /\ r.pc = "user" /\ r.call = "none" /\ r.np = 0 /\ r.nd = NoPage
      /\ r.files = <<>> /\ r.ff = NoFile /\ Control(r)
  BY <1>1, BackIs
<1>4. Becomes(pr, pr', p, r)
  BY <1>1 DEF Bad, Becomes
<1> HIDE DEF r
<1>5. OnlySpace(m, o, pr, p, pr[p].pgdir)
  BY <1>2, Somebodys
<1>6. CASE pr[p].call = "sbrk"
  <2>1. d = pr[p].pgdir /\ mm' = m /\ pr[p].nd = NoPage
    BY <1>1, <1>6 DEF Target, Bad, Control
  <2>2. \A q \in Procs : q # p => pr[q].pgdir # d /\ pr[q].nd # d
    BY <1>5, <2>1 DEF OnlySpace
  <2>3. Room(mm', r)
    BY <1>1, <1>2, <1>3, <1>6, <2>1 DEF Room, Space
  <2>4. Works(p, r, d)
    BY <1>1, <1>2, <1>3, <1>4, <2>1, <2>2, <2>3 DEF Works
  <2>5. SameHold(pr, pr')
    BY <1>3, <1>4, <2>1 DEF SameHold, Becomes
  <2>6. Heap(m, o, pr', DOMAIN pipes, {})
    BY <2>5, Unmoved
  <2>7. QED  BY <2>1, <2>4, <2>6, MemSolo
<1>7. CASE pr[p].call = "exec"
  <2>1. d = pr[p].nd /\ mm' = freevm(m, d) /\ d # NoPage /\ d \in Pages
    BY <1>2, <1>7 DEF Target, Bad, Slot
  <2>2. OnlyDraft(m, o, pr, p, d)
    BY <2>1, Somebodys
  <2>3. \A q \in Procs : (q # p => pr[q].nd # d) /\ pr[q].pgdir # d
    BY <2>2 DEF OnlyDraft
  <2>4. Low(m, d)
    BY <2>2 DEF OnlyDraft
  <2>5. NewDraft(pr, pr', p, NoPage)
    BY <1>3, <1>4 DEF NewDraft, Becomes
  <2>51. DraftEnds(m, mm', d)
    BY <2>1, <2>4 DEF DraftEnds
  <2>6. PICK u : Heap(mm', u, pr', DOMAIN pipes, {}) /\ Others(m, mm', d) /\ d \notin DOMAIN mm'.dirs
    BY <2>1, <2>5, <2>51, HeapDraftGone
  <2>7. Others(mm, mm', d)
    BY <2>6 DEF Others
  <2>8. mm'.dirs[pr[p].pgdir] = mm.dirs[pr[p].pgdir]
    BY <1>5, <1>7, <2>3, <2>6 DEF Others, OnlySpace
  <2>9. Room(mm', r)
    BY <1>1, <1>2, <1>3, <1>7, <2>8 DEF Room, Space, Filled, Covers
  <2>10. Works(p, r, d)
    BY <1>1, <1>2, <1>3, <1>4, <2>3, <2>6, <2>7, <2>9 DEF Works
  <2>11. QED  BY <2>6, <2>10, MemSolo
<1>8. QED  BY <1>2, <1>6, <1>7

\* The larger of two sizes.
LEMMA LargerOf ==
  ASSUME NEW x \in Nat, NEW y \in Nat
  PROVE  /\ Max({x, y}) \in Nat /\ x <= Max({x, y}) /\ y <= Max({x, y})
         /\ Max({x, y}) \in {x, y}
<1>1. PICK z \in {x, y} : \A w \in {x, y} : z >= w
  BY x >= y \/ y >= x
<1>2. Max({x, y}) \in {x, y} /\ \A w \in {x, y} : Max({x, y}) >= w
  BY <1>1 DEF Max
<1>3. QED  BY <1>2

\* allocuvm() begins.
LEMMA GrowBegins ==
  ASSUME Inv, NEW p \in Procs, pr[p].state = "RUNNING", NEW k \in Process,
         k.state = "RUNNING" /\ k.call \in {"exec", "sbrk"} /\ k.np = 0 /\ pr[p].np = 0,
         k.nd # NoPage <=> k.call = "exec",
         k.kstack = pr[p].kstack /\ k.pgdir = pr[p].pgdir /\ k.nd = pr[p].nd,
         k.ofile = pr[p].ofile /\ k.files = <<>> /\ k.ff = NoFile,
         pr[p].files = <<>> /\ pr[p].ff = NoFile,
         k.cr3 = k.pgdir, k.sz <= KERNBASE,
         k.call = "exec" => Filled(mm, k.pgdir, Pgs(k.sz)),
         NEW old \in Nat, NEW new \in Nat, old <= KERNBASE, new < KERNBASE,
         Grown(mm, k, Pgs(old)),
         k.call = "sbrk" => old = k.sz,
         k.call = "exec" /\ k.segs # <<>> =>
           /\ Head(k.segs).filesz <= Head(k.segs).memsz
           /\ Head(k.segs).vaddr + Head(k.segs).memsz = new,
         pr' = [pr EXCEPT ![p] = [k EXCEPT !.pc = "grow", !.old = old,
                                           !.a = PGROUNDUP(old), !.to = Max({old, new})]],
         UNCHANGED <<mm, fileVars>>, calls' \in Nat, panicked' = FALSE
  PROVE  Inv'
<1> DEFINE r == [k EXCEPT !.pc = "grow", !.old = old,
                          !.a = PGROUNDUP(old), !.to = Max({old, new})]
<1>1. pr \in [Procs -> Process] /\ Control(pr[p])
  BY OfProcess
<1>2. /\ Max({old, new}) \in Nat /\ old <= Max({old, new}) /\ new <= Max({old, new})
      /\ Max({old, new}) \in {old, new}
  BY LargerOf
<1>3. /\ PGROUNDUP(old) \in Nat /\ Vpn(PGROUNDUP(old)) = Pgs(old)
      /\ PGROUNDUP(old) = Pgs(old) * PGSIZE /\ PGROUNDUP(old) <= PGROUNDUP(Max({old, new}))
  BY <1>2, PgsFacts, RoundUp
<1> DEFINE to == Max({old, new})
<1> HIDE DEF to
<1>4. /\ r \in Process /\ r.pc = "grow" /\ r.old = old /\ r.a = PGROUNDUP(old)
      /\ r.to = to /\ r.state = "RUNNING"
      /\ r.call = k.call /\ r.np = 0 /\ r.nd = k.nd /\ r.sz = k.sz /\ r.cr3 = k.cr3
      /\ r.kstack = k.kstack /\ r.pgdir = k.pgdir /\ r.segs = k.segs
      /\ r.ofile = k.ofile /\ r.files = <<>> /\ r.ff = NoFile
  <2>1. "grow" \in Pcs /\ to \in Nat
    BY <1>2 DEF Pcs, to
  <2>2. r = [k EXCEPT !.pc = "grow", !.old = old, !.a = PGROUNDUP(old), !.to = to]
    BY DEF to
  <2>3. QED  BY <1>3, <2>1, <2>2 DEF Process
<1>5. Becomes(pr, pr', p, r)
  BY <1>1 DEF Becomes
<1> HIDE DEF r
<1>6. r.kstack # NoPage /\ r.pgdir # NoPage
  BY <1>1, <1>4 DEF Control
<1>7. Control(r)
  BY <1>4, <1>6 DEF Control
<1>8. /\ r.a = Vpn(r.a) * PGSIZE /\ Grown(mm, r, Vpn(r.a))
      /\ PGROUNDUP(r.old) <= r.a /\ r.a <= PGROUNDUP(r.to)
      /\ r.old <= r.to /\ r.to <= KERNBASE
  BY <1>2, <1>3, <1>4, MemoryAssumption DEF Grown, Target, to
<1>9. r.call = "exec" /\ r.segs # <<>> =>
        /\ Head(r.segs).filesz <= Head(r.segs).memsz
        /\ Head(r.segs).vaddr + Head(r.segs).memsz <= r.to
  BY <1>2, <1>4 DEF to
<1>10. Extending(mm, r)
  BY <1>4, <1>8, <1>9 DEF Extending
<1>11. Room(mm, r)
  BY <1>4, <1>10 DEF Room, Space
<1>12. GoesOn(p, r)
  BY <1>4, <1>5, <1>7, <1>11 DEF GoesOn
<1>13. QED  BY <1>12, Solo

\* The range of a uint.
LEMMA UintIs == UintRange \in Nat \ {0}
  BY MemoryAssumption

\* growproc() calls allocuvm().
LEMMA SbrkGrowStep ==
  ASSUME Inv, NEW p \in Procs, NEW i \in Increments, SbrkGrow(p, i)
  PROVE  Inv'
<1> DEFINE k == [pr[p] EXCEPT !.call = "sbrk"]
           new == (pr[p].sz + i) % UintRange
<1>1. /\ pr \in [Procs -> Process] /\ pr[p] \in Process /\ Control(pr[p])
      /\ Room(mm, pr[p]) /\ panicked = FALSE /\ calls \in Nat
      /\ pr[p].sz \in Nat /\ pr[p].sz <= KERNBASE
  BY OfProcess
<1>2. /\ pr[p].state = "RUNNING" /\ pr[p].pc = "user" /\ pr[p].call = "none"
      /\ pr[p].np = 0 /\ pr[p].nd = NoPage /\ pr[p].pgdir # NoPage
      /\ pr[p].cr3 = pr[p].pgdir /\ pr[p].a = 0 /\ pr[p].to = 0
      /\ pr[p].files = <<>> /\ pr[p].ff = NoFile
      /\ Filled(mm, pr[p].pgdir, Pgs(pr[p].sz))
  BY Caller DEF SbrkGrow
<1>3. UNCHANGED fileVars /\ calls' \in Nat /\ panicked' = FALSE
  BY <1>1 DEF SbrkGrow, Call
<1>4. new \in Nat
  <2>1. i \in Int /\ i > 0
    BY ResourcesAssumption DEF SbrkGrow
  <2>2. pr[p].sz + i \in Nat
    BY <1>1, <2>1
  <2>3. QED  BY <2>2, UintIs, Division
<1>5. CASE new >= KERNBASE
  <2> DEFINE r == Back(pr[p])
  <2>1. mm' = mm /\ Becomes(pr, pr', p, r)
    BY <1>1, <1>2, <1>5 DEF SbrkGrow, GrowFrom, Bad, Becomes
  <2>2. /\ r \in Process /\ r.state = "RUNNING" /\ r.sz = pr[p].sz /\ r.cr3 = pr[p].cr3
        /\ r.kstack = pr[p].kstack /\ r.pgdir = pr[p].pgdir /\ r.ofile = pr[p].ofile
        /\ r.pc = "user" /\ r.call = "none" /\ r.np = 0 /\ r.nd = NoPage
        /\ r.files = <<>> /\ r.ff = NoFile /\ Control(r)
    BY <1>1, <1>2, BackIs
  <2> HIDE DEF r
  <2>3. Room(mm, r)
    BY <1>1, <1>2, <2>2 DEF Room, Space
  <2>4. GoesOn(p, r)
    BY <1>2, <2>1, <2>2, <2>3 DEF GoesOn
  <2>5. QED  BY <1>3, <2>1, <2>4, Solo
<1>6. CASE ~(new >= KERNBASE)
  <2>1. /\ k \in Process /\ k.state = "RUNNING" /\ k.call = "sbrk" /\ k.np = 0
        /\ k.nd = NoPage /\ k.sz = pr[p].sz /\ k.cr3 = pr[p].cr3
        /\ k.kstack = pr[p].kstack /\ k.pgdir = pr[p].pgdir
        /\ k.ofile = pr[p].ofile /\ k.files = <<>> /\ k.ff = NoFile
    BY <1>1, <1>2 DEF Process
  <2>2. /\ pr' = [pr EXCEPT ![p] = [k EXCEPT !.pc = "grow", !.old = pr[p].sz,
                              !.a = PGROUNDUP(pr[p].sz), !.to = Max({pr[p].sz, new})]]
        /\ mm' = mm
    BY <1>6 DEF SbrkGrow, GrowFrom
  <2> HIDE DEF k
  <2>3. new < KERNBASE
    BY <1>4, <1>6, MemoryAssumption
  <2> HIDE DEF new
  <2>4. Grown(mm, k, Pgs(pr[p].sz))
    BY <1>2, <2>1 DEF Grown, Target
  <2>5. QED  BY <1>1, <1>2, <1>3, <1>4, <2>1, <2>2, <2>3, <2>4, GrowBegins
<1>7. QED  BY <1>5, <1>6

\* exec() is at work on a draft.
LEMMA Drafting ==
  ASSUME Inv, NEW p \in Procs, pr[p].pc \in {"load", "grow"}, pr[p].call = "exec"
  PROVE  /\ pr[p].state = "RUNNING" /\ pr[p].np = 0 /\ pr[p].nd # NoPage
         /\ pr[p].nd \in DOMAIN mm.dirs /\ Low(mm, pr[p].nd)
         /\ pr[p].pgdir # NoPage /\ pr[p].cr3 = pr[p].pgdir
         /\ pr[p].files = <<>> /\ pr[p].ff = NoFile
         /\ Filled(mm, pr[p].pgdir, Pgs(pr[p].sz))
<1>1. /\ pr[p] \in Process /\ Control(pr[p]) /\ Room(mm, pr[p]) /\ pr[p].state = "RUNNING"
  BY OfProcess
<1>2. /\ pr[p].np = 0 /\ pr[p].nd # NoPage /\ pr[p].pgdir # NoPage
      /\ pr[p].files = <<>> /\ pr[p].ff = NoFile /\ pr[p].nd \in Pages
  BY <1>1 DEF Control, Process, Slot
<1>3. PICK o : Heap(mm, o, pr, DOMAIN pipes, {})
  BY DEF Inv, HeapInv
<1>4. OnlyDraft(mm, o, pr, p, pr[p].nd)
  BY <1>2, <1>3, Somebodys
<1>5. pr[p].nd \in DOMAIN mm.dirs /\ Low(mm, pr[p].nd)
  BY <1>4 DEF OnlyDraft, Inv, SpaceInv, Roomy
<1>6. QED  BY <1>1, <1>2, <1>5 DEF Room, Space

\* exec() gives up.
LEMMA ExecBad ==
  ASSUME Inv, NEW p \in Procs, pr[p].pc \in {"load", "grow"}, pr[p].call = "exec",
         Bad(p, mm), UNCHANGED fileVars, calls' \in Nat, panicked' = FALSE
  PROVE  Inv'
<1>1. /\ pr[p].nd # NoPage /\ pr[p].nd \in DOMAIN mm.dirs /\ Low(mm, pr[p].nd)
  BY Drafting
<1>2. PICK o : Heap(mm, o, pr, DOMAIN pipes, {})
  BY DEF Inv, HeapInv
<1>3. Others(mm, mm, Target(pr[p])) /\ Target(pr[p]) = pr[p].nd
  BY DEF Others, Target
<1>4. QED  BY <1>1, <1>2, <1>3, BadStep

\* The end of a segment, when the sum did not wrap.
LEMMA NoWrap ==
  ASSUME NEW x \in Uints, NEW y \in Uints, (x + y) % UintRange >= x
  PROVE  (x + y) % UintRange = x + y /\ (x + y) % UintRange \in Nat
<1>1. /\ x \in Nat /\ y \in Nat /\ x < UintRange /\ y < UintRange
      /\ UintRange \in Nat \ {0} /\ x + y \in Nat
  BY UintIs DEF Uints
<1> DEFINE q == (x + y) \div UintRange
           z == (x + y) % UintRange
<1>2. q \in Nat /\ z \in 0 .. UintRange - 1 /\ x + y = UintRange * q + z
  BY <1>1, Division
<1>3. z >= x
  OBVIOUS
<1> HIDE DEF q, z
<1>4. UintRange * q < UintRange
  BY <1>1, <1>2, <1>3
<1>5. q = 0
  <2>1. CASE q >= 1
    <3>1. UintRange * q >= UintRange
      BY <1>1, <1>2, <2>1
    <3>2. QED  BY <1>1, <1>2, <1>4, <3>1
  <2>2. QED  BY <1>2, <2>1
<1>6. QED  BY <1>1, <1>2, <1>5 DEF z

\* exec() takes the next segment.
LEMMA LoadSegmentStep ==
  ASSUME Inv, NEW p \in Procs, LoadSegment(p)
  PROVE  Inv'
<1> DEFINE s == Head(pr[p].segs)
           new == (s.vaddr + s.memsz) % UintRange
<1>1. /\ pr \in [Procs -> Process] /\ pr[p] \in Process /\ Control(pr[p])
      /\ Room(mm, pr[p]) /\ panicked = FALSE /\ calls \in Nat
      /\ pr[p].sz <= KERNBASE /\ pr[p].to \in Nat
  BY OfProcess
<1>2. pr[p].pc = "load" /\ pr[p].segs # <<>> /\ pr[p].call = "exec"
  BY <1>1 DEF LoadSegment, Control
<1>3. /\ pr[p].state = "RUNNING" /\ pr[p].np = 0 /\ pr[p].nd # NoPage
      /\ pr[p].pgdir # NoPage /\ pr[p].cr3 = pr[p].pgdir
      /\ pr[p].files = <<>> /\ pr[p].ff = NoFile
      /\ Filled(mm, pr[p].pgdir, Pgs(pr[p].sz))
  BY <1>2, Drafting
<1>4. UNCHANGED fileVars /\ calls' \in Nat /\ panicked' = FALSE
  BY <1>1 DEF LoadSegment
<1>5. Covers(mm, pr[p].nd, Pgs(pr[p].to)) /\ pr[p].to <= KERNBASE
  BY <1>1, <1>2 DEF Room
<1>6. s \in Seg
  <2>1. pr[p].segs \in Seq(Seg)
    BY <1>1 DEF Process
  <2>2. QED  BY <1>2, <2>1
<1>7. CASE Bad(p, mm)
  BY <1>2, <1>4, <1>7, ExecBad
<1>8. CASE ~Bad(p, mm)
  <2>1. /\ s.memsz >= s.filesz /\ new >= s.vaddr /\ ~(new >= KERNBASE) /\ mm' = mm
        /\ pr' = [pr EXCEPT ![p] = [pr[p] EXCEPT !.pc = "grow", !.old = pr[p].to,
                              !.a = PGROUNDUP(pr[p].to), !.to = Max({pr[p].to, new})]]
    BY <1>8 DEF LoadSegment, GrowFrom
  <2>2. s.vaddr \in Uints /\ s.memsz \in Uints /\ s.filesz \in Uints
    BY <1>6 DEF Seg
  <2>3. UintRange \in Nat /\ s.vaddr \in Nat /\ s.memsz \in Nat /\ s.filesz \in Nat
    BY <2>2, MemoryAssumption DEF Uints
  <2>4. new \in Int
    <3>1. s.vaddr + s.memsz \in Nat
      BY <2>3
    <3>2. QED  BY <3>1, UintIs, Division
  <2>5. new >= s.vaddr /\ s.filesz <= s.memsz /\ new < KERNBASE
    BY <2>1, <2>3, <2>4, MemoryAssumption
  <2>6. s.vaddr + s.memsz = new /\ new \in Nat
    BY <2>2, <2>5, NoWrap
  <2>7. Grown(mm, pr[p], Pgs(pr[p].to))
    BY <1>2, <1>5 DEF Grown, Filled, Target
  <2> HIDE DEF new
  <2>8. pr[p].call = "exec" /\ pr[p].segs # <<>> =>
           /\ Head(pr[p].segs).filesz <= Head(pr[p].segs).memsz
           /\ Head(pr[p].segs).vaddr + Head(pr[p].segs).memsz = new
    BY <2>5, <2>6
  <2> HIDE DEF s
  <2>9. QED
    BY <1>1, <1>2, <1>3, <1>4, <1>5, <2>1, <2>5, <2>6, <2>7, <2>8, GrowBegins
<1>9. QED  BY <1>7, <1>8

\* exec() asks for the guard page, the page of pseudo_main() and the stack.
LEMMA LoadDoneStep ==
  ASSUME Inv, NEW p \in Procs, LoadDone(p)
  PROVE  Inv'
<1> DEFINE k == [pr[p] EXCEPT !.image = pr[p].to]
           old == PGROUNDUP(pr[p].to)
           new == old + 3 * PGSIZE
<1>1. /\ pr \in [Procs -> Process] /\ pr[p] \in Process /\ Control(pr[p])
      /\ Room(mm, pr[p]) /\ panicked = FALSE /\ calls \in Nat
      /\ pr[p].sz <= KERNBASE /\ pr[p].to \in Nat
  BY OfProcess
<1>2. pr[p].pc = "load" /\ pr[p].segs = <<>> /\ pr[p].call = "exec"
  BY <1>1 DEF LoadDone, Control
<1>3. /\ pr[p].state = "RUNNING" /\ pr[p].np = 0 /\ pr[p].nd # NoPage
      /\ pr[p].pgdir # NoPage /\ pr[p].cr3 = pr[p].pgdir
      /\ pr[p].files = <<>> /\ pr[p].ff = NoFile
      /\ Filled(mm, pr[p].pgdir, Pgs(pr[p].sz))
  BY <1>2, Drafting
<1>4. UNCHANGED fileVars /\ calls' \in Nat /\ panicked' = FALSE
  BY <1>1 DEF LoadDone
<1>5. Covers(mm, pr[p].nd, Pgs(pr[p].to)) /\ pr[p].to <= KERNBASE
  BY <1>1, <1>2 DEF Room
<1>6. old \in Nat /\ Pgs(old) = Pgs(pr[p].to) /\ old <= KERNBASE /\ new \in Nat
  <2>1. KERNBASE \in Nat /\ PGSIZE \in Nat
    BY MemoryAssumption
  <2>2. /\ PGROUNDUP(KERNBASE) = KERNBASE
        /\ pr[p].to <= KERNBASE => PGROUNDUP(pr[p].to) <= PGROUNDUP(KERNBASE)
        /\ Pgs(PGROUNDUP(pr[p].to)) = Pgs(pr[p].to) /\ PGROUNDUP(pr[p].to) \in Nat
    BY <1>1, <2>1, PgsFacts
  <2>3. QED  BY <1>5, <2>1, <2>2
<1>7. CASE Bad(p, mm)
  BY <1>2, <1>4, <1>7, ExecBad
<1>8. CASE ~Bad(p, mm)
  <2>1. /\ ~(new >= KERNBASE) /\ mm' = mm
        /\ pr' = [pr EXCEPT ![p] = [k EXCEPT !.pc = "grow", !.old = old,
                                             !.a = PGROUNDUP(old), !.to = Max({old, new})]]
    BY <1>8 DEF LoadDone, GrowFrom
  <2>2. /\ k \in Process /\ k.state = "RUNNING" /\ k.call = "exec" /\ k.np = 0
        /\ k.nd = pr[p].nd /\ k.sz = pr[p].sz /\ k.cr3 = pr[p].cr3
        /\ k.kstack = pr[p].kstack /\ k.pgdir = pr[p].pgdir /\ k.segs = <<>>
        /\ k.ofile = pr[p].ofile /\ k.files = <<>> /\ k.ff = NoFile
    BY ZenonT(60), <1>1, <1>2, <1>3 DEF Process
  <2> HIDE DEF k
  <2>3. new < KERNBASE
    BY <1>6, <2>1, MemoryAssumption
  <2> HIDE DEF new, old
  <2>4. Grown(mm, k, Pgs(old))
    BY <1>5, <1>6, <2>2 DEF Grown, Filled, Target
  <2>5. QED
    BY <1>1, <1>3, <1>4, <1>6, <2>1, <2>2, <2>3, <2>4, GrowBegins
<1>9. QED  BY <1>7, <1>8

\* loaduvm() finds the pages of the segment, so that it does not panic.
LEMMA SegmentLoadedStep ==
  ASSUME Inv, NEW p \in Procs, SegmentLoaded(p)
  PROVE  Inv'
<1> DEFINE s == Head(pr[p].segs)
           r == [pr[p] EXCEPT !.pc = "load", !.segs = Tail(@)]
<1>1. /\ pr \in [Procs -> Process] /\ pr[p] \in Process /\ Control(pr[p])
      /\ Room(mm, pr[p]) /\ panicked = FALSE /\ calls \in Nat
      /\ pr[p].sz <= KERNBASE /\ pr[p].to \in Nat /\ pr[p].a \in Nat
  BY OfProcess
<1>2. /\ pr[p].pc = "grow" /\ pr[p].segs # <<>> /\ pr[p].call = "exec"
      /\ pr[p].a >= pr[p].to
  BY DEF SegmentLoaded
<1>3. /\ pr[p].state = "RUNNING" /\ pr[p].np = 0 /\ pr[p].nd # NoPage
      /\ pr[p].pgdir # NoPage /\ pr[p].cr3 = pr[p].pgdir
      /\ pr[p].files = <<>> /\ pr[p].ff = NoFile
      /\ Filled(mm, pr[p].pgdir, Pgs(pr[p].sz))
  BY <1>2, Drafting
<1>4. UNCHANGED fileVars /\ calls' \in Nat
  BY <1>1 DEF SegmentLoaded
<1>5. Extending(mm, pr[p])
  BY <1>1, <1>2 DEF Room
<1>6. CASE Bad(p, mm) /\ UNCHANGED panicked
  BY <1>1, <1>2, <1>4, <1>6, ExecBad
<1>7. CASE ~(Bad(p, mm) /\ UNCHANGED panicked)
  <2>1. /\ panicked' = ~CanLoad(mm, pr[p].nd, s.vaddr, s.filesz)
        /\ pr' = [pr EXCEPT ![p].pc = "load", ![p].segs = Tail(@)] /\ mm' = mm
    BY <1>7 DEF SegmentLoaded
  <2>2. pr[p].segs \in Seq(Seg) /\ Tail(pr[p].segs) \in Seq(Seg) /\ s \in Seg
    <3>1. pr[p].segs \in Seq(Seg)
      BY <1>1 DEF Process
    <3>2. QED  BY <1>2, <3>1
  <2>3. /\ r \in Process /\ r.pc = "load" /\ r.state = "RUNNING" /\ r.call = "exec"
        /\ r.np = 0 /\ r.nd = pr[p].nd /\ r.sz = pr[p].sz /\ r.cr3 = pr[p].cr3
        /\ r.kstack = pr[p].kstack /\ r.pgdir = pr[p].pgdir /\ r.to = pr[p].to
        /\ r.ofile = pr[p].ofile /\ r.files = <<>> /\ r.ff = NoFile
    <3>1. "load" \in Pcs
      BY DEF Pcs
    <3>2. QED  BY ZenonT(60), <1>1, <1>2, <1>3, <2>2, <3>1 DEF Process
  <2>4. Becomes(pr, pr', p, r)
    BY <1>1, <2>1 DEF Becomes
  <2> HIDE DEF r
  <2>5. Vpn(pr[p].a) = Pgs(pr[p].to)
    BY <1>1, <1>2, <1>5, GrowEnd DEF Extending
  <2>6. Covers(mm, pr[p].nd, Pgs(pr[p].to)) /\ pr[p].to <= KERNBASE
    BY <1>2, <1>5, <2>5 DEF Extending, Grown
  <2>7. Control(r)
    BY <1>1, <1>2, <1>3, <2>3 DEF Control
  <2>8. Room(mm, r)
    BY <1>1, <1>3, <2>3, <2>6 DEF Room, Space
  <2>9. GoesOn(p, r)
    BY <1>3, <2>3, <2>4, <2>7, <2>8 DEF GoesOn
  <2>10. CanLoad(mm, pr[p].nd, s.vaddr, s.filesz)
    <3>1. s.vaddr \in Nat /\ s.memsz \in Nat /\ s.filesz \in Nat
      BY SMTT(40), <2>2, MemoryAssumption DEF Seg, Uints
    <3>2. s.filesz <= s.memsz /\ s.vaddr + s.memsz <= pr[p].to
      BY <1>2, <1>5 DEF Extending
    <3> HIDE DEF s
    <3>3. ASSUME s.filesz > 0, NEW v \in Vpn(s.vaddr) .. Vpn(s.vaddr + s.filesz - 1)
          PROVE  v \in DOMAIN mm.dirs[pr[p].nd].ptes
      <4> DEFINE x == s.vaddr + s.filesz - 1
      <4>1. x \in Nat /\ x < pr[p].to
        BY <1>1, <3>1, <3>2, <3>3
      <4>2. Vpn(x) \in Nat /\ Vpn(x) * PGSIZE <= x /\ Vpn(s.vaddr) \in Nat
        BY <3>1, <4>1, PageOf
      <4>3. Vpn(x) * PGSIZE < pr[p].to
        BY <1>1, <4>1, <4>2, MemoryAssumption
      <4>4. Vpn(x) < Pgs(pr[p].to) /\ Pgs(pr[p].to) \in Nat
        BY <1>1, <4>2, <4>3, PageBelow, RoundUp
      <4>5. v \in 0 .. Pgs(pr[p].to) - 1
        BY <4>2, <4>4
      <4>6. QED  BY <2>6, <4>5 DEF Covers
    <3>4. QED  BY <3>3 DEF CanLoad
  <2>11. QED  BY <1>4, <2>1, <2>9, <2>10, Solo
<1>8. QED  BY <1>6, <1>7

\* The directories of p change places.
LEMMA HeapSwap ==
  ASSUME NEW m, NEW o, NEW P, NEW R, Heap(m, o, P, R, {}), NEW p \in Procs,
         NEW d \in Pages, NEW e \in Pages, P[p].pgdir = d, P[p].nd = e,
         NEW Q, NEW r, Becomes(P, Q, p, r), r.kstack = P[p].kstack, r.pgdir = e, r.nd = d
  PROVE  \E u : Heap(m, u, Q, R, {})
<1> DEFINE w == Given(o, {e}, SpaceOf(p))
           u == Given(w, {d}, DraftOf(p))
<1>1. OnlySpace(m, o, P, p, d) /\ OnlyDraft(m, o, P, p, e)
  BY Somebodys
<1>2. /\ IsMem(m) /\ Own(m, o) /\ d \in DOMAIN m.dirs /\ e \in DOMAIN m.dirs /\ d # e
      /\ o[d] = SpaceOf(p) /\ o[e] = DraftOf(p)
  BY <1>1, Outers DEF OnlySpace, OnlyDraft
<1>3. Own(m, w)
  BY <1>2, Retagged, Outers
<1>4. Own(m, u)
  BY <1>2, <1>3, Retagged, Outers
<1>5. \A g \in Pages : u[g] = IF g = d THEN DraftOf(p) ELSE IF g = e THEN SpaceOf(p) ELSE o[g]
  BY DEF Given
<1> HIDE DEF w, u
<1>6. \A q \in Procs : Q[q] = IF q = p THEN r ELSE P[q]
  BY DEF Becomes
<1>7. ASSUME NEW q \in Procs, NEW g \in Pages
      PROVE  /\ Q[q].kstack = g <=> u[g] = StackOf(q)
             /\ Q[q].pgdir = g <=> u[g] = SpaceOf(q)
             /\ Q[q].nd = g <=> u[g] = DraftOf(q)
  <2>1. /\ P[q].kstack = g <=> o[g] = StackOf(q)
        /\ P[q].pgdir = g <=> o[g] = SpaceOf(q)
        /\ P[q].nd = g <=> o[g] = DraftOf(q)
    BY DEF Heap, Holds
  <2>2. QED  BY <1>2, <1>5, <1>6, <2>1, Outers
<1>8. \A g \in Pages : (g \in R <=> u[g] = Ring) /\ (g \in {} <=> u[g] = Hand)
  <2>1. \A g \in Pages : (g \in R <=> o[g] = Ring) /\ (g \in {} <=> o[g] = Hand)
    BY DEF Heap
  <2>2. QED  BY <1>2, <1>5, <2>1, Outers
<1>9. m.twice = {}
  BY DEF Heap
<1>10. Heap(m, u, Q, R, {})
  BY <1>2, <1>4, <1>7, <1>8, <1>9 DEF Heap, Holds
<1>11. QED  BY <1>10

\* exec() commits to the new directory, or gives it up.
LEMMA ExecCommitStep ==
  ASSUME Inv, NEW p \in Procs, ExecCommit(p)
  PROVE  Inv'
<1> DEFINE d == pr[p].nd
           m == clearpteu(mm, d, Vpn(pr[p].to - 2 * PGSIZE))
           r == [pr[p] EXCEPT !.pgdir = pr[p].nd, !.nd = pr[p].pgdir, !.sz = pr[p].to,
                              !.pc = "switch"]
<1>1. /\ pr \in [Procs -> Process] /\ pr[p] \in Process /\ Control(pr[p])
      /\ Room(mm, pr[p]) /\ panicked = FALSE /\ calls \in Nat
      /\ pr[p].sz <= KERNBASE /\ pr[p].to \in Nat /\ pr[p].a \in Nat
  BY OfProcess
<1>2. /\ pr[p].pc = "grow" /\ pr[p].segs = <<>> /\ pr[p].call = "exec"
      /\ pr[p].a >= pr[p].to
  BY DEF ExecCommit
<1>3. /\ pr[p].state = "RUNNING" /\ pr[p].np = 0 /\ pr[p].nd # NoPage
      /\ pr[p].pgdir # NoPage /\ pr[p].cr3 = pr[p].pgdir /\ d \in DOMAIN mm.dirs
      /\ pr[p].files = <<>> /\ pr[p].ff = NoFile /\ Low(mm, d)
      /\ Filled(mm, pr[p].pgdir, Pgs(pr[p].sz))
  BY <1>2, Drafting
<1>4. UNCHANGED fileVars /\ calls' \in Nat /\ panicked' = FALSE
  BY <1>1 DEF ExecCommit
<1>5. Extending(mm, pr[p])
  BY <1>1, <1>2 DEF Room
<1>6. Vpn(pr[p].a) = Pgs(pr[p].to)
  BY <1>1, <1>2, <1>5, GrowEnd DEF Extending
<1>7. Covers(mm, d, Pgs(pr[p].to)) /\ pr[p].to <= KERNBASE
  BY <1>2, <1>5, <1>6 DEF Extending, Grown
<1>8. PICK o : Heap(mm, o, pr, DOMAIN pipes, {})
  BY DEF Inv, HeapInv
<1>9. d \in Pages /\ pr[p].pgdir \in Pages
  BY <1>1, <1>3 DEF Process, Slot
<1>10. OnlySpace(mm, o, pr, p, pr[p].pgdir) /\ OnlyDraft(mm, o, pr, p, d)
  BY <1>8, <1>9, Somebodys
<1>11. Heap(m, o, pr, DOMAIN pipes, {}) /\ LacksEntries(mm, m, d, {}) /\ Others(mm, m, d)
  BY <1>3, <1>8, HeapGuard
<1>12. /\ Low(m, d) /\ Covers(m, d, Pgs(pr[p].to))
       /\ m.dirs[pr[p].pgdir] = mm.dirs[pr[p].pgdir]
  <2>1. DOMAIN m.dirs[d].ptes = DOMAIN mm.dirs[d].ptes
    BY <1>11 DEF LacksEntries
  <2>2. Low(m, d) /\ Covers(m, d, Pgs(pr[p].to))
    BY <1>3, <1>7, <2>1 DEF Low, Covers
  <2>3. m.dirs[pr[p].pgdir] = mm.dirs[pr[p].pgdir]
    BY <1>10, <1>11 DEF Others, OnlySpace
  <2>4. QED  BY <2>2, <2>3
<1> HIDE DEF m
<1>13. CASE Bad(p, m)
  <2>1. d = Target(pr[p])
    BY <1>2 DEF Target
  <2>2. QED  BY <1>2, <1>3, <1>4, <1>11, <1>12, <1>13, <2>1, BadStep
<1>14. CASE ~Bad(p, m)
  <2>1. /\ mm' = m
        /\ pr' = [pr EXCEPT ![p].pgdir = pr[p].nd, ![p].nd = pr[p].pgdir,
                            ![p].sz = pr[p].to, ![p].pc = "switch"]
    BY <1>14 DEF ExecCommit, m
  <2>2. /\ r \in Process /\ r.pc = "switch" /\ r.state = "RUNNING" /\ r.call = "exec"
        /\ r.np = 0 /\ r.nd = pr[p].pgdir /\ r.pgdir = d /\ r.sz = pr[p].to
        /\ r.cr3 = pr[p].cr3 /\ r.kstack = pr[p].kstack
        /\ r.ofile = pr[p].ofile /\ r.files = <<>> /\ r.ff = NoFile
    <3>1. "switch" \in Pcs
      BY DEF Pcs
    <3>2. QED  BY ZenonT(60), <1>1, <1>2, <1>3, <3>1 DEF Process
  <2>3. Becomes(pr, pr', p, r)
    BY <1>1, <2>1 DEF Becomes
  <2> HIDE DEF r
  <2>4. Control(r)
    BY <1>1, <1>2, <1>3, <2>2 DEF Control
  <2>5. Room(mm', r)
    BY <1>3, <1>7, <1>12, <2>1, <2>2 DEF Room, Space, Filled
  <2>6. PICK u : Heap(m, u, pr', DOMAIN pipes, {})
    BY <1>9, <1>11, <2>2, <2>3, HeapSwap
  <2>7. \A q \in Procs : q # p => pr[q].pgdir # d /\ pr[q].nd # d
    BY <1>10 DEF OnlyDraft
  <2>8. Works(p, r, d)
    BY <1>3, <1>11, <1>12, <2>1, <2>2, <2>3, <2>4, <2>5, <2>7 DEF Works
  <2>9. QED  BY <1>4, <2>1, <2>6, <2>8, MemSolo
<1>15. QED  BY <1>13, <1>14

\* exec() frees the old directory.
LEMMA ExecDoneStep ==
  ASSUME Inv, NEW p \in Procs, ExecDone(p)
  PROVE  Inv'
<1>1. /\ pr[p] \in Process /\ Control(pr[p]) /\ panicked = FALSE /\ calls \in Nat
      /\ pr[p].pc = "drop"
  BY OfProcess DEF ExecDone
<1>2. pr[p].call = "exec" /\ pr[p].nd # NoPage /\ pr[p].nd \in Pages
  BY <1>1 DEF Control, Process, Slot
<1>3. PICK o : Heap(mm, o, pr, DOMAIN pipes, {})
  BY DEF Inv, HeapInv
<1>4. OnlyDraft(mm, o, pr, p, pr[p].nd)
  BY <1>2, <1>3, Somebodys
<1>5. Low(mm, pr[p].nd)
  BY <1>4 DEF OnlyDraft, Inv, SpaceInv, Roomy
<1>6. Others(mm, mm, pr[p].nd) /\ pr[p].nd = Target(pr[p])
  BY <1>2 DEF Others, Target
<1>7. Bad(p, mm) /\ UNCHANGED fileVars /\ calls' \in Nat /\ panicked' = FALSE
  BY <1>1, <1>2 DEF ExecDone, Bad
<1>8. QED  BY <1>1, <1>2, <1>3, <1>5, <1>6, <1>7, BadStep

\* What deallocuvm() leaves of the first n pages.
LEMMA Shrunk ==
  ASSUME NEW m, NEW k, NEW d, NEW oldsz \in Nat, NEW newsz \in Nat, NEW n \in Nat,
         Filled(m, d, n), newsz < oldsz, Pgs(newsz) <= n,
         \A v \in 0 .. n - 1 : v * PGSIZE < oldsz,
         LacksEntries(m, k, d, Above(m, d, oldsz, newsz))
  PROVE  Filled(k, d, Pgs(newsz))
<1> DEFINE ptes == DOMAIN m.dirs[d].ptes
<1>1. Pgs(newsz) \in Nat
  BY RoundUp
<1>2. ASSUME NEW v \in 0 .. n - 1, v \in ptes
      PROVE  v \in Above(m, d, oldsz, newsz) <=> ~(v < Pgs(newsz))
  <2>1. v \in Nat /\ v * PGSIZE \in Int /\ PGROUNDUP(newsz) \in Int
    BY PgsFacts, MemoryAssumption
  <2>2. v < Pgs(newsz) <=> v * PGSIZE < PGROUNDUP(newsz)
    BY <2>1, PageBelow
  <2>3. v \in DOMAIN m.dirs[d].ptes /\ v * PGSIZE < oldsz
    BY <1>2
  <2>4. v \in Above(m, d, oldsz, newsz) <=> PGROUNDUP(newsz) <= v * PGSIZE
    BY <2>3 DEF Above
  <2>5. QED  BY <2>1, <2>2, <2>4
<1>3. DOMAIN k.dirs[d].ptes = ptes \ Above(m, d, oldsz, newsz) /\ ptes \subseteq 0 .. n - 1
  BY DEF LacksEntries, Filled, Covers
<1> HIDE DEF ptes
<1>4. DOMAIN k.dirs[d].ptes = ptes \cap (0 .. Pgs(newsz) - 1)
  <2>1. ASSUME NEW v \in ptes
        PROVE  v \in Above(m, d, oldsz, newsz) <=> v \notin 0 .. Pgs(newsz) - 1
    <3>1. v \in 0 .. n - 1
      BY <1>3
    <3>2. QED  BY <1>1, <1>2, <3>1
  <2>2. QED  BY <1>3, <2>1
<1>5. ptes = 0 .. n - 1 => ptes \cap (0 .. Pgs(newsz) - 1) = 0 .. Pgs(newsz) - 1
  BY <1>1
<1>6. ptes = 0 .. n - 1 \/ 0 \notin ptes
  BY DEF Filled, Covers, ptes
<1>7. QED  BY <1>4, <1>5, <1>6 DEF Filled, Covers

\* allocuvm() is at work.
LEMMA Growth ==
  ASSUME Inv, NEW p \in Procs, pr[p].pc = "grow", pr[p].a < pr[p].to
  PROVE  /\ pr[p].call \in {"exec", "sbrk"} /\ Target(pr[p]) = Growing(p)
         /\ Growing(p) \in DOMAIN mm.dirs
         /\ pr[p].call = "exec" => pr[p].nd # NoPage /\ pr[p].pgdir # Growing(p)
         /\ pr[p].pgdir \in DOMAIN mm.dirs
         /\ \A q \in Procs : q # p => pr[q].pgdir # Growing(p) /\ pr[q].nd # Growing(p)
         /\ Vpn(pr[p].a) \in Nat /\ pr[p].a = Vpn(pr[p].a) * PGSIZE
         /\ Filled(mm, Growing(p), Vpn(pr[p].a))
         /\ pr[p].call = "exec" => Covers(mm, Growing(p), Vpn(pr[p].a))
         /\ pr[p].old < pr[p].to /\ pr[p].to <= KERNBASE
         /\ PGROUNDUP(pr[p].old) <= pr[p].a
<1>1. /\ pr[p] \in Process /\ Control(pr[p]) /\ Room(mm, pr[p]) /\ pr[p].state = "RUNNING"
      /\ pr[p].a \in Nat /\ pr[p].to \in Nat /\ pr[p].old \in Nat
  BY OfProcess
<1>2. /\ pr[p].call \in {"exec", "sbrk"} /\ Target(pr[p]) = Growing(p)
      /\ (pr[p].call = "exec" => pr[p].nd # NoPage) /\ pr[p].pgdir # NoPage
      /\ pr[p].pgdir \in Pages /\ pr[p].nd \in Slot
  BY <1>1 DEF Control, Target, Growing, Process, Slot
<1>3. Extending(mm, pr[p])
  BY <1>1 DEF Room
<1>4. PICK o : Heap(mm, o, pr, DOMAIN pipes, {})
  BY DEF Inv, HeapInv
<1>5. OnlySpace(mm, o, pr, p, pr[p].pgdir)
  BY <1>2, <1>4, Somebodys
<1>6. pr[p].call = "exec" => OnlyDraft(mm, o, pr, p, pr[p].nd)
  BY <1>2, <1>4, Somebodys DEF Slot
<1>7. /\ Growing(p) \in DOMAIN mm.dirs
      /\ pr[p].call = "exec" => pr[p].pgdir # Growing(p)
      /\ \A q \in Procs : q # p => pr[q].pgdir # Growing(p) /\ pr[q].nd # Growing(p)
  BY <1>2, <1>5, <1>6 DEF Growing, OnlySpace, OnlyDraft
<1>8. pr[p].pgdir \in DOMAIN mm.dirs
  BY <1>5 DEF OnlySpace
<1>9. /\ pr[p].old <= PGROUNDUP(pr[p].old) /\ PGROUNDUP(pr[p].old) \in Nat
  BY <1>1, RoundUp, PgsFacts
<1>10. pr[p].old < pr[p].to
  BY <1>1, <1>3, <1>9 DEF Extending
<1>11. Vpn(pr[p].a) \in Nat
  BY <1>1, PageOf
<1>12. QED  BY <1>2, <1>3, <1>7, <1>8, <1>10, <1>11 DEF Extending, Grown, Target

\* What allocuvm() leaves when it undoes its work: the space as it was.
LEMMA Undone ==
  ASSUME Inv, NEW p \in Procs, pr[p].pc = "grow", pr[p].a < pr[p].to,
         NEW m, NEW o, NEW H, Heap(m, o, pr, DOMAIN pipes, H), m.dirs = mm.dirs,
         NEW n, n = GrowUndone(p, m)
  PROVE  /\ Others(mm, n, Growing(p)) /\ Low(n, Growing(p))
         /\ Filled(n, Growing(p), Pgs(pr[p].old)) /\ Growing(p) \in DOMAIN n.dirs
         /\ \E u : Heap(n, u, pr, DOMAIN pipes, H)
<1> DEFINE d == Growing(p)
<1>1. /\ pr[p].a \in Nat /\ pr[p].to \in Nat /\ pr[p].old \in Nat
  BY OfProcess
<1>2. /\ d \in DOMAIN mm.dirs
      /\ Vpn(pr[p].a) \in Nat /\ pr[p].a = Vpn(pr[p].a) * PGSIZE
      /\ Filled(mm, d, Vpn(pr[p].a))
      /\ pr[p].old < pr[p].to /\ PGROUNDUP(pr[p].old) <= pr[p].a
  BY Growth
<1> HIDE DEF d
<1>3. n = deallocuvm(m, d, pr[p].to, pr[p].old) /\ d \in DOMAIN m.dirs
  BY <1>2 DEF GrowUndone, d
<1>4. /\ LacksEntries(m, n, d, IF pr[p].old >= pr[p].to THEN {} ELSE Above(m, d, pr[p].to, pr[p].old))
      /\ Others(m, n, d) /\ \E u : Heap(n, u, pr, DOMAIN pipes, H)
  BY <1>3, HeapDealloc
<1>5. LacksEntries(m, n, d, Above(m, d, pr[p].to, pr[p].old))
  BY <1>1, <1>2, <1>4
<1>6. Filled(m, d, Vpn(pr[p].a))
  BY <1>2 DEF Filled, Covers
<1>7. Pgs(pr[p].old) <= Vpn(pr[p].a)
  <2>1. Pgs(pr[p].old) \in Nat /\ Pgs(pr[p].old) * PGSIZE <= Vpn(pr[p].a) * PGSIZE
    BY <1>1, <1>2, RoundUp
  <2>2. Pgs(pr[p].old) <= Vpn(pr[p].a) <=> Pgs(pr[p].old) * PGSIZE <= Vpn(pr[p].a) * PGSIZE
    BY <1>2, <2>1, Scale
  <2>3. QED  BY <2>1, <2>2
<1>8. ASSUME NEW v \in 0 .. Vpn(pr[p].a) - 1 PROVE v * PGSIZE < pr[p].to
  <2>1. v \in Nat /\ v < Vpn(pr[p].a)
    BY <1>2
  <2>2. v * PGSIZE < Vpn(pr[p].a) * PGSIZE /\ v * PGSIZE \in Int
    BY <1>2, <2>1, Scale
  <2>3. QED  BY <1>1, <1>2, <2>2
<1>9. Filled(n, d, Pgs(pr[p].old))
  BY <1>1, <1>2, <1>5, <1>6, <1>7, <1>8, Shrunk
<1>10. Low(n, d)
  BY <1>2, <1>5 DEF LacksEntries, Low, Inv, SpaceInv, Roomy
<1>11. Others(mm, n, d) /\ d \in DOMAIN n.dirs
  BY <1>3, <1>4, <1>5 DEF Others, LacksEntries
<1>12. QED  BY <1>4, <1>9, <1>10, <1>11 DEF d

\* allocuvm() fails with memory n.
LEMMA GrowBad ==
  ASSUME Inv, NEW p \in Procs, pr[p].pc = "grow", pr[p].a < pr[p].to,
         NEW n, NEW u, Heap(n, u, pr, DOMAIN pipes, {}),
         Others(mm, n, Growing(p)), Low(n, Growing(p)),
         Filled(n, Growing(p), Pgs(pr[p].old)),
         Bad(p, n), UNCHANGED fileVars, calls' \in Nat, panicked' = FALSE
  PROVE  Inv'
<1>1. /\ pr[p].call \in {"exec", "sbrk"} /\ Target(pr[p]) = Growing(p)
      /\ pr[p].call = "exec" => pr[p].nd # NoPage /\ pr[p].pgdir # Growing(p)
      /\ pr[p].pgdir \in DOMAIN mm.dirs
  BY Growth
<1>2. pr[p].call = "exec" => n.dirs[pr[p].pgdir] = mm.dirs[pr[p].pgdir]
  BY <1>1 DEF Others
<1>3. pr[p].call = "sbrk" => pr[p].old = pr[p].sz
  BY OfProcess DEF Room, Extending
<1>4. pr[p].call = "sbrk" => Filled(n, pr[p].pgdir, Pgs(pr[p].sz))
  BY <1>1, <1>3 DEF Target
<1>5. QED  BY <1>1, <1>2, <1>4, BadStep

\* A round of allocuvm(), with both of its failures.
LEMMA GrowPageStep ==
  ASSUME Inv, NEW p \in Procs, GrowPage(p)
  PROVE  Inv'
<1> DEFINE d == Growing(p)
           page == kalloc(mm)
           m == Taken(mm)
           v == Vpn(pr[p].a)
           r == [pr[p] EXCEPT !.a = @ + PGSIZE]
<1>1. /\ pr \in [Procs -> Process] /\ pr[p] \in Process /\ Control(pr[p])
      /\ Room(mm, pr[p]) /\ panicked = FALSE /\ calls \in Nat /\ pr[p].sz \in Nat
      /\ pr[p].a \in Nat /\ pr[p].to \in Nat /\ pr[p].old \in Nat
  BY OfProcess
<1>2. pr[p].pc = "grow" /\ pr[p].a < pr[p].to /\ pr[p].state = "RUNNING"
  BY <1>1 DEF GrowPage, Control
<1>3. UNCHANGED fileVars /\ calls' \in Nat /\ panicked' = FALSE
  BY <1>1 DEF GrowPage
<1>4. /\ pr[p].call \in {"exec", "sbrk"} /\ Target(pr[p]) = d /\ d \in DOMAIN mm.dirs
      /\ pr[p].call = "exec" => pr[p].nd # NoPage /\ pr[p].pgdir # d
      /\ pr[p].pgdir \in DOMAIN mm.dirs
      /\ \A q \in Procs : q # p => pr[q].pgdir # d /\ pr[q].nd # d
      /\ v \in Nat /\ pr[p].a = v * PGSIZE /\ Filled(mm, d, v)
      /\ pr[p].call = "exec" => Covers(mm, d, v)
      /\ pr[p].old < pr[p].to /\ pr[p].to <= KERNBASE
      /\ PGROUNDUP(pr[p].old) <= pr[p].a
  BY <1>2, Growth
<1>5. PICK o : Heap(mm, o, pr, DOMAIN pipes, {})
  BY DEF Inv, HeapInv
<1>6. mm.free # {} => /\ page \in Pages /\ page # NoPage /\ m.dirs = mm.dirs
                      /\ Heap(m, Given(o, {page}, Hand), pr, DOMAIN pipes, {page})
  <2>1. CASE mm.free # {}
    <3>1. IsMem(mm)
      BY <1>5 DEF Heap
    <3>2. page \in Pages /\ page # NoPage /\ m.dirs = mm.dirs
      BY <2>1, <3>1, TakenIs
    <3>3. Heap(m, Given(o, {page}, Hand), pr, DOMAIN pipes, {page})
      BY <1>5, <2>1, HeapTake
    <3>4. QED  BY <3>2, <3>3
  <2>2. QED  BY <2>1
<1>7. page = NoPage <=> mm.free = {}
  BY <1>6 DEF kalloc
<1> HIDE DEF page, m
<1>8. CASE page = NoPage
  <2>1. Bad(p, GrowUndone(p, mm))
    BY <1>8 DEF GrowPage, page
  <2>2. PICK u : /\ Others(mm, GrowUndone(p, mm), d) /\ Low(GrowUndone(p, mm), d)
                 /\ Filled(GrowUndone(p, mm), d, Pgs(pr[p].old))
                 /\ Heap(GrowUndone(p, mm), u, pr, DOMAIN pipes, {})
    BY <1>2, <1>5, Undone
  <2>3. QED  BY <1>2, <1>3, <2>1, <2>2, GrowBad
<1>9. CASE page # NoPage /\ ~CanWalk(m, d, v)
  <2> DEFINE w == GrowUndone(p, m)
             n == kfree(w, {page})
  <2>1. Bad(p, n)
    BY <1>9 DEF GrowPage, page, m
  <2>2. /\ page \in Pages /\ m.dirs = mm.dirs
        /\ Heap(m, Given(o, {page}, Hand), pr, DOMAIN pipes, {page})
    BY <1>6, <1>7, <1>9
  <2>3. PICK x : /\ Others(mm, w, d) /\ Low(w, d) /\ Filled(w, d, Pgs(pr[p].old))
                 /\ Heap(w, x, pr, DOMAIN pipes, {page})
    BY <1>2, <2>2, Undone
  <2> HIDE DEF w
  <2>4. PICK u : n.dirs = w.dirs /\ Heap(n, u, pr, DOMAIN pipes, {})
    BY <2>2, <2>3, HeapHandGone
  <2> HIDE DEF n
  <2>5. Others(mm, n, d) /\ Low(n, d) /\ Filled(n, d, Pgs(pr[p].old))
    BY <2>3, <2>4 DEF Others, Low, Filled, Covers
  <2>6. QED  BY <1>2, <1>3, <2>1, <2>4, <2>5, GrowBad
<1>10. CASE page # NoPage /\ CanWalk(m, d, v)
  <2>1. mm' = mappages(m, d, v, page) /\ pr' = [pr EXCEPT ![p].a = @ + PGSIZE]
    BY <1>10 DEF GrowPage, page, m
  <2>2. /\ page \in Pages /\ m.dirs = mm.dirs
        /\ Heap(m, Given(o, {page}, Hand), pr, DOMAIN pipes, {page})
    BY <1>6, <1>7, <1>10
  <2> HIDE DEF v, d
  <2>3. d \in DOMAIN m.dirs /\ v \notin DOMAIN m.dirs[d].ptes
    BY <1>4, <2>2 DEF Filled, Covers
  <2>4. PICK u : HasEntry(m, mm', d, v) /\ Heap(mm', u, pr, DOMAIN pipes, {})
    BY <1>4, <1>10, <2>1, <2>2, <2>3, HeapMap
  <2>5. /\ r \in Process /\ r.a = pr[p].a + PGSIZE /\ r.pc = "grow" /\ r.state = "RUNNING"
        /\ r.call = pr[p].call /\ r.np = pr[p].np /\ r.nd = pr[p].nd /\ r.sz = pr[p].sz
        /\ r.cr3 = pr[p].cr3 /\ r.kstack = pr[p].kstack /\ r.pgdir = pr[p].pgdir
        /\ r.old = pr[p].old /\ r.to = pr[p].to /\ r.segs = pr[p].segs
        /\ r.ofile = pr[p].ofile /\ r.files = pr[p].files /\ r.ff = pr[p].ff
    <3>1. pr[p].a + PGSIZE \in Nat
      BY <1>1, MemoryAssumption
    <3>2. QED  BY <1>1, <1>2, <3>1 DEF Process
  <2>6. Becomes(pr, pr', p, r)
    BY <1>1, <2>1 DEF Becomes
  <2> HIDE DEF r
  <2>7. Control(r) /\ r.np = 0
    BY <1>1, <1>2, <1>4, <2>5 DEF Control
  <2>8. /\ DOMAIN mm'.dirs = DOMAIN mm.dirs
        /\ \A x \in DOMAIN mm.dirs : x # d => mm'.dirs[x] = mm.dirs[x]
        /\ DOMAIN mm'.dirs[d].ptes = DOMAIN mm.dirs[d].ptes \cup {v}
    BY <1>4, <2>2, <2>4 DEF HasEntry
  <2>9. v * PGSIZE < KERNBASE /\ v < Pgs(pr[p].to)
    <3>1. v * PGSIZE < pr[p].to
      BY <1>2, <1>4
    <3>2. QED  BY <1>1, <1>4, <3>1, PageBelow, MemoryAssumption
  <2>10. /\ Vpn(r.a) = v + 1 /\ r.a = (v + 1) * PGSIZE
         /\ PGROUNDUP(r.old) <= r.a /\ r.a <= PGROUNDUP(r.to)
    <3>1. (v + 1) * PGSIZE = v * PGSIZE + PGSIZE
      BY <1>4, Scale
    <3>2. r.a = (v + 1) * PGSIZE /\ v + 1 \in Nat
      BY <1>4, <2>5, <3>1
    <3>3. Vpn(r.a) = v + 1
      BY <3>2, PageOf
    <3>4. Pgs(pr[p].to) \in Nat /\ PGROUNDUP(r.to) = Pgs(pr[p].to) * PGSIZE
      BY <1>1, <2>5, RoundUp
    <3>5. v + 1 <= Pgs(pr[p].to)
      BY <1>4, <2>9, <3>4
    <3>6. (v + 1) * PGSIZE <= Pgs(pr[p].to) * PGSIZE
      BY <1>4, <3>4, <3>5, Scale
    <3>7. PGROUNDUP(pr[p].old) \in Nat
      BY <1>1, PgsFacts
    <3>8. QED  BY <1>1, <1>4, <2>5, <3>2, <3>3, <3>4, <3>6, <3>7, MemoryAssumption
  <2>11. Grown(mm', r, v + 1)
    <3>1. (0 .. v - 1) \cup {v} = 0 .. v + 1 - 1
      BY <1>4
    <3>2. ASSUME Covers(mm, d, v) PROVE Covers(mm', d, v + 1)
      <4>1. DOMAIN mm'.dirs[d].ptes = (0 .. v - 1) \cup {v}
        BY <2>8, <3>2 DEF Covers
      <4>2. QED  BY <3>1, <4>1 DEF Covers
    <3>3. Filled(mm', d, v + 1)
      <4>1. CASE v = 0
        <5>1. DOMAIN mm.dirs[d].ptes = 0 .. v - 1
          BY <1>4, <4>1 DEF Filled, Covers
        <5>2. QED  BY <3>2, <5>1 DEF Filled, Covers
      <4>2. CASE v # 0
        BY <1>4, <2>8, <3>1, <3>2, <4>2 DEF Filled
      <4>3. QED  BY <4>1, <4>2
    <3>4. Target(r) = d /\ (r.call = "exec" => r.nd = d)
      BY <1>4, <2>5 DEF Target
    <3>5. QED  BY <1>4, <2>5, <3>2, <3>3, <3>4 DEF Grown
  <2>13. Extending(mm', r)
    BY <1>1, <1>2, <2>5, <2>10, <2>11 DEF Extending, Room
  <2>14. Room(mm', r)
    <3>1. r.call = "exec" => mm'.dirs[r.pgdir] = mm.dirs[r.pgdir]
      BY <1>4, <2>5, <2>8
    <3>2. Space(mm', r)
      BY <1>1, <1>2, <1>4, <2>5, <3>1 DEF Room, Space, Filled, Covers
    <3>3. QED  BY <2>5, <2>13, <3>2 DEF Room
  <2>15. Low(mm', d)
    BY <1>4, <2>8, <2>9 DEF Low, Inv, SpaceInv, Roomy
  <2>16. Others(mm, mm', d)
    BY <2>8 DEF Others
  <2>17. Works(p, r, d)
    BY <1>2, <1>4, <2>5, <2>6, <2>7, <2>14, <2>15, <2>16 DEF Works
  <2>18. SameHold(pr, pr')
    BY <2>5, <2>6 DEF SameHold, Becomes
  <2>19. Heap(mm', u, pr', DOMAIN pipes, {})
    BY <2>4, <2>18, Unmoved
  <2>20. QED  BY <1>3, <2>17, <2>19, MemSolo
<1>11. QED  BY <1>8, <1>9, <1>10

\* The smaller of two numbers.
LEMMA SmallerOf ==
  ASSUME NEW x \in Nat, NEW y \in Nat
  PROVE  Min({x, y}) \in Nat /\ Min({x, y}) = IF x <= y THEN x ELSE y
<1>1. Min({x, y}) \in {x, y} /\ \A j \in {x, y} : Min({x, y}) <= j
  BY LeastExists
<1>2. QED  BY <1>1

\* What % computes, of a negative number too.
LEMMA Modulo ==
  ASSUME NEW x \in Int, NEW m \in Nat \ {0}
  PROVE  x % m \in Nat /\ x % m < m
  OBVIOUS

\* growproc() with a negative argument.
LEMMA SbrkShrinkStep ==
  ASSUME Inv, NEW p \in Procs, NEW i \in Increments, SbrkShrink(p, i)
  PROVE  Inv'
<1> DEFINE d == pr[p].pgdir
           s == pr[p].sz
           new == (s + i) % UintRange
           k == [pr[p] EXCEPT !.sz = Min({@, new}), !.cr3 = pr[p].pgdir]
           r == IF new = 0 THEN pr[p] ELSE k
<1>1. /\ pr \in [Procs -> Process] /\ pr[p] \in Process /\ Control(pr[p])
      /\ Room(mm, pr[p]) /\ panicked = FALSE /\ calls \in Nat
      /\ s \in Nat /\ s <= KERNBASE
  BY OfProcess
<1>2. /\ pr[p].state = "RUNNING" /\ pr[p].pc = "user" /\ pr[p].call = "none"
      /\ pr[p].np = 0 /\ pr[p].nd = NoPage /\ d # NoPage
      /\ pr[p].cr3 = d /\ pr[p].a = 0 /\ pr[p].to = 0
      /\ pr[p].files = <<>> /\ pr[p].ff = NoFile
      /\ Filled(mm, d, Pgs(s))
  BY Caller DEF SbrkShrink
<1>3. UNCHANGED fileVars /\ calls' \in Nat /\ panicked' = FALSE
  BY <1>1 DEF SbrkShrink, Call
<1>4. new \in Nat
  <2>1. s + i \in Int
    BY <1>1, ResourcesAssumption
  <2>2. QED  BY <2>1, UintIs, Modulo
<1>5. /\ mm' = deallocuvm(mm, d, s, new)
      /\ pr' = IF new = 0 THEN pr
               ELSE [pr EXCEPT ![p].sz = Min({@, new}), ![p].cr3 = pr[p].pgdir]
  BY DEF SbrkShrink
<1>6. d \in Pages
  BY <1>1, <1>2 DEF Process, Slot
<1> HIDE DEF new
<1>7. Min({s, new}) \in Nat /\ Min({s, new}) = IF s <= new THEN s ELSE new
  BY <1>1, <1>4, SmallerOf
<1>8. /\ r \in Process /\ r.state = "RUNNING" /\ r.pc = "user" /\ r.call = "none"
      /\ r.np = 0 /\ r.nd = NoPage /\ r.pgdir = d /\ r.kstack = pr[p].kstack
      /\ r.cr3 = d /\ r.a = 0 /\ r.to = 0
      /\ r.ofile = pr[p].ofile /\ r.files = <<>> /\ r.ff = NoFile
      /\ r.sz = IF new = 0 \/ s <= new THEN s ELSE new
  <2>1. CASE new = 0
    BY <1>1, <1>2, <2>1
  <2>2. CASE new # 0
    BY <1>1, <1>2, <1>7, <2>2 DEF Process
  <2>3. QED  BY <2>1, <2>2
<1>9. Becomes(pr, pr', p, r)
  BY <1>1, <1>5 DEF Becomes
<1> HIDE DEF r
<1>10. PICK o : Heap(mm, o, pr, DOMAIN pipes, {})
  BY DEF Inv, HeapInv
<1>11. OnlySpace(mm, o, pr, p, d)
  BY <1>6, <1>10, Somebodys
<1>12. d \in DOMAIN mm.dirs /\ \A q \in Procs : q # p => pr[q].pgdir # d /\ pr[q].nd # d
  BY <1>11 DEF OnlySpace
<1>13. PICK u :
         /\ LacksEntries(mm, mm', d, IF new >= s THEN {} ELSE Above(mm, d, s, new))
         /\ Others(mm, mm', d) /\ Heap(mm', u, pr, DOMAIN pipes, {})
  BY <1>5, <1>10, <1>12, HeapDealloc
<1>14. Low(mm', d)
  BY <1>12, <1>13 DEF LacksEntries, Low, Inv, SpaceInv, Roomy
<1>15. Filled(mm', d, IF new >= s THEN Pgs(s) ELSE Pgs(new))
  <2>1. CASE new >= s
    BY <1>2, <1>13, <2>1 DEF LacksEntries, Filled, Covers
  <2>2. CASE ~(new >= s)
    <3>1. Pgs(new) <= Pgs(s) /\ Pgs(s) \in Nat
      BY <1>1, <1>4, <2>2, PgsFacts
    <3>2. ASSUME NEW v \in 0 .. Pgs(s) - 1 PROVE v * PGSIZE < s
      <4>1. v \in Nat /\ v < Pgs(s)
        BY <3>1
      <4>2. QED  BY <1>1, <4>1, PageBelow
    <3>3. LacksEntries(mm, mm', d, Above(mm, d, s, new))
      BY <1>13, <2>2
    <3>4. new < s
      BY <1>1, <1>4, <2>2
    <3>5. Filled(mm', d, Pgs(new))
      BY <1>1, <1>2, <1>4, <3>1, <3>2, <3>3, <3>4, Shrunk
    <3>6. QED  BY <2>2, <3>5
  <2>3. QED  BY <2>1, <2>2
<1>16. Filled(mm', d, Pgs(r.sz))
  <2>1. CASE new = 0 /\ new < s
    <3>1. Pgs(new) = 0
      BY <1>4, <2>1, PgsFacts
    <3>2. Filled(mm', d, Pgs(new))
      BY <1>1, <1>15, <2>1
    <3>3. DOMAIN mm'.dirs[d].ptes = {}
      BY <3>1, <3>2 DEF Filled, Covers
    <3>4. QED  BY <3>3 DEF Filled
  <2>2. CASE ~(new = 0 /\ new < s)
    BY <1>1, <1>4, <1>8, <1>15, <2>2
  <2>3. QED  BY <2>1, <2>2
<1>17. Room(mm', r)
  <2>1. r.sz <= KERNBASE
    BY <1>1, <1>4, <1>8, MemoryAssumption
  <2>2. QED  BY <1>8, <1>16, <2>1 DEF Room, Space
<1>18. Control(r)
  BY <1>1, <1>2, <1>8 DEF Control
<1>19. Works(p, r, d)
  BY <1>2, <1>8, <1>9, <1>12, <1>13, <1>14, <1>17, <1>18 DEF Works
<1>20. SameHold(pr, pr')
  BY <1>2, <1>8, <1>9 DEF SameHold, Becomes
<1>21. Heap(mm', u, pr', DOMAIN pipes, {})
  BY <1>13, <1>20, Unmoved
<1>22. QED  BY <1>3, <1>19, <1>21, MemSolo

-----------------------------------------------------------------------------
\* A process goes on to r and another one to k, with the files they had, in a
\* step on directory d.
Pairs(p, c, r, k, d) ==
  /\ p # c /\ r \in Process /\ k \in Process /\ Control(r) /\ Control(k)
  /\ pr' = [q \in Procs |-> pr'[q]]
  /\ \A q \in Procs : pr'[q] = IF q = p THEN r ELSE IF q = c THEN k ELSE pr[q]
  /\ pr[p].state = "RUNNING" /\ \A q \in Procs : q # p => pr[q].np # c
  /\ k.np = 0 /\ r.np \in {0, c} /\ (r.np = c => Child(r, k))
  /\ r.ofile = pr[p].ofile /\ r.files = pr[p].files /\ r.ff = pr[p].ff
  /\ k.ofile = pr[c].ofile /\ k.files = pr[c].files /\ k.ff = pr[c].ff
  /\ r.pc \notin {"file", "page"} /\ k.pc \notin {"file", "page"}
  /\ Others(mm, mm', d) /\ (d \in DOMAIN mm'.dirs => Low(mm', d))
  /\ \A q \in Procs : q # p /\ q # c => pr[q].pgdir # d /\ pr[q].nd # d
  /\ Room(mm', r) /\ Room(mm', k)

\* A step of a process and of the slot of its child that changes one directory.
LEMMA MemPair ==
  ASSUME Inv, NEW p \in Procs, NEW c \in Procs, NEW r, NEW k, NEW d, Pairs(p, c, r, k, d),
         NEW u, Heap(mm', u, pr', DOMAIN pipes, {}), UNCHANGED fileVars,
         calls' \in Nat, panicked' = FALSE
  PROVE  Inv'
<1>1. /\ pr' = [q \in Procs |-> pr'[q]] /\ p # c
      /\ \A q \in Procs : pr'[q] = IF q = p THEN r ELSE IF q = c THEN k ELSE pr[q]
      /\ r \in Process /\ k \in Process /\ ftable' = ftable /\ pipes' = pipes
  BY DEF Pairs, fileVars
<1>2. pr \in [Procs -> Process] /\ Controlled(pr)
  BY DEF Inv, TypeOK
<1>3. pr' \in [Procs -> Process]
  BY <1>1, <1>2
<1>4. TypeOK'
  BY <1>1, <1>3 DEF Inv, TypeOK
<1>5. Controlled(pr')
  BY <1>2, ControlPair DEF Pairs
<1>6. HeapInv'
  BY <1>1 DEF HeapInv
<1>7. PICK o : Heap(mm, o, pr, DOMAIN pipes, {})
  BY DEF Inv, HeapInv
<1>8. ASSUME NEW q \in Procs PROVE Room(mm', pr'[q])
  <2>1. CASE q = p \/ q = c
    BY <1>1, <2>1 DEF Pairs
  <2>2. CASE q # p /\ q # c
    <3>1. Others(mm, mm', d) /\ pr[q].pgdir # d /\ pr[q].nd # d
      BY <2>2 DEF Pairs
    <3>2. Roomy(mm, pr)
      BY DEF Inv, SpaceInv
    <3>3. Room(mm', pr[q])
      BY <1>2, <1>7, <3>1, <3>2, RoomOthers
    <3>4. QED  BY <1>1, <2>2, <3>3
  <2>3. QED  BY <2>1, <2>2
<1>9. ASSUME NEW x \in DOMAIN mm'.dirs PROVE Low(mm', x)
  <2>1. CASE x = d
    BY <2>1 DEF Pairs
  <2>2. CASE x # d
    BY <2>2 DEF Pairs, Others, Inv, SpaceInv, Roomy, Low
  <2>3. QED  BY <2>1, <2>2
<1>10. SpaceInv'
  BY <1>8, <1>9 DEF SpaceInv, Roomy
<1>11. SameFiles(pr, pr')
  BY <1>1 DEF SameFiles, Pairs
<1>12. FileInv'
  BY <1>1, <1>11, FilesKept DEF Inv
<1>13. QED  BY <1>4, <1>5, <1>6, <1>10, <1>12 DEF Inv

\* No directory at all: a step that leaves the memory alone.
Nowhere == -1

\* Nowhere stands for no directory at all.
LEMMA NowhereIs ==
  ASSUME Inv
  PROVE  /\ Others(mm, mm, Nowhere) /\ Nowhere \notin DOMAIN mm.dirs
         /\ \A q \in Procs : pr[q].pgdir # Nowhere /\ pr[q].nd # Nowhere
<1>1. Nowhere \notin Slot
  BY DEF Nowhere, Slot, Pages, NoPage
<1>2. pr \in [Procs -> Process]
  BY DEF Inv, TypeOK
<1>3. \A q \in Procs : pr[q].pgdir # Nowhere /\ pr[q].nd # Nowhere
  BY <1>1, <1>2 DEF Process
<1>4. PICK o : Heap(mm, o, pr, DOMAIN pipes, {})
  BY DEF Inv, HeapInv
<1>5. DOMAIN mm.dirs \subseteq Pages
  BY <1>4 DEF Heap, IsMem
<1>6. QED  BY <1>1, <1>3, <1>5 DEF Others, Slot

\* A process in fork() and its child.
LEMMA Forking ==
  ASSUME Inv, NEW p \in Procs, pr[p].call = "fork", NEW c, c = pr[p].np
  PROVE  /\ pr[p] \in Process /\ Control(pr[p]) /\ Room(mm, pr[p])
         /\ pr[p].state = "RUNNING" /\ pr[p].pgdir # NoPage /\ pr[p].pgdir \in Pages
         /\ pr[p].pc \in {"stack", "dir", "table", "copy", "dup"}
         /\ pr[p].cr3 = pr[p].pgdir /\ Filled(mm, pr[p].pgdir, Pgs(pr[p].sz))
         /\ pr[p].files = <<>> /\ pr[p].ff = NoFile
         /\ c \in Procs /\ c # p /\ \A q \in Procs : q # p => pr[q].np # c
         /\ Child(pr[p], pr[c]) /\ pr[c] \in Process /\ Control(pr[c]) /\ Room(mm, pr[c])
         /\ pr[c].state = "EMBRYO" /\ pr[c].pc = "user" /\ pr[c].call = "none"
         /\ pr[c].np = 0 /\ pr[c].nd = NoPage /\ pr[c].files = <<>> /\ pr[c].ff = NoFile
<1>1. /\ pr \in [Procs -> Process] /\ pr[p] \in Process /\ Control(pr[p])
      /\ Room(mm, pr[p])
  BY OfProcess
<1>2. /\ pr[p].state = "RUNNING" /\ pr[p].pgdir # NoPage
      /\ pr[p].pc \in {"stack", "dir", "table", "copy", "dup"}
      /\ pr[p].files = <<>> /\ pr[p].ff = NoFile /\ c # 0
  <2>1. pr[p].pc \in Pcs
    BY <1>1 DEF Process
  <2>2. pr[p].pc \in {"stack", "dir", "table", "copy", "dup"}
    BY <1>1, <2>1 DEF Pcs, Control
  <2>3. QED  BY <1>1, <2>2 DEF Control
<1>3. c \in Procs /\ pr[p].pgdir \in Pages
  BY <1>1, <1>2 DEF Process, Slot
<1>4. Controlled(pr)
  BY DEF Inv
<1>5. Child(pr[p], pr[c]) /\ \A q \in Procs : q # p => pr[q].np # c
  BY <1>2, <1>3, <1>4 DEF Controlled
<1>6. pr[c] \in Process /\ Control(pr[c]) /\ Room(mm, pr[c])
  BY <1>3, OfProcess
<1>7. pr[c].state = "EMBRYO" /\ c # p
  BY <1>2, <1>5 DEF Child
<1>8. pr[c].pc = "user"
  BY <1>6, <1>7 DEF Control
<1>9. /\ pr[c].call = "none"
      /\ pr[c].np = 0 /\ pr[c].nd = NoPage /\ pr[c].files = <<>> /\ pr[c].ff = NoFile
  BY <1>6, <1>8 DEF Control
<1>10. pr[p].cr3 = pr[p].pgdir /\ Filled(mm, pr[p].pgdir, Pgs(pr[p].sz))
  BY <1>1, <1>2 DEF Room, Space
<1>11. QED  BY <1>1, <1>2, <1>3, <1>5, <1>6, <1>7, <1>8, <1>9, <1>10

\* allocproc() takes a slot.
LEMMA ForkStep ==
  ASSUME Inv, NEW p \in Procs, Fork(p)
  PROVE  Inv'
<1> DEFINE unused == {q \in Procs : pr[q].state = "UNUSED"}
           c == Min(unused)
           r == [pr[p] EXCEPT !.pc = "stack", !.call = "fork", !.np = c]
           k == [pr[c] EXCEPT !.state = "EMBRYO"]
<1>1. /\ pr \in [Procs -> Process] /\ pr[p] \in Process /\ Control(pr[p])
      /\ Room(mm, pr[p]) /\ panicked = FALSE /\ calls \in Nat
  BY OfProcess
<1>2. /\ pr[p].state = "RUNNING" /\ pr[p].pc = "user" /\ pr[p].call = "none"
      /\ pr[p].np = 0 /\ pr[p].nd = NoPage /\ pr[p].pgdir # NoPage
      /\ pr[p].cr3 = pr[p].pgdir /\ pr[p].a = 0 /\ pr[p].to = 0
      /\ pr[p].files = <<>> /\ pr[p].ff = NoFile
      /\ Filled(mm, pr[p].pgdir, Pgs(pr[p].sz))
  BY Caller DEF Fork
<1>3. c \in unused
  <2>1. unused \in SUBSET Nat /\ unused # {}
    BY DEF Fork, Procs
  <2>2. QED  BY <2>1, LeastExists
<1>4. /\ UNCHANGED <<mm, fileVars>> /\ calls' \in Nat /\ panicked' = FALSE
      /\ pr' = [pr EXCEPT ![p].pc = "stack", ![p].call = "fork", ![p].np = c,
                          ![c].state = "EMBRYO"]
  <2>1. UNCHANGED <<mm, fileVars>> /\ calls' \in Nat /\ panicked' = FALSE
    <3>1. Call /\ UNCHANGED <<mm, fileVars, panicked>>
      BY Zenon DEF Fork
    <3>2. QED  BY <1>1, <3>1 DEF Call
  <2>2. pr' = [pr EXCEPT ![p].pc = "stack", ![p].call = "fork", ![p].np = c,
                         ![c].state = "EMBRYO"]
    BY Zenon DEF Fork
  <2>3. QED  BY <2>1, <2>2
<1> HIDE DEF c
<1>5. c \in Procs /\ pr[c].state = "UNUSED" /\ c # p /\ c # 0
  BY <1>2, <1>3 DEF Procs
<1>6. pr[c] = NoProc /\ pr[c] \in Process /\ Control(pr[c])
  BY <1>5, OfProcess DEF Control
<1>7. ASSUME NEW q \in Procs PROVE pr[q].np # c
  <2>1. Controlled(pr) /\ pr[c].state # "EMBRYO"
    BY <1>5 DEF Inv
  <2>2. QED  BY <1>5, <2>1, NoChild
<1>8. /\ r \in Process /\ r.pc = "stack" /\ r.call = "fork" /\ r.np = c
      /\ r.state = "RUNNING" /\ r.nd = NoPage /\ r.a = 0 /\ r.to = 0
      /\ r.sz = pr[p].sz /\ r.cr3 = pr[p].cr3 /\ r.kstack = pr[p].kstack
      /\ r.pgdir = pr[p].pgdir /\ r.ofile = pr[p].ofile /\ r.files = <<>> /\ r.ff = NoFile
  <2>1. "stack" \in Pcs
    BY DEF Pcs
  <2>2. QED  BY <1>1, <1>2, <1>5, <2>1 DEF Process
<1>9. /\ k \in Process /\ k.pc = "user" /\ k.call = "none" /\ k.np = 0 /\ k.state = "EMBRYO"
      /\ k.nd = NoPage /\ k.a = 0 /\ k.to = 0 /\ k.kstack = NoPage /\ k.pgdir = NoPage
      /\ k.ofile = pr[c].ofile /\ k.files = <<>> /\ k.ff = NoFile /\ k.sz = 0
      /\ NoFiles(k)
  <2>1. k \in Process
    BY <1>6 DEF Process
  <2>2. QED  BY <1>6, <2>1 DEF NoProc, NoFiles
<1>10. /\ pr' = [q \in Procs |-> pr'[q]]
       /\ \A q \in Procs : pr'[q] = IF q = p THEN r ELSE IF q = c THEN k ELSE pr[q]
  BY <1>1, <1>4, <1>5
<1>11. pr[c].files = <<>> /\ pr[c].ff = NoFile /\ pr[c].kstack = NoPage
       /\ pr[c].pgdir = NoPage /\ pr[c].nd = NoPage
  BY <1>6 DEF NoProc
<1> HIDE DEF r, k
<1>12. Control(r) /\ Control(k) /\ Child(r, k)
  BY <1>1, <1>2, <1>5, <1>8, <1>9 DEF Control, Child
<1>13. Room(mm, r) /\ Room(mm, k)
  <2>1. Room(mm, r)
    BY <1>1, <1>2, <1>8 DEF Room, Space
  <2>2. Room(mm, k)
    BY <1>9, MemoryAssumption DEF Room, Space
  <2>3. QED  BY <2>1, <2>2
<1>14. SameHold(pr, pr')
  BY <1>2, <1>8, <1>9, <1>10, <1>11 DEF SameHold
<1>15. PICK o : Heap(mm, o, pr, DOMAIN pipes, {})
  BY DEF Inv, HeapInv
<1>16. Heap(mm', o, pr', DOMAIN pipes, {})
  BY <1>4, <1>14, <1>15, Unmoved
<1>17. Pairs(p, c, r, k, Nowhere)
  <2>1. /\ Others(mm, mm', Nowhere) /\ Nowhere \notin DOMAIN mm'.dirs
        /\ \A q \in Procs : pr[q].pgdir # Nowhere /\ pr[q].nd # Nowhere
    BY <1>4, NowhereIs
  <2>2. Room(mm', r) /\ Room(mm', k)
    BY <1>4, <1>13
  <2>3. QED
    BY <1>2, <1>5, <1>7, <1>8, <1>9, <1>10, <1>11, <1>12, <2>1, <2>2 DEF Pairs
<1>18. QED  BY <1>4, <1>5, <1>16, <1>17, MemPair DEF fileVars

\* fork() is over without a child: p has the record it had before the call.
LEMMA Forked ==
  ASSUME Inv, NEW p \in Procs, pr[p].call = "fork",
         NEW d, \A q \in Procs : q # p => pr[q].pgdir # d /\ pr[q].nd # d,
         pr[p].pgdir # d, pr[p].pc # "dup",
         Others(mm, mm', d), d \notin DOMAIN mm'.dirs,
         pr' = [pr EXCEPT ![p] = Back(@), ![pr[p].np] = NoProc],
         NEW u, Heap(mm', u, pr', DOMAIN pipes, {}),
         UNCHANGED fileVars, calls' \in Nat, panicked' = FALSE
  PROVE  Inv'
<1> DEFINE c == pr[p].np
           r == Back(pr[p])
<1>1. /\ pr[p] \in Process /\ Control(pr[p]) /\ Room(mm, pr[p])
      /\ pr[p].state = "RUNNING" /\ pr[p].pgdir # NoPage /\ pr[p].pgdir \in Pages
      /\ pr[p].cr3 = pr[p].pgdir /\ Filled(mm, pr[p].pgdir, Pgs(pr[p].sz))
      /\ pr[p].files = <<>> /\ pr[p].ff = NoFile
      /\ c \in Procs /\ c # p /\ \A q \in Procs : q # p => pr[q].np # c
      /\ Child(pr[p], pr[c]) /\ pr[c] \in Process /\ pr[c].files = <<>> /\ pr[c].ff = NoFile
  BY Forking
<1>2. pr \in [Procs -> Process]
  BY OfProcess
<1>3. /\ pr' = [q \in Procs |-> pr'[q]]
      /\ \A q \in Procs : pr'[q] = IF q = p THEN r ELSE IF q = c THEN NoProc ELSE pr[q]
  BY <1>1, <1>2
<1> HIDE DEF c
<1>4. /\ r \in Process /\ r.state = "RUNNING" /\ r.sz = pr[p].sz /\ r.cr3 = pr[p].cr3
      /\ r.kstack = pr[p].kstack /\ r.pgdir = pr[p].pgdir /\ r.ofile = pr[p].ofile
      /\ r.pc = "user" /\ r.call = "none" /\ r.np = 0 /\ r.nd = NoPage
      /\ r.files = <<>> /\ r.ff = NoFile /\ Control(r)
  BY <1>1, BackIs
<1> HIDE DEF r
<1>5. /\ NoProc \in Process /\ Control(NoProc) /\ NoProc.np = 0 /\ NoProc.files = <<>>
      /\ NoProc.ff = NoFile /\ NoProc.pc = "user" /\ NoProc.sz = 0
      /\ NoProc.state = "UNUSED" /\ NoProc.ofile = [fd \in Fds |-> None]
  BY NoProcIs DEF NoProc
<1>6. pr[c].ofile = [fd \in Fds |-> None]
  <2>1. pr[c].ofile \in [Fds -> FileIds \cup {None}]
    BY <1>1 DEF Process
  <2>2. \A fd \in Fds : pr[c].ofile[fd] = None
    BY <1>1 DEF Child, NoFiles
  <2>3. QED  BY <2>1, <2>2
<1>7. mm'.dirs[pr[p].pgdir] = mm.dirs[pr[p].pgdir]
  <2>1. PICK o : Heap(mm, o, pr, DOMAIN pipes, {})
    BY DEF Inv, HeapInv
  <2>2. OnlySpace(mm, o, pr, p, pr[p].pgdir)
    BY <1>1, <2>1, Somebodys
  <2>3. QED  BY <2>2 DEF OnlySpace, Others
<1>8. Room(mm', r)
  BY <1>1, <1>4, <1>7 DEF Room, Space, Filled, Covers
<1>9. Room(mm', NoProc)
  BY <1>5, MemoryAssumption DEF Room, Space
<1>10. c # 0
  BY <1>1 DEF Procs
<1>11. Pairs(p, c, r, NoProc, d)
  BY <1>1, <1>3, <1>4, <1>5, <1>6, <1>8, <1>9, <1>10 DEF Pairs
<1>12. QED  BY <1>1, <1>11, MemPair

\* allocproc() takes the kernel stack, or gives the slot back.
LEMMA ForkStackStep ==
  ASSUME Inv, NEW p \in Procs, ForkStack(p)
  PROVE  Inv'
<1> DEFINE c == pr[p].np
           r == [pr[p] EXCEPT !.pc = "dir"]
           k == [pr[c] EXCEPT !.kstack = kalloc(mm)]
<1>1. pr \in [Procs -> Process] /\ panicked = FALSE /\ calls \in Nat
  BY OfProcess
<1>2. pr[p].pc = "stack" /\ pr[p].call = "fork"
  BY OfProcess DEF ForkStack, Control
<1>3. /\ pr[p] \in Process /\ Control(pr[p]) /\ Room(mm, pr[p])
      /\ pr[p].state = "RUNNING" /\ pr[p].pgdir # NoPage
      /\ pr[p].cr3 = pr[p].pgdir /\ Filled(mm, pr[p].pgdir, Pgs(pr[p].sz))
      /\ pr[p].files = <<>> /\ pr[p].ff = NoFile
      /\ c \in Procs /\ c # p /\ \A q \in Procs : q # p => pr[q].np # c
      /\ Child(pr[p], pr[c]) /\ pr[c] \in Process /\ Control(pr[c]) /\ Room(mm, pr[c])
      /\ pr[c].state = "EMBRYO" /\ pr[c].pc = "user" /\ pr[c].call = "none"
      /\ pr[c].np = 0 /\ pr[c].nd = NoPage /\ pr[c].files = <<>> /\ pr[c].ff = NoFile
  BY <1>2, Forking
<1>4. UNCHANGED fileVars /\ calls' \in Nat /\ panicked' = FALSE
  BY <1>1 DEF ForkStack
<1>5. pr[p].nd = NoPage /\ pr[c].kstack = NoPage /\ pr[c].pgdir = NoPage /\ NoFiles(pr[c])
  BY <1>2, <1>3 DEF Control, Child
<1>6. PICK o : Heap(mm, o, pr, DOMAIN pipes, {})
  BY DEF Inv, HeapInv
<1>7. /\ Others(mm, mm, Nowhere) /\ Nowhere \notin DOMAIN mm.dirs
      /\ \A q \in Procs : pr[q].pgdir # Nowhere /\ pr[q].nd # Nowhere
  BY NowhereIs
<1>8. CASE mm.free = {}
  <2>1. pr' = [pr EXCEPT ![p] = Back(@), ![pr[p].np] = NoProc] /\ mm' = mm
    BY <1>8 DEF ForkStack
  <2>2. \A q \in Procs : pr'[q] = IF q = p THEN Back(pr[p]) ELSE IF q = c THEN NoProc ELSE pr[q]
    BY <1>1, <1>3, <2>1
  <2>3. SameHold(pr, pr')
    <3>1. /\ Back(pr[p]).kstack = pr[p].kstack /\ Back(pr[p]).pgdir = pr[p].pgdir
          /\ Back(pr[p]).nd = NoPage
      BY <1>3, BackIs
    <3>2. NoProc.kstack = NoPage /\ NoProc.pgdir = NoPage /\ NoProc.nd = NoPage
      BY NoProcIs
    <3>3. QED  BY <1>3, <1>5, <2>2, <3>1, <3>2 DEF SameHold
  <2>4. Heap(mm', o, pr', DOMAIN pipes, {})
    BY <1>6, <2>1, <2>3, Unmoved
  <2>5. Others(mm, mm', Nowhere) /\ Nowhere \notin DOMAIN mm'.dirs
    BY <1>7, <2>1
  <2>6. /\ \A q \in Procs : q # p => pr[q].pgdir # Nowhere /\ pr[q].nd # Nowhere
        /\ pr[p].pgdir # Nowhere /\ pr[p].pc # "dup"
    BY <1>2, <1>7
  <2>7. QED  BY <1>2, <1>4, <2>1, <2>4, <2>5, <2>6, Forked
<1>9. CASE mm.free # {}
  <2>1. /\ pr' = [pr EXCEPT ![pr[p].np].kstack = kalloc(mm), ![p].pc = "dir"]
        /\ mm' = Taken(mm)
    BY <1>9 DEF ForkStack
  <2>2. kalloc(mm) \in Pages /\ kalloc(mm) # NoPage /\ mm'.dirs = mm.dirs
    <3>1. IsMem(mm)
      BY <1>6 DEF Heap
    <3>2. QED  BY <1>9, <2>1, <3>1, TakenIs
  <2>3. /\ r \in Process /\ r.pc = "dir" /\ r.call = "fork" /\ r.np = c
        /\ r.state = "RUNNING" /\ r.nd = NoPage /\ r.a = 0 /\ r.to = 0
        /\ r.sz = pr[p].sz /\ r.cr3 = pr[p].cr3 /\ r.kstack = pr[p].kstack
        /\ r.pgdir = pr[p].pgdir /\ r.ofile = pr[p].ofile /\ r.files = <<>> /\ r.ff = NoFile
    <3>1. "dir" \in Pcs /\ pr[p].a = 0 /\ pr[p].to = 0
      BY <1>2, <1>3 DEF Pcs, Control
    <3>2. QED  BY <1>2, <1>3, <1>5, <3>1 DEF Process
  <2>4. /\ k \in Process /\ k.pc = "user" /\ k.call = "none" /\ k.np = 0
        /\ k.state = "EMBRYO" /\ k.nd = NoPage /\ k.kstack = kalloc(mm)
        /\ k.pgdir = NoPage /\ k.a = pr[c].a /\ k.to = pr[c].to
        /\ k.ofile = pr[c].ofile /\ k.files = <<>> /\ k.ff = NoFile /\ k.sz = pr[c].sz
    BY ZenonT(60), <1>3, <1>5, <2>2 DEF Process, Slot
  <2>5. /\ pr' = [q \in Procs |-> pr'[q]]
        /\ \A q \in Procs : pr'[q] = IF q = p THEN r ELSE IF q = c THEN k ELSE pr[q]
    BY <1>1, <1>3, <2>1
  <2> HIDE DEF r, k, c
  <2>6. Control(r) /\ Control(k) /\ Child(r, k)
    BY <1>3, <1>2, <1>5, <2>2, <2>3, <2>4 DEF Control, Child, NoFiles
  <2>7. Room(mm', r) /\ Room(mm', k)
    <3>1. Room(mm', r)
      BY <1>3, <2>2, <2>3 DEF Room, Space, Filled, Covers
    <3>2. Room(mm', k)
      BY <1>3, <2>4 DEF Room, Space
    <3>3. QED  BY <3>1, <3>2
  <2>8. NewStack(pr, pr', c, kalloc(mm))
    BY <1>3, <1>5, <2>3, <2>4, <2>5 DEF NewStack
  <2>9. PICK u : Heap(mm', u, pr', DOMAIN pipes, {})
    BY <1>3, <1>5, <1>6, <1>9, <2>1, <2>8, HeapStack
  <2>10. Others(mm, mm', Nowhere) /\ Nowhere \notin DOMAIN mm'.dirs
    BY <1>7, <2>2 DEF Others
  <2>11. Pairs(p, c, r, k, Nowhere)
    BY <1>3, <1>7, <2>3, <2>4, <2>5, <2>6, <2>7, <2>10 DEF Pairs
  <2>12. QED  BY <1>3, <1>4, <2>9, <2>11, MemPair
<1>10. QED  BY <1>8, <1>9

\* fork() gives the copy to the child.
LEMMA CopyDoneStep ==
  ASSUME Inv, NEW p \in Procs, CopyDone(p)
  PROVE  Inv'
<1> DEFINE c == pr[p].np
           d == pr[p].nd
           r == [pr[p] EXCEPT !.nd = NoPage, !.pc = "dup"]
           k == [pr[c] EXCEPT !.pgdir = d, !.cr3 = d, !.sz = pr[p].sz, !.parent = p]
<1>1. /\ pr \in [Procs -> Process] /\ panicked = FALSE /\ calls \in Nat
      /\ pr[p].a \in Nat /\ pr[p].sz \in Nat
  BY OfProcess
<1>2. pr[p].pc = "copy" /\ pr[p].call = "fork" /\ pr[p].a >= pr[p].sz
  BY OfProcess DEF CopyDone, Control
<1>3. /\ pr[p] \in Process /\ Control(pr[p]) /\ Room(mm, pr[p])
      /\ pr[p].state = "RUNNING" /\ pr[p].pgdir # NoPage
      /\ pr[p].cr3 = pr[p].pgdir /\ Filled(mm, pr[p].pgdir, Pgs(pr[p].sz))
      /\ pr[p].files = <<>> /\ pr[p].ff = NoFile
      /\ c \in Procs /\ c # p /\ \A q \in Procs : q # p => pr[q].np # c
      /\ Child(pr[p], pr[c]) /\ pr[c] \in Process /\ Control(pr[c]) /\ Room(mm, pr[c])
      /\ pr[c].state = "EMBRYO" /\ pr[c].pc = "user" /\ pr[c].call = "none"
      /\ pr[c].np = 0 /\ pr[c].nd = NoPage /\ pr[c].files = <<>> /\ pr[c].ff = NoFile
  BY <1>2, Forking
<1>4. /\ UNCHANGED <<mm, fileVars>> /\ calls' \in Nat /\ panicked' = FALSE
  BY <1>1 DEF CopyDone
<1>5. /\ d # NoPage /\ d \in Pages /\ pr[c].kstack # NoPage /\ pr[c].pgdir = NoPage
      /\ pr[p].sz <= KERNBASE
  BY <1>2, <1>3 DEF Control, Child, Process, Slot, Room, Space
<1>6. PICK o : Heap(mm, o, pr, DOMAIN pipes, {})
  BY DEF Inv, HeapInv
<1>7. OnlyDraft(mm, o, pr, p, d)
  BY <1>5, <1>6, Somebodys
<1>8. Covers(mm, d, Pgs(pr[p].sz))
  <2>1. Copying(mm, pr[p])
    BY <1>2, <1>3 DEF Room
  <2>2. Vpn(pr[p].a) = Pgs(pr[p].sz)
    BY <1>1, <1>2, <2>1, GrowEnd DEF Copying
  <2>3. QED  BY <2>1, <2>2 DEF Copying
<1>9. pr' = [pr EXCEPT ![c].pgdir = d, ![c].cr3 = d, ![c].sz = pr[p].sz, ![c].parent = p,
                       ![p].nd = NoPage, ![p].pc = "dup"]
  BY DEF CopyDone
<1>10. /\ r \in Process /\ r.pc = "dup" /\ r.call = "fork" /\ r.np = c
       /\ r.state = "RUNNING" /\ r.nd = NoPage
       /\ r.sz = pr[p].sz /\ r.cr3 = pr[p].cr3 /\ r.kstack = pr[p].kstack
       /\ r.pgdir = pr[p].pgdir /\ r.ofile = pr[p].ofile /\ r.files = <<>> /\ r.ff = NoFile
  <2>1. "dup" \in Pcs /\ NoPage \in Slot
    BY DEF Pcs, Slot
  <2>2. QED  BY ZenonT(60), <1>2, <1>3, <2>1 DEF Process
<1>11. /\ k \in Process /\ k.pc = "user" /\ k.call = "none" /\ k.np = 0
       /\ k.state = "EMBRYO" /\ k.nd = NoPage /\ k.kstack = pr[c].kstack
       /\ k.pgdir = d /\ k.cr3 = d /\ k.a = pr[c].a /\ k.to = pr[c].to
       /\ k.ofile = pr[c].ofile /\ k.files = <<>> /\ k.ff = NoFile /\ k.sz = pr[p].sz
  BY ZenonT(60), <1>1, <1>3, <1>5 DEF Process, Slot
<1>12. /\ pr' = [q \in Procs |-> pr'[q]]
       /\ \A q \in Procs : pr'[q] = IF q = p THEN r ELSE IF q = c THEN k ELSE pr[q]
  BY <1>1, <1>3, <1>9
<1> HIDE DEF r, k, c, d
<1>13. Control(r) /\ Control(k) /\ Child(r, k)
  BY <1>3, <1>2, <1>5, <1>10, <1>11 DEF Control, Child
<1>14. Room(mm, r) /\ Room(mm, k)
  <2>1. Room(mm, r)
    BY <1>3, <1>10 DEF Room, Space
  <2>2. Room(mm, k)
    BY <1>5, <1>8, <1>11 DEF Room, Space, Filled
  <2>3. QED  BY <2>1, <2>2
<1>15. Moved(pr, pr', d, SpaceOf(c))
  <2>1. ASSUME NEW q \in Procs
        PROVE  /\ pr'[q].kstack = pr[q].kstack /\ pr[q].kstack # d
               /\ pr'[q].pgdir = (IF q = c THEN d ELSE pr[q].pgdir) /\ pr[q].pgdir # d
               /\ pr'[q].nd = IF q = p THEN NoPage ELSE pr[q].nd
               /\ pr[q].nd = d <=> q = p
               /\ SpaceOf(c) = SpaceOf(q) <=> q = c
               /\ SpaceOf(c) # StackOf(q) /\ SpaceOf(c) # DraftOf(q)
    <3>1. /\ SpaceOf(c) = SpaceOf(q) <=> q = c
          /\ SpaceOf(c) # StackOf(q) /\ SpaceOf(c) # DraftOf(q)
      BY <1>3, Outers
    <3>2. QED  BY <1>3, <1>7, <1>10, <1>11, <1>12, <3>1 DEF OnlyDraft, d
  <2>2. QED  BY <1>5, <2>1 DEF Moved, After
<1>16. Heap(mm', Given(o, {d}, SpaceOf(c)), pr', DOMAIN pipes, {})
  <2>1. SpaceOf(c) \in Tops /\ d \in DOMAIN mm.dirs
    BY <1>3, <1>7, Outers DEF OnlyDraft
  <2>2. QED  BY <1>4, <1>6, <1>15, <2>1, HeapPassed
<1>17. Pairs(p, c, r, k, Nowhere)
  <2>1. /\ Others(mm, mm', Nowhere) /\ Nowhere \notin DOMAIN mm'.dirs
        /\ \A q \in Procs : pr[q].pgdir # Nowhere /\ pr[q].nd # Nowhere
    BY <1>4, NowhereIs
  <2>2. Room(mm', r) /\ Room(mm', k)
    BY <1>4, <1>14
  <2>3. QED
    BY <1>3, <1>10, <1>11, <1>12, <1>13, <2>1, <2>2 DEF Pairs
<1>18. QED  BY <1>3, <1>4, <1>16, <1>17, MemPair DEF fileVars

\* fork() lets the child run.
LEMMA ForkDoneStep ==
  ASSUME Inv, NEW p \in Procs, ForkDone(p)
  PROVE  Inv'
<1> DEFINE c == pr[p].np
           r == Back(pr[p])
           k == [pr[c] EXCEPT !.state = "RUNNING"]
<1>1. pr \in [Procs -> Process] /\ panicked = FALSE /\ calls \in Nat
  BY OfProcess
<1>2. pr[p].pc = "dup" /\ pr[p].call = "fork"
  BY OfProcess DEF ForkDone, Control
<1>3. /\ pr[p] \in Process /\ Control(pr[p]) /\ Room(mm, pr[p])
      /\ pr[p].state = "RUNNING" /\ pr[p].pgdir # NoPage
      /\ pr[p].cr3 = pr[p].pgdir /\ Filled(mm, pr[p].pgdir, Pgs(pr[p].sz))
      /\ pr[p].files = <<>> /\ pr[p].ff = NoFile
      /\ c \in Procs /\ c # p /\ \A q \in Procs : q # p => pr[q].np # c
      /\ Child(pr[p], pr[c]) /\ pr[c] \in Process /\ Control(pr[c]) /\ Room(mm, pr[c])
      /\ pr[c].state = "EMBRYO" /\ pr[c].pc = "user" /\ pr[c].call = "none"
      /\ pr[c].np = 0 /\ pr[c].nd = NoPage /\ pr[c].files = <<>> /\ pr[c].ff = NoFile
  BY <1>2, Forking
<1>4. /\ UNCHANGED <<mm, fileVars>> /\ calls' \in Nat /\ panicked' = FALSE
      /\ pr' = [pr EXCEPT ![c].state = "RUNNING", ![p] = Back(@)]
  BY <1>1 DEF ForkDone
<1>5. pr[p].nd = NoPage /\ pr[c].kstack # NoPage /\ pr[c].pgdir # NoPage
  BY <1>2, <1>3 DEF Control, Child
<1>6. /\ pr' = [q \in Procs |-> pr'[q]]
      /\ \A q \in Procs : pr'[q] = IF q = p THEN r ELSE IF q = c THEN k ELSE pr[q]
  BY <1>1, <1>3, <1>4
<1>7. /\ r \in Process /\ r.state = "RUNNING" /\ r.sz = pr[p].sz /\ r.cr3 = pr[p].cr3
      /\ r.kstack = pr[p].kstack /\ r.pgdir = pr[p].pgdir /\ r.ofile = pr[p].ofile
      /\ r.pc = "user" /\ r.call = "none" /\ r.np = 0 /\ r.nd = NoPage
      /\ r.files = <<>> /\ r.ff = NoFile /\ Control(r)
  BY <1>3, BackIs
<1>8. /\ k \in Process /\ k.pc = "user" /\ k.call = "none" /\ k.np = 0
      /\ k.state = "RUNNING" /\ k.nd = NoPage /\ k.kstack = pr[c].kstack
      /\ k.pgdir = pr[c].pgdir /\ k.cr3 = pr[c].cr3 /\ k.a = pr[c].a /\ k.to = pr[c].to
      /\ k.ofile = pr[c].ofile /\ k.files = <<>> /\ k.ff = NoFile /\ k.sz = pr[c].sz
  BY ZenonT(60), <1>3 DEF Process
<1> HIDE DEF r, k, c
<1>9. Control(k) /\ c # 0
  BY <1>3, <1>5, <1>8 DEF Control, Procs
<1>10. Room(mm, r) /\ Room(mm, k)
  <2>1. Room(mm, r)
    BY <1>3, <1>7 DEF Room, Space
  <2>2. Room(mm, k)
    BY <1>3, <1>8 DEF Room, Space
  <2>3. QED  BY <2>1, <2>2
<1>11. SameHold(pr, pr')
  BY <1>3, <1>5, <1>6, <1>7, <1>8 DEF SameHold
<1>12. PICK o : Heap(mm, o, pr, DOMAIN pipes, {})
  BY DEF Inv, HeapInv
<1>13. Heap(mm', o, pr', DOMAIN pipes, {})
  BY <1>4, <1>11, <1>12, Unmoved
<1>14. Pairs(p, c, r, k, Nowhere)
  <2>1. /\ Others(mm, mm', Nowhere) /\ Nowhere \notin DOMAIN mm'.dirs
        /\ \A q \in Procs : pr[q].pgdir # Nowhere /\ pr[q].nd # Nowhere
    BY <1>4, NowhereIs
  <2>2. Room(mm', r) /\ Room(mm', k)
    BY <1>4, <1>10
  <2>3. QED
    BY <1>3, <1>6, <1>7, <1>8, <1>9, <2>1, <2>2 DEF Pairs
<1>15. QED  BY <1>3, <1>4, <1>13, <1>14, MemPair DEF fileVars

\* fork() gives up, with memory m: the kernel stack and the slot are given back.
LEMMA ForkFails ==
  ASSUME Inv, NEW p \in Procs, pr[p].call = "fork", pr[p].pc \in {"dir", "table", "copy"},
         NEW d, \A q \in Procs : q # p => pr[q].pgdir # d /\ pr[q].nd # d, pr[p].pgdir # d,
         NEW m, Others(mm, m, d), d \notin DOMAIN m.dirs,
         NEW o, NEW Q, Heap(m, o, Q, DOMAIN pipes, {}), NewDraft(pr, Q, p, NoPage),
         ForkFailed(p, m), UNCHANGED fileVars, calls' \in Nat, panicked' = FALSE
  PROVE  Inv'
<1> DEFINE c == pr[p].np
<1>1. /\ pr[p] \in Process /\ Control(pr[p])
      /\ c \in Procs /\ c # p /\ Child(pr[p], pr[c]) /\ pr[c] \in Process
      /\ pr[c].nd = NoPage
  BY Forking
<1>2. pr \in [Procs -> Process]
  BY OfProcess
<1>3. mm' = kfree(m, {pr[c].kstack}) /\ pr' = [pr EXCEPT ![p] = Back(@), ![pr[p].np] = NoProc]
  BY DEF ForkFailed
<1>4. pr[c].kstack # NoPage /\ pr[c].pgdir = NoPage /\ pr[c].kstack \in Pages
  BY <1>1 DEF Child, Process, Slot
<1>5. \A q \in Procs : pr'[q] = IF q = p THEN Back(pr[p]) ELSE IF q = c THEN NoProc ELSE pr[q]
  BY <1>1, <1>2, <1>3
<1> HIDE DEF c
<1>6. /\ Back(pr[p]).kstack = pr[p].kstack /\ Back(pr[p]).pgdir = pr[p].pgdir
      /\ Back(pr[p]).nd = NoPage
  BY <1>1, BackIs
<1>7. NoProc.kstack = NoPage /\ NoProc.pgdir = NoPage /\ NoProc.nd = NoPage
  BY NoProcIs
<1>8. NewStack(Q, pr', c, NoPage)
  BY <1>1, <1>4, <1>5, <1>6, <1>7 DEF NewStack, NewDraft
<1>9. Q[c].kstack = pr[c].kstack
  BY <1>1 DEF NewDraft
<1>10. PICK u : mm'.dirs = m.dirs /\ Heap(mm', u, pr', DOMAIN pipes, {})
  BY <1>1, <1>3, <1>4, <1>8, <1>9, HeapStackFreed
<1>11. Others(mm, mm', d) /\ d \notin DOMAIN mm'.dirs
  BY <1>10 DEF Others
<1>12. pr[p].pc # "dup"
  OBVIOUS
<1>13. QED  BY ZenonT(60), <1>3, <1>10, <1>11, <1>12, Forked

\* exec() gives up before it has a directory.
LEMMA ExecFails ==
  ASSUME Inv, NEW p \in Procs, pr[p].call = "exec", pr[p].pc \in {"dir", "table"},
         NEW d, \A q \in Procs : q # p => pr[q].pgdir # d /\ pr[q].nd # d, pr[p].pgdir # d,
         Others(mm, mm', d), d \notin DOMAIN mm'.dirs,
         NEW o, NEW Q, Heap(mm', o, Q, DOMAIN pipes, {}), NewDraft(pr, Q, p, NoPage),
         pr' = [pr EXCEPT ![p] = Back(@)],
         UNCHANGED fileVars, calls' \in Nat, panicked' = FALSE
  PROVE  Inv'
<1> DEFINE r == Back(pr[p])
<1>1. /\ pr \in [Procs -> Process] /\ pr[p] \in Process /\ Control(pr[p])
      /\ Room(mm, pr[p]) /\ pr[p].state = "RUNNING"
  BY OfProcess
<1>2. /\ pr[p].np = 0 /\ pr[p].pgdir # NoPage /\ pr[p].pgdir \in Pages
      /\ pr[p].files = <<>> /\ pr[p].ff = NoFile
  BY <1>1 DEF Control, Process, Slot
<1>3. /\ r \in Process /\ r.state = "RUNNING" /\ r.sz = pr[p].sz /\ r.cr3 = pr[p].cr3
      /\ r.kstack = pr[p].kstack /\ r.pgdir = pr[p].pgdir /\ r.ofile = pr[p].ofile
      /\ r.pc = "user" /\ r.call = "none" /\ r.np = 0 /\ r.nd = NoPage
      /\ r.files = <<>> /\ r.ff = NoFile /\ Control(r)
  BY <1>1, BackIs
<1>4. Becomes(pr, pr', p, r)
  BY <1>1 DEF Becomes
<1> HIDE DEF r
<1>5. mm'.dirs[pr[p].pgdir] = mm.dirs[pr[p].pgdir]
  <2>1. PICK x : Heap(mm, x, pr, DOMAIN pipes, {})
    BY DEF Inv, HeapInv
  <2>2. OnlySpace(mm, x, pr, p, pr[p].pgdir)
    BY <1>2, <2>1, Somebodys
  <2>3. QED  BY <2>2 DEF OnlySpace, Others
<1>6. Room(mm', r)
  BY <1>1, <1>2, <1>3, <1>5 DEF Room, Space, Filled, Covers
<1>7. Works(p, r, d)
  BY <1>1, <1>2, <1>3, <1>4, <1>6 DEF Works
<1>8. SameHold(Q, pr')
  BY <1>3, <1>4 DEF SameHold, Becomes, NewDraft
<1>9. Heap(mm', o, pr', DOMAIN pipes, {})
  BY <1>8, Unmoved
<1>10. QED  BY <1>7, <1>9, MemSolo

\* setupkvm() takes the directory.
LEMMA SetupDirStep ==
  ASSUME Inv, NEW p \in Procs, SetupDir(p)
  PROVE  Inv'
<1> DEFINE g == kalloc(mm)
           r == [pr[p] EXCEPT !.nd = g, !.pc = "table"]
<1>1. /\ pr \in [Procs -> Process] /\ pr[p] \in Process /\ Control(pr[p])
      /\ Room(mm, pr[p]) /\ panicked = FALSE /\ calls \in Nat
      /\ pr[p].state = "RUNNING" /\ pr[p].pc = "dir"
  BY OfProcess DEF SetupDir
<1>2. /\ pr[p].call \in {"fork", "exec"} /\ pr[p].nd = NoPage /\ pr[p].pgdir # NoPage
      /\ pr[p].files = <<>> /\ pr[p].ff = NoFile /\ pr[p].a = 0 /\ pr[p].to = 0
      /\ pr[p].pgdir \in Pages
  BY <1>1 DEF Control, Process, Slot
<1>3. UNCHANGED fileVars /\ calls' \in Nat /\ panicked' = FALSE
  BY <1>1 DEF SetupDir
<1>4. PICK o : Heap(mm, o, pr, DOMAIN pipes, {})
  BY DEF Inv, HeapInv
<1>5. CASE mm.free = {}
  <2>1. SetupFailed(p, mm)
    BY <1>5 DEF SetupDir
  <2>2. NewDraft(pr, pr, p, NoPage)
    BY <1>2 DEF NewDraft
  <2>3. /\ Others(mm, mm, Nowhere) /\ Nowhere \notin DOMAIN mm.dirs
        /\ \A q \in Procs : q # p => pr[q].pgdir # Nowhere /\ pr[q].nd # Nowhere
        /\ pr[p].pgdir # Nowhere
    BY NowhereIs
  <2>4. CASE pr[p].call = "fork"
    <3>1. ForkFailed(p, mm)
      BY <2>1, <2>4 DEF SetupFailed
    <3>2. QED  BY <1>1, <1>3, <1>4, <2>2, <2>3, <2>4, <3>1, ForkFails
  <2>5. CASE pr[p].call = "exec"
    <3>1. mm' = mm /\ pr' = [pr EXCEPT ![p] = Back(@)]
      BY <2>1, <2>5 DEF SetupFailed
    <3>2. /\ Others(mm, mm', Nowhere) /\ Nowhere \notin DOMAIN mm'.dirs
          /\ Heap(mm', o, pr, DOMAIN pipes, {})
      BY <1>4, <2>3, <3>1
    <3>3. QED  BY <1>1, <1>3, <2>2, <2>3, <2>5, <3>1, <3>2, ExecFails
  <2>6. QED  BY <1>2, <2>4, <2>5
<1>6. CASE mm.free # {}
  <2>1. mm' = DirTaken(mm) /\ pr' = [pr EXCEPT ![p].nd = g, ![p].pc = "table"]
    BY <1>6 DEF SetupDir
  <2>2. IsMem(mm) /\ Own(mm, o)
    BY <1>4 DEF Heap
  <2>3. g \in mm.free /\ g \in Pages /\ g # NoPage
    BY <1>6, <2>2, TakenIs
  <2>4. g \notin DOMAIN mm.dirs
    <3>1. SpaceOf(p) \in Tops
      BY Outers
    <3>2. QED  BY <1>6, <2>2, <3>1, OwnDir
  <2>5. \A q \in Procs : pr[q].pgdir # g /\ pr[q].nd # g
    <3>1. o[g] = Idle
      BY <2>2, <2>3 DEF Own
    <3>2. o[g] \notin Outer
      BY <3>1, Tokens
    <3>3. QED  BY <1>4, <2>3, <3>2, Nobodys
  <2>6. /\ DOMAIN mm'.dirs = DOMAIN mm.dirs \cup {g} /\ mm'.dirs[g] = NoDir
        /\ \A x \in DOMAIN mm.dirs : mm'.dirs[x] = mm.dirs[x]
    BY <1>6, <2>1, <2>2, <2>4, DirTakenIs
  <2>7. /\ r \in Process /\ r.pc = "table" /\ r.call = pr[p].call /\ r.np = pr[p].np
        /\ r.state = "RUNNING" /\ r.nd = g /\ r.a = 0 /\ r.to = 0
        /\ r.sz = pr[p].sz /\ r.cr3 = pr[p].cr3 /\ r.kstack = pr[p].kstack
        /\ r.pgdir = pr[p].pgdir /\ r.ofile = pr[p].ofile /\ r.files = <<>> /\ r.ff = NoFile
    <3>1. "table" \in Pcs /\ g \in Slot
      BY <2>3 DEF Pcs, Slot
    <3>2. QED  BY <1>1, <1>2, <3>1 DEF Process
  <2>8. Becomes(pr, pr', p, r)
    BY <1>1, <2>1 DEF Becomes
  <2> HIDE DEF r, g
  <2>9. Control(r)
    BY <1>1, <1>2, <2>3, <2>7 DEF Control
  <2>10. r.np # 0 => Child(r, pr[r.np])
    <3>1. pr[p].np # 0 => Child(pr[p], pr[pr[p].np])
      BY DEF Inv, Controlled
    <3>2. QED  BY <1>1, <2>7, <3>1 DEF Child
  <2>11. Covers(mm', g, 0) /\ DOMAIN mm'.dirs[g].tables = -0 .. -1
    <3>1. DOMAIN mm'.dirs[g].ptes = {} /\ DOMAIN mm'.dirs[g].tables = {}
      BY <2>6 DEF NoDir
    <3>2. 0 .. 0 - 1 = {} /\ -0 .. -1 = {}
      OBVIOUS
    <3>3. QED  BY <3>1, <3>2 DEF Covers
  <2>12. Blank(mm', r)
    <3>1. 0 \in 0 .. KernTables - 1
      BY MemoryAssumption
    <3>2. QED  BY <2>7, <2>11, <3>1 DEF Blank
  <2>13. Room(mm', r)
    <3>1. mm'.dirs[pr[p].pgdir] = mm.dirs[pr[p].pgdir]
      <4>1. OnlySpace(mm, o, pr, p, pr[p].pgdir)
        BY <1>2, <1>4, Somebodys
      <4>2. QED  BY <2>6, <4>1 DEF OnlySpace
    <3>2. QED  BY <1>1, <1>2, <2>7, <2>12, <3>1 DEF Room, Space, Filled, Covers
  <2>14. Others(mm, mm', g) /\ Low(mm', g)
    BY <2>6, <2>11 DEF Others, Low, Covers
  <2>15. Works(p, r, g)
    BY <1>1, <1>2, <2>5, <2>7, <2>8, <2>9, <2>10, <2>13, <2>14 DEF Works
  <2>16. NewDraft(pr, pr', p, g)
    BY <2>7, <2>8 DEF NewDraft, Becomes
  <2>17. PICK u : Heap(mm', u, pr', DOMAIN pipes, {})
    BY <1>2, <1>4, <1>6, <2>1, <2>16, HeapDir DEF g
  <2>18. QED  BY <1>3, <2>15, <2>17, MemSolo
<1>7. QED  BY <1>5, <1>6

\* setupkvm() takes a table, or loses what it has taken.
LEMMA SetupTableStep ==
  ASSUME Inv, NEW p \in Procs, SetupTable(p)
  PROVE  Inv'
<1> DEFINE d == pr[p].nd
           i == Cardinality(DOMAIN mm.dirs[d].tables) + 1
           nextpc == IF i = KernTables THEN IF pr[p].call = "fork" THEN "copy" ELSE "load"
                     ELSE "table"
           r == [pr[p] EXCEPT !.pc = nextpc]
<1>1. /\ pr \in [Procs -> Process] /\ pr[p] \in Process /\ Control(pr[p])
      /\ Room(mm, pr[p]) /\ panicked = FALSE /\ calls \in Nat /\ pr[p].sz \in Nat
      /\ pr[p].state = "RUNNING" /\ pr[p].pc = "table"
  BY OfProcess DEF SetupTable
<1>2. /\ pr[p].call \in {"fork", "exec"} /\ d # NoPage /\ d \in Pages
      /\ pr[p].pgdir # NoPage /\ pr[p].pgdir \in Pages
      /\ pr[p].files = <<>> /\ pr[p].ff = NoFile /\ pr[p].a = 0 /\ pr[p].to = 0
  BY <1>1 DEF Control, Process, Slot
<1>3. UNCHANGED fileVars /\ calls' \in Nat /\ panicked' = FALSE
  BY <1>1 DEF SetupTable
<1>4. PICK o : Heap(mm, o, pr, DOMAIN pipes, {})
  BY DEF Inv, HeapInv
<1>5. OnlyDraft(mm, o, pr, p, d) /\ OnlySpace(mm, o, pr, p, pr[p].pgdir)
  BY <1>2, <1>4, Somebodys
<1>6. /\ d \in DOMAIN mm.dirs /\ pr[p].pgdir # d /\ pr[p].pgdir \in DOMAIN mm.dirs
      /\ \A q \in Procs : q # p => pr[q].pgdir # d /\ pr[q].nd # d
  BY <1>5 DEF OnlyDraft, OnlySpace
<1>7. Covers(mm, d, 0) /\ DOMAIN mm.dirs[d].ptes = {}
  <2>1. 0 .. 0 - 1 = {}
    OBVIOUS
  <2>2. QED  BY <1>1, <2>1 DEF Room, Blank, Covers
<1>8. PICK n \in 0 .. KernTables - 1 : DOMAIN mm.dirs[d].tables = -n .. -1
  BY <1>1 DEF Room, Blank
<1>9. i = n + 1 /\ n \in Nat /\ -i \in Int /\ -i \notin DOMAIN mm.dirs[d].tables
  <2>1. n \in Nat /\ -n \in Int /\ -1 \in Int
    BY <1>8, MemoryAssumption
  <2>2. Cardinality(-n .. -1) = n
    BY <2>1, FS_Interval
  <2>3. QED  BY <1>8, <2>1, <2>2
<1>10. CASE mm.free = {}
  <2> DEFINE m == SetupLost(mm, d)
             Q == [pr EXCEPT ![p].nd = NoPage]
  <2>1. SetupFailed(p, m)
    BY <1>10 DEF SetupTable
  <2>2. NewDraft(pr, Q, p, NoPage)
    BY <1>1 DEF NewDraft
  <2>3. DraftEnds(mm, m, d)
    BY <1>7 DEF DraftEnds
  <2>31. pr[p].nd = d /\ d \in Pages
    BY <1>2
  <2> HIDE DEF m, Q, d
  <2>32. Others(mm, m, d) /\ d \notin DOMAIN m.dirs /\ \E u : Heap(m, u, Q, DOMAIN pipes, {})
    BY <1>4, <2>2, <2>3, <2>31, HeapDraftGone
  <2>4. PICK u : Others(mm, m, d) /\ d \notin DOMAIN m.dirs /\ Heap(m, u, Q, DOMAIN pipes, {})
    BY <2>32
  <2>5. CASE pr[p].call = "fork"
    <3>1. ForkFailed(p, m)
      BY <2>1, <2>5 DEF SetupFailed
    <3>2. QED  BY <1>1, <1>3, <1>6, <2>2, <2>4, <2>5, <3>1, ForkFails
  <2>6. CASE pr[p].call = "exec"
    <3>1. mm' = m /\ pr' = [pr EXCEPT ![p] = Back(@)]
      BY <2>1, <2>6 DEF SetupFailed
    <3>2. /\ Others(mm, mm', d) /\ d \notin DOMAIN mm'.dirs
          /\ Heap(mm', u, Q, DOMAIN pipes, {})
      BY <2>4, <3>1
    <3>3. QED  BY <1>1, <1>3, <1>6, <2>2, <2>6, <3>1, <3>2, ExecFails
  <2>7. QED  BY <1>2, <2>5, <2>6
<1>11. CASE mm.free # {}
  <2>1. mm' = TableTaken(mm, d, -i) /\ pr' = [pr EXCEPT ![p].pc = nextpc]
    BY <1>11 DEF SetupTable
  <2>2. nextpc \in {"copy", "load", "table"} /\ nextpc \in Pcs
    BY DEF Pcs
  <2> HIDE DEF i, d
  <2>3. /\ DOMAIN mm'.dirs = DOMAIN mm.dirs
        /\ \A x \in DOMAIN mm.dirs : x # d => mm'.dirs[x] = mm.dirs[x]
        /\ mm'.dirs[d].ptes = mm.dirs[d].ptes
        /\ DOMAIN mm'.dirs[d].tables = DOMAIN mm.dirs[d].tables \cup {-i}
    <3>1. IsMem(mm)
      BY <1>4 DEF Heap
    <3>2. QED  BY <1>6, <1>9, <1>11, <2>1, <3>1, TableTakenIs
  <2>4. DOMAIN mm'.dirs[d].tables = -i .. -1
    BY <1>8, <1>9, <2>3
  <2>5. /\ r \in Process /\ r.pc = nextpc /\ r.call = pr[p].call /\ r.np = pr[p].np
        /\ r.state = "RUNNING" /\ r.nd = d /\ r.a = 0 /\ r.to = 0
        /\ r.sz = pr[p].sz /\ r.cr3 = pr[p].cr3 /\ r.kstack = pr[p].kstack
        /\ r.pgdir = pr[p].pgdir /\ r.ofile = pr[p].ofile /\ r.files = <<>> /\ r.ff = NoFile
    <3> HIDE DEF nextpc
    <3>1. r \in Process
      BY <1>1, <2>2 DEF Process
    <3>2. QED  BY <1>1, <1>2, <3>1 DEF Process, d
  <2>6. Becomes(pr, pr', p, r)
    <3> HIDE DEF nextpc
    <3>1. QED  BY <1>1, <2>1 DEF Becomes
  <2> HIDE DEF r
  <2>7. Control(r)
    BY <1>1, <1>2, <2>5 DEF Control
  <2>8. r.np # 0 => Child(r, pr[r.np])
    <3>1. pr[p].np # 0 => Child(pr[p], pr[pr[p].np])
      BY DEF Inv, Controlled
    <3>2. QED  BY <1>1, <2>5, <3>1 DEF Child
  <2>9. Covers(mm', d, 0)
    BY <1>7, <2>3 DEF Covers
  <2>10. r.pc = "table" => Blank(mm', r)
    <3>1. i = KernTables \/ i \in 0 .. KernTables - 1
      BY <1>8, <1>9, MemoryAssumption
    <3>2. QED  BY <2>4, <2>5, <2>9, <3>1 DEF Blank
  <2>11. r.pc = "copy" => Copying(mm', r)
    <3>1. Vpn(0) = 0 /\ PGROUNDUP(r.sz) \in Nat /\ 0 * PGSIZE = 0
      BY <1>1, <2>5, PgsFacts, MemoryAssumption
    <3>2. QED  BY <2>5, <2>9, <3>1 DEF Copying
  <2>12. r.pc = "load" => Covers(mm', r.nd, Pgs(r.to)) /\ r.to <= KERNBASE
    <3>1. Pgs(0) = 0
      BY PgsFacts
    <3>2. QED  BY <2>5, <2>9, <3>1, MemoryAssumption
  <2>13. Space(mm', r)
    <3>1. mm'.dirs[pr[p].pgdir] = mm.dirs[pr[p].pgdir]
      BY <1>6, <2>3 DEF d
    <3>2. QED  BY <1>1, <1>2, <2>2, <2>5, <3>1 DEF Room, Space, Filled, Covers
  <2>14. Room(mm', r)
    BY <2>2, <2>5, <2>10, <2>11, <2>12, <2>13 DEF Room
  <2>15. Others(mm, mm', d) /\ Low(mm', d)
    BY <1>7, <2>3 DEF Others, Low
  <2>16. Works(p, r, d)
    <3>1. \A q \in Procs : q # p => pr[q].pgdir # d /\ pr[q].nd # d
      BY <1>6 DEF d
    <3>2. r.pc \notin {"file", "page"}
      BY <2>2, <2>5
    <3>3. QED
      BY <1>1, <1>2, <2>5, <2>6, <2>7, <2>8, <2>14, <2>15, <3>1, <3>2 DEF Works
  <2>17. SameHold(pr, pr')
    BY <2>5, <2>6 DEF SameHold, Becomes, d
  <2>18. PICK u : Heap(mm', u, pr, DOMAIN pipes, {})
    BY <1>4, <1>6, <1>9, <1>11, <2>1, HeapTable DEF d
  <2>19. Heap(mm', u, pr', DOMAIN pipes, {})
    BY <2>17, <2>18, Unmoved
  <2>20. QED  BY <1>3, <2>16, <2>19, MemSolo
<1>12. QED  BY <1>10, <1>11

\* A round of copyuvm(), with both of its failures; it does not panic.
LEMMA CopyPageStep ==
  ASSUME Inv, NEW p \in Procs, CopyPage(p),
         Vpn(pr[p].a) \in DOMAIN mm.dirs[pr[p].pgdir].ptes
  PROVE  Inv'
<1> DEFINE d == pr[p].nd
           page == kalloc(mm)
           m == Taken(mm)
           v == Vpn(pr[p].a)
           r == [pr[p] EXCEPT !.a = @ + PGSIZE]
           Q == [pr EXCEPT ![p].nd = NoPage]
<1>1. /\ pr \in [Procs -> Process] /\ panicked = FALSE /\ calls \in Nat
      /\ pr[p].a \in Nat /\ pr[p].sz \in Nat /\ pr[p].sz <= KERNBASE
  BY OfProcess
<1>2. pr[p].pc = "copy" /\ pr[p].call = "fork" /\ pr[p].a < pr[p].sz
  BY OfProcess DEF CopyPage, Control
<1>3. /\ pr[p] \in Process /\ Control(pr[p]) /\ Room(mm, pr[p])
      /\ pr[p].state = "RUNNING" /\ pr[p].pgdir # NoPage /\ pr[p].pgdir \in Pages
      /\ pr[p].cr3 = pr[p].pgdir /\ Filled(mm, pr[p].pgdir, Pgs(pr[p].sz))
      /\ pr[p].files = <<>> /\ pr[p].ff = NoFile
  BY <1>2, Forking
<1>4. d # NoPage /\ d \in Pages
  BY <1>2, <1>3 DEF Control, Process, Slot
<1>5. Copying(mm, pr[p])
  BY <1>2, <1>3 DEF Room
<1>6. v \in Nat /\ pr[p].a = v * PGSIZE /\ Covers(mm, d, v) /\ v < Pgs(pr[p].sz)
  <2>1. v \in Nat /\ pr[p].a = v * PGSIZE /\ Covers(mm, d, v)
    BY <1>1, <1>5, PageOf DEF Copying
  <2>2. v * PGSIZE < pr[p].sz
    BY <1>2, <2>1
  <2>3. QED  BY <1>1, <2>1, <2>2, PageBelow
<1>7. UNCHANGED fileVars /\ calls' \in Nat /\ panicked' = FALSE
  <2>1. UNCHANGED <<fileVars, calls>>
        /\ panicked' = (v \notin DOMAIN mm.dirs[pr[p].pgdir].ptes)
    BY DEF CopyPage
  <2>2. QED  BY <1>1, <2>1
<1>8. PICK o : Heap(mm, o, pr, DOMAIN pipes, {})
  BY DEF Inv, HeapInv
<1>9. mm.free # {} => /\ page \in Pages /\ page # NoPage /\ m.dirs = mm.dirs
                      /\ Heap(m, Given(o, {page}, Hand), pr, DOMAIN pipes, {page})
  <2>1. CASE mm.free # {}
    <3>1. IsMem(mm)
      BY <1>8 DEF Heap
    <3>2. page \in Pages /\ page # NoPage /\ m.dirs = mm.dirs
      BY <2>1, <3>1, TakenIs
    <3>3. Heap(m, Given(o, {page}, Hand), pr, DOMAIN pipes, {page})
      BY <1>8, <2>1, HeapTake
    <3>4. QED  BY <3>2, <3>3
  <2>2. QED  BY <2>1
<1>10. page = NoPage <=> mm.free = {}
  BY <1>9 DEF kalloc
<1>11. OnlyDraft(mm, o, pr, p, d) /\ OnlySpace(mm, o, pr, p, pr[p].pgdir)
  BY <1>3, <1>4, <1>8, Somebodys
<1>12. /\ d \in DOMAIN mm.dirs /\ pr[p].pgdir # d /\ pr[p].pgdir \in DOMAIN mm.dirs
       /\ (\A q \in Procs : q # p => pr[q].pgdir # d /\ pr[q].nd # d)
       /\ Low(mm, d) /\ pr[p].nd = d
  BY <1>11 DEF OnlyDraft, OnlySpace, Inv, SpaceInv, Roomy
<1>13. NewDraft(pr, Q, p, NoPage)
  BY <1>1 DEF NewDraft
<1> HIDE DEF page, m, v, Q
<1>14. CASE page = NoPage
  <2> DEFINE n == freevm(mm, d)
  <2>1. ForkFailed(p, n)
    BY <1>14 DEF CopyPage, page
  <2> HIDE DEF d
  <2>2. DraftEnds(mm, n, d)
    BY <1>12 DEF DraftEnds
  <2> HIDE DEF n
  <2>3. PICK u : Others(mm, n, d) /\ d \notin DOMAIN n.dirs /\ Heap(n, u, Q, DOMAIN pipes, {})
    BY <1>4, <1>8, <1>12, <1>13, <2>2, HeapDraftGone
  <2>4. QED  BY <1>2, <1>7, <1>12, <1>13, <2>1, <2>3, ForkFails
<1>15. CASE page # NoPage /\ ~CanWalk(m, d, v)
  <2> DEFINE w == freevm(m, d)
             n == [w EXCEPT !.lost = @ \cup {page}]
  <2>1. ForkFailed(p, n)
    BY <1>15 DEF CopyPage, page, m, v
  <2> HIDE DEF d
  <2>2. /\ page \in Pages /\ m.dirs = mm.dirs
        /\ Heap(m, Given(o, {page}, Hand), pr, DOMAIN pipes, {page})
    BY <1>9, <1>10, <1>15
  <2>3. DraftEnds(m, w, d)
    BY <1>12, <2>2 DEF DraftEnds, Low
  <2> HIDE DEF w
  <2>31. pr[p].nd = d /\ d \in Pages /\ Heap(m, Given(o, {page}, Hand), pr, DOMAIN pipes, {page})
    BY <1>4, <1>12, <2>2
  <2>32. /\ Others(m, w, d) /\ d \notin DOMAIN w.dirs
         /\ \E x : Heap(w, x, Q, DOMAIN pipes, {page})
    BY <1>13, <2>3, <2>31, HeapDraftGone
  <2>4. PICK x : /\ Others(m, w, d) /\ d \notin DOMAIN w.dirs
                 /\ Heap(w, x, Q, DOMAIN pipes, {page})
    BY <2>32
  <2>5. PICK u : n.dirs = w.dirs /\ Heap(n, u, Q, DOMAIN pipes, {})
    BY <2>2, <2>4, HeapHandGone
  <2> HIDE DEF n
  <2>6. Others(mm, n, d) /\ d \notin DOMAIN n.dirs
    BY <2>2, <2>4, <2>5 DEF Others
  <2>7. QED  BY <1>2, <1>7, <1>12, <1>13, <2>1, <2>5, <2>6, ForkFails
<1>16. CASE page # NoPage /\ CanWalk(m, d, v)
  <2> DEFINE n == mappages(m, d, v, page)
  <2>1. /\ mm' = n \/ mm' = clearpteu(n, d, v)
        /\ pr' = [pr EXCEPT ![p].a = @ + PGSIZE]
    BY <1>16 DEF CopyPage, page, m, v
  <2>2. /\ page \in Pages /\ m.dirs = mm.dirs
        /\ Heap(m, Given(o, {page}, Hand), pr, DOMAIN pipes, {page})
    BY <1>9, <1>10, <1>16
  <2>3. /\ r \in Process /\ r.a = pr[p].a + PGSIZE /\ r.pc = "copy" /\ r.state = "RUNNING"
        /\ r.call = "fork" /\ r.np = pr[p].np /\ r.nd = d /\ r.sz = pr[p].sz
        /\ r.cr3 = pr[p].cr3 /\ r.kstack = pr[p].kstack /\ r.pgdir = pr[p].pgdir
        /\ r.to = pr[p].to
        /\ r.ofile = pr[p].ofile /\ r.files = pr[p].files /\ r.ff = pr[p].ff
    <3>1. pr[p].a + PGSIZE \in Nat
      BY <1>1, MemoryAssumption
    <3>2. QED  BY <1>2, <1>3, <3>1 DEF Process
  <2>4. Becomes(pr, pr', p, r)
    BY <1>1, <2>1 DEF Becomes
  <2> HIDE DEF r, d
  <2>5. d \in DOMAIN m.dirs /\ v \notin DOMAIN m.dirs[d].ptes
    BY <1>6, <1>12, <2>2 DEF Covers
  <2>6. PICK x : HasEntry(m, n, d, v) /\ Heap(n, x, pr, DOMAIN pipes, {})
    BY <1>6, <1>16, <2>2, <2>5, HeapMap
  <2> HIDE DEF n
  <2>7. /\ DOMAIN n.dirs = DOMAIN mm.dirs
        /\ \A y \in DOMAIN mm.dirs : y # d => n.dirs[y] = mm.dirs[y]
        /\ DOMAIN n.dirs[d].ptes = (0 .. v - 1) \cup {v}
    BY <1>6, <2>2, <2>6 DEF HasEntry, Covers
  <2>8. PICK u : /\ DOMAIN mm'.dirs = DOMAIN mm.dirs
                 /\ \A y \in DOMAIN mm.dirs : y # d => mm'.dirs[y] = mm.dirs[y]
                 /\ DOMAIN mm'.dirs[d].ptes = (0 .. v - 1) \cup {v}
                 /\ Heap(mm', u, pr, DOMAIN pipes, {})
    <3>1. CASE mm' = n
      BY <2>6, <2>7, <3>1
    <3>2. CASE mm' = clearpteu(n, d, v)
      <4>1. Heap(mm', x, pr, DOMAIN pipes, {}) /\ LacksEntries(n, mm', d, {}) /\ Others(n, mm', d)
        BY <1>12, <2>6, <2>7, <3>2, HeapGuard
      <4>2. /\ DOMAIN mm'.dirs = DOMAIN n.dirs
            /\ DOMAIN mm'.dirs[d].ptes = DOMAIN n.dirs[d].ptes
            /\ \A y \in DOMAIN n.dirs : y # d => mm'.dirs[y] = n.dirs[y]
        BY <4>1 DEF LacksEntries, Others
      <4>3. QED  BY <2>7, <4>1, <4>2
    <3>3. QED  BY <2>1, <3>1, <3>2
  <2>9. Control(r)
    BY <1>2, <1>3, <1>4, <2>3 DEF Control
  <2>10. r.np # 0 => Child(r, pr[r.np])
    <3>1. pr[p].np # 0 => Child(pr[p], pr[pr[p].np])
      BY DEF Inv, Controlled
    <3>2. QED  BY <1>2, <2>3, <3>1 DEF Child
  <2>11. Vpn(r.a) = v + 1 /\ r.a = (v + 1) * PGSIZE /\ r.a <= PGROUNDUP(r.sz)
    <3>1. (v + 1) * PGSIZE = v * PGSIZE + PGSIZE
      BY <1>6, Scale
    <3>2. r.a = (v + 1) * PGSIZE /\ v + 1 \in Nat
      BY <1>6, <2>3, <3>1
    <3>3. Vpn(r.a) = v + 1
      BY <3>2, PageOf
    <3>4. Pgs(pr[p].sz) \in Nat /\ PGROUNDUP(r.sz) = Pgs(pr[p].sz) * PGSIZE
      BY <1>1, <2>3, RoundUp
    <3>5. v + 1 <= Pgs(pr[p].sz)
      BY <1>6, <3>4
    <3>6. (v + 1) * PGSIZE <= Pgs(pr[p].sz) * PGSIZE
      BY <1>6, <3>4, <3>5, Scale
    <3>7. QED  BY <3>2, <3>3, <3>4, <3>6
  <2>12. Covers(mm', d, v + 1)
    <3>1. (0 .. v - 1) \cup {v} = 0 .. v + 1 - 1
      BY <1>6
    <3>2. QED  BY <2>8, <3>1 DEF Covers
  <2>13. Copying(mm', r)
    BY <2>3, <2>11, <2>12 DEF Copying
  <2>14. Room(mm', r)
    <3>1. mm'.dirs[r.pgdir] = mm.dirs[r.pgdir]
      BY <1>12, <2>3, <2>8
    <3>2. Space(mm', r)
      BY <1>1, <1>3, <2>3, <3>1 DEF Space, Filled, Covers
    <3>3. QED  BY <2>3, <2>13, <3>2 DEF Room
  <2>15. v * PGSIZE < KERNBASE
    BY <1>1, <1>2, <1>6, MemoryAssumption
  <2>16. Low(mm', d) /\ Others(mm, mm', d)
    BY <1>6, <1>12, <2>8, <2>15 DEF Low, Covers, Others
  <2>17. Works(p, r, d)
    BY <1>3, <1>12, <2>3, <2>4, <2>9, <2>10, <2>14, <2>16 DEF Works
  <2>18. SameHold(pr, pr')
    BY <1>12, <2>3, <2>4 DEF SameHold, Becomes
  <2>19. Heap(mm', u, pr', DOMAIN pipes, {})
    BY <2>8, <2>18, Unmoved
  <2>20. QED  BY <1>7, <2>17, <2>19, MemSolo
<1>17. QED  BY <1>14, <1>15, <1>16

\* wait() frees the stack and the address space of a zombie.
LEMMA WaitStep ==
  ASSUME Inv, NEW p \in Procs, NEW c \in Procs, Wait(p, c)
  PROVE  Inv'
<1> DEFINE d == pr[c].pgdir
           w == kfree(mm, {pr[c].kstack})
           Q == [pr EXCEPT ![c].kstack = NoPage]
<1>1. /\ pr \in [Procs -> Process] /\ pr[p] \in Process /\ Control(pr[p]) /\ Room(mm, pr[p])
      /\ panicked = FALSE /\ calls \in Nat
  BY OfProcess
<1>2. pr[c] \in Process /\ Control(pr[c])
  BY OfProcess
<1>3. /\ pr[p].state = "RUNNING" /\ pr[p].pc = "user" /\ pr[c].state = "ZOMBIE"
      /\ mm' = freevm(w, d) /\ pr' = [pr EXCEPT ![c] = NoProc]
      /\ UNCHANGED fileVars /\ calls' \in Nat /\ panicked' = FALSE
  BY <1>1 DEF Wait, CanCall
<1>4. /\ p # c /\ d # NoPage /\ d \in Pages /\ pr[c].kstack # NoPage /\ pr[c].kstack \in Pages
      /\ pr[c].nd = NoPage /\ NoFiles(pr[c]) /\ pr[c].pc = "user" /\ pr[c].files = <<>>
      /\ pr[c].ff = NoFile /\ pr[c].np = 0
  <2>1. pr[c].pc = "user"
    BY <1>2, <1>3 DEF Control
  <2>2. QED  BY <1>2, <1>3, <2>1 DEF Control, Process, Slot
<1>5. PICK o : Heap(mm, o, pr, DOMAIN pipes, {})
  BY DEF Inv, HeapInv
<1>6. OnlySpace(mm, o, pr, c, d)
  BY <1>4, <1>5, Somebodys
<1>7. d \in DOMAIN mm.dirs /\ \A q \in Procs : (q # c => pr[q].pgdir # d) /\ pr[q].nd # d
  BY <1>6 DEF OnlySpace
<1>8. NewStack(pr, Q, c, NoPage) /\ Q[c].pgdir = d
  BY <1>1 DEF NewStack
<1>9. \A q \in Procs : pr'[q] = IF q = c THEN NoProc ELSE pr[q]
  BY <1>1, <1>3
<1>10. pr' = [q \in Procs |-> pr'[q]]
  BY <1>1, <1>3
<1>11. NewSpace(Q, pr', c, NoPage)
  <2>1. NoProc.kstack = NoPage /\ NoProc.pgdir = NoPage /\ NoProc.nd = NoPage
    BY NoProcIs
  <2>2. QED  BY <1>1, <1>4, <1>9, <2>1 DEF NewSpace
<1> HIDE DEF Q, d
<1>12. PICK x : w.dirs = mm.dirs /\ Heap(w, x, Q, DOMAIN pipes, {})
  BY <1>4, <1>5, <1>8, HeapStackFreed
<1> HIDE DEF w
<1>13. Low(w, d)
  BY <1>7, <1>12 DEF Low, Inv, SpaceInv, Roomy
<1>14. PICK u : Others(w, mm', d) /\ d \notin DOMAIN mm'.dirs /\ Heap(mm', u, pr', DOMAIN pipes, {})
  BY <1>3, <1>4, <1>8, <1>11, <1>12, <1>13, HeapSpaceGone
<1>15. Others(mm, mm', d)
  BY <1>12, <1>14 DEF Others
<1>16. /\ NoProc \in Process /\ Control(NoProc) /\ NoProc.np = 0 /\ NoProc.files = <<>>
       /\ NoProc.ff = NoFile /\ NoProc.pc = "user" /\ NoProc.sz = 0
       /\ NoProc.state = "UNUSED" /\ NoProc.ofile = [fd \in Fds |-> None]
  BY NoProcIs DEF NoProc
<1>17. pr[c].ofile = [fd \in Fds |-> None]
  <2>1. pr[c].ofile \in [Fds -> FileIds \cup {None}]
    BY <1>2 DEF Process
  <2>2. \A fd \in Fds : pr[c].ofile[fd] = None
    BY <1>4 DEF NoFiles
  <2>3. QED  BY <2>1, <2>2
<1>18. ASSUME NEW q \in Procs PROVE pr[q].np # c
  <2>1. Controlled(pr) /\ pr[c].state # "EMBRYO"
    BY <1>3 DEF Inv
  <2>2. QED  BY <2>1, NoChild
<1>19. Room(mm', NoProc)
  BY <1>16, MemoryAssumption DEF Room, Space
<1>20. Room(mm', pr[p])
  <2>1. Controlled(pr) /\ Roomy(mm, pr)
    BY DEF Inv, SpaceInv
  <2>2. QED  BY <1>1, <1>4, <1>5, <1>7, <1>15, <2>1, RoomOthers
<1>21. pr[p].np = 0
  BY <1>1, <1>3 DEF Control
<1>22. Pairs(p, c, pr[p], NoProc, d)
  BY <1>1, <1>3, <1>4, <1>7, <1>9, <1>10, <1>14, <1>15, <1>16, <1>17, <1>18, <1>19, <1>20,
     <1>21 DEF Pairs, Procs
<1>23. QED  BY <1>3, <1>14, <1>22, MemPair

-----------------------------------------------------------------------------
\* Files.

\* filealloc() returns a file without references.
LEMMA AllocIs ==
  ASSUME NEW t \in [FileIds -> File], NEW f, f = filealloc(t), f # None
  PROVE  /\ f \in FileIds /\ t[f].ref = 0
         /\ Allocated(t) \in [FileIds -> File]
         /\ Allocated(t)[f] = [t[f] EXCEPT !.ref = 1]
         /\ \A g \in FileIds : g # f => Allocated(t)[g] = t[g]
<1> DEFINE T == {g \in FileIds : t[g].ref = 0}
<1>1. ~(\A g \in FileIds : t[g].ref > 0)
  BY DEF filealloc
<1>2. T \in SUBSET Nat /\ T # {}
  <2>1. \A g \in FileIds : t[g].ref \in Nat
    BY DEF File
  <2>2. QED  BY <1>1, <2>1 DEF FileIds
<1>3. Min(T) \in T /\ \A j \in T : Min(T) <= j
  BY <1>2, LeastExists
<1>4. \E g \in FileIds : t[g].ref = 0 /\ \A h \in FileIds : t[h].ref = 0 => g <= h
  BY <1>3
<1>5. f = CHOOSE g \in FileIds : /\ t[g].ref = 0
                                 /\ \A h \in FileIds : t[h].ref = 0 => g <= h
  BY <1>1 DEF filealloc
<1>6. f \in FileIds /\ t[f].ref = 0
  BY <1>4, <1>5
<1>7. Allocated(t) = [t EXCEPT ![f].ref = 1]
  BY DEF Allocated
<1>8. QED  BY <1>6, <1>7 DEF File

\* Two files are the same end of a pipe, or both no end.
View(x, y) ==
  /\ x.type = "PIPE" <=> y.type = "PIPE"
  /\ x.type = "PIPE" => x.pipe = y.pipe /\ x.writable = y.writable

\* An end is a file of the table or the copy in a call of fileclose().
LEMMA EndIs ==
  /\ \A e \in EndIds : \/ e <= NFILE /\ e \in FileIds
                       \/ ~(e <= NFILE) /\ e - NFILE \in Procs /\ e = NFILE + (e - NFILE)
  /\ \A f \in FileIds : f \in EndIds /\ f <= NFILE
  /\ \A p \in Procs : /\ NFILE + p \in EndIds /\ ~(NFILE + p <= NFILE)
                      /\ NFILE + p - NFILE = p /\ NFILE + p \notin FileIds
  BY ResourcesAssumption DEF EndIds, FileIds, Procs

\* Ends that look the same to the pipes.
LEMMA EndedSame ==
  ASSUME NEW E, NEW D, NEW pi, Ended(E, pi), \A e \in EndIds : View(E[e], D[e])
  PROVE  Ended(D, pi)
<1>1. \A e \in EndIds : D[e].type = "PIPE" =>
        D[e].pipe \in DOMAIN pi /\ D[e].writable \in pi[D[e].pipe]
  BY DEF Ended, View
<1>2. ASSUME NEW e \in EndIds, NEW g, NEW w PROVE Stands(E[e], g, w) <=> Stands(D[e], g, w)
  BY DEF View, Stands
<1>3. \A g \in DOMAIN pi : \A w \in pi[g] : \E e \in EndIds : Stands(D[e], g, w)
  BY <1>2 DEF Ended
<1>4. \A e, i \in EndIds : \A g, w : Stands(D[e], g, w) /\ Stands(D[i], g, w) => e = i
  BY <1>2 DEF Ended
<1>5. QED  BY <1>1, <1>3, <1>4 DEF Ended

\* What stood at i stands at j.
LEMMA EndedMove ==
  ASSUME NEW E, NEW D, NEW pi, Ended(E, pi), NEW i \in EndIds, NEW j \in EndIds, i # j,
         E[j].type # "PIPE", D[i].type # "PIPE", View(E[i], D[j]),
         \A e \in EndIds : e # i /\ e # j => View(E[e], D[e])
  PROVE  Ended(D, pi)
<1> DEFINE at(e) == IF e = j THEN i ELSE IF e = i THEN j ELSE e
<1>1. ASSUME NEW e \in EndIds
      PROVE  at(e) \in EndIds /\ at(at(e)) = e /\ View(E[at(e)], D[e])
  BY DEF View
<1> HIDE DEF at
<1>2. ASSUME NEW e \in EndIds, D[e].type = "PIPE"
      PROVE  D[e].pipe \in DOMAIN pi /\ D[e].writable \in pi[D[e].pipe]
  <2>1. E[at(e)].type = "PIPE" /\ E[at(e)].pipe = D[e].pipe /\ E[at(e)].writable = D[e].writable
        /\ at(e) \in EndIds
    BY <1>1, <1>2 DEF View
  <2>2. QED  BY <2>1 DEF Ended
<1>3. ASSUME NEW e \in EndIds, NEW g, NEW w
      PROVE  Stands(E[at(e)], g, w) <=> Stands(D[e], g, w)
  BY <1>1 DEF View, Stands
<1>4. ASSUME NEW g \in DOMAIN pi, NEW w \in pi[g] PROVE \E e \in EndIds : Stands(D[e], g, w)
  <2>1. PICK e \in EndIds : Stands(E[e], g, w)
    BY DEF Ended
  <2>2. at(e) \in EndIds /\ at(at(e)) = e
    BY <1>1
  <2>3. Stands(D[at(e)], g, w)
    BY <1>3, <2>1, <2>2
  <2>4. QED  BY <2>2, <2>3
<1>5. ASSUME NEW e \in EndIds, NEW x \in EndIds, NEW g, NEW w,
             Stands(D[e], g, w), Stands(D[x], g, w)
      PROVE  e = x
  <2>1. Stands(E[at(e)], g, w) /\ Stands(E[at(x)], g, w) /\ at(e) \in EndIds /\ at(x) \in EndIds
    BY <1>1, <1>3, <1>5
  <2>2. at(e) = at(x)
    BY <2>1 DEF Ended
  <2>3. QED  BY <1>1, <2>2
<1>6. QED  BY <1>2, <1>4, <1>5 DEF Ended

\* The end that j stands for is closed.
LEMMA EndedLess ==
  ASSUME NEW E, NEW D, NEW pi, Ended(E, pi), NEW j \in EndIds, E[j].type = "PIPE",
         D[j].type # "PIPE", \A e \in EndIds : e # j => View(E[e], D[e]),
         NEW ro, DOMAIN ro \subseteq DOMAIN pi,
         \A g \in DOMAIN ro :
           ro[g] = IF g = E[j].pipe THEN pi[g] \ {E[j].writable} ELSE pi[g],
         \A g \in DOMAIN pi : g \notin DOMAIN ro =>
           g = E[j].pipe /\ pi[g] \ {E[j].writable} = {}
  PROVE  Ended(D, ro)
<1> DEFINE page == E[j].pipe
           wr == E[j].writable
<1>1. Stands(E[j], page, wr)
  BY DEF Stands
<1> HIDE DEF page, wr
<1>2. ASSUME NEW e \in EndIds, D[e].type = "PIPE"
      PROVE  /\ e # j /\ E[e].type = "PIPE" /\ E[e].pipe = D[e].pipe
             /\ E[e].writable = D[e].writable
  BY <1>2 DEF View
<1>3. ASSUME NEW e \in EndIds, D[e].type = "PIPE"
      PROVE  D[e].pipe \in DOMAIN ro /\ D[e].writable \in ro[D[e].pipe]
  <2>1. /\ e # j /\ E[e].type = "PIPE" /\ E[e].pipe = D[e].pipe
        /\ E[e].writable = D[e].writable
    BY <1>2, <1>3
  <2>2. D[e].pipe \in DOMAIN pi /\ D[e].writable \in pi[D[e].pipe]
    BY <2>1 DEF Ended
  <2>3. ~(D[e].pipe = page /\ D[e].writable = wr)
    <3>1. SUFFICES ASSUME D[e].pipe = page, D[e].writable = wr PROVE FALSE
      OBVIOUS
    <3>2. Stands(E[e], page, wr)
      BY <2>1, <3>1 DEF Stands
    <3>3. QED  BY <1>1, <2>1, <3>2 DEF Ended
  <2>4. QED  BY <2>2, <2>3 DEF page, wr
<1>4. ASSUME NEW g \in DOMAIN ro, NEW w \in ro[g] PROVE \E e \in EndIds : Stands(D[e], g, w)
  <2>1. g \in DOMAIN pi /\ w \in pi[g] /\ ~(g = page /\ w = wr)
    BY DEF page, wr
  <2>2. PICK e \in EndIds : Stands(E[e], g, w)
    BY <2>1 DEF Ended
  <2>3. e # j
    BY <2>1, <2>2 DEF Stands, page, wr
  <2>4. QED  BY <2>2, <2>3 DEF Stands, View
<1>5. ASSUME NEW e \in EndIds, NEW x \in EndIds, NEW g, NEW w,
             Stands(D[e], g, w), Stands(D[x], g, w)
      PROVE  e = x
  <2>1. Stands(E[e], g, w) /\ Stands(E[x], g, w)
    BY <1>2, <1>5 DEF Stands
  <2>2. QED  BY <2>1 DEF Ended
<1>6. QED  BY <1>3, <1>4, <1>5 DEF Ended

\* A new pipe with its two ends.
Opened(pi, page) == With(pi, page, BOOLEAN)

\* The ends i and j come to stand for the new pipe.
Opens(E, D, i, j, page) ==
  /\ E[i].type # "PIPE" /\ E[j].type # "PIPE"
  /\ Stands(D[i], page, FALSE) /\ Stands(D[j], page, TRUE)
  /\ \A e \in EndIds : e # i /\ e # j => View(E[e], D[e])

\* A new pipe with its two ends.
LEMMA EndedMore ==
  ASSUME NEW E, NEW D, NEW pi, Ended(E, pi), NEW i \in EndIds, NEW j \in EndIds, i # j,
         NEW page, page \notin DOMAIN pi, Opens(E, D, i, j, page)
  PROVE  Ended(D, Opened(pi, page))
<1> USE DEF Opens
<1> DEFINE ro == Opened(pi, page)
<1>1. /\ DOMAIN ro = DOMAIN pi \cup {page} /\ ro[page] = BOOLEAN
      /\ \A g \in DOMAIN pi : ro[g] = pi[g]
  BY DEF With, Opened
<1> HIDE DEF ro
<1>2. ASSUME NEW e \in EndIds, NEW g, NEW w, Stands(D[e], g, w)
      PROVE  \/ g = page /\ e = IF w THEN j ELSE i
             \/ g \in DOMAIN pi /\ g # page /\ Stands(E[e], g, w) /\ w \in pi[g]
  <2>1. CASE e = i
    BY <1>2, <2>1 DEF Stands
  <2>2. CASE e = j
    BY <1>2, <2>2 DEF Stands
  <2>3. CASE e # i /\ e # j
    <3>1. Stands(E[e], g, w)
      BY <1>2, <2>3 DEF Stands, View
    <3>2. g \in DOMAIN pi /\ w \in pi[g]
      BY <3>1 DEF Stands, Ended
    <3>3. QED  BY <3>1, <3>2
  <2>4. QED  BY <2>1, <2>2, <2>3
<1>3. ASSUME NEW e \in EndIds, D[e].type = "PIPE"
      PROVE  D[e].pipe \in DOMAIN ro /\ D[e].writable \in ro[D[e].pipe]
  <2>1. CASE e = i \/ e = j
    BY <1>1, <2>1 DEF Stands
  <2>2. CASE e # i /\ e # j
    BY <1>1, <1>3, <2>2 DEF View, Ended
  <2>3. QED  BY <2>1, <2>2
<1>4. ASSUME NEW g \in DOMAIN ro, NEW w \in ro[g] PROVE \E e \in EndIds : Stands(D[e], g, w)
  <2>1. CASE g = page
    <3>1. w \in {TRUE, FALSE}
      BY <1>1, <2>1
    <3>2. QED  BY <2>1, <3>1
  <2>2. CASE g # page
    <3>1. g \in DOMAIN pi /\ w \in pi[g]
      BY <1>1, <2>2
    <3>2. PICK e \in EndIds : Stands(E[e], g, w)
      BY <3>1 DEF Ended
    <3>3. QED  BY <3>2 DEF Stands, View
  <2>3. QED  BY <2>1, <2>2
<1>5. ASSUME NEW e \in EndIds, NEW x \in EndIds, NEW g, NEW w,
             Stands(D[e], g, w), Stands(D[x], g, w)
      PROVE  e = x
  <2>1. CASE g = page
    BY <1>2, <1>5, <2>1
  <2>2. CASE g # page
    <3>1. Stands(E[e], g, w) /\ Stands(E[x], g, w)
      BY <1>2, <1>5, <2>2
    <3>2. QED  BY <3>1 DEF Ended
  <2>3. QED  BY <2>1, <2>2
<1>6. QED  BY <1>3, <1>4, <1>5 DEF Ended, ro

\* The places of a process.
LEMMA PlacesAre ==
  /\ Places = Fds \cup {NOFILE, NOFILE + 1} /\ NOFILE \notin Fds /\ NOFILE + 1 \notin Fds
  /\ NOFILE # NOFILE + 1 /\ Fds \subseteq Nat
  BY ResourcesAssumption DEF Places, Fds

\* What a process keeps at its places.
LEMMA KeptIs ==
  ASSUME NEW r \in Process
  PROVE  /\ \A x \in Fds : KeptBy(r, x) = r.ofile[x]
         /\ Len(r.files) = 0 => KeptBy(r, NOFILE) = None /\ KeptBy(r, NOFILE + 1) = None
         /\ Len(r.files) = 1 => KeptBy(r, NOFILE) = r.files[1] /\ KeptBy(r, NOFILE + 1) = None
         /\ Len(r.files) = 2 => KeptBy(r, NOFILE) = r.files[1]
                                /\ KeptBy(r, NOFILE + 1) = r.files[2]
<1>1. NOFILE \in Nat /\ r.files \in Seq(FileIds)
  BY ResourcesAssumption DEF Process
<1>2. Len(r.files) \in Nat
  BY <1>1
<1>3. ASSUME NEW x \in Fds PROVE KeptBy(r, x) = r.ofile[x]
  <2>1. x < NOFILE
    BY <1>1 DEF Fds
  <2>2. QED  BY <2>1 DEF KeptBy
<1>4. /\ KeptBy(r, NOFILE) = IF 0 < Len(r.files) THEN r.files[1] ELSE None
      /\ KeptBy(r, NOFILE + 1) = IF 1 < Len(r.files) THEN r.files[2] ELSE None
  <2>1. /\ ~(NOFILE < NOFILE) /\ ~(NOFILE + 1 < NOFILE) /\ NOFILE - NOFILE = 0
        /\ NOFILE + 1 - NOFILE = 1 /\ NOFILE - NOFILE + 1 = 1 /\ NOFILE + 1 - NOFILE + 1 = 2
    BY <1>1
  <2>2. ASSUME NEW x, NEW i, ~(x < NOFILE), x - NOFILE = i
        PROVE  KeptBy(r, x) = IF i < Len(r.files) THEN r.files[i + 1] ELSE None
    BY <2>2 DEF KeptBy
  <2>3. /\ KeptBy(r, NOFILE) = IF 0 < Len(r.files) THEN r.files[0 + 1] ELSE None
        /\ KeptBy(r, NOFILE + 1) = IF 1 < Len(r.files) THEN r.files[1 + 1] ELSE None
    <3> DEFINE z == NOFILE + 1
    <3>1. KeptBy(r, NOFILE) = IF 0 < Len(r.files) THEN r.files[0 + 1] ELSE None
      BY <2>1, <2>2
    <3>2. ~(z < NOFILE) /\ z - NOFILE = 1
      BY <1>1
    <3> HIDE DEF z
    <3>3. KeptBy(r, z) = IF 1 < Len(r.files) THEN r.files[1 + 1] ELSE None
      BY <2>2, <3>2
    <3>4. QED  BY <3>1, <3>3 DEF z
  <2>4. 0 + 1 = 1 /\ 1 + 1 = 2
    OBVIOUS
  <2>5. QED  BY <2>3, <2>4
<1>5. QED  BY <1>2, <1>3, <1>4

\* The references of one process change at one place,
Changes(r, s, x, f) ==
  \A y \in Places : KeptBy(s, y) = IF y = x THEN f ELSE KeptBy(r, y)

\* or none do.
Keeps(r, s) == \A y \in Places : KeptBy(s, y) = KeptBy(r, y)

\* A process changes one of its places.
LEMMA RefsSet ==
  ASSUME NEW P, NEW Q, NEW p \in Procs, NEW r, Becomes(P, Q, p, r),
         NEW x \in Places, NEW f, Changes(P[p], r, x, f)
  PROVE  Refs(Q) = Marked(Refs(P), <<p, x>>, f)
<1>1. ASSUME NEW e \in Cells
      PROVE  Refs(Q)[e] = IF e = <<p, x>> THEN f ELSE Refs(P)[e]
  <2>1. e[1] \in Procs /\ e[2] \in Places /\ e = <<e[1], e[2]>>
    BY CellsAre
  <2>2. Refs(Q)[e] = KeptBy(Q[e[1]], e[2]) /\ Refs(P)[e] = KeptBy(P[e[1]], e[2])
    BY DEF Refs
  <2>3. CASE e[1] = p
    <3>1. e = <<p, x>> <=> e[2] = x
      BY <2>1, <2>3
    <3>2. Q[e[1]] = r
      BY <2>3 DEF Becomes
    <3>3. QED  BY <2>1, <2>2, <2>3, <3>1, <3>2 DEF Changes
  <2>4. CASE e[1] # p
    <3>1. e # <<p, x>>
      BY <2>4
    <3>2. QED  BY <2>1, <2>2, <2>4, <3>1 DEF Becomes
  <2>5. QED  BY <2>3, <2>4
<1>2. QED  BY <1>1 DEF Marked, Refs

\* A process changes none of its places.
LEMMA RefsSame ==
  ASSUME NEW P, NEW Q, NEW p \in Procs, NEW r, Becomes(P, Q, p, r), Keeps(P[p], r)
  PROVE  Refs(Q) = Refs(P)
<1>1. ASSUME NEW e \in Cells PROVE Refs(Q)[e] = Refs(P)[e]
  <2>1. e[1] \in Procs /\ e[2] \in Places
    BY CellsAre
  <2>2. QED  BY <2>1 DEF Refs, Becomes, Keeps
<1>2. QED  BY <1>1 DEF Refs

\* A file has one reference more.
LEMMA CountedMore ==
  ASSUME NEW t, NEW K \in Marks, Counted(t, K), NEW c \in Cells, K[c] = None,
         NEW f \in FileIds, NEW s, s[f].ref = t[f].ref + 1,
         \A g \in FileIds : g # f => s[g].ref = t[g].ref
  PROVE  Counted(s, Marked(K, c, f))
<1>1. /\ Count(Marked(K, c, f), f) = Count(K, f) + 1
      /\ \A g \in FileIds : g # f => Count(Marked(K, c, f), g) = Count(K, g)
  BY CountSet
<1>2. QED  BY <1>1 DEF Counted

\* A reference and its count go together.
LEMMA CountedLess ==
  ASSUME NEW t, NEW K \in Marks, Counted(t, K), NEW c \in Cells, NEW f \in FileIds, K[c] = f,
         NEW s, s[f].ref = t[f].ref - 1,
         \A g \in FileIds : g # f => s[g].ref = t[g].ref
  PROVE  Counted(s, Marked(K, c, None))
<1>1. /\ Count(K, f) = Count(Marked(K, c, None), f) + 1
      /\ \A g \in FileIds : g # f => Count(Marked(K, c, None), g) = Count(K, g)
  BY CountClear
<1>2. Count(Marked(K, c, None), f) \in Nat
  BY CountFinite
<1>3. QED  BY <1>1, <1>2 DEF Counted

\* A reference moves to another place.
LEMMA CountedMove ==
  ASSUME NEW t, NEW K \in Marks, Counted(t, K), NEW c \in Cells, NEW e \in Cells,
         NEW f \in FileIds, K[c] = f, K[e] = None, NEW s,
         \A g \in FileIds : s[g].ref = t[g].ref
  PROVE  Counted(s, Marked(Marked(K, c, None), e, f))
  BY CountMove DEF Counted

\* The only reference.
LEMMA Alone ==
  ASSUME NEW t, NEW K \in Marks, Counted(t, K), NEW f \in FileIds, t[f].ref = 1,
         NEW c \in Cells, NEW e \in Cells, K[c] = f, K[e] = f
  PROVE  c = e
<1> DEFINE S == {x \in Cells : K[x] = f}
<1>1. IsFiniteSet(S) /\ Cardinality(S) = 1
  BY CountFinite DEF Counted, Count
<1>2. c \in S /\ e \in S
  OBVIOUS
<1> HIDE DEF S
<1>3. PICK x : S = {x}
  BY <1>1, FS_Singleton
<1>4. QED  BY <1>2, <1>3

\* A file with a reference has a count above 0.
LEMMA Referred ==
  ASSUME NEW t, NEW K \in Marks, Counted(t, K), NEW f \in FileIds,
         NEW c \in Cells, K[c] = f
  PROVE  t[f].ref \in Nat \ {0}
<1> DEFINE S == {x \in Cells : K[x] = f}
<1>1. IsFiniteSet(S) /\ Cardinality(S) = t[f].ref
  BY CountFinite DEF Counted, Count
<1>2. c \in S
  OBVIOUS
<1> HIDE DEF S
<1>3. Cardinality(S) \in Nat /\ Cardinality(S) # 0
  BY <1>1, <1>2, FS_CardinalityType, FS_EmptySet
<1>4. QED  BY <1>1, <1>3

\* The tables of files and of pipes.
FilesTyped(t, pi) ==
  /\ t \in [FileIds -> File]
  /\ pi = [page \in DOMAIN pi |-> pi[page]] /\ DOMAIN pi \subseteq Pages
  /\ \A page \in DOMAIN pi : pi[page] \subseteq BOOLEAN

\* A process goes on to r with the pages it had.
Files(p, r) ==
  /\ r \in Process /\ Becomes(pr, pr', p, r) /\ Controlled(pr')
  /\ r.kstack = pr[p].kstack /\ r.pgdir = pr[p].pgdir /\ r.nd = pr[p].nd
  /\ Room(mm, r) /\ mm'.dirs = mm.dirs /\ FilesTyped(ftable', pipes')

\* A step of a process that changes files, and no address space.
LEMMA FileSolo ==
  ASSUME Inv, NEW p \in Procs, NEW r, Files(p, r),
         NEW u, Heap(mm', u, pr, DOMAIN pipes', {}), FileInv',
         calls' \in Nat, panicked' = FALSE
  PROVE  Inv'
<1>1. /\ pr' = [q \in Procs |-> pr'[q]]
      /\ \A q \in Procs : pr'[q] = IF q = p THEN r ELSE pr[q]
      /\ r \in Process /\ Controlled(pr') /\ mm'.dirs = mm.dirs
  BY DEF Files, Becomes
<1>2. pr \in [Procs -> Process]
  BY DEF Inv, TypeOK
<1>3. pr' \in [Procs -> Process]
  BY <1>1, <1>2
<1>4. TypeOK'
  BY <1>3 DEF TypeOK, Files, FilesTyped
<1>5. SameHold(pr, pr')
  BY <1>1 DEF SameHold, Files
<1>6. HeapInv'
  <2>1. Heap(mm', u, pr', DOMAIN pipes', {})
    BY <1>5, Unmoved
  <2>2. QED  BY <2>1 DEF HeapInv
<1>7. ASSUME NEW q \in Procs PROVE Room(mm', pr'[q])
  <2>1. Room(mm, pr'[q]) /\ Control(pr'[q])
    BY <1>1 DEF Files, Inv, SpaceInv, Roomy, Controlled
  <2>2. QED  BY <1>1, <2>1, RoomStays
<1>8. SpaceInv'
  BY <1>1, <1>7 DEF Inv, SpaceInv, Roomy, Low
<1>9. QED  BY <1>1, <1>4, <1>6, <1>8 DEF Inv

\* The cells of a process.
LEMMA CellOf ==
  ASSUME NEW P, NEW p \in Procs, NEW x \in Places
  PROVE  <<p, x>> \in Cells /\ Refs(P)[<<p, x>>] = KeptBy(P[p], x)
<1>1. <<p, x>> \in Cells
  BY CellsAre
<1>2. QED  BY <1>1 DEF Refs

\* A file in the hands of pipealloc() has no other reference.
LEMMA NotFresh ==
  ASSUME Inv, NEW p \in Procs, NEW x \in Places, NEW f \in FileIds, KeptBy(pr[p], x) = f,
         NEW q \in Procs, q # p, pr[q].pc \in {"file", "page"}, NEW k \in DOMAIN pr[q].files
  PROVE  pr[q].files[k] # f
<1> DEFINE K == Refs(pr)
           y == IF k = 1 THEN NOFILE ELSE NOFILE + 1
<1>1. pr[q] \in Process /\ Control(pr[q])
  BY OfProcess
<1>2. Len(pr[q].files) \in {1, 2} /\ DOMAIN pr[q].files = 1 .. Len(pr[q].files)
      /\ pr[q].files \in Seq(FileIds)
  BY <1>1 DEF Process, Control
<1>3. y \in Places /\ KeptBy(pr[q], y) = pr[q].files[k]
  <2>1. k \in {1, 2} /\ (k = 2 => Len(pr[q].files) = 2)
    <3>1. k \in 1 .. Len(pr[q].files)
      BY <1>2
    <3>2. CASE Len(pr[q].files) = 1
      BY <3>1, <3>2
    <3>3. CASE Len(pr[q].files) = 2
      BY <3>1, <3>3
    <3>4. QED  BY <1>2, <3>2, <3>3
  <2>2. QED  BY <1>1, <1>2, <2>1, KeptIs, PlacesAre
<1> HIDE DEF y
<1>4. /\ <<p, x>> \in Cells /\ K[<<p, x>>] = f
      /\ <<q, y>> \in Cells /\ K[<<q, y>>] = pr[q].files[k]
  BY <1>3, CellOf
<1>5. ftable[pr[q].files[k]].ref = 1 /\ Counted(ftable, K) /\ K \in Marks
  <2>1. pr \in [Procs -> Process]
    BY DEF Inv, TypeOK
  <2>2. K \in Marks
    BY <2>1, RefsTyped
  <2>3. QED  BY <2>2 DEF Inv, FileInv, Fresh
<1> HIDE DEF K
<1>6. SUFFICES ASSUME pr[q].files[k] = f PROVE FALSE
  OBVIOUS
<1>7. <<p, x>> = <<q, y>>
  BY <1>4, <1>5, <1>6, Alone
<1>8. QED  BY <1>7

\* The other processes in pipealloc() still have fresh files.
FreshOthers(t, p) ==
  \A q \in Procs : q # p /\ pr[q].pc \in {"file", "page"} =>
    \A k \in DOMAIN pr[q].files : t[pr[q].files[k]] = ftable[pr[q].files[k]]

\* The files that r has for a pipe are new.
FreshOwn(t, r) == r.pc \in {"file", "page"} =>
  \A k \in DOMAIN r.files : t[r.files[k]].ref = 1 /\ t[r.files[k]].type = "NONE"

\* The files of pipealloc() stay its own.
LEMMA StaysFresh ==
  ASSUME Inv, NEW p \in Procs, NEW r, Becomes(pr, pr', p, r), NEW t,
         FreshOthers(t, p), FreshOwn(t, r)
  PROVE  Fresh(t, pr')
<1>1. Fresh(ftable, pr)
  BY DEF Inv, FileInv
<1>2. ASSUME NEW q \in Procs, pr'[q].pc \in {"file", "page"}, NEW k \in DOMAIN pr'[q].files
      PROVE  t[pr'[q].files[k]].ref = 1 /\ t[pr'[q].files[k]].type = "NONE"
  <2>1. CASE q = p
    BY <1>2, <2>1 DEF Becomes, FreshOwn
  <2>2. CASE q # p
    <3>1. pr'[q] = pr[q]
      BY <2>2 DEF Becomes
    <3>2. QED  BY <1>1, <1>2, <2>2, <3>1 DEF FreshOthers, Fresh
  <2>3. QED  BY <2>1, <2>2
<1>3. QED  BY <1>2 DEF Fresh

\* A step on one file f, of which p has a reference, or which has none.
LEMMA TouchesOne ==
  ASSUME Inv, NEW p \in Procs, NEW f \in FileIds, NEW t,
         \A g \in FileIds : g # f => t[g] = ftable[g],
         (\E x \in Places : KeptBy(pr[p], x) = f) \/ ftable[f].ref = 0
  PROVE  FreshOthers(t, p)
<1>1. ASSUME NEW q \in Procs, q # p, pr[q].pc \in {"file", "page"}, NEW k \in DOMAIN pr[q].files
      PROVE  t[pr[q].files[k]] = ftable[pr[q].files[k]]
  <2>1. pr[q].files[k] \in FileIds
    <3>1. pr[q].files \in Seq(FileIds)
      BY OfProcess DEF Process
    <3>2. QED  BY <3>1
  <2>2. ftable[pr[q].files[k]].ref = 1
    BY <1>1 DEF Inv, FileInv, Fresh
  <2>3. pr[q].files[k] # f
    <3>1. CASE \E x \in Places : KeptBy(pr[p], x) = f
      BY <1>1, <3>1, NotFresh
    <3>2. CASE ftable[f].ref = 0
      BY <2>2, <3>2
    <3>3. QED  BY <3>1, <3>2
  <2>4. QED  BY <2>1, <2>3
<1>2. QED  BY <1>1 DEF FreshOthers

\* The ends after a step of p to r.
EndThen(t, P, p, r, e) ==
  IF e = NFILE + p THEN r.ff ELSE IF e <= NFILE THEN t[e] ELSE P[e - NFILE].ff

\* The ends after a step of one process.
LEMMA EndsAfter ==
  ASSUME NEW P, NEW Q, NEW p \in Procs, NEW r, Becomes(P, Q, p, r), NEW t, NEW e \in EndIds
  PROVE  Ends(t, Q)[e] = EndThen(t, P, p, r, e)
<1>1. Ends(t, Q)[e] = IF e <= NFILE THEN t[e] ELSE Q[e - NFILE].ff
  BY DEF Ends
<1>2. CASE e <= NFILE /\ e \in FileIds
  BY <1>1, <1>2, EndIs DEF EndThen
<1>3. CASE ~(e <= NFILE) /\ e - NFILE \in Procs /\ e = NFILE + (e - NFILE)
  <2>1. e = NFILE + p <=> e - NFILE = p
    BY <1>3, ResourcesAssumption DEF Procs, EndIds
  <2>2. QED  BY <1>1, <1>3, <2>1 DEF Becomes, EndThen
<1>4. QED  BY <1>2, <1>3, EndIs

\* Two places change.
ChangesTwo(r, s, x, f, y, g) ==
  \A z \in Places : KeptBy(s, z) = IF z = y THEN g ELSE IF z = x THEN f ELSE KeptBy(r, z)

\* A process changes two of its places.
LEMMA RefsTwo ==
  ASSUME NEW P, NEW Q, NEW p \in Procs, NEW r, Becomes(P, Q, p, r),
         NEW x \in Places, NEW f, NEW y \in Places, NEW g, ChangesTwo(P[p], r, x, f, y, g)
  PROVE  Refs(Q) = Marked(Marked(Refs(P), <<p, x>>, f), <<p, y>>, g)
<1>1. ASSUME NEW e \in Cells
      PROVE  Refs(Q)[e] = IF e = <<p, y>> THEN g ELSE IF e = <<p, x>> THEN f ELSE Refs(P)[e]
  <2>1. e[1] \in Procs /\ e[2] \in Places /\ e = <<e[1], e[2]>>
    BY CellsAre
  <2>2. Refs(Q)[e] = KeptBy(Q[e[1]], e[2]) /\ Refs(P)[e] = KeptBy(P[e[1]], e[2])
    BY DEF Refs
  <2>3. CASE e[1] = p
    <3>1. (e = <<p, x>> <=> e[2] = x) /\ (e = <<p, y>> <=> e[2] = y)
      BY <2>1, <2>3
    <3>2. Q[e[1]] = r
      BY <2>3 DEF Becomes
    <3>3. QED  BY <2>1, <2>2, <2>3, <3>1, <3>2 DEF ChangesTwo
  <2>4. CASE e[1] # p
    <3>1. e # <<p, x>> /\ e # <<p, y>>
      BY <2>4
    <3>2. QED  BY <2>1, <2>2, <2>4, <3>1 DEF Becomes
  <2>5. QED  BY <2>3, <2>4
<1>2. QED  BY <1>1 DEF Marked, Refs

\* What the invariant says of files.
LEMMA InvFiles ==
  ASSUME Inv
  PROVE  /\ pr \in [Procs -> Process] /\ ftable \in [FileIds -> File]
         /\ Refs(pr) \in Marks /\ Counted(ftable, Refs(pr)) /\ Shut(ftable)
         /\ Fresh(ftable, pr) /\ Ended(Ends(ftable, pr), pipes)
         /\ FilesTyped(ftable, pipes) /\ None \notin FileIds
<1>1. pr \in [Procs -> Process]
  BY DEF Inv, TypeOK
<1>2. Refs(pr) \in Marks
  BY <1>1, RefsTyped
<1>3. QED  BY <1>1, <1>2, ResourcesAssumption DEF Inv, TypeOK, FileInv, FilesTyped

\* A step of p leaves the ends as they are.
LEMMA SameEnds ==
  ASSUME Inv, NEW p \in Procs, NEW r, Becomes(pr, pr', p, r), View(pr[p].ff, r.ff), NEW t,
         \A g \in FileIds : View(ftable[g], t[g])
  PROVE  Ended(Ends(t, pr'), pipes)
<1> DEFINE E == Ends(ftable, pr)
           D == Ends(t, pr')
<1>1. Ended(E, pipes)
  BY InvFiles
<1>2. ASSUME NEW e \in EndIds PROVE View(E[e], D[e])
  <2>1. E[e] = IF e <= NFILE THEN ftable[e] ELSE pr[e - NFILE].ff
    BY DEF Ends
  <2>2. D[e] = IF e = NFILE + p THEN r.ff
               ELSE IF e <= NFILE THEN t[e] ELSE pr[e - NFILE].ff
    <3>1. D[e] = EndThen(t, pr, p, r, e)
      BY EndsAfter
    <3>2. QED  BY <3>1 DEF EndThen
  <2> HIDE DEF E, D
  <2>3. CASE e <= NFILE /\ e \in FileIds
    <3>1. e # NFILE + p
      BY <2>3, EndIs
    <3>2. QED  BY <2>1, <2>2, <2>3, <3>1
  <2>4. CASE ~(e <= NFILE) /\ e = NFILE + p
    <3>1. e - NFILE = p
      BY <2>4, ResourcesAssumption DEF Procs, EndIds
    <3>2. QED  BY <2>1, <2>2, <2>4, <3>1
  <2>5. CASE ~(e <= NFILE) /\ e # NFILE + p
    BY <2>1, <2>2, <2>5 DEF View
  <2>6. QED  BY <2>3, <2>4, <2>5, EndIs
<1> HIDE DEF E, D
<1>3. Ended(D, pipes)
  BY <1>1, <1>2, EndedSame
<1>4. QED  BY <1>3 DEF D

\* A process gets a new file f, at place x.
LEMMA GetsFile ==
  ASSUME Inv, NEW p \in Procs, NEW r, Becomes(pr, pr', p, r), r.ff = pr[p].ff,
         NEW f \in FileIds, ftable[f].ref = 0, ftable' \in [FileIds -> File],
         ftable'[f].ref = 1, ftable'[f].type # "PIPE",
         \A g \in FileIds : g # f => ftable'[g] = ftable[g],
         NEW x \in Places, KeptBy(pr[p], x) = None, Changes(pr[p], r, x, f),
         FreshOwn(ftable', r), pipes' = pipes
  PROVE  FileInv' /\ FilesTyped(ftable', pipes')
<1>1. /\ ftable \in [FileIds -> File] /\ Refs(pr) \in Marks /\ Counted(ftable, Refs(pr))
      /\ Shut(ftable) /\ FilesTyped(ftable, pipes)
  BY InvFiles
<1>2. Refs(pr') = Marked(Refs(pr), <<p, x>>, f)
  <2>1. \A P, Q : Becomes(P, Q, p, r) /\ Changes(P[p], r, x, f) =>
                  Refs(Q) = Marked(Refs(P), <<p, x>>, f)
    BY RefsSet
  <2>2. QED  BY <2>1
<1>3. <<p, x>> \in Cells /\ Refs(pr)[<<p, x>>] = None
  BY CellOf
<1>4. ftable'[f].ref = ftable[f].ref + 1 /\ \A g \in FileIds : g # f => ftable'[g].ref = ftable[g].ref
  OBVIOUS
<1>5. Counted(ftable', Refs(pr'))
  BY <1>1, <1>2, <1>3, <1>4, CountedMore
<1>6. Shut(ftable')
  BY <1>1 DEF Shut
<1>7. Fresh(ftable', pr')
  <2>1. FreshOthers(ftable', p)
    BY TouchesOne
  <2>2. QED  BY <2>1, StaysFresh
<1>8. Ended(Ends(ftable', pr'), pipes)
  <2>1. View(pr[p].ff, r.ff)
    BY DEF View
  <2>2. ASSUME NEW g \in FileIds PROVE View(ftable[g], ftable'[g])
    <3>1. CASE g = f
      BY <1>1, <3>1 DEF Shut, View
    <3>2. CASE g # f
      BY <3>2 DEF View
    <3>3. QED  BY <3>1, <3>2
  <2>3. QED  BY <2>1, <2>2, SameEnds
<1>9. FileInv'
  BY <1>5, <1>6, <1>7, <1>8 DEF FileInv
<1>10. QED  BY <1>1, <1>9 DEF FilesTyped

\* Process c gets another reference to a file that p has.
LEMMA SharesFile ==
  ASSUME Inv, NEW p \in Procs, NEW c \in Procs, NEW r, Becomes(pr, pr', c, r),
         r.ff = pr[c].ff, NEW f \in FileIds, NEW y \in Places, KeptBy(pr[p], y) = f,
         pr[p].pc \notin {"file", "page"}, r.pc \notin {"file", "page"},
         ftable' = filedup(ftable, f),
         NEW x \in Places, KeptBy(pr[c], x) = None, Changes(pr[c], r, x, f), pipes' = pipes
  PROVE  FileInv' /\ FilesTyped(ftable', pipes')
<1>1. /\ ftable \in [FileIds -> File] /\ Refs(pr) \in Marks /\ Counted(ftable, Refs(pr))
      /\ Shut(ftable) /\ FilesTyped(ftable, pipes)
  BY InvFiles
<1>2. /\ ftable' \in [FileIds -> File] /\ ftable'[f].ref = ftable[f].ref + 1
      /\ ftable'[f].type = ftable[f].type /\ ftable'[f].pipe = ftable[f].pipe
      /\ ftable'[f].writable = ftable[f].writable
      /\ \A g \in FileIds : g # f => ftable'[g] = ftable[g]
  BY <1>1 DEF filedup, File
<1>3. Refs(pr') = Marked(Refs(pr), <<c, x>>, f)
  BY RefsSet
<1>4. <<c, x>> \in Cells /\ Refs(pr)[<<c, x>>] = None
  BY CellOf
<1>5. Counted(ftable', Refs(pr'))
  BY <1>1, <1>2, <1>3, <1>4, CountedMore
<1>6. Shut(ftable')
  <2>1. ftable[f].ref \in Nat
    BY <1>1 DEF File
  <2>2. ftable'[f].ref # 0
    BY <1>2, <2>1
  <2>3. QED  BY <1>1, <1>2, <2>2 DEF Shut
<1>7. Fresh(ftable', pr')
  <2>1. ASSUME NEW q \in Procs, q # c, pr[q].pc \in {"file", "page"}, NEW k \in DOMAIN pr[q].files
        PROVE  ftable'[pr[q].files[k]] = ftable[pr[q].files[k]]
    <3>1. pr[q].files[k] # f
      BY <2>1, NotFresh
    <3>2. pr[q].files[k] \in FileIds
      <4>1. pr[q].files \in Seq(FileIds)
        BY OfProcess DEF Process
      <4>2. QED  BY <4>1
    <3>3. QED  BY <1>2, <3>1, <3>2
  <2>2. FreshOthers(ftable', c)
    BY <2>1 DEF FreshOthers
  <2>3. FreshOwn(ftable', r)
    BY DEF FreshOwn
  <2>4. QED  BY <2>2, <2>3, StaysFresh
<1>8. Ended(Ends(ftable', pr'), pipes)
  <2>1. View(pr[c].ff, r.ff) /\ \A g \in FileIds : View(ftable[g], ftable'[g])
    BY <1>2 DEF View
  <2>2. QED  BY <2>1, SameEnds
<1>9. FileInv'
  BY <1>5, <1>6, <1>7, <1>8 DEF FileInv
<1>10. QED  BY <1>1, <1>2, <1>9 DEF FilesTyped

\* A reference of p moves from place x to place y.
LEMMA MovesFile ==
  ASSUME Inv, NEW p \in Procs, NEW r, Becomes(pr, pr', p, r), r.ff = pr[p].ff,
         r.pc \notin {"file", "page"}, NEW f \in FileIds,
         NEW x \in Places, KeptBy(pr[p], x) = f, NEW y \in Places, KeptBy(pr[p], y) = None,
         ChangesTwo(pr[p], r, x, None, y, f), UNCHANGED fileVars
  PROVE  FileInv' /\ FilesTyped(ftable', pipes')
<1>1. /\ ftable \in [FileIds -> File] /\ Refs(pr) \in Marks /\ Counted(ftable, Refs(pr))
      /\ Shut(ftable) /\ FilesTyped(ftable, pipes)
  BY InvFiles
<1>2. ftable' = ftable /\ pipes' = pipes
  BY DEF fileVars
<1>3. Refs(pr') = Marked(Marked(Refs(pr), <<p, x>>, None), <<p, y>>, f)
  <2>1. \A P, Q : Becomes(P, Q, p, r) /\ ChangesTwo(P[p], r, x, None, y, f) =>
          Refs(Q) = Marked(Marked(Refs(P), <<p, x>>, None), <<p, y>>, f)
    BY RefsTwo
  <2>2. QED  BY <2>1
<1>4. /\ <<p, x>> \in Cells /\ Refs(pr)[<<p, x>>] = f
      /\ <<p, y>> \in Cells /\ Refs(pr)[<<p, y>>] = None
  BY CellOf
<1>5. Counted(ftable, Refs(pr'))
  BY <1>1, <1>3, <1>4, CountedMove
<1>6. Fresh(ftable, pr')
  <2>1. FreshOthers(ftable, p) /\ FreshOwn(ftable, r)
    BY DEF FreshOthers, FreshOwn
  <2>2. QED  BY <2>1, StaysFresh
<1>7. Ended(Ends(ftable, pr'), pipes)
  <2>1. View(pr[p].ff, r.ff) /\ \A g \in FileIds : View(ftable[g], ftable[g])
    BY DEF View
  <2>2. QED  BY <2>1, SameEnds
<1>8. FileInv'
  BY <1>1, <1>2, <1>5, <1>6, <1>7 DEF FileInv
<1>9. QED  BY <1>1, <1>2, <1>8

\* The lowest descriptor that is not in use.
LEMMA FreeFd ==
  ASSUME NEW p \in Procs, FreeFds(p) # {}
  PROVE  Min(FreeFds(p)) \in Fds /\ pr[p].ofile[Min(FreeFds(p))] = None
<1>1. FreeFds(p) \in SUBSET Nat
  BY PlacesAre DEF FreeFds
<1>2. Min(FreeFds(p)) \in FreeFds(p)
  BY <1>1, LeastExists
<1>3. QED  BY <1>2 DEF FreeFds

\* sys_open(), with and without a free descriptor.
LEMMA OpenStep ==
  ASSUME Inv, NEW p \in Procs, Open(p)
  PROVE  Inv'
<1> DEFINE f == filealloc(ftable)
           fd == Min(FreeFds(p))
           r == IF FreeFds(p) = {} THEN [pr[p] EXCEPT !.pc = "close", !.files = <<f>>]
                ELSE [pr[p] EXCEPT !.ofile[fd] = f]
           x == IF FreeFds(p) = {} THEN NOFILE ELSE fd
<1>1. /\ pr \in [Procs -> Process] /\ pr[p] \in Process /\ Control(pr[p])
      /\ Room(mm, pr[p]) /\ panicked = FALSE /\ calls \in Nat
  BY OfProcess
<1>2. /\ pr[p].state = "RUNNING" /\ pr[p].pc = "user" /\ pr[p].call = "none"
      /\ pr[p].np = 0 /\ pr[p].nd = NoPage /\ pr[p].pgdir # NoPage
      /\ pr[p].files = <<>> /\ pr[p].ff = NoFile
  BY Caller DEF Open
<1>3. /\ UNCHANGED <<mm, pipes>> /\ calls' \in Nat /\ panicked' = FALSE /\ f # None
  BY <1>1 DEF Open, Call
<1>4. ftable \in [FileIds -> File] /\ Shut(ftable)
  BY InvFiles
<1>5. /\ f \in FileIds /\ ftable[f].ref = 0 /\ ftable[f].type = "NONE"
      /\ Allocated(ftable) \in [FileIds -> File]
      /\ Allocated(ftable)[f] = [ftable[f] EXCEPT !.ref = 1]
      /\ \A g \in FileIds : g # f => Allocated(ftable)[g] = ftable[g]
  BY <1>3, <1>4, AllocIs DEF Shut
<1>6. FreeFds(p) # {} => fd \in Fds /\ pr[p].ofile[fd] = None
  BY FreeFd
<1> HIDE DEF f, fd
<1>7. /\ ftable' \in [FileIds -> File] /\ ftable'[f].ref = 1 /\ ftable'[f].type # "PIPE"
      /\ \A g \in FileIds : g # f => ftable'[g] = ftable[g]
  <2>1. CASE FreeFds(p) = {}
    <3>1. ftable' = Allocated(ftable)
      BY <2>1 DEF Open
    <3>2. QED  BY <1>4, <1>5, <3>1 DEF File
  <2>2. CASE FreeFds(p) # {}
    <3>1. ftable' = [Allocated(ftable) EXCEPT ![f].type = "INODE"]
      BY <2>2 DEF Open, f
    <3>2. QED  BY <1>4, <1>5, <3>1 DEF File
  <2>3. QED  BY <2>1, <2>2
<1>8. /\ r \in Process /\ r.pc \in {"user", "close"} /\ r.call = "none"
      /\ r.state = "RUNNING" /\ r.np = 0 /\ r.nd = NoPage /\ r.a = pr[p].a /\ r.to = pr[p].to
      /\ r.sz = pr[p].sz /\ r.cr3 = pr[p].cr3 /\ r.kstack = pr[p].kstack
      /\ r.pgdir = pr[p].pgdir /\ r.ff = NoFile
      /\ r.files = IF FreeFds(p) = {} THEN <<f>> ELSE <<>>
      /\ r.pc = IF FreeFds(p) = {} THEN "close" ELSE "user"
  <2>1. CASE FreeFds(p) = {}
    <3>1. "close" \in Pcs /\ <<f>> \in Seq(FileIds)
      BY <1>5 DEF Pcs
    <3>2. QED  BY ZenonT(60), <1>1, <1>2, <2>1, <3>1 DEF Process
  <2>2. CASE FreeFds(p) # {}
    BY <1>1, <1>2, <1>5, <1>6, <2>2 DEF Process
  <2>3. QED  BY <2>1, <2>2
<1>9. Becomes(pr, pr', p, r)
  <2>1. CASE FreeFds(p) = {}
    BY <1>1, <2>1 DEF Becomes, Open, Closing, f
  <2>2. CASE FreeFds(p) # {}
    <3>1. pr' = [pr EXCEPT ![p].ofile[fd] = f]
      BY <2>2 DEF Open, f, fd
    <3>2. QED  BY <1>1, <2>2, <3>1 DEF Becomes
  <2>3. QED  BY <2>1, <2>2
<1>10. x \in Places /\ KeptBy(pr[p], x) = None /\ Changes(pr[p], r, x, f)
  <2>1. /\ \A y \in Fds : KeptBy(pr[p], y) = pr[p].ofile[y]
        /\ KeptBy(pr[p], NOFILE) = None /\ KeptBy(pr[p], NOFILE + 1) = None
    BY <1>1, <1>2, KeptIs
  <2>2. \A y \in Fds : KeptBy(r, y) = r.ofile[y]
    BY <1>8, KeptIs
  <2>3. CASE FreeFds(p) = {}
    <3>1. r.ofile = pr[p].ofile
      BY <1>1, <2>3 DEF Process
    <3>2. r.files = <<f>> /\ Len(r.files) = 1 /\ r.files[1] = f
      BY <1>8, <2>3
    <3>3. KeptBy(r, NOFILE) = f /\ KeptBy(r, NOFILE + 1) = None
      BY <1>8, <3>2, KeptIs
    <3>4. QED  BY <2>1, <2>2, <2>3, <3>1, <3>3, PlacesAre DEF Changes
  <2>4. CASE FreeFds(p) # {}
    <3>1. \A y \in Fds : r.ofile[y] = IF y = fd THEN f ELSE pr[p].ofile[y]
      BY <1>1, <1>6, <2>4 DEF Process
    <3>2. Len(r.files) = 0
      BY <1>8, <2>4
    <3>3. KeptBy(r, NOFILE) = None /\ KeptBy(r, NOFILE + 1) = None
      BY <1>8, <3>2, KeptIs
    <3>4. QED  BY <1>6, <2>1, <2>2, <2>4, <3>1, <3>3, PlacesAre DEF Changes
  <2>5. QED  BY <2>3, <2>4
<1> HIDE DEF r, x
<1>11. FreshOwn(ftable', r)
  BY <1>8 DEF FreshOwn
<1>12. FileInv' /\ FilesTyped(ftable', pipes')
  BY <1>2, <1>3, <1>5, <1>7, <1>8, <1>9, <1>10, <1>11, GetsFile
<1>13. Control(r)
  <2>1. Len(<<f>>) <= 2
    OBVIOUS
  <2>2. QED  BY <1>1, <1>2, <1>8, <2>1 DEF Control
<1>14. Room(mm, r)
  BY <1>1, <1>2, <1>8 DEF Room, Space
<1>15. Controlled(pr')
  BY <1>1, <1>2, <1>8, <1>9, <1>13, ControlAlone DEF Inv
<1>16. Files(p, r)
  BY <1>2, <1>3, <1>8, <1>9, <1>12, <1>14, <1>15 DEF Files
<1>17. PICK u : Heap(mm, u, pr, DOMAIN pipes, {})
  BY DEF Inv, HeapInv
<1>18. Heap(mm', u, pr, DOMAIN pipes', {})
  BY <1>3, <1>17
<1>19. QED  BY <1>3, <1>12, <1>16, <1>18, FileSolo

\* A step that leaves the memory alone.
LEMMA FileStill ==
  ASSUME Inv, NEW p \in Procs, NEW r, r \in Process, Becomes(pr, pr', p, r), Control(r),
         pr[p].state = "RUNNING", pr[p].np = 0, r.np = 0,
         r.kstack = pr[p].kstack, r.pgdir = pr[p].pgdir, r.nd = pr[p].nd,
         Room(mm, r), UNCHANGED mm, FileInv', FilesTyped(ftable', pipes'),
         DOMAIN pipes' = DOMAIN pipes, calls' \in Nat, panicked' = FALSE
  PROVE  Inv'
<1>1. Controlled(pr')
  <2>1. pr \in [Procs -> Process] /\ Controlled(pr)
    BY DEF Inv, TypeOK
  <2>2. r.np = pr[p].np /\ (r.np # 0 => Child(r, pr[r.np]))
    OBVIOUS
  <2>3. QED  BY <2>1, <2>2, ControlAlone
<1>2. Files(p, r)
  BY <1>1 DEF Files
<1>3. PICK u : Heap(mm, u, pr, DOMAIN pipes, {})
  BY DEF Inv, HeapInv
<1>4. Heap(mm', u, pr, DOMAIN pipes', {})
  BY <1>3
<1>5. QED  BY <1>2, <1>4, FileSolo

\* sys_dup().
LEMMA DupStep ==
  ASSUME Inv, NEW p \in Procs, NEW d \in Fds, Dup(p, d)
  PROVE  Inv'
<1> DEFINE f == pr[p].ofile[d]
           fd == Min(FreeFds(p))
           r == [pr[p] EXCEPT !.ofile[fd] = f]
<1>1. /\ pr \in [Procs -> Process] /\ pr[p] \in Process /\ Control(pr[p])
      /\ Room(mm, pr[p]) /\ panicked = FALSE /\ calls \in Nat
  BY OfProcess
<1>2. /\ pr[p].state = "RUNNING" /\ pr[p].pc = "user" /\ pr[p].call = "none"
      /\ pr[p].np = 0 /\ pr[p].nd = NoPage /\ pr[p].pgdir # NoPage
      /\ pr[p].files = <<>> /\ pr[p].ff = NoFile
  BY Caller DEF Dup
<1>3. /\ UNCHANGED <<mm, pipes>> /\ calls' \in Nat /\ panicked' = FALSE /\ f # None
      /\ FreeFds(p) # {} /\ ftable' = filedup(ftable, f)
  BY <1>1 DEF Dup, Call
<1>4. f \in FileIds
  BY <1>1, <1>3 DEF Process
<1>5. fd \in Fds /\ pr[p].ofile[fd] = None
  BY <1>3, FreeFd
<1>6. pr' = [pr EXCEPT ![p].ofile[fd] = f]
  BY DEF Dup
<1> HIDE DEF f, fd
<1>7. /\ r \in Process /\ r.pc = "user" /\ r.call = "none"
      /\ r.state = "RUNNING" /\ r.np = 0 /\ r.nd = NoPage /\ r.a = pr[p].a /\ r.to = pr[p].to
      /\ r.sz = pr[p].sz /\ r.cr3 = pr[p].cr3 /\ r.kstack = pr[p].kstack
      /\ r.pgdir = pr[p].pgdir /\ r.ff = NoFile /\ r.files = <<>>
  BY ZenonT(60), <1>1, <1>2, <1>4, <1>5 DEF Process
<1>8. Becomes(pr, pr', p, r)
  BY <1>1, <1>6 DEF Becomes
<1>9. /\ fd \in Places /\ d \in Places /\ KeptBy(pr[p], d) = f /\ KeptBy(pr[p], fd) = None
      /\ Changes(pr[p], r, fd, f)
  <2>1. /\ \A y \in Fds : KeptBy(pr[p], y) = pr[p].ofile[y]
        /\ KeptBy(pr[p], NOFILE) = None /\ KeptBy(pr[p], NOFILE + 1) = None
    BY <1>1, <1>2, KeptIs
  <2>2. \A y \in Fds : KeptBy(r, y) = r.ofile[y]
    BY <1>7, KeptIs
  <2>3. \A y \in Fds : r.ofile[y] = IF y = fd THEN f ELSE pr[p].ofile[y]
    BY <1>1, <1>5 DEF Process
  <2>4. Len(r.files) = 0
    BY <1>7
  <2>5. KeptBy(r, NOFILE) = None /\ KeptBy(r, NOFILE + 1) = None
    BY <1>7, <2>4, KeptIs
  <2>6. QED  BY <1>5, <2>1, <2>2, <2>3, <2>5, PlacesAre DEF Changes, f
<1> HIDE DEF r
<1>10. FileInv' /\ FilesTyped(ftable', pipes')
  <2>1. pr[p].pc \notin {"file", "page"} /\ r.pc \notin {"file", "page"} /\ r.ff = pr[p].ff
        /\ pipes' = pipes
    BY <1>2, <1>3, <1>7
  <2>2. QED  BY <1>3, <1>4, <1>8, <1>9, <2>1, SharesFile
<1>11. Control(r) /\ Room(mm, r)
  BY <1>1, <1>2, <1>7 DEF Control, Room, Space
<1>12. QED  BY <1>2, <1>3, <1>7, <1>8, <1>10, <1>11, FileStill

\* A process takes a file from its descriptors, to close it.
LEMMA ToClose ==
  ASSUME Inv, NEW p \in Procs, NEW d \in Fds, pr[p].ofile[d] # None,
         pr[p].state = "RUNNING", pr[p].pc \in {"user", "close"},
         pr[p].call \in {"none", "exit"}, pr[p].files = <<>>,
         pr' = [pr EXCEPT ![p] = [@ EXCEPT !.ofile[d] = None, !.pc = "close",
                                           !.files = <<pr[p].ofile[d]>>]],
         UNCHANGED <<mm, fileVars>>, calls' \in Nat, panicked' = FALSE
  PROVE  Inv'
<1> DEFINE f == pr[p].ofile[d]
           r == [pr[p] EXCEPT !.ofile[d] = None, !.pc = "close", !.files = <<f>>]
<1>1. /\ pr \in [Procs -> Process] /\ pr[p] \in Process /\ Control(pr[p]) /\ Room(mm, pr[p])
  BY OfProcess
<1>2. /\ pr[p].np = 0 /\ pr[p].nd = NoPage /\ pr[p].pgdir # NoPage /\ pr[p].ff = NoFile
      /\ pr[p].kstack # NoPage
  BY <1>1 DEF Control
<1>3. f \in FileIds
  BY <1>1 DEF Process
<1>4. Becomes(pr, pr', p, r)
  BY <1>1 DEF Becomes
<1> HIDE DEF f
<1>5. /\ r \in Process /\ r.pc = "close" /\ r.call = pr[p].call
      /\ r.state = "RUNNING" /\ r.np = 0 /\ r.nd = NoPage
      /\ r.sz = pr[p].sz /\ r.cr3 = pr[p].cr3 /\ r.kstack = pr[p].kstack
      /\ r.pgdir = pr[p].pgdir /\ r.ff = NoFile /\ r.files = <<f>>
  <2>1. "close" \in Pcs /\ <<f>> \in Seq(FileIds)
    BY <1>3 DEF Pcs
  <2>2. QED  BY ZenonT(60), <1>1, <1>2, <2>1 DEF Process
<1>6. /\ NOFILE \in Places /\ d \in Places /\ KeptBy(pr[p], d) = f
      /\ KeptBy(pr[p], NOFILE) = None /\ ChangesTwo(pr[p], r, d, None, NOFILE, f)
  <2>1. /\ \A y \in Fds : KeptBy(pr[p], y) = pr[p].ofile[y]
        /\ KeptBy(pr[p], NOFILE) = None /\ KeptBy(pr[p], NOFILE + 1) = None
    BY <1>1, KeptIs
  <2>2. \A y \in Fds : KeptBy(r, y) = r.ofile[y]
    BY <1>5, KeptIs
  <2>3. \A y \in Fds : r.ofile[y] = IF y = d THEN None ELSE pr[p].ofile[y]
    BY <1>1 DEF Process
  <2>4. Len(r.files) = 1 /\ r.files[1] = f
    BY <1>5
  <2>5. KeptBy(r, NOFILE) = f /\ KeptBy(r, NOFILE + 1) = None
    BY <1>5, <2>4, KeptIs
  <2>6. QED  BY <2>1, <2>2, <2>3, <2>5, PlacesAre DEF ChangesTwo, f
<1> HIDE DEF r
<1>7. FileInv' /\ FilesTyped(ftable', pipes')
  <2>1. r.pc \notin {"file", "page"} /\ r.ff = pr[p].ff /\ UNCHANGED fileVars
    BY <1>2, <1>5
  <2>2. QED  BY <1>3, <1>4, <1>6, <2>1, MovesFile
<1>8. Control(r)
  <2>1. Len(<<f>>) <= 2
    OBVIOUS
  <2>2. QED  BY <1>1, <1>2, <1>5, <2>1 DEF Control
<1>9. Room(mm, r)
  BY <1>1, <1>2, <1>5 DEF Room, Space
<1>10. DOMAIN pipes' = DOMAIN pipes /\ mm' = mm
  BY DEF fileVars
<1>11. QED  BY <1>2, <1>4, <1>5, <1>7, <1>8, <1>9, <1>10, FileStill

\* sys_close() takes the file out of its descriptor.
LEMMA CloseStep ==
  ASSUME Inv, NEW p \in Procs, NEW d \in Fds, Close(p, d)
  PROVE  Inv'
<1>1. pr \in [Procs -> Process] /\ panicked = FALSE /\ calls \in Nat
  BY OfProcess
<1>2. /\ pr[p].state = "RUNNING" /\ pr[p].pc = "user" /\ pr[p].call = "none"
      /\ pr[p].files = <<>>
  BY Caller DEF Close
<1>3. /\ UNCHANGED <<mm, fileVars>> /\ calls' \in Nat /\ panicked' = FALSE
      /\ pr[p].ofile[d] # None
  BY <1>1 DEF Close, Call
<1>4. pr' = [pr EXCEPT ![p] = [@ EXCEPT !.ofile[d] = None, !.pc = "close",
                                        !.files = <<pr[p].ofile[d]>>]]
  BY DEF Close, Closing
<1>5. QED  BY <1>2, <1>3, <1>4, ToClose

\* exit() does the same for the next descriptor.
LEMMA ExitFileStep ==
  ASSUME Inv, NEW p \in Procs, ExitFile(p)
  PROVE  Inv'
<1> DEFINE d == Min(Fds \ FreeFds(p))
<1>1. pr \in [Procs -> Process] /\ pr[p] \in Process /\ panicked = FALSE /\ calls \in Nat
      /\ (pr[p].pc # "user" => pr[p].state = "RUNNING")
  BY OfProcess
<1>2. /\ pr[p].state = "RUNNING" /\ pr[p].pc = "close" /\ pr[p].call = "exit"
      /\ pr[p].files = <<>> /\ FreeFds(p) # Fds
  BY <1>1 DEF ExitFile
<1>3. d \in Fds /\ pr[p].ofile[d] # None
  <2>1. Fds \ FreeFds(p) \in SUBSET Nat /\ Fds \ FreeFds(p) # {}
    BY <1>2, PlacesAre DEF FreeFds
  <2>2. d \in Fds \ FreeFds(p)
    BY <2>1, LeastExists
  <2>3. QED  BY <2>2 DEF FreeFds
<1>4. /\ UNCHANGED <<mm, fileVars>> /\ calls' \in Nat /\ panicked' = FALSE
      /\ pr' = [pr EXCEPT ![p].ofile[d] = None, ![p].files = <<pr[p].ofile[d]>>]
  BY <1>1 DEF ExitFile
<1> HIDE DEF d
<1>5. pr' = [pr EXCEPT ![p] = [@ EXCEPT !.ofile[d] = None, !.pc = "close",
                                        !.files = <<pr[p].ofile[d]>>]]
  <2>1. [pr[p] EXCEPT !.ofile[d] = None, !.files = <<pr[p].ofile[d]>>]
          = [pr[p] EXCEPT !.ofile[d] = None, !.pc = "close", !.files = <<pr[p].ofile[d]>>]
    BY <1>1, <1>2 DEF Process
  <2>2. QED  BY <1>1, <1>4, <2>1
<1>6. QED  BY <1>2, <1>3, <1>4, <1>5, ToClose

\* fork() copies a descriptor.
LEMMA DupFileStep ==
  ASSUME Inv, NEW p \in Procs, DupFile(p)
  PROVE  Inv'
<1> DEFINE c == pr[p].np
           d == Min(ToDup(p))
           f == pr[p].ofile[d]
           k == [pr[c] EXCEPT !.ofile[d] = f]
<1>1. pr \in [Procs -> Process] /\ panicked = FALSE /\ calls \in Nat
  BY OfProcess
<1>2. pr[p].pc = "dup" /\ pr[p].call = "fork"
  BY OfProcess DEF DupFile, Control
<1>3. /\ pr[p] \in Process /\ Control(pr[p])
      /\ pr[p].state = "RUNNING"
      /\ c \in Procs /\ c # p /\ \A q \in Procs : q # p => pr[q].np # c
      /\ Child(pr[p], pr[c]) /\ pr[c] \in Process /\ Control(pr[c]) /\ Room(mm, pr[c])
      /\ pr[c].state = "EMBRYO" /\ pr[c].pc = "user" /\ pr[c].call = "none"
      /\ pr[c].np = 0 /\ pr[c].nd = NoPage /\ pr[c].files = <<>> /\ pr[c].ff = NoFile
  BY <1>2, Forking
<1>4. /\ UNCHANGED <<mm, pipes>> /\ calls' \in Nat /\ panicked' = FALSE
      /\ ftable' = filedup(ftable, f) /\ ToDup(p) # {}
      /\ pr' = [pr EXCEPT ![c].ofile[d] = f]
  BY <1>1 DEF DupFile
<1>5. d \in Fds /\ f # None /\ pr[c].ofile[d] = None
  <2>1. ToDup(p) \in SUBSET Nat
    BY PlacesAre DEF ToDup
  <2>2. d \in ToDup(p)
    BY <1>4, <2>1, LeastExists
  <2>3. QED  BY <2>2 DEF ToDup
<1> HIDE DEF c, d
<1>6. f \in FileIds
  BY <1>3, <1>5 DEF Process
<1>7. KeptBy(pr[p], d) = f /\ d \in Places
  BY <1>3, <1>5, KeptIs, PlacesAre
<1> HIDE DEF f
<1>8. /\ k \in Process /\ k.pc = "user" /\ k.call = "none" /\ k.np = 0
      /\ k.state = "EMBRYO" /\ k.nd = NoPage /\ k.kstack = pr[c].kstack
      /\ k.pgdir = pr[c].pgdir /\ k.cr3 = pr[c].cr3 /\ k.a = pr[c].a /\ k.to = pr[c].to
      /\ k.files = <<>> /\ k.ff = NoFile /\ k.sz = pr[c].sz
  BY ZenonT(60), <1>3, <1>5, <1>6 DEF Process
<1>9. Becomes(pr, pr', c, k)
  BY <1>1, <1>3, <1>4 DEF Becomes
<1>10. KeptBy(pr[c], d) = None /\ Changes(pr[c], k, d, f)
  <2>1. /\ \A y \in Fds : KeptBy(pr[c], y) = pr[c].ofile[y]
        /\ KeptBy(pr[c], NOFILE) = None /\ KeptBy(pr[c], NOFILE + 1) = None
    BY <1>3, KeptIs
  <2>2. \A y \in Fds : KeptBy(k, y) = k.ofile[y]
    BY <1>8, KeptIs
  <2>3. \A y \in Fds : k.ofile[y] = IF y = d THEN f ELSE pr[c].ofile[y]
    BY <1>3, <1>5 DEF Process
  <2>4. Len(k.files) = 0
    BY <1>8
  <2>5. KeptBy(k, NOFILE) = None /\ KeptBy(k, NOFILE + 1) = None
    BY <1>8, <2>4, KeptIs
  <2>6. QED  BY <1>5, <2>1, <2>2, <2>3, <2>5, PlacesAre DEF Changes
<1> HIDE DEF k
<1>11. FileInv' /\ FilesTyped(ftable', pipes')
  <2>1. pr[p].pc \notin {"file", "page"} /\ k.pc \notin {"file", "page"} /\ k.ff = pr[c].ff
        /\ pipes' = pipes
    BY <1>2, <1>3, <1>4, <1>8
  <2>2. QED  BY <1>3, <1>4, <1>6, <1>7, <1>9, <1>10, <2>1, SharesFile
<1>12. Control(k) /\ Room(mm, k) /\ Child(pr[p], k)
  BY <1>2, <1>3, <1>8 DEF Control, Room, Space, Child
<1>13. Controlled(pr')
  <2>1. \A q \in Procs : pr'[q] = IF q = p THEN pr[p] ELSE IF q = c THEN k ELSE pr[q]
    BY <1>3, <1>9 DEF Becomes
  <2>2. pr[p].np = c /\ Controlled(pr)
    BY DEF c, Inv
  <2>3. QED  BY <1>1, <1>3, <1>8, <1>12, <2>1, <2>2, ControlPair
<1>14. Files(c, k)
  BY <1>3, <1>4, <1>8, <1>9, <1>11, <1>12, <1>13 DEF Files
<1>15. PICK u : Heap(mm, u, pr, DOMAIN pipes, {})
  BY DEF Inv, HeapInv
<1>16. Heap(mm', u, pr, DOMAIN pipes', {})
  BY <1>4, <1>15
<1>17. QED  BY <1>3, <1>4, <1>11, <1>14, <1>16, FileSolo

\* pipealloc() takes the first file.
LEMMA PipeStep ==
  ASSUME Inv, NEW p \in Procs, Pipe(p)
  PROVE  Inv'
<1> DEFINE f == filealloc(ftable)
           r == [pr[p] EXCEPT !.pc = "file", !.files = <<f>>]
<1>1. /\ pr \in [Procs -> Process] /\ pr[p] \in Process /\ Control(pr[p])
      /\ Room(mm, pr[p]) /\ panicked = FALSE /\ calls \in Nat
  BY OfProcess
<1>2. /\ pr[p].state = "RUNNING" /\ pr[p].pc = "user" /\ pr[p].call = "none"
      /\ pr[p].np = 0 /\ pr[p].nd = NoPage /\ pr[p].pgdir # NoPage
      /\ pr[p].files = <<>> /\ pr[p].ff = NoFile
  BY Caller DEF Pipe
<1>3. /\ UNCHANGED <<mm, pipes>> /\ calls' \in Nat /\ panicked' = FALSE /\ f # None
      /\ ftable' = Allocated(ftable)
  BY <1>1 DEF Pipe, Call
<1>4. ftable \in [FileIds -> File] /\ Shut(ftable)
  BY InvFiles
<1>5. /\ f \in FileIds /\ ftable[f].ref = 0 /\ ftable[f].type = "NONE"
      /\ Allocated(ftable) \in [FileIds -> File]
      /\ Allocated(ftable)[f] = [ftable[f] EXCEPT !.ref = 1]
      /\ \A g \in FileIds : g # f => Allocated(ftable)[g] = ftable[g]
  BY <1>3, <1>4, AllocIs DEF Shut
<1>6. Becomes(pr, pr', p, r)
  BY <1>1 DEF Becomes, Pipe
<1> HIDE DEF f
<1>7. /\ ftable' \in [FileIds -> File] /\ ftable'[f].ref = 1 /\ ftable'[f].type = "NONE"
      /\ \A g \in FileIds : g # f => ftable'[g] = ftable[g]
  BY <1>3, <1>4, <1>5 DEF File
<1>8. /\ r \in Process /\ r.pc = "file" /\ r.call = "none"
      /\ r.state = "RUNNING" /\ r.np = 0 /\ r.nd = NoPage
      /\ r.sz = pr[p].sz /\ r.cr3 = pr[p].cr3 /\ r.kstack = pr[p].kstack
      /\ r.pgdir = pr[p].pgdir /\ r.ff = NoFile /\ r.files = <<f>> /\ r.ofile = pr[p].ofile
  <2>1. "file" \in Pcs /\ <<f>> \in Seq(FileIds)
    BY <1>5 DEF Pcs
  <2>2. QED  BY ZenonT(60), <1>1, <1>2, <2>1 DEF Process
<1> HIDE DEF r
<1>9. Len(r.files) = 1 /\ r.files[1] = f /\ \A k \in DOMAIN r.files : r.files[k] = f
  BY <1>8
<1>10. NOFILE \in Places /\ KeptBy(pr[p], NOFILE) = None /\ Changes(pr[p], r, NOFILE, f)
  <2>1. /\ \A y \in Fds : KeptBy(pr[p], y) = pr[p].ofile[y]
        /\ KeptBy(pr[p], NOFILE) = None /\ KeptBy(pr[p], NOFILE + 1) = None
    BY <1>1, <1>2, KeptIs
  <2>2. /\ \A y \in Fds : KeptBy(r, y) = r.ofile[y]
        /\ KeptBy(r, NOFILE) = f /\ KeptBy(r, NOFILE + 1) = None
    BY <1>8, <1>9, KeptIs
  <2>3. QED  BY <1>8, <2>1, <2>2, PlacesAre DEF Changes
<1>11. FreshOwn(ftable', r)
  BY <1>7, <1>9 DEF FreshOwn
<1>12. FileInv' /\ FilesTyped(ftable', pipes')
  <2>1. ftable'[f].type # "PIPE"
    BY <1>7
  <2>2. QED  BY <1>2, <1>3, <1>5, <1>6, <1>7, <1>8, <1>10, <1>11, <2>1, GetsFile
<1>13. Control(r)
  BY <1>1, <1>2, <1>8, <1>9 DEF Control
<1>14. Room(mm, r)
  BY <1>1, <1>2, <1>8 DEF Room, Space
<1>15. QED  BY <1>2, <1>3, <1>6, <1>8, <1>12, <1>13, <1>14, FileStill

\* A process in pipe() or fileclose() goes on with the same references.
LEMMA SameRefs ==
  ASSUME Inv, NEW p \in Procs, NEW r, Becomes(pr, pr', p, r), View(pr[p].ff, r.ff),
         Keeps(pr[p], r), r.pc \notin {"file", "page"}, UNCHANGED fileVars
  PROVE  FileInv' /\ FilesTyped(ftable', pipes')
<1>1. /\ Refs(pr) \in Marks /\ Counted(ftable, Refs(pr))
      /\ Shut(ftable) /\ FilesTyped(ftable, pipes) /\ ftable' = ftable /\ pipes' = pipes
  BY InvFiles DEF fileVars
<1>2. Refs(pr') = Refs(pr)
  BY RefsSame
<1>3. Fresh(ftable, pr')
  <2>1. FreshOthers(ftable, p) /\ FreshOwn(ftable, r)
    BY DEF FreshOthers, FreshOwn
  <2>2. QED  BY <2>1, StaysFresh
<1>4. Ended(Ends(ftable, pr'), pipes)
  <2>1. \A g \in FileIds : View(ftable[g], ftable[g])
    BY DEF View
  <2>2. QED  BY <2>1, SameEnds
<1>5. FileInv'
  BY <1>1, <1>2, <1>3, <1>4 DEF FileInv
<1>6. QED  BY <1>1, <1>5

\* pipealloc() gives up what it has.
LEMMA PipeFails ==
  ASSUME Inv, NEW p \in Procs, pr[p].pc \in {"file", "page"},
         pr' = [pr EXCEPT ![p].pc = "close"], UNCHANGED <<mm, fileVars>>,
         calls' \in Nat, panicked' = FALSE
  PROVE  Inv'
<1> DEFINE r == [pr[p] EXCEPT !.pc = "close"]
<1>1. /\ pr \in [Procs -> Process] /\ pr[p] \in Process /\ Control(pr[p]) /\ Room(mm, pr[p])
  BY OfProcess
<1>2. /\ pr[p].state = "RUNNING" /\ pr[p].call = "none"
      /\ pr[p].np = 0 /\ pr[p].nd = NoPage /\ pr[p].pgdir # NoPage /\ pr[p].ff = NoFile
      /\ Len(pr[p].files) \in {1, 2}
  BY <1>1 DEF Control
<1>3. Becomes(pr, pr', p, r)
  BY <1>1 DEF Becomes
<1>4. /\ r \in Process /\ r.pc = "close" /\ r.call = "none"
      /\ r.state = "RUNNING" /\ r.np = 0 /\ r.nd = NoPage
      /\ r.sz = pr[p].sz /\ r.cr3 = pr[p].cr3 /\ r.kstack = pr[p].kstack
      /\ r.pgdir = pr[p].pgdir /\ r.ff = NoFile /\ r.files = pr[p].files
      /\ r.ofile = pr[p].ofile
  <2>1. "close" \in Pcs
    BY DEF Pcs
  <2>2. QED  BY ZenonT(60), <1>1, <1>2, <2>1 DEF Process
<1> HIDE DEF r
<1>5. Keeps(pr[p], r)
  BY <1>4 DEF Keeps, KeptBy
<1>6. FileInv' /\ FilesTyped(ftable', pipes')
  <2>1. r.pc \notin {"file", "page"} /\ View(pr[p].ff, r.ff) /\ UNCHANGED fileVars
    BY <1>2, <1>4 DEF View
  <2>2. QED  BY <1>3, <1>5, <2>1, SameRefs
<1>7. Control(r)
  <2>1. \A n \in {1, 2} : n <= 2
    OBVIOUS
  <2>2. Len(r.files) <= 2
    BY <1>2, <1>4, <2>1
  <2>3. QED  BY <1>1, <1>2, <1>4, <2>2 DEF Control
<1>8. Room(mm, r)
  BY <1>1, <1>2, <1>4 DEF Room, Space
<1>9. DOMAIN pipes' = DOMAIN pipes /\ mm' = mm
  BY DEF fileVars
<1>10. QED  BY <1>2, <1>3, <1>4, <1>6, <1>7, <1>8, <1>9, FileStill

\* A sequence with another element.
LEMMA Appended ==
  ASSUME NEW F, NEW s \in Seq(F), NEW f \in F
  PROVE  /\ Append(s, f) \in Seq(F) /\ Len(Append(s, f)) = Len(s) + 1
         /\ \A i \in 1 .. Len(s) : Append(s, f)[i] = s[i]
         /\ \A n : n = Len(s) + 1 => Append(s, f)[n] = f
  BY AppendProperties

\* A list of one file and one more.
LEMMA TwoFiles ==
  ASSUME NEW s \in Seq(FileIds), Len(s) = 1, NEW f \in FileIds
  PROVE  /\ Append(s, f) \in Seq(FileIds) /\ Len(Append(s, f)) = 2
         /\ Append(s, f)[1] = s[1] /\ Append(s, f)[2] = f /\ s[1] \in FileIds
         /\ DOMAIN Append(s, f) = {1, 2}
<1>1. \A t \in Seq(FileIds) :
        /\ Append(t, f) \in Seq(FileIds) /\ Len(Append(t, f)) = Len(t) + 1
        /\ \A i \in 1 .. Len(t) : Append(t, f)[i] = t[i]
        /\ \A n : n = Len(t) + 1 => Append(t, f)[n] = f
  BY Appended
<1>2. 1 \in 1 .. Len(s) /\ 2 = Len(s) + 1 /\ 1 .. 2 = {1, 2}
  OBVIOUS
<1>3. s[1] \in FileIds
  BY <1>2, ElementOfSeq
<1>4. Append(s, f) \in Seq(FileIds)
  BY <1>1
<1>5. Len(Append(s, f)) = 2
  BY <1>1, <1>2
<1>6. Append(s, f)[1] = s[1]
  BY <1>1, <1>2
<1>7. Append(s, f)[2] = f
  BY <1>1, <1>2
<1>8. DOMAIN Append(s, f) = 1 .. 2
  BY <1>4, <1>5
<1>9. QED  BY <1>2, <1>3, <1>4, <1>5, <1>6, <1>7, <1>8

\* pipealloc() takes the second file, or gives the first one back.
LEMMA PipeFileStep ==
  ASSUME Inv, NEW p \in Procs, PipeFile(p)
  PROVE  Inv'
<1> DEFINE f == filealloc(ftable)
           r == [pr[p] EXCEPT !.pc = "page", !.files = Append(@, f)]
<1>1. /\ pr \in [Procs -> Process] /\ pr[p] \in Process /\ Control(pr[p])
      /\ Room(mm, pr[p]) /\ panicked = FALSE /\ calls \in Nat
  BY OfProcess
<1>2. /\ pr[p].state = "RUNNING" /\ pr[p].pc = "file" /\ pr[p].call = "none"
      /\ pr[p].np = 0 /\ pr[p].nd = NoPage /\ pr[p].pgdir # NoPage
      /\ Len(pr[p].files) = 1 /\ pr[p].ff = NoFile /\ pr[p].files \in Seq(FileIds)
  BY <1>1 DEF PipeFile, Control, Process
<1>3. /\ UNCHANGED <<mm, pipes>> /\ calls' \in Nat /\ panicked' = FALSE
  BY <1>1 DEF PipeFile
<1>4. CASE f = None
  <2>1. pr' = [pr EXCEPT ![p].pc = "close"] /\ UNCHANGED ftable
    BY <1>4 DEF PipeFile
  <2>2. UNCHANGED <<mm, fileVars>>
    BY <1>3, <2>1 DEF fileVars
  <2>3. QED  BY <1>2, <1>3, <2>1, <2>2, PipeFails
<1>5. CASE f # None
  <2>1. /\ ftable' = Allocated(ftable)
        /\ pr' = [pr EXCEPT ![p].pc = "page", ![p].files = Append(@, f)]
    BY <1>5 DEF PipeFile
  <2>2. ftable \in [FileIds -> File] /\ Shut(ftable) /\ Fresh(ftable, pr)
    BY InvFiles
  <2>3. /\ f \in FileIds /\ ftable[f].ref = 0 /\ ftable[f].type = "NONE"
        /\ Allocated(ftable) \in [FileIds -> File]
        /\ Allocated(ftable)[f] = [ftable[f] EXCEPT !.ref = 1]
        /\ \A g \in FileIds : g # f => Allocated(ftable)[g] = ftable[g]
    BY <1>5, <2>2, AllocIs DEF Shut
  <2>4. Becomes(pr, pr', p, r)
    BY <1>1, <2>1 DEF Becomes
  <2> HIDE DEF f
  <2>5. /\ ftable' \in [FileIds -> File] /\ ftable'[f].ref = 1 /\ ftable'[f].type = "NONE"
        /\ \A g \in FileIds : g # f => ftable'[g] = ftable[g]
    BY <2>1, <2>2, <2>3 DEF File
  <2>6. /\ Append(pr[p].files, f) \in Seq(FileIds) /\ Len(Append(pr[p].files, f)) = 2
        /\ Append(pr[p].files, f)[1] = pr[p].files[1] /\ Append(pr[p].files, f)[2] = f
        /\ pr[p].files[1] \in FileIds /\ DOMAIN Append(pr[p].files, f) = {1, 2}
    BY <1>2, <2>3, TwoFiles
  <2>7. /\ r \in Process /\ r.pc = "page" /\ r.call = "none"
        /\ r.state = "RUNNING" /\ r.np = 0 /\ r.nd = NoPage
        /\ r.sz = pr[p].sz /\ r.cr3 = pr[p].cr3 /\ r.kstack = pr[p].kstack
        /\ r.pgdir = pr[p].pgdir /\ r.ff = NoFile /\ r.files = Append(pr[p].files, f)
        /\ r.ofile = pr[p].ofile
    <3>1. "page" \in Pcs
      BY DEF Pcs
    <3>2. QED  BY ZenonT(60), <1>1, <1>2, <2>6, <3>1 DEF Process
  <2> HIDE DEF r
  <2>8. ftable[pr[p].files[1]].ref = 1 /\ ftable[pr[p].files[1]].type = "NONE"
    <3>1. 1 \in DOMAIN pr[p].files
      BY <1>2
    <3>2. QED  BY <1>2, <2>2, <3>1 DEF Fresh
  <2>9. r.files[1] # r.files[2]
    BY <2>3, <2>6, <2>7, <2>8
  <2>10. NOFILE + 1 \in Places /\ KeptBy(pr[p], NOFILE + 1) = None
         /\ Changes(pr[p], r, NOFILE + 1, f)
    <3>1. /\ \A y \in Fds : KeptBy(pr[p], y) = pr[p].ofile[y]
          /\ KeptBy(pr[p], NOFILE) = pr[p].files[1] /\ KeptBy(pr[p], NOFILE + 1) = None
      BY <1>1, <1>2, KeptIs
    <3>2. Len(r.files) = 2
      BY <2>6, <2>7
    <3>3. /\ \A y \in Fds : KeptBy(r, y) = r.ofile[y]
          /\ KeptBy(r, NOFILE) = r.files[1] /\ KeptBy(r, NOFILE + 1) = r.files[2]
      BY <2>7, <3>2, KeptIs
    <3>4. QED  BY <2>6, <2>7, <3>1, <3>3, PlacesAre DEF Changes
  <2>11. FreshOwn(ftable', r)
    <3>1. \A k \in DOMAIN r.files : ftable'[r.files[k]].ref = 1 /\ ftable'[r.files[k]].type = "NONE"
      BY <2>5, <2>6, <2>7, <2>8, <2>9
    <3>2. QED  BY <3>1 DEF FreshOwn
  <2>12. FileInv' /\ FilesTyped(ftable', pipes')
    <3> DEFINE x == NOFILE + 1
    <3>1. ftable'[f].type # "PIPE"
      BY <2>5
    <3>2. x \in Places /\ KeptBy(pr[p], x) = None /\ Changes(pr[p], r, x, f)
      BY <2>10
    <3> HIDE DEF x
    <3>3. QED  BY <1>2, <1>3, <2>3, <2>4, <2>5, <2>7, <2>11, <3>1, <3>2, GetsFile
  <2>13. Control(r)
    BY <1>1, <1>2, <2>6, <2>7, <2>9 DEF Control
  <2>14. Room(mm, r)
    BY <1>1, <1>2, <2>7 DEF Room, Space
  <2>15. QED  BY <1>2, <1>3, <2>4, <2>7, <2>12, <2>13, <2>14, FileStill
<1>6. QED  BY <1>4, <1>5

\* What file f stood for, the copy of p stands for.
LEMMA EndsCopied ==
  ASSUME Inv, NEW p \in Procs, NEW r, Becomes(pr, pr', p, r), pr[p].ff = NoFile,
         NEW f \in FileIds, r.ff = ftable[f], NEW t, t[f].type # "PIPE",
         \A g \in FileIds : g # f => t[g] = ftable[g]
  PROVE  Ended(Ends(t, pr'), pipes)
<1> DEFINE E == Ends(ftable, pr)
           D == Ends(t, pr')
<1>1. Ended(E, pipes)
  BY InvFiles
<1>2. PICK j \in EndIds : /\ j = NFILE + p /\ ~(j <= NFILE) /\ j - NFILE = p
                         /\ j \notin FileIds
  <2>1. NFILE + p \in EndIds
    BY EndIs
  <2>2. PICK j \in EndIds : j = NFILE + p
    BY <2>1
  <2>3. ~(j <= NFILE) /\ j - NFILE = p /\ j \notin FileIds
    BY <2>2, ResourcesAssumption DEF Procs, FileIds
  <2>4. QED  BY <2>2, <2>3
<1>3. f \in EndIds /\ f <= NFILE /\ f # j
  BY <1>2, EndIs
<1>4. \A e \in EndIds : E[e] = IF e <= NFILE THEN ftable[e] ELSE pr[e - NFILE].ff
  BY DEF Ends
<1>5. ASSUME NEW e \in EndIds
      PROVE  D[e] = IF e = j THEN r.ff ELSE IF e <= NFILE THEN t[e] ELSE pr[e - NFILE].ff
  <2>1. D[e] = EndThen(t, pr, p, r, e)
    BY EndsAfter
  <2>2. QED  BY <1>2, <2>1 DEF EndThen
<1> HIDE DEF E, D
<1>6. E[j].type # "PIPE" /\ D[f].type # "PIPE" /\ View(E[f], D[j])
  BY <1>2, <1>3, <1>4, <1>5 DEF View, NoFile
<1>7. ASSUME NEW e \in EndIds, e # f, e # j PROVE View(E[e], D[e])
  <2>1. e <= NFILE => e \in FileIds
    BY EndIs
  <2>2. QED  BY <1>4, <1>5, <1>7, <2>1 DEF View
<1>8. Ended(D, pipes)
  BY <1>1, <1>3, <1>6, <1>7, EndedMove
<1>9. QED  BY <1>8 DEF D

\* fileclose() drops the reference that p has at place x.
LEMMA DropsFile ==
  ASSUME Inv, NEW p \in Procs, NEW r, Becomes(pr, pr', p, r), pr[p].ff = NoFile,
         r.pc \notin {"file", "page"}, NEW f \in FileIds,
         NEW x \in Places, KeptBy(pr[p], x) = f, ftable' = Dropped(ftable, f),
         r.ff = IF ftable[f].ref = 1 THEN ftable[f] ELSE NoFile,
         Counted(ftable', Refs(pr')), pipes' = pipes
  PROVE  FileInv' /\ FilesTyped(ftable', pipes')
<1>1. /\ ftable \in [FileIds -> File] /\ Refs(pr) \in Marks /\ Counted(ftable, Refs(pr))
      /\ Shut(ftable) /\ FilesTyped(ftable, pipes) /\ Ended(Ends(ftable, pr), pipes)
  BY InvFiles
<1>2. ftable[f].ref \in Nat \ {0}
  <2>1. <<p, x>> \in Cells /\ Refs(pr)[<<p, x>>] = f
    BY CellOf
  <2>2. QED  BY <1>1, <2>1, Referred
<1>3. /\ ftable' \in [FileIds -> File] /\ ftable'[f].ref = ftable[f].ref - 1
      /\ ftable'[f].type = (IF ftable[f].ref = 1 THEN "NONE" ELSE ftable[f].type)
      /\ ftable'[f].pipe = ftable[f].pipe /\ ftable'[f].writable = ftable[f].writable
      /\ \A g \in FileIds : g # f => ftable'[g] = ftable[g]
  BY <1>1, <1>2 DEF Dropped, File
<1>4. Shut(ftable')
  BY <1>1, <1>2, <1>3 DEF Shut
<1>5. Fresh(ftable', pr')
  <2>1. FreshOthers(ftable', p)
    BY <1>3, TouchesOne
  <2>2. FreshOwn(ftable', r)
    BY DEF FreshOwn
  <2>3. QED  BY <2>1, <2>2, StaysFresh
<1>6. Ended(Ends(ftable', pr'), pipes)
  <2>1. CASE ftable[f].ref # 1
    <3>1. View(pr[p].ff, r.ff) /\ \A g \in FileIds : View(ftable[g], ftable'[g])
      BY <1>3, <2>1 DEF View
    <3>2. QED  BY <3>1, SameEnds
  <2>2. CASE ftable[f].ref = 1
    <3>1. r.ff = ftable[f] /\ ftable'[f].type # "PIPE"
      BY <1>3, <2>2
    <3>2. QED  BY <1>3, <3>1, EndsCopied
  <2>3. QED  BY <2>1, <2>2
<1>7. FileInv'
  BY <1>4, <1>5, <1>6 DEF FileInv
<1>8. QED  BY <1>1, <1>3, <1>7 DEF FilesTyped

\* The first of two references goes, and the second one takes its place.
LEMMA CountedShift ==
  ASSUME NEW t, NEW K \in Marks, Counted(t, K), NEW c \in Cells, NEW e \in Cells, c # e,
         NEW f \in FileIds, K[c] = f, NEW g \in FileIds, K[e] = g,
         NEW s, s[f].ref = t[f].ref - 1,
         \A h \in FileIds : h # f => s[h].ref = t[h].ref
  PROVE  Counted(s, Marked(Marked(K, e, None), c, g))
<1> DEFINE L == Marked(K, c, None)
<1>1. L \in Marks /\ L[c] = None /\ L[e] = g
  BY DEF Marked, Marks
<1>2. Counted(s, L)
  BY CountedLess
<1>3. Marked(Marked(L, e, None), c, g) = Marked(Marked(K, e, None), c, g)
  BY DEF Marked, Marks
<1> HIDE DEF L
<1>4. Counted(s, Marked(Marked(L, e, None), c, g))
  BY <1>1, <1>2, CountedMove
<1>5. QED  BY <1>3, <1>4

\* A list of one or two files.
LEMMA OneOrTwo ==
  ASSUME NEW s \in Seq(FileIds), s # <<>>, Len(s) <= 2
  PROVE  /\ Head(s) \in FileIds /\ Head(s) = s[1] /\ Len(s) \in {1, 2}
         /\ Tail(s) \in Seq(FileIds) /\ Len(Tail(s)) = Len(s) - 1
         /\ Len(s) = 2 => Tail(s)[1] = s[2] /\ s[2] \in FileIds
<1>1. /\ Head(s) \in FileIds /\ Tail(s) \in Seq(FileIds) /\ Len(Tail(s)) = Len(s) - 1
      /\ \A i \in 1 .. Len(Tail(s)) : Tail(s)[i] = s[i + 1]
  BY HeadTailProperties
<1>2. Head(s) = s[1]
  OBVIOUS
<1>3. Len(s) \in Nat /\ Len(s) # 0
  BY EmptySeq, LenProperties
<1>4. Len(s) = 1 \/ Len(s) = 2
  <2>1. \A n \in Nat : n # 0 /\ n <= 2 => n = 1 \/ n = 2
    OBVIOUS
  <2>2. QED  BY <1>3, <2>1
<1>5. ASSUME Len(s) = 2 PROVE Tail(s)[1] = s[2] /\ s[2] \in FileIds
  <2>1. /\ \A n : n = 2 => 2 \in 1 .. n /\ 1 \in 1 .. n - 1
        /\ 1 + 1 = 2
    OBVIOUS
  <2>2. 2 \in 1 .. Len(s) /\ 1 \in 1 .. Len(s) - 1
    BY <1>5, <2>1
  <2>3. s[2] \in FileIds
    BY <2>2, ElementOfSeq
  <2>4. Tail(s)[1] = s[1 + 1]
    BY <1>1, <2>2
  <2>5. QED  BY <2>1, <2>3, <2>4
<1>6. QED  BY <1>1, <1>2, <1>4, <1>5

\* fileclose() under the lock: the last reference leaves a copy.
LEMMA FileCloseStep ==
  ASSUME Inv, NEW p \in Procs, FileClose(p)
  PROVE  Inv'
<1> DEFINE s == pr[p].files
           f == Head(s)
           copy == IF ftable[f].ref = 1 THEN ftable[f] ELSE NoFile
           r == [pr[p] EXCEPT !.files = Tail(@), !.pc = "ff", !.ff = copy]
<1>1. /\ pr \in [Procs -> Process] /\ pr[p] \in Process /\ Control(pr[p])
      /\ Room(mm, pr[p]) /\ panicked = FALSE /\ calls \in Nat
  BY OfProcess
<1>2. pr[p].pc = "close" /\ s # <<>>
  BY DEF FileClose
<1>3. /\ pr[p].state = "RUNNING" /\ pr[p].call \in {"none", "exit"}
      /\ pr[p].np = 0 /\ pr[p].nd = NoPage /\ pr[p].pgdir # NoPage
      /\ pr[p].ff = NoFile /\ s \in Seq(FileIds) /\ Len(s) <= 2
  BY <1>1, <1>2 DEF Control, Process
<1>4. /\ UNCHANGED <<mm, pipes>> /\ calls' \in Nat /\ panicked' = FALSE
      /\ ftable' = Dropped(ftable, f)
      /\ pr' = [pr EXCEPT ![p].files = Tail(@), ![p].pc = "ff", ![p].ff = copy]
  BY <1>1 DEF FileClose
<1>5. Becomes(pr, pr', p, r)
  BY <1>1, <1>4 DEF Becomes
<1>6. /\ f \in FileIds /\ f = s[1] /\ Len(s) \in {1, 2} /\ Tail(s) \in Seq(FileIds)
      /\ Len(Tail(s)) = Len(s) - 1 /\ (Len(s) = 2 => Tail(s)[1] = s[2] /\ s[2] \in FileIds)
  BY <1>2, <1>3, OneOrTwo
<1>7. ftable \in [FileIds -> File] /\ Refs(pr) \in Marks /\ Counted(ftable, Refs(pr))
  BY InvFiles
<1>8. copy \in File
  <2>1. NoFile \in File
    BY DEF NoFile, File
  <2>2. QED  BY <1>6, <1>7, <2>1
<1> HIDE DEF copy, s, f
<1>9. /\ r \in Process /\ r.pc = "ff" /\ r.call = pr[p].call
      /\ r.state = "RUNNING" /\ r.np = 0 /\ r.nd = NoPage
      /\ r.sz = pr[p].sz /\ r.cr3 = pr[p].cr3 /\ r.kstack = pr[p].kstack
      /\ r.pgdir = pr[p].pgdir /\ r.ff = copy /\ r.files = Tail(s) /\ r.ofile = pr[p].ofile
  <2>1. "ff" \in Pcs
    BY DEF Pcs
  <2>2. pr[p].files = s
    BY DEF s
  <2>3. QED  BY ZenonT(60), <1>1, <1>3, <1>6, <1>8, <2>1, <2>2 DEF Process
<1> HIDE DEF r
<1>10. /\ \A y \in Fds : KeptBy(pr[p], y) = pr[p].ofile[y] /\ KeptBy(r, y) = pr[p].ofile[y]
       /\ KeptBy(pr[p], NOFILE) = f
       /\ Len(s) = 1 => /\ KeptBy(pr[p], NOFILE + 1) = None /\ KeptBy(r, NOFILE) = None
                        /\ KeptBy(r, NOFILE + 1) = None
       /\ Len(s) = 2 => /\ KeptBy(pr[p], NOFILE + 1) = s[2] /\ KeptBy(r, NOFILE) = s[2]
                        /\ KeptBy(r, NOFILE + 1) = None
  <2>1. pr[p].files = s
    BY DEF s
  <2>2. Len(s) = 1 => Len(Tail(s)) = 0
    BY <1>6
  <2>3. Len(s) = 2 => Len(Tail(s)) = 1
    BY <1>6
  <2>4. CASE Len(s) = 1
    BY <1>1, <1>6, <1>9, <2>1, <2>2, <2>4, KeptIs
  <2>5. CASE Len(s) = 2
    BY ZenonT(60), <1>1, <1>6, <1>9, <2>1, <2>3, <2>5, KeptIs
  <2>6. QED  BY <1>6, <2>4, <2>5
<1>11. /\ NOFILE \in Places /\ <<p, NOFILE>> \in Cells /\ Refs(pr)[<<p, NOFILE>>] = f
  <2>1. NOFILE \in Places
    BY PlacesAre
  <2>2. KeptBy(pr[p], NOFILE) = f
    BY <1>10
  <2>3. QED  BY <2>1, <2>2, CellOf
<1>12. ftable'[f].ref = ftable[f].ref - 1 /\ \A g \in FileIds : g # f => ftable'[g].ref = ftable[g].ref
  BY <1>4, <1>6, <1>7 DEF Dropped, File
<1>13. Counted(ftable', Refs(pr'))
  <2>1. CASE Len(s) = 1
    <3>1. Changes(pr[p], r, NOFILE, None)
      BY <1>10, <2>1, PlacesAre DEF Changes
    <3>2. Refs(pr') = Marked(Refs(pr), <<p, NOFILE>>, None)
      <4>1. \A P, Q : Becomes(P, Q, p, r) /\ Changes(P[p], r, NOFILE, None) =>
                      Refs(Q) = Marked(Refs(P), <<p, NOFILE>>, None)
        BY <1>11, RefsSet
      <4>2. QED  BY <1>5, <3>1, <4>1
    <3>3. QED  BY <1>6, <1>7, <1>11, <1>12, <3>2, CountedLess
  <2>2. CASE Len(s) = 2
    <3> DEFINE y == NOFILE + 1
               g == s[2]
    <3>1. y \in Places /\ KeptBy(pr[p], y) = g /\ g \in FileIds /\ y # NOFILE
      BY <1>6, <1>10, <2>2, PlacesAre
    <3>2. ChangesTwo(pr[p], r, y, None, NOFILE, g)
      BY <1>10, <2>2, PlacesAre DEF ChangesTwo
    <3> HIDE DEF y, g
    <3>3. <<p, y>> \in Cells /\ Refs(pr)[<<p, y>>] = g /\ <<p, NOFILE>> # <<p, y>>
      BY <3>1, CellOf
    <3>4. Refs(pr') = Marked(Marked(Refs(pr), <<p, y>>, None), <<p, NOFILE>>, g)
      <4>1. \A P, Q : Becomes(P, Q, p, r) /\ ChangesTwo(P[p], r, y, None, NOFILE, g) =>
              Refs(Q) = Marked(Marked(Refs(P), <<p, y>>, None), <<p, NOFILE>>, g)
        BY <1>11, <3>1, RefsTwo
      <4>2. QED  BY <1>5, <3>2, <4>1
    <3>5. QED  BY <1>6, <1>7, <1>11, <1>12, <3>1, <3>3, <3>4, CountedShift
  <2>3. QED  BY <1>6, <2>1, <2>2
<1>14. FileInv' /\ FilesTyped(ftable', pipes')
  <2>1. r.pc \notin {"file", "page"} /\ pipes' = pipes
        /\ r.ff = IF ftable[f].ref = 1 THEN ftable[f] ELSE NoFile
    BY <1>4, <1>9 DEF copy
  <2>2. QED  BY <1>3, <1>4, <1>5, <1>6, <1>10, <1>11, <1>13, <2>1, DropsFile
<1>15. Control(r)
  <2>1. Len(r.files) <= 2
    BY <1>6, <1>9
  <2>2. QED  BY <1>1, <1>2, <1>3, <1>9, <2>1 DEF Control
<1>16. Room(mm, r)
  BY <1>1, <1>2, <1>3, <1>9 DEF Room, Space
<1>17. QED  BY <1>3, <1>4, <1>5, <1>9, <1>14, <1>15, <1>16, FileStill

\* The copy of p no longer stands for an end, which is closed.
LEMMA EndClosed ==
  ASSUME Inv, NEW p \in Procs, NEW r, Becomes(pr, pr', p, r), pr[p].ff.type = "PIPE",
         r.ff = NoFile, NEW ro, DOMAIN ro \subseteq DOMAIN pipes,
         \A g \in DOMAIN ro : ro[g] = IF g = pr[p].ff.pipe
                                      THEN pipes[g] \ {pr[p].ff.writable} ELSE pipes[g],
         \A g \in DOMAIN pipes : g \notin DOMAIN ro =>
           g = pr[p].ff.pipe /\ pipes[g] \ {pr[p].ff.writable} = {}
  PROVE  Ended(Ends(ftable, pr'), ro)
<1> DEFINE E == Ends(ftable, pr)
           D == Ends(ftable, pr')
<1>1. Ended(E, pipes)
  BY InvFiles
<1>2. PICK j \in EndIds : j = NFILE + p /\ ~(j <= NFILE) /\ j - NFILE = p
  <2>1. NFILE + p \in EndIds
    BY EndIs
  <2>2. PICK j \in EndIds : j = NFILE + p
    BY <2>1
  <2>3. ~(j <= NFILE) /\ j - NFILE = p
    BY <2>2, ResourcesAssumption DEF Procs
  <2>4. QED  BY <2>2, <2>3
<1>3. \A e \in EndIds : E[e] = IF e <= NFILE THEN ftable[e] ELSE pr[e - NFILE].ff
  BY DEF Ends
<1>4. ASSUME NEW e \in EndIds
      PROVE  D[e] = IF e = j THEN r.ff ELSE IF e <= NFILE THEN ftable[e] ELSE pr[e - NFILE].ff
  <2>1. D[e] = EndThen(ftable, pr, p, r, e)
    BY EndsAfter
  <2>2. QED  BY <1>2, <2>1 DEF EndThen
<1> HIDE DEF E, D
<1>5. E[j] = pr[p].ff
  BY <1>2, <1>3
<1>6. E[j].type = "PIPE" /\ D[j].type # "PIPE"
  BY <1>4, <1>5 DEF NoFile
<1>7. ASSUME NEW e \in EndIds, e # j PROVE View(E[e], D[e])
  BY <1>3, <1>4, <1>7 DEF View
<1>8. /\ \A g \in DOMAIN ro :
           ro[g] = IF g = E[j].pipe THEN pipes[g] \ {E[j].writable} ELSE pipes[g]
      /\ \A g \in DOMAIN pipes : g \notin DOMAIN ro =>
           g = E[j].pipe /\ pipes[g] \ {E[j].writable} = {}
  BY <1>5
<1>9. Ended(D, ro)
  BY <1>1, <1>6, <1>7, <1>8, EndedLess
<1>10. QED  BY <1>9 DEF D

\* fileclose() after the lock: pipeclose() of the copy.
LEMMA FileCloseRestStep ==
  ASSUME Inv, NEW p \in Procs, FileCloseRest(p)
  PROVE  Inv'
<1> DEFINE r == [pr[p] EXCEPT !.pc = "close", !.ff = NoFile]
           page == pr[p].ff.pipe
           wr == pr[p].ff.writable
           left == pipes[page] \ {wr}
<1>1. /\ pr \in [Procs -> Process] /\ pr[p] \in Process /\ Control(pr[p])
      /\ Room(mm, pr[p]) /\ panicked = FALSE /\ calls \in Nat
  BY OfProcess
<1>2. pr[p].pc = "ff"
  BY DEF FileCloseRest
<1>3. /\ pr[p].state = "RUNNING" /\ pr[p].call \in {"none", "exit"}
      /\ pr[p].np = 0 /\ pr[p].nd = NoPage /\ pr[p].pgdir # NoPage
      /\ Len(pr[p].files) <= 2
  BY <1>1, <1>2 DEF Control
<1>4. /\ UNCHANGED <<ftable, calls, panicked>>
      /\ pr' = [pr EXCEPT ![p].pc = "close", ![p].ff = NoFile]
  BY DEF FileCloseRest
<1>5. Becomes(pr, pr', p, r)
  BY <1>1, <1>4 DEF Becomes
<1>6. /\ r \in Process /\ r.pc = "close" /\ r.call = pr[p].call
      /\ r.state = "RUNNING" /\ r.np = 0 /\ r.nd = NoPage
      /\ r.sz = pr[p].sz /\ r.cr3 = pr[p].cr3 /\ r.kstack = pr[p].kstack
      /\ r.pgdir = pr[p].pgdir /\ r.ff = NoFile /\ r.files = pr[p].files
      /\ r.ofile = pr[p].ofile
  <2>1. "close" \in Pcs /\ NoFile \in File
    BY DEF Pcs, NoFile, File
  <2>2. QED  BY ZenonT(60), <1>1, <1>3, <2>1 DEF Process
<1> HIDE DEF r
<1>7. Keeps(pr[p], r)
  BY <1>6 DEF Keeps, KeptBy
<1>8. Control(r)
  BY <1>1, <1>2, <1>3, <1>6 DEF Control
<1>9. Room(mm, r)
  BY <1>1, <1>2, <1>3, <1>6 DEF Room, Space
<1>10. CASE pr[p].ff.type # "PIPE"
  <2>1. UNCHANGED <<mm, pipes>>
    BY <1>10 DEF FileCloseRest
  <2>2. View(pr[p].ff, r.ff)
    <3>1. NoFile.type # "PIPE"
      BY DEF NoFile
    <3>2. QED  BY <1>6, <1>10, <3>1, Zenon DEF View
  <2>21. r.pc \notin {"file", "page"} /\ UNCHANGED fileVars
    BY <1>4, <1>6, <2>1 DEF fileVars
  <2>3. FileInv' /\ FilesTyped(ftable', pipes')
    BY <1>5, <1>7, <2>2, <2>21, SameRefs
  <2>4. DOMAIN pipes' = DOMAIN pipes /\ mm' = mm /\ calls' \in Nat /\ panicked' = FALSE
    BY <1>1, <1>4, <2>1
  <2>5. QED  BY <1>3, <1>5, <1>6, <1>8, <1>9, <2>3, <2>4, FileStill
<1>11. CASE pr[p].ff.type = "PIPE"
  <2>1. /\ Refs(pr) \in Marks /\ Counted(ftable, Refs(pr)) /\ Shut(ftable)
        /\ FilesTyped(ftable, pipes) /\ Ended(Ends(ftable, pr), pipes)
    BY InvFiles
  <2>2. page \in DOMAIN pipes
    <3>1. PICK j \in EndIds : j = NFILE + p
      <4>1. NFILE + p \in EndIds
        BY EndIs
      <4>2. QED  BY <4>1
    <3>2. ~(j <= NFILE) /\ j - NFILE = p
      BY <3>1, ResourcesAssumption DEF Procs
    <3>3. Ends(ftable, pr)[j] = pr[p].ff
      BY <3>2 DEF Ends
    <3>4. QED  BY <1>11, <2>1, <3>3 DEF Ended
  <2>3. page \in Pages
    BY <2>1, <2>2 DEF FilesTyped
  <2>4. \/ left = {} /\ pipes' = Restrict(pipes, DOMAIN pipes \ {page}) /\ mm' = kfree(mm, {page})
        \/ left # {} /\ pipes' = [pipes EXCEPT ![page] = left] /\ mm' = mm
    BY <1>11 DEF FileCloseRest
  <2> HIDE DEF page, wr
  <2>5. /\ DOMAIN pipes' \subseteq DOMAIN pipes
        /\ \A g \in DOMAIN pipes' : pipes'[g] = IF g = page THEN pipes[g] \ {wr} ELSE pipes[g]
        /\ \A g \in DOMAIN pipes : g \notin DOMAIN pipes' => g = page /\ pipes[g] \ {wr} = {}
        /\ pipes' = [g \in DOMAIN pipes' |-> pipes'[g]]
    <3>1. CASE left = {}
      BY <2>4, <3>1 DEF Restrict
    <3>2. CASE left # {}
      BY <2>1, <2>2, <2>4, <3>2 DEF FilesTyped
    <3>3. QED  BY <3>1, <3>2
  <2>6. FilesTyped(ftable', pipes')
    BY <1>4, <2>1, <2>5 DEF FilesTyped
  <2>7. Refs(pr') = Refs(pr)
    BY <1>5, <1>7, RefsSame
  <2>8. Fresh(ftable, pr')
    <3>1. FreshOthers(ftable, p) /\ FreshOwn(ftable, r)
      BY <1>6 DEF FreshOthers, FreshOwn
    <3>2. QED  BY <1>5, <3>1, StaysFresh
  <2>9. Ended(Ends(ftable, pr'), pipes')
    <3>1. \A ro : /\ DOMAIN ro \subseteq DOMAIN pipes
                  /\ \A g \in DOMAIN ro : ro[g] = IF g = page THEN pipes[g] \ {wr} ELSE pipes[g]
                  /\ \A g \in DOMAIN pipes : g \notin DOMAIN ro =>
                       g = page /\ pipes[g] \ {wr} = {}
                  => Ended(Ends(ftable, pr'), ro)
      BY <1>5, <1>6, <1>11, EndClosed DEF page, wr
    <3>2. QED  BY <2>5, <3>1
  <2>10. FileInv'
    BY <1>4, <2>1, <2>7, <2>8, <2>9 DEF FileInv
  <2>11. PICK o : Heap(mm, o, pr, DOMAIN pipes, {})
    BY DEF Inv, HeapInv
  <2>12. mm'.dirs = mm.dirs /\ \E u : Heap(mm', u, pr, DOMAIN pipes', {})
    <3>1. CASE left = {}
      <4>1. DOMAIN pipes' = DOMAIN pipes \ {page} /\ mm' = kfree(mm, {page})
        BY <2>4, <3>1 DEF Restrict
      <4>2. \A n : n = kfree(mm, {page}) =>
              n.dirs = mm.dirs /\ \E u : Heap(n, u, pr, DOMAIN pipes \ {page}, {})
        BY <2>2, <2>3, <2>11, HeapRingFreed
      <4>3. QED  BY <4>1, <4>2
    <3>2. CASE left # {}
      BY <2>4, <2>11, <3>2
    <3>3. QED  BY <3>1, <3>2
  <2>13. \E u : Heap(mm', u, pr, DOMAIN pipes', {})
    BY <2>12
  <2>14. PICK u : Heap(mm', u, pr, DOMAIN pipes', {})
    BY <2>13
  <2>15. Controlled(pr')
    <3>1. pr \in [Procs -> Process] /\ Controlled(pr) /\ r.np = pr[p].np
          /\ (r.np # 0 => Child(r, pr[r.np]))
      BY <1>3, <1>6 DEF Inv, TypeOK
    <3>2. QED  BY <1>3, <1>5, <1>8, <3>1, ControlAlone
  <2>16. Files(p, r)
    BY <1>3, <1>5, <1>6, <1>9, <2>6, <2>12, <2>15 DEF Files
  <2>17. calls' \in Nat /\ panicked' = FALSE
    BY <1>1, <1>4
  <2>18. QED  BY <2>10, <2>14, <2>16, <2>17, FileSolo
<1>12. QED  BY <1>10, <1>11

\* The two lowest descriptors that are not in use.
LEMMA FreeTwo ==
  ASSUME NEW p \in Procs, ~(Cardinality(FreeFds(p)) < 2)
  PROVE  /\ FreeFds(p) # {} /\ FreeFds(p) \ {Min(FreeFds(p))} # {}
         /\ Min(FreeFds(p) \ {Min(FreeFds(p))}) \in Fds
         /\ Min(FreeFds(p) \ {Min(FreeFds(p))}) # Min(FreeFds(p))
         /\ pr[p].ofile[Min(FreeFds(p) \ {Min(FreeFds(p))})] = None
<1> DEFINE S == FreeFds(p)
           a == Min(S)
           T == S \ {a}
<1>1. S \in SUBSET Nat /\ S \subseteq Fds /\ \A d \in S : pr[p].ofile[d] = None
  BY PlacesAre DEF FreeFds
<1>2. ~(Cardinality(S) < 2)
  OBVIOUS
<1> HIDE DEF S
<1>3. S # {}
  BY <1>2, FS_EmptySet
<1>4. a \in S
  BY <1>1, <1>3, LeastExists
<1> HIDE DEF a
<1>5. S # {a}
  BY <1>2, FS_Singleton
<1>6. T \in SUBSET Nat /\ T # {}
  BY <1>1, <1>4, <1>5
<1>7. Min(T) \in T
  BY <1>6, LeastExists
<1>8. QED  BY <1>1, <1>3, <1>6, <1>7 DEF S, a

\* A reference of p moves from place x to place y.
LEMMA RefMoved ==
  ASSUME NEW P \in [Procs -> Process], NEW Q, NEW p \in Procs, NEW r, Becomes(P, Q, p, r),
         NEW t, Counted(t, Refs(P)), NEW f \in FileIds,
         NEW x \in Places, KeptBy(P[p], x) = f, NEW y \in Places, KeptBy(P[p], y) = None,
         ChangesTwo(P[p], r, x, None, y, f)
  PROVE  Counted(t, Refs(Q))
<1>1. Refs(P) \in Marks
  BY RefsTyped
<1>2. Refs(Q) = Marked(Marked(Refs(P), <<p, x>>, None), <<p, y>>, f)
  BY RefsTwo
<1>3. /\ <<p, x>> \in Cells /\ Refs(P)[<<p, x>>] = f
      /\ <<p, y>> \in Cells /\ Refs(P)[<<p, y>>] = None
  BY CellOf
<1>4. QED  BY <1>1, <1>2, <1>3, CountedMove

\* The two files of pipealloc() are the ends of a new pipe.
LEMMA EndsOpened ==
  ASSUME Inv, NEW p \in Procs, NEW r, Becomes(pr, pr', p, r), r.ff = pr[p].ff,
         NEW f \in FileIds, NEW g \in FileIds, f # g,
         ftable[f].type # "PIPE", ftable[g].type # "PIPE",
         NEW t, NEW page, page \notin DOMAIN pipes,
         Stands(t[f], page, FALSE), Stands(t[g], page, TRUE),
         \A h \in FileIds : h # f /\ h # g => t[h] = ftable[h]
  PROVE  Ended(Ends(t, pr'), Opened(pipes, page))
<1> DEFINE E == Ends(ftable, pr)
           D == Ends(t, pr')
<1>1. Ended(E, pipes)
  BY InvFiles
<1>2. \A e \in EndIds : E[e] = IF e <= NFILE THEN ftable[e] ELSE pr[e - NFILE].ff
  BY DEF Ends
<1>3. f \in EndIds /\ f <= NFILE /\ g \in EndIds /\ g <= NFILE
  BY EndIs
<1>4. ASSUME NEW e \in EndIds
      PROVE  D[e] = IF e <= NFILE THEN t[e] ELSE E[e]
  <2>1. D[e] = EndThen(t, pr, p, r, e)
    BY EndsAfter
  <2>2. CASE e <= NFILE
    <3>1. e # NFILE + p
      BY <2>2, EndIs
    <3>2. QED  BY <2>1, <2>2, <3>1 DEF EndThen
  <2>3. CASE ~(e <= NFILE)
    <3>1. e = NFILE + p => e - NFILE = p
      BY ResourcesAssumption DEF Procs, EndIds
    <3>2. E[e] = pr[e - NFILE].ff
      BY <1>2, <2>3
    <3> HIDE DEF E, D
    <3>3. QED  BY <2>1, <2>3, <3>1, <3>2 DEF EndThen
  <2>4. QED  BY <2>2, <2>3
<1> HIDE DEF E, D
<1>5. /\ E[f].type # "PIPE" /\ E[g].type # "PIPE"
      /\ Stands(D[f], page, FALSE) /\ Stands(D[g], page, TRUE)
  BY <1>2, <1>3, <1>4
<1>6. ASSUME NEW e \in EndIds, e # f, e # g PROVE View(E[e], D[e])
  <2>1. e <= NFILE => e \in FileIds
    BY EndIs
  <2>2. E[e] = D[e]
    BY <1>2, <1>4, <1>6, <2>1
  <2>3. QED  BY <2>2 DEF View
<1>7. Ended(D, Opened(pipes, page))
  <2>1. Opens(E, D, f, g, page)
    BY <1>5, <1>6 DEF Opens
  <2>2. QED  BY <1>1, <1>3, <2>1, EndedMore
<1>8. QED  BY <1>7 DEF D

\* Two files that p has become the ends of a new pipe.
LEMMA MakesPipe ==
  ASSUME Inv, NEW p \in Procs, NEW r, Becomes(pr, pr', p, r), r.ff = pr[p].ff,
         r.pc \notin {"file", "page"}, pr[p].pc = "page",
         NEW f \in FileIds, NEW g \in FileIds, f # g,
         pr[p].files[1] = f, pr[p].files[2] = g, NEW page \in Pages, page \notin DOMAIN pipes,
         pipes' = With(pipes, page, BOOLEAN),
         ftable' = [ftable EXCEPT
           ![f] = [ftable[f] EXCEPT !.type = "PIPE", !.pipe = page, !.writable = FALSE],
           ![g] = [ftable[g] EXCEPT !.type = "PIPE", !.pipe = page, !.writable = TRUE]],
         Counted(ftable, Refs(pr'))
  PROVE  FileInv' /\ FilesTyped(ftable', pipes')
<1>1. /\ ftable \in [FileIds -> File] /\ Shut(ftable) /\ Fresh(ftable, pr)
      /\ FilesTyped(ftable, pipes)
  BY InvFiles
<1>2. pr[p] \in Process /\ Control(pr[p])
  BY OfProcess
<1>3. Len(pr[p].files) = 2 /\ pr[p].files \in Seq(FileIds)
  BY <1>2 DEF Control, Process
<1>4. ftable[f].ref = 1 /\ ftable[f].type = "NONE" /\ ftable[g].ref = 1 /\ ftable[g].type = "NONE"
  <2>1. 1 \in DOMAIN pr[p].files /\ 2 \in DOMAIN pr[p].files
    <3>1. DOMAIN pr[p].files = 1 .. Len(pr[p].files)
      BY <1>3
    <3>2. \A n : n = 2 => 1 \in 1 .. n /\ 2 \in 1 .. n
      OBVIOUS
    <3>3. QED  BY <1>3, <3>1, <3>2
  <2>2. QED  BY <1>1, <2>1 DEF Fresh
<1>5. page \in Nat
  BY MemoryAssumption DEF Pages
<1>6. /\ ftable' \in [FileIds -> File]
      /\ \A h \in FileIds : ftable'[h].ref = ftable[h].ref
      /\ Stands(ftable'[f], page, FALSE) /\ Stands(ftable'[g], page, TRUE)
      /\ \A h \in FileIds : h # f /\ h # g => ftable'[h] = ftable[h]
  <2> DEFINE x == [ftable[f] EXCEPT !.type = "PIPE", !.pipe = page, !.writable = FALSE]
             y == [ftable[g] EXCEPT !.type = "PIPE", !.pipe = page, !.writable = TRUE]
  <2>1. /\ x \in File /\ x.ref = ftable[f].ref /\ Stands(x, page, FALSE)
        /\ y \in File /\ y.ref = ftable[g].ref /\ Stands(y, page, TRUE)
    BY <1>1, <1>5 DEF File, Stands
  <2>2. ftable' = [ftable EXCEPT ![f] = x, ![g] = y]
    OBVIOUS
  <2> HIDE DEF x, y
  <2>3. \A h \in FileIds : ftable'[h] = IF h = g THEN y ELSE IF h = f THEN x ELSE ftable[h]
    BY <1>1, <2>2
  <2>4. ftable' \in [FileIds -> File]
    BY <1>1, <2>1, <2>2
  <2>5. ftable'[f] = x /\ ftable'[g] = y
    BY <2>3
  <2>6. QED  BY <2>1, <2>3, <2>4, <2>5
<1>7. Shut(ftable')
  BY <1>1, <1>4, <1>6 DEF Shut
<1>8. Counted(ftable', Refs(pr'))
  BY <1>6 DEF Counted
<1>9. KeptBy(pr[p], NOFILE) = f /\ KeptBy(pr[p], NOFILE + 1) = g
  BY <1>2, <1>3, KeptIs
<1>10. Fresh(ftable', pr')
  <2>1. ASSUME NEW q \in Procs, q # p, pr[q].pc \in {"file", "page"}, NEW k \in DOMAIN pr[q].files
        PROVE  ftable'[pr[q].files[k]] = ftable[pr[q].files[k]]
    <3>1. NOFILE \in Places /\ NOFILE + 1 \in Places
      BY PlacesAre
    <3>2. pr[q].files[k] # f
      BY <1>9, <2>1, <3>1, NotFresh
    <3>3. pr[q].files[k] # g
      <4>1. \E y \in Places : KeptBy(pr[p], y) = g
        BY <1>9, <3>1
      <4>2. PICK y \in Places : KeptBy(pr[p], y) = g
        BY <4>1
      <4>3. QED  BY <2>1, <4>2, NotFresh
    <3>4. pr[q].files[k] \in FileIds
      <4>1. pr[q].files \in Seq(FileIds)
        BY OfProcess DEF Process
      <4>2. QED  BY <2>1, <4>1
    <3>5. QED  BY <1>6, <3>2, <3>3, <3>4
  <2>2. FreshOthers(ftable', p)
    BY <2>1 DEF FreshOthers
  <2>3. FreshOwn(ftable', r)
    BY DEF FreshOwn
  <2>4. QED  BY <2>2, <2>3, StaysFresh
<1>11. Ended(Ends(ftable', pr'), pipes')
  <2>1. ftable[f].type # "PIPE" /\ ftable[g].type # "PIPE"
    BY <1>4
  <2>2. ASSUME NEW t, Stands(t[f], page, FALSE), Stands(t[g], page, TRUE),
               \A h \in FileIds : h # f /\ h # g => t[h] = ftable[h]
        PROVE  Ended(Ends(t, pr'), Opened(pipes, page))
    BY <2>1, <2>2, EndsOpened
  <2>3. QED  BY <1>6, <2>2 DEF Opened
<1>12. FileInv'
  BY <1>7, <1>8, <1>10, <1>11 DEF FileInv
<1>13. FilesTyped(ftable', pipes')
  BY <1>1, <1>6 DEF FilesTyped, With
<1>14. QED  BY <1>12, <1>13

\* pipe() gives the two files to two descriptors.
LEMMA PipeRefs ==
  ASSUME Inv, NEW p \in Procs, pr[p].pc = "page", NEW f \in FileIds, NEW g \in FileIds,
         pr[p].files[1] = f, pr[p].files[2] = g,
         NEW a \in Fds, NEW b \in Fds, a # b, pr[p].ofile[a] = None, pr[p].ofile[b] = None,
         NEW r \in Process, Becomes(pr, pr', p, r), r.files = <<>>,
         \A d \in Fds : r.ofile[d] = IF d = b THEN g ELSE IF d = a THEN f ELSE pr[p].ofile[d]
  PROVE  Counted(ftable, Refs(pr'))
<1> DEFINE s == [pr[p] EXCEPT !.ofile[b] = g, !.files = <<f>>]
           P == [q \in Procs |-> IF q = p THEN s ELSE pr[q]]
<1>1. pr \in [Procs -> Process] /\ Counted(ftable, Refs(pr))
  BY InvFiles
<1>2. pr[p] \in Process /\ Control(pr[p])
  BY OfProcess
<1>3. Len(pr[p].files) = 2
  BY <1>2 DEF Control
<1>4. s \in Process /\ s.files = <<f>> /\ \A d \in Fds : s.ofile[d] = IF d = b THEN g ELSE pr[p].ofile[d]
  <2>1. <<f>> \in Seq(FileIds)
    OBVIOUS
  <2>2. QED  BY <1>2, <2>1 DEF Process
<1> HIDE DEF s
<1>5. P \in [Procs -> Process] /\ P[p] = s
  BY <1>1, <1>4
<1>6. Becomes(pr, P, p, s)
  BY DEF Becomes
<1>7. Becomes(P, pr', p, r)
  BY DEF Becomes
<1> HIDE DEF P
<1>8. Len(s.files) = 1 /\ s.files[1] = f /\ Len(r.files) = 0
  BY <1>4
<1>9. /\ \A d \in Fds : KeptBy(pr[p], d) = pr[p].ofile[d]
      /\ KeptBy(pr[p], NOFILE) = f /\ KeptBy(pr[p], NOFILE + 1) = g
  BY <1>2, <1>3, KeptIs
<1>10. /\ \A d \in Fds : KeptBy(s, d) = s.ofile[d]
       /\ KeptBy(s, NOFILE) = f /\ KeptBy(s, NOFILE + 1) = None
  BY <1>4, <1>8, KeptIs
<1>11. /\ \A d \in Fds : KeptBy(r, d) = r.ofile[d]
       /\ KeptBy(r, NOFILE) = None /\ KeptBy(r, NOFILE + 1) = None
  BY <1>8, KeptIs
<1>12. PICK x \in Places : x = NOFILE + 1
  BY PlacesAre
<1>13. KeptBy(pr[p], x) = g /\ b \in Places /\ KeptBy(pr[p], b) = None
       /\ ChangesTwo(pr[p], s, x, None, b, g)
  BY <1>4, <1>9, <1>10, <1>12, PlacesAre DEF ChangesTwo
<1>14. Counted(ftable, Refs(P))
  BY <1>1, <1>6, <1>13, RefMoved
<1>15. /\ NOFILE \in Places /\ KeptBy(s, NOFILE) = f /\ a \in Places /\ KeptBy(s, a) = None
       /\ ChangesTwo(s, r, NOFILE, None, a, f)
  BY <1>4, <1>10, <1>11, PlacesAre DEF ChangesTwo
<1>16. \A Q, t : /\ Becomes(P, Q, p, r) /\ Counted(t, Refs(P)) => Counted(t, Refs(Q))
  BY <1>5, <1>15, RefMoved
<1>17. QED  BY <1>7, <1>14, <1>16

\* pipealloc() takes the page, and sys_pipe() the descriptors.
LEMMA PipePageStep ==
  ASSUME Inv, NEW p \in Procs, PipePage(p)
  PROVE  Inv'
<1> DEFINE page == kalloc(mm)
           f == pr[p].files[1]
           g == pr[p].files[2]
           a == Min(FreeFds(p))
           b == Min(FreeFds(p) \ {a})
           few == Cardinality(FreeFds(p)) < 2
           s == [pr[p] EXCEPT !.ofile[a] = f, !.ofile[b] = g]
           r == IF few THEN [pr[p] EXCEPT !.pc = "close"] ELSE Back(s)
<1>1. /\ pr \in [Procs -> Process] /\ pr[p] \in Process /\ Control(pr[p])
      /\ Room(mm, pr[p]) /\ panicked = FALSE /\ calls \in Nat
  BY OfProcess
<1>2. pr[p].pc = "page" /\ calls' \in Nat /\ panicked' = FALSE
  BY <1>1 DEF PipePage
<1>3. /\ pr[p].state = "RUNNING" /\ pr[p].call = "none"
      /\ pr[p].np = 0 /\ pr[p].nd = NoPage /\ pr[p].pgdir # NoPage
      /\ pr[p].ff = NoFile /\ Len(pr[p].files) = 2 /\ f # g /\ pr[p].files \in Seq(FileIds)
  BY <1>1, <1>2 DEF Control, Process
<1>4. CASE page = NoPage
  <2>1. pr' = [pr EXCEPT ![p].pc = "close"] /\ UNCHANGED <<mm, fileVars>>
    BY <1>4 DEF PipePage
  <2>2. QED  BY <1>2, <2>1, PipeFails
<1>5. CASE page # NoPage
  <2>1. f \in FileIds /\ g \in FileIds
    <3>1. \A n : n = 2 => 1 \in 1 .. n /\ 2 \in 1 .. n
      OBVIOUS
    <3>2. 1 \in 1 .. Len(pr[p].files) /\ 2 \in 1 .. Len(pr[p].files)
      BY <1>3, <3>1
    <3>3. QED  BY <1>3, <3>2, ElementOfSeq
  <2>2. /\ mm' = Taken(mm) /\ pipes' = With(pipes, page, BOOLEAN)
        /\ ftable' = [ftable EXCEPT
             ![f] = [ftable[f] EXCEPT !.type = "PIPE", !.pipe = page, !.writable = FALSE],
             ![g] = [ftable[g] EXCEPT !.type = "PIPE", !.pipe = page, !.writable = TRUE]]
        /\ pr' = IF few THEN [pr EXCEPT ![p].pc = "close"]
                 ELSE [pr EXCEPT ![p] = Back([@ EXCEPT !.ofile[a] = f, !.ofile[b] = g])]
    BY <1>5, Zenon DEF PipePage
  <2>3. PICK o : Heap(mm, o, pr, DOMAIN pipes, {})
    BY DEF Inv, HeapInv
  <2>4. mm.free # {} /\ IsMem(mm)
    BY <1>5, <2>3 DEF kalloc, Heap
  <2>5. page \in Pages /\ Taken(mm).dirs = mm.dirs
    BY <2>4, TakenIs
  <2>6. /\ Heap(Taken(mm), Given(o, {page}, Ring), pr, DOMAIN pipes \cup {page}, {})
        /\ page \notin DOMAIN pipes
    BY <2>3, <2>4, HeapRing
  <2>7. ~few => /\ a \in Fds /\ b \in Fds /\ a # b
                /\ pr[p].ofile[a] = None /\ pr[p].ofile[b] = None
    BY FreeFd, FreeTwo
  <2> HIDE DEF page, f, g, a, b, few
  <2>8. ~few => /\ s \in Process /\ s.state = "RUNNING" /\ Control(s)
                /\ s.sz = pr[p].sz /\ s.cr3 = pr[p].cr3 /\ s.kstack = pr[p].kstack
                /\ s.pgdir = pr[p].pgdir
                /\ \A d \in Fds : s.ofile[d] = IF d = b THEN g ELSE IF d = a THEN f ELSE pr[p].ofile[d]
    <3>1. SUFFICES ASSUME ~few
                   PROVE  /\ s \in Process /\ s.state = "RUNNING" /\ Control(s)
                          /\ s.sz = pr[p].sz /\ s.cr3 = pr[p].cr3 /\ s.kstack = pr[p].kstack
                          /\ s.pgdir = pr[p].pgdir
                          /\ \A d \in Fds : s.ofile[d] =
                               IF d = b THEN g ELSE IF d = a THEN f ELSE pr[p].ofile[d]
      OBVIOUS
    <3>2. /\ s \in Process /\ s.state = "RUNNING" /\ s.pc = pr[p].pc /\ s.call = pr[p].call
          /\ s.sz = pr[p].sz /\ s.cr3 = pr[p].cr3 /\ s.kstack = pr[p].kstack
          /\ s.pgdir = pr[p].pgdir /\ s.np = pr[p].np /\ s.nd = pr[p].nd
          /\ s.a = pr[p].a /\ s.to = pr[p].to /\ s.files = pr[p].files /\ s.ff = pr[p].ff
      BY ZenonT(60), <1>1, <1>3, <2>1, <2>7, <3>1 DEF Process
    <3>3. \A d \in Fds : s.ofile[d] = IF d = b THEN g ELSE IF d = a THEN f ELSE pr[p].ofile[d]
      BY <1>1, <2>1, <2>7, <3>1 DEF Process
    <3> HIDE DEF s
    <3>4. Control(s)
      BY <1>1, <1>2, <1>3, <3>2 DEF Control
    <3>5. QED  BY <3>2, <3>3, <3>4
  <2> HIDE DEF s
  <2>9. /\ r \in Process /\ r.pc = (IF few THEN "close" ELSE "user") /\ r.call = "none"
        /\ r.state = "RUNNING" /\ r.np = 0 /\ r.nd = NoPage
        /\ r.sz = pr[p].sz /\ r.cr3 = pr[p].cr3 /\ r.kstack = pr[p].kstack
        /\ r.pgdir = pr[p].pgdir /\ r.ff = NoFile
        /\ r.files = IF few THEN pr[p].files ELSE <<>>
    <3>1. CASE few
      <4>1. "close" \in Pcs
        BY DEF Pcs
      <4>2. QED  BY ZenonT(60), <1>1, <1>3, <3>1, <4>1 DEF Process
    <3>2. CASE ~few
      BY <2>8, <3>2, BackIs
    <3>3. QED  BY <3>1, <3>2
  <2>10. r.ofile = IF few THEN pr[p].ofile ELSE s.ofile
    <3>1. CASE few
      BY <1>1, <3>1 DEF Process
    <3>2. CASE ~few
      BY <2>8, <3>2, BackIs
    <3>3. QED  BY <3>1, <3>2
  <2>11. Becomes(pr, pr', p, r)
    <3>1. CASE few
      BY <1>1, <2>2, <3>1 DEF Becomes
    <3>2. CASE ~few
      <4>1. pr' = [pr EXCEPT ![p] = Back(s)]
        BY <2>2, <3>2 DEF s
      <4>2. QED  BY <1>1, <3>2, <4>1 DEF Becomes
    <3>3. QED  BY <3>1, <3>2
  <2>12. Control(r)
    <3>1. CASE few
      <4>1. \A n : n = 2 => n <= 2
        OBVIOUS
      <4>2. Len(r.files) <= 2
        BY <1>3, <2>9, <3>1, <4>1
      <4>3. r.a = pr[p].a /\ r.to = pr[p].to
        BY <1>1, <3>1 DEF Process
      <4> HIDE DEF r
      <4>4. QED  BY <1>1, <1>2, <1>3, <2>9, <3>1, <4>2, <4>3 DEF Control
    <3>2. CASE ~few
      BY <2>8, <3>2, BackIs
    <3>3. QED  BY <3>1, <3>2
  <2> HIDE DEF r
  <2>13. Room(mm, r)
    BY <1>1, <1>2, <1>3, <2>9 DEF Room, Space
  <2>14. Counted(ftable, Refs(pr'))
    <3>1. CASE few
      <4>1. Keeps(pr[p], r)
        BY <2>9, <2>10, <3>1 DEF Keeps, KeptBy
      <4>2. Refs(pr') = Refs(pr)
        BY <2>11, <4>1, RefsSame
      <4>3. QED  BY <4>2, InvFiles
    <3>2. CASE ~few
      <4>1. \A d \in Fds : r.ofile[d] = IF d = b THEN g ELSE IF d = a THEN f ELSE pr[p].ofile[d]
        BY <2>8, <2>10, <3>2
      <4>2. pr[p].files[1] = f /\ pr[p].files[2] = g /\ r.files = <<>>
        BY <2>9, <3>2 DEF f, g
      <4>3. QED  BY <1>2, <2>1, <2>7, <2>9, <2>11, <3>2, <4>1, <4>2, PipeRefs
    <3>3. QED  BY <3>1, <3>2
  <2>15. FileInv' /\ FilesTyped(ftable', pipes')
    <3>1. pr[p].files[1] = f /\ pr[p].files[2] = g /\ f # g
      BY <1>3 DEF f, g
    <3>2. r.pc \notin {"file", "page"} /\ r.ff = pr[p].ff
      BY <1>3, <2>9
    <3>3. QED  BY <1>2, <2>1, <2>2, <2>5, <2>6, <2>11, <2>14, <3>1, <3>2, MakesPipe
  <2>16. DOMAIN pipes' = DOMAIN pipes \cup {page}
    BY <2>2 DEF With
  <2>17. Heap(mm', Given(o, {page}, Ring), pr, DOMAIN pipes', {})
    BY <2>2, <2>6, <2>16
  <2>18. Controlled(pr')
    <3>1. pr \in [Procs -> Process] /\ Controlled(pr) /\ r.np = pr[p].np
          /\ (r.np # 0 => Child(r, pr[r.np]))
      BY <1>3, <2>9 DEF Inv, TypeOK
    <3>2. QED  BY <1>3, <2>11, <2>12, <3>1, ControlAlone
  <2>19. Files(p, r)
    BY <1>3, <2>2, <2>5, <2>9, <2>11, <2>13, <2>15, <2>18 DEF Files
  <2>20. QED  BY <1>2, <2>15, <2>17, <2>19, FileSolo
<1>6. QED  BY <1>4, <1>5

\* Only the parent changes.
NewParent(r, s) ==
  /\ s \in Process /\ s.state = r.state /\ s.sz = r.sz /\ s.pgdir = r.pgdir
  /\ s.kstack = r.kstack /\ s.cr3 = r.cr3 /\ s.ofile = r.ofile /\ s.pc = r.pc
  /\ s.call = r.call /\ s.np = r.np /\ s.nd = r.nd /\ s.old = r.old /\ s.a = r.a
  /\ s.to = r.to /\ s.segs = r.segs /\ s.files = r.files /\ s.ff = r.ff
  /\ r.state = "UNUSED" => s = r

\* Another parent changes nothing else of a process.
LEMMA NewParentIs ==
  ASSUME NEW r, NEW s, NewParent(r, s)
  PROVE  /\ Control(r) => Control(s)
         /\ \A m : Room(m, r) => Room(m, s)
         /\ \A k : Child(r, k) => Child(s, k)
         /\ \A k : Child(k, r) => Child(k, s)
<1>1. Control(r) => Control(s)
  BY DEF NewParent, Control, NoFiles
<1>2. ASSUME NEW m, Room(m, r) PROVE Room(m, s)
  <2>1. Space(m, s)
    BY <1>2 DEF NewParent, Room, Space
  <2>2. s.pc = "table" => Blank(m, s)
    BY <1>2 DEF NewParent, Room, Blank
  <2>3. s.pc = "copy" => Copying(m, s)
    BY <1>2 DEF NewParent, Room, Copying
  <2>4. s.pc = "load" => Covers(m, s.nd, Pgs(s.to)) /\ s.to <= KERNBASE
    BY <1>2 DEF NewParent, Room
  <2>5. s.pc = "grow" => Extending(m, s)
    BY <1>2 DEF NewParent, Room, Extending, Grown, Target
  <2>6. QED  BY <2>1, <2>2, <2>3, <2>4, <2>5 DEF Room
<1>3. \A k : Child(r, k) => Child(s, k)
  BY DEF NewParent, Child
<1>4. \A k : Child(k, r) => Child(k, s)
  BY DEF NewParent, Child, NoFiles
<1>5. QED  BY <1>1, <1>2, <1>3, <1>4

\* exit() hands its children to init and becomes a zombie.
LEMMA ExitDoneStep ==
  ASSUME Inv, NEW p \in Procs, ExitDone(p)
  PROVE  Inv'
<1> DEFINE b == Back(pr[p])
           r == [b EXCEPT !.state = "ZOMBIE", !.cr3 = NoPage]
<1>1. /\ pr \in [Procs -> Process] /\ pr[p] \in Process /\ Control(pr[p])
      /\ Room(mm, pr[p]) /\ panicked = FALSE /\ calls \in Nat /\ pr[p].sz <= KERNBASE
  BY OfProcess
<1>2. /\ pr[p].pc = "close" /\ pr[p].files = <<>> /\ pr[p].call = "exit"
      /\ UNCHANGED <<mm, ftable, pipes, calls, panicked>>
  BY DEF ExitDone, fileVars
<1>3. /\ pr[p].state = "RUNNING" /\ pr[p].np = 0 /\ pr[p].nd = NoPage
      /\ pr[p].pgdir # NoPage /\ pr[p].kstack # NoPage /\ pr[p].ff = NoFile
  BY <1>1, <1>2 DEF Control
<1>4. NoFiles(pr[p])
  BY DEF ExitDone, FreeFds, NoFiles
<1>5. /\ b \in Process /\ b.sz = pr[p].sz /\ b.kstack = pr[p].kstack /\ b.pgdir = pr[p].pgdir
      /\ b.ofile = pr[p].ofile /\ b.pc = "user" /\ b.call = "none" /\ b.np = 0
      /\ b.nd = NoPage /\ b.a = 0 /\ b.to = 0 /\ b.files = <<>> /\ b.ff = NoFile
  BY <1>1, BackIs
<1>6. pr' = [q \in Procs |-> IF q = p THEN r
                             ELSE IF pr[q].parent = p THEN [pr[q] EXCEPT !.parent = Init1]
                             ELSE pr[q]]
  BY DEF ExitDone
<1> HIDE DEF b
<1>7. /\ r \in Process /\ r.sz = pr[p].sz /\ r.kstack = pr[p].kstack /\ r.pgdir = pr[p].pgdir
      /\ r.ofile = pr[p].ofile /\ r.pc = "user" /\ r.call = "none" /\ r.np = 0
      /\ r.nd = NoPage /\ r.a = 0 /\ r.to = 0 /\ r.files = <<>> /\ r.ff = NoFile
      /\ r.state = "ZOMBIE"
  <2>1. NoPage \in Slot
    BY DEF Slot
  <2>2. QED  BY <1>5, <2>1 DEF Process
<1> HIDE DEF r
<1>8. pr'[p] = r
  BY <1>6
<1>9. ASSUME NEW q \in Procs, q # p PROVE NewParent(pr[q], pr'[q])
  <2>1. pr[q] \in Process /\ Control(pr[q]) /\ Init1 \in Procs /\ p # 0
    <3>1. Init1 \in Procs /\ p # 0
      BY ResourcesAssumption DEF Procs, Init1
    <3>2. pr[q] \in Process /\ Control(pr[q])
      BY OfProcess
    <3>3. QED  BY <3>1, <3>2
  <2>2. CASE pr[q].parent = p
    <3>1. pr'[q] = [pr[q] EXCEPT !.parent = Init1]
      BY <1>6, <1>9, <2>2
    <3>2. pr[q].state # "UNUSED"
      BY <2>1, <2>2 DEF Control, NoProc
    <3>3. QED  BY ZenonT(60), <2>1, <3>1, <3>2 DEF NewParent, Process
  <2>3. CASE pr[q].parent # p
    <3>1. pr'[q] = pr[q]
      BY <1>6, <1>9, <2>3
    <3>2. QED  BY <2>1, <3>1 DEF NewParent
  <2>4. QED  BY <2>2, <2>3
<1>10. pr' \in [Procs -> Process]
  <2>1. ASSUME NEW q \in Procs PROVE pr'[q] \in Process
    BY <1>7, <1>8, <1>9 DEF NewParent
  <2>2. pr' = [q \in Procs |-> pr'[q]]
    BY <1>6
  <2>3. QED  BY <2>1, <2>2
<1>11. TypeOK'
  BY <1>2, <1>10 DEF Inv, TypeOK
<1>12. Control(r)
  BY <1>1, <1>3, <1>4, <1>7 DEF Control, NoFiles
<1>13. ASSUME NEW q \in Procs PROVE Control(pr'[q]) /\ Room(mm, pr'[q])
  <2>1. CASE q = p
    BY <1>1, <1>7, <1>8, <1>12, <2>1 DEF Room, Space
  <2>2. CASE q # p
    <3>1. Control(pr[q]) /\ Room(mm, pr[q])
      BY OfProcess
    <3>2. QED  BY <1>9, <2>2, <3>1, NewParentIs
  <2>3. QED  BY <2>1, <2>2
<1>14. ASSUME NEW q \in Procs PROVE pr'[q].np = pr[q].np /\ pr[q].np \in Procs \cup {0} /\ pr[q].np # p
  <2>1. pr[q].np # p
    BY <1>3, NoChild DEF Inv
  <2>2. pr'[q].np = pr[q].np
    BY <1>3, <1>7, <1>8, <1>9 DEF NewParent
  <2>3. QED  BY <1>1, <2>1, <2>2 DEF Process
<1>15. ASSUME NEW q \in Procs, pr'[q].np # 0 PROVE Child(pr'[q], pr'[pr'[q].np])
  <2> DEFINE c == pr[q].np
  <2>1. c \in Procs /\ c # p /\ pr'[q].np = c /\ q # p /\ c # 0
    BY <1>3, <1>14, <1>15
  <2>2. Child(pr[q], pr[c])
    BY <2>1 DEF Inv, Controlled
  <2> HIDE DEF c
  <2>3. Child(pr'[q], pr[c])
    BY <1>9, <2>1, <2>2, NewParentIs
  <2>4. Child(pr'[q], pr'[c])
    BY <1>9, <2>1, <2>3, NewParentIs
  <2>5. QED  BY <2>1, <2>4
<1>16. Controlled(pr')
  <2>1. ASSUME NEW q \in Procs, NEW s \in Procs, pr'[q].np # 0, pr'[q].np = pr'[s].np
        PROVE  q = s
    BY <1>14, <2>1 DEF Inv, Controlled
  <2>2. QED  BY <1>13, <1>15, <2>1 DEF Controlled
<1>17. HeapInv'
  <2>1. PICK o : Heap(mm, o, pr, DOMAIN pipes, {})
    BY DEF Inv, HeapInv
  <2>2. SameHold(pr, pr')
    <3>1. ASSUME NEW q \in Procs
          PROVE  pr'[q].kstack = pr[q].kstack /\ pr'[q].pgdir = pr[q].pgdir /\ pr'[q].nd = pr[q].nd
      BY <1>3, <1>7, <1>8, <1>9 DEF NewParent
    <3>2. QED  BY <3>1 DEF SameHold
  <2>3. Heap(mm, o, pr', DOMAIN pipes, {})
    BY <2>1, <2>2, Unmoved
  <2>4. QED  BY <1>2, <2>3 DEF HeapInv
<1>18. SpaceInv'
  BY <1>1, <1>2, <1>13 DEF Inv, SpaceInv, Roomy
<1>19. FileInv'
  <2>1. ASSUME NEW q \in Procs
        PROVE  /\ pr'[q].ofile = pr[q].ofile /\ pr'[q].files = pr[q].files
               /\ pr'[q].ff = pr[q].ff
               /\ pr'[q].pc \in {"file", "page"} => pr[q].pc \in {"file", "page"}
    BY <1>2, <1>3, <1>7, <1>8, <1>9 DEF NewParent
  <2>2. SameFiles(pr, pr')
    BY <2>1 DEF SameFiles
  <2>3. ftable' = ftable /\ pipes' = pipes /\ FileInv
    BY <1>2 DEF Inv
  <2>4. QED  BY <2>2, <2>3, FilesKept
<1>20. QED  BY <1>11, <1>16, <1>17, <1>18, <1>19 DEF Inv

-----------------------------------------------------------------------------
\* Who owns the pages that userinit() has taken.
FirstOwner == [g \in Pages |->
  IF g = 1 THEN StackOf(Init1) ELSE IF g = 2 THEN SpaceOf(Init1)
  ELSE IF g = KernTables + 4 THEN PageIn(2, 0)
  ELSE IF g = KernTables + 3 THEN TableOf(2, 0)
  ELSE IF g < KernTables + 3 THEN TableOf(2, 2 - g) ELSE Idle]

\* The first address space.
LEMMA FirstSpaceIs ==
  /\ IsDir(FirstSpace)
  /\ FirstSpace.tables = [i \in -KernTables .. 0 |-> IF i = 0 THEN KernTables + 3 ELSE 2 - i]
  /\ FirstSpace.ptes = [v \in {0} |-> KernTables + 4]
<1>1. -KernTables .. 0 \subseteq Int /\ {0} \subseteq Nat
  BY MemoryAssumption
<1>2. QED  BY <1>1 DEF FirstSpace, IsDir

\* Every page after userinit() has the owner that FirstOwner names.
LEMMA FirstPages ==
  ASSUME NEW g \in Pages
  PROVE  \/ g = 1 /\ FirstOwner[g] = StackOf(Init1)
         \/ g = 2 /\ FirstOwner[g] = SpaceOf(Init1)
         \/ g = KernTables + 4 /\ FirstOwner[g] = PageIn(2, 0)
         \/ \E i \in -KernTables .. 0 : g = FirstSpace.tables[i] /\ FirstOwner[g] = TableOf(2, i)
         \/ g > KernTables + 4 /\ FirstOwner[g] = Idle
<1>1. KernTables \in Nat \ {0} /\ g \in Nat \ {0}
  BY MemoryAssumption DEF Pages
<1>2. CASE g = KernTables + 3
  <2>1. 0 \in -KernTables .. 0 /\ g # 1 /\ g # 2 /\ g # KernTables + 4
    BY <1>1, <1>2
  <2>2. FirstSpace.tables[0] = g
    BY <1>2, <2>1, FirstSpaceIs
  <2>3. FirstOwner[g] = TableOf(2, 0)
    BY <1>2, <2>1 DEF FirstOwner
  <2>4. QED  BY <2>1, <2>2, <2>3
<1>3. CASE g > 2 /\ g < KernTables + 3
  <2> DEFINE i == 2 - g
  <2>1. i \in -KernTables .. 0 /\ i # 0 /\ 2 - i = g /\ g # 1 /\ g # 2 /\ g # KernTables + 4
        /\ g # KernTables + 3
    BY <1>1, <1>3
  <2>2. FirstOwner[g] = TableOf(2, i)
    BY <1>3, <2>1 DEF FirstOwner
  <2> HIDE DEF i
  <2>3. FirstSpace.tables[i] = g
    BY <2>1, FirstSpaceIs
  <2>4. QED  BY <2>1, <2>2, <2>3
<1>4. CASE g = 1 \/ g = 2
  BY <1>1, <1>4 DEF FirstOwner
<1>5. CASE g = KernTables + 4
  <2>1. g # 1 /\ g # 2
    BY <1>1, <1>5
  <2>2. QED  BY <1>5, <2>1 DEF FirstOwner
<1>6. CASE g > KernTables + 4
  <2>1. g # 1 /\ g # 2 /\ g # KernTables + 4 /\ g # KernTables + 3 /\ ~(g < KernTables + 3)
    BY <1>1, <1>6
  <2>2. QED  BY <1>6, <2>1 DEF FirstOwner
<1>7. QED  BY <1>1, <1>2, <1>3, <1>4, <1>5, <1>6

\* The memory after userinit().
LEMMA FirstMemIs ==
  /\ IsMem(FirstMem) /\ DOMAIN FirstMem.dirs = {2} /\ FirstMem.dirs[2] = FirstSpace
  /\ FirstMem.lost = {} /\ FirstMem.twice = {}
  /\ FirstMem.free = Pages \ (1 .. KernTables + 4)
<1>1. 2 \in Pages
  BY MemoryAssumption DEF Pages
<1>2. QED  BY <1>1, FirstSpaceIs DEF FirstMem, IsMem

\* The owners of the first memory.
LEMMA FirstOwn == Own(FirstMem, FirstOwner)
<1> DEFINE o == FirstOwner
           m == FirstMem
           T == FirstSpace.tables
<1>1. KernTables \in Nat \ {0} /\ Init1 \in Procs /\ 2 \in Pages /\ KernTables + 4 \in Pages
      /\ 0 \in Nat /\ KernTables + 4 \in Nat
  BY MemoryAssumption, ResourcesAssumption DEF Pages, Procs, Init1
<1>2. StackOf(Init1) \in Kernel /\ SpaceOf(Init1) \in Tops
  BY <1>1, Outers
<1>3. DOMAIN T = -KernTables .. 0 /\ DOMAIN T \subseteq Int
      /\ DOMAIN FirstSpace.ptes = {0} /\ FirstSpace.ptes[0] = KernTables + 4
  BY <1>1, FirstSpaceIs
<1>4. ASSUME NEW i \in -KernTables .. 0
      PROVE  /\ T[i] \in Pages /\ o[T[i]] = TableOf(2, i) /\ T[i] > 2
             /\ T[i] < KernTables + 4 /\ T[i] \in Nat
  <2>1. T[i] = IF i = 0 THEN KernTables + 3 ELSE 2 - i
    BY FirstSpaceIs
  <2>2. i \in Int /\ -KernTables <= i /\ i <= 0
    BY <1>1
  <2>3. T[i] > 2 /\ T[i] < KernTables + 4 /\ T[i] \in Nat
    BY <1>1, <2>1, <2>2
  <2>4. T[i] \in Pages
    BY <2>3, MemoryAssumption DEF Pages
  <2>5. o[T[i]] = TableOf(2, i)
    <3>1. T[i] # 1 /\ T[i] # 2 /\ T[i] # KernTables + 4
      BY <1>1, <2>3
    <3>2. CASE i = 0
      BY <2>1, <2>4, <3>1, <3>2 DEF FirstOwner
    <3>3. CASE i # 0
      <4>1. T[i] # KernTables + 3 /\ T[i] < KernTables + 3 /\ 2 - T[i] = i
        BY <1>1, <2>1, <2>2, <3>3
      <4>2. QED  BY <2>4, <3>1, <4>1 DEF FirstOwner
    <3>4. QED  BY <3>2, <3>3
  <2>6. QED  BY <2>3, <2>4, <2>5
<1>5. o[KernTables + 4] = PageIn(2, 0)
  <2>1. KernTables + 4 # 1 /\ KernTables + 4 # 2
    BY <1>1
  <2>2. QED  BY <1>1, <2>1 DEF FirstOwner
<1>6. ASSUME NEW g \in Pages
      PROVE  /\ o[g] \in Owner
             /\ g \in m.free <=> o[g] = Idle
             /\ o[g] # Astray
             /\ g = 2 <=> o[g] \in Tops
             /\ \A d, i : o[g] = TableOf(d, i) =>
                            d = 2 /\ i \in -KernTables .. 0 /\ T[i] = g
             /\ \A d, v : o[g] = PageIn(d, v) => d = 2 /\ v = 0 /\ g = KernTables + 4
  <2>1. g \in m.free <=> g > KernTables + 4
    <3>1. g \in Nat \ {0}
      BY MemoryAssumption DEF Pages
    <3>2. g \in 1 .. KernTables + 4 <=> ~(g > KernTables + 4)
      BY <1>1, <3>1
    <3>3. QED  BY <3>2, FirstMemIs
  <2>2. CASE g = 1 /\ o[g] = StackOf(Init1)
    <3>1. ~(g > KernTables + 4)
      BY <1>1, <2>2
    <3>2. QED  BY <1>2, <2>1, <2>2, <3>1, Tokens
  <2>3. CASE g = 2 /\ o[g] = SpaceOf(Init1)
    <3>1. ~(g > KernTables + 4)
      BY <1>1, <2>3
    <3>2. QED  BY <1>2, <2>1, <2>3, <3>1, Tokens
  <2>4. CASE g = KernTables + 4 /\ o[g] = PageIn(2, 0)
    <3>1. ~(g > KernTables + 4) /\ g # 2
      BY <1>1, <2>4
    <3>2. o[g] \in Owner
      BY <1>1, <2>4, Tokens
    <3>3. QED  BY <2>1, <2>4, <3>1, <3>2, Tokens
  <2>5. CASE \E i \in -KernTables .. 0 : g = T[i] /\ o[g] = TableOf(2, i)
    <3>1. PICK i \in -KernTables .. 0 : g = T[i] /\ o[g] = TableOf(2, i)
      BY <2>5
    <3>2. ~(g > KernTables + 4) /\ g # 2
      <4>1. g > 2 /\ g < KernTables + 4 /\ g \in Nat
        BY <1>4, <3>1
      <4>2. QED  BY <1>1, <4>1
    <3>3. i \in Int
      BY <1>1
    <3>4. o[g] \in Owner
      BY <1>1, <3>1, <3>3, Tokens
    <3>5. QED  BY <2>1, <3>1, <3>2, <3>4, Tokens
  <2>6. CASE g > KernTables + 4 /\ o[g] = Idle
    <3>1. g # 2
      BY <1>1, <2>6
    <3>2. QED  BY <2>1, <2>6, <3>1, Tokens
  <2>7. QED  BY <2>2, <2>3, <2>4, <2>5, <2>6, FirstPages
<1>7. o \in [Pages -> Owner]
  BY <1>6 DEF FirstOwner
<1>8. /\ m.lost = {} /\ DOMAIN m.dirs = {2} /\ m.dirs[2] = FirstSpace
  BY FirstMemIs
<1> HIDE DEF o, m, T
<1>9. \A d \in DOMAIN m.dirs : \A i \in DOMAIN m.dirs[d].tables :
        m.dirs[d].tables[i] \in Pages /\ o[m.dirs[d].tables[i]] = TableOf(d, i)
  BY <1>3, <1>4, <1>8 DEF T
<1>10. \A d \in DOMAIN m.dirs : \A v \in DOMAIN m.dirs[d].ptes :
         m.dirs[d].ptes[v] \in Pages /\ o[m.dirs[d].ptes[v]] = PageIn(d, v)
  BY <1>1, <1>3, <1>5, <1>8
<1>11. /\ \A g \in Pages, d \in Pages, i \in Int : o[g] = TableOf(d, i) =>
            /\ d \in DOMAIN m.dirs /\ i \in DOMAIN m.dirs[d].tables
            /\ m.dirs[d].tables[i] = g
       /\ \A g \in Pages, d \in Pages, v \in Nat : o[g] = PageIn(d, v) =>
            /\ d \in DOMAIN m.dirs /\ v \in DOMAIN m.dirs[d].ptes
            /\ m.dirs[d].ptes[v] = g
  <2>1. ASSUME NEW g \in Pages, NEW d \in Pages, NEW i \in Int, o[g] = TableOf(d, i)
        PROVE  d \in DOMAIN m.dirs /\ i \in DOMAIN m.dirs[d].tables
               /\ m.dirs[d].tables[i] = g
    <3>1. d = 2 /\ i \in -KernTables .. 0 /\ T[i] = g
      BY <1>6, <2>1
    <3>2. i \in DOMAIN T /\ m.dirs[2].tables = T /\ 2 \in DOMAIN m.dirs
      BY <1>3, <1>8, <3>1 DEF T
    <3>3. QED  BY <3>1, <3>2
  <2>2. ASSUME NEW g \in Pages, NEW d \in Pages, NEW v \in Nat, o[g] = PageIn(d, v)
        PROVE  d \in DOMAIN m.dirs /\ v \in DOMAIN m.dirs[d].ptes
               /\ m.dirs[d].ptes[v] = g
    <3>1. d = 2 /\ v = 0 /\ g = KernTables + 4
      BY <1>6, <2>2
    <3>2. QED  BY <1>3, <1>8, <3>1
  <2>3. QED  BY <2>1, <2>2
<1>12. /\ \A g \in Pages : g \in m.free <=> o[g] = Idle
       /\ \A g \in Pages : g \in m.lost <=> o[g] = Astray
       /\ \A g \in Pages : g \in DOMAIN m.dirs <=> o[g] \in Tops
  BY <1>6, <1>8
<1>13. Own(m, o)
  BY <1>7, <1>9, <1>10, <1>11, <1>12 DEF Own
<1>14. QED  BY <1>13 DEF m, o

\* The first process.
LEMMA FirstProcIs ==
  /\ FirstProc \in Process /\ FirstProc.kstack = 1 /\ FirstProc.pgdir = 2
  /\ FirstProc.nd = NoPage /\ FirstProc.np = 0 /\ FirstProc.pc = "user"
  /\ FirstProc.call = "none" /\ FirstProc.files = <<>> /\ FirstProc.ff = NoFile
  /\ FirstProc.state = "RUNNING" /\ FirstProc.cr3 = 2 /\ FirstProc.sz = PGSIZE
  /\ FirstProc.a = 0 /\ FirstProc.to = 0
  /\ \A fd \in Fds : FirstProc.ofile[fd] = None
<1>1. 1 \in Slot /\ 2 \in Slot /\ PGSIZE \in Nat
  BY MemoryAssumption DEF Slot, Pages
<1>2. NoProc \in Process
  BY NoProcIs
<1>3. FirstProc \in Process
  BY <1>1, <1>2 DEF FirstProc, Process
<1>4. QED  BY <1>3 DEF FirstProc, NoProc

\* One page of the size of a page.
LEMMA OnePage == Pgs(PGSIZE) = 1 /\ PGSIZE <= KERNBASE /\ PGSIZE \in Nat
<1>1. PGSIZE \in Nat \ {0} /\ KERNBASE \in Nat \ {0} /\ KERNBASE % PGSIZE = 0
  BY MemoryAssumption
<1>2. Pgs(PGSIZE) \in Nat /\ PGSIZE <= Pgs(PGSIZE) * PGSIZE /\ Pgs(PGSIZE) * PGSIZE < PGSIZE + PGSIZE
  BY <1>1, RoundUp
<1>3. Pgs(PGSIZE) = 1
  <2>1. PICK k : k = Pgs(PGSIZE)
    OBVIOUS
  <2>2. k \in Nat /\ PGSIZE <= k * PGSIZE /\ k * PGSIZE < PGSIZE + PGSIZE
    BY <1>2, <2>1
  <2>3. k # 0
    BY <1>1, <2>2
  <2>4. k < 2
    <3>1. CASE k >= 2
      <4>1. PICK j : j = k - 2
        OBVIOUS
      <4>2. j \in Nat /\ k = j + 2
        BY <2>2, <3>1, <4>1
      <4>3. k * PGSIZE = j * PGSIZE + (PGSIZE + PGSIZE) /\ j * PGSIZE \in Nat
        BY <1>1, <4>2
      <4>4. QED  BY <1>1, <2>2, <4>3
    <3>2. QED  BY <2>2, <3>1
  <2>5. QED  BY <2>1, <2>2, <2>3, <2>4
<1>4. PGSIZE <= KERNBASE
  <2> DEFINE k == KERNBASE \div PGSIZE
  <2>1. k \in Nat /\ KERNBASE = PGSIZE * k
    BY <1>1, Division
  <2> HIDE DEF k
  <2>2. k # 0
    BY <1>1, <2>1
  <2>3. QED  BY <1>1, <2>1, <2>2
<1>5. QED  BY <1>1, <1>3, <1>4

\* Init in the words of the invariant.
LEMMA InitIs ==
  ASSUME Init
  PROVE  /\ mm = FirstMem /\ DOMAIN pipes = {} /\ pipes = [page \in {} |-> BOOLEAN]
         /\ ftable = [f \in FileIds |-> NoFile] /\ calls = 0 /\ panicked = FALSE
         /\ pr = [p \in Procs |-> IF p = Init1 THEN FirstProc ELSE NoProc]
BY DEF Init

\* The fields of a free slot.
LEMMA NoProcFields ==
  /\ NoProc.state = "UNUSED" /\ NoProc.sz = 0 /\ NoProc.pc = "user"
  /\ NoProc.files = <<>> /\ NoProc.ff = NoFile /\ NoProc.np = 0
  /\ NoProc.kstack = NoPage /\ NoProc.pgdir = NoPage /\ NoProc.nd = NoPage
  /\ \A fd \in Fds : NoProc.ofile[fd] = None
BY DEF NoProc

\* The first process obeys the control.
LEMMA FirstControl == Control(FirstProc)
<1>1. FirstProc.kstack # NoPage /\ FirstProc.pgdir # NoPage
  BY FirstProcIs DEF NoPage
<1>2. QED  BY <1>1, FirstProcIs DEF Control

\* The first processes have the room they need.
LEMMA FirstRoom == Room(FirstMem, FirstProc) /\ Room(FirstMem, NoProc) /\ Low(FirstMem, 2)
<1>1. 0 .. 1 - 1 = {0}
  OBVIOUS
<1>2. DOMAIN FirstMem.dirs[2].ptes = {0}
  BY FirstMemIs, FirstSpaceIs
<1>3. Covers(FirstMem, 2, Pgs(PGSIZE))
  BY <1>1, <1>2, OnePage DEF Covers
<1>4. Space(FirstMem, FirstProc)
  BY <1>3, OnePage, FirstProcIs DEF Space, Filled
<1>5. 0 <= KERNBASE /\ 0 * PGSIZE < KERNBASE
  BY MemoryAssumption
<1>6. Space(FirstMem, NoProc)
  BY <1>5, NoProcFields DEF Space
<1>7. QED  BY <1>2, <1>4, <1>5, <1>6, FirstProcIs, NoProcFields DEF Room, Low

\* The owners of the first pages agree with the slots.
LEMMA FirstHolds ==
  ASSUME NEW p \in Procs
  PROVE  Holds(FirstOwner, p, IF p = Init1 THEN FirstProc ELSE NoProc)
<1>1. KernTables \in Nat \ {0} /\ NoPage \notin Pages /\ NoPage = 0
  BY MemoryAssumption DEF Pages, NoPage
<1>2. ASSUME NEW g \in Pages
      PROVE  /\ g = 1 <=> FirstOwner[g] = StackOf(Init1)
             /\ g = 2 <=> FirstOwner[g] = SpaceOf(Init1)
             /\ p # Init1 => FirstOwner[g] # StackOf(p) /\ FirstOwner[g] # SpaceOf(p)
             /\ FirstOwner[g] # DraftOf(p)
             /\ FirstOwner[g] # Ring /\ FirstOwner[g] # Hand
  <2>1. g \in Nat /\ Init1 \in Procs
    BY ResourcesAssumption DEF Pages, Procs, Init1
  <2>2. /\ StackOf(p) \in Outer /\ SpaceOf(p) \in Outer /\ DraftOf(p) \in Outer
        /\ StackOf(Init1) \in Outer /\ SpaceOf(Init1) \in Outer
        /\ Ring \in Outer /\ Hand \in Outer
    BY <2>1, Outers
  <2>3. CASE FirstOwner[g] \notin Outer /\ g # 1 /\ g # 2
    BY <2>2, <2>3
  <2>4. CASE g = 1 /\ FirstOwner[g] = StackOf(Init1)
    BY <2>4, Outers
  <2>5. CASE g = 2 /\ FirstOwner[g] = SpaceOf(Init1)
    BY <2>5, Outers
  <2>6. CASE g = KernTables + 4 /\ FirstOwner[g] = PageIn(2, 0)
    <3>1. g # 1 /\ g # 2
      BY <1>1, <2>6
    <3>2. FirstOwner[g] \notin Outer
      BY <2>6, Tokens
    <3>3. QED  BY <2>3, <3>1, <3>2
  <2>7. CASE \E i \in -KernTables .. 0 : g = FirstSpace.tables[i] /\ FirstOwner[g] = TableOf(2, i)
    <3>1. PICK i \in -KernTables .. 0 : g = FirstSpace.tables[i] /\ FirstOwner[g] = TableOf(2, i)
      BY <2>7
    <3>2. FirstOwner[g] \notin Outer
      BY <3>1, Tokens
    <3>3. g = IF i = 0 THEN KernTables + 3 ELSE 2 - i
      BY <3>1, FirstSpaceIs
    <3>4. g # 1 /\ g # 2
      BY <1>1, <3>3
    <3>5. QED  BY <2>3, <3>2, <3>4
  <2>8. CASE g > KernTables + 4 /\ FirstOwner[g] = Idle
    <3>1. g # 1 /\ g # 2
      BY <1>1, <2>1, <2>8
    <3>2. QED  BY <2>3, <2>8, <3>1, Tokens
  <2>9. QED  BY <2>4, <2>5, <2>6, <2>7, <2>8, FirstPages
<1>3. CASE p = Init1
  <2>1. FirstProc.kstack = 1 /\ FirstProc.pgdir = 2 /\ FirstProc.nd = NoPage
    BY FirstProcIs
  <2>2. QED  BY <1>1, <1>2, <1>3, <2>1 DEF Holds
<1>4. CASE p # Init1
  BY <1>1, <1>2, <1>4, NoProcFields DEF Holds
<1>5. QED  BY <1>3, <1>4

\* Nobody owns a pipe or holds a page in its hand at the start.
LEMMA FirstHeap ==
  ASSUME Init
  PROVE  HeapInv
<1>1. ASSUME NEW g \in Pages
      PROVE  FirstOwner[g] # Ring /\ FirstOwner[g] # Hand
  <2>1. Init1 \in Procs
    BY ResourcesAssumption DEF Procs, Init1
  <2>2. Ring \in Outer /\ Hand \in Outer
    BY Outers
  <2>3. QED  BY <2>1, <2>2, FirstPages, Tokens, Outers
<1>2. ASSUME NEW p \in Procs
      PROVE  Holds(FirstOwner, p, pr[p])
  BY FirstHolds, InitIs
<1>3. Heap(mm, FirstOwner, pr, DOMAIN pipes, {})
  BY <1>1, <1>2, InitIs, FirstOwn, FirstMemIs DEF Heap
<1>4. QED  BY <1>3 DEF HeapInv

\* No file is open at the start.
LEMMA FirstFiles ==
  ASSUME Init
  PROVE  FileInv
<1>1. ASSUME NEW p \in Procs
      PROVE  /\ pr[p].files = <<>> /\ pr[p].ff = NoFile /\ pr[p].pc = "user"
             /\ \A fd \in Fds : pr[p].ofile[fd] = None
  BY InitIs, FirstProcIs, NoProcFields
<1>2. ASSUME NEW p \in Procs, NEW x \in Places
      PROVE  KeptBy(pr[p], x) = None
  <2>1. NOFILE \in Nat /\ x \in Nat
    BY ResourcesAssumption DEF Places
  <2>2. CASE x < NOFILE
    <3>1. x \in Fds
      BY <2>1, <2>2 DEF Fds
    <3>2. QED  BY <1>1, <2>2, <3>1 DEF KeptBy
  <2>3. CASE ~(x < NOFILE)
    <3>1. Len(pr[p].files) = 0
      BY <1>1
    <3>2. ~(x - NOFILE < Len(pr[p].files))
      BY <2>1, <2>3, <3>1
    <3>3. QED  BY <2>3, <3>2 DEF KeptBy
  <2>4. QED  BY <2>2, <2>3
<1>3. ASSUME NEW f \in FileIds
      PROVE  Count(Refs(pr), f) = 0
  <2>1. f # None
    BY ResourcesAssumption
  <2>2. ASSUME NEW e \in Cells
        PROVE  Refs(pr)[e] # f
    BY <1>2, <2>1 DEF Refs, Cells
  <2>3. {e \in Cells : Refs(pr)[e] = f} = {}
    BY <2>2
  <2>4. QED  BY <2>3, FS_EmptySet DEF Count
<1>4. ASSUME NEW f \in FileIds
      PROVE  ftable[f].ref = 0 /\ ftable[f].type = "NONE"
  BY InitIs DEF NoFile
<1>5. ASSUME NEW e \in EndIds
      PROVE  Ends(ftable, pr)[e].type # "PIPE"
  <2>1. NoFile.type # "PIPE"
    BY DEF NoFile
  <2>2. CASE e <= NFILE
    BY <1>4, <2>2, EndIs DEF Ends
  <2>3. CASE ~(e <= NFILE)
    BY <1>1, <2>1, <2>3, EndIs DEF Ends
  <2>4. QED  BY <2>2, <2>3
<1>6. Counted(ftable, Refs(pr)) /\ Shut(ftable)
  BY <1>3, <1>4 DEF Counted, Shut
<1>7. Fresh(ftable, pr)
  BY <1>1 DEF Fresh
<1>8. Ended(Ends(ftable, pr), pipes)
  BY <1>5, InitIs DEF Ended, Stands
<1>9. QED  BY <1>6, <1>7, <1>8 DEF FileInv

\* The invariant holds after userinit().
LEMMA InitInv ==
  ASSUME Init
  PROVE  Inv
<1>1. NoFile \in File
  BY DEF NoFile, File
<1>2. TypeOK
  <2>1. pr \in [Procs -> Process]
    BY InitIs, FirstProcIs, NoProcIs
  <2>2. ftable \in [FileIds -> File]
    BY <1>1, InitIs
  <2>3. QED  BY <2>1, <2>2, InitIs DEF TypeOK
<1>3. Controlled(pr)
  <2>1. ASSUME NEW p \in Procs
        PROVE  Control(pr[p]) /\ pr[p].np = 0
    BY InitIs, FirstControl, FirstProcIs, NoProcIs
  <2>2. QED  BY <2>1 DEF Controlled
<1>4. SpaceInv
  <2>1. ASSUME NEW p \in Procs
        PROVE  Room(mm, pr[p])
    BY InitIs, FirstRoom
  <2>2. \A d \in DOMAIN mm.dirs : Low(mm, d)
    BY InitIs, FirstRoom, FirstMemIs
  <2>3. QED  BY <2>1, <2>2, InitIs DEF SpaceInv, Roomy
<1>5. QED  BY <1>2, <1>3, <1>4, FirstHeap, FirstFiles DEF Inv

-----------------------------------------------------------------------------
\* A process that has been emptied makes the kernel panic.
Panics(p) == Emptied(p) /\ panicked' = TRUE /\ UNCHANGED <<mm, fileVars, pr, calls>>

\* copyuvm() misses a page only of a process that has been emptied.
LEMMA CopyPagePanics ==
  ASSUME Inv, NEW p \in Procs, CopyPage(p),
         Vpn(pr[p].a) \notin DOMAIN mm.dirs[pr[p].pgdir].ptes
  PROVE  Panics(p)
<1> DEFINE v == Vpn(pr[p].a)
           ptes == DOMAIN mm.dirs[pr[p].pgdir].ptes
<1>1. pr[p].a \in Nat /\ pr[p].sz \in Nat
  BY OfProcess
<1>2. pr[p].pc = "copy" /\ pr[p].call = "fork" /\ pr[p].a < pr[p].sz
  BY OfProcess DEF CopyPage, Control
<1>3. /\ pr[p].state = "RUNNING" /\ Filled(mm, pr[p].pgdir, Pgs(pr[p].sz))
      /\ Copying(mm, pr[p])
  BY <1>2, Forking DEF Room
<1>4. v \in Nat /\ v * PGSIZE < pr[p].sz
  BY <1>1, <1>2, <1>3, PageOf DEF Copying
<1>5. v < Pgs(pr[p].sz) /\ Pgs(pr[p].sz) \in Nat
  BY <1>1, <1>4, PageBelow, RoundUp
<1> HIDE DEF v
<1>6. v \in 0 .. Pgs(pr[p].sz) - 1
  BY <1>4, <1>5
<1>7. 0 \notin ptes
  BY <1>3, <1>6 DEF Filled, Covers, v
<1>8. panicked' = TRUE /\ UNCHANGED <<mm, fileVars, pr, calls>>
  BY DEF CopyPage
<1>9. QED  BY <1>3, <1>7, <1>8 DEF Panics, Emptied

\* A step of a process that starts a call, or that waits or exits.
LEMMA CallStepInv ==
  ASSUME Inv, NEW p \in Procs, CallStep(p), ~ArgumentFault(p)
  PROVE  Inv'
<1>1. CASE Fork(p)
  BY <1>1, ForkStep
<1>2. CASE Open(p)
  BY <1>2, OpenStep
<1>3. CASE Pipe(p)
  BY <1>3, PipeStep
<1>4. CASE Exit(p)
  BY <1>4, ExitStep
<1>5. CASE \E fd \in Fds : Dup(p, fd)
  BY <1>5, DupStep
<1>6. CASE \E fd \in Fds : Close(p, fd)
  BY <1>6, CloseStep
<1>7. CASE \E k \in Increments : SbrkGrow(p, k)
  BY <1>7, SbrkGrowStep
<1>8. CASE \E k \in Increments : SbrkShrink(p, k)
  BY <1>8, SbrkShrinkStep
<1>9. CASE \E prog \in Programs : Exec(p, prog)
  BY <1>9, ExecStep
<1>10. CASE \E c \in Procs : Wait(p, c)
  BY <1>10, WaitStep
<1>11. QED
  BY <1>1, <1>2, <1>3, <1>4, <1>5, <1>6, <1>7, <1>8, <1>9, <1>10 DEF CallStep, Sbrk

\* A step inside a call.
LEMMA InnerStepInv ==
  ASSUME Inv, NEW p \in Procs, InnerStep(p), ~Panics(p)
  PROVE  Inv'
<1>1. CASE SetupDir(p) \/ SetupTable(p)
  BY <1>1, SetupDirStep, SetupTableStep
<1>2. CASE ForkStack(p) \/ CopyPage(p) \/ CopyDone(p)
  BY <1>2, ForkStackStep, CopyPageStep, CopyPagePanics, CopyDoneStep
<1>3. CASE DupFile(p) \/ ForkDone(p)
  BY <1>3, DupFileStep, ForkDoneStep
<1>4. CASE GrowPage(p) \/ SbrkGrown(p)
  BY <1>4, GrowPageStep, SbrkGrownStep
<1>5. CASE LoadSegment(p) \/ SegmentLoaded(p) \/ LoadDone(p)
  BY <1>5, LoadSegmentStep, SegmentLoadedStep, LoadDoneStep
<1>6. CASE ExecCommit(p) \/ switchuvm(p) \/ ExecDone(p)
  BY <1>6, ExecCommitStep, SwitchStep, ExecDoneStep
<1>7. CASE FileClose(p) \/ FileCloseRest(p) \/ CloseDone(p)
  BY <1>7, FileCloseStep, FileCloseRestStep, CloseDoneStep
<1>8. CASE PipeFile(p) \/ PipePage(p)
  BY <1>8, PipeFileStep, PipePageStep
<1>9. CASE ExitFile(p) \/ ExitDone(p)
  BY <1>9, ExitFileStep, ExitDoneStep
<1>10. QED
  BY <1>1, <1>2, <1>3, <1>4, <1>5, <1>6, <1>7, <1>8, <1>9 DEF InnerStep

\* A step in which nothing happens.
LEMMA StutterInv ==
  ASSUME Inv, UNCHANGED vars
  PROVE  Inv'
BY DEF vars, Inv, TypeOK, HeapInv, SpaceInv, FileInv

-----------------------------------------------------------------------------
\* A page with an owner has one use.
LEMMA OneUse ==
  ASSUME Inv, NEW g \in Pages
  PROVE  Cardinality(Uses(g)) = 1
<1> DEFINE A == {<<"free">> : x \in {g} \cap mm.free}
           B == {<<"lost">> : x \in {g} \cap mm.lost}
           C == {<<"pipe">> : x \in {g} \cap DOMAIN pipes}
           D == {<<"stack", p>> : p \in {q \in Procs : pr[q].kstack = g}}
           E == {<<"dir", d>> : d \in DOMAIN mm.dirs \cap {g}}
           F == UNION {{<<"table", d, i>> : i \in {j \in DOMAIN mm.dirs[d].tables :
                                                     mm.dirs[d].tables[j] = g}}
                         : d \in DOMAIN mm.dirs}
           G == UNION {{<<"pte", d, v>> : v \in {w \in DOMAIN mm.dirs[d].ptes :
                                                   mm.dirs[d].ptes[w] = g}}
                         : d \in DOMAIN mm.dirs}
<1>1. PICK o : Heap(mm, o, pr, DOMAIN pipes, {})
  BY DEF Inv, HeapInv
<1>2. IsMem(mm) /\ Own(mm, o) /\ o[g] \in Owner /\ DOMAIN mm.dirs \subseteq Pages
  BY <1>1 DEF Heap, Own, IsMem
<1>3. ASSUME NEW d \in DOMAIN mm.dirs
      PROVE  DOMAIN mm.dirs[d].tables \subseteq Int /\ DOMAIN mm.dirs[d].ptes \subseteq Nat
  BY <1>2 DEF IsMem, IsDir
<1>4. Uses(g) = A \cup B \cup C \cup D \cup E \cup F \cup G
  BY DEF Uses
<1>5. (o[g] = Idle => A = {<<"free">>}) /\ (o[g] # Idle => A = {})
  BY <1>2 DEF Own
<1>6. (o[g] = Astray => B = {<<"lost">>}) /\ (o[g] # Astray => B = {})
  BY <1>2 DEF Own
<1>7. (o[g] = Ring => C = {<<"pipe">>}) /\ (o[g] # Ring => C = {})
  BY <1>1 DEF Heap
<1>8. /\ \A p \in Procs : o[g] = StackOf(p) => D = {<<"stack", p>>}
      /\ (\A p \in Procs : o[g] # StackOf(p)) => D = {}
  <2>1. ASSUME NEW p \in Procs
        PROVE  pr[p].kstack = g <=> o[g] = StackOf(p)
    BY <1>1 DEF Heap, Holds
  <2>2. ASSUME NEW p \in Procs, o[g] = StackOf(p)
        PROVE  D = {<<"stack", p>>}
    <3>1. {q \in Procs : pr[q].kstack = g} = {p}
      BY <2>1, <2>2, Outers
    <3>2. QED  BY <3>1
  <2>3. ASSUME \A p \in Procs : o[g] # StackOf(p)
        PROVE  D = {}
    BY <2>1, <2>3
  <2>4. QED  BY <2>2, <2>3
<1>9. (o[g] \in Tops => E = {<<"dir", g>>}) /\ (o[g] \notin Tops => E = {})
  BY <1>2 DEF Own
<1>10. /\ \A d \in Pages, i \in Int : o[g] = TableOf(d, i) => F = {<<"table", d, i>>}
       /\ (\A d \in Pages, i \in Int : o[g] # TableOf(d, i)) => F = {}
  <2>1. ASSUME NEW d \in DOMAIN mm.dirs, NEW i \in DOMAIN mm.dirs[d].tables,
               mm.dirs[d].tables[i] = g
        PROVE  d \in Pages /\ i \in Int /\ o[g] = TableOf(d, i)
    BY <1>2, <1>3, <2>1 DEF Own
  <2>2. ASSUME NEW d \in Pages, NEW i \in Int, o[g] = TableOf(d, i)
        PROVE  d \in DOMAIN mm.dirs /\ i \in DOMAIN mm.dirs[d].tables
               /\ mm.dirs[d].tables[i] = g
    BY <1>2, <2>2 DEF Own
  <2>3. ASSUME NEW d \in Pages, NEW i \in Int, o[g] = TableOf(d, i)
        PROVE  F = {<<"table", d, i>>}
    <3>1. <<"table", d, i>> \in F
      BY <2>2, <2>3
    <3>2. ASSUME NEW u \in F
          PROVE  u = <<"table", d, i>>
      <4>1. PICK e \in DOMAIN mm.dirs : u \in {<<"table", e, j>> :
              j \in {k \in DOMAIN mm.dirs[e].tables : mm.dirs[e].tables[k] = g}}
        BY <3>2
      <4>2. PICK j \in DOMAIN mm.dirs[e].tables : mm.dirs[e].tables[j] = g /\ u = <<"table", e, j>>
        BY <4>1
      <4>3. o[g] = TableOf(e, j)
        BY <2>1, <4>2
      <4>4. TableOf(e, j) = TableOf(d, i) => e = d /\ j = i
        BY Tokens, Zenon
      <4>5. QED  BY <2>3, <4>2, <4>3, <4>4
    <3>3. QED  BY <3>1, <3>2
  <2>4. ASSUME \A d \in Pages, i \in Int : o[g] # TableOf(d, i)
        PROVE  F = {}
    <3>1. ASSUME NEW e \in DOMAIN mm.dirs
          PROVE  {j \in DOMAIN mm.dirs[e].tables : mm.dirs[e].tables[j] = g} = {}
      BY <2>1, <2>4
    <3>2. QED  BY <3>1
  <2>5. QED  BY <2>3, <2>4
<1>11. /\ \A d \in Pages, v \in Nat : o[g] = PageIn(d, v) => G = {<<"pte", d, v>>}
       /\ (\A d \in Pages, v \in Nat : o[g] # PageIn(d, v)) => G = {}
  <2>1. ASSUME NEW d \in DOMAIN mm.dirs, NEW v \in DOMAIN mm.dirs[d].ptes,
               mm.dirs[d].ptes[v] = g
        PROVE  d \in Pages /\ v \in Nat /\ o[g] = PageIn(d, v)
    BY <1>2, <1>3, <2>1 DEF Own
  <2>2. ASSUME NEW d \in Pages, NEW v \in Nat, o[g] = PageIn(d, v)
        PROVE  d \in DOMAIN mm.dirs /\ v \in DOMAIN mm.dirs[d].ptes
               /\ mm.dirs[d].ptes[v] = g
    BY <1>2, <2>2 DEF Own
  <2>3. ASSUME NEW d \in Pages, NEW v \in Nat, o[g] = PageIn(d, v)
        PROVE  G = {<<"pte", d, v>>}
    <3>1. <<"pte", d, v>> \in G
      BY <2>2, <2>3
    <3>2. ASSUME NEW u \in G
          PROVE  u = <<"pte", d, v>>
      <4>1. PICK e \in DOMAIN mm.dirs : u \in {<<"pte", e, j>> :
              j \in {k \in DOMAIN mm.dirs[e].ptes : mm.dirs[e].ptes[k] = g}}
        BY <3>2
      <4>2. PICK j \in DOMAIN mm.dirs[e].ptes : mm.dirs[e].ptes[j] = g /\ u = <<"pte", e, j>>
        BY <4>1
      <4>3. o[g] = PageIn(e, j)
        BY <2>1, <4>2
      <4>4. PageIn(e, j) = PageIn(d, v) => e = d /\ j = v
        BY Tokens, Zenon
      <4>5. QED  BY <2>3, <4>2, <4>3, <4>4
    <3>3. QED  BY <3>1, <3>2
  <2>4. ASSUME \A d \in Pages, v \in Nat : o[g] # PageIn(d, v)
        PROVE  G = {}
    <3>1. ASSUME NEW e \in DOMAIN mm.dirs
          PROVE  {j \in DOMAIN mm.dirs[e].ptes : mm.dirs[e].ptes[j] = g} = {}
      BY <2>1, <2>4
    <3>2. QED  BY <3>1
  <2>5. QED  BY <2>3, <2>4
<1> HIDE DEF A, B, C, D, E, F, G
<1>12. \E t : Uses(g) = {t}
  <2>1. CASE o[g] = Idle
    <3>1. /\ o[g] \notin Outer /\ o[g] # Astray
          /\ \A d, i : o[g] # TableOf(d, i) /\ o[g] # PageIn(d, i)
      BY <2>1, Tokens
    <3>2. o[g] # Ring /\ o[g] \notin Tops /\ \A p \in Procs : o[g] # StackOf(p)
      BY <3>1, Outers, Tokens
    <3>3. QED  BY <1>4, <1>5, <1>6, <1>7, <1>8, <1>9, <1>10, <1>11, <2>1, <3>1, <3>2
  <2>2. CASE o[g] = Astray
    <3>1. /\ o[g] \notin Outer /\ o[g] # Idle
          /\ \A d, i : o[g] # TableOf(d, i) /\ o[g] # PageIn(d, i)
      BY <2>2, Tokens
    <3>2. o[g] # Ring /\ o[g] \notin Tops /\ \A p \in Procs : o[g] # StackOf(p)
      BY <3>1, Outers, Tokens
    <3>3. QED  BY <1>4, <1>5, <1>6, <1>7, <1>8, <1>9, <1>10, <1>11, <2>2, <3>1, <3>2
  <2>3. CASE \E d \in Pages, i \in Int : o[g] = TableOf(d, i)
    <3>1. PICK d \in Pages, i \in Int : o[g] = TableOf(d, i)
      BY <2>3
    <3>2. o[g] \notin Outer /\ o[g] # Idle /\ o[g] # Astray /\ \A e, j : o[g] # PageIn(e, j)
      BY <3>1, Tokens
    <3>3. o[g] # Ring /\ o[g] \notin Tops /\ \A p \in Procs : o[g] # StackOf(p)
      BY <3>2, Outers, Tokens
    <3>4. F = {<<"table", d, i>>}
      BY <1>10, <3>1
    <3>5. QED  BY <1>4, <1>5, <1>6, <1>7, <1>8, <1>9, <1>11, <3>2, <3>3, <3>4
  <2>4. CASE \E d \in Pages, v \in Nat : o[g] = PageIn(d, v)
    <3>1. PICK d \in Pages, v \in Nat : o[g] = PageIn(d, v)
      BY <2>4
    <3>2. o[g] \notin Outer /\ o[g] # Idle /\ o[g] # Astray /\ \A e, j : o[g] # TableOf(e, j)
      BY <3>1, Tokens
    <3>3. o[g] # Ring /\ o[g] \notin Tops /\ \A p \in Procs : o[g] # StackOf(p)
      BY <3>2, Outers, Tokens
    <3>4. G = {<<"pte", d, v>>}
      BY <1>11, <3>1
    <3>5. QED  BY <1>4, <1>5, <1>6, <1>7, <1>8, <1>9, <1>10, <3>2, <3>3, <3>4
  <2>5. CASE o[g] \in Outer
    <3>1. /\ o[g] # Idle /\ o[g] # Astray
          /\ \A d, i : o[g] # TableOf(d, i) /\ o[g] # PageIn(d, i)
      BY <2>5, Tokens
    <3>2. A = {} /\ B = {} /\ F = {} /\ G = {}
      BY <1>5, <1>6, <1>10, <1>11, <3>1
    <3>3. CASE o[g] = Ring
      <4>1. o[g] \notin Tops /\ \A p \in Procs : o[g] # StackOf(p)
        BY <3>3, Outers, Tokens
      <4>2. QED  BY <1>4, <1>7, <1>8, <1>9, <3>2, <3>3, <4>1
    <3>4. CASE \E p \in Procs : o[g] = StackOf(p)
      <4>1. PICK p \in Procs : o[g] = StackOf(p)
        BY <3>4
      <4>2. o[g] \notin Tops /\ o[g] # Ring
        BY <4>1, Outers, Tokens
      <4>3. D = {<<"stack", p>>}
        BY <1>8, <4>1
      <4>4. QED  BY <1>4, <1>7, <1>9, <3>2, <4>2, <4>3
    <3>5. CASE o[g] \in Tops
      <4>1. o[g] # Ring /\ \A p \in Procs : o[g] # StackOf(p)
        BY <3>5, Outers, Tokens
      <4>2. QED  BY <1>4, <1>7, <1>8, <1>9, <3>2, <3>5, <4>1
    <3>6. o[g] # Hand
      BY <1>1 DEF Heap
    <3>7. QED  BY <2>5, <3>3, <3>4, <3>5, <3>6 DEF Outer, Kernel
  <2>6. \/ o[g] \in Outer \/ o[g] = Idle \/ o[g] = Astray
        \/ \E d \in Pages, i \in Int : o[g] = TableOf(d, i)
        \/ \E d \in Pages, v \in Nat : o[g] = PageIn(d, v)
    BY <1>2 DEF Owner
  <2>7. QED  BY <2>1, <2>2, <2>3, <2>4, <2>5, <2>6
<1>13. QED  BY <1>12, FS_Singleton

\* A directory belongs to one process, as its address space or as the one that
\* it builds or drops.
LEMMA OneProcess ==
  ASSUME Inv, NEW d \in DOMAIN mm.dirs
  PROVE  Cardinality({p \in Procs : pr[p].pgdir = d}
                     \cup {p + NPROC : p \in {q \in Procs : pr[q].nd = d}}) = 1
<1> DEFINE S == {p \in Procs : pr[p].pgdir = d}
           N == {q \in Procs : pr[q].nd = d}
<1>1. PICK o : Heap(mm, o, pr, DOMAIN pipes, {})
  BY DEF Inv, HeapInv
<1>2. IsMem(mm) /\ Own(mm, o) /\ d \in Pages
  BY <1>1 DEF Heap, IsMem
<1>3. o[d] \in Tops
  BY <1>2 DEF Own
<1>4. ASSUME NEW p \in Procs
      PROVE  (pr[p].pgdir = d <=> o[d] = SpaceOf(p)) /\ (pr[p].nd = d <=> o[d] = DraftOf(p))
  BY <1>1, <1>2 DEF Heap, Holds
<1>5. CASE \E p \in Procs : o[d] = SpaceOf(p)
  <2>1. PICK p \in Procs : o[d] = SpaceOf(p)
    BY <1>5
  <2>2. S = {p} /\ N = {}
    BY <1>4, <2>1, Outers
  <2>3. S \cup {q + NPROC : q \in N} = {p}
    BY <2>2
  <2>4. QED  BY <2>3, FS_Singleton
<1>6. CASE \E p \in Procs : o[d] = DraftOf(p)
  <2>1. PICK p \in Procs : o[d] = DraftOf(p)
    BY <1>6
  <2>2. S = {} /\ N = {p}
    BY <1>4, <2>1, Outers
  <2>3. S \cup {q + NPROC : q \in N} = {p + NPROC}
    BY <2>2
  <2>4. QED  BY <2>3, FS_Singleton
<1>7. QED  BY <1>3, <1>5, <1>6 DEF Tops

\* The accounts of pages follow from the invariant.
LEMMA PagesOfInv ==
  ASSUME Inv
  PROVE  PagesAreAccounted
<1>1. mm.twice = {}
  BY DEF Inv, HeapInv, Heap
<1>2. QED  BY <1>1, OneUse, OneProcess DEF PagesAreAccounted

\* So do the address spaces,
LEMMA SpacesOfInv ==
  ASSUME Inv
  PROVE  SpacesAreWhole
<1>1. ~panicked
  BY DEF Inv, SpaceInv
<1>2. ASSUME NEW p \in Procs, CanCall(p)
      PROVE  LET mapped == DOMAIN mm.dirs[pr[p].pgdir].ptes
                 below == 0 .. Vpn(PGROUNDUP(pr[p].sz)) - 1
             IN  mapped \subseteq below /\ (mapped = below \/ Emptied(p))
  BY <1>2, Caller DEF Filled, Covers, Pgs, Emptied
<1>3. ASSUME NEW p \in Procs, pr[p].state = "RUNNING"
      PROVE  pr[p].cr3 \in DOMAIN mm.dirs
  <2>1. PICK o : Heap(mm, o, pr, DOMAIN pipes, {})
    BY DEF Inv, HeapInv
  <2>2. pr[p] \in Process /\ Control(pr[p]) /\ Room(mm, pr[p])
    BY OfProcess
  <2>3. pr[p].pgdir # NoPage /\ (pr[p].pc = "switch" => pr[p].nd # NoPage)
    BY <1>3, <2>2 DEF Control
  <2>4. pr[p].cr3 = IF pr[p].pc = "switch" THEN pr[p].nd ELSE pr[p].pgdir
    BY <1>3, <2>2, <2>3 DEF Room, Space
  <2>5. pr[p].pgdir \in Slot /\ pr[p].nd \in Slot
    BY <2>2 DEF Process
  <2>6. pr[p].cr3 \in Pages /\ (pr[p].cr3 = pr[p].pgdir \/ pr[p].cr3 = pr[p].nd)
    BY <2>3, <2>4, <2>5 DEF Slot
  <2>7. QED  BY <2>1, <2>6, Somebodys DEF OnlySpace, OnlyDraft
<1>4. QED  BY <1>1, <1>2, <1>3 DEF SpacesAreWhole

\* and the counts of the files.
LEMMA FilesOfInv ==
  ASSUME Inv
  PROVE  FilesAreCounted
<1>1. \A f \in FileIds : ftable[f].ref = References(f)
  BY RefIs, InvFiles DEF Counted
<1>2. /\ Ended(Ends(ftable, pr), pipes)
      /\ \A page \in DOMAIN pipes : pipes[page] \subseteq BOOLEAN
  BY InvFiles DEF FilesTyped
<1>3. ASSUME NEW f \in FileIds
      PROVE  f \in EndIds /\ Ends(ftable, pr)[f] = ftable[f]
  BY EndIs DEF Ends
<1>4. ASSUME NEW p \in Procs
      PROVE  \E e \in EndIds : Ends(ftable, pr)[e] = pr[p].ff
  <2>1. PICK e : e = NFILE + p
    OBVIOUS
  <2>2. e \in EndIds /\ ~(e <= NFILE) /\ e - NFILE = p
    <3>1. e \in EndIds /\ ~(e <= NFILE)
      BY <2>1, EndIs
    <3>2. NFILE \in Nat /\ p \in Nat
      BY ResourcesAssumption DEF Procs
    <3>3. QED  BY <2>1, <3>1, <3>2
  <2>3. Ends(ftable, pr)[e] = pr[p].ff
    BY <2>2 DEF Ends
  <2>4. QED  BY <2>2, <2>3
<1>5. ASSUME NEW e \in EndIds
      PROVE  \/ \E f \in FileIds : Ends(ftable, pr)[e] = ftable[f]
             \/ \E p \in Procs : Ends(ftable, pr)[e] = pr[p].ff
  <2>1. CASE e <= NFILE
    <3>1. e \in FileIds
      BY <2>1, EndIs
    <3>2. Ends(ftable, pr)[e] = ftable[e]
      BY <2>1 DEF Ends
    <3>3. QED  BY <3>1, <3>2
  <2>2. CASE ~(e <= NFILE)
    <3>1. e - NFILE \in Procs
      BY <2>2, EndIs
    <3>2. Ends(ftable, pr)[e] = pr[e - NFILE].ff
      BY <2>2 DEF Ends
    <3>3. QED  BY <3>1, <3>2
  <2>3. QED  BY <2>1, <2>2
<1>6. ASSUME NEW page \in DOMAIN pipes, NEW w \in BOOLEAN
      PROVE  w \in pipes[page] <=> \/ \E f \in FileIds : Stands(ftable[f], page, w)
                                   \/ \E p \in Procs : Stands(pr[p].ff, page, w)
  <2>1. ASSUME w \in pipes[page]
        PROVE  \/ \E f \in FileIds : Stands(ftable[f], page, w)
               \/ \E p \in Procs : Stands(pr[p].ff, page, w)
    <3>1. PICK e \in EndIds : Stands(Ends(ftable, pr)[e], page, w)
      BY <1>2, <2>1 DEF Ended
    <3>2. QED  BY <1>5, <3>1
  <2>2. ASSUME NEW x, Stands(x, page, w), \E e \in EndIds : Ends(ftable, pr)[e] = x
        PROVE  w \in pipes[page]
    BY <1>2, <2>2 DEF Ended, Stands
  <2>3. ASSUME NEW f \in FileIds, Stands(ftable[f], page, w)
        PROVE  w \in pipes[page]
    BY <1>3, <2>2, <2>3
  <2>4. ASSUME NEW p \in Procs, Stands(pr[p].ff, page, w)
        PROVE  w \in pipes[page]
    BY <1>4, <2>2, <2>4
  <2>5. QED  BY <2>1, <2>3, <2>4
<1>7. QED  BY <1>1, <1>6 DEF FilesAreCounted, Stands

-----------------------------------------------------------------------------
\* A panic has stopped the kernel, in a state that was sound.
Stopped == panicked /\ PagesAreAccounted /\ SpacesAreWhole /\ FilesAreCounted

\* A panic changes nothing else.
LEMMA PanicStops ==
  ASSUME Inv, NEW p \in Procs, Panics(p)
  PROVE  Stopped'
<1>1. mm' = mm /\ ftable' = ftable /\ pipes' = pipes /\ pr' = pr /\ panicked' = TRUE
      /\ Emptied(p)
  BY DEF Panics, fileVars
<1>2. PagesAreAccounted'
  <2>1. PagesAreAccounted
    BY PagesOfInv
  <2>2. \A page \in Pages : Uses(page)' = Uses(page)
    BY <1>1 DEF Uses
  <2>3. QED  BY <1>1, <2>1, <2>2 DEF PagesAreAccounted
<1>3. SpacesAreWhole'
  BY <1>1, SpacesOfInv DEF SpacesAreWhole, CanCall, Emptied
<1>4. FilesAreCounted'
  BY <1>1, FilesOfInv DEF FilesAreCounted, References, Kept
<1>5. QED  BY <1>1, <1>2, <1>3, <1>4 DEF Stopped

\* No step of any process breaks the invariant, but for a panic.
LEMMA NextInv ==
  ASSUME Inv, [Next]_vars
  PROVE  Inv' \/ Stopped'
<1>1. ASSUME NEW p \in Procs, CallStep(p) PROVE Inv' \/ Stopped'
  <2>1. CASE ArgumentFault(p)
    BY <2>1, PanicStops DEF ArgumentFault, Panics
  <2>2. CASE ~ArgumentFault(p)
    BY <1>1, <2>2, CallStepInv
  <2>3. QED  BY <2>1, <2>2
<1>2. ASSUME NEW p \in Procs, InnerStep(p) PROVE Inv' \/ Stopped'
  BY <1>2, PanicStops, InnerStepInv
<1>3. CASE UNCHANGED vars
  BY <1>3, StutterInv
<1>4. QED  BY <1>1, <1>2, <1>3 DEF Next

\* After a panic nothing happens.
LEMMA StaysStopped ==
  ASSUME Stopped, [Next]_vars
  PROVE  Stopped'
<1>1. mm' = mm /\ ftable' = ftable /\ pipes' = pipes /\ pr' = pr /\ panicked' = panicked
  BY DEF Stopped, Next, vars
<1>2. PagesAreAccounted'
  <2>1. PagesAreAccounted
    BY DEF Stopped
  <2>2. \A page \in Pages : Uses(page)' = Uses(page)
    BY <1>1 DEF Uses
  <2>3. QED  BY <1>1, <2>1, <2>2 DEF PagesAreAccounted
<1>3. SpacesAreWhole'
  BY <1>1 DEF Stopped, SpacesAreWhole, CanCall, Emptied
<1>4. FilesAreCounted'
  BY <1>1 DEF Stopped, FilesAreCounted, References, Kept
<1>5. QED  BY <1>1, <1>2, <1>3, <1>4 DEF Stopped

\* Inv holds after userinit(), and every step of every system call keeps it
\* until one of an emptied process panics.
THEOREM Invariance == Spec => [](Inv \/ Stopped)
<1>1. Init => Inv \/ Stopped
  BY InitInv
<1>2. (Inv \/ Stopped) /\ [Next]_vars => (Inv \/ Stopped)'
  BY NextInv, StaysStopped
<1>3. QED  BY <1>1, <1>2, PTL DEF Spec

\* However fork(), exec(), sbrk(), pipe(), exit() and wait() of the processes
\* interleave, and wherever they run out of pages, every page is free or has
\* one use, no page is freed twice, and every directory has one process.
THEOREM PagesAccounted == Spec => []PagesAreAccounted
<1>1. Inv \/ Stopped => PagesAreAccounted
  BY PagesOfInv DEF Stopped
<1>2. QED  BY <1>1, Invariance, PTL

\* A process between calls has exactly the pages below its size, unless
\* sbrk(-sz) has emptied it; without such a process copyuvm() and loaduvm() find
\* the pages they panic without; and the CPU of a running process uses a
\* directory that has not been freed.
THEOREM SpacesWhole == Spec => []SpacesAreWhole
<1>1. Inv \/ Stopped => SpacesAreWhole
  BY SpacesOfInv DEF Stopped
<1>2. QED  BY <1>1, Invariance, PTL

\* The count of every open file is the number of descriptors and calls that
\* have it, and an end of a pipe is open exactly while a file stands for it.
THEOREM FilesCounted == Spec => []FilesAreCounted
<1>1. Inv \/ Stopped => FilesAreCounted
  BY FilesOfInv DEF Stopped
<1>2. QED  BY <1>1, Invariance, PTL

=============================================================================
