------------------------------- MODULE Memory -------------------------------
(***************************************************************************)
(* Physical pages and page tables: kalloc.c and vm.c.                      *)
(*                                                                         *)
(* Pages are interchangeable, so the free list is a set and kalloc() takes *)
(* its least element.  A page directory has tables and user entries, both  *)
(* partial functions; the kernel's own mappings are KernTables tables that *)
(* setupkvm() allocates.  Addresses are bytes.                             *)
(***************************************************************************)
EXTENDS Integers, FiniteSets, FiniteSetsExt, Functions

CONSTANTS
  NPages,      \* pages between end and PHYSTOP
  PGSIZE,
  NPTENTRIES,  \* entries of a page table
  KernTables,  \* page tables of the kernel's mappings
  KERNBASE,
  UintRange    \* uint arithmetic is modulo this

ASSUME MemoryAssumption ==
  /\ KernTables \in Nat \ {0}
  /\ NPages \in Nat /\ NPages >= KernTables + 4  \* userinit() needs these
  /\ PGSIZE \in Nat \ {0} /\ NPTENTRIES \in Nat \ {0}
  /\ KERNBASE \in Nat \ {0} /\ KERNBASE % PGSIZE = 0
  /\ UintRange \in Nat /\ 2 * KERNBASE <= UintRange

VARIABLE
  mm  \* [free, dirs, lost, twice]: the free list; page -> the directory in it;
      \* history: pages nobody refers to any more; pages freed while free

Pages == 1 .. NPages
NoPage == 0

PGROUNDUP(a) == ((a + PGSIZE - 1) \div PGSIZE) * PGSIZE
Vpn(a) == a \div PGSIZE

NoDir == LET none == [x \in {} |-> NoPage]
         IN  [tables |-> none, ptes |-> none, guard |-> {}]

\* f and, where it has no value, y at x.
With(f, x, y) == [z \in DOMAIN f \cup {x} |-> IF z \in DOMAIN f THEN f[z] ELSE y]

-----------------------------------------------------------------------------
(* kalloc.c.  The operators give the memory after the call.                *)

\* The page kalloc() returns: 0 when there is none.
kalloc(m) == IF m.free = {} THEN NoPage ELSE Min(m.free)

Taken(m) == [m EXCEPT !.free = @ \ {kalloc(m)}]

\* kfree() of each of the pages.
kfree(m, pages) ==
  [m EXCEPT !.free = @ \cup pages, !.twice = @ \cup (pages \cap m.free)]

-----------------------------------------------------------------------------
(* vm.c                                                                    *)

\* kalloc() of a directory in setupkvm().
DirTaken(m) == [Taken(m) EXCEPT !.dirs = With(@, kalloc(m), NoDir)]

\* Page table i of directory d; the kernel's tables are -1, -2, ...
TableTaken(m, d, i) ==
  [Taken(m) EXCEPT !.dirs[d].tables = With(@, i, kalloc(m))]

\* walkpgdir(d, v, 1) has or gets a page table for page v of the user's space.
HasTable(m, d, v) == (v \div NPTENTRIES) \in DOMAIN m.dirs[d].tables
CanWalk(m, d, v) == HasTable(m, d, v) \/ m.free # {}

\* mappages() of one page, when CanWalk.
mappages(m, d, v, page) ==
  LET w == IF HasTable(m, d, v) THEN m ELSE TableTaken(m, d, v \div NPTENTRIES)
  IN  [w EXCEPT !.dirs[d].ptes = With(@, v, page)]

\* deallocuvm(): entries from PGROUNDUP(newsz) up to oldsz are freed.
deallocuvm(m, d, oldsz, newsz) ==
  LET ptes == m.dirs[d].ptes
      gone == {v \in DOMAIN ptes : PGROUNDUP(newsz) <= v * PGSIZE /\ v * PGSIZE < oldsz}
  IN  IF newsz >= oldsz THEN m
      ELSE [kfree(m, {ptes[v] : v \in gone}) EXCEPT
              !.dirs[d].ptes = Restrict(ptes, DOMAIN ptes \ gone)]

\* Without the directory d and its tables.
Forgotten(m, d) == [m EXCEPT !.dirs = Restrict(@, DOMAIN @ \ {d})]

\* freevm(): the user's pages, the tables and the directory.
freevm(m, d) ==
  LET w == deallocuvm(m, d, KERNBASE, 0)
  IN  Forgotten(kfree(w, Range(w.dirs[d].tables) \cup {d}), d)

\* What setupkvm() leaves behind when a table is missing: it returns 0 and
\* frees neither the directory nor the tables.
SetupLost(m, d) ==
  Forgotten([m EXCEPT !.lost = @ \cup Range(m.dirs[d].tables) \cup {d}], d)

\* clearpteu()
clearpteu(m, d, v) == [m EXCEPT !.dirs[d].guard = @ \cup {v}]

\* copyout() of len bytes to va reaches only pages with PTE_P and PTE_U.  Every
\* page below the new size has a page table, and an address that wraps around 0
\* lies in the device space, whose pages the user may not use: uva2ka() does
\* not meet the null pte that it would read through.
CanCopyout(m, d, va, len) ==
  \A v \in Vpn(va) .. Vpn(va + len - 1) :
    v \in DOMAIN m.dirs[d].ptes \ m.dirs[d].guard

\* loaduvm() finds the pages it reads into.
CanLoad(m, d, va, len) ==
  len > 0 => Vpn(va) .. Vpn(va + len - 1) \subseteq DOMAIN m.dirs[d].ptes
=============================================================================
