------------------------------ MODULE LogSized ------------------------------
(***************************************************************************)
(* Inv, the inductive invariant behind the safety properties of Log, and   *)
(* what its proof assumes of the sizes: the on-disk log is no longer than  *)
(* block[] of struct logheader.  mkfs makes it LOGSIZE blocks, header      *)
(* included (mkfs.c:25).  How many blocks a call writes is left open:      *)
(* filewrite() may write more than MAXOPBLOCKS.                            *)
(***************************************************************************)
EXTENDS Log

ASSUME SizesAssumption ==
  /\ IsFiniteSet(Procs)
  /\ NLOG <= LOGSIZE

\* While one process recovers, the others do not exist yet.
BootInv ==
  /\ \A p, q \in Procs : InRecovery(p) /\ q # p => pc[q] = "off"
  /\ \A p \in Procs : pc[p] = "off" => \E q \in Procs : InRecovery(q)

\* log.outstanding and log.committing say where the processes are.
CountInv ==
  /\ outstanding = Cardinality(Active)
  /\ committing <=> \E p \in Procs : InCommit(p)
  /\ CommitIsExclusive

\* A process holds one buffer from its bread() to its brelse(), alone.
BufInv ==
  /\ \A p \in Procs : buf[p] # None <=> pc[p] \in {"buf", "checked"}
  /\ \A p, q \in Procs : buf[p] # None /\ buf[p] = buf[q] => p = q
  /\ \A p \in Procs : buf[p] # None => cache[buf[p]] # None

\* The blocks a call has logged are in the running transaction.
WroteInv ==
  \A p \in Procs :
    /\ wrote[p] \subseteq Logged(lh)
    /\ ~InCall(p) => wrote[p] = {}

\* The first n entries of a header are distinct home blocks.
Entries(h) ==
  /\ \A i \in 1 .. h.n : h.block[i] \in Blocks
  /\ \A i, j \in 1 .. h.n : h.block[i] = h.block[j] => i = j

HeaderInv == Entries(lh) /\ Entries(dhead)

TailInv ==
  \A p \in Procs :
    /\ tail[p] = 1 \/ pc[p] \in {"write_log", "install", "recover"}
    /\ pc[p] \in {"write_log", "install", "recover"} => tail[p] <= lh.n
    /\ pc[p] \in {"write_head", "erase"} => lh.n > 0
    /\ pc[p] = "committed" => lh.n = 0

\* The blocks B_DIRTY pins: the transaction's, until they are installed.
PinInv ==
  /\ \A b \in dirty : cache[b] # None
  /\ \A p \in Procs :
       /\ InRecovery(p) \/ pc[p] \in {"erase", "committed"} => dirty = {}
       /\ pc[p] = "install" => dirty = {lh.block[i] : i \in tail[p] .. lh.n}
  /\ (\A p \in Procs : /\ ~InRecovery(p)
                       /\ pc[p] \notin {"install", "erase", "committed"})
       => dirty = Logged(lh)
  /\ CleanIsOnDisk

HeadOnDisk ==
  /\ dhead.n = lh.n
  /\ \A i \in 1 .. lh.n : dhead.block[i] = lh.block[i]

\* Slot i of the log has what the cache has, or what is already at home.
SlotCached(i) == dlog[i] = cache[lh.block[i]]
SlotHome(i) == dlog[i] = disk[lh.block[i]]

\* How far the disk is at each stage of commit() and of recovery.
StageInv ==
  /\ (\A p \in Procs : ~InRecovery(p) /\ pc[p] \notin {"install", "erase"})
       => dhead.n = 0
  /\ \A p \in Procs :
       /\ pc[p] = "write_log" => \A i \in 1 .. tail[p] - 1 : SlotCached(i)
       /\ pc[p] = "write_head" => \A i \in 1 .. lh.n : SlotCached(i)
       /\ pc[p] = "install" => \A i \in tail[p] .. lh.n : SlotCached(i)
       /\ pc[p] \in {"install", "recover"}
            => HeadOnDisk /\ \A i \in 1 .. tail[p] - 1 : SlotHome(i)
       /\ pc[p] \in {"erase", "recover_erase"}
            => HeadOnDisk /\ \A i \in 1 .. lh.n : SlotHome(i)

\* Nothing is left in the log while no call, no commit and no recovery runs.
IdleInv ==
  (\A p \in Procs : ~InCall(p) /\ ~InCommit(p) /\ ~InRecovery(p)) => lh.n = 0

Inv ==
  /\ TypeOK
  /\ BootInv
  /\ CountInv
  /\ BufInv
  /\ WroteInv
  /\ HeaderInv
  /\ TailInv
  /\ PinInv
  /\ StageInv
=============================================================================
