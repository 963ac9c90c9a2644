----------------------------- MODULE LogProofs ------------------------------
(***************************************************************************)
(* Proofs of the safety of log.c for every number of processes, blocks and *)
(* log entries.  LogSized!Inv is inductive; from it follow the invariants  *)
(* of Log and the refinement of AtomicDisk.  One lemma per action shows    *)
(* that it preserves Inv, one per group of actions that it is a step or a  *)
(* stutter of AtomicDisk.                                                  *)
(***************************************************************************)
EXTENDS LogSized, FiniteSetTheorems, TLAPS

\* A step that moves no process into or out of a call, and leaves what the
\* calls have logged, does not disturb the count of calls.
LEMMA CallsUnchanged ==
  ASSUME WroteInv, wrote' = wrote, lh' = lh,
         \A q \in Procs : InCall(q)' <=> InCall(q)
  PROVE  Active' = Active /\ WroteInv'
  BY DEF WroteInv, Active, Logged

\* With no call in progress nothing is counted, whatever log.lh holds.
LEMMA NoCalls ==
  ASSUME \A q \in Procs : ~InCall(q)' /\ wrote'[q] = {}
  PROVE  Cardinality(Active)' = 0 /\ WroteInv'
<1>1. Active' = {}
  BY DEF Active
<1>2. WroteInv'
  BY DEF WroteInv
<1>. QED
  BY <1>1, <1>2, FS_EmptySet

\* log.lh.n = 0; write_head() leaves both headers well formed and empty.
LEMMA EraseHeadEmpties ==
  ASSUME TypeOK, EraseHead
  PROVE  /\ lh' \in Header /\ lh'.n = 0
         /\ dhead' \in Header /\ dhead'.n = 0
<1> USE ConstantsAssumption
<1>1. lh' = [n |-> 0, block |-> [i \in Slots |-> None]]
  BY DEF EraseHead, Entered, Slots
<1>2. dhead' = lh'
  BY DEF EraseHead
<1>. QED
  BY <1>1, <1>2 DEF Header

\* The process in commit() (log.c:190) has no company: no call, no other
\* commit, no recovery, no locked buffer.
LEMMA CommitAlone ==
  ASSUME Inv, NEW p \in Procs, InCommit(p)
  PROVE  \A q \in Procs :
           /\ ~InCall(q) /\ ~InRecovery(q) /\ pc[q] # "off"
           /\ q # p => ~InCommit(q)
           /\ buf[q] = None /\ wrote[q] = {}
<1>1. \A q \in Procs : ~InCall(q) /\ (q # p => ~InCommit(q))
  BY DEF Inv, CountInv, CommitIsExclusive, InCall, InCommit
<1>2. \A q \in Procs : ~InRecovery(q)
  BY DEF Inv, BootInv, InRecovery, InCommit
<1>3. \A q \in Procs : pc[q] # "off"
  BY <1>2 DEF Inv, BootInv
<1>4. \A q \in Procs : buf[q] = None /\ wrote[q] = {}
  BY <1>1 DEF Inv, BufInv, WroteInv, InCall
<1>. QED
  BY <1>1, <1>2, <1>3, <1>4

\* The process in recover_from_log() (log.c:115) is the only one there is.
LEMMA RecoveryAlone ==
  ASSUME Inv, NEW p \in Procs, InRecovery(p)
  PROVE  \A q \in Procs :
           /\ ~InCall(q) /\ ~InCommit(q)
           /\ q # p => pc[q] = "off"
           /\ buf[q] = None /\ wrote[q] = {}
<1>1. \A q \in Procs : q # p => pc[q] = "off"
  BY DEF Inv, BootInv
<1>2. \A q \in Procs : ~InCall(q) /\ ~InCommit(q)
  BY <1>1 DEF InRecovery, InCall, InCommit
<1>. QED
  BY <1>1, <1>2 DEF Inv, BufInv, WroteInv, InCall

\* begin_op() (log.c:125) admits a call while no commit runs.
LEMMA BeginOpInv ==
  ASSUME Inv, NEW p \in Procs, BeginOp(p)
  PROVE  Inv'
<1> USE ConstantsAssumption, SizesAssumption DEF BeginOp, Goto, diskVars
<1>1. TypeOK'
  BY DEF Inv, TypeOK, PCs
<1>2. BootInv'
  BY DEF Inv, TypeOK, BootInv, InRecovery
<1>3. /\ Active' = Active \cup {p}
      /\ p \notin Active
      /\ IsFiniteSet(Active)
  <2>1. IsFiniteSet(Active)
    BY FS_Subset DEF Active
  <2>. QED
    BY <2>1 DEF Inv, TypeOK, Active, InCall
<1>4. Cardinality(Active') = outstanding'
  BY <1>3, FS_AddElement DEF Inv, CountInv
<1>5. CountInv'
  <2>1. \A q \in Procs : InCommit(q)' <=> InCommit(q)
    BY DEF Inv, TypeOK, InCommit
  <2>2. \A q \in Procs : ~InCommit(q)
    BY DEF Inv, CountInv
  <2>. QED
    BY <1>4, <2>1, <2>2 DEF Inv, CountInv, CommitIsExclusive
<1>6. BufInv'
  BY DEF Inv, TypeOK, BufInv
<1>7. WroteInv'
  <2>1. \A q \in Procs : InCall(q) => InCall(q)'
    BY DEF Inv, TypeOK, InCall
  <2>. QED
    BY <2>1 DEF Inv, WroteInv, Logged
<1>9. HeaderInv'
  BY DEF Inv, HeaderInv, Entries
<1>10. TailInv'
  BY DEF Inv, TypeOK, TailInv
<1>11. PinInv'
  BY DEF Inv, TypeOK, PinInv, Logged, CleanIsOnDisk, Locked, InRecovery
<1>12. StageInv'
  BY DEF Inv, TypeOK, StageInv, HeadOnDisk, SlotCached, SlotHome, InRecovery
<1>. QED
  BY <1>1, <1>2, <1>5, <1>6, <1>7, <1>9, <1>10, <1>11, <1>12 DEF Inv

\* begin_op() going to sleep changes nothing but the process's place.
LEMMA BeginSleepInv ==
  ASSUME Inv, NEW p \in Procs, BeginSleep(p)
  PROVE  Inv'
<1> USE ConstantsAssumption DEF BeginSleep, Goto, diskVars, logVars
<1>1. TypeOK'
  BY DEF Inv, TypeOK, PCs
<1>2. \A q \in Procs : /\ InCall(q)' <=> InCall(q)
                       /\ InCommit(q)' <=> InCommit(q)
                       /\ InRecovery(q)' <=> InRecovery(q)
  BY DEF Inv, TypeOK, InCall, InCommit, InRecovery
<1>3. BootInv'
  BY <1>2 DEF Inv, TypeOK, BootInv
<1>4. Active' = Active /\ WroteInv'
  BY <1>2, CallsUnchanged DEF Inv
<1>5. CountInv'
  BY <1>2, <1>4 DEF Inv, CountInv, CommitIsExclusive
<1>6. BufInv' /\ HeaderInv' /\ TailInv'
  BY DEF Inv, TypeOK, BufInv, HeaderInv, Entries, TailInv
<1>7. PinInv' /\ StageInv'
  BY <1>2 DEF Inv, TypeOK, PinInv, Logged, CleanIsOnDisk, Locked, StageInv,
              HeadOnDisk, SlotCached, SlotHome
<1>. QED
  BY <1>1, <1>3, <1>4, <1>5, <1>6, <1>7 DEF Inv

\* Changing a locked buffer breaks no promise about clean buffers.
LEMMA ModifyInv ==
  ASSUME Inv, NEW p \in Procs, NEW b \in Blocks, NEW v \in Data,
         Modify(p, b, v)
  PROVE  Inv'
<1> USE ConstantsAssumption DEF Modify, Goto, diskVars, logVars
<1>1. TypeOK'
  BY DEF Inv, TypeOK, PCs
<1>2. \A q \in Procs : /\ InCall(q)' <=> InCall(q)
                       /\ InCommit(q)' <=> InCommit(q)
                       /\ InRecovery(q)' <=> InRecovery(q)
  BY DEF Inv, TypeOK, InCall, InCommit, InRecovery
<1>3. BootInv'
  BY <1>2 DEF Inv, TypeOK, BootInv
<1>4. Active' = Active
  BY <1>2 DEF Active
<1>5. CountInv'
  BY <1>2, <1>4 DEF Inv, CountInv, CommitIsExclusive
<1>6. BufInv'
  <2>1. buf'[p] = b /\ pc'[p] = "buf"
    BY DEF Inv, TypeOK
  <2>2. \A q \in Procs : q # p => buf'[q] = buf[q] /\ pc'[q] = pc[q]
    BY DEF Inv, TypeOK
  <2>3. \A q \in Procs : buf[q] # b
    BY DEF Locked
  <2>4. \A c \in Blocks : cache'[c] = IF c = b THEN v ELSE cache[c]
    BY DEF Inv, TypeOK
  <2>. QED
    BY <2>1, <2>2, <2>3, <2>4 DEF Inv, TypeOK, BufInv
<1>7. WroteInv'
  BY <1>2 DEF Inv, WroteInv, Logged
<1>9. HeaderInv' /\ TailInv'
  BY DEF Inv, TypeOK, HeaderInv, Entries, TailInv
<1>10. PinInv'
  <2>1. \A c \in Blocks : cache'[c] = IF c = b THEN v ELSE cache[c]
    BY DEF Inv, TypeOK
  <2>2. Locked(b)' /\ \A c \in Blocks : c # b => (Locked(c)' <=> Locked(c))
    BY DEF Inv, TypeOK, BufInv, Locked
  <2>3. CleanIsOnDisk'
    BY <2>1, <2>2 DEF Inv, PinInv, CleanIsOnDisk
  <2>4. dirty' = Logged(lh)'
    BY CommitAlone, RecoveryAlone
    DEF Inv, PinInv, Logged, InCall, InCommit
  <2>. QED
    BY <1>2, <2>1, <2>3, <2>4, CommitAlone, RecoveryAlone
    DEF Inv, TypeOK, PinInv, InCall, InCommit
<1>11. StageInv'
  <2>1. \A q \in Procs : ~InCommit(q) /\ ~InRecovery(q)
    BY CommitAlone, RecoveryAlone DEF InCall
  <2>. QED
    BY <1>2, <2>1 DEF Inv, TypeOK, StageInv, InCommit, InRecovery
<1>. QED
  BY <1>1, <1>3, <1>5, <1>6, <1>7, <1>9, <1>10, <1>11 DEF Inv

\* log_write()'s unlocked checks (log.c:216) only move the process on.
LEMMA LogWriteCheckInv ==
  ASSUME Inv, NEW p \in Procs, LogWriteCheck(p)
  PROVE  Inv'
<1> USE ConstantsAssumption
    DEF LogWriteCheck, Panic, Goto, diskVars, logVars, procVars
<1>1. TypeOK'
  BY DEF Inv, TypeOK, PCs
<1>2. \A q \in Procs : /\ InCall(q)' <=> InCall(q)
                       /\ InCommit(q)' <=> InCommit(q)
                       /\ InRecovery(q)' <=> InRecovery(q)
  BY DEF Inv, TypeOK, InCall, InCommit, InRecovery
<1>3. BootInv'
  BY <1>2 DEF Inv, TypeOK, BootInv
<1>4. Active' = Active /\ WroteInv'
  BY <1>2, CallsUnchanged DEF Inv
<1>5. CountInv'
  BY <1>2, <1>4 DEF Inv, CountInv, CommitIsExclusive
<1>6. BufInv' /\ HeaderInv' /\ TailInv'
  BY DEF Inv, TypeOK, BufInv, HeaderInv, Entries, TailInv
<1>7. PinInv' /\ StageInv'
  BY <1>2 DEF Inv, TypeOK, PinInv, Logged, CleanIsOnDisk, Locked, StageInv,
              HeadOnDisk, SlotCached, SlotHome
<1>. QED
  BY <1>1, <1>3, <1>4, <1>5, <1>6, <1>7 DEF Inv

\* log_write() (log.c:221) appends at most one entry to a header that was not
\* longer than the on-disk log, which is shorter than block[] (Running).
LEMMA LogWriteRecordInv ==
  ASSUME Inv, Running, NEW p \in Procs, LogWriteRecord(p)
  PROVE  Inv'
<1> DEFINE b == buf[p]
           new == b \notin Logged(lh)
<1> USE ConstantsAssumption, SizesAssumption
<1>1. \A q \in Procs : /\ InCall(q)' <=> InCall(q)
                       /\ InCommit(q)' <=> InCommit(q)
                       /\ InRecovery(q)' <=> InRecovery(q)
  BY DEF Inv, TypeOK, InCall, InCommit, InRecovery, LogWriteRecord, Goto
<1>2. /\ InCall(p)
      /\ b \in Blocks
      /\ cache[b] # None
      /\ lh.n \in 0 .. LOGSIZE
      /\ lh.block \in [Slots -> Blocks \cup {None}]
  BY DEF Inv, TypeOK, BufInv, WroteInv, Header, InCall, LogWriteRecord
<1>3. \A q \in Procs : ~InCommit(q) /\ ~InRecovery(q)
  BY <1>2, CommitAlone, RecoveryAlone
<1>4. /\ Active' = Active
      /\ \A q \in Procs : q # p => wrote'[q] = wrote[q] /\ buf'[q] = buf[q]
      /\ wrote'[p] = wrote[p] \cup {b}
      /\ buf'[p] = None
  BY <1>1 DEF Inv, TypeOK, Active, LogWriteRecord
<1>10. ASSUME new
       PROVE  /\ lh.n + 1 <= LOGSIZE
              /\ lh'.n = lh.n + 1
              /\ lh'.block = [lh.block EXCEPT ![lh.n + 1] = b]
  BY <1>2, <1>10 DEF Running, LogInBounds, LogWriteRecord, Recorded
<1>11. ~new => lh' = lh
  BY DEF LogWriteRecord, Recorded
<1>13. Logged(lh') = Logged(lh) \cup {b}
  <2>1. CASE ~new
    BY <2>1, <1>11
  <2>2. CASE new
    BY <2>2, <1>2, <1>10 DEF Logged, Slots
  <2>. QED
    BY <2>1, <2>2
<1>14. lh' \in Header
  <2>1. CASE ~new
    BY <2>1, <1>11 DEF Inv, TypeOK
  <2>2. CASE new
    BY <2>2, <1>2, <1>10 DEF Header, Slots, LogWriteRecord, Recorded
  <2>. QED
    BY <2>1, <2>2
<1>15. TypeOK'
  BY <1>2, <1>14 DEF Inv, TypeOK, PCs, LogWriteRecord, Goto, diskVars
<1>16. BootInv'
  BY <1>1, <1>3 DEF Inv, TypeOK, BootInv, LogWriteRecord, Goto
<1>17. CountInv'
  BY <1>1, <1>4 DEF Inv, CountInv, CommitIsExclusive, LogWriteRecord
<1>18. BufInv'
  BY <1>4 DEF Inv, TypeOK, BufInv, LogWriteRecord, Goto
<1>19. WroteInv'
  BY <1>1, <1>2, <1>4, <1>13 DEF Inv, WroteInv
<1>20. HeaderInv'
  <2>1. CASE ~new
    BY <2>1, <1>11 DEF Inv, HeaderInv, Entries, LogWriteRecord, diskVars
  <2>2. CASE new
    <3>1. \A i \in 1 .. lh'.n :
            lh'.block[i] = IF i = lh.n + 1 THEN b ELSE lh.block[i]
      BY <2>2, <1>2, <1>10 DEF Slots
    <3>2. \A i \in 1 .. lh.n : lh.block[i] # b
      BY <2>2 DEF Logged
    <3>3. Entries(lh)'
      BY <2>2, <3>1, <3>2, <1>2, <1>10 DEF Inv, HeaderInv, Entries
    <3>. QED
      BY <3>3 DEF Inv, HeaderInv, Entries, LogWriteRecord, diskVars
  <2>. QED
    BY <2>1, <2>2
<1>21. TailInv'
  BY <1>1, <1>3 DEF Inv, TypeOK, TailInv, InCommit, InRecovery, LogWriteRecord,
     Goto
<1>22. PinInv'
  <2>1. dirty' = Logged(lh)'
    BY <1>3, <1>13 DEF Inv, PinInv, InCommit, LogWriteRecord
  <2>2. \A c \in Blocks : c # b => (Locked(c)' <=> Locked(c))
    BY <1>4 DEF Locked
  <2>3. CleanIsOnDisk'
    BY <2>2 DEF Inv, PinInv, CleanIsOnDisk, LogWriteRecord, diskVars
  <2>. QED
    BY <1>1, <1>2, <1>3, <2>1, <2>3
    DEF Inv, PinInv, InCommit, InRecovery, LogWriteRecord
<1>23. StageInv'
  BY <1>1, <1>3 
  DEF Inv, StageInv, InCommit, InRecovery, LogWriteRecord, diskVars
<1>. QED
  BY <1>15, <1>16, <1>17, <1>18, <1>19, <1>20, <1>21, <1>22, <1>23
  DEF Inv

\* end_op() (log.c:146) takes the call off the count; the last
\* one starts the commit with nobody else in a call.
LEMMA EndOpInv ==
  ASSUME Inv, NEW p \in Procs, EndOp(p) \/ EndOpLast(p)
  PROVE  Inv'
<1> USE ConstantsAssumption, SizesAssumption
<1>1. InCall(p) /\ pc[p] = "op"
  BY DEF EndOp, EndOpLast, InCall
<1>2. /\ ~committing
      /\ \A q \in Procs : ~InCommit(q) /\ ~InRecovery(q) /\ pc[q] # "off"
  BY <1>1, CommitAlone, RecoveryAlone DEF Inv, CountInv, BootInv
<1>3. /\ IsFiniteSet(Active)
      /\ p \in Active
      /\ Cardinality(Active) = outstanding
      /\ Cardinality(Active \ {p}) = outstanding - 1
      /\ outstanding \in Nat \ {0}
  <2>1. Active \in SUBSET Procs
    BY DEF Active
  <2>2. IsFiniteSet(Active) /\ p \in Active /\ Cardinality(Active) = outstanding
    BY <2>1, <1>1, FS_Subset DEF Inv, CountInv, Active
  <2>3. outstanding \in Nat \ {0}
    BY <2>2, FS_EmptySet, FS_CardinalityType
  <2>. QED
    BY <2>2, <2>3, FS_RemoveElement
<1>4. /\ outstanding' = outstanding - 1
      /\ wrote' = [wrote EXCEPT ![p] = {}]
      /\ UNCHANGED <<disk, dlog, dhead, cache, dirty, lh, panicked, tail, buf>>
  BY <1>2, <1>3 DEF EndOp, EndOpLast, diskVars
<1>5. \A q \in Procs :
        q # p => pc'[q] = IF pc[q] = "sleep" /\ EndOp(p) THEN "woken" ELSE pc[q]
  BY <1>2 DEF Inv, TypeOK, EndOp, EndOpLast, WakeupAndGoto, Goto
<1>6. \/ pc'[p] = "user" /\ committing' = FALSE /\ outstanding # 1
      \/ pc'[p] = "commit" /\ committing' = TRUE /\ outstanding = 1
  BY <1>2 DEF Inv, TypeOK, EndOp, EndOpLast, WakeupAndGoto, Goto
<1>7. /\ \A q \in Procs : q # p => /\ InCall(q)' <=> InCall(q)
                                   /\ ~InCommit(q)'
      /\ \A q \in Procs : ~InRecovery(q)' /\ pc'[q] # "off"
      /\ ~InCall(p)'
      /\ InCommit(p)' <=> outstanding = 1
  BY <1>2, <1>5, <1>6 DEF InCall, InCommit, InRecovery
<1>8. Active' = Active \ {p}
  BY <1>7 DEF Active
<1>9. TypeOK'
  <2>1. pc' \in [Procs -> PCs]
    BY <1>2 DEF Inv, TypeOK, PCs, EndOp, EndOpLast, WakeupAndGoto, Goto
  <2>2. committing' \in BOOLEAN
    BY <1>6
  <2>3. outstanding' \in Nat
    BY <1>3, <1>4
  <2>4. wrote' \in [Procs -> SUBSET Blocks]
    BY <1>4 DEF Inv, TypeOK
  <2>. QED
    BY <2>1, <2>2, <2>3, <2>4, <1>4 DEF Inv, TypeOK
<1>10. BootInv'
  BY <1>7 DEF BootInv
<1>11. CountInv'
  <2>1. outstanding = 1 => Active' = {}
    BY <1>3, <1>8, FS_RemoveElement, FS_EmptySet
  <2>2. outstanding = 1 => \A q \in Procs : ~InCall(q)'
    BY <2>1 DEF Active
  <2>3. CommitIsExclusive'
    BY <1>7, <2>2 DEF CommitIsExclusive
  <2>4. committing' <=> \E q \in Procs : InCommit(q)'
    BY <1>6, <1>7
  <2>5. outstanding' = Cardinality(Active')
    BY <1>3, <1>4, <1>8
  <2>. QED
    BY <2>3, <2>4, <2>5 DEF CountInv
<1>12. BufInv' /\ TailInv' /\ HeaderInv'
  BY <1>1, <1>4, <1>5, <1>6
  DEF Inv, BufInv, TailInv, HeaderInv, Entries
<1>13. /\ wrote'[p] = {}
       /\ \A q \in Procs : q # p => wrote'[q] = wrote[q]
  BY <1>4 DEF Inv, TypeOK
<1>14. WroteInv'
  BY <1>4, <1>7, <1>13 DEF Inv, WroteInv, Logged
<1>16. PinInv'
  BY <1>2, <1>4, <1>5, <1>6, <1>7 
  DEF Inv, PinInv, Logged, CleanIsOnDisk, Locked, InCommit
<1>17. StageInv'
  BY <1>2, <1>4, <1>5, <1>6, <1>7 DEF Inv, StageInv, InCommit, InRecovery
<1>. QED
  BY <1>9, <1>10, <1>11, <1>12, <1>14, <1>16, <1>17 DEF Inv

\* commit() (log.c:190) skips an empty transaction.
LEMMA CommitInv ==
  ASSUME Inv, NEW p \in Procs, Commit(p)
  PROVE  Inv'
<1> USE ConstantsAssumption
<1>1. InCommit(p) /\ pc[p] = "commit" /\ lh.n \in Nat
  BY DEF Inv, TypeOK, Header, Commit, InCommit
<1>2. \A q \in Procs : /\ ~InCall(q) /\ ~InRecovery(q) /\ pc[q] # "off"
                       /\ q # p => ~InCommit(q)
                       /\ buf[q] = None
  BY <1>1, CommitAlone
<1>3. /\ UNCHANGED <<disk, dlog, dhead, cache, dirty, lh, outstanding,
                     committing, panicked, tail, buf, wrote>>
      /\ pc'[p] = IF lh.n > 0 THEN "write_log" ELSE "committed"
      /\ \A q \in Procs : q # p => pc'[q] = pc[q]
      /\ TypeOK'
  BY DEF Inv, TypeOK, PCs, Commit, Goto, diskVars, logVars
<1>4. \A q \in Procs : /\ InCall(q)' <=> InCall(q)
                       /\ InCommit(q)' <=> InCommit(q)
                       /\ InRecovery(q)' <=> InRecovery(q)
                       /\ pc'[q] # "off"
  BY <1>1, <1>2, <1>3 DEF InCall, InCommit, InRecovery
<1>5. BootInv'
  BY <1>2, <1>4 DEF BootInv
<1>6. Active' = Active /\ WroteInv'
  BY <1>3, <1>4, CallsUnchanged DEF Inv
<1>7. CountInv'
  BY <1>3, <1>4, <1>6 DEF Inv, CountInv, CommitIsExclusive
<1>8. BufInv' /\ HeaderInv'
  BY <1>1, <1>3 DEF Inv, BufInv, HeaderInv, Entries
<1>9. TailInv'
  BY <1>1, <1>2, <1>3 DEF Inv, TailInv, InCommit, InRecovery
<1>10. PinInv'
  <2>1. dirty = Logged(lh)
    BY <1>1, <1>2 DEF Inv, PinInv, InCommit
  <2>2. lh.n = 0 => dirty = {}
    BY <2>1 DEF Logged
  <2>. QED
    BY <1>1, <1>2, <1>3, <1>4, <2>1, <2>2
    DEF Inv, PinInv, Logged, CleanIsOnDisk, Locked, InCommit
<1>11. StageInv'
  BY <1>1, <1>2, <1>3, <1>4 DEF Inv, StageInv, TailInv, InCommit, InRecovery
<1>. QED
  BY <1>3, <1>5, <1>6, <1>7, <1>8, <1>9, <1>10, <1>11 DEF Inv

\* write_log() (log.c:175) fills the log from pinned buffers.
LEMMA WriteLogInv ==
  ASSUME Inv, NEW p \in Procs, WriteLog(p)
  PROVE  Inv'
<1> DEFINE t == tail[p]
           b == lh.block[t]
<1> USE ConstantsAssumption
<1>1. /\ InCommit(p) /\ pc[p] = "write_log"
      /\ lh.n \in 0 .. LOGSIZE
      /\ t \in 1 .. lh.n
      /\ b \in Blocks
  BY DEF Inv, TypeOK, Header, HeaderInv, Entries, TailInv, WriteLog, InCommit
<1>2. \A q \in Procs : /\ ~InCall(q) /\ ~InRecovery(q) /\ pc[q] # "off"
                       /\ q # p => ~InCommit(q)
                       /\ buf[q] = None
  BY <1>1, CommitAlone
<1>3. cache[b] \in Data /\ b \in dirty /\ dirty = Logged(lh)
  BY <1>1, <1>2 DEF Inv, TypeOK, PinInv, Logged, InCommit
<1>4. /\ UNCHANGED <<disk, dhead, cache, dirty, lh, outstanding,
                     committing, panicked, buf, wrote>>
      /\ dlog' = [dlog EXCEPT ![t] = cache[b]]
      /\ tail' = [tail EXCEPT ![p] = IF t < lh.n THEN t + 1 ELSE 1]
      /\ pc' = [pc EXCEPT ![p] = IF t < lh.n THEN "write_log"
                                 ELSE "write_head"]
  BY <1>1, <1>3
  DEF Inv, TypeOK, WriteLog, NextTail, bread, Goto, diskVars, logVars
<1>5. TypeOK'
  BY <1>1, <1>3, <1>4 DEF Inv, TypeOK, PCs, Slots
<1>6. \A q \in Procs : /\ InCall(q)' <=> InCall(q)
                       /\ InCommit(q)' <=> InCommit(q)
                       /\ InRecovery(q)' <=> InRecovery(q)
                       /\ pc'[q] # "off"
  BY <1>1, <1>2, <1>4 DEF Inv, TypeOK, InCall, InCommit, InRecovery
<1>7. BootInv'
  BY <1>2, <1>6 DEF BootInv
<1>8. Active' = Active /\ WroteInv'
  BY <1>4, <1>6, CallsUnchanged DEF Inv
<1>9. CountInv'
  BY <1>4, <1>6, <1>8 DEF Inv, CountInv, CommitIsExclusive
<1>10. BufInv' /\ HeaderInv'
  BY <1>1, <1>4 DEF Inv, TypeOK, BufInv, HeaderInv, Entries
<1>11. TailInv'
  BY <1>1, <1>2, <1>4 DEF Inv, TypeOK, TailInv, InCommit, InRecovery
<1>12. PinInv'
  BY <1>1, <1>2, <1>3, <1>4, <1>6
  DEF Inv, TypeOK, PinInv, Logged, CleanIsOnDisk, Locked, InCommit
<1>13. \A i \in 1 .. t : dlog'[i] = cache[lh.block[i]]
  <2>1. \A i \in 1 .. t - 1 : dlog[i] = cache[lh.block[i]]
    BY <1>1 DEF Inv, StageInv, SlotCached
  <2>2. \A i \in 1 .. t : dlog'[i] = IF i = t THEN cache[b] ELSE dlog[i]
    BY <1>1, <1>4 DEF Inv, TypeOK, Slots
  <2>3. \A i \in 1 .. t : i = t \/ i \in 1 .. t - 1
    BY <1>1
  <2>. QED
    BY <2>1, <2>2, <2>3
<1>14. StageInv'
  <2>1. dhead'.n = 0
    BY <1>1, <1>2, <1>4 DEF Inv, StageInv, InCommit
  <2>. QED
    BY <1>1, <1>2, <1>4, <1>6, <1>13, <2>1
    DEF Inv, TypeOK, StageInv, SlotCached, InCommit, InRecovery
<1>. QED
  BY <1>5, <1>7, <1>8, <1>9, <1>10, <1>11, <1>12, <1>14 DEF Inv

\* write_head() (log.c:101) puts on disk the entries whose slots are filled.
LEMMA WriteHeadInv ==
  ASSUME Inv, NEW p \in Procs, WriteHead(p)
  PROVE  Inv'
<1> USE ConstantsAssumption
<1>1. /\ InCommit(p) /\ pc[p] = "write_head"
      /\ lh.n \in 1 .. LOGSIZE
      /\ tail[p] = 1
  BY DEF Inv, TypeOK, Header, TailInv, WriteHead, InCommit
<1>2. \A q \in Procs : /\ ~InCall(q) /\ ~InRecovery(q) /\ pc[q] # "off"
                       /\ q # p => ~InCommit(q)
                       /\ buf[q] = None
  BY <1>1, CommitAlone
<1>3. /\ UNCHANGED <<disk, dlog, cache, dirty, lh, outstanding,
                     committing, panicked, tail, buf, wrote>>
      /\ pc' = [pc EXCEPT ![p] = "install"]
      /\ dhead' \in Header
      /\ HeadOnDisk'
  BY <1>1 DEF Inv, TypeOK, Header, Slots, WriteHead, Entered, HeadOnDisk, Goto, logVars
<1>4. TypeOK'
  BY <1>3 DEF Inv, TypeOK, PCs
<1>5. \A q \in Procs : /\ InCall(q)' <=> InCall(q)
                       /\ InCommit(q)' <=> InCommit(q)
                       /\ InRecovery(q)' <=> InRecovery(q)
                       /\ pc'[q] # "off"
  BY <1>1, <1>2, <1>3 DEF Inv, TypeOK, InCall, InCommit, InRecovery
<1>6. BootInv'
  BY <1>2, <1>5 DEF BootInv
<1>7. Active' = Active /\ WroteInv'
  BY <1>3, <1>5, CallsUnchanged DEF Inv
<1>8. CountInv'
  BY <1>3, <1>5, <1>7 DEF Inv, CountInv, CommitIsExclusive
<1>9. BufInv' /\ HeaderInv'
  BY <1>1, <1>3 DEF Inv, TypeOK, BufInv, HeaderInv, HeadOnDisk, Entries
<1>10. TailInv'
  BY <1>1, <1>2, <1>3 DEF Inv, TypeOK, TailInv, InCommit, InRecovery
<1>11. PinInv'
  <2>1. dirty = Logged(lh)
    BY <1>1, <1>2 DEF Inv, PinInv, InCommit
  <2>. QED
    BY <1>1, <1>2, <1>3, <1>5, <2>1
    DEF Inv, TypeOK, PinInv, Logged, CleanIsOnDisk, Locked, InCommit
<1>12. StageInv'
  BY <1>1, <1>2, <1>3, <1>5
  DEF Inv, TypeOK, StageInv, SlotCached, SlotHome, InCommit, InRecovery
<1>. QED
  BY <1>4, <1>6, <1>7, <1>8, <1>9, <1>10, <1>11, <1>12 DEF Inv

\* install_trans() (log.c:69) brings one block home and unpins it.
LEMMA InstallTransInv ==
  ASSUME Inv, NEW p \in Procs, InstallTrans(p)
  PROVE  Inv'
<1> DEFINE t == tail[p]
           b == lh.block[t]
<1> USE ConstantsAssumption
<1>1. /\ InCommit(p) /\ pc[p] = "install"
      /\ lh.n \in 0 .. LOGSIZE
      /\ t \in 1 .. lh.n
      /\ b \in Blocks
      /\ dlog[t] \in Data
  BY DEF Inv, TypeOK, Header, Slots, HeaderInv, Entries, TailInv,
         InstallTrans, InCommit
<1>2. \A q \in Procs : /\ ~InCall(q) /\ ~InRecovery(q) /\ pc[q] # "off"
                       /\ q # p => ~InCommit(q)
                       /\ buf[q] = None
  BY <1>1, CommitAlone
<1>3. /\ UNCHANGED <<dlog, dhead, lh, outstanding, committing, panicked, buf,
                     wrote>>
      /\ disk' = [disk EXCEPT ![b] = dlog[t]]
      /\ cache' = [cache EXCEPT ![b] = dlog[t]]
      /\ dirty' = dirty \ {b}
      /\ tail' = [tail EXCEPT ![p] = IF t < lh.n THEN t + 1 ELSE 1]
      /\ pc' = [pc EXCEPT ![p] = IF t < lh.n THEN "install" ELSE "erase"]
  BY DEF InstallTrans, InstallBlock, NextTail, Goto, logVars
<1>4. TypeOK'
  BY <1>1, <1>3 DEF Inv, TypeOK, PCs
<1>5. \A q \in Procs : /\ InCall(q)' <=> InCall(q)
                       /\ InCommit(q)' <=> InCommit(q)
                       /\ InRecovery(q)' <=> InRecovery(q)
                       /\ pc'[q] # "off"
  BY <1>1, <1>2, <1>3 DEF Inv, TypeOK, InCall, InCommit, InRecovery
<1>6. BootInv'
  BY <1>2, <1>5 DEF BootInv
<1>7. Active' = Active /\ WroteInv'
  BY <1>3, <1>5, CallsUnchanged DEF Inv
<1>8. CountInv'
  BY <1>3, <1>5, <1>7 DEF Inv, CountInv, CommitIsExclusive
<1>9. BufInv' /\ HeaderInv'
  BY <1>1, <1>2, <1>3 DEF Inv, TypeOK, BufInv, HeaderInv, Entries
<1>10. TailInv'
  BY <1>1, <1>2, <1>3 DEF Inv, TypeOK, TailInv, InCommit, InRecovery
<1>11. \A c \in Blocks : /\ disk'[c] = IF c = b THEN dlog[t] ELSE disk[c]
                         /\ cache'[c] = IF c = b THEN dlog[t] ELSE cache[c]
  BY <1>3 DEF Inv, TypeOK
<1>12. \A i \in 1 .. lh.n : i # t => lh.block[i] # b
  BY <1>1 DEF Inv, HeaderInv, Entries
<1>13. /\ pc'[p] = IF t < lh.n THEN "install" ELSE "erase"
       /\ tail'[p] = IF t < lh.n THEN t + 1 ELSE 1
       /\ \A q \in Procs : q # p => pc'[q] = pc[q]
  BY <1>3 DEF Inv, TypeOK
<1>14. PinInv'
  <2>1. dirty = {lh.block[i] : i \in t .. lh.n}
    BY <1>1 DEF Inv, PinInv
  <2>2. dirty' = {lh.block[i] : i \in (t + 1) .. lh.n}
    BY <1>1, <1>3, <1>12, <2>1
  <2>3. \A c \in dirty' : cache'[c] # None
    BY <1>3, <1>11 DEF Inv, TypeOK, PinInv
  <2>4. CleanIsOnDisk'
    BY <1>2, <1>3, <1>11 DEF Inv, TypeOK, PinInv, CleanIsOnDisk, Locked
  <2>. QED
    BY <1>1, <1>2, <1>3, <1>5, <1>13, <2>2, <2>3, <2>4 DEF PinInv, InCommit
<1>15. StageInv'
  <2>1. HeadOnDisk'
    BY <1>1, <1>3 DEF Inv, StageInv, HeadOnDisk
  <2>2. \A i \in 1 .. t : dlog'[i] = disk'[lh.block[i]]
    <3>1. \A i \in 1 .. t - 1 : dlog[i] = disk[lh.block[i]]
      BY <1>1 DEF Inv, StageInv, SlotHome
    <3>2. \A i \in 1 .. t : i = t \/ (i \in 1 .. t - 1 /\ i \in 1 .. lh.n)
      BY <1>1
    <3>. QED
      BY <1>1, <1>3, <1>11, <1>12, <3>1, <3>2 DEF Inv, HeaderInv, Entries
  <2>3. \A i \in (t + 1) .. lh.n : dlog'[i] = cache'[lh.block[i]]
    BY <1>1, <1>3, <1>11, <1>12
    DEF Inv, HeaderInv, Entries, StageInv, SlotCached
  <2>. QED
    BY <1>1, <1>2, <1>3, <1>5, <1>13, <2>1, <2>2, <2>3
    DEF StageInv, SlotCached, SlotHome, InCommit, InRecovery
<1>. QED
  BY <1>4, <1>6, <1>7, <1>8, <1>9, <1>10, <1>14, <1>15 DEF Inv

\* Erasing the header (log.c:197) loses nothing: every block is home.
LEMMA EraseInv ==
  ASSUME Inv, NEW p \in Procs, Erase(p)
  PROVE  Inv'
<1> USE ConstantsAssumption
<1>1. InCommit(p) /\ pc[p] = "erase"
  BY DEF Erase, InCommit
<1>2. \A q \in Procs : /\ ~InCall(q) /\ ~InRecovery(q) /\ pc[q] # "off"
                       /\ q # p => ~InCommit(q)
                       /\ buf[q] = None /\ wrote[q] = {}
  BY <1>1, CommitAlone
<1>3. /\ UNCHANGED <<disk, dlog, cache, dirty, outstanding, committing,
                     panicked, tail, buf, wrote>>
      /\ lh' \in Header /\ lh'.n = 0
      /\ dhead' \in Header /\ dhead'.n = 0
      /\ pc' = [pc EXCEPT ![p] = "committed"]
  BY EraseHeadEmpties DEF Inv, TypeOK, Erase, Goto
<1>4. TypeOK'
  BY <1>3 DEF Inv, TypeOK, PCs
<1>5. \A q \in Procs : /\ InCall(q)' <=> InCall(q)
                       /\ InCommit(q)' <=> InCommit(q)
                       /\ InRecovery(q)' <=> InRecovery(q)
                       /\ pc'[q] # "off"
  BY <1>1, <1>2, <1>3 DEF Inv, TypeOK, InCall, InCommit, InRecovery
<1>6. BootInv'
  BY <1>2, <1>5 DEF BootInv
<1>7. Active' = Active /\ WroteInv'
  BY <1>2, <1>3, <1>4, <1>5, NoCalls DEF Active
<1>8. CountInv'
  BY <1>3, <1>5, <1>7 DEF Inv, CountInv, CommitIsExclusive
<1>9. BufInv' /\ HeaderInv'
  BY <1>1, <1>3 DEF Inv, TypeOK, BufInv, HeaderInv, Entries
<1>10. TailInv'
  BY <1>1, <1>2, <1>3 DEF Inv, TypeOK, TailInv, InCommit, InRecovery
<1>11. PinInv'
  <2>1. dirty = {}
    BY <1>1 DEF Inv, PinInv
  <2>. QED
    BY <1>1, <1>2, <1>3, <1>5, <2>1
    DEF Inv, TypeOK, PinInv, Logged, CleanIsOnDisk, Locked, InCommit
<1>12. StageInv'
  BY <1>1, <1>2, <1>3, <1>5 DEF Inv, TypeOK, StageInv, InCommit, InRecovery
<1>. QED
  BY <1>4, <1>6, <1>7, <1>8, <1>9, <1>10, <1>11, <1>12 DEF Inv

\* The end of end_op() (log.c:166) leaves an empty log.
LEMMA CommitDoneInv ==
  ASSUME Inv, NEW p \in Procs, CommitDone(p)
  PROVE  Inv'
<1> USE ConstantsAssumption
<1>1. InCommit(p) /\ pc[p] = "committed"
  BY DEF CommitDone, InCommit
<1>2. \A q \in Procs : /\ ~InCall(q) /\ ~InRecovery(q) /\ pc[q] # "off"
                       /\ q # p => ~InCommit(q)
                       /\ buf[q] = None
  BY <1>1, CommitAlone
<1>3. /\ UNCHANGED <<disk, dlog, dhead, cache, dirty, lh, outstanding,
                     panicked, tail, buf, wrote>>
      /\ committing' = FALSE
      /\ pc' \in [Procs -> PCs]
      /\ pc'[p] = "user"
      /\ \A q \in Procs :
           q # p => pc'[q] = IF pc[q] = "sleep" THEN "woken" ELSE pc[q]
  BY DEF Inv, TypeOK, PCs, CommitDone, WakeupAndGoto, diskVars
<1>4. TypeOK'
  BY <1>3 DEF Inv, TypeOK
<1>5. \A q \in Procs : /\ ~InCall(q)'
                       /\ ~InCommit(q)'
                       /\ ~InRecovery(q)'
                       /\ pc'[q] # "off"
  BY <1>1, <1>2, <1>3 DEF InCall, InCommit, InRecovery
<1>6. BootInv'
  BY <1>5 DEF BootInv
<1>7. Active' = Active /\ WroteInv'
  BY <1>2, <1>3, <1>5, CallsUnchanged DEF Inv
<1>8. CountInv'
  BY <1>3, <1>5, <1>7 DEF Inv, CountInv, CommitIsExclusive
<1>9. BufInv' /\ HeaderInv'
  BY <1>1, <1>2, <1>3 DEF Inv, BufInv, HeaderInv, Entries
<1>10. TailInv'
  BY <1>1, <1>2, <1>3 DEF Inv, TailInv, InCommit, InRecovery
<1>11. PinInv'
  <2>1. dirty = {} /\ Logged(lh) = {}
    BY <1>1 DEF Inv, PinInv, TailInv, Logged
  <2>2. Logged(lh)' = Logged(lh)
    BY <1>3 DEF Logged
  <2>. QED
    BY <1>3, <1>5, <2>1, <2>2
    DEF Inv, PinInv, CleanIsOnDisk, Locked, InCommit
<1>12. StageInv'
  BY <1>1, <1>2, <1>3, <1>5 DEF Inv, StageInv, InCommit, InRecovery
<1>. QED
  BY <1>4, <1>6, <1>7, <1>8, <1>9, <1>10, <1>11, <1>12 DEF Inv

\* Filling or recycling a clean, unlocked buffer (bio.c:78).
LEMMA BreadEvictInv ==
  ASSUME Inv, NEW b \in Blocks, Bread(b) \/ Evict(b)
  PROVE  Inv'
<1> USE ConstantsAssumption
<1>1. UNCHANGED <<disk, dlog, dhead, dirty, lh, outstanding, committing,
                  panicked, pc, tail, buf, wrote>>
  BY DEF Bread, Evict, diskVars, logVars, procVars
<1>2. b \notin dirty /\ ~Locked(b)
  BY DEF Inv, PinInv, BufInv, Locked, Bread, Evict
<1>3. /\ \A c \in Blocks : c # b => cache'[c] = cache[c]
      /\ cache'[b] \in {disk[b], None}
      /\ TypeOK'
  BY <1>1 DEF Inv, TypeOK, Bread, Evict
<1>4. BootInv' /\ CountInv' /\ WroteInv'
  BY <1>1, CallsUnchanged
  DEF Inv, BootInv, CountInv, CommitIsExclusive, InCall, InCommit, InRecovery
<1>5. BufInv'
  BY <1>1, <1>2, <1>3 DEF Inv, TypeOK, BufInv, Locked
<1>6. HeaderInv' /\ TailInv'
  BY <1>1 DEF Inv, HeaderInv, Entries, TailInv
<1>7. PinInv'
  <2>1. \A c \in dirty' : cache'[c] # None
    BY <1>1, <1>2, <1>3 DEF Inv, TypeOK, PinInv
  <2>2. CleanIsOnDisk'
    BY <1>1, <1>2, <1>3 DEF Inv, TypeOK, PinInv, CleanIsOnDisk, Locked
  <2>. QED
    BY <1>1, <2>1, <2>2 DEF Inv, PinInv, Logged, InRecovery
<1>8. StageInv'
  <2>1. ASSUME NEW q \in Procs, NEW i \in 1 .. lh.n,
               \/ pc[q] \in {"write_log", "write_head"}
               \/ pc[q] = "install" /\ i >= tail[q]
        PROVE  SlotCached(i) => SlotCached(i)'
    <3>1. lh.block[i] \in dirty
      BY <2>1, CommitAlone
      DEF Inv, TypeOK, Header, PinInv, Logged, InCommit
    <3>. QED
      BY <1>1, <1>2, <1>3, <3>1 DEF Inv, TypeOK, SlotCached
  <2>2. \A i : SlotHome(i)' <=> SlotHome(i)
    BY <1>1 DEF SlotHome
  <2>. QED
    BY <1>1, <2>1, <2>2
    DEF Inv, TypeOK, Header, TailInv, StageInv, HeadOnDisk, InRecovery
<1>. QED
  BY <1>3, <1>4, <1>5, <1>6, <1>7, <1>8 DEF Inv

\* A crash leaves the disk as it was at any stage; nothing else survives.
LEMMA CrashInv ==
  ASSUME Inv, NEW p \in Procs, Crash(p)
  PROVE  Inv'
<1> USE ConstantsAssumption DEF Crash, diskVars
<1>1. TypeOK'
  <2>1. lh' \in Header
    BY DEF Header
  <2>2. pc' \in [Procs -> PCs]
    BY DEF PCs
  <2>3. tail' \in [Procs -> 1 .. LOGSIZE]
    OBVIOUS
  <2>4. committing' \in BOOLEAN /\ panicked' \in BOOLEAN /\ outstanding' \in Nat
    OBVIOUS
  <2>5. buf' \in [Procs -> Blocks \cup {None}] /\ wrote' \in [Procs -> SUBSET Blocks]
    OBVIOUS
  <2>6. cache' \in [Blocks -> Data \cup {None}] /\ dirty' \in SUBSET Blocks
    OBVIOUS
  <2>7. /\ disk' \in [Blocks -> Data]
        /\ dlog' \in [Slots -> Data]
        /\ dhead' \in Header
    BY DEF Inv, TypeOK
  <2>. QED
    BY <2>1, <2>2, <2>3, <2>4, <2>5, <2>6, <2>7 DEF TypeOK
<1>2. \A q \in Procs : /\ ~InCall(q)' /\ ~InCommit(q)'
                       /\ InRecovery(q)' <=> q = p
                       /\ wrote'[q] = {} /\ buf'[q] = None
  BY DEF InCall, InCommit, InRecovery
<1>3. Cardinality(Active)' = 0 /\ WroteInv'
  BY <1>1, <1>2, NoCalls
<1>4. BootInv'
  BY <1>2 DEF BootInv
<1>5. CountInv'
  BY <1>2, <1>3 DEF CountInv, CommitIsExclusive
<1>6. BufInv' /\ TailInv'
  BY DEF BufInv, TailInv
<1>7. HeaderInv'
  BY DEF Inv, HeaderInv, Entries
<1>8. PinInv'
  BY <1>2 DEF PinInv, CleanIsOnDisk
<1>9. StageInv'
  BY <1>2 DEF StageInv
<1>. QED
  BY <1>1, <1>3, <1>4, <1>5, <1>6, <1>7, <1>8, <1>9 DEF Inv

\* read_head() (log.c:85) copies the header that is on disk.
LEMMA ReadHeadInv ==
  ASSUME Inv, NEW p \in Procs, ReadHead(p)
  PROVE  Inv'
<1> USE ConstantsAssumption
<1>1. InRecovery(p) /\ pc[p] = "read_head" /\ tail[p] = 1
  BY DEF Inv, TailInv, ReadHead, InRecovery
<1>2. \A q \in Procs : /\ ~InCall(q) /\ ~InCommit(q)
                       /\ q # p => pc[q] = "off"
                       /\ buf[q] = None /\ wrote[q] = {}
  BY <1>1, RecoveryAlone
<1>3. /\ UNCHANGED <<disk, dlog, dhead, cache, dirty, outstanding, committing,
                     panicked, tail, buf, wrote>>
      /\ lh' \in Header /\ lh'.n = dhead.n
      /\ \A i \in 1 .. dhead.n : lh'.block[i] = dhead.block[i]
      /\ pc' = [pc EXCEPT ![p] = IF dhead.n > 0 THEN "recover"
                                 ELSE "recover_erase"]
  BY DEF Inv, TypeOK, Header, Slots, ReadHead, Entered, Goto, diskVars
<1>4. TypeOK'
  BY <1>3 DEF Inv, TypeOK, PCs
<1>5. \A q \in Procs : /\ InCall(q)' <=> InCall(q)
                       /\ InCommit(q)' <=> InCommit(q)
                       /\ InRecovery(q)' <=> InRecovery(q)
                       /\ q # p => pc'[q] = "off"
  BY <1>1, <1>2, <1>3 DEF Inv, TypeOK, InCall, InCommit, InRecovery
<1>6. BootInv'
  BY <1>1, <1>2, <1>5 DEF Inv, BootInv, InRecovery
<1>7. Active' = Active /\ WroteInv'
  BY <1>2, <1>3, <1>4, <1>5, NoCalls DEF Active
<1>8. CountInv'
  BY <1>3, <1>5, <1>7 DEF Inv, CountInv, CommitIsExclusive
<1>9. BufInv' /\ HeaderInv'
  BY <1>1, <1>3 DEF Inv, TypeOK, BufInv, HeaderInv, Entries
<1>10. pc'[p] = IF dhead.n > 0 THEN "recover" ELSE "recover_erase"
  BY <1>3 DEF Inv, TypeOK
<1>11. TailInv'
  BY <1>1, <1>3, <1>5, <1>10 DEF Inv, TypeOK, Header, TailInv
<1>12. PinInv'
  BY <1>1, <1>3, <1>5 DEF Inv, PinInv, CleanIsOnDisk, Locked, InRecovery
<1>13. StageInv'
  BY <1>1, <1>3, <1>4, <1>5, <1>10
  DEF Inv, TypeOK, Header, StageInv, HeadOnDisk
<1>. QED
  BY <1>4, <1>6, <1>7, <1>8, <1>9, <1>11, <1>12, <1>13 DEF Inv

\* install_trans() during recovery: the same copy, without a cache to trust.
LEMMA RecoverInv ==
  ASSUME Inv, NEW p \in Procs, Recover(p)
  PROVE  Inv'
<1> DEFINE t == tail[p]
           b == lh.block[t]
<1> USE ConstantsAssumption
<1>1. /\ InRecovery(p) /\ pc[p] = "recover"
      /\ lh.n \in 0 .. LOGSIZE
      /\ t \in 1 .. lh.n
      /\ b \in Blocks
      /\ dlog[t] \in Data
  BY DEF Inv, TypeOK, Header, Slots, HeaderInv, Entries, TailInv,
         Recover, InRecovery
<1>2. \A q \in Procs : /\ ~InCall(q) /\ ~InCommit(q)
                       /\ q # p => pc[q] = "off"
                       /\ buf[q] = None
  BY <1>1, RecoveryAlone
<1>3. /\ UNCHANGED <<dlog, dhead, lh, outstanding, committing, panicked, buf,
                     wrote>>
      /\ disk' = [disk EXCEPT ![b] = dlog[t]]
      /\ cache' = [cache EXCEPT ![b] = dlog[t]]
      /\ dirty' = dirty \ {b}
      /\ tail' = [tail EXCEPT ![p] = IF t < lh.n THEN t + 1 ELSE 1]
      /\ pc' = [pc EXCEPT ![p] = IF t < lh.n THEN "recover"
                                 ELSE "recover_erase"]
  BY DEF Recover, InstallBlock, NextTail, Goto, logVars
<1>4. TypeOK'
  BY <1>1, <1>3 DEF Inv, TypeOK, PCs
<1>5. \A q \in Procs : /\ InCall(q)' <=> InCall(q)
                       /\ InCommit(q)' <=> InCommit(q)
                       /\ InRecovery(q)' <=> InRecovery(q)
                       /\ q # p => pc'[q] = "off"
  BY <1>1, <1>2, <1>3 DEF Inv, TypeOK, InCall, InCommit, InRecovery
<1>6. BootInv'
  BY <1>1, <1>2, <1>5 DEF Inv, BootInv, InRecovery
<1>7. Active' = Active /\ WroteInv'
  BY <1>3, <1>5, CallsUnchanged DEF Inv
<1>8. CountInv'
  BY <1>3, <1>5, <1>7 DEF Inv, CountInv, CommitIsExclusive
<1>9. /\ pc'[p] = IF t < lh.n THEN "recover" ELSE "recover_erase"
      /\ tail'[p] = IF t < lh.n THEN t + 1 ELSE 1
      /\ \A q \in Procs : q # p => tail'[q] = tail[q]
  BY <1>3 DEF Inv, TypeOK
<1>10. BufInv' /\ HeaderInv'
  BY <1>2, <1>3, <1>5, <1>9 DEF Inv, BufInv, HeaderInv, Entries
<1>11. TailInv'
  BY <1>1, <1>2, <1>3, <1>5, <1>9 DEF Inv, TailInv
<1>12. \A c \in Blocks : /\ disk'[c] = IF c = b THEN dlog[t] ELSE disk[c]
                         /\ cache'[c] = IF c = b THEN dlog[t] ELSE cache[c]
  BY <1>3 DEF Inv, TypeOK
<1>13. PinInv'
  <2>1. dirty' = {}
    BY <1>1, <1>3 DEF Inv, PinInv
  <2>2. CleanIsOnDisk'
    BY <1>1, <1>2, <1>3, <1>12, <2>1
    DEF Inv, TypeOK, PinInv, CleanIsOnDisk, Locked
  <2>. QED
    BY <1>1, <1>5, <1>9, <2>1, <2>2 DEF PinInv, InRecovery
<1>14. StageInv'
  <2>1. HeadOnDisk'
    BY <1>1, <1>3 DEF Inv, StageInv, HeadOnDisk
  <2>2. \A i \in 1 .. t : dlog'[i] = disk'[lh.block[i]]
    <3>1. \A i \in 1 .. t - 1 : dlog[i] = disk[lh.block[i]]
      BY <1>1 DEF Inv, StageInv, SlotHome
    <3>2. \A i \in 1 .. t : i = t \/ (i \in 1 .. t - 1 /\ i \in 1 .. lh.n)
      BY <1>1
    <3>. QED
      BY <1>1, <1>3, <1>12, <3>1, <3>2 DEF Inv, HeaderInv, Entries
  <2>3. /\ pc'[p] = "recover" => tail'[p] - 1 = t
        /\ pc'[p] = "recover_erase" => lh'.n = t
        /\ pc'[p] \in {"recover", "recover_erase"}
    BY <1>1, <1>3, <1>9
  <2>4. /\ pc'[p] = "recover" => \A i \in 1 .. tail'[p] - 1 : SlotHome(i)'
        /\ pc'[p] = "recover_erase" => \A i \in 1 .. lh'.n : SlotHome(i)'
    BY <1>3, <2>2, <2>3 DEF SlotHome
  <2>5. InRecovery(p)'
    BY <2>3 DEF InRecovery
  <2>6. \A q \in Procs : q = p \/ pc'[q] = "off"
    BY <1>5
  <2>. QED
    BY <2>1, <2>3, <2>4, <2>5, <2>6 DEF StageInv
<1>. QED
  BY <1>4, <1>6, <1>7, <1>8, <1>10, <1>11, <1>13, <1>14 DEF Inv

\* Recovery erases the header once every block is home.
LEMMA RecoverEraseInv ==
  ASSUME Inv, NEW p \in Procs, RecoverErase(p)
  PROVE  Inv'
<1> USE ConstantsAssumption
<1>1. InRecovery(p)
  BY DEF RecoverErase, InRecovery
<1>2. \A q \in Procs : /\ ~InCall(q) /\ ~InCommit(q)
                       /\ buf[q] = None /\ wrote[q] = {}
  BY <1>1, RecoveryAlone
<1>3. /\ UNCHANGED <<disk, dlog, cache, dirty, outstanding, committing,
                     panicked, tail, buf, wrote>>
      /\ lh' \in Header /\ lh'.n = 0
      /\ dhead' \in Header /\ dhead'.n = 0
      /\ pc' = [q \in Procs |-> "user"]
  BY EraseHeadEmpties DEF Inv, RecoverErase
<1>4. TypeOK'
  BY <1>3 DEF Inv, TypeOK, PCs
<1>5. \A q \in Procs : ~InCall(q)' /\ ~InCommit(q)' /\ ~InRecovery(q)'
  BY <1>3 DEF InCall, InCommit, InRecovery
<1>6. BootInv'
  BY <1>3, <1>5 DEF BootInv
<1>7. Active' = Active /\ WroteInv'
  BY <1>2, <1>3, <1>4, <1>5, NoCalls DEF Active
<1>8. CountInv'
  BY <1>2, <1>3, <1>5, <1>7 DEF Inv, CountInv, CommitIsExclusive
<1>9. BufInv' /\ HeaderInv'
  BY <1>2, <1>3 DEF BufInv, HeaderInv, Entries
<1>10. TailInv'
  <2>1. \A q \in Procs : tail[q] = 1
    BY <1>1, RecoveryAlone DEF Inv, TailInv, RecoverErase
  <2>. QED
    BY <1>3, <2>1 DEF TailInv
<1>11. PinInv'
  <2>1. dirty = {}
    BY <1>1 DEF Inv, PinInv
  <2>. QED
    BY <1>3, <1>5, <2>1 DEF Inv, PinInv, Logged, CleanIsOnDisk, Locked
<1>12. StageInv'
  BY <1>3, <1>5 DEF StageInv
<1>. QED
  BY <1>4, <1>6, <1>7, <1>8, <1>9, <1>10, <1>11, <1>12 DEF Inv

\* The file system mkfs makes satisfies the invariant.
LEMMA InitInv == Init => Inv
<1> SUFFICES ASSUME Init PROVE Inv
  OBVIOUS
<1>. PICK p \in Procs : Booting(p)
  BY DEF Init
<1> USE ConstantsAssumption DEF Init, Booting
<1>1. TypeOK
  <2>1. lh \in Header /\ dhead \in Header
    BY DEF Header
  <2>2. pc \in [Procs -> PCs]
    BY DEF PCs
  <2>3. tail \in [Procs -> 1 .. LOGSIZE]
    OBVIOUS
  <2>4. committing \in BOOLEAN /\ panicked \in BOOLEAN /\ outstanding \in Nat
    OBVIOUS
  <2>5. buf \in [Procs -> Blocks \cup {None}] /\ wrote \in [Procs -> SUBSET Blocks]
    OBVIOUS
  <2>6. cache \in [Blocks -> Data \cup {None}] /\ dirty \in SUBSET Blocks
    OBVIOUS
  <2>7. disk \in [Blocks -> Data] /\ dlog \in [Slots -> Data]
    OBVIOUS
  <2>. QED
    BY <2>1, <2>2, <2>3, <2>4, <2>5, <2>6, <2>7 DEF TypeOK
<1>2. \A q \in Procs : /\ ~InCall(q) /\ ~InCommit(q)
                       /\ InRecovery(q) <=> q = p
                       /\ wrote[q] = {} /\ buf[q] = None
  BY DEF InCall, InCommit, InRecovery
<1>3. Active = {}
  BY <1>2 DEF Active
<1>4. WroteInv
  BY <1>2 DEF WroteInv
<1>6. BootInv
  BY <1>2 DEF BootInv
<1>7. CountInv
  BY <1>2, <1>3, FS_EmptySet DEF CountInv, CommitIsExclusive
<1>8. BufInv /\ TailInv /\ HeaderInv
  BY DEF BufInv, TailInv, HeaderInv, Entries
<1>9. PinInv /\ StageInv
  BY <1>2 DEF PinInv, CleanIsOnDisk, StageInv
<1>. QED
  BY <1>1, <1>4, <1>6, <1>7, <1>8, <1>9 DEF Inv

\* Every step of log.c and of the machine preserves the invariant.
LEMMA NextInv == Inv /\ [Next]_vars => Inv'
<1> SUFFICES ASSUME Inv, [Next]_vars PROVE Inv'
  OBVIOUS
<1>1. CASE UNCHANGED vars
  <2>1. Active' = Active /\ WroteInv'
    BY <1>1, CallsUnchanged DEF Inv, vars, InCall
  <2>2. TypeOK'
    BY <1>1 DEF Inv, TypeOK, vars
  <2>3. BootInv' /\ CountInv' /\ BufInv' /\ HeaderInv' /\ TailInv'
    BY <1>1, <2>1 DEF Inv, vars, BootInv, CountInv, CommitIsExclusive, BufInv,
       HeaderInv, Entries, TailInv, InCall, InCommit, InRecovery
  <2>4. PinInv' /\ StageInv'
    BY <1>1 DEF Inv, vars, PinInv, Logged, CleanIsOnDisk, Locked, StageInv,
       HeadOnDisk, SlotCached, SlotHome, InRecovery
  <2>. QED
    BY <2>1, <2>2, <2>3, <2>4 DEF Inv
<1>2. ASSUME NEW p \in Procs, Running, CallStep(p) PROVE Inv'
  BY <1>2, BeginOpInv, BeginSleepInv, ModifyInv, LogWriteCheckInv,
     LogWriteRecordInv, EndOpInv
  DEF CallStep
<1>3. ASSUME NEW p \in Procs, CommitStep(p) PROVE Inv'
  BY <1>3, CommitInv, WriteLogInv, WriteHeadInv, InstallTransInv, EraseInv,
     CommitDoneInv
  DEF CommitStep
<1>4. ASSUME NEW p \in Procs, RecoveryStep(p) PROVE Inv'
  BY <1>4, ReadHeadInv, RecoverInv, RecoverEraseInv DEF RecoveryStep
<1>5. ASSUME NEW b \in Blocks, Bread(b) \/ Evict(b) PROVE Inv'
  BY <1>5, BreadEvictInv
<1>6. ASSUME NEW p \in Procs, Crash(p) PROVE Inv'
  BY <1>6, CrashInv
<1>. QED
  BY <1>1, <1>2, <1>3, <1>4, <1>5, <1>6 DEF Next

\* The inductive invariant: how far the disk, the cache and the header are at
\* each stage of a call, a commit (log.c:190-200) and a recovery (log.c:115-122).
THEOREM Invariance == Spec => []Inv
BY InitInv, NextInv, PTL DEF Spec

\* log.lh, log.outstanding and the buffers' flags stay in range; log.lh.n has
\* not passed the end of block[] when it passes the end of the on-disk log,
\* although log_write() checks it without the lock.
THEOREM TypeCorrect == Spec => []TypeOK
<1>1. Inv => TypeOK
  BY DEF Inv
<1>. QED
  BY <1>1, Invariance, PTL

\* commit() may run without log.lock (log.c:161-164): no call is in progress and
\* nobody else commits.
THEOREM CommitRunsAlone == Spec => []CommitIsExclusive
<1>1. Inv => CommitIsExclusive
  BY DEF Inv, CountInv
<1>. QED
  BY <1>1, Invariance, PTL

\* bget() (bio.c:78-91) loses no data by recycling a buffer without B_DIRTY.
THEOREM RecyclingIsSafe == Spec => []CleanIsOnDisk
<1>1. Inv => CleanIsOnDisk
  BY DEF Inv, PinInv
<1>. QED
  BY <1>1, Invariance, PTL

\* The slot of the i-th entry is i, entries being distinct.
LEMMA SlotOfEntry ==
  ASSUME NEW h, h.n \in Nat, Entries(h), NEW i \in 1 .. h.n
  PROVE  SlotOf(h, h.block[i]) = i
BY DEF Entries, SlotOf

\* Recovery with an empty header changes nothing.
LEMMA EmptyHeadRecovers ==
  ASSUME TypeOK, dhead.n = 0
  PROVE  Recovered = disk
<1>1. Logged(dhead) = {}
  BY DEF Logged
<1>. QED
  BY <1>1 DEF TypeOK, Recovered

\* Recovery of a transaction that is already home changes nothing.
LEMMA InstalledHeadRecovers ==
  ASSUME TypeOK, HeaderInv, HeadOnDisk, \A i \in 1 .. lh.n : SlotHome(i)
  PROVE  Recovered = disk
<1>1. ASSUME NEW b \in Blocks, b \in Logged(dhead)
      PROVE  dlog[SlotOf(dhead, b)] = disk[b]
  <2>1. PICK i \in 1 .. dhead.n : b = dhead.block[i]
    BY <1>1 DEF Logged
  <2>2. SlotOf(dhead, b) = i
    BY <2>1, SlotOfEntry DEF TypeOK, Header, HeaderInv
  <2>. QED
    BY <2>1, <2>2 DEF HeadOnDisk, SlotHome
<1>. QED
  BY <1>1 DEF TypeOK, Recovered

\* A step that leaves the disk and the cache alone changes no contents.
LEMMA QuietStep ==
  ASSUME Inv, UNCHANGED <<disk, dlog, dhead, cache>>,
         \A q \in Procs : InRecovery(q)' <=> InRecovery(q)
  PROVE  Recovered' = Recovered /\ Current' = Current
<1>1. Recovered' = Recovered
  BY DEF Recovered, Logged, SlotOf
<1>2. \A b \in Blocks : bread(b)' = bread(b)
  BY DEF bread
<1>. QED
  BY <1>1, <1>2 DEF Current

\* The steps of a system call are Begin, Write and End of AtomicDisk.
LEMMA RefineCall ==
  ASSUME Inv, Inv', NEW p \in Procs, CallStep(p)
  PROVE  [AD!Next]_(AD!vars)
<1> USE DEF AD!Next, AD!vars
<1>1. ASSUME \A q \in Procs : /\ InCall(q)' <=> InCall(q)
                              /\ InRecovery(q)' <=> InRecovery(q),
             UNCHANGED <<disk, dlog, dhead, cache>>
      PROVE  UNCHANGED AD!vars
  BY <1>1, QuietStep DEF Active
<1>2. CASE BeginOp(p)
  <2>1. Recovered' = Recovered /\ Current' = Current
    BY <1>2, QuietStep DEF BeginOp, Goto, diskVars, Inv, TypeOK, InRecovery
  <2>2. p \notin Active /\ Active' = Active \cup {p}
    BY <1>2 DEF BeginOp, Goto, Inv, TypeOK, Active, InCall
  <2>. QED
    BY <2>1, <2>2 DEF AD!Begin
<1>3. CASE BeginSleep(p) \/ LogWriteCheck(p) \/ LogWriteRecord(p)
  BY <1>1, <1>3
  DEF BeginSleep, LogWriteCheck, LogWriteRecord, Panic, Goto, diskVars,
      procVars, Inv, TypeOK, InCall, InRecovery
<1>4. ASSUME NEW b \in Blocks, NEW v \in Data, Modify(p, b, v)
      PROVE  AD!Write(p, b, v)
  <2>1. /\ UNCHANGED <<disk, dlog, dhead>>
        /\ p \in Active /\ Active' = Active
        /\ \A c \in Blocks : cache'[c] = IF c = b THEN v ELSE cache[c]
        /\ v # None
    BY <1>4, ConstantsAssumption
    DEF Modify, Goto, diskVars, Inv, TypeOK, Active, InCall
  <2>2. \A q \in Procs : ~InRecovery(q) /\ ~InRecovery(q)'
    <3>1. \A q \in Procs : ~InRecovery(q)
      BY <2>1, RecoveryAlone DEF Active
    <3>. QED
      BY <1>4, <3>1 DEF Modify, Goto, Inv, TypeOK, InRecovery
  <2>3. Recovered' = Recovered
    BY <2>1 DEF Recovered, Logged, SlotOf
  <2>4. \A c \in Blocks : bread(c)' = IF c = b THEN v ELSE bread(c)
    BY <2>1 DEF bread
  <2>5. Current' = [Current EXCEPT ![b] = v]
    BY <2>2, <2>4 DEF Current
  <2>. QED
    BY <2>1, <2>3, <2>5 DEF AD!Write
<1>5. CASE EndOp(p) \/ EndOpLast(p)
  <2>1. p \in Active /\ ~committing
    BY <1>5, CommitAlone
    DEF EndOp, EndOpLast, Active, InCall, Inv, CountInv
  <2>2. /\ UNCHANGED <<disk, dlog, dhead, cache>>
        /\ \A q \in Procs : q # p =>
             \/ pc'[q] = pc[q]
             \/ pc[q] = "sleep" /\ pc'[q] = "woken"
        /\ pc'[p] \in {"user", "commit"}
        /\ pc[p] = "op"
    BY <1>5, <2>1
    DEF EndOp, EndOpLast, WakeupAndGoto, Goto, diskVars, Inv, TypeOK
  <2>3. Active' = Active \ {p}
    BY <2>2 DEF Active, InCall
  <2>4. Recovered' = Recovered /\ Current' = Current
    BY <2>2, QuietStep DEF InRecovery
  <2>. QED
    BY <2>1, <2>3, <2>4 DEF AD!End
<1>. QED
  BY <1>2, <1>3, <1>4, <1>5 DEF CallStep

\* write_head() is AtomicDisk's Commit; every other step of commit() is none.
LEMMA RefineCommit ==
  ASSUME Inv, Inv', NEW p \in Procs, CommitStep(p)
  PROVE  [AD!Next]_(AD!vars)
<1> USE ConstantsAssumption
<1>1. InCommit(p)
  BY DEF CommitStep, Commit, WriteLog, WriteHead, InstallTrans, Erase,
         CommitDone, InCommit
<1>2. \A q \in Procs : /\ ~InCall(q) /\ ~InRecovery(q)
                       /\ buf[q] = None
                       /\ q # p => ~InCommit(q)
  BY <1>1, CommitAlone
<1>3. \A q \in Procs : ~InCall(q)' /\ ~InRecovery(q)'
  BY <1>2
  DEF CommitStep, Commit, WriteLog, WriteHead, InstallTrans, Erase,
      CommitDone, Goto, WakeupAndGoto, Inv, TypeOK, InCall, InRecovery
<1>4. Active = {} /\ Active' = {}
  BY <1>2, <1>3 DEF Active
<1>5. /\ Current = [b \in Blocks |-> bread(b)]
      /\ Current' = [b \in Blocks |-> bread(b)']
  BY <1>2, <1>3 DEF Current
<1>6. CASE Commit(p) \/ CommitDone(p)
  <2>1. UNCHANGED <<disk, dlog, dhead, cache>>
    BY <1>6 DEF Commit, CommitDone, diskVars
  <2>. QED
    BY <1>2, <1>3, <1>4, <2>1, QuietStep DEF AD!vars
<1>7. CASE WriteLog(p)
  <2>1. dhead.n = 0 /\ dhead' = dhead /\ disk' = disk
    BY <1>1, <1>2, <1>7 DEF WriteLog, Inv, StageInv, InCommit
  <2>2. Recovered' = Recovered
    BY <2>1, EmptyHeadRecovers DEF Inv, TypeOK, Recovered, Logged
  <2>3. \A b \in Blocks : bread(b)' = bread(b)
    BY <1>7, <2>1 DEF WriteLog, bread, Inv, TypeOK
  <2>. QED
    BY <1>4, <1>5, <2>2, <2>3 DEF AD!vars
<1>8. CASE WriteHead(p)
  <2>1. /\ pc[p] = "write_head"
        /\ dhead' \in Header /\ dhead'.n = lh.n
        /\ Entries(dhead')
        /\ \A i \in 1 .. lh.n : dhead'.block[i] = lh.block[i]
        /\ dirty = Logged(lh)
        /\ disk' = disk /\ dlog' = dlog
    BY <1>1, <1>2, <1>8
    DEF WriteHead, Inv, TypeOK, Header, HeaderInv, Entries, PinInv, StageInv,
        HeadOnDisk, Entered, Slots, InCommit
  <2>2. Logged(dhead') = Logged(lh)
    BY <2>1 DEF Logged
  <2>3. ASSUME NEW b \in Blocks, b \in Logged(lh)
        PROVE  dlog[SlotOf(dhead', b)] = bread(b)
    <3>1. PICK i \in 1 .. lh.n : b = dhead'.block[i]
      BY <2>1, <2>3 DEF Logged
    <3>2. SlotOf(dhead', b) = i
      BY <2>1, <3>1, SlotOfEntry DEF Header
    <3>3. dlog[i] = cache[b] /\ cache[b] # None
      BY <2>1, <2>3, <3>1 DEF Inv, StageInv, SlotCached, PinInv
    <3>. QED
      BY <3>2, <3>3 DEF bread
  <2>4. ASSUME NEW b \in Blocks, b \notin Logged(lh)
        PROVE  disk[b] = bread(b)
    BY <1>2, <2>1, <2>4 DEF Inv, PinInv, CleanIsOnDisk, Locked, bread
  <2>5. Recovered' = Current
    BY <1>5, <2>1, <2>2, <2>3, <2>4 DEF Recovered
  <2>6. Current' = Current
    BY <1>5, <1>8 DEF WriteHead, bread
  <2>. QED
    BY <1>4, <2>5, <2>6 DEF AD!Next, AD!Commit
<1>9. CASE InstallTrans(p)
  <2> DEFINE t == tail[p]
             b == lh.block[t]
  <2>1. /\ pc[p] = "install"
        /\ lh.n \in Nat /\ t \in 1 .. lh.n
        /\ b \in Blocks
        /\ HeadOnDisk
        /\ dhead' = dhead /\ dlog' = dlog
        /\ \A c \in Blocks : /\ disk'[c] = IF c = b THEN dlog[t] ELSE disk[c]
                             /\ cache'[c] = IF c = b THEN dlog[t] ELSE cache[c]
    BY <1>9 DEF InstallTrans, InstallBlock, Inv, TypeOK, Header, HeaderInv,
       Entries, TailInv, StageInv
  <2>2. cache[b] = dlog[t] /\ cache[b] # None
    BY <2>1 DEF Inv, StageInv, SlotCached, PinInv
  <2>3. \A c \in Blocks : bread(c)' = bread(c)
    BY <2>1, <2>2 DEF bread
  <2>4. b \in Logged(dhead)
    BY <2>1 DEF HeadOnDisk, Logged
  <2>5. Recovered' = Recovered
    BY <2>1, <2>4 DEF Recovered, Logged, SlotOf
  <2>. QED
    BY <1>4, <1>5, <2>3, <2>5 DEF AD!vars
<1>10. CASE Erase(p)
  <2>1. Recovered = disk
    BY <1>10, InstalledHeadRecovers DEF Erase, Inv, StageInv
  <2>2. Recovered' = disk'
    <3>1. dhead'.n = 0 /\ disk' \in [Blocks -> Data]
      BY <1>10, EraseHeadEmpties DEF Erase, Inv, TypeOK
    <3>2. Logged(dhead)' = {}
      BY <3>1 DEF Logged
    <3>. QED
      BY <3>1, <3>2 DEF Recovered
  <2>3. disk' = disk /\ Current' = Current
    BY <1>5, <1>10 DEF Erase, bread
  <2>. QED
    BY <1>4, <2>1, <2>2, <2>3 DEF AD!vars
<1>. QED
  BY <1>6, <1>7, <1>8, <1>9, <1>10 DEF CommitStep

\* Recovery is invisible: the contents were decided by the crash.
LEMMA RefineRecovery ==
  ASSUME Inv, Inv', NEW p \in Procs, RecoveryStep(p)
  PROVE  UNCHANGED AD!vars
<1> USE ConstantsAssumption
<1>1. InRecovery(p)
  BY DEF RecoveryStep, ReadHead, Recover, RecoverErase, InRecovery
<1>2. \A q \in Procs : ~InCall(q) /\ buf[q] = None
  BY <1>1, RecoveryAlone
<1>3. \A q \in Procs : ~InCall(q)'
  BY <1>2 DEF RecoveryStep, ReadHead, Recover, RecoverErase, Goto, Inv, TypeOK,
     InCall
<1>4. Active = {} /\ Active' = {} /\ Current = Recovered
  BY <1>1, <1>2, <1>3 DEF Active, Current
<1>5. CASE ReadHead(p)
  <2>1. UNCHANGED <<disk, dlog, dhead>> /\ InRecovery(p)'
    BY <1>5 DEF ReadHead, Goto, diskVars, Inv, TypeOK, InRecovery
  <2>2. Recovered' = Recovered
    BY <2>1 DEF Recovered, Logged, SlotOf
  <2>. QED
    BY <1>4, <2>1, <2>2 DEF AD!vars, Current
<1>6. CASE Recover(p)
  <2> DEFINE t == tail[p]
             b == lh.block[t]
  <2>1. /\ lh.n \in Nat /\ t \in 1 .. lh.n
        /\ b \in Blocks
        /\ HeadOnDisk
        /\ dhead' = dhead /\ dlog' = dlog
        /\ \A c \in Blocks : disk'[c] = IF c = b THEN dlog[t] ELSE disk[c]
        /\ InRecovery(p)'
    BY <1>6 DEF Recover, InstallBlock, Goto, Inv, TypeOK, Header, HeaderInv,
       Entries, TailInv, StageInv, InRecovery
  <2>2. b \in Logged(dhead) /\ SlotOf(dhead, b) = t
    BY <2>1, SlotOfEntry DEF HeadOnDisk, Logged, Inv, HeaderInv
  <2>3. Recovered' = Recovered
    BY <2>1, <2>2 DEF Recovered, Logged, SlotOf
  <2>. QED
    BY <1>4, <2>1, <2>3 DEF AD!vars, Current
<1>7. CASE RecoverErase(p)
  <2>1. Recovered = disk
    BY <1>7, InstalledHeadRecovers DEF RecoverErase, Inv, StageInv
  <2>2. /\ dhead'.n = 0
        /\ disk' = disk /\ cache' = cache
        /\ disk \in [Blocks -> Data]
        /\ \A q \in Procs : ~InRecovery(q)'
    BY <1>7, EraseHeadEmpties DEF RecoverErase, Inv, TypeOK, InRecovery
  <2>3. Logged(dhead)' = {}
    BY <2>2 DEF Logged
  <2>4. Recovered' = disk
    BY <2>2, <2>3 DEF Recovered
  <2>5. \A b \in Blocks : bread(b)' = disk[b]
    BY <1>1, <1>2, <2>2 DEF Inv, PinInv, CleanIsOnDisk, Locked, bread
  <2>6. Current' = disk
    BY <2>2, <2>5 DEF Current
  <2>. QED
    BY <1>4, <2>1, <2>4, <2>6 DEF AD!vars
<1>. QED
  BY <1>5, <1>6, <1>7 DEF RecoveryStep

\* Caching and recycling buffers is invisible.
LEMMA RefineCache ==
  ASSUME Inv, NEW b \in Blocks, Bread(b) \/ Evict(b)
  PROVE  UNCHANGED AD!vars
<1>1. UNCHANGED <<disk, dlog, dhead, dirty, pc>>
  BY DEF Bread, Evict, diskVars, procVars
<1>2. \A c \in Blocks : bread(c)' = bread(c)
  BY ConstantsAssumption
  DEF Bread, Evict, diskVars, bread, Inv, TypeOK, PinInv, CleanIsOnDisk
<1>3. Recovered' = Recovered
  BY <1>1 DEF Recovered, Logged, SlotOf
<1>4. Current' = Current /\ Active' = Active
  BY <1>1, <1>2, <1>3 DEF Current, Active, InCall, InRecovery
<1>. QED
  BY <1>3, <1>4 DEF AD!vars

\* A crash, at any step, is AtomicDisk's Crash.
LEMMA RefineCrash ==
  ASSUME NEW p \in Procs, Crash(p)
  PROVE  AD!Crash
<1>1. \A q \in Procs : ~InCall(q)' /\ (InRecovery(q)' <=> q = p)
  BY DEF Crash, InCall, InRecovery
<1>2. Recovered' = Recovered
  BY DEF Crash, diskVars, Recovered, Logged, SlotOf
<1>3. Current' = Recovered' /\ Active' = {}
  BY <1>1 DEF Current, Active
<1>. QED
  BY <1>2, <1>3 DEF AD!Crash

\* log.c:9-15: system calls between begin_op() and end_op() are atomic with
\* respect to crashes, for any number of processes, blocks and log entries.
THEOREM LogImplementsAtomicDisk == Spec => CallsAreAtomic
<1>1. Init => AD!Init
  <2> SUFFICES ASSUME Init PROVE AD!Init
    OBVIOUS
  <2>1. Inv
    BY InitInv
  <2>2. Recovered = disk
    BY <2>1, EmptyHeadRecovers DEF Init, Inv
  <2>3. Current = Recovered /\ Active = {}
    BY DEF Init, Booting, Current, Active, InCall, InRecovery
  <2>. QED
    BY <2>2, <2>3 DEF Init, AD!Init
<1>2. Inv /\ Inv' /\ [Next]_vars => [AD!Next]_(AD!vars)
  <2> SUFFICES ASSUME Inv, Inv', [Next]_vars PROVE [AD!Next]_(AD!vars)
    OBVIOUS
  <2>1. CASE UNCHANGED vars
    <3>1. Recovered' = Recovered /\ Current' = Current
      BY <2>1, QuietStep DEF vars, InRecovery
    <3>2. Active' = Active
      BY <2>1 DEF vars, Active, InCall
    <3>. QED
      BY <3>1, <3>2 DEF AD!vars
  <2>2. ASSUME NEW p \in Procs, CallStep(p) \/ CommitStep(p) \/ RecoveryStep(p)
        PROVE  [AD!Next]_(AD!vars)
    BY <2>2, RefineCall, RefineCommit, RefineRecovery
  <2>3. ASSUME NEW b \in Blocks, Bread(b) \/ Evict(b)
        PROVE  [AD!Next]_(AD!vars)
    BY <2>3, RefineCache
  <2>4. ASSUME NEW p \in Procs, Crash(p) PROVE AD!Next
    BY <2>4, RefineCrash DEF AD!Next
  <2>. QED
    BY <2>1, <2>2, <2>3, <2>4 DEF Next
<1>. QED
  BY <1>1, <1>2, Invariance, PTL DEF Spec, CallsAreAtomic, AD!Spec

\* Whoever goes to sleep in begin_op() leaves somebody behind who will wake it.
LEMMA WakerInv ==
  ASSUME Inv, Inv', IdleInv, SleeperHasWaker, [Next]_vars
  PROVE  IdleInv' /\ SleeperHasWaker'
<1> USE ConstantsAssumption, SizesAssumption
<1> DEFINE Busy == \E q \in Procs : InCall(q) \/ InCommit(q)
<1>1. ASSUME Busy' PROVE IdleInv' /\ SleeperHasWaker'
  BY <1>1 DEF IdleInv, SleeperHasWaker
<1>2. ASSUME lh'.n = 0, \A q \in Procs : pc'[q] # "sleep"
      PROVE  IdleInv' /\ SleeperHasWaker'
  BY <1>2 DEF IdleInv, SleeperHasWaker
<1>3. ASSUME UNCHANGED <<pc, lh>> PROVE IdleInv' /\ SleeperHasWaker'
  BY <1>3 DEF IdleInv, SleeperHasWaker, InCall, InCommit, InRecovery
<1>4. ASSUME NEW p \in Procs, BeginSleep(p)
      PROVE  IdleInv' /\ SleeperHasWaker'
  <2>1. CASE Busy
    <3>1. Busy'
      BY <1>4, <2>1 DEF BeginSleep, Goto, Inv, TypeOK, InCall, InCommit
    <3>. QED
      BY <3>1, <1>1
  <2>2. CASE ~Busy
    <3>1. Active = {} /\ outstanding = 0 /\ ~committing
      BY <2>2, FS_EmptySet DEF Inv, CountInv, Active
    <3>2. \A q \in Procs : ~InRecovery(q)
      BY <1>4, RecoveryAlone DEF BeginSleep, InRecovery
    <3>3. lh.n = 0
      BY <2>2, <3>2 DEF IdleInv
    <3>. QED
      BY <1>4, <3>1, <3>3 DEF BeginSleep
  <2>. QED
    BY <2>1, <2>2
<1>5. ASSUME NEW p \in Procs, EndOp(p), ~committing
      PROVE  Busy'
  <2>1. p \in Active /\ Active # {p}
    <3>1. p \in Active
      BY <1>5 DEF EndOp, Active, InCall
    <3>2. Cardinality(Active) # 1
      BY <1>5 DEF EndOp, Inv, CountInv
    <3>. QED
      BY <3>1, <3>2, FS_Singleton
  <2>2. PICK q \in Active : q # p
    BY <2>1
  <2>3. pc'[q] = pc[q]
    BY <1>5, <2>2 DEF EndOp, WakeupAndGoto, Active, InCall
  <2>. QED
    BY <2>2, <2>3 DEF Active, InCall
<1>6. ASSUME NEW p \in Procs, CallStep(p)
      PROVE  IdleInv' /\ SleeperHasWaker'
  <2>1. CASE BeginSleep(p)
    BY <1>4, <2>1
  <2>2. CASE EndOp(p)
    <3>1. CASE committing
      BY <1>3, <2>2, <3>1 DEF EndOp, Panic, procVars, logVars
    <3>. QED
      BY <1>1, <1>5, <2>2, <3>1
  <2>3. CASE EndOpLast(p)
    <3>1. CASE committing
      BY <1>3, <2>3, <3>1 DEF EndOpLast, Panic, procVars, logVars
    <3>2. CASE ~committing
      <4>1. InCommit(p)'
        BY <2>3, <3>2 DEF EndOpLast, Goto, Inv, TypeOK, InCommit
      <4>. QED
        BY <1>1, <4>1
    <3>. QED
      BY <3>1, <3>2
  <2>4. CASE \/ BeginOp(p) \/ LogWriteRecord(p)
             \/ \E b \in Blocks, v \in Data : Modify(p, b, v)
    <3>1. InCall(p)'
      BY <2>4 DEF BeginOp, LogWriteRecord, Modify, Goto, Inv, TypeOK, InCall
    <3>. QED
      BY <1>1, <3>1
  <2>5. CASE LogWriteCheck(p)
    <3>1. InCall(p)'
      BY <2>5 DEF LogWriteCheck, Goto, Panic, procVars, Inv, TypeOK, InCall
    <3>. QED
      BY <1>1, <3>1
  <2>. QED
    BY <1>6, <2>1, <2>2, <2>3, <2>4, <2>5 DEF CallStep
<1>7. ASSUME NEW p \in Procs, CommitStep(p)
      PROVE  IdleInv' /\ SleeperHasWaker'
  <2>1. CASE CommitDone(p)
    <3>1. lh'.n = 0
      BY <2>1 DEF CommitDone, Inv, TailInv
    <3>2. \A q \in Procs : pc'[q] # "sleep"
      BY <2>1 DEF CommitDone, WakeupAndGoto
    <3>. QED
      BY <1>2, <3>1, <3>2
  <2>2. CASE ~CommitDone(p)
    <3>1. InCommit(p)'
      BY <1>7, <2>2
      DEF CommitStep, Commit, WriteLog, WriteHead, InstallTrans, Erase, Goto,
          Inv, TypeOK, InCommit
    <3>. QED
      BY <1>1, <3>1
  <2>. QED
    BY <2>1, <2>2
<1>8. ASSUME NEW p \in Procs, ReadHead(p) \/ Recover(p) \/ Crash(p)
      PROVE  IdleInv' /\ SleeperHasWaker'
  <2>1. InRecovery(p)'
    BY <1>8
    DEF ReadHead, Recover, Crash, Goto, Inv, TypeOK, InRecovery
  <2>2. \A q \in Procs : pc'[q] # "sleep"
    BY <2>1 DEF Inv, BootInv, InRecovery
  <2>. QED
    BY <2>1, <2>2 DEF IdleInv, SleeperHasWaker
<1>9. ASSUME NEW p \in Procs, RecoverErase(p)
      PROVE  IdleInv' /\ SleeperHasWaker'
  BY <1>2, <1>9, EraseHeadEmpties DEF RecoverErase, Inv
<1>10. ASSUME NEW b \in Blocks, Bread(b) \/ Evict(b)
       PROVE  IdleInv' /\ SleeperHasWaker'
  BY <1>3, <1>10 DEF Bread, Evict, logVars, procVars
<1>11. CASE UNCHANGED vars
  BY <1>3, <1>11 DEF vars
<1>. QED
  BY <1>6, <1>7, <1>8, <1>9, <1>10, <1>11 DEF Next, RecoveryStep

\* A process asleep in begin_op() (log.c:130-134) always has a call or a commit
\* in progress whose end_op() wakes it.
THEOREM SleepersHaveWakers == Spec => []SleeperHasWaker
<1>1. Init => IdleInv /\ SleeperHasWaker
  BY DEF Init, Booting, IdleInv, SleeperHasWaker
<1>2. /\ IdleInv /\ SleeperHasWaker
      /\ Inv /\ Inv' /\ [Next]_vars
      => (IdleInv /\ SleeperHasWaker)'
  BY WakerInv
<1>. QED
  BY <1>1, <1>2, Invariance, PTL DEF Spec

=============================================================================
