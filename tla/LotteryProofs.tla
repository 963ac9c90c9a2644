---------------------------- MODULE LotteryProofs ----------------------------
(***************************************************************************)
(* No process can be starved by a lack of tickets: for tables of any size, *)
(* any number of CPUs and all ticket numbers that a decay cannot use up.   *)
(***************************************************************************)
EXTENDS Lottery, TLAPS

\* The types the argument needs; nothing is said of total, a sum of tickets.
Typed ==
  /\ ntickets \in [Slots -> Int] /\ priority \in [Slots -> Int]
  /\ mode \in [CPUs -> {"idle", "uniform", "count", "draw", "run", "decay", "bonus"}]
  /\ proc \in [CPUs -> Slots \cup {None}]
  /\ none \in [CPUs -> BOOLEAN]
  /\ scan \in 0 .. NPROC /\ read \in Int
  /\ slot \in [Slots -> 0 .. NPROC]
  /\ at \in [Slots -> {"visit", "test", "give"}]
  /\ arg \in [Slots -> 0 .. 2]
  /\ \A r \in Slots : at[r] # "visit" => slot[r] # 0 /\ arg[r] # 2

\* Who is in a round, or in yield() or sleep(), has ptable.lock.
LockInv ==
  \A c \in CPUs :
    /\ mode[c] \notin {"idle", "run"} => lock = c
    /\ mode[c] \in {"run", "decay", "bonus"} => proc[c] \in Slots
    /\ mode[c] \in {"uniform", "count"} => scan \in Slots

\* Nobody has drawn yet; the first round is giving its tickets.
Fresh ==
  /\ \A p \in Slots : slot[p] = 0
  /\ \A c \in CPUs :
       /\ mode[c] \in {"idle", "uniform"}
       /\ mode[c] = "idle" => none[c]
       /\ mode[c] = "uniform" => \A q \in Slots : q < scan => ntickets[q] > 0

\* n tickets, or a priority, of slot q are enough to lose one.
Safe(q, n) == n > 1 \/ q \in overtook

\* From the first round on every slot has a ticket, also those that are not
\* RUNNABLE, because wakeup() and fork() let them in as they are; what a decay
\* has tested, and what it may find when it reads again, is more than one; and
\* so is the priority that a policy() is about to give.
Provided ==
  /\ \A p \in Slots : ntickets[p] > 0 \/ p \in overtook
  /\ \A c \in CPUs : mode[c] = "decay" => read > 1 /\ Safe(proc[c], ntickets[proc[c]])
  /\ \A c \in CPUs : mode[c] = "bonus" => read > 0 \/ proc[c] \in overtook
  /\ \A r \in Slots : slot[r] # 0 /\ arg[r] = 1 /\ at[r] # "visit" =>
       Safe(slot[r], priority[slot[r]])

TicketInv == Typed /\ LockInv /\ (Fresh \/ Provided)

\* The static zeros of boot satisfy the invariant: nobody has drawn.
LEMMA TicketInit == Init => TicketInv
<1> SUFFICES ASSUME Init PROVE TicketInv  OBVIOUS
<1>1. Typed  BY LotteryAssumption DEF Init, Typed, Slots
<1>2. LockInv /\ Fresh  BY DEF Init, LockInv, Fresh
<1>3. QED  BY <1>1, <1>2 DEF TicketInv

\* A round begins with the uniform policy or with tickets that are there.
LEMMA RoundKeepsTickets ==
  ASSUME TicketInv, NEW c \in CPUs, Round(c)
  PROVE  TicketInv'
<1> USE DEF TicketInv
<1>1. 1 \in Slots /\ 1 \in 0 .. NPROC  BY LotteryAssumption DEF Slots
<1>2. Typed'  BY <1>1 DEF Round, Typed, procVars, policyVars
<1>3. LockInv'
  BY <1>1, LotteryAssumption DEF Round, Typed, LockInv, procVars, policyVars
<1>4. CASE Fresh
  <2>1. \A q \in Slots : ~(q < 1)  BY LotteryAssumption DEF Slots
  <2>2. Fresh'
    BY <1>4, <2>1, LotteryAssumption DEF Round, Typed, LockInv, Fresh, procVars, policyVars
  <2>3. QED  BY <1>2, <1>3, <2>2
<1>5. CASE Provided
  BY <1>2, <1>3, <1>5 DEF Round, Typed, Provided, Safe, procVars, policyVars
<1>6. QED  BY <1>4, <1>5

\* Counting leaves tickets alone; the uniform policy gives more than one.
LEMMA CountKeepsTickets ==
  ASSUME TicketInv, NEW c \in CPUs, Count(c)
  PROVE  TicketInv'
<1> USE DEF TicketInv
<1> DEFINE n == IF mode[c] = "uniform" THEN Uniform ELSE ntickets[scan]
<1>1. /\ scan \in Slots /\ lock = c
      /\ \A d \in CPUs : d # c => mode[d] \in {"idle", "run"}
  BY DEF Count, LockInv
<1>2. /\ n \in Int /\ (n = ntickets[scan] \/ n > 1)
      /\ ntickets' = [ntickets EXCEPT ![scan] = n]
  BY <1>1, LotteryAssumption DEF Count, Typed
<1>3. scan' \in 0 .. NPROC /\ (scan # NPROC => scan' \in Slots /\ scan' = scan + 1)
  BY <1>1, LotteryAssumption DEF Count, Slots
<1>4. Typed'
  <2>1. ntickets' \in [Slots -> Int]  BY <1>1, <1>2, LotteryAssumption DEF Typed
  <2>2. mode' \in [CPUs -> {"idle", "uniform", "count", "draw", "run", "decay", "bonus"}]
    BY DEF Count, Typed
  <2>3. UNCHANGED <<priority, proc, none, read, slot, at, arg>>
    BY DEF Count, policyVars
  <2>4. QED  BY <1>3, <2>1, <2>2, <2>3 DEF Typed
<1>5. LockInv'
  <2>1. CASE scan = NPROC
    BY <1>1, <2>1 DEF Count, Typed, LockInv
  <2>2. CASE scan # NPROC
    BY <1>1, <1>3, <2>2 DEF Count, Typed, LockInv
  <2>3. QED  BY <2>1, <2>2
<1>6. CASE Provided
  <2>1. \A p \in Slots : ntickets'[p] = ntickets[p] \/ ntickets'[p] > 1
    BY <1>1, <1>2 DEF Typed
  <2>2. \A d \in CPUs : mode'[d] \notin {"decay", "bonus"}
    BY <1>1 DEF Count, Typed
  <2>3. UNCHANGED <<priority, slot, at, arg, overtook>>  BY DEF Count, policyVars
  <2>4. \A p \in Slots : ntickets'[p] \in Int  BY <1>4 DEF Typed
  <2>5. Provided'
    BY <1>6, <2>1, <2>2, <2>3, <2>4 DEF Provided, Safe
  <2>6. QED  BY <1>4, <1>5, <2>5
<1>7. CASE Fresh
  <2>1. mode[c] = "uniform" /\ n = Uniform
    BY <1>7 DEF Count, Fresh
  <2>2. \A d \in CPUs : d # c => mode[d] = "idle" /\ none[d]
    BY <1>1, <1>7 DEF Fresh
  <2>3. \A q \in Slots : q <= scan => ntickets'[q] > 0
    <3>1. \A q \in Slots : q <= scan => q = scan \/ q < scan
      BY <1>1 DEF Slots
    <3>2. QED
      BY <1>1, <1>2, <1>7, <2>1, <3>1, LotteryAssumption DEF Fresh, Typed
  <2>4. CASE scan = NPROC
    <3>1. \A q \in Slots : q <= scan  BY <2>4, LotteryAssumption DEF Slots
    <3>2. \A d \in CPUs : mode'[d] \notin {"decay", "bonus"}
      BY <1>1, <2>1, <2>2 DEF Count, Typed
    <3>3. \A r \in Slots : slot'[r] # 0 /\ arg'[r] = 1 /\ at'[r] # "visit" =>
            Safe(slot[r], priority[slot[r]])'
      BY <1>7 DEF Count, Fresh, policyVars
    <3>4. QED  BY <1>4, <1>5, <2>3, <3>1, <3>2, <3>3 DEF Provided
  <2>5. CASE scan # NPROC
    <3>1. UNCHANGED <<mode, none, slot>>  BY <2>5 DEF Count, policyVars
    <3>2. \A q \in Slots : q < scan' => q <= scan
      BY <1>1, <1>3, <2>5 DEF Slots
    <3>3. Fresh'
      BY <1>7, <2>3, <3>1, <3>2 DEF Fresh
    <3>4. QED  BY <1>4, <1>5, <3>3
  <2>6. QED  BY <2>4, <2>5
<1>8. QED  BY <1>6, <1>7

\* A draw moves no tickets, and only a process of the table can win.
LEMMA DrawKeepsTickets ==
  ASSUME TicketInv, NEW c \in CPUs, NEW t,
         Draw(c, t) \/ DrawNone(c, t)
  PROVE  TicketInv'
<1> USE DEF TicketInv
<1>1. mode[c] = "draw" /\ lock = c /\ Provided
  BY DEF Draw, DrawNone, LockInv, Fresh
<1>2. \A d \in CPUs : d # c => mode[d] \in {"idle", "run"}
  BY <1>1 DEF LockInv
<1>3. ASSUME NEW to \in {"idle", "run"}, RoundEnds(c, to),
             proc' \in [CPUs -> Slots \cup {None}],
             to = "run" => proc'[c] \in Slots,
             \A d \in CPUs : d # c => proc'[d] = proc[d]
      PROVE  TicketInv'
  <2>1. UNCHANGED <<ntickets, priority, scan, read, slot, at, arg, overtook>>
    BY <1>3 DEF RoundEnds, policyVars
  <2>2. Typed'  BY <1>3, <2>1 DEF RoundEnds, Typed
  <2>3. LockInv'  BY <1>2, <1>3 DEF RoundEnds, Typed, LockInv
  <2>4. \A d \in CPUs : mode'[d] \notin {"decay", "bonus"}
    BY <1>2, <1>3 DEF RoundEnds, Typed
  <2>5. Provided'  BY <1>1, <2>1, <2>4 DEF Provided, Safe
  <2>6. QED  BY <2>2, <2>3, <2>5
<1>4. CASE Draw(c, t)
  <2>1. PICK p \in Winners(t) : proc' = [proc EXCEPT ![c] = p]
    BY <1>4 DEF Draw
  <2>2. p \in Slots  BY <2>1 DEF Winners, Runnable
  <2>3. QED  BY <1>3, <1>4, <2>1, <2>2 DEF Draw, Typed
<1>5. CASE DrawNone(c, t)
  BY <1>3, <1>5 DEF DrawNone, Typed
<1>6. QED  BY <1>4, <1>5

\* yield(), sleep() and exit() leave the tickets to ChangeTickets(); a decay has
\* seen more than one.
LEMMA LeavingKeepsTickets ==
  ASSUME TicketInv, NEW c \in CPUs, Yield(c) \/ Sleep(c) \/ Exit(c)
  PROVE  TicketInv'
<1> USE DEF TicketInv
<1> DEFINE p == proc[c]
<1>1. mode[c] = "run" /\ lock = None /\ Provided /\ p \in Slots
  BY DEF Yield, Sleep, Exit, LeaveCPU, LockInv, Fresh
<1>2. \A d \in CPUs : mode[d] \in {"idle", "run"}
  BY <1>1, LotteryAssumption DEF LockInv
<1>3. UNCHANGED <<ntickets, priority, none, scan, slot, at, arg, overtook>>
  BY DEF Yield, Sleep, Exit, LeaveCPU, policyVars
<1>4. \/ /\ mode' = [mode EXCEPT ![c] = "idle"]
         /\ proc' = [proc EXCEPT ![c] = None] /\ UNCHANGED <<lock, read>>
      \/ /\ mode' = [mode EXCEPT ![c] = "decay"] /\ ntickets[p] > 1
         /\ lock' = c /\ read' = ntickets[p] /\ proc' = proc
      \/ /\ mode' = [mode EXCEPT ![c] = "bonus"]
         /\ lock' = c /\ read' = ntickets[p] /\ proc' = proc
  BY DEF Yield, Sleep, Exit, LeaveCPU
<1>5. Typed'  BY <1>1, <1>3, <1>4 DEF Typed
<1>6. LockInv'
  BY <1>1, <1>2, <1>3, <1>4 DEF Typed, LockInv
<1>7. Provided'
  <2>1. \A d \in CPUs : d # c => mode'[d] \in {"idle", "run"}
    BY <1>2, <1>4 DEF Typed
  <2>2. CASE mode' = [mode EXCEPT ![c] = "idle"]
    BY <1>1, <1>3, <2>1, <2>2 DEF Typed, Provided, Safe
  <2>3. CASE mode' = [mode EXCEPT ![c] = "decay"] /\ ntickets[p] > 1
             /\ read' = ntickets[p] /\ proc' = proc
    BY <1>1, <1>3, <2>1, <2>3 DEF Typed, Provided, Safe
  <2>4. CASE mode' = [mode EXCEPT ![c] = "bonus"]
             /\ read' = ntickets[p] /\ proc' = proc
    BY <1>1, <1>3, <2>1, <2>4 DEF Typed, Provided, Safe
  <2>5. QED  BY <1>4, <2>2, <2>3, <2>4
<1>8. QED  BY <1>5, <1>6, <1>7

\* The decay and the bonus, from either of the two values they may have read.
LEMMA ChangeKeepsTickets ==
  ASSUME TicketInv, NEW c \in CPUs, ChangeTickets(c)
  PROVE  TicketInv'
<1> USE DEF TicketInv
<1> DEFINE p == proc[c]
<1> DEFINE by == IF mode[c] = "decay" THEN - 1 ELSE Bonus
<1>1. mode[c] \in {"decay", "bonus"} /\ lock = c /\ Provided /\ p \in Slots
  BY DEF ChangeTickets, LockInv, Fresh
<1>2. \A d \in CPUs : d # c => mode[d] \in {"idle", "run"}
  BY <1>1 DEF LockInv
<1>3. PICK n \in {read, ntickets[p]} : ntickets' = [ntickets EXCEPT ![p] = n + by]
  BY DEF ChangeTickets
<1>4. n \in Int /\ by \in Int  BY <1>1, LotteryAssumption DEF Typed
<1>5. n + by > 0 \/ p \in overtook
  <2>1. CASE mode[c] = "decay"
    BY <1>1, <1>4, <2>1 DEF Provided, Safe, Typed
  <2>2. CASE mode[c] = "bonus"
    BY <1>1, <1>4, <2>2, LotteryAssumption DEF Provided, Typed
  <2>3. QED  BY <1>1, <2>1, <2>2
<1>6. UNCHANGED <<priority, none, scan, slot, at, arg, overtook>>
  BY DEF ChangeTickets, policyVars
<1>7. mode' = [mode EXCEPT ![c] = "idle"] /\ proc' = [proc EXCEPT ![c] = None]
      /\ lock' = None /\ read' = 0
  BY DEF ChangeTickets
<1>8. Typed'  BY <1>1, <1>3, <1>4, <1>6, <1>7 DEF Typed
<1>9. LockInv'  BY <1>2, <1>6, <1>7 DEF Typed, LockInv
<1>10. Provided'
  <2>1. \A d \in CPUs : mode'[d] \notin {"decay", "bonus"}
    BY <1>2, <1>7 DEF Typed
  <2>2. \A q \in Slots : ntickets'[q] > 0 \/ q \in overtook
    BY <1>1, <1>3, <1>4, <1>5 DEF Typed, Provided
  <2>3. QED  BY <1>1, <1>6, <2>1, <2>2 DEF Provided, Safe
<1>11. QED  BY <1>8, <1>9, <1>10

\* policy() on its way to the next slot.
LEMMA AdvanceTyped ==
  ASSUME Typed, NEW p \in Slots, slot[p] # 0, Advanced(p)
  PROVE  /\ slot' \in [Slots -> 0 .. NPROC]
         /\ at' \in [Slots -> {"visit", "test", "give"}]
         /\ arg' \in [Slots -> 0 .. 2]
         /\ at'[p] = "visit"
         /\ \A r \in Slots : r # p =>
              slot'[r] = slot[r] /\ at'[r] = at[r] /\ arg'[r] = arg[r]
<1>1. (IF slot[p] = NPROC THEN 0 ELSE slot[p] + 1) \in 0 .. NPROC
  BY LotteryAssumption DEF Typed
<1>2. slot' = [slot EXCEPT ![p] = IF slot[p] = NPROC THEN 0 ELSE slot[p] + 1]
  BY DEF Advanced
<1>3. slot' \in [Slots -> 0 .. NPROC]  BY <1>1, <1>2 DEF Typed
<1>4. at' = [at EXCEPT ![p] = "visit"]
      /\ arg' = IF slot[p] = NPROC THEN [arg EXCEPT ![p] = 0] ELSE arg
  BY DEF Advanced
<1>5. QED  BY <1>2, <1>3, <1>4 DEF Typed

\* A step of policy() keeps the invariant when what it writes is safe.
LEMMA WritesKeepTickets ==
  ASSUME TicketInv, NEW c \in CPUs, mode[c] = "run", UNCHANGED PolicyRest,
         slot[proc[c]] # 0,
         \/ UNCHANGED <<slot, arg>> /\ \E l \in {"test", "give"} :
              at' = [at EXCEPT ![proc[c]] = l]
         \/ Advanced(proc[c]),
         \/ ntickets' = ntickets
         \/ \E n \in Int : /\ Safe(slot[proc[c]], n)
                           /\ ntickets' = [ntickets EXCEPT ![slot[proc[c]]] = n],
         \/ priority' = priority
         \/ priority' = [priority EXCEPT ![slot[proc[c]]] = Priority],
         at'[proc[c]] # "visit" => arg[proc[c]] # 2,
         \/ at'[proc[c]] = "visit" \/ arg[proc[c]] # 1
         \/ at[proc[c]] # "visit"
         \/ priority' = [priority EXCEPT ![slot[proc[c]]] = Priority]
  PROVE  TicketInv'
<1> USE DEF TicketInv
<1> DEFINE p == proc[c]
<1> DEFINE q == slot[p]
<1>1. p \in Slots /\ Provided  BY DEF LockInv, Fresh
<1>2. q \in Slots  BY <1>1 DEF Typed, Slots
<1>3. UNCHANGED <<proc, mode, none, lock, scan, read, overtook>>  BY DEF PolicyRest
<1>4. /\ slot' \in [Slots -> 0 .. NPROC]
      /\ at' \in [Slots -> {"visit", "test", "give"}]
      /\ arg' \in [Slots -> 0 .. 2]
      /\ \A r \in Slots : r # p =>
           slot'[r] = slot[r] /\ at'[r] = at[r] /\ arg'[r] = arg[r]
      /\ at'[p] = "visit" \/ (slot'[p] = q /\ arg'[p] = arg[p])
  <2>1. CASE Advanced(p)
    <3>1. PICK x \in Slots : x = p  BY <1>1
    <3>2. Typed /\ slot[x] # 0 /\ Advanced(x)  BY <2>1, <3>1
    <3>3. /\ slot' \in [Slots -> 0 .. NPROC]
          /\ at' \in [Slots -> {"visit", "test", "give"}]
          /\ arg' \in [Slots -> 0 .. 2]
          /\ at'[x] = "visit"
          /\ \A r \in Slots : r # x =>
               slot'[r] = slot[r] /\ at'[r] = at[r] /\ arg'[r] = arg[r]
      BY <3>2, AdvanceTyped
    <3>4. QED  BY <3>1, <3>3
  <2>2. CASE UNCHANGED <<slot, arg>> /\ \E l \in {"test", "give"} :
              at' = [at EXCEPT ![p] = l]
    BY <1>1, <2>2 DEF Typed
  <2>3. QED  BY <2>1, <2>2
<1>5. /\ ntickets' \in [Slots -> Int]
      /\ \A r \in Slots : ntickets'[r] = ntickets[r] \/ Safe(r, ntickets'[r])
  BY <1>2 DEF Typed
<1>6. /\ priority' \in [Slots -> Int]
      /\ \A r \in Slots : priority'[r] = priority[r] \/ Safe(r, priority'[r])
  BY <1>2, LotteryAssumption DEF Typed, Safe
<1>7. Typed'  BY <1>3, <1>4, <1>5, <1>6 DEF Typed
<1>8. LockInv'  BY <1>3 DEF LockInv
<1>9. \A r \in Slots : slot'[r] # 0 /\ arg'[r] = 1 /\ at'[r] # "visit" =>
        Safe(slot[r], priority[slot[r]])'
  <2> SUFFICES ASSUME NEW r \in Slots, slot'[r] # 0, arg'[r] = 1, at'[r] # "visit"
               PROVE  Safe(slot'[r], priority'[slot'[r]])
    BY <1>3 DEF Safe
  <2>1. slot'[r] \in Slots  BY <1>4 DEF Slots
  <2>2. CASE r # p
    <3>1. Safe(slot[r], priority[slot[r]])  BY <1>1, <1>4, <2>2 DEF Provided
    <3>2. QED  BY <1>4, <1>6, <2>1, <2>2, <3>1
  <2>3. CASE r = p
    <3>1. slot'[r] = q /\ arg[p] = 1  BY <1>4, <2>3
    <3>2. CASE at[p] # "visit"
      <4>1. Safe(q, priority[q])  BY <1>1, <3>1, <3>2 DEF Provided
      <4>2. QED  BY <1>2, <1>6, <3>1, <4>1
    <3>3. CASE priority' = [priority EXCEPT ![q] = Priority]
      BY <1>2, <3>1, <3>3, LotteryAssumption DEF Typed, Safe
    <3>4. QED  BY <2>3, <3>1, <3>2, <3>3
  <2>4. QED  BY <2>2, <2>3
<1>10. Provided'
  <2>1. \A r \in Slots : ntickets'[r] > 0 \/ r \in overtook
    BY <1>1, <1>5 DEF Provided, Safe
  <2>2. \A d \in CPUs : mode[d] = "decay" =>
          read > 1 /\ Safe(proc[d], ntickets'[proc[d]])
    BY <1>1, <1>5 DEF Provided, LockInv
  <2>3. QED  BY <1>1, <1>3, <1>9, <2>1, <2>2 DEF Provided, Safe
<1>11. QED  BY <1>7, <1>8, <1>10

\* policy(): what it gives is more than one ticket, or was set in its window.
LEMMA PolicyKeepsTickets ==
  ASSUME TicketInv, NEW c \in CPUs,
         PolicyVisit(c) \/ PolicyTest(c) \/ PolicyGive(c)
  PROVE  TicketInv'
<1> USE DEF TicketInv
<1> DEFINE p == proc[c]
<1> DEFINE q == slot[p]
<1>1. p \in Slots /\ Provided /\ mode[c] = "run" /\ q # 0
  BY DEF PolicyVisit, PolicyTest, PolicyGive, LockInv, Fresh
<1>2. CASE PolicyVisit(c)
  <2>1. CASE arg[p] = 1
    BY <1>1, <1>2, <2>1, WritesKeepTickets DEF PolicyVisit
  <2>2. CASE arg[p] = 0
    BY <1>1, <1>2, <2>2, WritesKeepTickets, LotteryAssumption
    DEF PolicyVisit, Give, Safe
  <2>3. CASE arg[p] = 2
    <3>1. at'[p] = "visit"
      BY <1>1, <1>2, <2>3, AdvanceTyped DEF PolicyVisit
    <3>2. QED
      BY <1>1, <1>2, <2>3, <3>1, WritesKeepTickets, LotteryAssumption
      DEF PolicyVisit, Give, Safe
  <2>4. QED  BY <1>1, <2>1, <2>2, <2>3 DEF Typed
<1>3. CASE PolicyTest(c)
  <2>1. UNCHANGED PolicyRest /\ ntickets' = ntickets /\ priority' = priority
        /\ at[p] = "test"
    BY <1>3 DEF PolicyTest
  <2>2. CASE q \in Runnable
    <3>1. UNCHANGED <<slot, arg>> /\ at' = [at EXCEPT ![p] = "give"] /\ arg[p] # 2
      BY <1>1, <1>3, <2>1, <2>2 DEF PolicyTest, Typed
    <3>2. QED  BY <1>1, <2>1, <3>1, WritesKeepTickets
  <2>3. CASE q \notin Runnable
    <3>1. Advanced(p) /\ at'[p] = "visit"
      BY <1>1, <1>3, <2>3, AdvanceTyped DEF PolicyTest
    <3>2. QED  BY <1>1, <2>1, <3>1, WritesKeepTickets
  <2>4. QED  BY <2>2, <2>3
<1>4. CASE PolicyGive(c)
  <2>1. PICK n \in Given(arg[p], q) : Give(q, n)  BY <1>4 DEF PolicyGive
  <2>2. q \in Slots  BY <1>1 DEF Typed, Slots
  <2>3. n \in Int /\ Safe(q, n)
    <3>1. CASE n \in {Uniform, Priority}
      BY <3>1, LotteryAssumption DEF Safe
    <3>2. CASE n = priority[q] /\ arg[p] # 0
      <4>1. arg[p] # 2  BY <1>1, <1>4 DEF PolicyGive, Typed
      <4>2. arg[p] = 1  BY <1>1, <3>2, <4>1 DEF Typed
      <4>3. QED  BY <1>1, <1>4, <2>2, <3>2, <4>2 DEF PolicyGive, Provided, Typed
    <3>3. QED  BY <2>1, <3>1, <3>2 DEF Given
  <2>4. at'[p] = "visit"
    BY <1>1, <1>4, AdvanceTyped DEF PolicyGive
  <2>5. QED
    BY <1>1, <1>4, <2>1, <2>3, <2>4, WritesKeepTickets DEF PolicyGive, Give
<1>5. QED  BY <1>2, <1>3, <1>4

\* priority(): a policy() that is in its window has been noted.
LEMMA PriorityKeepsTickets ==
  ASSUME TicketInv, NEW c \in CPUs, NEW pr \in Priorities, SetPriority(c, pr)
  PROVE  TicketInv'
<1> USE DEF TicketInv
<1> DEFINE p == proc[c]
<1>1. p \in Slots /\ Provided /\ pr \in Int
  BY LotteryAssumption DEF SetPriority, LockInv, Fresh
<1>2. UNCHANGED <<ntickets, mode, proc, none, lock, scan, read, slot, at, arg>>
  BY DEF SetPriority
<1>3. priority' = [priority EXCEPT ![p] = pr]
      /\ overtook' = IF Window(p) /\ pr < 2 THEN overtook \cup {p} ELSE overtook
  BY DEF SetPriority
<1>4. Typed' /\ LockInv'  BY <1>1, <1>2, <1>3 DEF Typed, LockInv
<1>5. \A r \in Slots : slot[r] # 0 /\ arg[r] = 1 /\ at[r] # "visit" =>
        priority'[slot[r]] > 1 \/ slot[r] \in overtook'
  <2> SUFFICES ASSUME NEW r \in Slots, slot[r] # 0, arg[r] = 1, at[r] # "visit"
               PROVE  priority'[slot[r]] > 1 \/ slot[r] \in overtook'
    OBVIOUS
  <2>1. slot[r] \in Slots  BY DEF Typed, Slots
  <2>2. CASE slot[r] = p
    <3>1. Window(p)  BY <2>2 DEF Window
    <3>2. QED  BY <1>1, <1>3, <2>2, <3>1 DEF Typed
  <2>3. CASE slot[r] # p
    BY <1>1, <1>3, <2>1, <2>3 DEF Typed, Provided, Safe
  <2>4. QED  BY <2>2, <2>3
<1>6. overtook \subseteq overtook'  BY <1>3
<1>7. Provided'  BY <1>1, <1>2, <1>5, <1>6 DEF Provided, Safe
<1>8. QED  BY <1>4, <1>7

\* policy() begins at the first slot, or nowhere.
LEMMA BeginKeepsTickets ==
  ASSUME TicketInv, NEW c \in CPUs, NEW pl \in Policies, Policy(c, pl)
  PROVE  TicketInv'
<1> USE DEF TicketInv
<1> DEFINE p == proc[c]
<1>1. p \in Slots /\ Provided /\ slot[p] = 0 /\ at' = at
  BY DEF Policy, LockInv, Fresh
<1>2. UNCHANGED <<ntickets, priority, mode, proc, none, lock, scan, read, overtook>>
  BY DEF Policy
<1>3. 1 \in 0 .. NPROC  BY LotteryAssumption
<1>4. CASE pl \in 0 .. 2
  <2>1. slot' = [slot EXCEPT ![p] = 1] /\ arg' = [arg EXCEPT ![p] = pl]
    BY <1>4 DEF Policy
  <2>2. Typed' /\ LockInv'
    BY <1>1, <1>2, <1>3, <1>4, <2>1 DEF Typed, LockInv
  <2>3. Provided'
    BY <1>1, <1>2, <2>1 DEF Typed, Provided, Safe
  <2>4. QED  BY <2>2, <2>3
<1>5. CASE pl \notin 0 .. 2
  <2>1. UNCHANGED <<slot, arg>>  BY <1>5 DEF Policy
  <2>2. QED  BY <1>1, <1>2, <2>1 DEF Typed, LockInv, Provided, Safe
<1>6. QED  BY <1>4, <1>5

\* Every step of the lottery preserves the invariant.
LEMMA TicketStep == TicketInv /\ [Next]_vars => TicketInv'
<1> SUFFICES ASSUME TicketInv, [Next]_vars PROVE TicketInv'
  OBVIOUS
<1>1. ASSUME NEW c \in CPUs, SchedulerStep(c) PROVE TicketInv'
  BY <1>1, RoundKeepsTickets, CountKeepsTickets, DrawKeepsTickets DEF SchedulerStep
<1>2. ASSUME NEW c \in CPUs, ProcessStep(c) PROVE TicketInv'
  BY <1>2, LeavingKeepsTickets, ChangeKeepsTickets, PolicyKeepsTickets,
     BeginKeepsTickets, PriorityKeepsTickets
  DEF ProcessStep, PolicyStep
<1>3. ASSUME NEW p \in Slots, Wake(p) PROVE TicketInv'
  BY <1>3 DEF Wake, TicketInv, Typed, LockInv, Fresh, Provided, Safe, policyVars
<1>4. CASE UNCHANGED vars
  BY <1>4
  DEF vars, procVars, policyVars, TicketInv, Typed, LockInv, Fresh, Provided, Safe
<1>5. CASE Next
  BY <1>1, <1>2, <1>3, <1>4, <1>5 DEF Next, Lost
<1>6. QED  BY <1>4, <1>5

\* When scheduler() draws, every RUNNABLE process has a ticket, or a process in
\* its slot has set its priority inside the window of a policy(1): through the
\* fallback of the count, the decay in yield(), the bonus in sleep(), slots
\* reused by fork() and policy() calls that take no lock and come between any
\* two accesses.
THEOREM NobodyIsStarved == Spec => []NobodyStarves
<1>1. TicketInv => NobodyStarves
  BY DEF TicketInv, Fresh, Provided, NobodyStarves, Runnable
<1>2. QED  BY <1>1, TicketInit, TicketStep, PTL DEF Spec
=============================================================================
