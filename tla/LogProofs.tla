------------------------------ MODULE LogProofs ------------------------------
(***************************************************************************)
(* The redo log is an atomic disk: proofs about module Log.                *)
(*                                                                         *)
(* Counting is begin_op's reservation: log.outstanding counts the          *)
(* operations in progress, and the blocks that are logged for good fit in  *)
(* the log together with MAXOPBLOCKS blocks for each of them.  It gives    *)
(* the invariant of module LogInv the room it needs, and with it come the  *)
(* bound on log.lh, the wakeups of begin_op and the refinement.            *)
(***************************************************************************)
EXTENDS LogInv, FiniteSetTheorems, WellFoundedInduction

\* The logged blocks that no operation in progress answers for.
Settled == {b \in LoggedBlocks(lh) : \A p \in InOp : b \notin opblocks[p]}

Counting ==
  /\ outstanding = Cardinality(InOp)
  /\ Cardinality(Settled) + outstanding * MAXOPBLOCKS <= LOGSIZE
  /\ \A p \in InOp : IsFiniteSet(opblocks[p]) /\ Cardinality(opblocks[p]) <= MAXOPBLOCKS
-----------------------------------------------------------------------------
\* The blocks that a header names are finitely many, as many as its length
\* when none is named twice.
LEMMA LoggedFacts ==
  ASSUME NEW h \in Seq(Blocks)
  PROVE  /\ LoggedBlocks(h) \subseteq Blocks
         /\ IsFiniteSet(LoggedBlocks(h))
         /\ Distinct(h) => Cardinality(LoggedBlocks(h)) = Len(h)
<1>1. h \in Surjection(1..Len(h), LoggedBlocks(h))
  BY DEF LoggedBlocks, Surjection
<1>2. IsFiniteSet(1..Len(h)) /\ Cardinality(1..Len(h)) = Len(h)
  <2>1. Len(h) \in Nat  OBVIOUS
  <2>2. 1 \in Int /\ Len(h) \in Int  BY <2>1
  <2>3. /\ IsFiniteSet(1..Len(h))
        /\ Cardinality(1..Len(h)) = IF 1 > Len(h) THEN 0 ELSE Len(h) - 1 + 1
    BY <2>2, FS_Interval, Zenon
  <2> QED  BY <2>1, <2>3
<1>3. Distinct(h) => h \in Injection(1..Len(h), LoggedBlocks(h))
  BY <1>1 DEF Distinct, Injection, Surjection, IsInjective
<1> QED  BY <1>1, <1>2, <1>3, FS_Surjection DEF LoggedBlocks

\* The settled blocks can be counted.
LEMMA SettledFinite ==
  ASSUME TypeOK
  PROVE  IsFiniteSet(Settled) /\ Cardinality(Settled) \in Nat
<1>1. Settled \subseteq LoggedBlocks(lh)  BY DEF Settled
<1> QED  BY <1>1, LoggedFacts, FS_Subset, FS_CardinalityType DEF TypeOK

\* The operations in progress can be counted.
LEMMA OpsFinite ==
  ASSUME LogConstants
  PROVE  IsFiniteSet(InOp) /\ Cardinality(InOp) \in Nat
<1>1. InOp \subseteq Procs  BY DEF InOp
<1> QED  BY <1>1, FS_Subset, FS_CardinalityType DEF LogConstants

\* What counting tells the commit: the last operation finds log.outstanding
\* at 1, and without operations the transaction fits in the log.
LEMMA CountingRoom ==
  ASSUME LogConstants, Inv, Counting
  PROVE  Room
<1>1. ASSUME NEW p \in InOp PROVE outstanding > 0 /\ (outstanding = 1 => InOp = {p})
  <2>1. IsFiniteSet(InOp \ {p}) /\ Cardinality(InOp \ {p}) = Cardinality(InOp) - 1
    BY <1>1, OpsFinite, FS_RemoveElement
  <2>2. Cardinality(InOp \ {p}) \in Nat  BY <2>1, FS_CardinalityType
  <2>3. Cardinality(InOp \ {p}) = 0 => InOp \ {p} = {}
    <3>1. \A S : IsFiniteSet(S) /\ Cardinality(S) = 0 => S = {}  BY FS_EmptySet
    <3> QED  BY <2>1, <3>1, Zenon
  <2>4. outstanding \in Nat /\ outstanding - 1 \in Nat
        /\ (outstanding = 1 => Cardinality(InOp \ {p}) = 0)
    BY <2>1, <2>2, OpsFinite DEF Counting
  <2>5. outstanding = 1 => InOp = {p}  BY <1>1, <2>3, <2>4
  <2> QED  BY <2>4, <2>5
<1>2. InOp = {} => Len(lh) <= LOGSIZE
  <2> SUFFICES ASSUME InOp = {} PROVE Len(lh) <= LOGSIZE  OBVIOUS
  <2>1. Settled = LoggedBlocks(lh)  BY DEF Settled
  <2>2. outstanding * MAXOPBLOCKS = 0  BY FS_EmptySet DEF Counting, LogConstants
  <2> QED  BY <2>1, <2>2, LoggedFacts, SettledFinite DEF Inv, Headers, TypeOK, Counting, LogConstants
<1> QED  BY <1>1, <1>2 DEF Room

\* A step that leaves the operations and the log's blocks as they are.
LEMMA CountingKept ==
  ASSUME Counting, InOp' = InOp, UNCHANGED <<lh, outstanding>>,
         \A p \in InOp : opblocks'[p] = opblocks[p]
  PROVE  Counting'
<1>1. Settled' = Settled  BY DEF Settled
<1> QED  BY <1>1 DEF Counting

\* A state without operations.
LEMMA CountingIdle ==
  ASSUME LogConstants, Inv, InOp = {}, outstanding = 0, Len(lh) <= LOGSIZE
  PROVE  Counting
<1>1. Settled = LoggedBlocks(lh)  BY DEF Settled
<1>2. Cardinality(Settled) = Len(lh)  BY <1>1, LoggedFacts DEF Inv, TypeOK, Headers
<1>3. Cardinality(InOp) = 0  BY FS_EmptySet
<1>4. outstanding * MAXOPBLOCKS = 0  BY DEF LogConstants
<1> QED  BY <1>2, <1>3, <1>4 DEF Counting, Inv, TypeOK, LogConstants

LEMMA CountingIdleNext ==
  ASSUME LogConstants, Inv', InOp' = {}, outstanding' = 0, Len(lh') <= LOGSIZE
  PROVE  Counting'
<1>1. (LogConstants /\ Inv /\ InOp = {} /\ outstanding = 0 /\ Len(lh) <= LOGSIZE => Counting)'
  BY CountingIdle, PTL
<1> QED  BY <1>1 DEF LogConstants

\* Every step keeps the count.
LEMMA StepCounting ==
  ASSUME LogConstants, Inv, Inv', Counting, [Next]_vars
  PROVE  Counting'
<1> USE DEF At, Goto, WakeAndGoto, diskVars, cacheVars, opVars
<1>t. TypeOK /\ TypeOK'  BY DEF Inv
<1>r. Room  BY CountingRoom
<1>n. outstanding \in Nat /\ MAXOPBLOCKS \in Nat /\ LOGSIZE \in Nat
  BY <1>t DEF TypeOK, LogConstants
<1>o. InOp = {} => outstanding = 0  BY FS_EmptySet DEF Counting
<1>1. CASE UNCHANGED vars  BY <1>1, CountingKept DEF vars, InOp
<1>2. ASSUME NEW b \in Blocks, bread(b) \/ recycle(b) PROVE Counting'
  BY <1>2, CountingKept DEF bread, recycle, InOp
<1>3. ASSUME NEW p \in Procs, call(p) \/ log_writeCheck(p) PROVE Counting'
  <2>1. InOp' = InOp  BY <1>3, <1>t, OpsKept DEF call, log_writeCheck, TypeOK, Working
  <2> QED  BY <1>3, <2>1, CountingKept DEF call, log_writeCheck
<1>4. ASSUME NEW p \in Procs, begin_op(p) PROVE Counting'
  <2> USE <1>4 DEF begin_op
  <2>1. p \notin InOp  BY DEF InOp
  <2>2. \A q \in InOp : opblocks'[q] = opblocks[q]  BY <2>1, <1>t DEF InOp, TypeOK
  <2>3. CASE committing \/ NoRoom
    <3>1. InOp' = InOp  BY <2>3, <1>t, OpsKept DEF TypeOK, Working
    <3> QED  BY <2>2, <2>3, <3>1, CountingKept
  <2>4. CASE ~(committing \/ NoRoom)
    <3>1. InOp' = InOp \cup {p}  BY <2>4, <1>t DEF TypeOK, InOp
    <3>2. Cardinality(InOp') = Cardinality(InOp) + 1
      BY <3>1, <2>1, OpsFinite, FS_AddElement, Zenon
    <3>3. Cardinality(Settled') <= Len(lh) /\ Cardinality(Settled') \in Nat
      <4>1. Settled' \subseteq LoggedBlocks(lh)  BY DEF Settled
      <4> QED  BY <4>1, <1>t, LoggedFacts, FS_Subset, FS_CardinalityType DEF TypeOK, Inv, Headers
    <3>4. Len(lh) + (outstanding + 1) * MAXOPBLOCKS <= LOGSIZE
      BY <2>4, <1>n, <1>t DEF NoRoom, TypeOK
    <3>5. Cardinality(Settled') + outstanding' * MAXOPBLOCKS <= LOGSIZE
      <4>1. (outstanding + 1) * MAXOPBLOCKS \in Nat  BY <1>n
      <4>2. outstanding' = outstanding + 1  BY <2>4
      <4> QED  BY <3>3, <3>4, <4>1, <4>2, <1>n, <1>t DEF TypeOK
    <3>6. \A q \in InOp' : IsFiniteSet(opblocks'[q]) /\ Cardinality(opblocks'[q]) <= MAXOPBLOCKS
      <4>1. opblocks'[p] = {}  BY <1>t DEF TypeOK
      <4>2. IsFiniteSet(opblocks'[p]) /\ Cardinality(opblocks'[p]) = 0
        BY <4>1, FS_EmptySet
      <4> QED  BY <4>2, <2>2, <3>1, <1>n DEF Counting
    <3> QED  BY <2>4, <3>2, <3>5, <3>6 DEF Counting
  <2> QED  BY <2>3, <2>4
<1>5. ASSUME NEW p \in Procs, NEW b \in Blocks, NEW v \in Vals, modify(p, b, v) PROVE Counting'
  <2> USE <1>5 DEF modify
  <2>1. p \in InOp  BY DEF InOp
  <2>2. InOp' = InOp  BY <1>t, OpsKept DEF TypeOK, Working
  <2>3. opblocks'[p] = opblocks[p] \cup {b} /\ \A q \in InOp : q # p => opblocks'[q] = opblocks[q]
    BY <1>t DEF TypeOK, InOp
  <2>4. Settled' \subseteq Settled  BY <2>1, <2>2, <2>3 DEF Settled
  <2>5. Cardinality(Settled') <= Cardinality(Settled) /\ Cardinality(Settled') \in Nat
    BY <2>4, <1>t, SettledFinite, FS_Subset, FS_CardinalityType
  <2>6. Cardinality(Settled') + outstanding' * MAXOPBLOCKS <= LOGSIZE
    <3>1. outstanding * MAXOPBLOCKS \in Nat  BY <1>n
    <3> QED  BY <2>5, <3>1, <1>t, <1>n, SettledFinite DEF Counting
  <2>7. IsFiniteSet(opblocks'[p])
    <3>1. IsFiniteSet(opblocks[p])  BY <2>1 DEF Counting
    <3>2. IsFiniteSet(opblocks[p] \cup {b})  BY <3>1, FS_AddElement
    <3> QED  BY <2>3, <3>2, Zenon
  <2> QED  BY <2>2, <2>3, <2>6, <2>7, Zenon DEF Counting
<1>6. ASSUME NEW p \in Procs, log_write(p) PROVE Counting'
  <2>1. PICK b \in blk[p] : lh' = IF b \in LoggedBlocks(lh) THEN lh ELSE Append(lh, b)
    BY <1>6, Zenon DEF log_write
  <2>2. pc[p] = "checked" /\ pc' = [pc EXCEPT ![p] = "op"] /\ UNCHANGED <<opblocks, outstanding>>
    BY <1>6 DEF log_write
  <2>3. b \in Blocks /\ b \in opblocks[p]  BY <1>t, <2>1, <2>2 DEF Inv, Holding, TypeOK
  <2>4. LoggedBlocks(lh') = LoggedBlocks(lh) \cup {b}
    BY <1>t, <2>1, <2>3, AppendFacts DEF TypeOK
  <2>5. InOp' = InOp /\ p \in InOp  BY <2>2, <1>t, OpsKept DEF TypeOK, Working, InOp
  <2>6. Settled' = Settled  BY <2>2, <2>3, <2>4, <2>5 DEF Settled
  <2> QED  BY <2>2, <2>5, <2>6 DEF Counting
<1>7. ASSUME NEW p \in Procs, end_op(p) PROVE Counting'
  <2>1. p \in InOp /\ ~committing  BY <1>7 DEF end_op, InOp, Inv, Turns
  <2>2. outstanding' = outstanding - 1 /\ UNCHANGED <<lh, opblocks>>  BY <1>7 DEF end_op
  <2>3. InOp' = InOp \ {p}  BY <1>7, <2>1, <1>t DEF end_op, InOp, TypeOK
  <2>4. Cardinality(InOp') = outstanding' /\ outstanding' \in Nat
    <3>1. IsFiniteSet(InOp \ {p}) /\ Cardinality(InOp \ {p}) = Cardinality(InOp) - 1
      BY <2>1, OpsFinite, FS_RemoveElement
    <3>2. Cardinality(InOp \ {p}) \in Nat  BY <3>1, FS_CardinalityType
    <3> QED  BY <2>2, <2>3, <3>1, <3>2 DEF Counting
  <2>5. Settled' \subseteq Settled \cup opblocks[p]  BY <2>2, <2>3 DEF Settled
  <2>6. IsFiniteSet(opblocks[p]) /\ Cardinality(opblocks[p]) <= MAXOPBLOCKS
    BY <2>1 DEF Counting
  <2>7. Cardinality(Settled') <= Cardinality(Settled) + MAXOPBLOCKS /\ Cardinality(Settled') \in Nat
    <3>1. /\ IsFiniteSet(Settled \cup opblocks[p])
          /\ Cardinality(Settled \cup opblocks[p]) =
               Cardinality(Settled) + Cardinality(opblocks[p]) - Cardinality(Settled \cap opblocks[p])
      BY <2>6, <1>t, SettledFinite, FS_Union
    <3>2. Cardinality(Settled') <= Cardinality(Settled \cup opblocks[p]) /\ IsFiniteSet(Settled')
      BY <2>5, <3>1, FS_Subset
    <3>3. IsFiniteSet(Settled \cap opblocks[p])  BY <2>6, FS_Intersection
    <3>4. /\ Cardinality(Settled') \in Nat /\ Cardinality(Settled \cap opblocks[p]) \in Nat
          /\ Cardinality(opblocks[p]) \in Nat
      BY <2>6, <3>2, <3>3, FS_CardinalityType
    <3> QED  BY <2>6, <3>1, <3>2, <3>4, <1>t, <1>n, SettledFinite
  <2>8. outstanding * MAXOPBLOCKS = outstanding' * MAXOPBLOCKS + MAXOPBLOCKS
        /\ outstanding' * MAXOPBLOCKS \in Nat
    BY <2>2, <2>4, <1>n
  <2>9. Cardinality(Settled') + outstanding' * MAXOPBLOCKS <= LOGSIZE
    BY <2>7, <2>8, <1>t, <1>n, SettledFinite DEF Counting
  <2> QED  BY <2>2, <2>3, <2>4, <2>9 DEF Counting
<1>8. ASSUME NEW p \in Procs,
             write_log(p) \/ write_head(p) \/ write_headErase(p) \/ end_opFinish(p)
      PROVE  Counting'
  <2>1. InOp' = InOp
    BY <1>8, <1>t, OpsKept DEF write_log, write_head, write_headErase, end_opFinish, TypeOK, Working
  <2> QED  BY <1>8, <2>1, CountingKept DEF write_log, write_head, write_headErase, end_opFinish
<1>9. ASSUME NEW p \in Procs, install_trans(p) PROVE Counting'
  <2>1. pc[p] \in Ending  BY <1>9 DEF install_trans, Ending
  <2>2. InOp = {} /\ Len(lh) <= LOGSIZE  BY <1>r, <2>1, Committer
  <2>3. InOp' = InOp  BY <1>9, <1>t, OpsKept DEF install_trans, TypeOK, Working
  <2>4. outstanding' = outstanding /\ Len(lh') <= LOGSIZE  BY <1>9, <2>2, <1>n DEF install_trans
  <2> QED  BY <1>o, <2>2, <2>3, <2>4, CountingIdleNext
<1>10. CASE crash
  <2>1. InOp' = {} /\ outstanding' = 0 /\ Len(lh') <= LOGSIZE  BY <1>10, <1>n DEF crash, InOp
  <2> QED  BY <2>1, CountingIdleNext
<1>11. CASE read_head
  <2>1. InOp = {}  BY <1>11, Recovering DEF read_head, Running
  <2>2. InOp' = InOp /\ outstanding' = outstanding /\ Len(lh') <= LOGSIZE
    BY <1>11, Zenon DEF read_head, InOp, Inv, Headers
  <2> QED  BY <1>o, <2>1, <2>2, CountingIdleNext
<1>12. CASE recover_from_log
  <2>1. InOp = {}  BY <1>12, Recovering DEF recover_from_log, Running
  <2>2. InOp' = InOp /\ outstanding' = outstanding /\ Len(lh') <= LOGSIZE
    BY <1>12, <1>n, <1>r, <2>1 DEF recover_from_log, InOp, Room
  <2> QED  BY <1>o, <2>1, <2>2, CountingIdleNext
<1>13. CASE recoverErase  BY <1>13, CountingKept DEF recoverErase, InOp
<1> QED
  BY <1>1, <1>2, <1>3, <1>4, <1>5, <1>6, <1>7, <1>8, <1>9, <1>10, <1>11, <1>12, <1>13
  DEF Next, step

\* What log.c keeps true of a transaction in every reachable state.
THEOREM InvSafe == ASSUME LogConstants PROVE Spec => [](Inv /\ Counting)
<1>1. Init => Inv /\ Counting
  <2> SUFFICES ASSUME Init PROVE Inv /\ Counting  OBVIOUS
  <2>1. Inv  BY InitInv
  <2>2. InOp = {} /\ outstanding = 0 /\ Len(lh) <= LOGSIZE  BY NoOps DEF Init, LogConstants
  <2> QED  BY <2>1, <2>2, CountingIdle
<1>2. Inv /\ Counting /\ [Next]_vars => Inv' /\ Counting'
  BY CountingRoom, StepInv, StepCounting
<1> QED  BY <1>1, <1>2, PTL DEF Spec
-----------------------------------------------------------------------------
(* The wakeups of begin_op.                                                *)

\* A begin_op that must wait has an operation or a commit to wait for: the log
\* is empty between transactions.
Wakers ==
  /\ Running /\ outstanding = 0 /\ ~committing => lh = <<>>
  /\ SleeperHasWaker

\* A step that puts no process to sleep and keeps the wakers.
LEMMA WakersKept ==
  ASSUME LogConstants, Inv, Wakers, UNCHANGED <<outstanding, committing>>,
         \A q \in Procs : pc'[q] = "asleep" => pc[q] = "asleep",
         Running' => Running, lh' \in {lh, <<>>}
  PROVE  Wakers'
  BY DEF Wakers, SleeperHasWaker

\* Every step keeps the wakers, when one operation fits in the log.
LEMMA StepWakers ==
  ASSUME LogConstants, MAXOPBLOCKS <= LOGSIZE, Inv, Counting, Wakers, [Next]_vars
  PROVE  Wakers'
<1> USE DEF At, Goto, WakeAndGoto, diskVars, cacheVars, opVars
<1>o. InOp = {} => outstanding = 0  BY FS_EmptySet DEF Counting
<1>r. Room  BY CountingRoom
<1>1. CASE UNCHANGED vars  BY <1>1, WakersKept DEF vars, Running
<1>2. ASSUME NEW b \in Blocks, bread(b) \/ recycle(b) PROVE Wakers'
  BY <1>2, WakersKept DEF bread, recycle, Running
<1>3. CASE crash  BY <1>3 DEF crash, Wakers, SleeperHasWaker, Running
<1>4. CASE read_head
  <2>1. ~Running /\ ~Running'  BY <1>4 DEF read_head, Running
  <2> QED  BY <1>4, <2>1, <1>o, Recovering DEF read_head, Wakers, SleeperHasWaker
<1>5. CASE recover_from_log
  <2>1. ~Running /\ ~Running'  BY <1>5 DEF recover_from_log, Running
  <2> QED  BY <1>5, <2>1, <1>o, Recovering DEF recover_from_log, Wakers, SleeperHasWaker
<1>6. CASE recoverErase
  <2>1. ~Running /\ lh = <<>>  BY <1>6 DEF recoverErase, Running, Inv, Phases
  <2> QED  BY <1>6, <2>1, <1>o, Recovering DEF recoverErase, Wakers, SleeperHasWaker
<1>7. ASSUME NEW p \in Procs, call(p) PROVE Wakers'
  BY <1>7, WakersKept DEF call, Inv, TypeOK, Running
<1>8. ASSUME NEW p \in Procs, NEW b \in Blocks, NEW v \in Vals, modify(p, b, v) PROVE Wakers'
  BY <1>8, WakersKept DEF modify, Inv, TypeOK, Running
<1>9. ASSUME NEW p \in Procs, begin_op(p) PROVE Wakers'
  <2>1. CASE committing \/ NoRoom
    <3>1. committing \/ outstanding > 0
      <4> SUFFICES ASSUME ~committing, outstanding = 0 PROVE FALSE
        BY DEF Inv, TypeOK
      <4>1. Len(lh) = 0  BY <1>9 DEF begin_op, Wakers, Running
      <4>2. (outstanding + 1) * MAXOPBLOCKS = MAXOPBLOCKS  BY DEF LogConstants
      <4> QED  BY <2>1, <4>1, <4>2 DEF NoRoom, LogConstants
    <3> QED  BY <1>9, <2>1, <3>1 DEF begin_op, Wakers, SleeperHasWaker, Running
  <2>2. CASE ~(committing \/ NoRoom)
    <3>1. outstanding' > 0  BY <1>9, <2>2 DEF begin_op, Inv, TypeOK
    <3> QED  BY <3>1 DEF Wakers, SleeperHasWaker, Inv, TypeOK
  <2> QED  BY <2>1, <2>2
<1>10. ASSUME NEW p \in Procs, log_writeCheck(p) \/ log_write(p) PROVE Wakers'
  <2>1. p \in InOp  BY <1>10 DEF log_writeCheck, log_write, InOp
  <2>2. outstanding > 0
    BY <1>r, <2>1 DEF Room
  <2>3. outstanding' = outstanding  BY <1>10 DEF log_writeCheck, log_write
  <2> QED  BY <2>2, <2>3 DEF Wakers, SleeperHasWaker, Inv, TypeOK
<1>11. ASSUME NEW p \in Procs, end_op(p) PROVE Wakers'
  <2>1. ~committing  BY <1>11 DEF end_op, Inv, Turns, InOp
  <2>2. CASE outstanding' = 0  BY <1>11, <2>1, <2>2 DEF end_op, Wakers, SleeperHasWaker
  <2>3. CASE outstanding' # 0
    <3>1. \A q \in Procs : pc'[q] # "asleep"  BY <1>11, <2>1, <2>3 DEF end_op
    <3> QED  BY <2>3, <3>1 DEF Wakers, SleeperHasWaker
  <2> QED  BY <2>2, <2>3
<1>12. ASSUME NEW p \in Procs,
              write_log(p) \/ write_head(p) \/ install_trans(p) \/ write_headErase(p)
       PROVE  Wakers'
  <2>1. committing /\ committing'
    <3>1. pc[p] \in Ending
      BY <1>12 DEF write_log, write_head, install_trans, write_headErase, Ending
    <3> QED  BY <1>12, <3>1, <1>r, Committer DEF write_log, write_head, install_trans, write_headErase
  <2> QED  BY <2>1 DEF Wakers, SleeperHasWaker
<1>13. ASSUME NEW p \in Procs, end_opFinish(p) PROVE Wakers'
  <2>1. \A q \in Procs : pc'[q] # "asleep"  BY <1>13 DEF end_opFinish
  <2>2. lh' = <<>>  BY <1>13 DEF end_opFinish, Inv, Phases
  <2> QED  BY <2>1, <2>2 DEF Wakers, SleeperHasWaker
<1> QED
  BY <1>1, <1>2, <1>3, <1>4, <1>5, <1>6, <1>7, <1>8, <1>9, <1>10, <1>11, <1>12, <1>13
  DEF Next, step

\* A process asleep in begin_op has a wakeup to come, as soon as the log has room
\* for one operation.
THEOREM SleeperSafe ==
  ASSUME LogConstants, MAXOPBLOCKS <= LOGSIZE
  PROVE  Spec => []SleeperHasWaker
<1>1. Init => Wakers  BY DEF Init, Wakers, SleeperHasWaker
<1>2. Inv /\ Counting /\ Wakers /\ [Next]_vars => Wakers'  BY StepWakers
<1>3. Wakers => SleeperHasWaker  BY DEF Wakers
<1> QED  BY <1>1, <1>2, <1>3, InvSafe, PTL DEF Spec
-----------------------------------------------------------------------------
(* The room in log.lh.                                                     *)

\* A set of naturals has a least element.
LEMMA LeastNat ==
  ASSUME NEW T \in SUBSET Nat, T # {}
  PROVE  \E n \in T : \A m \in T : n <= m
<1>1. \E x \in T : \A y \in T : ~(y < x)
  <2>1. IsWellFoundedOn(OpToRel(<, Nat), Nat)  BY NatLessThanWellFounded, Zenon
  <2>2. \E x \in T : \A y \in T : ~(<<y, x>> \in OpToRel(<, Nat))  BY <2>1, WFMin, Zenon
  <2>3. \A x, y \in Nat : <<y, x>> \in OpToRel(<, Nat) <=> y < x  BY DEF OpToRel
  <2> QED  BY <2>2, <2>3, Zenon
<1> QED  BY <1>1

\* The blocks of the operations of S.
Claimed(S) == {b \in Blocks : \E p \in S : b \in opblocks[p]}

\* Operations in progress have written at most MAXOPBLOCKS blocks each.  By
\* induction on the number of operations, as a least counterexample.
LEMMA ClaimedBound ==
  ASSUME LogConstants, Inv, Counting, NEW S \in SUBSET InOp
  PROVE  IsFiniteSet(Claimed(S)) /\ Cardinality(Claimed(S)) <= Cardinality(S) * MAXOPBLOCKS
<1> DEFINE Good(X) == IsFiniteSet(Claimed(X)) /\ Cardinality(Claimed(X)) <= Cardinality(X) * MAXOPBLOCKS
<1> DEFINE Bad == {n \in Nat : \E X \in SUBSET InOp : Cardinality(X) = n /\ ~Good(X)}
<1>f. \A X \in SUBSET InOp : IsFiniteSet(X) /\ Cardinality(X) \in Nat
  BY OpsFinite, FS_Subset, FS_CardinalityType
<1>1. SUFFICES ASSUME Bad # {} PROVE FALSE
  BY <1>1, <1>f
<1>2. PICK n \in Bad : \A m \in Bad : n <= m
  <2> HIDE DEF Good
  <2>1. Bad \in SUBSET Nat  OBVIOUS
  <2> HIDE DEF Bad
  <2> QED  BY <1>1, <2>1, LeastNat
<1>3. PICK X \in SUBSET InOp : Cardinality(X) = n /\ ~Good(X)  OBVIOUS
<1>4. X # {}
  <2>1. Claimed({}) = {}  BY DEF Claimed
  <2>2. IsFiniteSet({}) /\ Cardinality({}) = 0  BY FS_EmptySet
  <2>3. Cardinality({}) * MAXOPBLOCKS = 0  BY <2>2 DEF LogConstants
  <2>4. Good({})  BY <2>1, <2>2, <2>3
  <2> QED  BY <1>3, <2>4
<1>5. PICK x \in X : TRUE  BY <1>4
<1> DEFINE Y == X \ {x}
<1>6. Y \in SUBSET InOp /\ Cardinality(Y) = n - 1 /\ Cardinality(Y) \in Nat
  BY <1>f, <1>3, <1>5, FS_RemoveElement
<1>7. Good(Y)
  <2>1. n - 1 \notin Bad  BY <1>2
  <2> HIDE DEF Good, Y
  <2> QED  BY <1>6, <2>1
<1>8. IsFiniteSet(opblocks[x]) /\ Cardinality(opblocks[x]) <= MAXOPBLOCKS /\ opblocks[x] \subseteq Blocks
  BY DEF Counting, Inv, InOp, TypeOK
<1>9. Claimed(X) = Claimed(Y) \cup opblocks[x]  BY <1>5, <1>8 DEF Claimed
<1>10. /\ IsFiniteSet(Claimed(Y) \cup opblocks[x])
       /\ Cardinality(Claimed(Y) \cup opblocks[x]) =
            Cardinality(Claimed(Y)) + Cardinality(opblocks[x]) - Cardinality(Claimed(Y) \cap opblocks[x])
       /\ Cardinality(Claimed(Y)) \in Nat /\ Cardinality(opblocks[x]) \in Nat
       /\ Cardinality(Claimed(Y) \cap opblocks[x]) \in Nat
  <2> HIDE DEF Y
  <2> QED  BY <1>7, <1>8, FS_Union, FS_CardinalityType, FS_Intersection, Zenon
<1>11. (n - 1) * MAXOPBLOCKS + MAXOPBLOCKS = n * MAXOPBLOCKS  BY DEF LogConstants
<1>12. (n - 1) * MAXOPBLOCKS \in Nat  BY <1>6 DEF LogConstants
<1>13. Cardinality(Claimed(X)) <= n * MAXOPBLOCKS
  <2> HIDE DEF Y, Bad
  <2>1. Cardinality(Claimed(Y)) <= (n - 1) * MAXOPBLOCKS  BY <1>6, <1>7
  <2> QED  BY <1>8, <1>9, <1>10, <1>11, <1>12, <2>1 DEF LogConstants
<1>14. Good(X)
  <2> HIDE DEF Y, Bad
  <2> QED  BY <1>3, <1>9, <1>10, <1>13
<1> QED  BY <1>3, <1>14

\* log_write never runs past the end of log.lh.block[LOGSIZE]: although it tests
\* for room before it takes log.lock, begin_op's reservation suffices.
THEOREM HeaderFits == ASSUME LogConstants PROVE Spec => [](Len(lh) <= LOGSIZE)
<1>1. Inv /\ Counting => Len(lh) <= LOGSIZE
  <2> SUFFICES ASSUME Inv, Counting PROVE Len(lh) <= LOGSIZE  OBVIOUS
  <2>1. LoggedBlocks(lh) \subseteq Settled \cup Claimed(InOp)
    BY LoggedFacts DEF Settled, Claimed, Inv, TypeOK
  <2>2. IsFiniteSet(Claimed(InOp)) /\ Cardinality(Claimed(InOp)) <= outstanding * MAXOPBLOCKS
    BY ClaimedBound, Zenon DEF Counting
  <2>3. /\ IsFiniteSet(Settled \cup Claimed(InOp))
        /\ Cardinality(Settled \cup Claimed(InOp)) =
             Cardinality(Settled) + Cardinality(Claimed(InOp)) - Cardinality(Settled \cap Claimed(InOp))
        /\ Cardinality(Claimed(InOp)) \in Nat
        /\ Cardinality(Settled \cap Claimed(InOp)) \in Nat
    BY <2>2, SettledFinite, FS_Union, FS_Intersection, FS_CardinalityType, Zenon DEF Inv
  <2>4. Cardinality(LoggedBlocks(lh)) <= Cardinality(Settled \cup Claimed(InOp))
    BY <2>1, <2>3, FS_Subset
  <2>5. Cardinality(LoggedBlocks(lh)) = Len(lh)  BY LoggedFacts DEF Inv, TypeOK, Headers
  <2>6. outstanding * MAXOPBLOCKS \in Nat  BY DEF Inv, TypeOK, LogConstants
  <2> QED
    BY <2>2, <2>3, <2>4, <2>5, <2>6, SettledFinite DEF Inv, TypeOK, Counting, LogConstants
<1> QED  BY <1>1, InvSafe, PTL
-----------------------------------------------------------------------------
(* The refinement of AtomicDisk.                                           *)

\* What recovery makes of the disk, block by block.
LEMMA RecoveredFacts ==
  ASSUME TypeOK, Distinct(dhead)
  PROVE  /\ Recovered = [b \in Blocks |-> Recovered[b]]
         /\ \A b \in Blocks : b \notin LoggedBlocks(dhead) => Recovered[b] = disk[b]
         /\ \A i \in 1..Len(dhead) : Recovered[dhead[i]] = dlog[i]
<1>1. Recovered = [b \in Blocks |-> Recovered[b]]
      /\ \A b \in Blocks : b \notin LoggedBlocks(dhead) => Recovered[b] = disk[b]
  BY DEF Recovered
<1>2. ASSUME NEW i \in 1..Len(dhead) PROVE Recovered[dhead[i]] = dlog[i]
  <2>1. i \in DOMAIN dhead /\ dhead[i] \in Blocks /\ dhead[i] \in LoggedBlocks(dhead)
    BY DEF TypeOK, LoggedBlocks
  <2>2. \A j \in DOMAIN dhead : dhead[j] = dhead[i] => j = i  BY DEF TypeOK, Distinct
  <2>3. (CHOOSE j \in DOMAIN dhead : dhead[j] = dhead[i]) = i  BY <2>1, <2>2
  <2> QED  BY <2>1, <2>3, Zenon DEF Recovered
<1> QED  BY <1>1, <1>2

\* The same in the next state.
LEMMA RecoveredFactsNext ==
  ASSUME TypeOK', Distinct(dhead')
  PROVE  /\ Recovered' = [b \in Blocks |-> Recovered'[b]]
         /\ \A b \in Blocks : b \notin LoggedBlocks(dhead') => Recovered'[b] = disk'[b]
         /\ \A i \in 1..Len(dhead') : Recovered'[dhead'[i]] = dlog'[i]
<1>1. (TypeOK /\ Distinct(dhead) =>
         /\ Recovered = [b \in Blocks |-> Recovered[b]]
         /\ \A b \in Blocks : b \notin LoggedBlocks(dhead) => Recovered[b] = disk[b]
         /\ \A i \in 1..Len(dhead) : Recovered[dhead[i]] = dlog[i])'
  BY RecoveredFacts, PTL
<1> QED  BY <1>1 DEF Distinct

\* A step that keeps the header, the log blocks it counts and the home blocks it
\* does not name changes nothing that a crash would leave.
LEMMA RecoveredSame ==
  ASSUME Inv, Inv', dhead' = dhead,
         \A i \in 1..Len(dhead) : dlog'[i] = dlog[i],
         \A b \in Blocks : b \notin LoggedBlocks(dhead) => disk'[b] = disk[b]
  PROVE  Recovered' = Recovered
<1>1. Distinct(dhead) /\ Distinct(dhead')  BY DEF Inv, Headers, Distinct
<1>2. ASSUME NEW b \in Blocks PROVE Recovered'[b] = Recovered[b]
  <2>1. CASE b \notin LoggedBlocks(dhead)
    BY <1>1, <2>1, RecoveredFacts, RecoveredFactsNext DEF Inv
  <2>2. CASE b \in LoggedBlocks(dhead)
    <3>1. PICK i \in 1..Len(dhead) : b = dhead[i]  BY <2>2 DEF LoggedBlocks, Inv, TypeOK
    <3> QED  BY <1>1, <3>1, RecoveredFacts, RecoveredFactsNext DEF Inv
  <2> QED  BY <2>1, <2>2
<1> QED  BY <1>1, <1>2, RecoveredFacts, RecoveredFactsNext DEF Inv

\* Once the committed blocks are at home a crash leaves the disk as it is.
LEMMA RecoveredHome ==
  ASSUME Inv, Committed(Len(dhead)) 
  PROVE  Recovered = disk
<1>1. Distinct(dhead)  BY DEF Inv, Headers
<1>2. ASSUME NEW b \in Blocks PROVE Recovered[b] = disk[b]
  <2>1. CASE b \notin LoggedBlocks(dhead)  BY <1>1, <2>1, RecoveredFacts DEF Inv
  <2>2. CASE b \in LoggedBlocks(dhead)
    <3>1. PICK i \in 1..Len(dhead) : b = dhead[i]  BY <2>2 DEF LoggedBlocks, Inv, TypeOK
    <3> QED  BY <1>1, <3>1, RecoveredFacts DEF Inv, Committed
  <2> QED  BY <2>1, <2>2
<1> QED  BY <1>1, <1>2, RecoveredFacts DEF Inv, TypeOK

\* The operations see what the cache shows.
LEMMA ViewSame ==
  ASSUME Running, Running', \A b \in Blocks : Cached(b)' = Cached(b)
  PROVE  View' = View
  BY DEF View, Running

\* A step of processes that changes neither the disk nor what the cache shows.
LEMMA QuietStep ==
  ASSUME Inv, Inv', UNCHANGED diskVars, Running, Running',
         \A b \in Blocks : Cached(b)' = Cached(b)
  PROVE  Recovered' = Recovered /\ View' = View
  BY RecoveredSame, ViewSame DEF diskVars

\* Every step is one of the atomic disk or changes nothing of it: write_head is
\* the commit, and recovery is invisible.
LEMMA RefineStep ==
  ASSUME LogConstants, Inv, Inv', Room, [Next]_vars
  PROVE  [abstract!Next]_(abstract!vars)
<1> USE DEF At, Goto, WakeAndGoto, cacheVars, opVars
<1> DEFINE Stutter == Recovered' = Recovered /\ View' = View /\ InOp' = InOp
<1>s. Stutter => [abstract!Next]_(abstract!vars)  BY DEF abstract!vars
<1>t. TypeOK /\ TypeOK'  BY DEF Inv
<1>1. CASE UNCHANGED vars
  <2>1. Recovered' = Recovered  BY <1>1, RecoveredSame DEF vars
  <2>2. View' = View  BY <1>1, <2>1 DEF vars, View, Cached
  <2>3. InOp' = InOp  BY <1>1 DEF vars, InOp
  <2> QED  BY <1>s, <2>1, <2>2, <2>3
<1>2. ASSUME NEW b \in Blocks, bread(b) PROVE [abstract!Next]_(abstract!vars)
  <2>1. Running /\ Running' /\ UNCHANGED diskVars  BY <1>2 DEF bread, Running
  <2>2. \A c \in Blocks : Cached(c)' = Cached(c)
    BY <1>2, <1>t DEF bread, Cached, diskVars, TypeOK
  <2>3. InOp' = InOp  BY <1>2 DEF bread, InOp
  <2> QED  BY <1>s, <2>1, <2>2, <2>3, QuietStep
<1>3. ASSUME NEW b \in Blocks, recycle(b) PROVE [abstract!Next]_(abstract!vars)
  <2>1. Running /\ Running' /\ UNCHANGED diskVars  BY <1>3 DEF recycle, Running
  <2>2. \A c \in Blocks : Cached(c)' = Cached(c)
    BY <1>3, <1>t DEF recycle, Cached, diskVars, TypeOK, Inv, Coherent
  <2>3. InOp' = InOp  BY <1>3 DEF recycle, InOp
  <2> QED  BY <1>s, <2>1, <2>2, <2>3, QuietStep
<1>4. ASSUME NEW p \in Procs, call(p) PROVE [abstract!Next]_(abstract!vars)
  <2>1. Running /\ Running' /\ UNCHANGED diskVars  BY <1>4 DEF call, Running
  <2>2. \A c \in Blocks : Cached(c)' = Cached(c)  BY <1>4 DEF call, Cached, diskVars
  <2>3. InOp' = InOp  BY <1>4, <1>t, OpsKept DEF call, Working, TypeOK
  <2> QED  BY <1>s, <2>1, <2>2, <2>3, QuietStep
<1>5. ASSUME NEW p \in Procs, begin_op(p) PROVE [abstract!Next]_(abstract!vars)
  <2>1. Running /\ Running' /\ UNCHANGED diskVars  BY <1>5 DEF begin_op, Running
  <2>2. \A c \in Blocks : Cached(c)' = Cached(c)  BY <1>5 DEF begin_op, Cached, diskVars
  <2>3. Recovered' = Recovered /\ View' = View  BY <2>1, <2>2, QuietStep
  <2>4. CASE committing \/ NoRoom
    <3>1. InOp' = InOp  BY <1>5, <2>4, <1>t, OpsKept DEF begin_op, Working, TypeOK
    <3> QED  BY <1>s, <2>3, <3>1
  <2>5. CASE ~(committing \/ NoRoom)
    <3>1. p \notin InOp /\ InOp' = InOp \cup {p}  BY <1>5, <2>5, <1>t DEF begin_op, InOp, TypeOK
    <3> QED  BY <2>3, <3>1 DEF abstract!Next, abstract!Begin
  <2> QED  BY <2>4, <2>5
<1>6. ASSUME NEW p \in Procs, NEW b \in Blocks, NEW v \in Vals, modify(p, b, v)
      PROVE  [abstract!Next]_(abstract!vars)
  <2>1. Running /\ Running' /\ UNCHANGED diskVars  BY <1>6 DEF modify, Running
  <2>2. Recovered' = Recovered  BY <2>1, RecoveredSame DEF diskVars
  <2>3. Cached(b)' = v  BY <1>6, <1>t DEF modify, Cached, TypeOK, LogConstants
  <2>4. \A c \in Blocks : c # b => Cached(c)' = Cached(c)
    BY <1>6, <1>t DEF modify, Cached, TypeOK, diskVars
  <2>5. View = [c \in Blocks |-> Cached(c)] /\ View' = [c \in Blocks |-> Cached(c)']
    BY <2>1 DEF View, Running
  <2>6. View' = [View EXCEPT ![b] = v]  BY <2>3, <2>4, <2>5
  <2>7. p \in InOp /\ InOp' = InOp
    BY <1>6, <1>t, OpsKept DEF modify, Working, TypeOK, InOp
  <2> QED  BY <2>2, <2>6, <2>7, Zenon DEF abstract!Next, abstract!Write
<1>7. ASSUME NEW p \in Procs, log_writeCheck(p) PROVE [abstract!Next]_(abstract!vars)
  <2>1. Running /\ Running' /\ UNCHANGED diskVars  BY <1>7 DEF log_writeCheck, Running
  <2>2. \A c \in Blocks : Cached(c)' = Cached(c)  BY <1>7 DEF log_writeCheck, Cached, diskVars
  <2>3. InOp' = InOp  BY <1>7, <1>t, OpsKept DEF log_writeCheck, Working, TypeOK
  <2> QED  BY <1>s, <2>1, <2>2, <2>3, QuietStep
<1>8. ASSUME NEW p \in Procs, log_write(p) PROVE [abstract!Next]_(abstract!vars)
  <2>1. Running /\ Running' /\ UNCHANGED diskVars  BY <1>8 DEF log_write, Running
  <2>2. \A c \in Blocks : Cached(c)' = Cached(c)  BY <1>8 DEF log_write, Cached, diskVars
  <2>3. InOp' = InOp  BY <1>8, <1>t, OpsKept DEF log_write, Working, TypeOK
  <2> QED  BY <1>s, <2>1, <2>2, <2>3, QuietStep
<1>9. ASSUME NEW p \in Procs, end_op(p) PROVE [abstract!Next]_(abstract!vars)
  <2>1. p \in InOp /\ ~committing  BY <1>9 DEF end_op, InOp, Inv, Turns
  <2>2. Running /\ Running' /\ UNCHANGED diskVars  BY <1>9, <2>1 DEF end_op, Running
  <2>3. \A c \in Blocks : Cached(c)' = Cached(c)  BY <1>9 DEF end_op, Cached, diskVars
  <2>4. InOp' = InOp \ {p}  BY <1>9, <2>1, <1>t DEF end_op, InOp, TypeOK
  <2> QED  BY <2>1, <2>2, <2>3, <2>4, QuietStep DEF abstract!Next, abstract!End
<1>10. ASSUME NEW p \in Procs, write_log(p) PROVE [abstract!Next]_(abstract!vars)
  <2>1. pc[p] \in Ending  BY <1>10 DEF write_log, Ending
  <2>2. dhead = <<>>  BY <1>10, <2>1, Committer, Zenon DEF write_log, Inv, Phases, Running, Ending
  <2>3. Running /\ Running' /\ dhead' = dhead /\ disk' = disk  BY <1>10 DEF write_log, Running
  <2>4. Recovered' = Recovered  BY <2>2, <2>3, RecoveredSame
  <2>5. \A c \in Blocks : Cached(c)' = Cached(c)
    <3>1. lh[tail] \in Blocks  BY <1>10 DEF write_log, Inv, Phases, TypeOK
    <3>2. buf'[lh[tail]] = Cached(lh[tail]) /\ Cached(lh[tail]) # NoVal
      BY <1>10, <3>1, <1>t DEF write_log, TypeOK, Cached, LogConstants, Value
    <3>3. \A c \in Blocks : c # lh[tail] => buf'[c] = buf[c]  BY <1>10, <1>t DEF write_log, TypeOK
    <3> QED  BY <2>3, <3>2, <3>3 DEF Cached
  <2>6. InOp' = InOp  BY <1>10, <1>t, OpsKept DEF write_log, Working, TypeOK
  <2> QED  BY <1>s, <2>3, <2>4, <2>5, <2>6, ViewSame
<1>11. ASSUME NEW p \in Procs, write_head(p) PROVE [abstract!Next]_(abstract!vars)
  <2>1. pc[p] \in Ending  BY <1>11 DEF write_head, Ending
  <2>2. /\ InOp = {} /\ \A q \in Procs : blk[q] = {}
        /\ Copied(Len(lh)) /\ DirtyFrom(1)
    BY <1>11, <2>1, Committer DEF write_head, Inv, Phases, Running, Ending
  <2>3. Running /\ Running' /\ dhead' = lh /\ UNCHANGED <<disk, dlog, buf>>
    BY <1>11 DEF write_head, Running
  <2>4. View' = View  BY <2>3, ViewSame DEF Cached
  <2>5. InOp' = InOp  BY <1>11, <1>t, OpsKept DEF write_head, Working, TypeOK
  <2>6. View = [c \in Blocks |-> Cached(c)]  BY <2>3 DEF View, Running
  <2>7. Recovered' = View
    <3>1. Distinct(dhead')  BY DEF Inv, Headers, Distinct
    <3>2. ASSUME NEW b \in Blocks PROVE Recovered'[b] = Cached(b)
      <4>1. CASE b \notin LoggedBlocks(lh)
        <5>1. ~dirty[b]  BY <1>t, <2>2, <4>1, DirtyLogged
        <5>2. Cached(b) = disk[b]  BY <2>2, <5>1 DEF Inv, Coherent, Cached
        <5> QED  BY <1>t, <2>3, <3>1, <4>1, <5>2, RecoveredFactsNext
      <4>2. CASE b \in LoggedBlocks(lh)
        <5>1. PICK i \in 1..Len(lh) : b = lh[i]  BY <4>2, <1>t DEF LoggedBlocks, TypeOK
        <5> QED  BY <1>t, <2>2, <2>3, <3>1, <5>1, RecoveredFactsNext DEF Copied
      <4> QED  BY <4>1, <4>2
    <3> QED  BY <1>t, <2>6, <3>1, <3>2, RecoveredFactsNext
  <2> QED  BY <2>2, <2>4, <2>5, <2>7, Zenon DEF abstract!Next, abstract!Commit
<1>12. ASSUME NEW p \in Procs, install_trans(p) PROVE [abstract!Next]_(abstract!vars)
  <2>1. pc[p] \in Ending  BY <1>12 DEF install_trans, Ending
  <2>2. tail \in 1..Len(lh) /\ Copied(Len(lh)) /\ dhead = lh /\ Len(lh) <= LOGSIZE
    BY <1>12, <2>1, Committer, Zenon DEF install_trans, Inv, Phases
  <2>3. Running /\ Running' /\ dhead' = dhead /\ dlog' = dlog  BY <1>12 DEF install_trans, Running
  <2>4. /\ lh[tail] \in Blocks /\ buf'[lh[tail]] = dlog[tail] /\ dlog[tail] # NoVal
        /\ \A b \in Blocks : b # lh[tail] => disk'[b] = disk[b] /\ buf'[b] = buf[b]
    BY <1>12, <2>2, InstallEffect DEF install_trans
  <2>5. lh[tail] \in LoggedBlocks(dhead)  BY <2>2, <1>t, LoggedAt DEF TypeOK
  <2>6. Recovered' = Recovered  BY <2>3, <2>4, <2>5, RecoveredSame, Zenon
  <2>7. \A c \in Blocks : Cached(c)' = Cached(c)  BY <2>2, <2>4 DEF Cached, Copied
  <2>8. InOp' = InOp  BY <1>12, <1>t, OpsKept DEF install_trans, Working, TypeOK
  <2> QED  BY <1>s, <2>3, <2>6, <2>7, <2>8, ViewSame
<1>13. ASSUME NEW p \in Procs, write_headErase(p) PROVE [abstract!Next]_(abstract!vars)
  <2>1. Running /\ Running' /\ UNCHANGED <<disk, dlog, buf>> /\ dhead' = <<>>
    BY <1>13 DEF write_headErase, Running, Inv, Phases
  <2>2. Committed(Len(dhead))  BY <1>13 DEF write_headErase, Inv, Phases
  <2>3. Recovered = disk  BY <2>2, RecoveredHome
  <2>4. Recovered' = disk'
    <3>1. Committed(Len(dhead))'  BY <2>1 DEF Committed
    <3>2. (Inv /\ Committed(Len(dhead)) => Recovered = disk)'  BY RecoveredHome, PTL
    <3> QED  BY <3>1, <3>2
  <2>5. View' = View  BY <2>1, ViewSame DEF Cached
  <2>6. InOp' = InOp  BY <1>13, <1>t, OpsKept DEF write_headErase, Working, TypeOK
  <2> QED  BY <1>s, <2>1, <2>3, <2>4, <2>5, <2>6
<1>14. ASSUME NEW p \in Procs, end_opFinish(p) PROVE [abstract!Next]_(abstract!vars)
  <2>1. Running /\ Running' /\ UNCHANGED diskVars  BY <1>14 DEF end_opFinish, Running
  <2>2. \A c \in Blocks : Cached(c)' = Cached(c)  BY <1>14 DEF end_opFinish, Cached, diskVars
  <2>3. InOp' = InOp  BY <1>14, <1>t, OpsKept DEF end_opFinish, Working, TypeOK
  <2> QED  BY <1>s, <2>1, <2>2, <2>3, QuietStep
<1>15. CASE crash
  <2>1. UNCHANGED diskVars /\ mode' = "read_head"  BY <1>15 DEF crash
  <2>2. Recovered' = Recovered  BY <2>1, RecoveredSame DEF diskVars
  <2>3. View' = Recovered'  BY <2>1 DEF View
  <2>4. InOp' = {}  BY <1>15 DEF crash, InOp
  <2> QED  BY <2>2, <2>3, <2>4 DEF abstract!Next, abstract!Crash
<1>16. CASE read_head
  <2>1. UNCHANGED diskVars /\ ~Running /\ ~Running'  BY <1>16 DEF read_head, Running
  <2>2. Recovered' = Recovered  BY <2>1, RecoveredSame DEF diskVars
  <2>3. View' = Recovered' /\ View = Recovered  BY <2>1 DEF View, Running
  <2>4. InOp' = InOp  BY <1>16 DEF read_head, InOp
  <2> QED  BY <1>s, <2>2, <2>3, <2>4
<1>17. CASE recover_from_log
  <2>1. ~Running /\ ~Running' /\ dhead' = dhead /\ dlog' = dlog
    BY <1>17 DEF recover_from_log, Running
  <2>2. tail \in 1..Len(lh) /\ dhead = lh /\ Len(lh) <= LOGSIZE
    BY <1>17 DEF recover_from_log, Inv, Phases, Headers
  <2>3. lh[tail] \in Blocks /\ \A b \in Blocks : b # lh[tail] => disk'[b] = disk[b]
    BY <1>17, <2>2, InstallEffect DEF recover_from_log
  <2>4. lh[tail] \in LoggedBlocks(dhead)  BY <2>2, <1>t, LoggedAt DEF TypeOK
  <2>5. Recovered' = Recovered  BY <2>1, <2>3, <2>4, RecoveredSame
  <2>6. View' = Recovered' /\ View = Recovered  BY <2>1 DEF View, Running
  <2>7. InOp' = InOp  BY <1>17 DEF recover_from_log, InOp
  <2> QED  BY <1>s, <2>5, <2>6, <2>7
<1>18. CASE recoverErase
  <2>1. ~Running /\ Running' /\ UNCHANGED <<disk, dlog, buf>> /\ dhead' = <<>>
    BY <1>18 DEF recoverErase, Running, cacheVars, Inv, Phases
  <2>2. Committed(Len(dhead))  BY <1>18 DEF recoverErase, Inv, Phases
  <2>3. Recovered = disk /\ View = disk  BY <2>1, <2>2, RecoveredHome DEF View, Running
  <2>4. Recovered' = disk'
    <3>1. Committed(Len(dhead))'  BY <2>1 DEF Committed
    <3>2. (Inv /\ Committed(Len(dhead)) => Recovered = disk)'  BY RecoveredHome, PTL
    <3> QED  BY <3>1, <3>2
  <2>5. \A b \in Blocks : Cached(b)' = disk[b]
    BY <2>1, Recovering DEF Cached, Inv, Coherent
  <2>6. View' = disk  BY <2>1, <2>5, <1>t DEF View, Running, TypeOK
  <2>7. InOp' = InOp  BY <1>18 DEF recoverErase, InOp
  <2> QED  BY <1>s, <2>1, <2>3, <2>4, <2>6, <2>7
<1> QED
  BY <1>1, <1>2, <1>3, <1>4, <1>5, <1>6, <1>7, <1>8, <1>9, <1>10, <1>11, <1>12, <1>13, <1>14,
     <1>15, <1>16, <1>17, <1>18 DEF Next, step
-----------------------------------------------------------------------------
(* The refinement of AtomicDisk.                                           *)

\* Whenever the machine crashes, also in the middle of a commit or of a recovery,
\* the blocks come back as after a set of complete operations, and operations
\* read what was last written: for every number of processes, blocks and crashes
\* and every log size.
THEOREM LogRefinement == ASSUME LogConstants PROVE Spec => ImplementsAtomicDisk
<1>1. Init => abstract!Init
  <2> SUFFICES ASSUME Init PROVE abstract!Init  OBVIOUS
  <2>1. Recovered = [b \in Blocks |-> InitVal]  BY EmptyLog DEF Recovered, Init
  <2>2. View = Recovered  BY DEF View, Init
  <2>3. InOp = {}  BY NoOps DEF Init
  <2> QED  BY <2>1, <2>2, <2>3 DEF abstract!Init
<1>2. Inv /\ Counting /\ Inv' /\ [Next]_vars => [abstract!Next]_(abstract!vars)
  BY CountingRoom, RefineStep
<1> QED  BY <1>1, <1>2, InvSafe, PTL DEF Spec, ImplementsAtomicDisk, abstract!Spec
=============================================================================
