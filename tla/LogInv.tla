----------------------------- MODULE LogInv --------------------------------
(***************************************************************************)
(* The inductive invariant of module Log, and that every step keeps it.    *)
(*                                                                         *)
(* Inv says what the log, the header and the home blocks hold at each step *)
(* of an operation, of commit and of recovery, and which buffers differ    *)
(* from the disk meanwhile.  What it needs of log.outstanding and of the   *)
(* room in the log is Room, which module LogProofs proves by counting.     *)
(***************************************************************************)
EXTENDS Log, TLAPS

\* What the proofs assume of the constants: finitely many processes, bounds
\* that are numbers, and a mark for "not cached" that is no block's contents.
\* Nothing is assumed of log.size.
LogConstants ==
  /\ IsFiniteSet(Procs)
  /\ MAXOPBLOCKS \in Nat /\ LOGSIZE \in Nat
  /\ NoVal \notin Vals \cup {InitVal}

Value == Vals \cup {InitVal}

\* Recovery is over.
Running == mode \in {"up", "panic"}

\* The control points inside an operation, and those of the commit in end_op.
Working == {"op", "modified", "checked"}
Ending == {"write_log", "write_head", "install", "erase", "finish"}

TypeOK ==
  /\ disk \in [Blocks -> Value]
  /\ dlog \in [1..LOGSIZE -> Value]
  /\ dhead \in Seq(Blocks) /\ lh \in Seq(Blocks)
  /\ buf \in [Blocks -> Value \cup {NoVal}]
  /\ dirty \in [Blocks -> BOOLEAN]
  /\ outstanding \in Nat /\ tail \in Nat
  /\ committing \in BOOLEAN
  /\ mode \in {"up", "panic", "read_head", "recover", "erase"}
  /\ pc \in [Procs -> {"idle", "begin", "asleep"} \cup Working \cup Ending]
  /\ blk \in [Procs -> SUBSET Blocks]
  /\ opblocks \in [Procs -> SUBSET Blocks]

\* A header names no block twice.
Distinct(h) == \A i, j \in 1..Len(h) : h[i] = h[j] => i = j

\* log.lh and the header on disk; the second fits in the log.
Headers == Distinct(lh) /\ Distinct(dhead) /\ Len(dhead) <= LOGSIZE

\* log.committing is set while one process commits, when no operation is in
\* progress, and nothing of either outlives a crash.
Turns ==
  /\ ~Running => ~committing /\ \A p \in Procs : pc[p] = "idle"
  /\ committing => InOp = {}
  /\ \A p \in Procs : pc[p] \in Ending => committing /\ mode = "up"
  /\ committing => \E p \in Procs : pc[p] \in Ending
  /\ \A p, q \in Procs : pc[p] \in Ending /\ pc[q] \in Ending => p = q

\* A process holds a buffer between its change and log_write, and no two hold
\* the same one.
Holding ==
  /\ \A p \in Procs : pc[p] \notin {"modified", "checked"} => blk[p] = {}
  /\ \A p \in Procs : pc[p] \in {"modified", "checked"} => \E b \in opblocks[p] : blk[p] = {b}
  /\ \A p, q \in Procs : p # q => blk[p] \cap blk[q] = {}

\* The first n blocks of the header on disk are at home.
Committed(n) == \A i \in 1..n : disk[dhead[i]] = dlog[i]

\* The first n blocks of log.lh are in the log.
Copied(n) == \A i \in 1..n : dlog[i] = Cached(lh[i])

\* B_DIRTY marks the blocks of log.lh from the n-th on.
DirtyFrom(n) == \A b \in Blocks : dirty[b] <=> \E i \in n..Len(lh) : lh[i] = b

\* A buffer that may be recycled agrees with the disk.
Coherent ==
  \A b \in Blocks :
    /\ dirty[b] => buf[b] # NoVal
    /\ ~dirty[b] /\ (\A p \in Procs : b \notin blk[p]) /\ buf[b] # NoVal => buf[b] = disk[b]
    /\ \A p \in Procs : b \in blk[p] => buf[b] # NoVal

\* How far the commit, or the recovery, has come.
Phases ==
  /\ mode = "read_head" => lh = <<>> /\ tail = 1
  /\ mode = "recover" => lh = dhead /\ tail \in 1..Len(lh) /\ Committed(tail - 1)
  /\ mode = "erase" => lh = <<>> /\ Committed(Len(dhead))
  /\ ~Running => \A b \in Blocks : ~dirty[b]
  /\ Running /\ (\A p \in Procs : pc[p] \notin {"install", "erase"}) => dhead = <<>> /\ DirtyFrom(1)
  /\ \A p \in Procs :
       /\ pc[p] = "write_log" => tail \in 1..Len(lh) /\ Copied(tail - 1)
       /\ pc[p] = "write_head" => tail = 1 /\ lh # <<>> /\ Copied(Len(lh))
       /\ pc[p] = "install" => /\ tail \in 1..Len(lh) /\ Copied(Len(lh)) /\ dhead = lh
                               /\ Committed(tail - 1) /\ DirtyFrom(tail)
       /\ pc[p] = "erase" => /\ lh = <<>> /\ Committed(Len(dhead)) /\ DirtyFrom(1)
       /\ pc[p] = "finish" => lh = <<>>

Inv == TypeOK /\ Headers /\ Turns /\ Holding /\ Coherent /\ Phases

\* What log.outstanding tells: the last operation finds it at 1, and without
\* operations the transaction fits in the log.
Room ==
  /\ \A p \in InOp : outstanding > 0 /\ (outstanding = 1 => InOp = {p})
  /\ InOp = {} => Len(lh) <= LOGSIZE
-----------------------------------------------------------------------------
(* Facts for several steps.                                                *)

\* An erased header names no block.
LEMMA EmptyLog == LoggedBlocks(<<>>) = {} /\ Distinct(<<>>)
  BY DEF LoggedBlocks, Distinct

\* A header names each of its entries.
LEMMA LoggedAt ==
  ASSUME NEW h \in Seq(Blocks), NEW i \in 1..Len(h)
  PROVE  h[i] \in Blocks /\ h[i] \in LoggedBlocks(h)
  BY DEF LoggedBlocks

\* Between commits B_DIRTY marks the blocks that log.lh names.
LEMMA DirtyLogged ==
  ASSUME TypeOK, DirtyFrom(1)
  PROVE  \A b \in Blocks : dirty[b] <=> b \in LoggedBlocks(lh)
  BY DEF DirtyFrom, LoggedBlocks, TypeOK

\* A step that starts and ends no operation.
LEMMA OpsKept ==
  ASSUME TypeOK, TypeOK', \A p \in Procs : pc'[p] \in Working <=> pc[p] \in Working
  PROVE  InOp' = InOp
  BY DEF InOp, Working

\* Append adds one block to a header.
LEMMA AppendFacts ==
  ASSUME NEW h \in Seq(Blocks), NEW b \in Blocks
  PROVE  LET g == Append(h, b)
         IN  /\ g \in Seq(Blocks) /\ Len(g) = Len(h) + 1
             /\ \A i \in 1..Len(h) : g[i] = h[i]
             /\ g[Len(g)] = b
             /\ LoggedBlocks(g) = LoggedBlocks(h) \cup {b}
             /\ b \notin LoggedBlocks(h) /\ Distinct(h) => Distinct(g)
<1> DEFINE g == Append(h, b)
<1>1. /\ g \in Seq(Blocks) /\ Len(g) = Len(h) + 1
      /\ \A i \in 1..Len(h) : g[i] = h[i]
      /\ g[Len(h) + 1] = b
  OBVIOUS
<1>2. LoggedBlocks(h) = {h[i] : i \in 1..Len(h)} /\ LoggedBlocks(g) = {g[i] : i \in 1..Len(h) + 1}
  BY <1>1 DEF LoggedBlocks
<1> HIDE DEF g
<1>3. LoggedBlocks(g) = LoggedBlocks(h) \cup {b}  BY <1>1, <1>2
<1>4. b \notin LoggedBlocks(h) /\ Distinct(h) => Distinct(g)
  BY <1>1, <1>2 DEF Distinct
<1> QED  BY <1>1, <1>3, <1>4 DEF g

\* While a process commits there is no operation and no other commit.
LEMMA Committer ==
  ASSUME Inv, Room, NEW p \in Procs, pc[p] \in Ending
  PROVE  /\ committing /\ mode = "up" /\ InOp = {}
         /\ \A q \in Procs : q # p => pc[q] \notin Ending
         /\ \A q \in Procs : pc[q] \notin Working /\ blk[q] = {}
         /\ Len(lh) <= LOGSIZE
<1>1. committing /\ mode = "up" /\ \A q \in Procs : q # p => pc[q] \notin Ending
  BY DEF Inv, Turns
<1>2. InOp = {}  BY <1>1 DEF Inv, Turns
<1>3. \A q \in Procs : pc[q] \notin Working  BY <1>2 DEF InOp, Working
<1>4. \A q \in Procs : blk[q] = {}  BY <1>3 DEF Inv, Holding, Working
<1> QED  BY <1>1, <1>2, <1>3, <1>4 DEF Room

\* One block of install_trans: the block reaches its home, and nothing that
\* the log holds or the cache shows changes.
LEMMA InstallEffect ==
  ASSUME LogConstants, Inv, tail \in 1..Len(lh), Len(lh) <= LOGSIZE, dhead = lh,
         installBlock, UNCHANGED <<dlog, dhead>>
  PROVE  /\ disk' \in [Blocks -> Value] /\ buf' \in [Blocks -> Value \cup {NoVal}]
         /\ dirty' \in [Blocks -> BOOLEAN]
         /\ lh[tail] \in Blocks
         /\ disk'[lh[tail]] = dlog[tail] /\ buf'[lh[tail]] = dlog[tail] /\ dlog[tail] # NoVal
         /\ ~dirty'[lh[tail]]
         /\ \A b \in Blocks : b # lh[tail] =>
              disk'[b] = disk[b] /\ buf'[b] = buf[b] /\ dirty'[b] = dirty[b]
         /\ \A i \in 1..Len(lh) : i # tail => lh[i] # lh[tail]
         /\ Committed(tail - 1) => \A i \in 1..tail : disk'[dhead[i]] = dlog[i]
<1>1. lh[tail] \in Blocks /\ dlog[tail] \in Value /\ dlog[tail] # NoVal
  BY DEF Inv, TypeOK, Value, LogConstants
<1>2. \A i \in 1..Len(lh) : i # tail => lh[i] # lh[tail]  BY DEF Inv, Headers, Distinct, TypeOK
<1>3. /\ disk' \in [Blocks -> Value] /\ buf' \in [Blocks -> Value \cup {NoVal}]
      /\ dirty' \in [Blocks -> BOOLEAN]
      /\ disk'[lh[tail]] = dlog[tail] /\ buf'[lh[tail]] = dlog[tail]
      /\ ~dirty'[lh[tail]]
      /\ \A b \in Blocks : b # lh[tail] =>
              disk'[b] = disk[b] /\ buf'[b] = buf[b] /\ dirty'[b] = dirty[b]
  BY <1>1 DEF Inv, TypeOK, installBlock
<1>4. Committed(tail - 1) => \A i \in 1..tail : disk'[dhead[i]] = dlog[i]
  <2> SUFFICES ASSUME Committed(tail - 1), NEW i \in 1..tail PROVE disk'[lh[i]] = dlog[i]
    OBVIOUS
  <2>1. CASE i = tail  BY <1>3, <2>1
  <2>2. CASE i # tail
    <3>1. i \in 1..(tail - 1) /\ i \in 1..Len(lh) /\ lh[i] \in Blocks  BY <2>2 DEF Inv, TypeOK
    <3> QED  BY <1>2, <1>3, <2>2, <3>1 DEF Committed
  <2> QED  BY <2>1, <2>2
<1> QED  BY <1>1, <1>2, <1>3, <1>4

\* Idle processes are in no operation.
LEMMA NoOps ==
  ASSUME \A q \in Procs : pc[q] = "idle"
  PROVE  InOp = {}
  BY DEF InOp

\* The processes and their operations during recovery.
LEMMA Recovering ==
  ASSUME Inv, ~Running
  PROVE  /\ InOp = {} /\ ~committing
         /\ \A q \in Procs : pc[q] = "idle" /\ blk[q] = {}
         /\ \A b \in Blocks : ~dirty[b]
<1>1. ~committing /\ \A q \in Procs : pc[q] = "idle"  BY DEF Inv, Turns
<1>2. InOp = {}  BY <1>1, NoOps
<1> QED  BY <1>1, <1>2 DEF Inv, Holding, Phases

\* The machine starts, like after a crash, with recovery.
LEMMA InitInv == ASSUME LogConstants, Init PROVE Inv
<1> USE DEF Init
<1>1. TypeOK
  <2>1. /\ disk \in [Blocks -> Value] /\ dlog \in [1..LOGSIZE -> Value]
        /\ buf \in [Blocks -> Value \cup {NoVal}] /\ dirty \in [Blocks -> BOOLEAN]
    BY DEF Value
  <2>2. /\ pc \in [Procs -> {"idle", "begin", "asleep"} \cup Working \cup Ending]
        /\ blk \in [Procs -> SUBSET Blocks] /\ opblocks \in [Procs -> SUBSET Blocks]
    OBVIOUS
  <2>3. lh \in Seq(Blocks) /\ dhead \in Seq(Blocks)  OBVIOUS
  <2> QED  BY <2>1, <2>2, <2>3, Zenon DEF TypeOK
<1>2. InOp = {}  BY NoOps
<1>3. Headers  BY EmptyLog DEF Headers, LogConstants
<1>4. Turns  BY <1>2 DEF Turns, Running, Ending
<1>5. Holding /\ Coherent /\ Phases  BY DEF Holding, Coherent, Phases, Running
<1> QED  BY <1>1, <1>3, <1>4, <1>5 DEF Inv

-----------------------------------------------------------------------------
(* The steps of operations keep the invariant.                             *)

OpStep ==
  \/ \E p \in Procs : \/ call(p) \/ begin_op(p) \/ log_writeCheck(p) \/ log_write(p) \/ end_op(p)
                      \/ \E b \in Blocks, v \in Vals : modify(p, b, v)
  \/ \E b \in Blocks : bread(b) \/ recycle(b)

\* A step of an operation or of the buffer cache keeps the invariant.
LEMMA OpStepInv == ASSUME LogConstants, Inv, Room, OpStep PROVE Inv'
<1> SUFFICES ASSUME TypeOK, Headers, Turns, Holding, Coherent, Phases PROVE Inv'  BY DEF Inv
\* bread keeps the invariant.
<1>bread. ASSUME NEW b \in Blocks, bread(b) PROVE Inv'
  <2> SUFFICES ASSUME bread(b) PROVE Inv'  BY <1>bread
  <2> USE DEF LogConstants, bread, diskVars, cacheVars, opVars
  <2>1. TypeOK'  BY DEF TypeOK, Value, Cached
  <2>o. InOp' = InOp  BY DEF InOp
  <2>2. Headers'  BY DEF Headers, Distinct
  <2>3. Turns'  BY <2>o DEF Turns, Running
  <2>4. Holding'  BY DEF Holding
  <2>5. Coherent'  BY DEF TypeOK, Coherent, Cached
  <2>6. Phases'
    BY DEF TypeOK, Phases, Committed, Copied, DirtyFrom, Running, Cached
  <2> QED  BY <2>1, <2>2, <2>3, <2>4, <2>5, <2>6 DEF Inv
\* bget, recycling a clean buffer, keeps the invariant.
<1>recycle. ASSUME NEW b \in Blocks, recycle(b) PROVE Inv'
  <2> SUFFICES ASSUME recycle(b) PROVE Inv'  BY <1>recycle
  <2> USE DEF LogConstants, recycle, diskVars, cacheVars, opVars
  <2>1. TypeOK'  BY DEF TypeOK
  <2>o. InOp' = InOp  BY DEF InOp
  <2>2. Headers'  BY DEF Headers, Distinct
  <2>3. Turns'  BY <2>o DEF Turns, Running
  <2>4. Holding'  BY DEF Holding
  <2>5. Coherent'  BY DEF TypeOK, Coherent
  <2>6. Phases'
    BY DEF TypeOK, Phases, Committed, Copied, DirtyFrom, Running, Cached, Coherent
  <2> QED  BY <2>1, <2>2, <2>3, <2>4, <2>5, <2>6 DEF Inv
\* A call of begin_op keeps the invariant.
<1>call. ASSUME NEW p \in Procs, call(p) PROVE Inv'
  <2> SUFFICES ASSUME call(p) PROVE Inv'  BY <1>call
  <2> USE DEF LogConstants, call, At, Goto, diskVars, cacheVars, opVars
  <2>1. TypeOK'  BY DEF TypeOK
  <2>o. InOp' = InOp  BY <2>1, OpsKept DEF TypeOK, Working
  <2>2. Headers'  BY DEF Headers, Distinct
  <2>3. Turns'  BY <2>o DEF TypeOK, Turns, Running, Working, Ending
  <2>4. Holding'  BY DEF TypeOK, Holding
  <2>5. Coherent'  BY DEF Coherent
  <2>6. Phases'
    BY DEF TypeOK, Phases, Committed, Copied, DirtyFrom, Running, Cached
  <2> QED  BY <2>1, <2>2, <2>3, <2>4, <2>5, <2>6 DEF Inv
\* begin_op keeps the invariant.
<1>beginop. ASSUME NEW p \in Procs, begin_op(p) PROVE Inv'
  <2> SUFFICES ASSUME begin_op(p) PROVE Inv'  BY <1>beginop
  <2> USE DEF LogConstants, begin_op, At, Goto, diskVars, cacheVars, opVars
  <2>1. TypeOK'
    <3>1. outstanding' \in Nat  BY DEF TypeOK
    <3>2. pc' \in [Procs -> {"idle", "begin", "asleep"} \cup Working \cup Ending]
      BY Zenon DEF TypeOK, Working
    <3>3. opblocks' \in [Procs -> SUBSET Blocks]  BY DEF TypeOK
    <3> QED  BY <3>1, <3>2, <3>3 DEF TypeOK
  <2>e. /\ pc[p] = "begin" /\ pc'[p] \in {"asleep", "op"}
        /\ \A q \in Procs : q # p => pc'[q] = pc[q] /\ opblocks'[q] = opblocks[q]
    BY DEF TypeOK
  <2>2. Headers'  BY DEF Headers, Distinct
  <2>4. Holding'  BY <2>e DEF Holding
  <2>5. Coherent'  BY DEF Coherent
  <2>6. Phases'
    BY DEF TypeOK, Phases, Committed, Copied, DirtyFrom, Running, Cached
  <2>7. CASE committing \/ NoRoom
    <3>1. InOp' = InOp  BY <2>1, <2>7, OpsKept DEF TypeOK, Working
    <3>2. Turns'  BY <2>e, <2>7, <3>1 DEF Turns, Running, Ending
    <3> QED  BY <2>1, <2>2, <3>2, <2>4, <2>5, <2>6 DEF Inv
  <2>8. CASE ~(committing \/ NoRoom)
    <3>1. Turns'  BY <2>e, <2>8 DEF Turns, Running, Ending
    <3> QED  BY <2>1, <2>2, <3>1, <2>4, <2>5, <2>6 DEF Inv
  <2> QED  BY <2>7, <2>8
\* A change of a buffer in an operation keeps the invariant.
<1>modify. ASSUME NEW p \in Procs, NEW b \in Blocks, NEW v \in Vals, modify(p, b, v) PROVE Inv'
  <2> SUFFICES ASSUME modify(p, b, v) PROVE Inv'  BY <1>modify
  <2> USE DEF LogConstants, modify, At, Goto, diskVars, cacheVars, opVars
  <2>1. TypeOK'  BY DEF TypeOK, Value, Working
  <2>o. InOp' = InOp  BY <2>1, OpsKept DEF TypeOK, Working
  <2>i. p \in InOp  BY DEF InOp
  <2>c. ~committing  BY <2>i DEF Turns
  <2>e. \A q \in Procs : pc[q] \notin Ending /\ pc'[q] \notin Ending
    BY <2>c DEF Turns, TypeOK, Ending
  <2>2. Headers'  BY DEF Headers, Distinct
  <2>3. Turns'  BY <2>o, <2>c, <2>e DEF Turns, Running
  <2>4. Holding'
    <3>1. /\ blk'[p] = {b} /\ b \in opblocks'[p] /\ pc'[p] = "modified"
          /\ \A q \in Procs : q # p => blk'[q] = blk[q] /\ pc'[q] = pc[q] /\ opblocks'[q] = opblocks[q]
      BY DEF TypeOK
    <3> QED  BY <3>1 DEF Holding
  <2>5. Coherent'
    <3>1. \A c \in Blocks : c # b => buf'[c] = buf[c]  BY DEF TypeOK
    <3>2. buf'[b] = v /\ v # NoVal  BY DEF TypeOK
    <3>3. b \in blk'[p]  BY DEF TypeOK
    <3>4. blk[p] = {}  BY DEF Holding
    <3>5. \A c \in Blocks, q \in Procs : c # b => (c \in blk'[q] <=> c \in blk[q])
      BY <3>4 DEF TypeOK
    <3> QED  BY <3>1, <3>2, <3>3, <3>5 DEF Coherent
  <2>6. Phases'
    <3>1. dhead = <<>> /\ DirtyFrom(1)  BY <2>e DEF Phases, Running, Ending
    <3> QED  BY <2>e, <3>1 DEF Phases, Running, Ending, DirtyFrom
  <2> QED  BY <2>1, <2>2, <2>3, <2>4, <2>5, <2>6 DEF Inv
\* The first tests of log_write keeps the invariant.
<1>logwriteCheck. ASSUME NEW p \in Procs, log_writeCheck(p) PROVE Inv'
  <2> SUFFICES ASSUME log_writeCheck(p) PROVE Inv'  BY <1>logwriteCheck
  <2> USE DEF LogConstants, log_writeCheck, At, Goto, diskVars, cacheVars, opVars
  <2>1. TypeOK'
    <3>1. pc' \in [Procs -> {"idle", "begin", "asleep"} \cup Working \cup Ending]
      BY DEF TypeOK, Working
    <3>2. mode' \in {"up", "panic"}  OBVIOUS
    <3> QED  BY <3>1, <3>2 DEF TypeOK
  <2>o. InOp' = InOp  BY <2>1, OpsKept DEF TypeOK, Working
  <2>i. p \in InOp  BY DEF InOp
  <2>c. ~committing  BY <2>i DEF Turns
  <2>e. \A q \in Procs : pc[q] \notin Ending /\ pc'[q] \notin Ending
    BY <2>c DEF Turns, TypeOK, Ending
  <2>2. Headers'  BY DEF Headers, Distinct
  <2>3. Turns'  BY <2>o, <2>c, <2>e DEF Turns, Running
  <2>4. Holding'  BY DEF TypeOK, Holding
  <2>5. Coherent'  BY DEF Coherent
  <2>6. Phases'
    <3>1. dhead = <<>> /\ DirtyFrom(1)  BY <2>e DEF Phases, Running, Ending
    <3> QED  BY <2>e, <3>1 DEF Phases, Running, Ending, DirtyFrom
  <2> QED  BY <2>1, <2>2, <2>3, <2>4, <2>5, <2>6 DEF Inv
\* log_write keeps the invariant.
<1>logwrite. ASSUME NEW p \in Procs, log_write(p) PROVE Inv'
  <2> SUFFICES ASSUME log_write(p) PROVE Inv'  BY <1>logwrite
  <2> USE DEF LogConstants, At, Goto, diskVars, cacheVars, opVars
  <2>b. PICK b \in blk[p] : /\ lh' = IF b \in LoggedBlocks(lh) THEN lh ELSE Append(lh, b)
                            /\ dirty' = [dirty EXCEPT ![b] = TRUE]
    BY Zenon DEF log_write
  <2>s. /\ mode = "up" /\ pc[p] = "checked"
        /\ blk' = [blk EXCEPT ![p] = {}]
        /\ pc' = [pc EXCEPT ![p] = "op"]
        /\ UNCHANGED <<buf, outstanding, committing, tail, mode, opblocks, disk, dlog, dhead>>
    BY DEF log_write
  <2>t. b \in Blocks /\ b \in opblocks[p] /\ blk[p] = {b}  BY <2>s DEF Holding, TypeOK
  <2>l. /\ lh' \in Seq(Blocks) /\ Distinct(lh')
        /\ LoggedBlocks(lh') = LoggedBlocks(lh) \cup {b}
    BY <2>b, <2>t, AppendFacts DEF TypeOK, Headers
  <2>1. TypeOK'
    <3>1. dirty' \in [Blocks -> BOOLEAN]  BY <2>b DEF TypeOK
    <3> QED  BY <2>s, <2>l, <3>1 DEF TypeOK, Working
  <2>o. InOp' = InOp  BY <2>1, <2>s, OpsKept DEF TypeOK, Working
  <2>i. p \in InOp  BY <2>s DEF InOp
  <2>c. ~committing  BY <2>i DEF Turns
  <2>e. \A q \in Procs : pc[q] \notin Ending /\ pc'[q] \notin Ending
    BY <2>c, <2>s DEF Turns, TypeOK, Ending
  <2>2. Headers'  BY <2>l, <2>s DEF Headers, Distinct
  <2>3. Turns'  BY <2>o, <2>c, <2>e, <2>s DEF Turns, Running
  <2>4. Holding'  BY <2>s DEF TypeOK, Holding
  <2>5. Coherent'
    <3>1. /\ dirty'[b] /\ buf'[b] # NoVal
          /\ \A c \in Blocks : c # b => dirty'[c] = dirty[c]
      BY <2>b, <2>s, <2>t DEF TypeOK, Coherent
    <3>2. \A c \in Blocks, q \in Procs : c # b => (c \in blk'[q] <=> c \in blk[q])
      BY <2>s, <2>t DEF TypeOK
    <3>3. \A q \in Procs : b \notin blk'[q]  BY <2>s, <2>t DEF Holding, TypeOK
    <3> QED  BY <2>s, <3>1, <3>2, <3>3 DEF Coherent
  <2>6. Phases'
    <3>1. dhead = <<>> /\ DirtyFrom(1)  BY <2>e, <2>s DEF Phases, Running, Ending
    <3>2. \A c \in Blocks : dirty'[c] <=> c \in LoggedBlocks(lh')
      <4>1. \A c \in Blocks : dirty[c] <=> c \in LoggedBlocks(lh)  BY <3>1, DirtyLogged
      <4> QED  BY <4>1, <2>b, <2>l, <2>t DEF TypeOK
    <3>3. DirtyFrom(1)'  BY <2>1, <3>2 DEF DirtyFrom, LoggedBlocks, TypeOK
    <3> QED  BY <2>e, <2>s, <3>1, <3>3 DEF Phases, Running, Ending
  <2> QED  BY <2>1, <2>2, <2>3, <2>4, <2>5, <2>6 DEF Inv
\* end_op keeps the invariant.
<1>endop. ASSUME NEW p \in Procs, end_op(p) PROVE Inv'
  <2> SUFFICES ASSUME end_op(p) PROVE Inv'  BY <1>endop
  <2> USE DEF LogConstants, end_op, At, Goto, WakeAndGoto, diskVars, cacheVars, opVars
  <2>i. p \in InOp  BY DEF InOp
  <2>c. ~committing  BY <2>i DEF Turns
  <2>f. outstanding - 1 \in Nat /\ (outstanding = 1 => InOp = {p})
    BY <2>i DEF Room, TypeOK
  <2>1. TypeOK'
    <3>1. pc' \in [Procs -> {"idle", "begin", "asleep"} \cup Working \cup Ending]
      <4>1. CASE outstanding' = 0  BY <2>c, <4>1 DEF TypeOK, Ending
      <4>2. CASE outstanding' # 0  BY <2>c, <4>2 DEF TypeOK
      <4> QED  BY <4>1, <4>2
    <3>2. outstanding' \in Nat  BY <2>f
    <3>3. committing' \in BOOLEAN /\ mode' = mode  BY <2>c, Zenon DEF TypeOK
    <3> QED  BY <3>1, <3>2, <3>3 DEF TypeOK
  <2>o. InOp' = InOp \ {p}  BY <2>c, <2>1 DEF InOp, TypeOK
  <2>e. \A q \in Procs : pc[q] \notin Ending  BY <2>c DEF Turns
  <2>q. \A q \in Procs : q # p => pc'[q] \notin Ending
    BY <2>c, <2>e DEF TypeOK, Ending
  <2>2. Headers'  BY DEF Headers, Distinct
  <2>3. Turns'
    <3>1. Running /\ Running'  BY <2>c DEF Running
    <3>2. CASE outstanding' = 0
      <4>1. InOp' = {}  BY <2>f, <2>o, <3>2 DEF TypeOK
      <4>2. pc'[p] \in Ending /\ committing' /\ mode' = "up"  BY <2>c, <3>2 DEF TypeOK, Ending
      <4> QED  BY <2>q, <3>1, <4>1, <4>2 DEF Turns
    <3>3. CASE outstanding' # 0
      <4>1. pc'[p] \notin Ending /\ ~committing'  BY <2>c, <3>3 DEF TypeOK, Ending
      <4> QED  BY <2>q, <3>1, <4>1 DEF Turns
    <3> QED  BY <3>2, <3>3
  <2>4. Holding'
    <3>1. /\ pc'[p] \notin {"modified", "checked"}
          /\ \A q \in Procs : q # p => (pc'[q] \in {"modified", "checked"}
                                           <=> pc[q] \in {"modified", "checked"})
      <4>1. CASE outstanding' = 0  BY <2>c, <4>1 DEF TypeOK
      <4>2. CASE outstanding' # 0  BY <2>c, <4>2 DEF TypeOK
      <4> QED  BY <4>1, <4>2
    <3> QED  BY <3>1 DEF Holding
  <2>5. Coherent'  BY DEF Coherent
  <2>6. Phases'
    <3>1. dhead = <<>> /\ DirtyFrom(1)  BY <2>e DEF Phases, Running, Ending
    <3>2. pc'[p] \in {"idle", "finish", "write_log"}  BY <2>c DEF TypeOK
    <3>3. pc'[p] = "finish" => lh = <<>>  BY <2>c DEF TypeOK
    <3>4. pc'[p] = "write_log" => lh # <<>>  BY <2>c DEF TypeOK
    <3>5. tail' = 1 /\ mode' = "up"  BY <2>c
    <3>6. DirtyFrom(1)'  BY <3>1 DEF DirtyFrom
    <3>7. pc'[p] = "write_log" => tail' \in 1..Len(lh') /\ Copied(tail - 1)'
      BY <3>4, <3>5 DEF Copied, TypeOK
    <3> QED  BY <2>q, <3>1, <3>2, <3>3, <3>5, <3>6, <3>7 DEF Phases, Running, Ending
  <2> QED  BY <2>1, <2>2, <2>3, <2>4, <2>5, <2>6 DEF Inv
<1> QED
  BY <1>call, <1>beginop, <1>modify, <1>logwriteCheck, <1>logwrite, <1>endop, <1>bread,
     <1>recycle DEF OpStep

\* Every step keeps the invariant.
LEMMA StepInv == ASSUME LogConstants, Inv, Room, [Next]_vars PROVE Inv'
<1> SUFFICES ASSUME TypeOK, Headers, Turns, Holding, Coherent, Phases PROVE Inv'  BY DEF Inv
\* The steps of operations keep the invariant.
<1>op. ASSUME OpStep PROVE Inv'  BY <1>op, OpStepInv
\* One block of write_log keeps the invariant.
<1>writelog. ASSUME NEW p \in Procs, write_log(p) PROVE Inv'
  <2> SUFFICES ASSUME write_log(p) PROVE Inv'  BY <1>writelog
  <2> USE DEF LogConstants, write_log, At, Goto, diskVars, cacheVars, opVars
  <2>p. pc[p] \in Ending  BY DEF Ending
  <2>k. tail \in 1..Len(lh) /\ Copied(tail - 1) /\ lh[tail] \in Blocks /\ tail \in 1..LOGSIZE
    BY <2>p, Committer DEF Phases, TypeOK
  <2>d. dhead = <<>> /\ DirtyFrom(1)  BY <2>p, Committer, Zenon DEF Phases, Running, Ending
  <2>u. buf' = buf
    <3>1. dirty[lh[tail]]  BY <2>k, <2>d DEF DirtyFrom, TypeOK
    <3>2. Cached(lh[tail]) = buf[lh[tail]]  BY <2>k, <3>1 DEF Coherent, Cached
    <3> QED  BY <2>k, <3>2 DEF TypeOK
  <2>v. Cached(lh[tail]) \in Value  BY <2>k DEF Cached, TypeOK, Value
  <2>1. TypeOK'  BY <2>u, <2>v, <2>k DEF TypeOK, Ending
  <2>o. InOp' = InOp  BY <2>1, OpsKept DEF TypeOK, Working
  <2>e. /\ pc'[p] \in {"write_log", "write_head"}
        /\ \A q \in Procs : q # p => pc'[q] = pc[q]
    BY DEF TypeOK
  <2>2. Headers'  BY DEF Headers, Distinct
  <2>3. Turns'  BY <2>o, <2>e, <2>p DEF Turns, Running, Ending
  <2>4. Holding'  BY <2>e DEF Holding
  <2>5. Coherent'  BY <2>u DEF Coherent
  <2>6. Phases'
    <3>2. \A i \in 1..tail : dlog'[i] = Cached(lh[i])'
      BY <2>k, <2>u DEF Copied, Cached, TypeOK
    <3>3. DirtyFrom(1)'  BY <2>d DEF DirtyFrom
    <3>4. \A q \in Procs : q # p => pc'[q] \notin Ending  BY <2>e, <2>p, Committer
    <3>5. CASE tail = Len(lh)
      <4>1. pc'[p] = "write_head" /\ tail' = 1  BY <3>5 DEF TypeOK
      <4>2. lh' # <<>>  BY <2>k
      <4>3. Copied(Len(lh))'  BY <3>2, <3>5 DEF Copied
      <4> QED  BY <2>d, <3>3, <3>4, <4>1, <4>2, <4>3 DEF Phases, Running, Ending
    <3>6. CASE tail # Len(lh)
      <4>1. pc'[p] = "write_log" /\ tail' = tail + 1  BY <3>6 DEF TypeOK
      <4>2. tail' \in 1..Len(lh')  BY <2>k, <3>6, <4>1 DEF TypeOK
      <4>3. Copied(tail - 1)'  BY <2>k, <3>2, <4>1 DEF Copied
      <4> QED  BY <2>d, <3>3, <3>4, <4>1, <4>2, <4>3 DEF Phases, Running, Ending
    <3> QED  BY <3>5, <3>6
  <2> QED  BY <2>1, <2>2, <2>3, <2>4, <2>5, <2>6 DEF Inv
\* The write of the header keeps the invariant.
<1>writehead. ASSUME NEW p \in Procs, write_head(p) PROVE Inv'
  <2> SUFFICES ASSUME write_head(p) PROVE Inv'  BY <1>writehead
  <2> USE DEF LogConstants, write_head, At, Goto, diskVars, cacheVars, opVars
  <2>p. pc[p] \in Ending  BY DEF Ending
  <2>d. dhead = <<>> /\ DirtyFrom(1)  BY <2>p, Committer DEF Phases, Running, Ending
  <2>1. TypeOK'  BY DEF TypeOK, Ending
  <2>o. InOp' = InOp  BY <2>1, OpsKept DEF TypeOK, Working
  <2>e. /\ pc'[p] = "install" /\ \A q \in Procs : q # p => pc'[q] = pc[q]
    BY DEF TypeOK
  <2>2. Headers'  BY <2>p, Committer DEF Headers, Distinct
  <2>3. Turns'  BY <2>o, <2>e, <2>p DEF Turns, Running, Ending
  <2>4. Holding'  BY <2>e DEF Holding
  <2>5. Coherent'  BY DEF Coherent
  <2>6. Phases'
    <3>1. tail = 1 /\ lh # <<>> /\ Copied(Len(lh))  BY DEF Phases
    <3>2. tail' \in 1..Len(lh')  BY <3>1 DEF TypeOK
    <3>3. Copied(Len(lh))'  BY <3>1 DEF Copied, Cached
    <3>4. Committed(tail - 1)'  BY <3>1 DEF Committed
    <3>5. DirtyFrom(tail)'  BY <2>d, <3>1 DEF DirtyFrom
    <3>6. \A q \in Procs : q # p => pc'[q] \notin Ending  BY <2>e, <2>p, Committer
    <3>7. mode' = "up"  BY <2>p, Committer
    <3> QED  BY <2>e, <3>2, <3>3, <3>4, <3>5, <3>6, <3>7 DEF Phases, Running, Ending
  <2> QED  BY <2>1, <2>2, <2>3, <2>4, <2>5, <2>6 DEF Inv
\* One block of install_trans keeps the invariant.
<1>installtrans. ASSUME NEW p \in Procs, install_trans(p) PROVE Inv'
  <2> SUFFICES ASSUME install_trans(p) PROVE Inv'  BY <1>installtrans
  <2> USE DEF LogConstants, install_trans, At, Goto, diskVars, cacheVars, opVars
  <2>p. pc[p] \in Ending  BY DEF Ending
  <2>k. /\ tail \in 1..Len(lh) /\ Copied(Len(lh)) /\ dhead = lh
        /\ Committed(tail - 1) /\ DirtyFrom(tail) /\ Len(lh) <= LOGSIZE
    BY <2>p, Committer DEF Phases
  <2>s. /\ lh[tail] \in Blocks
        /\ disk'[lh[tail]] = dlog[tail] /\ buf'[lh[tail]] = dlog[tail] /\ dlog[tail] # NoVal
        /\ ~dirty'[lh[tail]]
        /\ \A b \in Blocks : b # lh[tail] =>
                disk'[b] = disk[b] /\ buf'[b] = buf[b] /\ dirty'[b] = dirty[b]
        /\ \A i \in 1..Len(lh) : i # tail => lh[i] # lh[tail]
        /\ \A i \in 1..tail : disk'[dhead[i]] = dlog[i]
    BY <2>k, InstallEffect, Zenon
  <2>1. TypeOK'
    <3>1. lh' \in Seq(Blocks)  BY DEF TypeOK
    <3>2. tail' \in Nat  BY DEF TypeOK
    <3>3. pc' \in [Procs -> {"idle", "begin", "asleep"} \cup Working \cup Ending]
      BY DEF TypeOK, Ending
    <3>4. /\ disk' \in [Blocks -> Value] /\ buf' \in [Blocks -> Value \cup {NoVal}]
          /\ dirty' \in [Blocks -> BOOLEAN]
      BY <2>k, InstallEffect, Zenon
    <3> QED  BY <3>1, <3>2, <3>3, <3>4 DEF TypeOK
  <2>o. InOp' = InOp  BY <2>1, OpsKept DEF TypeOK, Working
  <2>e. /\ pc'[p] \in {"install", "erase"}
        /\ \A q \in Procs : q # p => pc'[q] = pc[q]
    BY DEF TypeOK
  <2>2. Headers'  BY DEF Headers, Distinct
  <2>3. Turns'  BY <2>o, <2>e, <2>p DEF Turns, Running, Ending
  <2>4. Holding'  BY <2>e DEF Holding
  <2>5. Coherent'
    <3>1. \A q \in Procs : blk'[q] = {}  BY <2>p, Committer
    <3>2. \A q \in Procs : blk[q] = {}  BY <2>p, Committer
    <3> QED  BY <2>s, <3>1, <3>2 DEF Coherent
  <2>6. Phases'
    <3>1. \A q \in Procs : q # p => pc'[q] \notin Ending  BY <2>e, <2>p, Committer
    <3>2. mode' = "up"  BY <2>p, Committer
    <3>3. CASE tail = Len(lh)
      <4>1. pc'[p] = "erase" /\ lh' = <<>>  BY <3>3 DEF TypeOK
      <4>2. Committed(Len(dhead))'  BY <2>s, <2>k, <3>3, Zenon DEF Committed
      <4>3. \A b \in Blocks : ~dirty'[b]
        <5> TAKE b \in Blocks
        <5>1. CASE b = lh[tail]  BY <2>s, <5>1, Zenon
        <5>2. CASE b # lh[tail]
          <6>1. dirty'[b] = dirty[b]  BY <2>s, <5>2, Zenon
          <6>2. \A i \in tail..Len(lh) : i = tail  BY <2>k, <3>3
          <6> QED  BY <2>k, <5>2, <6>1, <6>2, Zenon DEF DirtyFrom
        <5> QED  BY <5>1, <5>2
      <4>4. DirtyFrom(1)'  BY <4>1, <4>3 DEF DirtyFrom
      <4> QED  BY <3>1, <3>2, <4>1, <4>2, <4>4 DEF Phases, Running, Ending
    <3>4. CASE tail # Len(lh)
      <4>1. pc'[p] = "install" /\ lh' = lh /\ tail' = tail + 1 /\ dhead' = lh'
        BY <2>k, <3>4 DEF TypeOK
      <4>2. tail' \in 1..Len(lh')  BY <2>k, <3>4, <4>1 DEF TypeOK
      <4>3. Copied(Len(lh))'
        <5> SUFFICES ASSUME NEW i \in 1..Len(lh) PROVE dlog[i] = Cached(lh[i])'
          BY <4>1 DEF Copied
        <5>1. CASE i = tail  BY <2>s, <4>1, <5>1 DEF Cached
        <5>2. CASE i # tail
          <6>1. lh[i] \in Blocks /\ lh[i] # lh[tail]  BY <2>s, <5>2 DEF TypeOK
          <6> QED  BY <2>s, <2>k, <4>1, <6>1 DEF Copied, Cached
        <5> QED  BY <5>1, <5>2
      <4>4. Committed(tail - 1)'
        <5>1. tail' - 1 = tail  BY <4>1 DEF TypeOK
        <5>2. dhead' = dhead /\ dlog' = dlog  OBVIOUS
        <5>3. \A i \in 1..tail : disk'[dhead'[i]] = dlog'[i]  BY <2>s, <5>2, Zenon
        <5> QED  BY <5>1, <5>3, Zenon DEF Committed
      <4>5. DirtyFrom(tail)'
        <5> SUFFICES ASSUME NEW b \in Blocks
                     PROVE  dirty'[b] <=> \E i \in (tail + 1)..Len(lh) : lh[i] = b
          BY <4>1 DEF DirtyFrom
        <5>1. CASE b = lh[tail]
          <6>1. \A i \in (tail + 1)..Len(lh) : i \in 1..Len(lh) /\ i # tail
            BY <2>k DEF TypeOK
          <6> QED  BY <2>s, <5>1, <6>1
        <5>2. CASE b # lh[tail]  BY <2>s, <2>k, <5>2 DEF DirtyFrom, TypeOK
        <5> QED  BY <5>1, <5>2
      <4> QED  BY <3>1, <3>2, <4>1, <4>2, <4>3, <4>4, <4>5, Zenon DEF Phases, Running, Ending
    <3> QED  BY <3>3, <3>4
  <2> QED  BY <2>1, <2>2, <2>3, <2>4, <2>5, <2>6 DEF Inv
\* The erasure of the header keeps the invariant.
<1>writeheadErase. ASSUME NEW p \in Procs, write_headErase(p) PROVE Inv'
  <2> SUFFICES ASSUME write_headErase(p) PROVE Inv'  BY <1>writeheadErase
  <2> USE DEF LogConstants, write_headErase, At, Goto, diskVars, cacheVars, opVars
  <2>p. pc[p] \in Ending  BY DEF Ending
  <2>l. lh = <<>> /\ DirtyFrom(1)  BY DEF Phases
  <2>1. TypeOK'  BY DEF TypeOK, Ending
  <2>o. InOp' = InOp  BY <2>1, OpsKept DEF TypeOK, Working
  <2>e. /\ pc'[p] = "finish" /\ \A q \in Procs : q # p => pc'[q] = pc[q]
    BY DEF TypeOK
  <2>2. Headers'  BY <2>l DEF Headers, Distinct
  <2>3. Turns'  BY <2>o, <2>e, <2>p DEF Turns, Running, Ending
  <2>4. Holding'  BY <2>e DEF Holding
  <2>5. Coherent'  BY Zenon DEF Coherent
  <2>6. Phases'
    <3>1. \A q \in Procs : q # p => pc'[q] \notin Ending  BY <2>e, <2>p, Committer
    <3>2. mode' = "up"  BY <2>p, Committer
    <3>3. DirtyFrom(1)'  BY <2>l DEF DirtyFrom
    <3> QED  BY <2>e, <2>l, <3>1, <3>2, <3>3 DEF Phases, Running, Ending
  <2> QED  BY <2>1, <2>2, <2>3, <2>4, <2>5, <2>6 DEF Inv
\* The rest of end_op keeps the invariant.
<1>endopFinish. ASSUME NEW p \in Procs, end_opFinish(p) PROVE Inv'
  <2> SUFFICES ASSUME end_opFinish(p) PROVE Inv'  BY <1>endopFinish
  <2> USE DEF LogConstants, end_opFinish, At, WakeAndGoto, diskVars, cacheVars, opVars
  <2>p. pc[p] \in Ending  BY DEF Ending
  <2>l. dhead = <<>> /\ DirtyFrom(1)  BY <2>p, Committer DEF Phases, Running, Ending
  <2>1. TypeOK'  BY Zenon DEF TypeOK
  <2>o. InOp' = InOp  BY <2>1, OpsKept DEF TypeOK, Working
  <2>e. pc'[p] = "idle" /\ \A q \in Procs : q # p => pc'[q] \in {"begin", pc[q]}
    BY DEF TypeOK
  <2>q. \A q \in Procs : pc'[q] \notin Ending  BY <2>e, <2>p, Committer DEF Ending
  <2>2. Headers'  BY DEF Headers, Distinct
  <2>3. Turns'  BY <2>o, <2>q, <2>p, Committer DEF Turns, Running
  <2>4. Holding'  BY <2>e, <2>p, Committer, Zenon DEF Holding, Working
  <2>5. Coherent'  BY Zenon DEF Coherent
  <2>6. Phases'
    <3>1. mode' = "up"  BY <2>p, Committer, Zenon
    <3>2. DirtyFrom(1)'  BY <2>l DEF DirtyFrom
    <3> QED  BY <2>l, <2>q, <3>1, <3>2 DEF Phases, Running, Ending
  <2> QED  BY <2>1, <2>2, <2>3, <2>4, <2>5, <2>6 DEF Inv
\* A crash keeps the invariant.
<1>crash. ASSUME crash PROVE Inv'
  <2> SUFFICES ASSUME crash PROVE Inv'  BY <1>crash
  <2> USE DEF LogConstants, crash, diskVars, cacheVars, opVars
  <2>1. TypeOK'
    <3>1. buf' \in [Blocks -> Value \cup {NoVal}] /\ dirty' \in [Blocks -> BOOLEAN]  OBVIOUS
    <3>2. /\ pc' \in [Procs -> {"idle", "begin", "asleep"} \cup Working \cup Ending]
          /\ blk' \in [Procs -> SUBSET Blocks] /\ opblocks' \in [Procs -> SUBSET Blocks]
      OBVIOUS
    <3>3. lh' \in Seq(Blocks)  OBVIOUS
    <3> QED  BY <3>1, <3>2, <3>3, Zenon DEF TypeOK
  <2>o. InOp' = {}  BY DEF InOp
  <2>2. Headers'  BY DEF Headers, Distinct
  <2>3. Turns'  BY <2>o DEF Turns, Running, Ending
  <2>4. Holding'  BY Zenon DEF Holding
  <2>5. Coherent'  BY Zenon DEF Coherent
  <2>6. Phases'  BY DEF Phases, Running
  <2> QED  BY <2>1, <2>2, <2>3, <2>4, <2>5, <2>6 DEF Inv
\* read_head keeps the invariant.
<1>readhead. ASSUME read_head PROVE Inv'
  <2> SUFFICES ASSUME read_head PROVE Inv'  BY <1>readhead
  <2> USE DEF LogConstants, read_head, diskVars, cacheVars, opVars
  <2>r. ~Running  BY DEF Running
  <2>1. TypeOK'  BY DEF TypeOK
  <2>o. InOp' = {}  BY <2>r, Recovering, Zenon DEF InOp
  <2>2. Headers'  BY DEF Headers, Distinct
  <2>3. Turns'  BY <2>o, <2>r, Recovering DEF Turns, Running, Ending
  <2>4. Holding'  BY DEF Holding
  <2>5. Coherent'  BY DEF Coherent
  <2>6. Phases'
    <3>1. lh = <<>> /\ tail = 1  BY DEF Phases
    <3>2. CASE dhead = <<>>
      <4>1. mode' = "erase" /\ lh' = <<>> /\ Len(dhead) = 0  BY <3>2
      <4>2. Committed(Len(dhead))'  BY <4>1 DEF Committed
      <4> QED  BY <2>r, <4>1, <4>2, Recovering, Zenon DEF Phases, Running
    <3>3. CASE dhead # <<>>
      <4>1. mode' = "recover" /\ lh' = dhead' /\ tail' \in 1..Len(lh')  BY <3>1, <3>3 DEF TypeOK
      <4>2. Committed(tail - 1)'  BY <3>1 DEF Committed
      <4> QED  BY <2>r, <4>1, <4>2, Recovering DEF Phases, Running
    <3> QED  BY <3>2, <3>3
  <2> QED  BY <2>1, <2>2, <2>3, <2>4, <2>5, <2>6 DEF Inv
\* One block of recover_from_log keeps the invariant.
<1>recoverfromlog. ASSUME recover_from_log PROVE Inv'
  <2> SUFFICES ASSUME recover_from_log PROVE Inv'  BY <1>recoverfromlog
  <2> USE DEF LogConstants, recover_from_log, diskVars, cacheVars, opVars
  <2>r. ~Running  BY DEF Running
  <2>k. tail \in 1..Len(lh) /\ dhead = lh /\ Committed(tail - 1) /\ Len(lh) <= LOGSIZE
    BY DEF Phases, Headers
  <2>s. /\ lh[tail] \in Blocks
        /\ disk'[lh[tail]] = dlog[tail] /\ buf'[lh[tail]] = dlog[tail] /\ dlog[tail] # NoVal
        /\ ~dirty'[lh[tail]]
        /\ \A b \in Blocks : b # lh[tail] =>
                disk'[b] = disk[b] /\ buf'[b] = buf[b] /\ dirty'[b] = dirty[b]
        /\ \A i \in 1..tail : disk'[dhead[i]] = dlog[i]
    BY <2>k, InstallEffect
  <2>1. TypeOK'
    <3>1. lh' \in Seq(Blocks)  BY DEF TypeOK
    <3>2. tail' \in Nat  BY DEF TypeOK
    <3>3. /\ disk' \in [Blocks -> Value] /\ buf' \in [Blocks -> Value \cup {NoVal}]
          /\ dirty' \in [Blocks -> BOOLEAN]
      BY <2>k, InstallEffect, Zenon
    <3> QED  BY <3>1, <3>2, <3>3 DEF TypeOK
  <2>o. InOp = {} /\ InOp' = {}  BY <2>r, Recovering, Zenon DEF InOp
  <2>2. Headers'  BY DEF Headers, Distinct
  <2>3. Turns'  BY <2>o, <2>r, Recovering DEF Turns, Running, Ending
  <2>4. Holding'  BY DEF Holding
  <2>5. Coherent'  BY <2>s, <2>r, Recovering DEF Coherent
  <2>6. Phases'
    <3>1. \A b \in Blocks : ~dirty'[b]  BY <2>s, <2>r, Recovering, Zenon
    <3>2. CASE tail = Len(lh)
      <4>1. mode' = "erase" /\ lh' = <<>>  BY <3>2
      <4>2. Committed(Len(dhead))'  BY <2>s, <2>k, <3>2 DEF Committed
      <4> QED  BY <2>r, <3>1, <4>1, <4>2, Recovering, Zenon DEF Phases, Running
    <3>3. CASE tail # Len(lh)
      <4>1. mode' = "recover" /\ lh' = dhead' /\ tail' = tail + 1  BY <2>k, <3>3
      <4>2. tail' \in 1..Len(lh') /\ tail' - 1 = tail  BY <2>k, <3>3, <4>1 DEF TypeOK
      <4>3. Committed(tail - 1)'  BY <2>s, <4>2 DEF Committed
      <4> QED  BY <2>r, <3>1, <4>1, <4>2, <4>3, Recovering, Zenon DEF Phases, Running
    <3> QED  BY <3>2, <3>3
  <2> QED  BY <2>1, <2>2, <2>3, <2>4, <2>5, <2>6 DEF Inv
\* The erasure that ends recovery keeps the invariant.
<1>recoverErase. ASSUME recoverErase PROVE Inv'
  <2> SUFFICES ASSUME recoverErase PROVE Inv'  BY <1>recoverErase
  <2> USE DEF LogConstants, recoverErase, diskVars, cacheVars, opVars
  <2>r. ~Running  BY DEF Running
  <2>l. lh = <<>>  BY DEF Phases
  <2>1. TypeOK'  BY DEF TypeOK
  <2>o. InOp' = InOp  BY DEF InOp
  <2>2. Headers'  BY <2>l DEF Headers, Distinct
  <2>3. Turns'  BY <2>o, <2>r, Recovering DEF Turns, Running, Ending
  <2>4. Holding'  BY DEF Holding
  <2>5. Coherent'  BY DEF Coherent
  <2>6. Phases'
    <3>0. lh' = <<>> /\ \A b \in Blocks : ~dirty'[b]  BY <2>l, <2>r, Recovering
    <3>1. DirtyFrom(1)'  BY <3>0 DEF DirtyFrom
    <3> QED  BY <2>l, <2>r, <3>1, Recovering, Zenon DEF Phases, Running
  <2> QED  BY <2>1, <2>2, <2>3, <2>4, <2>5, <2>6 DEF Inv
<1>2. CASE UNCHANGED vars
  <2>1. InOp' = InOp  BY <1>2 DEF vars, InOp
  <2>2. TypeOK'  BY <1>2 DEF vars, TypeOK
  <2>3. Headers'  BY <1>2 DEF vars, Headers, Distinct
  <2>4. Turns' /\ Holding' /\ Coherent'
    BY <1>2, <2>1 DEF vars, Turns, Holding, Coherent, Running
  <2>5. Phases'
    <3>1. /\ Running' = Running
          /\ \A n : /\ Committed(n)' = Committed(n) /\ Copied(n)' = Copied(n)
                    /\ DirtyFrom(n)' = DirtyFrom(n)
      BY <1>2, Zenon DEF vars, Running, Committed, Copied, DirtyFrom, Cached
    <3> QED  BY <1>2, <3>1 DEF vars, Phases
  <2> QED  BY <2>2, <2>3, <2>4, <2>5 DEF Inv
<1>3. \A p \in Procs : step(p) =>
        \/ OpStep \/ write_log(p) \/ write_head(p) \/ install_trans(p)
        \/ write_headErase(p) \/ end_opFinish(p)
  BY DEF step, OpStep
<1> QED
  BY <1>op, <1>2, <1>3, <1>writelog, <1>writehead, <1>installtrans, <1>writeheadErase,
     <1>endopFinish, <1>crash, <1>readhead, <1>recoverfromlog, <1>recoverErase
  DEF Next, OpStep
=============================================================================
