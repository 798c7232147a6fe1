--------------------------------- MODULE Log ---------------------------------
(***************************************************************************)
(* The redo log of log.c over the buffer cache, with crashes.              *)
(*                                                                         *)
(* The disk is the home blocks, the log blocks and the log header; each    *)
(* bwrite replaces one block atomically, and a crash may fall between any  *)
(* two of them, during recovery too.  The buffer cache keeps a copy of     *)
(* some home blocks: a buffer that is neither B_DIRTY nor in use may be    *)
(* recycled at any time and is then read again from the disk.  A block's   *)
(* contents are one value, and a process changes a block as a whole while  *)
(* it holds the buffer.  log.lock makes each of its critical sections one  *)
(* step; log_write tests the room in the log before it takes that lock.    *)
(* sleep(&log, &log.lock) misses no wakeup (module SleepLock).             *)
(***************************************************************************)
EXTENDS Integers, Sequences, FiniteSets

CONSTANTS Procs,        \* processes that run file system operations
          Blocks,       \* home blocks
          Vals, InitVal, NoVal,
          MAXOPBLOCKS,  \* distinct blocks an operation may write
          LOGSIZE,      \* room that begin_op shares out
          size          \* log.size = sb.nlog: the header and the log blocks

VARIABLES
  disk,         \* home blocks on disk
  dlog,         \* log blocks on disk
  dhead,        \* log header on disk, as the sequence block[0..n-1]
  buf,          \* cached copies of home blocks, NoVal where there is none
  dirty,        \* B_DIRTY
  lh,           \* log.lh
  outstanding,  \* log.outstanding
  committing,   \* log.committing
  tail,         \* index of the loops of write_log and install_trans
  mode,         \* up, the steps of recovery, or panic
  pc,
  blk,          \* the buffer a process holds in mid-write
  opblocks      \* blocks that a process has written in its operation

vars == <<disk, dlog, dhead, buf, dirty, lh, outstanding, committing, tail,
          mode, pc, blk, opblocks>>
diskVars == <<disk, dlog, dhead>>
cacheVars == <<buf, dirty>>
opVars == <<blk, opblocks>>

LoggedBlocks(h) == {h[i] : i \in DOMAIN h}

Init ==
  /\ disk = [b \in Blocks |-> InitVal]
  /\ dlog = [i \in 1..LOGSIZE |-> InitVal]
  /\ dhead = <<>>
  /\ buf = [b \in Blocks |-> NoVal]
  /\ dirty = [b \in Blocks |-> FALSE]
  /\ lh = <<>>
  /\ outstanding = 0
  /\ committing = FALSE
  /\ tail = 1
  /\ mode = "read_head"
  /\ pc = [p \in Procs |-> "idle"]
  /\ blk = [p \in Procs |-> {}]
  /\ opblocks = [p \in Procs |-> {}]
-----------------------------------------------------------------------------
At(p, l) == mode = "up" /\ pc[p] = l
Goto(p, l) == pc' = [pc EXCEPT ![p] = l]

\* wakeup(&log), after which p is at l.
WakeAndGoto(p, l) ==
  pc' = [q \in Procs |-> IF q = p THEN l
                         ELSE IF pc[q] = "asleep" THEN "begin" ELSE pc[q]]

(* The buffer cache.                                                       *)

\* What bread finds: the cached copy, or the block on disk.
Cached(b) == IF buf[b] = NoVal THEN disk[b] ELSE buf[b]

bread(b) ==
  /\ mode = "up"
  /\ buf[b] = NoVal /\ buf' = [buf EXCEPT ![b] = Cached(b)]
  /\ UNCHANGED <<dirty, lh, outstanding, committing, tail, mode, pc, diskVars,
                 opVars>>

\* bget recycles a buffer with refcnt 0 that is not dirty.
recycle(b) ==
  /\ mode = "up"
  /\ buf[b] # NoVal /\ ~dirty[b]
  /\ \A p \in Procs : b \notin blk[p]
  /\ buf' = [buf EXCEPT ![b] = NoVal]
  /\ UNCHANGED <<dirty, lh, outstanding, committing, tail, mode, pc, diskVars,
                 opVars>>
-----------------------------------------------------------------------------
call(p) ==
  /\ At(p, "idle") /\ Goto(p, "begin")
  /\ UNCHANGED <<lh, outstanding, committing, tail, mode, diskVars, cacheVars,
                 opVars>>

NoRoom == Len(lh) + (outstanding + 1) * MAXOPBLOCKS > LOGSIZE

begin_op(p) ==
  /\ At(p, "begin")
  /\ IF committing \/ NoRoom
     THEN Goto(p, "asleep") /\ UNCHANGED outstanding
     ELSE Goto(p, "op") /\ outstanding' = outstanding + 1
  /\ opblocks' = [opblocks EXCEPT ![p] = {}]
  /\ UNCHANGED <<lh, committing, tail, mode, blk, diskVars, cacheVars>>

\* bread and a change of the buffer, whose lock the process then holds.
modify(p, b, v) ==
  /\ At(p, "op")
  /\ \A q \in Procs : b \notin blk[q]
  /\ Cardinality(opblocks[p] \cup {b}) <= MAXOPBLOCKS
  /\ opblocks' = [opblocks EXCEPT ![p] = @ \cup {b}]
  /\ buf' = [buf EXCEPT ![b] = v]
  /\ blk' = [blk EXCEPT ![p] = {b}]
  /\ Goto(p, "modified")
  /\ UNCHANGED <<dirty, lh, outstanding, committing, tail, mode, diskVars>>

TooBig == Len(lh) >= LOGSIZE \/ Len(lh) >= size - 1

\* The tests of log_write, without log.lock.
log_writeCheck(p) ==
  /\ At(p, "modified")
  /\ IF TooBig \/ outstanding < 1
     THEN mode' = "panic" /\ UNCHANGED pc
     ELSE Goto(p, "checked") /\ UNCHANGED mode
  /\ UNCHANGED <<lh, outstanding, committing, tail, diskVars, cacheVars, opVars>>

log_writeUnpinned(p) ==
  /\ At(p, "checked")
  /\ \E b \in blk[p] : lh' = IF b \in LoggedBlocks(lh) THEN lh ELSE Append(lh, b)
  /\ blk' = [blk EXCEPT ![p] = {}]
  /\ Goto(p, "op")
  /\ UNCHANGED <<buf, dirty, outstanding, committing, tail, mode, opblocks, diskVars>>

\* The rest of log_write, and brelse.
log_write(p) ==
  /\ At(p, "checked")
  /\ \E b \in blk[p] :
       /\ lh' = IF b \in LoggedBlocks(lh) THEN lh ELSE Append(lh, b)
       /\ dirty' = [dirty EXCEPT ![b] = TRUE]
  /\ blk' = [blk EXCEPT ![p] = {}]
  /\ Goto(p, "op")
  /\ UNCHANGED <<buf, outstanding, committing, tail, mode, opblocks, diskVars>>

\* end_op up to its first release.
end_op(p) ==
  /\ At(p, "op")
  /\ outstanding' = outstanding - 1
  /\ IF committing
     THEN mode' = "panic" /\ UNCHANGED <<pc, committing>>
     ELSE /\ IF outstanding' = 0
             THEN committing' = TRUE /\ Goto(p, IF lh = <<>> THEN "finish" ELSE "write_log")
             ELSE WakeAndGoto(p, "idle") /\ UNCHANGED committing
          /\ UNCHANGED mode
  /\ tail' = 1
  /\ UNCHANGED <<lh, diskVars, cacheVars, opVars>>
-----------------------------------------------------------------------------
(* commit, one bwrite per step.                                            *)

\* Copy a modified block from the cache to the log.
write_log(p) ==
  /\ At(p, "write_log")
  /\ dlog' = [dlog EXCEPT ![tail] = Cached(lh[tail])]
  /\ buf' = [buf EXCEPT ![lh[tail]] = Cached(lh[tail])]
  /\ tail' = IF tail = Len(lh) THEN 1 ELSE tail + 1
  /\ Goto(p, IF tail = Len(lh) THEN "write_head" ELSE "write_log")
  /\ UNCHANGED <<disk, dhead, lh, outstanding, committing, mode, dirty,
                 opVars>>

\* The real commit.
write_head(p) ==
  /\ At(p, "write_head")
  /\ dhead' = lh
  /\ Goto(p, "install")
  /\ UNCHANGED <<disk, dlog, lh, outstanding, committing, tail, mode,
                 cacheVars, opVars>>

\* One block of install_trans, which reads the log block, copies it to the
\* home block's buffer and writes that, after which it is not dirty.
installBlock ==
  /\ disk' = [disk EXCEPT ![lh[tail]] = dlog[tail]]
  /\ buf' = [buf EXCEPT ![lh[tail]] = dlog[tail]]
  /\ dirty' = [dirty EXCEPT ![lh[tail]] = FALSE]

install_trans(p) ==
  /\ At(p, "install")
  /\ installBlock
  /\ tail' = IF tail = Len(lh) THEN 1 ELSE tail + 1
  /\ lh' = IF tail = Len(lh) THEN <<>> ELSE lh
  /\ Goto(p, IF tail = Len(lh) THEN "erase" ELSE "install")
  /\ UNCHANGED <<dlog, dhead, outstanding, committing, mode, opVars>>

\* Erase the transaction from the log.
write_headErase(p) ==
  /\ At(p, "erase")
  /\ dhead' = lh
  /\ Goto(p, "finish")
  /\ UNCHANGED <<disk, dlog, lh, outstanding, committing, tail, mode,
                 cacheVars, opVars>>

end_opFinishQuiet(p) ==
  /\ At(p, "finish")
  /\ committing' = FALSE
  /\ Goto(p, "idle")
  /\ UNCHANGED <<lh, outstanding, tail, mode, diskVars, cacheVars, opVars>>

\* The rest of end_op.
end_opFinish(p) ==
  /\ At(p, "finish")
  /\ committing' = FALSE
  /\ WakeAndGoto(p, "idle")
  /\ UNCHANGED <<lh, outstanding, tail, mode, diskVars, cacheVars, opVars>>
-----------------------------------------------------------------------------
(* A crash loses everything but the disk.  initlog then recovers before    *)
(* any process runs.                                                       *)
crash ==
  /\ mode' = "read_head"
  /\ buf' = [b \in Blocks |-> NoVal]
  /\ dirty' = [b \in Blocks |-> FALSE]
  /\ lh' = <<>> /\ outstanding' = 0 /\ committing' = FALSE /\ tail' = 1
  /\ pc' = [p \in Procs |-> "idle"]
  /\ blk' = [p \in Procs |-> {}]
  /\ opblocks' = [p \in Procs |-> {}]
  /\ UNCHANGED diskVars

read_head ==
  /\ mode = "read_head"
  /\ lh' = dhead
  /\ mode' = IF dhead = <<>> THEN "erase" ELSE "recover"
  /\ UNCHANGED <<outstanding, committing, tail, pc, diskVars, cacheVars, opVars>>

recover_from_log ==
  /\ mode = "recover"
  /\ installBlock
  /\ tail' = IF tail = Len(lh) THEN 1 ELSE tail + 1
  /\ lh' = IF tail = Len(lh) THEN <<>> ELSE lh
  /\ mode' = IF tail = Len(lh) THEN "erase" ELSE "recover"
  /\ UNCHANGED <<dlog, dhead, outstanding, committing, pc, opVars>>

recoverErase ==
  /\ mode = "erase"
  /\ dhead' = lh
  /\ mode' = "up"
  /\ UNCHANGED <<disk, dlog, lh, outstanding, committing, tail, pc, cacheVars,
                 opVars>>
-----------------------------------------------------------------------------
step(p) ==
  \/ begin_op(p) \/ log_writeCheck(p) \/ log_write(p) \/ end_op(p)
  \/ write_log(p) \/ write_head(p) \/ install_trans(p) \/ write_headErase(p)
  \/ end_opFinish(p)

Next ==
  \/ \E p \in Procs : \/ call(p) \/ step(p)
                      \/ \E b \in Blocks, v \in Vals : modify(p, b, v)
  \/ \E b \in Blocks : bread(b) \/ recycle(b)
  \/ crash \/ read_head \/ recover_from_log \/ recoverErase

Spec == Init /\ [][Next]_vars
-----------------------------------------------------------------------------
(* What a crash now would leave, and what the operations see.              *)
Recovered ==
  [b \in Blocks |->
     IF b \in LoggedBlocks(dhead)
     THEN dlog[CHOOSE i \in DOMAIN dhead : dhead[i] = b]
     ELSE disk[b]]

View ==
  IF mode \in {"up", "panic"}
  THEN [b \in Blocks |-> Cached(b)]
  ELSE Recovered

InOp == {p \in Procs : pc[p] \in {"op", "modified", "checked"}}

abstract == INSTANCE AtomicDisk
              WITH stable <- Recovered, current <- View, active <- InOp

\* The log implements the atomic disk: whenever the machine crashes, also in
\* the middle of a commit or of a recovery, the blocks come back as they were
\* after some set of complete operations, and operations always read what was
\* last written.
ImplementsAtomicDisk == abstract!Spec

\* A process asleep in begin_op has a wakeup to come: a commit is under way or
\* an operation is still to end.
SleeperHasWaker ==
  (\E p \in Procs : pc[p] = "asleep") => committing \/ outstanding > 0

\* "if it thinks the log is close to running out, it sleeps": an operation
\* admitted by begin_op that writes at most MAXOPBLOCKS blocks finds room in
\* the log, and the log blocks stay inside the log area.
LogFits == mode # "panic" /\ Len(lh) <= size - 1
=============================================================================
