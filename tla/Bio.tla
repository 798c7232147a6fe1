--------------------------------- MODULE Bio ---------------------------------
(***************************************************************************)
(* The buffer cache (bio.c) on top of the disk driver (ide.c, or memide.c  *)
(* in a memory-disk build), with its caller, the log.  bcache.lock is held *)
(* over a whole bget scan and over the list surgery of brelse, idelock     *)
(* over each critical section of the driver, so those are single steps;    *)
(* between them processes and the disk interrupt interleave.  Sleep-locks  *)
(* are module Mutex's, sleep and wakeup are module SleepLock's.            *)
(***************************************************************************)
EXTENDS Naturals, Sequences, FiniteSets

CONSTANTS Procs, NoProc, Bufs, NoBuf, Blocks, NoBlock, Data, NoData,
          LOGSIZE,     \* how many blocks log.c keeps dirty at a time
          Written      \* the blocks that callers change (a bound)

ASSUME BioAssumption ==
  /\ IsFiniteSet(Procs)
  /\ NoProc \notin Procs /\ NoBuf \notin Bufs /\ NoBlock \notin Blocks

VARIABLES
  driver,     \* the build: "ide" or "memide"
  buf,        \* blockno, refcnt, valid, dirty, data, and the lock's holder
  head,       \* the list of buffers from head.next (most recently used) on
  idequeue,   \* requests, the one the disk works on first
  active,     \* the command the disk works on
  disk,
  pc, want, b \* per process: location, block asked for, buffer in hand

vars == <<driver, buf, head, idequeue, active, disk, pc, want, b>>

Idle == [cmd |-> "none", blockno |-> NoBlock, data |-> NoData]

Dirty == {x \in Bufs : buf[x].dirty}

\* binit puts each buffer in front of the list; all of them are unused.
Init ==
  /\ driver \in {"ide", "memide"}
  /\ buf = [x \in Bufs |-> [blockno |-> NoBlock, refcnt |-> 0, valid |-> FALSE,
                            dirty |-> FALSE, data |-> NoData, lock |-> NoProc]]
  /\ head = CHOOSE s \in [1 .. Cardinality(Bufs) -> Bufs] :
              \A i, j \in DOMAIN s : s[i] = s[j] => i = j
  /\ idequeue = <<>>
  /\ active = Idle
  /\ disk = [k \in Blocks |-> k]        \* some contents, different everywhere
  /\ pc = [p \in Procs |-> "idle"]
  /\ want = [p \in Procs |-> NoBlock]
  /\ b = [p \in Procs |-> NoBuf]
-----------------------------------------------------------------------------
Goto(p, from, to) == pc[p] = from /\ pc' = [pc EXCEPT ![p] = to]

\* A caller asks for a block.
bread(p) ==
  /\ Goto(p, "idle", "bget")
  /\ \E k \in Blocks : want' = [want EXCEPT ![p] = k]
  /\ UNCHANGED <<driver, buf, head, idequeue, active, disk, b>>

Cached(k) == {x \in Bufs : buf[x].blockno = k}

\* First scan: the block is cached.
bgetHit(p) ==
  /\ Goto(p, "bget", "acquiresleep")
  /\ \E x \in Cached(want[p]) :
       /\ buf' = [buf EXCEPT ![x].refcnt = @ + 1]
       /\ b' = [b EXCEPT ![p] = x]
  /\ UNCHANGED <<driver, head, idequeue, active, disk, want>>


VictimDirty(x) ==
  /\ buf[x].refcnt = 0
  /\ \E i \in DOMAIN head :
       head[i] = x /\ \A j \in i + 1 .. Len(head) : buf[head[j]].refcnt > 0

\* The last entry of the list that is not referenced and not dirty.
Victim(x) ==
  /\ buf[x].refcnt = 0 /\ ~buf[x].dirty
  /\ \E i \in DOMAIN head :
       head[i] = x /\ \A j \in i + 1 .. Len(head) :
                        buf[head[j]].refcnt > 0 \/ buf[head[j]].dirty

\* What is left in data is not told apart from garbage.
Recycled(x, k) == [buf[x] EXCEPT !.blockno = k, !.valid = FALSE, !.dirty = FALSE,
                                 !.refcnt = 1, !.data = NoData]

Recycle(p) ==
  \E x \in Bufs :
    /\ Victim(x)
    /\ buf' = [buf EXCEPT ![x] = Recycled(x, want[p])]
    /\ b' = [b EXCEPT ![p] = x]

\* Second scan: recycle the least recently used buffer nobody needs, or
\* panic("bget: no buffers").
bgetMiss(p) ==
  /\ Cached(want[p]) = {}
  /\ IF \E x \in Bufs : Victim(x) THEN Goto(p, "bget", "acquiresleep") /\ Recycle(p)
     ELSE Goto(p, "bget", "panic") /\ UNCHANGED <<buf, b>>
  /\ UNCHANGED <<driver, head, idequeue, active, disk, want>>

\* acquiresleep at the end of bget; bread goes on to the disk if need be.
acquiresleep(p) ==
  /\ pc[p] = "acquiresleep"
  /\ buf[b[p]].lock = NoProc
  /\ buf' = [buf EXCEPT ![b[p]].lock = p]
  /\ pc' = [pc EXCEPT ![p] = IF buf[b[p]].valid THEN "holding" ELSE "iderw"]
  /\ UNCHANGED <<driver, head, idequeue, active, disk, want, b>>

Filled(x, v) == [buf[x] EXCEPT !.data = v, !.dirty = TRUE]

\* The caller fills the buffer and bwrite marks it dirty.
bwrite(p) ==
  /\ Goto(p, "holding", "iderw")
  /\ want[p] \in Written
  /\ \E v \in Data : buf' = [buf EXCEPT ![b[p]] = Filled(b[p], v)]
  /\ UNCHANGED <<driver, head, idequeue, active, disk, want, b>>

\* log_write: the buffer stays dirty in the cache until its commit.
log_write(p) ==
  /\ pc[p] = "holding"
  /\ want[p] \in Written
  /\ Cardinality(Dirty \cup {b[p]}) <= LOGSIZE
  /\ \E v \in Data : buf' = [buf EXCEPT ![b[p]] = Filled(b[p], v)]
  /\ UNCHANGED <<driver, head, idequeue, active, disk, pc, want, b>>

\* install_trans: the commit writes a dirty buffer to its place.
install_trans(p) ==
  /\ Goto(p, "holding", "iderw")
  /\ buf[b[p]].dirty
  /\ UNCHANGED <<driver, buf, head, idequeue, active, disk, want, b>>
-----------------------------------------------------------------------------
\* idestart gives the disk the command, and the data of a write at once.
idestart(x) ==
  [cmd |-> IF buf[x].dirty THEN "write" ELSE "read",
   blockno |-> buf[x].blockno,
   data |-> IF buf[x].dirty THEN buf[x].data ELSE NoData]

\* Append b to idequeue, start the disk if it is the only request, sleep.
iderw(p) ==
  /\ driver = "ide"
  /\ Goto(p, "iderw", "iosleep")
  /\ idequeue' = Append(idequeue, b[p])
  /\ active' = IF idequeue = <<>> THEN idestart(b[p]) ELSE active
  /\ UNCHANGED <<driver, buf, head, disk, want, b>>

iderwDone(p) ==
  /\ Goto(p, "iosleep", "holding")
  /\ buf[b[p]].valid /\ ~buf[b[p]].dirty
  /\ UNCHANGED <<driver, buf, head, idequeue, active, disk, want, b>>

\* memide.c: the transfer is a memmove.
memiderw(p) ==
  /\ driver = "memide"
  /\ Goto(p, "iderw", "holding")
  /\ LET x == buf[b[p]] IN
       /\ disk' = IF x.dirty THEN [disk EXCEPT ![x.blockno] = x.data] ELSE disk
       /\ buf' = [buf EXCEPT ![b[p]] = [@ EXCEPT !.dirty = FALSE, !.valid = TRUE,
                    !.data = IF x.dirty THEN x.data ELSE disk[x.blockno]]]
  /\ UNCHANGED <<driver, head, idequeue, active, want, b>>

NotDequeued == idequeue

\* idequeue = b->qnext
Dequeued == Tail(idequeue)

\* The disk has finished: take the request off the queue, fetch the data of a
\* read, wake the sleeper.
Complete(x) ==
  /\ idequeue' = Dequeued
  /\ disk' = IF active.cmd = "write"
             THEN [disk EXCEPT ![active.blockno] = active.data] ELSE disk
  /\ buf' = [buf EXCEPT ![x] = [@ EXCEPT !.valid = TRUE, !.dirty = FALSE,
               !.data = IF buf[x].dirty THEN buf[x].data ELSE disk[active.blockno]]]

\* The interrupt handler, which starts the disk on the next request.
ideintr ==
  /\ idequeue # <<>> /\ active # Idle
  /\ Complete(Head(idequeue))
  /\ active' = IF Dequeued = <<>> THEN Idle ELSE idestart(Head(Dequeued))
  /\ UNCHANGED <<driver, head, pc, want, b>>
-----------------------------------------------------------------------------
\* brelse, up to releasesleep.
brelse(p) ==
  /\ Goto(p, "holding", "brelse")
  /\ buf' = [buf EXCEPT ![b[p]].lock = NoProc]
  /\ want' = [want EXCEPT ![p] = NoBlock]
  /\ UNCHANGED <<driver, head, idequeue, active, disk, b>>

\* The rest of brelse, under bcache.lock: a buffer nobody waits for becomes
\* the most recently used one.
brelseList(p) ==
  /\ Goto(p, "brelse", "idle")
  /\ buf' = [buf EXCEPT ![b[p]].refcnt = @ - 1]
  /\ head' = IF buf[b[p]].refcnt = 1
             THEN <<b[p]>> \o SelectSeq(head, LAMBDA x : x # b[p]) ELSE head
  /\ b' = [b EXCEPT ![p] = NoBuf]
  /\ UNCHANGED <<driver, idequeue, active, disk, want>>

Caller(p) == bread(p) \/ bwrite(p) \/ log_write(p) \/ install_trans(p) \/ brelse(p)

\* What the kernel itself goes on with, once called.
Kernel(p) ==
  \/ bgetHit(p) \/ bgetMiss(p) \/ acquiresleep(p)
  \/ iderw(p) \/ iderwDone(p) \/ memiderw(p) \/ brelseList(p)

Next == ideintr \/ \E p \in Procs : Caller(p) \/ Kernel(p)

Spec == Init /\ [][Next]_vars

\* The disk answers, and a process in the kernel is scheduled again.
FairSpec == Spec /\ WF_vars(ideintr) /\ \A p \in Procs : WF_vars(Kernel(p))
-----------------------------------------------------------------------------

\* A process asleep in iderw is resumed: the interrupt for each request starts
\* the next one of the queue, so no request is left behind.
IoReturns == \A p \in Procs : pc[p] = "iosleep" ~> pc[p] = "holding"

InCache(k) == {x \in Cached(k) : buf[x].valid \/ buf[x].dirty}

HasBlock(p) == pc[p] = "holding" \/ (pc[p] = "iderw" /\ buf[b[p]].dirty)
                 \/ (pc[p] = "iosleep" /\ (buf[b[p]].valid \/ buf[b[p]].dirty))

Content == [k \in Blocks |-> IF InCache(k) = {} THEN disk[k]
                             ELSE buf[CHOOSE x \in InCache(k) : TRUE].data]

Asked == [p \in Procs |-> IF HasBlock(p) THEN NoBlock ELSE want[p]]

Has == [p \in Procs |-> IF HasBlock(p) THEN want[p] ELSE NoBlock]

Seen == [p \in Procs |-> IF HasBlock(p) THEN buf[b[p]].data ELSE NoData]

Store == INSTANCE BlockStore WITH Data <- Data \cup Blocks,
  content <- Content, want <- Asked, has <- Has, seen <- Seen

\* The cache implements module BlockStore: whoever gets a block gets it alone
\* and sees what was stored in it last, whether that is in a buffer, on the
\* disk, or on its way, and however buffers are recycled in between.
ImplementsBlockStore == Store!Spec
=============================================================================
