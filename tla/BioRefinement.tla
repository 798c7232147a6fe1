---------------------------- MODULE BioRefinement ----------------------------
(***************************************************************************)
(* The buffer cache with its disk driver implements module BlockStore, for *)
(* any number of processes, buffers and blocks.                            *)
(***************************************************************************)
EXTENDS BioProofs

\* iderw has something to do for it.
Pending(x) == ~buf[x].valid \/ buf[x].dirty

\* A buffer that is not dirty agrees with the disk.
Coherent ==
  \A x \in Bufs :
    /\ buf[x].dirty => buf[x].valid
    /\ buf[x].valid => buf[x].blockno \in Blocks
    /\ buf[x].valid /\ ~buf[x].dirty => buf[x].data = disk[buf[x].blockno]

\* The queue holds buffers of sleeping processes, each once, and the disk works
\* on the first of them as it was when idestart looked at it.
Queued ==
  /\ \A i \in DOMAIN idequeue :
       /\ Pending(idequeue[i])
       /\ \E p \in Procs : b[p] = idequeue[i] /\ pc[p] = "iosleep"
  /\ \A i, j \in DOMAIN idequeue : idequeue[i] = idequeue[j] => i = j
  /\ active = IF idequeue = <<>> THEN Idle ELSE idestart(idequeue[1])

\* A process asks the driver only for what it needs, and the cache for one block.
Asking ==
  \A p \in Procs : /\ pc[p] = "iderw" => Pending(b[p])
                   /\ pc[p] \in {"idle", "brelse"} => want[p] = NoBlock

RInv == Inv /\ Coherent /\ Queued /\ Asking
-----------------------------------------------------------------------------
\* What a step leaves of a buffer when it only changes its reference or lock.
SameBlock(y) ==
  /\ buf'[y].blockno = buf[y].blockno /\ buf'[y].valid = buf[y].valid
  /\ buf'[y].dirty = buf[y].dirty /\ buf'[y].data = buf[y].data

OthersSame(p) ==
  \A q \in Procs \ {p} : pc'[q] = pc[q] /\ b'[q] = b[q] /\ want'[q] = want[q]

\* The initial state satisfies the invariant: nothing is valid, queued or asked.
LEMMA InitRInv == Init => RInv
<1> SUFFICES ASSUME Init PROVE RInv
  OBVIOUS
<1>1. Inv
  BY InitInv
<1>2. Coherent /\ Queued /\ Asking
  BY DEF Init, Coherent, Queued, Asking
<1> QED BY <1>1, <1>2 DEF RInv

\* Two processes that have locked a buffer have different ones.
LEMMA LockedDiffer ==
  ASSUME Inv, NEW p \in Procs, NEW q \in Procs \ {p}, pc[p] \in Locked, pc[q] \in Locked
  PROVE  b[p] # b[q]
BY HasBuffer DEF Inv, LockHeld, Locked

\* A process that is not asleep in iderw has no request in the queue.
LEMMA NotQueued ==
  ASSUME RInv, NEW p \in Procs, pc[p] \in {"iderw", "holding"}
  PROVE  \A i \in DOMAIN idequeue : idequeue[i] # b[p]
BY LockedDiffer DEF RInv, Queued, Locked

\* The queue is as it was when its buffers and their sleepers are.
LEMMA QueueKept ==
  ASSUME RInv, UNCHANGED <<idequeue, active>>,
         \A i \in DOMAIN idequeue : SameBlock(idequeue[i]),
         \A q \in Procs : pc[q] = "iosleep" /\ Pending(b[q]) =>
                            pc'[q] = "iosleep" /\ b'[q] = b[q]
  PROVE  Queued'
<1>1. \A i \in DOMAIN idequeue :
        /\ Pending(idequeue[i])'
        /\ \E q \in Procs : b'[q] = idequeue'[i] /\ pc'[q] = "iosleep"
  BY DEF RInv, Queued, Pending, SameBlock
<1>2. idequeue # <<>> => 1 \in DOMAIN idequeue
  BY DEF RInv, Inv, TypeOK
<1>3. idequeue # <<>> => idestart(idequeue[1])' = idestart(idequeue[1])
  BY <1>2 DEF idestart, SameBlock
<1> QED BY <1>1, <1>3 DEF RInv, Queued

\* Steps that touch no block keep the invariant.
LEMMA QuietStep ==
  ASSUME RInv, Inv', \A y \in Bufs : SameBlock(y), UNCHANGED <<disk, idequeue, active>>,
         NEW p \in Procs, OthersSame(p),
         pc[p] = "iosleep" => ~Pending(b[p]),
         pc'[p] = "iderw" => Pending(b[p]) /\ b'[p] = b[p] /\ b[p] \in Bufs,
         pc'[p] \in {"idle", "brelse"} => want'[p] = NoBlock
  PROVE  RInv'
<1>1. Coherent'
  BY DEF RInv, Coherent, SameBlock
<1>2. Queued'
  <2>1. \A i \in DOMAIN idequeue : SameBlock(idequeue[i])
    BY DEF RInv, Inv, TypeOK
  <2>2. \A q \in Procs : pc[q] = "iosleep" /\ Pending(b[q]) =>
                           pc'[q] = "iosleep" /\ b'[q] = b[q]
    BY DEF OthersSame
  <2> QED BY <2>1, <2>2, QueueKept
<1>3. Asking'
  <2>1. \A y \in Bufs : Pending(y)' <=> Pending(y)
    BY DEF Pending, SameBlock
  <2>2. \A q \in Procs \ {p} : pc'[q] = "iderw" => Pending(b[q])'
    <3> SUFFICES ASSUME NEW q \in Procs \ {p}, pc'[q] = "iderw" PROVE Pending(b[q])'
      OBVIOUS
    <3>1. pc[q] = "iderw" /\ b'[q] = b[q]
      BY DEF OthersSame
    <3>2. b[q] \in Bufs /\ Pending(b[q])
      BY <3>1, HasBuffer DEF RInv, Inv, Asking
    <3> QED BY <3>1, <3>2 DEF Pending, SameBlock
  <2>3. pc'[p] = "iderw" => Pending(b[p])'
    BY DEF Pending, SameBlock
  <2>4. \A q \in Procs : pc'[q] \in {"idle", "brelse"} => want'[q] = NoBlock
    BY DEF RInv, Asking, OthersSame
  <2> QED BY <2>2, <2>3, <2>4 DEF Asking
<1> QED BY <1>1, <1>2, <1>3 DEF RInv
\* A process changes the buffer it has locked, and the disk behind it.
LEMMA OwnStep ==
  ASSUME RInv, Inv', Coherent', NEW p \in Procs, pc[p] \in {"iderw", "holding"},
         OthersSame(p), b'[p] = b[p], \A y \in Bufs \ {b[p]} : buf'[y] = buf[y],
         UNCHANGED <<idequeue, active>>, pc'[p] = "iderw" => Pending(b[p])',
         pc'[p] \notin {"idle", "brelse"}
  PROVE  RInv'
<1>1. Queued'
  <2>1. \A i \in DOMAIN idequeue : SameBlock(idequeue[i])
    BY NotQueued DEF RInv, Inv, TypeOK, SameBlock
  <2>2. \A q \in Procs : pc[q] = "iosleep" /\ Pending(b[q]) =>
                           pc'[q] = "iosleep" /\ b'[q] = b[q]
    BY DEF OthersSame
  <2> QED BY <2>1, <2>2, QueueKept
<1>2. Asking'
  <2>1. ASSUME NEW q \in Procs \ {p}, pc'[q] = "iderw" PROVE Pending(b[q])'
    <3>1. pc[q] = "iderw" /\ b'[q] = b[q]
      BY <2>1 DEF OthersSame
    <3>2. b[q] \in Bufs /\ Pending(b[q]) /\ b[q] # b[p]
      BY <3>1, HasBuffer, LockedDiffer DEF RInv, Inv, Asking, Locked
    <3> QED BY <3>1, <3>2 DEF Pending
  <2>2. \A q \in Procs : pc'[q] \in {"idle", "brelse"} => want'[q] = NoBlock
    BY DEF RInv, Asking, OthersSame
  <2> QED BY <2>1, <2>2 DEF Asking
<1> QED BY <1>1, <1>2 DEF RInv

\* bwrite and log_write: a dirty buffer may differ from the disk.
LEMMA WriteStep ==
  ASSUME RInv, NEW p \in Procs, bwrite(p) \/ log_write(p)
  PROVE  RInv'
<1>1. /\ pc[p] = "holding" /\ pc'[p] \in {"holding", "iderw"}
      /\ UNCHANGED <<idequeue, active, disk, want, b>> /\ OthersSame(p)
  BY DEF bwrite, log_write, Goto, OthersSame, RInv, Inv, TypeOK
<1>2. Inv'
  BY CallerInv DEF Caller, RInv
<1>3. /\ Kept /\ \A y \in Bufs \ {b[p]} : buf'[y] = buf[y]
      /\ buf'[b[p]].dirty
  BY WriteKeeps DEF RInv, Inv
<1>4. b[p] \in Bufs /\ buf[b[p]].valid
  BY <1>1, HasBuffer DEF RInv, Inv, Loaded
<1>5. Coherent'
  BY <1>1, <1>3, <1>4 DEF RInv, Coherent, Kept
<1>6. Pending(b[p])'
  BY <1>1, <1>3 DEF Pending
<1> QED BY <1>1, <1>2, <1>3, <1>5, <1>6, OwnStep

\* memide.c: the buffer and the disk agree after the memmove.
LEMMA MemideStep ==
  ASSUME RInv, NEW p \in Procs, memiderw(p)
  PROVE  RInv'
<1>1. /\ pc[p] = "iderw" /\ pc'[p] = "holding"
      /\ UNCHANGED <<idequeue, active, want, b>> /\ OthersSame(p)
  BY DEF memiderw, Goto, OthersSame, RInv, Inv, TypeOK
<1>2. Inv'
  BY KernelInv DEF Kernel, RInv
<1> DEFINE x == b[p]
<1>3. /\ Kept /\ \A y \in Bufs \ {x} : buf'[y] = buf[y]
      /\ buf'[x].valid /\ ~buf'[x].dirty
      /\ buf'[x].data = IF buf[x].dirty THEN buf[x].data ELSE disk[buf[x].blockno]
  BY MemideKeeps DEF RInv, Inv
<1>4. x \in Bufs /\ buf[x].blockno \in Blocks
  BY <1>1, HasBuffer DEF RInv, Inv, Wanted, Locked
<1>5. /\ disk' = IF buf[x].dirty THEN [disk EXCEPT ![buf[x].blockno] = buf[x].data]
                 ELSE disk
      /\ disk \in [Blocks -> AnyData]
  BY DEF memiderw, RInv, Inv, TypeOK
<1>6. Coherent'
  <2>1. buf'[x].data = disk'[buf[x].blockno]
    BY <1>3, <1>4, <1>5
  <2>2. \A y \in Bufs \ {x} : buf[y].blockno \in Blocks =>
          disk'[buf[y].blockno] = disk[buf[y].blockno]
    BY <1>4, <1>5, BioAssumption DEF RInv, Inv, OneBufferPerBlock
  <2>3. \A y \in Bufs \ {x} : /\ buf'[y].dirty => buf'[y].valid
                              /\ buf'[y].valid => buf'[y].blockno \in Blocks
                              /\ buf'[y].valid /\ ~buf'[y].dirty =>
                                   buf'[y].data = disk'[buf'[y].blockno]
    BY <1>3, <2>2 DEF RInv, Coherent
  <2> QED BY <1>3, <1>4, <2>1, <2>3 DEF Coherent, Kept
<1> QED BY <1>1, <1>2, <1>3, <1>6, OwnStep
\* iderw: the request goes to the end of the queue, where it is not yet.
LEMMA IderwStep ==
  ASSUME RInv, NEW p \in Procs, iderw(p)
  PROVE  RInv'
<1>1. /\ pc[p] = "iderw" /\ pc' = [pc EXCEPT ![p] = "iosleep"]
      /\ UNCHANGED <<buf, disk, want, b>> /\ idequeue' = Append(idequeue, b[p])
      /\ active' = IF idequeue = <<>> THEN idestart(b[p]) ELSE active
  BY DEF iderw, Goto
<1>2. Inv'
  BY KernelInv DEF Kernel, RInv
<1>3. b[p] \in Bufs /\ Pending(b[p])
  BY <1>1, HasBuffer DEF RInv, Inv, Asking
<1>4. Coherent' /\ Asking'
  BY <1>1 DEF RInv, Inv, TypeOK, Coherent, Asking, Pending
<1>5. Queued'
  <2>1. /\ idequeue \in Seq(Bufs)
        /\ pc'[p] = "iosleep" /\ \A q \in Procs : pc[q] = "iosleep" => pc'[q] = "iosleep"
    BY <1>1 DEF RInv, Inv, TypeOK
  <2>2. /\ DOMAIN idequeue' = DOMAIN idequeue \cup {Len(idequeue) + 1}
        /\ \A i \in DOMAIN idequeue : idequeue'[i] = idequeue[i]
        /\ idequeue'[Len(idequeue) + 1] = b[p] /\ idequeue' # <<>>
    BY <1>1, <1>3, <2>1
  <2>3. \A i \in DOMAIN idequeue : idequeue[i] # b[p]
    BY <1>1, NotQueued
  <2>4. \A i \in DOMAIN idequeue' :
          /\ Pending(idequeue'[i])
          /\ \E q \in Procs : b[q] = idequeue'[i] /\ pc'[q] = "iosleep"
    BY <1>1, <1>3, <2>1, <2>2 DEF RInv, Queued
  <2>5. \A i, j \in DOMAIN idequeue' : idequeue'[i] = idequeue'[j] => i = j
    BY <2>2, <2>3 DEF RInv, Queued
  <2>6. active' = idestart(idequeue'[1])
    BY <1>1, <2>1, <2>2 DEF RInv, Queued
  <2>7. /\ \A i \in DOMAIN idequeue' : Pending(idequeue[i])'
        /\ idestart(idequeue[1])' = idestart(idequeue'[1])
    BY <1>1, <2>4 DEF Pending, idestart
  <2> QED BY <1>1, <2>2, <2>4, <2>5, <2>6, <2>7 DEF Queued
<1> QED BY <1>2, <1>4, <1>5 DEF RInv

\* The second scan: the victim is clean, so that nothing is lost, and idle.
LEMMA MissStep ==
  ASSUME RInv, NEW p \in Procs, bgetMiss(p), Recycle(p)
  PROVE  RInv'
<1>1. /\ UNCHANGED <<idequeue, active, disk, want>>
      /\ pc[p] = "bget" /\ pc'[p] \in {"acquiresleep", "panic"}
  BY DEF bgetMiss, Goto, RInv, Inv, TypeOK
<1>2. Inv'
  BY KernelInv DEF Kernel, RInv
<1>3. PICK x \in Bufs :
        /\ Victim(x)
        /\ buf' = [buf EXCEPT ![x] = Recycled(x, want[p])]
        /\ b' = [b EXCEPT ![p] = x]
  BY Zenon DEF Recycle
<1>4. want[p] \in Blocks /\ TypeOK
  BY <1>1 DEF RInv, Inv, Wanted
<1>5. /\ \A y \in Bufs \ {x} : buf'[y] = buf[y]
      /\ ~buf'[x].valid /\ ~buf'[x].dirty
  BY <1>3, <1>4, RecycleEffect, Zenon
<1>6. \A q \in Procs : b[q] # x
  <2>1. Users(x) = {}
    BY <1>3, UsersFinite, FS_EmptySet DEF RInv, Inv, RefCounted, Victim
  <2> QED BY <2>1 DEF Users
<1>7. OthersSame(p)
  BY <1>1, <1>3 DEF bgetMiss, Goto, OthersSame, RInv, Inv, TypeOK
<1>8. Coherent'
  BY <1>1, <1>5 DEF RInv, Coherent
<1>9. Queued'
  <2>1. \A i \in DOMAIN idequeue : SameBlock(idequeue[i])
    BY <1>5, <1>6 DEF RInv, Queued, Inv, TypeOK, SameBlock
  <2>2. \A q \in Procs : pc[q] = "iosleep" /\ Pending(b[q]) =>
                           pc'[q] = "iosleep" /\ b'[q] = b[q]
    BY <1>1, <1>7 DEF OthersSame
  <2> QED BY <1>1, <2>1, <2>2, QueueKept
<1>10. Asking'
  <2>1. ASSUME NEW q \in Procs, pc'[q] = "iderw" PROVE Pending(b[q])'
    <3>1. pc[q] = "iderw" /\ b'[q] = b[q]
      BY <1>1, <1>7, <2>1 DEF OthersSame
    <3>2. b[q] \in Bufs \ {x} /\ Pending(b[q])
      BY <1>6, <3>1, HasBuffer DEF RInv, Inv, Asking
    <3> QED BY <1>5, <3>1, <3>2 DEF Pending
  <2>2. \A q \in Procs : pc'[q] \in {"idle", "brelse"} => want'[q] = NoBlock
    BY <1>1, <1>7 DEF RInv, Asking, OthersSame
  <2> QED BY <2>1, <2>2 DEF Asking
<1> QED BY <1>2, <1>8, <1>9, <1>10 DEF RInv

\* The interrupt: the disk has what the buffer of its first request had.
LEMMA IdeintrStep == ASSUME RInv, ideintr PROVE RInv'
<1> DEFINE x == idequeue[1]
<1>1. /\ idequeue \in Seq(Bufs) /\ idequeue # <<>> /\ idequeue' = Tail(idequeue)
      /\ UNCHANGED <<pc, want, b>>
      /\ disk' = IF active.cmd = "write"
                 THEN [disk EXCEPT ![active.blockno] = active.data] ELSE disk
      /\ active' = IF Tail(idequeue) = <<>> THEN Idle ELSE idestart(Head(Tail(idequeue)))
  BY DEF ideintr, Complete, Dequeued, RInv, Inv, TypeOK
<1>2. Inv'
  BY IdeintrInv DEF RInv
<1>3. /\ Kept /\ \A y \in Bufs \ {x} : buf'[y] = buf[y]
      /\ buf'[x].valid /\ ~buf'[x].dirty
      /\ buf'[x].data = IF buf[x].dirty THEN buf[x].data ELSE disk[active.blockno]
  BY IdeintrKeeps DEF RInv, Inv
<1>4. x \in Bufs /\ 1 \in DOMAIN idequeue /\ buf[x].blockno \in Blocks
  BY <1>1 DEF RInv, Inv, Requests
<1>5. active = idestart(x)
  BY <1>1 DEF RInv, Queued
<1>6. /\ disk' = IF buf[x].dirty THEN [disk EXCEPT ![buf[x].blockno] = buf[x].data]
                 ELSE disk
      /\ active.blockno = buf[x].blockno /\ disk \in [Blocks -> AnyData]
  BY <1>1, <1>5, Zenon DEF idestart, RInv, Inv, TypeOK
<1>7. Coherent'
  <2>1. buf'[x].data = disk'[buf[x].blockno]
    BY <1>3, <1>4, <1>6
  <2>2. \A y \in Bufs \ {x} : buf[y].blockno \in Blocks =>
          disk'[buf[y].blockno] = disk[buf[y].blockno]
    BY <1>4, <1>6, BioAssumption DEF RInv, Inv, OneBufferPerBlock
  <2>3. \A y \in Bufs \ {x} : /\ buf'[y].dirty => buf'[y].valid
                              /\ buf'[y].valid => buf'[y].blockno \in Blocks
                              /\ buf'[y].valid /\ ~buf'[y].dirty =>
                                   buf'[y].data = disk'[buf'[y].blockno]
    BY <1>3, <2>2 DEF RInv, Coherent
  <2>4. /\ buf'[x].dirty => buf'[x].valid
        /\ buf'[x].valid => buf'[x].blockno \in Blocks
        /\ buf'[x].valid /\ ~buf'[x].dirty => buf'[x].data = disk'[buf'[x].blockno]
    BY <1>3, <1>4, <2>1 DEF Kept
  <2> QED BY <2>3, <2>4 DEF Coherent
<1>8. Queued'
  <2>1. \A i \in DOMAIN idequeue' :
          /\ i + 1 \in DOMAIN idequeue /\ i + 1 # 1 /\ i \in Nat
          /\ idequeue'[i] = idequeue[i + 1]
    BY <1>1
  <2>2. \A i \in DOMAIN idequeue' :
          /\ idequeue'[i] \in Bufs \ {x} /\ Pending(idequeue'[i])
          /\ \E q \in Procs : b[q] = idequeue'[i] /\ pc[q] = "iosleep"
    BY <1>1, <1>4, <2>1 DEF RInv, Queued
  <2>3. \A i, j \in DOMAIN idequeue' : idequeue'[i] = idequeue'[j] => i = j
    BY <2>1 DEF RInv, Queued
  <2>4. idequeue' # <<>> => /\ 1 \in DOMAIN idequeue'
                            /\ Head(Tail(idequeue)) = idequeue'[1]
    BY <1>1
  <2>5. idequeue' # <<>> => idestart(idequeue'[1]) = idestart(idequeue[1])'
    BY <1>3, <2>2, <2>4 DEF idestart
  <2>6. \A i \in DOMAIN idequeue' : Pending(idequeue[i])'
    BY <1>3, <2>2 DEF Pending
  <2> QED BY <1>1, <2>2, <2>3, <2>4, <2>5, <2>6 DEF Queued, Idle
<1>9. Asking'
  <2>1. ASSUME NEW q \in Procs, pc[q] = "iderw" PROVE Pending(b[q])'
    <3>1. b[q] \in Bufs \ {x} /\ Pending(b[q])
      BY <1>4, <2>1, HasBuffer, NotQueued DEF RInv, Inv, Asking
    <3> QED BY <1>1, <1>3, <3>1 DEF Pending
  <2> QED BY <1>1, <2>1 DEF RInv, Asking
<1> QED BY <1>2, <1>7, <1>8, <1>9 DEF RInv
\* Asking for a block, and giving it back.
LEMMA CallerQuiet ==
  ASSUME RInv, NEW p \in Procs, bread(p) \/ install_trans(p) \/ brelse(p)
  PROVE  /\ RInv' /\ OthersSame(p) /\ \A y \in Bufs : SameBlock(y)
         /\ UNCHANGED <<disk, b>>
<1> USE DEF Goto
<1>1. Inv' /\ TypeOK
  BY CallerInv DEF Caller, RInv, Inv
<1>2. UNCHANGED <<disk, idequeue, active, b>> /\ OthersSame(p)
  BY <1>1 DEF bread, install_trans, brelse, OthersSame, TypeOK
<1>3. pc[p] \in {"idle", "holding"}
  BY DEF bread, install_trans, brelse
<1>4. \A y \in Bufs : SameBlock(y)
  <2>1. CASE bread(p) \/ install_trans(p)
    BY <2>1 DEF bread, install_trans, SameBlock
  <2>2. CASE brelse(p)
    <3>1. b[p] \in Bufs
      BY <2>2, HasBuffer DEF brelse, RInv, Inv
    <3> QED BY <1>1, <2>2, <3>1, LockEffect DEF brelse, SameBlock
  <2> QED BY <2>1, <2>2
<1>5. pc'[p] = "iderw" => Pending(b[p]) /\ b[p] \in Bufs
  <2>1. CASE bread(p)
    BY <1>1, <2>1 DEF bread, TypeOK
  <2>2. CASE install_trans(p)
    BY <1>1, <2>2, HasBuffer DEF install_trans, Pending, RInv, Inv
  <2>3. CASE brelse(p)
    BY <1>1, <2>3 DEF brelse, TypeOK
  <2> QED BY <2>1, <2>2, <2>3
<1>6. pc'[p] \in {"idle", "brelse"} => want'[p] = NoBlock
  BY <1>1 DEF bread, install_trans, brelse, TypeOK
<1> QED BY <1>1, <1>2, <1>3, <1>4, <1>5, <1>6, QuietStep

\* The steps of bget and brelse that touch no block.
LEMMA KernelQuiet ==
  ASSUME RInv, NEW p \in Procs,
         \/ bgetHit(p) \/ acquiresleep(p) \/ iderwDone(p) \/ brelseList(p)
         \/ bgetMiss(p) /\ UNCHANGED <<buf, b>>
  PROVE  RInv' /\ OthersSame(p) /\ UNCHANGED <<disk, want>> /\ \A y \in Bufs : SameBlock(y)
<1> USE DEF Goto
<1>1. Inv' /\ TypeOK
  BY KernelInv DEF Kernel, RInv, Inv
<1>2. UNCHANGED <<disk, idequeue, active, want>> /\ OthersSame(p)
  BY <1>1, Zenon DEF bgetHit, acquiresleep, iderwDone, brelseList, bgetMiss, OthersSame, TypeOK
<1>3. pc[p] = "iosleep" => ~Pending(b[p])
  BY DEF bgetHit, acquiresleep, iderwDone, brelseList, bgetMiss, Pending
<1>4. \A y \in Bufs : SameBlock(y)
  <2>1. CASE iderwDone(p) \/ UNCHANGED buf
    BY <2>1 DEF iderwDone, SameBlock
  <2>2. CASE bgetHit(p)
    <3>1. PICK x \in Bufs : buf' = [buf EXCEPT ![x].refcnt = buf[x].refcnt + 1]
      BY <2>2, Zenon DEF bgetHit, Cached
    <3>2. buf[x].refcnt + 1 \in Nat
      BY <1>1 DEF TypeOK, Buffer
    <3> QED BY <1>1, <3>1, <3>2, RefEffect DEF SameBlock
  <2>3. CASE acquiresleep(p)
    <3>1. b[p] \in Bufs
      BY <2>3, HasBuffer DEF acquiresleep, RInv, Inv
    <3> QED BY <1>1, <2>3, <3>1, LockEffect DEF acquiresleep, SameBlock
  <2>4. CASE brelseList(p)
    <3>1. b[p] \in Bufs /\ buf[b[p]].refcnt - 1 \in Nat
      BY <2>4, HasBuffer DEF brelseList, RInv, Inv
    <3>2. buf' = [buf EXCEPT ![b[p]].refcnt = buf[b[p]].refcnt - 1]
      BY <2>4 DEF brelseList
    <3> QED BY <1>1, <3>1, <3>2, RefEffect DEF SameBlock
  <2> QED BY <2>1, <2>2, <2>3, <2>4
<1>5. pc'[p] = "iderw" => Pending(b[p]) /\ b'[p] = b[p] /\ b[p] \in Bufs
  <2>1. CASE acquiresleep(p)
    BY <1>1, <2>1, HasBuffer DEF acquiresleep, Pending, RInv, Inv, TypeOK
  <2>2. CASE ~acquiresleep(p)
    BY <1>1, <2>2, Zenon DEF bgetHit, iderwDone, brelseList, bgetMiss, TypeOK
  <2> QED BY <2>1, <2>2
<1>6. pc'[p] \in {"idle", "brelse"} => want'[p] = NoBlock
  BY <1>1, Zenon DEF bgetHit, acquiresleep, iderwDone, brelseList, bgetMiss, RInv, Asking, TypeOK
<1> QED BY <1>1, <1>2, <1>3, <1>4, <1>5, <1>6, QuietStep

\* No step breaks the invariant of the refinement.
LEMMA RInvStep == RInv /\ [Next]_vars => RInv'
<1> SUFFICES ASSUME RInv, [Next]_vars PROVE RInv'
  OBVIOUS
<1>1. CASE UNCHANGED vars
  <2>1. Inv'
    BY InvStep DEF RInv
  <2>2. Coherent' /\ Asking'
    BY <1>1 DEF vars, RInv, Coherent, Asking, Pending
  <2>3. Queued'
    BY <1>1 DEF vars, RInv, Queued, Pending, idestart
  <2> QED BY <2>1, <2>2, <2>3 DEF RInv
<1>2. CASE ideintr
  BY <1>2, IdeintrStep
<1>3. ASSUME NEW p \in Procs, Caller(p) PROVE RInv'
  BY <1>3, CallerQuiet, WriteStep DEF Caller
<1>4. ASSUME NEW p \in Procs, Kernel(p) PROVE RInv'
  <2>1. CASE bgetMiss(p)
    BY <2>1, MissStep, KernelQuiet DEF bgetMiss
  <2> QED BY <1>4, <2>1, KernelQuiet, IderwStep, MemideStep DEF Kernel
<1> QED BY <1>1, <1>2, <1>3, <1>4 DEF Next

\* Buffers and disk are coherent throughout.
THEOREM RInvSafe == Spec => []RInv
BY InitRInv, RInvStep, PTL DEF Spec
-----------------------------------------------------------------------------
\* What the abstract block holds: the buffer's data, or the disk's.
ContentIs ==
  \A k \in Blocks :
    /\ \A x \in Bufs : buf[x].blockno = k /\ buf[x].valid => Content[k] = buf[x].data
    /\ (\A x \in Bufs : buf[x].blockno = k => ~buf[x].dirty) => Content[k] = disk[k]

\* There is at most one buffer to choose from, and a clean one equals the disk.
LEMMA ContentLemma == RInv => ContentIs
<1> SUFFICES ASSUME RInv, NEW k \in Blocks
             PROVE  /\ \A x \in Bufs : buf[x].blockno = k /\ buf[x].valid =>
                                        Content[k] = buf[x].data
                    /\ (\A x \in Bufs : buf[x].blockno = k => ~buf[x].dirty) =>
                         Content[k] = disk[k]
  BY DEF ContentIs
<1>1. ASSUME NEW x \in Bufs, buf[x].blockno = k, buf[x].valid
      PROVE  Content[k] = buf[x].data
  <2>1. InCache(k) = {x}
    BY <1>1, BioAssumption DEF InCache, Cached, RInv, Inv, OneBufferPerBlock
  <2>2. (CHOOSE y \in InCache(k) : TRUE) = x
    BY <2>1
  <2> QED BY <2>1, <2>2 DEF Content
<1>2. ASSUME \A x \in Bufs : buf[x].blockno = k => ~buf[x].dirty
      PROVE  Content[k] = disk[k]
  <2>1. CASE InCache(k) = {}
    BY <2>1 DEF Content
  <2>2. CASE InCache(k) # {}
    <3>1. PICK x \in Bufs : buf[x].blockno = k /\ buf[x].valid /\ ~buf[x].dirty
      BY <1>2, <2>2 DEF InCache, Cached
    <3> QED BY <1>1, <3>1, Zenon DEF RInv, Coherent
  <2> QED BY <2>1, <2>2
<1> QED BY <1>1, <1>2

\* The contents are the same when each block's buffer, or the disk, is.
LEMMA ContentSame ==
  ASSUME ContentIs, ContentIs',
         \A k \in Blocks :
           \/ \E x \in Bufs : /\ buf[x].blockno = k /\ buf[x].valid
                             /\ buf'[x].blockno = k /\ buf'[x].valid
                             /\ buf'[x].data = buf[x].data
           \/ /\ \A x \in Bufs : buf[x].blockno = k => ~buf[x].dirty
              /\ \A x \in Bufs : buf'[x].blockno = k => ~buf'[x].dirty
              /\ disk'[k] = disk[k]
  PROVE  Content' = Content
<1>1. \A k \in Blocks : Content'[k] = Content[k]
  BY DEF ContentIs
<1>2. Content = [k \in Blocks |-> Content[k]] /\ Content' = [k \in Blocks |-> Content'[k]]
  BY DEF Content
<1> QED BY <1>1, <1>2

\* Only the process that takes the step is seen to do something.
LEMMA MapStep ==
  ASSUME NEW p \in Procs,
         \A q \in Procs \ {p} : /\ HasBlock(q)' <=> HasBlock(q)
                                /\ want'[q] = want[q]
                                /\ HasBlock(q) => buf'[b'[q]].data = buf[b[q]].data
  PROVE  /\ Asked' = [Asked EXCEPT ![p] = IF HasBlock(p)' THEN NoBlock ELSE want'[p]]
         /\ Has' = [Has EXCEPT ![p] = IF HasBlock(p)' THEN want'[p] ELSE NoBlock]
         /\ Seen' = [Seen EXCEPT ![p] = IF HasBlock(p)' THEN buf'[b'[p]].data ELSE NoData]
<1>1. Asked' = [Asked EXCEPT ![p] = IF HasBlock(p)' THEN NoBlock ELSE want'[p]]
  BY Zenon DEF Asked
<1>2. Has' = [Has EXCEPT ![p] = IF HasBlock(p)' THEN want'[p] ELSE NoBlock]
  BY Zenon DEF Has
<1>3. Seen' = [Seen EXCEPT ![p] = IF HasBlock(p)' THEN buf'[b'[p]].data ELSE NoData]
  BY Zenon DEF Seen
<1> QED BY <1>1, <1>2, <1>3

\* A step that shows no process anything new is a stuttering step.
LEMMA StutterStep ==
  ASSUME Content' = Content,
         \A q \in Procs : /\ HasBlock(q)' <=> HasBlock(q)
                          /\ want'[q] = want[q]
                          /\ HasBlock(q) => buf'[b'[q]].data = buf[b[q]].data
  PROVE  UNCHANGED Store!vars
<1>1. Asked' = Asked
  BY DEF Asked
<1>2. Has' = Has
  BY DEF Has
<1>3. Seen' = Seen
  BY DEF Seen
<1> QED BY <1>1, <1>2, <1>3 DEF Store!vars
\* The other processes keep their blocks when their buffers keep theirs.
LEMMA OthersHave ==
  ASSUME NEW p \in Procs, OthersSame(p),
         \A q \in Procs \ {p} : pc[q] \in Locked => SameBlock(b[q])
  PROVE  \A q \in Procs \ {p} : /\ HasBlock(q)' <=> HasBlock(q)
                                /\ want'[q] = want[q]
                                /\ HasBlock(q) => buf'[b'[q]].data = buf[b[q]].data
BY DEF OthersSame, SameBlock, HasBlock, Locked

\* A process that comes to have the block it waits for takes a Grant step.
LEMMA GrantStep ==
  ASSUME RInv, RInv', NEW p \in Procs, OthersSame(p), want'[p] = want[p],
         \A q \in Procs \ {p} : pc[q] \in Locked => SameBlock(b[q]),
         Content' = Content, pc[p] \in Locked \cup {"acquiresleep"},
         ~HasBlock(p), HasBlock(p)', buf'[b'[p]].data = Content[want[p]]
  PROVE  Store!Grant(p)
<1>1. want[p] \in Blocks
  BY DEF RInv, Inv, Wanted
<1>2. \A q \in Procs \ {p} : /\ HasBlock(q)' <=> HasBlock(q)
                             /\ want'[q] = want[q]
                             /\ HasBlock(q) => buf'[b'[q]].data = buf[b[q]].data
  BY OthersHave
<1>3. \A q \in Procs \ {p} : HasBlock(q) => want[q] # want[p]
  <2>1. (Inv => BlockExclusive)'
    BY ExclusiveLemma, PTL
  <2>2. \A q \in Procs : HasBlock(q)' => pc'[q] \in Locked
    BY DEF HasBlock, Locked
  <2> QED BY <1>2, <2>1, <2>2 DEF RInv, BlockExclusive
<1>4. /\ Asked' = [Asked EXCEPT ![p] = NoBlock]
      /\ Has' = [Has EXCEPT ![p] = want[p]]
      /\ Seen' = [Seen EXCEPT ![p] = Content[want[p]]]
  BY <1>2, MapStep
<1>5. Asked[p] = want[p] /\ \A q \in Procs : Has[q] # want[p]
  BY <1>1, <1>3, BioAssumption DEF Asked, Has
<1> QED BY <1>1, <1>4, <1>5, BioAssumption DEF Store!Grant

\* Nothing changes in the contents when no block and no disk does.
LEMMA QuietContent ==
  ASSUME RInv, RInv', \A y \in Bufs : SameBlock(y), disk' = disk
  PROVE  Content' = Content
<1>1. ContentIs /\ ContentIs'
  <2>1. (RInv => ContentIs)'
    BY ContentLemma, PTL
  <2> QED BY <2>1, ContentLemma
<1>2. \A k \in Blocks :
        \/ \E x \in Bufs : /\ buf[x].blockno = k /\ buf[x].valid
                          /\ buf'[x].blockno = k /\ buf'[x].valid
                          /\ buf'[x].data = buf[x].data
        \/ /\ \A x \in Bufs : buf[x].blockno = k => ~buf[x].dirty
           /\ \A x \in Bufs : buf'[x].blockno = k => ~buf'[x].dirty
           /\ disk'[k] = disk[k]
  BY DEF SameBlock, RInv, Coherent
<1> QED BY <1>1, <1>2, ContentSame

\* What a caller does with the cache it is allowed to do with the block store.
LEMMA CallerMaps ==
  ASSUME RInv, NEW p \in Procs, bread(p) \/ install_trans(p) \/ brelse(p)
  PROVE  Store!Next \/ UNCHANGED Store!vars
<1> USE DEF Goto
<1>1. /\ RInv' /\ OthersSame(p) /\ \A y \in Bufs : SameBlock(y)
      /\ UNCHANGED <<disk, b>> /\ TypeOK
  BY CallerQuiet DEF RInv, Inv
<1>2. Content' = Content
  BY <1>1, QuietContent
<1>3. \A q \in Procs \ {p} : pc[q] \in Locked => SameBlock(b[q])
  BY <1>1, HasBuffer DEF RInv, Inv, Locked
<1>4. \A q \in Procs \ {p} : /\ HasBlock(q)' <=> HasBlock(q)
                             /\ want'[q] = want[q]
                             /\ HasBlock(q) => buf'[b'[q]].data = buf[b[q]].data
  BY <1>1, <1>3, OthersHave
<1>5. CASE bread(p)
  <2>1. pc[p] = "idle" /\ pc'[p] = "bget" /\ want[p] = NoBlock
    BY <1>1, <1>5 DEF bread, TypeOK, RInv, Asking
  <2>2. ~HasBlock(p) /\ ~HasBlock(p)'
    BY <2>1 DEF HasBlock
  <2>3. PICK k \in Blocks : want' = [want EXCEPT ![p] = k]
    BY <1>5, Zenon DEF bread
  <2>4. want'[p] = k
    BY <1>1, <2>3 DEF TypeOK
  <2>5. /\ Asked' = [Asked EXCEPT ![p] = k] /\ Has' = [Has EXCEPT ![p] = NoBlock]
        /\ Seen' = [Seen EXCEPT ![p] = NoData]
    BY <1>4, <2>2, <2>4, MapStep
  <2>6. Asked[p] = NoBlock /\ Has[p] = NoBlock /\ Has' = Has
    BY <2>1, <2>2, <2>5, Zenon DEF Asked, Has
  <2>8. Seen' = Seen
    BY <2>2, <2>5, Zenon DEF Seen
  <2>7. Store!Ask(p)
    BY <1>2, <2>5, <2>6, <2>8, Zenon DEF Store!Ask
  <2> QED BY <2>7 DEF Store!Next
<1>6. CASE install_trans(p)
  <2>1. pc[p] = "holding" /\ pc'[p] = "iderw" /\ buf[b[p]].dirty /\ want' = want
    BY <1>1, <1>6 DEF install_trans, TypeOK
  <2>2. b[p] \in Bufs
    BY <2>1, HasBuffer DEF RInv, Inv
  <2>3. /\ HasBlock(p) /\ HasBlock(p)' /\ buf'[b'[p]].data = buf[b[p]].data
    BY <1>1, <2>1, <2>2 DEF HasBlock, SameBlock
  <2> QED BY <1>2, <1>4, <2>1, <2>3, StutterStep
<1>7. CASE brelse(p)
  <2>1. pc[p] = "holding" /\ pc'[p] = "brelse" /\ want'[p] = NoBlock
    BY <1>1, <1>7 DEF brelse, TypeOK
  <2>2. HasBlock(p) /\ ~HasBlock(p)' /\ want[p] \in Blocks
    BY <2>1 DEF HasBlock, RInv, Inv, Wanted, Locked
  <2>3. /\ Asked' = [Asked EXCEPT ![p] = NoBlock] /\ Has' = [Has EXCEPT ![p] = NoBlock]
        /\ Seen' = [Seen EXCEPT ![p] = NoData]
    BY <1>4, <2>1, <2>2, MapStep
  <2>4. Has[p] # NoBlock /\ Asked[p] = NoBlock /\ Asked' = Asked
    BY <2>2, <2>3, BioAssumption, Zenon DEF Asked, Has
  <2>5. Store!Drop(p)
    BY <1>2, <2>3, <2>4 DEF Store!Drop
  <2> QED BY <2>5 DEF Store!Next
<1> QED BY <1>5, <1>6, <1>7
\* The kernel's steps that touch no block: only acquiresleep may grant one.
LEMMA KernelMaps ==
  ASSUME RInv, NEW p \in Procs,
         \/ bgetHit(p) \/ acquiresleep(p) \/ iderwDone(p) \/ brelseList(p)
         \/ bgetMiss(p) /\ UNCHANGED <<buf, b>>
  PROVE  Store!Next \/ UNCHANGED Store!vars
<1> USE DEF Goto
<1>1. /\ RInv' /\ OthersSame(p) /\ UNCHANGED <<disk, want>> /\ TypeOK
      /\ \A y \in Bufs : SameBlock(y)
  BY KernelQuiet DEF RInv, Inv
<1>2. Content' = Content
  BY <1>1, QuietContent
<1>3. \A q \in Procs \ {p} : pc[q] \in Locked => SameBlock(b[q])
  BY <1>1, HasBuffer, Zenon DEF RInv, Inv, Locked
<1>4. \A q \in Procs \ {p} : /\ HasBlock(q)' <=> HasBlock(q)
                             /\ want'[q] = want[q]
                             /\ HasBlock(q) => buf'[b'[q]].data = buf[b[q]].data
  BY <1>1, <1>3, OthersHave
<1>5. CASE acquiresleep(p)
  <2>1. /\ pc[p] = "acquiresleep" /\ b' = b
        /\ pc'[p] = IF buf[b[p]].valid THEN "holding" ELSE "iderw"
    BY <1>1, <1>5 DEF acquiresleep, TypeOK
  <2>2. b[p] \in Bufs /\ ~HasBlock(p) /\ buf[b[p]].blockno = want[p] /\ want[p] \in Blocks
    BY <2>1, HasBuffer DEF HasBlock, RInv, Inv, Wanted
  <2>3. CASE buf[b[p]].valid
    <3>1. Content[want[p]] = buf[b[p]].data
      BY <2>2, <2>3, ContentLemma DEF ContentIs
    <3>2. HasBlock(p)' /\ buf'[b'[p]].data = Content[want[p]]
      BY <1>1, <2>1, <2>2, <2>3, <3>1 DEF HasBlock, SameBlock
    <3>3. Store!Grant(p)
      BY <1>1, <1>2, <1>3, <2>1, <2>2, <3>2, GrantStep, Zenon
    <3> QED BY <3>3 DEF Store!Next
  <2>4. CASE ~buf[b[p]].valid
    <3>1. ~buf[b[p]].dirty
      BY <2>2, <2>4 DEF RInv, Coherent
    <3>2. ~HasBlock(p)'
      BY <1>1, <2>1, <2>2, <2>4, <3>1 DEF HasBlock, SameBlock
    <3> QED BY <1>1, <1>2, <1>4, <2>2, <3>2, StutterStep, Zenon
  <2> QED BY <2>3, <2>4
<1>6. CASE iderwDone(p)
  <2>1. pc[p] = "iosleep" /\ pc'[p] = "holding" /\ buf[b[p]].valid /\ UNCHANGED <<b, buf>>
    BY <1>1, <1>6 DEF iderwDone, TypeOK
  <2>2. HasBlock(p) /\ HasBlock(p)' /\ buf'[b'[p]].data = buf[b[p]].data
    BY <2>1 DEF HasBlock
  <2> QED BY <1>1, <1>2, <1>4, <2>2, StutterStep
<1>7. CASE ~acquiresleep(p) /\ ~iderwDone(p)
  <2>1. pc[p] \in {"bget", "brelse"} /\ pc'[p] \in {"acquiresleep", "panic", "idle"}
    BY <1>1, <1>7, Zenon DEF bgetHit, brelseList, bgetMiss, TypeOK
  <2>2. ~HasBlock(p) /\ ~HasBlock(p)'
    BY <2>1 DEF HasBlock
  <2> QED BY <1>1, <1>2, <1>4, <2>2, StutterStep
<1> QED BY <1>5, <1>6, <1>7

\* bwrite and log_write store in the block.
LEMMA WriteMaps ==
  ASSUME RInv, NEW p \in Procs, bwrite(p) \/ log_write(p)
  PROVE  Store!Next
<1>1. /\ pc[p] = "holding" /\ pc'[p] \in {"holding", "iderw"}
      /\ UNCHANGED <<disk, want, b>> /\ OthersSame(p)
  BY DEF bwrite, log_write, Goto, OthersSame, RInv, Inv, TypeOK
<1>2. /\ Kept /\ \A y \in Bufs \ {b[p]} : buf'[y] = buf[y]
      /\ buf'[b[p]].dirty /\ buf'[b[p]].data \in Data
  BY WriteKeeps DEF RInv, Inv
<1>3. /\ b[p] \in Bufs /\ buf[b[p]].valid /\ buf[b[p]].blockno = want[p]
      /\ want[p] \in Blocks
  BY <1>1, HasBuffer DEF RInv, Inv, Loaded, Wanted, Locked
<1>4. HasBlock(p) /\ HasBlock(p)'
  BY <1>1, <1>2 DEF HasBlock
<1>5. \A q \in Procs \ {p} : pc[q] \in Locked => SameBlock(b[q])
  BY <1>1, <1>2, HasBuffer, LockedDiffer DEF RInv, Inv, Locked, SameBlock
<1>6. \A q \in Procs \ {p} : /\ HasBlock(q)' <=> HasBlock(q)
                             /\ want'[q] = want[q]
                             /\ HasBlock(q) => buf'[b'[q]].data = buf[b[q]].data
  BY <1>1, <1>5, OthersHave
<1>7. /\ Asked' = [Asked EXCEPT ![p] = NoBlock] /\ Has' = [Has EXCEPT ![p] = want[p]]
      /\ Seen' = [Seen EXCEPT ![p] = buf'[b[p]].data]
  BY <1>1, <1>4, <1>6, MapStep
<1>8. Asked' = Asked /\ Has' = Has /\ Has[p] = want[p]
  BY <1>4, <1>7, Zenon DEF Asked, Has
<1>9. Content' = [Content EXCEPT ![want[p]] = buf'[b[p]].data]
  <2>1. ContentIs /\ ContentIs'
    <3>1. (RInv => ContentIs)'
      BY ContentLemma, PTL
    <3> QED BY <3>1, ContentLemma, WriteStep
  <2>2. Content'[want[p]] = buf'[b[p]].data
    <3>1. buf'[b[p]].blockno = want[p] /\ buf'[b[p]].valid
      BY <1>2, <1>3 DEF Kept
    <3> QED BY <1>3, <2>1, <3>1, Zenon DEF ContentIs
  <2>3. ASSUME NEW k \in Blocks \ {want[p]} PROVE Content'[k] = Content[k]
    <3>1. \A x \in Bufs : buf[x].blockno = k => x # b[p] /\ buf'[x] = buf[x]
      BY <1>2, <1>3
    <3>2. \A x \in Bufs : buf'[x].blockno = k => buf'[x] = buf[x]
      BY <1>2, <1>3 DEF Kept
    <3>3. CASE \E x \in Bufs : buf[x].blockno = k /\ buf[x].valid
      <4>1. PICK x \in Bufs : buf[x].blockno = k /\ buf[x].valid
        BY <3>3
      <4>2. Content[k] = buf[x].data
        BY <2>1, <4>1 DEF ContentIs
      <4>3. buf'[x] = buf[x]
        BY <3>1, <4>1
      <4>4. Content'[k] = buf'[x].data
        BY <2>1, <4>1, <4>3 DEF ContentIs
      <4> QED BY <4>2, <4>3, <4>4
    <3>4. CASE \A x \in Bufs : buf[x].blockno = k => ~buf[x].dirty
      BY <1>1, <2>1, <3>2, <3>4 DEF ContentIs
    <3> QED BY <3>3, <3>4 DEF RInv, Coherent
  <2>4. Content = [k \in Blocks |-> Content[k]] /\ Content' = [k \in Blocks |-> Content'[k]]
    BY DEF Content
  <2> QED BY <2>2, <2>3, <2>4
<1>10. Store!Store(p)
  BY <1>2, <1>3, <1>7, <1>8, <1>9, BioAssumption, Zenon DEF Store!Store
<1> QED BY <1>10 DEF Store!Next

\* Recycling loses nothing: the victim equals the disk, or was never read.
LEMMA MissMaps ==
  ASSUME RInv, NEW p \in Procs, bgetMiss(p), Recycle(p)
  PROVE  UNCHANGED Store!vars
<1>1. /\ UNCHANGED <<disk, want>> /\ pc[p] = "bget"
      /\ pc'[p] \in {"acquiresleep", "panic"} /\ OthersSame(p)
  BY DEF bgetMiss, Recycle, Goto, OthersSame, RInv, Inv, TypeOK
<1>2. PICK x \in Bufs :
        /\ Victim(x)
        /\ buf' = [buf EXCEPT ![x] = Recycled(x, want[p])]
  BY Zenon DEF Recycle
<1>3. want[p] \in Blocks /\ TypeOK
  BY <1>1 DEF RInv, Inv, Wanted
<1>4. (\A y \in Bufs \ {x} : buf'[y] = buf[y]) /\ ~buf'[x].valid /\ ~buf'[x].dirty
  BY <1>2, <1>3, RecycleEffect, Zenon
<1>5. ~buf[x].dirty /\ \A q \in Procs : b[q] # x
  <2>1. Users(x) = {}
    BY <1>2, UsersFinite, FS_EmptySet DEF RInv, Inv, RefCounted, Victim
  <2> QED BY <1>2, <2>1 DEF Users, Victim
<1>6. Content' = Content
  <2>1. ContentIs /\ ContentIs'
    <3>1. (RInv => ContentIs)'
      BY ContentLemma, PTL
    <3> QED BY <3>1, ContentLemma, MissStep
  <2>2. \A k \in Blocks :
          \/ \E y \in Bufs : /\ buf[y].blockno = k /\ buf[y].valid
                            /\ buf'[y].blockno = k /\ buf'[y].valid
                            /\ buf'[y].data = buf[y].data
          \/ /\ \A y \in Bufs : buf[y].blockno = k => ~buf[y].dirty
             /\ \A y \in Bufs : buf'[y].blockno = k => ~buf'[y].dirty
             /\ disk'[k] = disk[k]
    <3> SUFFICES ASSUME NEW k \in Blocks,
                        ~ \E y \in Bufs \ {x} : buf[y].blockno = k /\ buf[y].valid
                 PROVE  /\ \A y \in Bufs : buf[y].blockno = k => ~buf[y].dirty
                        /\ \A y \in Bufs : buf'[y].blockno = k => ~buf'[y].dirty
      BY <1>1, <1>4
    <3>1. \A y \in Bufs \ {x} : buf[y].blockno = k => ~buf[y].dirty
      BY DEF RInv, Coherent
    <3> QED BY <1>4, <1>5, <3>1
  <2> QED BY <2>1, <2>2, ContentSame
<1>7. \A q \in Procs \ {p} : pc[q] \in Locked => SameBlock(b[q])
  BY <1>4, <1>5, HasBuffer DEF RInv, Inv, Locked, SameBlock
<1>8. ~HasBlock(p) /\ ~HasBlock(p)'
  BY <1>1 DEF HasBlock
<1> QED BY <1>1, <1>6, <1>7, <1>8, OthersHave, StutterStep
\* A transfer, by memmove or by the disk: a write is not seen, a read grants.
LEMMA TransferMaps ==
  ASSUME RInv, RInv', NEW p \in Procs, OthersSame(p), UNCHANGED <<want, b>>,
         pc[p] \in {"iderw", "iosleep"}, pc'[p] \in {"holding", "iosleep"},
         Pending(b[p]), Kept, \A y \in Bufs \ {b[p]} : buf'[y] = buf[y],
         buf'[b[p]].valid, ~buf'[b[p]].dirty,
         buf'[b[p]].data = IF buf[b[p]].dirty THEN buf[b[p]].data
                           ELSE disk[buf[b[p]].blockno],
         disk' = IF buf[b[p]].dirty
                 THEN [disk EXCEPT ![buf[b[p]].blockno] = buf[b[p]].data] ELSE disk
  PROVE  Store!Next \/ UNCHANGED Store!vars
<1>1. PICK x \in Bufs : x = b[p] /\ buf[x].blockno = want[p] /\ want[p] \in Blocks
  BY HasBuffer, Zenon DEF RInv, Inv, Wanted, Locked
<1>2. \A q \in Procs \ {p} : pc[q] \in Locked => SameBlock(b[q])
  BY <1>1, HasBuffer, LockedDiffer, Zenon DEF RInv, Inv, Locked, SameBlock
<1>3. ContentIs /\ ContentIs' /\ disk \in [Blocks -> AnyData]
  <2>1. (RInv => ContentIs)'
    BY ContentLemma, PTL
  <2> QED BY <2>1, ContentLemma DEF RInv, Inv, TypeOK
<1>4. \A y \in Bufs \ {x} : buf[y].blockno # want[p]
  BY <1>1, BioAssumption, Zenon DEF RInv, Inv, OneBufferPerBlock
<1>5. Content' = Content
  <2>1. ASSUME NEW k \in Blocks \ {want[p]}
        PROVE  \/ \E y \in Bufs : /\ buf[y].blockno = k /\ buf[y].valid
                                 /\ buf'[y].blockno = k /\ buf'[y].valid
                                 /\ buf'[y].data = buf[y].data
               \/ /\ \A y \in Bufs : buf[y].blockno = k => ~buf[y].dirty
                  /\ \A y \in Bufs : buf'[y].blockno = k => ~buf'[y].dirty
                  /\ disk'[k] = disk[k]
    <3>1. disk'[k] = disk[k]
      BY <1>1, <1>3, Zenon
    <3>2. \A y \in Bufs : buf[y].blockno = k \/ buf'[y].blockno = k => buf'[y] = buf[y]
      BY <1>1, Zenon DEF Kept
    <3>3. CASE \E y \in Bufs : buf[y].blockno = k /\ buf[y].valid
      BY <3>2, <3>3, Zenon
    <3>4. CASE \A y \in Bufs : buf[y].blockno = k => ~buf[y].valid
      <4>1. \A y \in Bufs : buf[y].blockno = k => ~buf[y].dirty
        BY <3>4, Zenon DEF RInv, Coherent
      <4> QED BY <3>1, <3>2, <4>1
    <3> QED BY <3>3, <3>4, Zenon
  <2>2. CASE buf[x].dirty
    <3>1. /\ buf[x].valid /\ buf'[x].blockno = want[p] /\ buf'[x].valid
          /\ buf'[x].data = buf[x].data
      BY <1>1, <2>2, Zenon DEF RInv, Coherent, Kept
    <3>2. \A k \in Blocks :
            \/ \E y \in Bufs : /\ buf[y].blockno = k /\ buf[y].valid
                              /\ buf'[y].blockno = k /\ buf'[y].valid
                              /\ buf'[y].data = buf[y].data
            \/ /\ \A y \in Bufs : buf[y].blockno = k => ~buf[y].dirty
               /\ \A y \in Bufs : buf'[y].blockno = k => ~buf'[y].dirty
               /\ disk'[k] = disk[k]
      <4> TAKE k \in Blocks
      <4>1. CASE k = want[p]
        BY <1>1, <3>1, <4>1
      <4>2. CASE k # want[p]
        BY <2>1, <4>2, ZenonT(40)
      <4> QED BY <4>1, <4>2, Zenon
    <3> QED BY <1>3, <3>2, ContentSame, Zenon
  <2>3. CASE ~buf[x].dirty
    <3>1. /\ \A y \in Bufs : buf[y].blockno = want[p] => ~buf[y].dirty
          /\ \A y \in Bufs : buf'[y].blockno = want[p] => ~buf'[y].dirty
          /\ disk'[want[p]] = disk[want[p]]
      BY <1>1, <1>4, <2>3 DEF Kept
    <3> QED BY <1>1, <1>3, <2>1, <3>1, ContentSame, Zenon
  <2> QED BY <2>2, <2>3, Zenon
<1>6. HasBlock(p)'
  BY DEF HasBlock
<1>7. CASE buf[x].dirty
  <2>1. HasBlock(p) /\ buf'[b'[p]].data = buf[b[p]].data
    BY <1>1, <1>7, Zenon DEF HasBlock
  <2> QED BY <1>2, <1>5, <1>6, <2>1, OthersHave, StutterStep
<1>8. CASE ~buf[x].dirty
  <2>1. ~HasBlock(p)
    BY <1>1, <1>8 DEF HasBlock, Pending
  <2>2. Content[want[p]] = disk[want[p]]
    BY <1>1, <1>3, <1>4, <1>8, Zenon DEF ContentIs
  <2>3. buf'[b'[p]].data = Content[want[p]]
    BY <1>1, <1>8, <2>2, Zenon
  <2>4. Store!Grant(p)
    BY <1>2, <1>5, <1>6, <2>1, <2>3, GrantStep DEF Locked
  <2> QED BY <2>4, Zenon DEF Store!Next
<1> QED BY <1>7, <1>8

\* The memory disk.
LEMMA MemideMaps ==
  ASSUME RInv, NEW p \in Procs, memiderw(p)
  PROVE  Store!Next \/ UNCHANGED Store!vars
<1>1. /\ pc[p] = "iderw" /\ pc'[p] = "holding"
      /\ UNCHANGED <<want, b>> /\ OthersSame(p)
      /\ disk' = IF buf[b[p]].dirty
                 THEN [disk EXCEPT ![buf[b[p]].blockno] = buf[b[p]].data] ELSE disk
  BY DEF memiderw, Goto, OthersSame, RInv, Inv, TypeOK
<1>2. /\ Kept /\ \A y \in Bufs \ {b[p]} : buf'[y] = buf[y]
      /\ buf'[b[p]].valid /\ ~buf'[b[p]].dirty
      /\ buf'[b[p]].data = IF buf[b[p]].dirty THEN buf[b[p]].data
                           ELSE disk[buf[b[p]].blockno]
  BY MemideKeeps DEF RInv, Inv
<1>3. Pending(b[p]) /\ RInv'
  BY <1>1, MemideStep DEF RInv, Asking
<1> QED BY <1>1, <1>2, <1>3, TransferMaps, Zenon

\* The disk, for the process that sleeps on the first request.
LEMMA IdeintrMaps == ASSUME RInv, ideintr PROVE Store!Next \/ UNCHANGED Store!vars
<1>1. /\ idequeue \in Seq(Bufs) /\ 1 \in DOMAIN idequeue /\ active = idestart(idequeue[1])
  BY DEF ideintr, RInv, Inv, TypeOK, Queued
<1>2. PICK p \in Procs : b[p] = idequeue[1] /\ pc[p] = "iosleep" /\ Pending(b[p])
  BY <1>1 DEF RInv, Queued
<1>3. UNCHANGED <<pc, want, b>> /\ OthersSame(p)
  BY DEF ideintr, OthersSame
<1>4. /\ active.blockno = buf[b[p]].blockno
      /\ disk' = IF buf[b[p]].dirty
                 THEN [disk EXCEPT ![buf[b[p]].blockno] = buf[b[p]].data] ELSE disk
  BY <1>1, <1>2, Zenon DEF ideintr, Complete, idestart
<1>5. /\ Kept /\ \A y \in Bufs \ {b[p]} : buf'[y] = buf[y]
      /\ buf'[b[p]].valid /\ ~buf'[b[p]].dirty
      /\ buf'[b[p]].data = IF buf[b[p]].dirty THEN buf[b[p]].data
                           ELSE disk[buf[b[p]].blockno]
  BY <1>2, <1>4, IdeintrKeeps, Zenon DEF RInv, Inv
<1>6. RInv'
  BY IdeintrStep
<1> QED BY <1>2, <1>3, <1>4, <1>5, <1>6, TransferMaps, Zenon

\* Handing a request to the driver is not seen.
LEMMA IderwMaps == ASSUME RInv, NEW p \in Procs, iderw(p) PROVE UNCHANGED Store!vars
<1>1. /\ pc[p] = "iderw" /\ pc'[p] = "iosleep" /\ OthersSame(p)
      /\ UNCHANGED <<buf, disk, want, b>>
  BY DEF iderw, Goto, OthersSame, RInv, Inv, TypeOK
<1>2. Content' = Content
  BY <1>1 DEF Content, InCache, Cached
<1>3. HasBlock(p)' <=> HasBlock(p)
  BY <1>1 DEF HasBlock, RInv, Asking, Pending
<1>4. \A q \in Procs \ {p} : pc[q] \in Locked => SameBlock(b[q])
  BY <1>1 DEF SameBlock
<1> QED BY <1>1, <1>2, <1>3, <1>4, OthersHave, StutterStep, Zenon

\* The buffer cache and its driver implement the block store: whoever gets a
\* block gets it alone and finds in it what was stored there last.
THEOREM Refinement == Spec => ImplementsBlockStore
<1>1. Init => Store!Init
  <2> SUFFICES ASSUME Init PROVE Store!Init
    OBVIOUS
  <2>1. Content \in [Blocks -> Data \cup Blocks]
    BY BioAssumption DEF Init, Content, InCache, Cached
  <2>2. \A p \in Procs : ~HasBlock(p) /\ want[p] = NoBlock
    BY DEF Init, HasBlock
  <2>3. /\ Asked = [p \in Procs |-> NoBlock] /\ Has = [p \in Procs |-> NoBlock]
        /\ Seen = [p \in Procs |-> NoData]
    BY <2>2 DEF Asked, Has, Seen
  <2> QED BY <2>1, <2>3 DEF Store!Init
<1>2. RInv /\ [Next]_vars => [Store!Next]_(Store!vars)
  <2> SUFFICES ASSUME RInv, [Next]_vars PROVE Store!Next \/ UNCHANGED Store!vars
    OBVIOUS
  <2>1. CASE UNCHANGED vars
    <3>1. Content' = Content
      BY <2>1 DEF vars, Content, InCache, Cached
    <3> QED BY <2>1, <3>1, StutterStep DEF vars, HasBlock
  <2>2. CASE ideintr
    BY <2>2, IdeintrMaps
  <2>3. ASSUME NEW p \in Procs, Caller(p) PROVE Store!Next \/ UNCHANGED Store!vars
    BY <2>3, CallerMaps, WriteMaps DEF Caller
  <2>4. ASSUME NEW p \in Procs, Kernel(p) PROVE Store!Next \/ UNCHANGED Store!vars
    <3>1. CASE bgetMiss(p)
      BY <3>1, MissMaps, KernelMaps DEF bgetMiss
    <3> QED BY <2>4, <3>1, KernelMaps, IderwMaps, MemideMaps DEF Kernel
  <2> QED BY <2>1, <2>2, <2>3, <2>4 DEF Next
<1> QED BY <1>1, <1>2, RInvSafe, PTL DEF Spec, ImplementsBlockStore, Store!Spec
=============================================================================
