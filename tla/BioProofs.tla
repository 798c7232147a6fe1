------------------------------ MODULE BioProofs ------------------------------
(***************************************************************************)
(* The buffer cache is correct for any number of processes, buffers and    *)
(* blocks: bread returns the block that was asked for, with its contents,  *)
(* to one process at a time.                                               *)
(***************************************************************************)
EXTENDS Bio, FiniteSetTheorems, TLAPS

AnyData == Data \cup Blocks \cup {NoData}

Buffer == [blockno : Blocks \cup {NoBlock}, refcnt : Nat, valid : BOOLEAN,
           dirty : BOOLEAN, data : AnyData, lock : Procs \cup {NoProc}]

Command == [cmd : {"none", "read", "write"}, blockno : Blocks \cup {NoBlock},
            data : AnyData]

\* Every variable but the order of the list has its type.
TypeOK ==
  /\ buf \in [Bufs -> Buffer]
  /\ idequeue \in Seq(Bufs)
  /\ active \in Command
  /\ disk \in [Blocks -> AnyData]
  /\ pc \in [Procs -> {"idle", "bget", "acquiresleep", "iderw", "iosleep",
                       "holding", "brelse", "panic"}]
  /\ want \in [Procs -> Blocks \cup {NoBlock}]
  /\ b \in [Procs -> Bufs \cup {NoBuf}]

Users(x) == {p \in Procs : b[p] = x}

\* b->refcnt counts the processes between bget and the end of brelse.
RefCounted ==
  /\ \A x \in Bufs : buf[x].refcnt = Cardinality(Users(x))
  /\ \A p \in Procs : b[p] = NoBuf <=> pc[p] \in {"idle", "bget", "panic"}

Locked == {"iderw", "iosleep", "holding"}

\* The sleep-lock of a buffer is held by the process that is using it.
LockHeld ==
  \A p \in Procs, x \in Bufs : buf[x].lock = p <=> (b[p] = x /\ pc[p] \in Locked)

\* A process keeps the block it asked for from bget to brelse.
Wanted ==
  \A p \in Procs :
    /\ pc[p] = "bget" => want[p] \in Blocks
    /\ pc[p] \in Locked \cup {"acquiresleep"} =>
         want[p] \in Blocks /\ buf[b[p]].blockno = want[p]

\* No block is in two buffers.
OneBufferPerBlock ==
  \A x, y \in Bufs :
    buf[x].blockno = buf[y].blockno /\ buf[x].blockno # NoBlock => x = y

\* Whoever has a block has read it.
Loaded == \A p \in Procs : pc[p] = "holding" => buf[b[p]].valid

\* The disk is given blocks, never an unused buffer.
Requests ==
  /\ \A i \in DOMAIN idequeue : buf[idequeue[i]].blockno \in Blocks
  /\ active # Idle => active.blockno \in Blocks

Inv == /\ TypeOK /\ RefCounted /\ LockHeld /\ Wanted /\ OneBufferPerBlock
       /\ Loaded /\ Requests

\* bread's comment, "Return a locked buf with the contents of the indicated
\* block": a waiter that was overtaken by recycling would get another block.
BreadReturns ==
  \A p \in Procs : pc[p] = "holding" =>
    /\ b[p] \in Bufs
    /\ buf[b[p]].blockno = want[p] /\ buf[b[p]].valid /\ buf[b[p]].lock = p

\* "Only one process at a time can use a buffer", and so a block.
BlockExclusive ==
  \A p, q \in Procs :
    pc[p] \in Locked /\ pc[q] \in Locked /\ want[p] = want[q] => p = q
-----------------------------------------------------------------------------
\* binit leaves every buffer unused and unlocked.
LEMMA InitInv == Init => Inv
<1> SUFFICES ASSUME Init PROVE Inv
  OBVIOUS
<1> USE BioAssumption DEF Init, Idle
<1>1. TypeOK
  BY DEF TypeOK, AnyData, Buffer, Command
<1>2. RefCounted
  <2>1. \A x \in Bufs : Users(x) = {}
    BY DEF Users
  <2> QED BY <2>1, FS_EmptySet, Zenon DEF RefCounted
<1>3. LockHeld /\ Wanted /\ OneBufferPerBlock /\ Loaded /\ Requests
  BY DEF LockHeld, Wanted, OneBufferPerBlock, Loaded, Requests, Locked
<1> QED BY <1>1, <1>2, <1>3 DEF Inv

\* A process from bget to the end of brelse has a buffer, which counts it.
LEMMA HasBuffer ==
  ASSUME TypeOK, RefCounted, NEW p \in Procs, pc[p] \notin {"idle", "bget", "panic"}
  PROVE  b[p] \in Bufs /\ p \in Users(b[p]) /\ buf[b[p]].refcnt \in Nat \ {0}
<1>1. b[p] \in Bufs /\ p \in Users(b[p])
  BY DEF TypeOK, RefCounted, Users
<1>2. IsFiniteSet(Users(b[p])) /\ Users(b[p]) # {}
  BY <1>1, BioAssumption, FS_Subset DEF Users
<1>3. Cardinality(Users(b[p])) \in Nat \ {0}
  BY <1>2, FS_EmptySet, FS_CardinalityType
<1> QED BY <1>1, <1>3 DEF RefCounted

\* What a transfer, or filling a buffer, leaves alone.
Kept ==
  \A y \in Bufs : /\ buf'[y].blockno = buf[y].blockno
                  /\ buf'[y].refcnt = buf[y].refcnt
                  /\ buf'[y].lock = buf[y].lock
                  /\ buf[y].valid => buf'[y].valid

\* The caller's writes change what is in a buffer, not whose it is.
LEMMA WriteKeeps ==
  ASSUME TypeOK, RefCounted, NEW p \in Procs, bwrite(p) \/ log_write(p)
  PROVE  /\ buf' \in [Bufs -> Buffer] /\ Kept
         /\ \A y \in Bufs \ {b[p]} : buf'[y] = buf[y]
         /\ buf'[b[p]].dirty /\ buf'[b[p]].data \in Data
<1>1. PICK v \in Data : buf' = [buf EXCEPT ![b[p]] = Filled(b[p], v)]
  BY DEF bwrite, log_write
<1>2. b[p] \in Bufs
  BY HasBuffer DEF bwrite, log_write, Goto
<1> DEFINE r == Filled(b[p], v)
<1>3. buf[b[p]] \in Buffer
  BY <1>2 DEF TypeOK
<1>4. r \in Buffer
  BY <1>3, Zenon DEF Buffer, AnyData, Filled
<1>5. /\ r.blockno = buf[b[p]].blockno /\ r.refcnt = buf[b[p]].refcnt
      /\ r.lock = buf[b[p]].lock /\ r.valid = buf[b[p]].valid
      /\ r.dirty /\ r.data \in Data
  BY <1>3 DEF Buffer, Filled
<1>6. buf' = [buf EXCEPT ![b[p]] = r]
  BY <1>1
<1> HIDE DEF r
<1> QED BY <1>2, <1>4, <1>5, <1>6 DEF TypeOK, Kept

\* So does the memory disk.
LEMMA MemideKeeps ==
  ASSUME TypeOK, RefCounted, Wanted, NEW p \in Procs, memiderw(p)
  PROVE  /\ buf' \in [Bufs -> Buffer] /\ Kept /\ disk' \in [Blocks -> AnyData]
         /\ \A y \in Bufs \ {b[p]} : buf'[y] = buf[y]
         /\ buf'[b[p]].valid /\ ~buf'[b[p]].dirty
         /\ buf'[b[p]].data = IF buf[b[p]].dirty THEN buf[b[p]].data
                              ELSE disk[buf[b[p]].blockno]
<1>1. b[p] \in Bufs
  BY HasBuffer DEF memiderw, Goto
<1>2. buf[b[p]].blockno \in Blocks
  BY DEF memiderw, Goto, Wanted, Locked
<1> DEFINE x == buf[b[p]]
           d == disk[x.blockno]
           r == [x EXCEPT !.dirty = FALSE, !.valid = TRUE,
                          !.data = IF x.dirty THEN x.data ELSE d]
<1>3. x \in Buffer /\ d \in AnyData
  BY <1>1, <1>2 DEF TypeOK
<1>4. buf' = [buf EXCEPT ![b[p]] = r]
  BY DEF memiderw
<1>5. disk' \in [Blocks -> AnyData]
  BY <1>2, <1>3 DEF memiderw, TypeOK, Buffer
<1> HIDE DEF d
<1>6. r \in Buffer
  BY <1>3, Zenon DEF Buffer
<1>7. /\ r.blockno = x.blockno /\ r.refcnt = x.refcnt /\ r.lock = x.lock
      /\ r.valid /\ ~r.dirty /\ r.data = IF x.dirty THEN x.data ELSE d
  BY <1>3 DEF Buffer
<1> HIDE DEF r
<1> QED BY <1>1, <1>4, <1>5, <1>6, <1>7 DEF TypeOK, Kept, d

\* And the interrupt handler.
LEMMA IdeintrKeeps ==
  ASSUME TypeOK, Requests, ideintr
  PROVE  /\ buf' \in [Bufs -> Buffer] /\ Kept /\ disk' \in [Blocks -> AnyData]
         /\ \A y \in Bufs \ {idequeue[1]} : buf'[y] = buf[y]
         /\ buf'[idequeue[1]].valid /\ ~buf'[idequeue[1]].dirty
         /\ buf'[idequeue[1]].data = IF buf[idequeue[1]].dirty
                                     THEN buf[idequeue[1]].data
                                     ELSE disk[active.blockno]
<1>1. idequeue[1] \in Bufs /\ Head(idequeue) = idequeue[1]
  BY DEF ideintr, TypeOK
<1> DEFINE x == idequeue[1]
           d == disk[active.blockno]
           r == [buf[x] EXCEPT !.valid = TRUE, !.dirty = FALSE,
                   !.data = IF buf[x].dirty THEN buf[x].data ELSE d]
<1>2. active.blockno \in Blocks
  BY DEF ideintr, Requests
<1>3. buf[x] \in Buffer /\ d \in AnyData
  BY <1>1, <1>2 DEF TypeOK
<1>4. buf' = [buf EXCEPT ![x] = r]
  BY <1>1 DEF ideintr, Complete
<1>5. disk' \in [Blocks -> AnyData]
  BY <1>2 DEF ideintr, Complete, TypeOK, Command
<1> HIDE DEF d
<1>6. r \in Buffer
  BY <1>3, Zenon DEF Buffer
<1>7. /\ r.blockno = buf[x].blockno /\ r.refcnt = buf[x].refcnt
      /\ r.lock = buf[x].lock /\ r.valid /\ ~r.dirty
      /\ r.data = IF buf[x].dirty THEN buf[x].data ELSE d
  BY <1>3 DEF Buffer
<1> HIDE DEF r, x
<1> QED BY <1>1, <1>4, <1>5, <1>6, <1>7 DEF TypeOK, Kept, x, d

\* The first scan and the end of brelse only change the reference count.
LEMMA RefEffect ==
  ASSUME TypeOK, NEW x \in Bufs, NEW n \in Nat, buf' = [buf EXCEPT ![x].refcnt = n]
  PROVE  /\ buf' \in [Bufs -> Buffer]
         /\ \A y \in Bufs : /\ buf'[y].blockno = buf[y].blockno
                            /\ buf'[y].lock = buf[y].lock
                            /\ buf'[y].valid = buf[y].valid
                            /\ buf'[y].dirty = buf[y].dirty
                            /\ buf'[y].data = buf[y].data
                            /\ y # x => buf'[y].refcnt = buf[y].refcnt
         /\ buf'[x].refcnt = n
<1> DEFINE r == [buf[x] EXCEPT !.refcnt = n]
<1>1. buf[x] \in Buffer
  BY DEF TypeOK
<1>2. r \in Buffer
  BY <1>1 DEF Buffer
<1>3. /\ r.blockno = buf[x].blockno /\ r.lock = buf[x].lock /\ r.valid = buf[x].valid
      /\ r.dirty = buf[x].dirty /\ r.data = buf[x].data /\ r.refcnt = n
  BY <1>1 DEF Buffer
<1>4. buf' = [buf EXCEPT ![x] = r]
  OBVIOUS
<1> HIDE DEF r
<1> QED BY <1>2, <1>3, <1>4 DEF TypeOK

\* The second scan gives the victim a new identity.
LEMMA RecycleEffect ==
  ASSUME TypeOK, NEW x \in Bufs, NEW k \in Blocks,
         buf' = [buf EXCEPT ![x] = Recycled(x, k)]
  PROVE  /\ buf' \in [Bufs -> Buffer]
         /\ \A y \in Bufs \ {x} : buf'[y] = buf[y]
         /\ buf'[x].blockno = k /\ buf'[x].refcnt = 1 /\ buf'[x].lock = buf[x].lock
         /\ ~buf'[x].valid /\ ~buf'[x].dirty
<1> DEFINE r == Recycled(x, k)
<1>1. buf[x] \in Buffer
  BY DEF TypeOK
<1>2. r \in Buffer
  BY <1>1, Zenon DEF Buffer, AnyData, Recycled
<1>3. /\ r.blockno = k /\ r.refcnt = 1 /\ r.lock = buf[x].lock
      /\ ~r.valid /\ ~r.dirty
  BY <1>1 DEF Buffer, Recycled
<1>4. buf' = [buf EXCEPT ![x] = r]
  OBVIOUS
<1> HIDE DEF r
<1> QED BY <1>2, <1>3, <1>4 DEF TypeOK

\* The sleep-lock changes hands without a change to the rest of the buffer.
LEMMA LockEffect ==
  ASSUME TypeOK, NEW x \in Bufs, NEW q \in Procs \cup {NoProc},
         buf' = [buf EXCEPT ![x].lock = q]
  PROVE  /\ buf' \in [Bufs -> Buffer]
         /\ \A y \in Bufs : /\ buf'[y].blockno = buf[y].blockno
                            /\ buf'[y].refcnt = buf[y].refcnt
                            /\ buf'[y].valid = buf[y].valid
                            /\ buf'[y].dirty = buf[y].dirty
                            /\ buf'[y].data = buf[y].data
                            /\ y # x => buf'[y].lock = buf[y].lock
         /\ buf'[x].lock = q
<1> DEFINE r == [buf[x] EXCEPT !.lock = q]
<1>1. buf[x] \in Buffer
  BY DEF TypeOK
<1>2. r \in Buffer
  BY <1>1 DEF Buffer
<1>3. /\ r.blockno = buf[x].blockno /\ r.refcnt = buf[x].refcnt /\ r.valid = buf[x].valid
      /\ r.dirty = buf[x].dirty /\ r.data = buf[x].data /\ r.lock = q
  BY <1>1 DEF Buffer
<1>4. buf' = [buf EXCEPT ![x] = r]
  OBVIOUS
<1> HIDE DEF r
<1> QED BY <1>2, <1>3, <1>4 DEF TypeOK

\* Finite, as the set of all processes is.
LEMMA UsersFinite == ASSUME NEW x PROVE IsFiniteSet(Users(x))
BY BioAssumption, FS_Subset DEF Users

\* Starting the disk on a buffer that carries a block is a command for a block.
LEMMA Started ==
  ASSUME TypeOK, NEW x \in Bufs, buf[x].blockno \in Blocks
  PROVE  idestart(x) \in Command /\ idestart(x).blockno \in Blocks
<1>1. buf[x] \in Buffer
  BY DEF TypeOK
<1>2. CASE buf[x].dirty
  BY <1>1, <1>2 DEF Buffer, Command, idestart
<1>3. CASE ~buf[x].dirty
  BY <1>3 DEF Command, idestart, AnyData
<1> QED BY <1>2, <1>3

\* The interrupt handler keeps the invariant: it changes no buffer's identity.
LEMMA IdeintrInv == Inv /\ ideintr => Inv'
<1> SUFFICES ASSUME Inv, ideintr PROVE Inv'
  OBVIOUS
<1> USE DEF Inv
<1>1. buf' \in [Bufs -> Buffer] /\ Kept /\ disk' \in [Blocks -> AnyData]
  BY IdeintrKeeps
<1>2. UNCHANGED <<pc, want, b>> /\ idequeue' = Tail(idequeue) /\ idequeue # <<>>
  BY DEF ideintr, Complete, Dequeued
<1>3. /\ idequeue' \in Seq(Bufs)
      /\ \A i \in DOMAIN idequeue' :
           i + 1 \in DOMAIN idequeue /\ idequeue'[i] = idequeue[i + 1]
  BY <1>2 DEF TypeOK
<1>4. \A i \in DOMAIN idequeue' : /\ idequeue'[i] \in Bufs
                                  /\ buf[idequeue'[i]].blockno \in Blocks
  BY <1>3 DEF Requests, TypeOK
<1>5. active' \in Command /\ (active' # Idle => active'.blockno \in Blocks)
  <2>1. CASE idequeue' = <<>>
    BY <2>1, <1>2 DEF ideintr, Idle, Command, AnyData, Dequeued
  <2>2. CASE idequeue' # <<>>
    <3>1. 1 \in DOMAIN idequeue' /\ Head(idequeue') = idequeue'[1]
      BY <2>2, <1>3
    <3>2. active' = idestart(idequeue'[1])
      BY <2>2, <1>2, <3>1 DEF ideintr, Dequeued
    <3> QED BY <3>1, <3>2, <1>4, Started
  <2> QED BY <2>1, <2>2
<1>6. TypeOK'
  BY <1>1, <1>2, <1>3, <1>5 DEF TypeOK
<1>7. RefCounted'
  BY <1>1, <1>2, Zenon DEF RefCounted, Users, Kept
<1>8. LockHeld' /\ OneBufferPerBlock'
  BY <1>1, <1>2 DEF LockHeld, OneBufferPerBlock, Kept
<1>9. Wanted' /\ Loaded'
  BY <1>1, <1>2, HasBuffer DEF Wanted, Loaded, Kept, Locked
<1>10. Requests'
  BY <1>1, <1>4, <1>5 DEF Requests, Kept
<1> QED BY <1>6, <1>7, <1>8, <1>9, <1>10

\* Nothing of the invariant but the types depends on the data in a buffer.
LEMMA KeptInv ==
  ASSUME Inv, TypeOK', Kept, UNCHANGED <<want, b, idequeue, active>>,
         NEW p \in Procs, pc[p] \in Locked, NEW to \in Locked,
         pc' = [pc EXCEPT ![p] = to], to = "holding" => buf'[b[p]].valid
  PROVE  Inv'
<1> USE DEF Inv, Locked
<1>1. RefCounted'
  BY DEF RefCounted, Users, Kept, TypeOK
<1>2. LockHeld'
  BY DEF LockHeld, Kept, TypeOK
<1>6. OneBufferPerBlock'
  BY DEF OneBufferPerBlock, Kept
<1>3. Wanted'
  BY HasBuffer DEF Wanted, Kept, TypeOK
<1>4. Loaded'
  BY HasBuffer DEF Loaded, Kept, TypeOK
<1>5. Requests'
  BY DEF Requests, Kept, TypeOK
<1> QED BY <1>1, <1>2, <1>3, <1>4, <1>5, <1>6

\* What a caller does keeps the invariant.
LEMMA CallerInv == ASSUME Inv, NEW p \in Procs, Caller(p) PROVE Inv'
<1> USE DEF Inv, Goto
<1>1. CASE bread(p)
  <2>1. PICK k \in Blocks : want' = [want EXCEPT ![p] = k]
    BY <1>1, Zenon DEF bread
  <2>2. b[p] = NoBuf /\ UNCHANGED <<buf, idequeue, active, disk, b>>
    BY <1>1 DEF bread, RefCounted
  <2>3. TypeOK'
    BY <1>1, <2>1, <2>2 DEF bread, TypeOK
  <2>4. RefCounted'
    BY <1>1, <2>2 DEF bread, TypeOK, RefCounted, Users
  <2>5. LockHeld' /\ Loaded'
    BY <1>1, <2>2 DEF bread, TypeOK, LockHeld, Loaded, Locked
  <2>6. Wanted'
    BY <1>1, <2>1, <2>2 DEF bread, TypeOK, Wanted, Locked
  <2>7. OneBufferPerBlock' /\ Requests'
    BY <2>2 DEF OneBufferPerBlock, Requests
  <2> QED BY <2>3, <2>4, <2>5, <2>6, <2>7
<1>2. CASE bwrite(p)
  <2>1. buf' \in [Bufs -> Buffer] /\ Kept
    BY <1>2, WriteKeeps
  <2>2. TypeOK'
    BY <1>2, <2>1 DEF bwrite, TypeOK
  <2> QED BY <1>2, <2>1, <2>2, KeptInv, Zenon DEF bwrite, Locked
<1>3. CASE log_write(p)
  <2>1. buf' \in [Bufs -> Buffer] /\ Kept
    BY <1>3, WriteKeeps
  <2>2. TypeOK'
    BY <1>3, <2>1 DEF log_write, TypeOK
  <2>3. pc' = [pc EXCEPT ![p] = "holding"] /\ buf'[b[p]].valid
    <3>1. pc' = pc /\ pc[p] = "holding"  BY <1>3 DEF log_write
    <3>2. pc' = [pc EXCEPT ![p] = "holding"]  BY <3>1 DEF TypeOK
    <3>3. b[p] \in Bufs  BY <3>1, HasBuffer
    <3>4. buf'[b[p]].valid  BY <2>1, <3>1, <3>3 DEF Loaded, Kept
    <3> QED  BY <3>2, <3>4
  <2> QED BY <1>3, <2>1, <2>2, <2>3, KeptInv, Zenon DEF log_write, Locked
<1>4. CASE install_trans(p)
  <2>1. TypeOK' /\ Kept
    BY <1>4 DEF install_trans, TypeOK, Kept
  <2> QED BY <1>4, <2>1, KeptInv, Zenon DEF install_trans, Locked
<1>5. CASE brelse(p)
  <2>1. b[p] \in Bufs
    BY <1>5, HasBuffer DEF brelse
  <2>2. /\ buf' \in [Bufs -> Buffer]
        /\ \A y \in Bufs : /\ buf'[y].blockno = buf[y].blockno
                           /\ buf'[y].refcnt = buf[y].refcnt
                           /\ buf'[y].valid = buf[y].valid
                           /\ y # b[p] => buf'[y].lock = buf[y].lock
        /\ buf'[b[p]].lock = NoProc
    <3>1. buf' = [buf EXCEPT ![b[p]].lock = NoProc]
      BY <1>5 DEF brelse
    <3>2. TypeOK /\ p \in Procs \cup {NoProc} /\ NoProc \in Procs \cup {NoProc}
      OBVIOUS
    <3> HIDE DEF Inv
    <3> QED BY <2>1, <3>1, <3>2, LockEffect, ZenonT(40)
  <2>3. TypeOK'
    BY <1>5, <2>2 DEF brelse, TypeOK
  <2>4. RefCounted'
    BY <1>5, <2>2 DEF brelse, TypeOK, RefCounted, Users
  <2>5. LockHeld'
    <3>1. buf[b[p]].lock = p
      BY <1>5, <2>1 DEF brelse, LockHeld, Locked
    <3> QED BY <1>5, <2>1, <2>2, <3>1, BioAssumption DEF brelse, TypeOK, LockHeld, Locked
  <2>6. Wanted' /\ Loaded'
    BY <1>5, <2>2, HasBuffer DEF brelse, TypeOK, Wanted, Loaded, Locked
  <2>7. OneBufferPerBlock' /\ Requests'
    BY <1>5, <2>2 DEF brelse, TypeOK, OneBufferPerBlock, Requests
  <2> QED BY <2>3, <2>4, <2>5, <2>6, <2>7
<1> QED BY <1>1, <1>2, <1>3, <1>4, <1>5 DEF Caller

\* The first scan of bget keeps the invariant: one more reference, one more user.
LEMMA HitInv == ASSUME Inv, NEW p \in Procs, bgetHit(p) PROVE Inv'
<1> USE DEF Inv, Goto
<1>1. PICK x \in Cached(want[p]) : /\ buf' = [buf EXCEPT ![x].refcnt = @ + 1]
                                  /\ b' = [b EXCEPT ![p] = x]
  BY Zenon DEF bgetHit
<1>2. x \in Bufs /\ buf[x].blockno = want[p] /\ want[p] \in Blocks /\ b[p] = NoBuf
  BY DEF Cached, bgetHit, Wanted, RefCounted
<1>3. /\ buf' \in [Bufs -> Buffer]
      /\ \A y \in Bufs : /\ buf'[y].blockno = buf[y].blockno
                         /\ buf'[y].lock = buf[y].lock
                         /\ buf'[y].valid = buf[y].valid
                         /\ y # x => buf'[y].refcnt = buf[y].refcnt
      /\ buf'[x].refcnt = buf[x].refcnt + 1
  <2>1. buf[x].refcnt + 1 \in Nat
    BY <1>2 DEF TypeOK, Buffer
  <2> QED BY <1>1, <1>2, <2>1, RefEffect, Zenon
<1>4. TypeOK'
  BY <1>1, <1>2, <1>3 DEF bgetHit, TypeOK
<1>5. RefCounted'
  <2>1. Users(x)' = Users(x) \cup {p} /\ p \notin Users(x)
    BY <1>1, <1>2, BioAssumption DEF Users, TypeOK
  <2>2. \A y \in Bufs \ {x} : Users(y)' = Users(y)
    BY <1>1, <1>2, BioAssumption DEF Users, TypeOK
  <2>3. Cardinality(Users(x)') = Cardinality(Users(x)) + 1
    BY <2>1, UsersFinite, FS_AddElement, Zenon
  <2>4. \A y \in Bufs : buf'[y].refcnt = Cardinality(Users(y)')
    BY <1>2, <1>3, <2>2, <2>3 DEF RefCounted
  <2>5. \A q \in Procs : b'[q] = NoBuf <=> pc'[q] \in {"idle", "bget", "panic"}
    BY <1>1, <1>2, BioAssumption DEF bgetHit, TypeOK, RefCounted
  <2> QED BY <2>4, <2>5 DEF RefCounted
<1>6. LockHeld'
  BY <1>1, <1>2, <1>3, BioAssumption DEF bgetHit, TypeOK, LockHeld, Locked
<1>7. Wanted' /\ Loaded'
  BY <1>1, <1>2, <1>3, HasBuffer DEF bgetHit, TypeOK, Wanted, Loaded, Locked
<1>8. OneBufferPerBlock' /\ Requests'
  BY <1>3 DEF bgetHit, TypeOK, OneBufferPerBlock, Requests
<1> QED BY <1>4, <1>5, <1>6, <1>7, <1>8

\* The second scan keeps it: nobody uses the victim, no buffer has the block.
LEMMA MissInv == ASSUME Inv, NEW p \in Procs, bgetMiss(p) PROVE Inv'
<1> USE DEF Inv, Goto
<1>0. pc[p] = "bget" /\ b[p] = NoBuf /\ want[p] \in Blocks
  BY DEF bgetMiss, Wanted, RefCounted
<1>1. CASE Recycle(p) /\ pc' = [pc EXCEPT ![p] = "acquiresleep"]
  <2>1. PICK x \in Bufs :
          /\ Victim(x)
          /\ buf' = [buf EXCEPT ![x] = Recycled(x, want[p])]
          /\ b' = [b EXCEPT ![p] = x]
    BY <1>1, Zenon DEF Recycle
  <2>2. Users(x) = {}
    BY <2>1, UsersFinite, FS_EmptySet DEF RefCounted, Victim
  <2>3. /\ buf' \in [Bufs -> Buffer]
        /\ \A y \in Bufs \ {x} : buf'[y] = buf[y]
        /\ buf'[x].blockno = want[p] /\ buf'[x].refcnt = 1
        /\ buf'[x].lock = buf[x].lock
    BY <1>0, <2>1, RecycleEffect, Zenon
  <2>4. TypeOK'
    BY <1>1, <2>1, <2>3 DEF bgetMiss, TypeOK
  <2>5. RefCounted'
    <3>1. Users(x)' = {p}
      BY <2>1, <2>2 DEF Users, TypeOK
    <3>2. \A y \in Bufs \ {x} : Users(y)' = Users(y)
      BY <2>1, <1>0, BioAssumption DEF Users, TypeOK
    <3>3. Cardinality(Users(x)') = 1
      BY <3>1, FS_Singleton
    <3>4. \A y \in Bufs : buf'[y].refcnt = Cardinality(Users(y)')
      BY <2>3, <3>2, <3>3 DEF RefCounted
    <3>5. \A q \in Procs : b'[q] = NoBuf <=> pc'[q] \in {"idle", "bget", "panic"}
      BY <1>0, <1>1, <2>1, BioAssumption DEF TypeOK, RefCounted
    <3> QED BY <3>4, <3>5 DEF RefCounted
  <2>6. \A q \in Procs : b[q] # x
    BY <2>2 DEF Users
  <2>7. LockHeld'
    <3>1. \A q \in Procs : buf[x].lock # q
      BY <2>6 DEF LockHeld
    <3>2. \A y \in Bufs : buf'[y].lock = buf[y].lock
      BY <2>3
    <3> QED BY <1>0, <1>1, <2>1, <2>6, <3>1, <3>2 DEF TypeOK, LockHeld, Locked
  <2>8. Wanted' /\ Loaded'
    BY <1>0, <1>1, <2>1, <2>3, <2>6, HasBuffer DEF bgetMiss, TypeOK, Wanted, Loaded, Locked
  <2>9. OneBufferPerBlock'
    <3>1. \A y \in Bufs : buf[y].blockno # want[p]
      BY DEF bgetMiss, Cached
    <3> QED BY <2>3, <3>1 DEF OneBufferPerBlock
  <2>10. Requests'
    BY <1>0, <2>3 DEF bgetMiss, TypeOK, Requests
  <2> QED BY <2>4, <2>5, <2>7, <2>8, <2>9, <2>10
<1>2. CASE pc' = [pc EXCEPT ![p] = "panic"] /\ UNCHANGED <<buf, b>>
  <2>1. pc[p] = "bget" /\ UNCHANGED <<buf, b, want, idequeue, active, disk>>
    BY <1>2 DEF bgetMiss
  <2>2. TypeOK' /\ RefCounted'
    BY <1>2, <2>1 DEF TypeOK, RefCounted, Users
  <2>3. LockHeld' /\ Wanted' /\ Loaded'
    BY <1>2, <2>1 DEF TypeOK, LockHeld, Wanted, Loaded, Locked
  <2>4. OneBufferPerBlock' /\ Requests'
    BY <2>1 DEF OneBufferPerBlock, Requests
  <2> QED BY <2>2, <2>3, <2>4
<1> QED BY <1>1, <1>2 DEF bgetMiss

\* The rest of bget, the transfers and the end of brelse keep it.
LEMMA KernelInv == ASSUME Inv, NEW p \in Procs, Kernel(p) PROVE Inv'
<1> USE DEF Inv, Goto
<1>1. CASE acquiresleep(p)
  <2>1. b[p] \in Bufs
    BY <1>1, HasBuffer DEF acquiresleep
  <2>2. /\ buf' \in [Bufs -> Buffer]
        /\ \A y \in Bufs : /\ buf'[y].blockno = buf[y].blockno
                           /\ buf'[y].refcnt = buf[y].refcnt
                           /\ buf'[y].valid = buf[y].valid
                           /\ y # b[p] => buf'[y].lock = buf[y].lock
        /\ buf'[b[p]].lock = p
    <3>1. buf' = [buf EXCEPT ![b[p]].lock = p]
      BY <1>1 DEF acquiresleep
    <3>2. TypeOK /\ p \in Procs \cup {NoProc} /\ NoProc \in Procs \cup {NoProc}
      OBVIOUS
    <3> HIDE DEF Inv
    <3> QED BY <2>1, <3>1, <3>2, LockEffect, ZenonT(40)
  <2>0. TypeOK'
    BY <1>1, <2>2 DEF acquiresleep, TypeOK
  <2>3. RefCounted'
    BY <1>1, <2>2 DEF acquiresleep, TypeOK, RefCounted, Users
  <2>4. LockHeld'
    BY <1>1, <2>1, <2>2, BioAssumption DEF acquiresleep, TypeOK, LockHeld, Locked
  <2>5. Wanted' /\ Loaded'
    BY <1>1, <2>2, HasBuffer DEF acquiresleep, TypeOK, Wanted, Loaded, Locked
  <2>6. OneBufferPerBlock' /\ Requests'
    BY <1>1, <2>2 DEF acquiresleep, TypeOK, OneBufferPerBlock, Requests
  <2> QED BY <2>0, <2>3, <2>4, <2>5, <2>6
<1>2. CASE iderw(p)
  <2>1. b[p] \in Bufs /\ buf[b[p]].blockno \in Blocks
    BY <1>2, HasBuffer DEF iderw, Wanted, Locked
  <2>2. active' \in Command /\ (active' # Idle => active'.blockno \in Blocks)
    BY <1>2, <2>1, Started DEF iderw, TypeOK, Requests
  <2>3. /\ idequeue' \in Seq(Bufs)
        /\ \A i \in DOMAIN idequeue' : i \in DOMAIN idequeue \/ idequeue'[i] = b[p]
        /\ \A i \in DOMAIN idequeue : idequeue'[i] = idequeue[i]
    BY <1>2, <2>1 DEF iderw, TypeOK
  <2>4. UNCHANGED <<buf, disk, want, b>> /\ pc' = [pc EXCEPT ![p] = "iosleep"]
        /\ pc[p] = "iderw"
    BY <1>2 DEF iderw
  <2>5. TypeOK' /\ RefCounted'
    BY <2>2, <2>3, <2>4, Zenon DEF TypeOK, RefCounted, Users
  <2>6. LockHeld' /\ Wanted' /\ Loaded'
    BY <2>4 DEF TypeOK, LockHeld, Wanted, Loaded, Locked
  <2>7. OneBufferPerBlock' /\ Requests'
    BY <2>1, <2>2, <2>3, <2>4 DEF OneBufferPerBlock, Requests
  <2> QED BY <2>5, <2>6, <2>7
<1>3. CASE iderwDone(p)
  <2>1. TypeOK' /\ Kept
    BY <1>3 DEF iderwDone, TypeOK, Kept
  <2> QED BY <1>3, <2>1, KeptInv, Zenon DEF iderwDone, Locked
<1>4. CASE memiderw(p)
  <2>1. /\ buf' \in [Bufs -> Buffer] /\ Kept /\ disk' \in [Blocks -> AnyData]
        /\ buf'[b[p]].valid
    BY <1>4, MemideKeeps
  <2>2. TypeOK'
    BY <1>4, <2>1 DEF memiderw, TypeOK
  <2> QED BY <1>4, <2>1, <2>2, KeptInv, Zenon DEF memiderw, Locked
<1>5. CASE brelseList(p)
  <2>1. PICK x \in Bufs : x = b[p] /\ p \in Users(x) /\ buf[x].refcnt \in Nat \ {0}
    BY <1>5, HasBuffer DEF brelseList
  <2>2. /\ buf' \in [Bufs -> Buffer]
        /\ \A y \in Bufs : /\ buf'[y].blockno = buf[y].blockno
                           /\ buf'[y].lock = buf[y].lock
                           /\ buf'[y].valid = buf[y].valid
                           /\ y # x => buf'[y].refcnt = buf[y].refcnt
        /\ buf'[x].refcnt = buf[x].refcnt - 1
    <3>1. buf[x].refcnt - 1 \in Nat
      BY <2>1
    <3>2. buf' = [buf EXCEPT ![x].refcnt = buf[x].refcnt - 1]
      BY <1>5, <2>1 DEF brelseList
    <3> QED BY <3>1, <3>2, RefEffect, Zenon
  <2>3. TypeOK'
    BY <1>5, <2>2 DEF brelseList, TypeOK
  <2>4. RefCounted'
    <3>1. Users(x)' = Users(x) \ {p}
      BY <1>5, <2>1, BioAssumption DEF brelseList, Users, TypeOK
    <3>2. \A y \in Bufs \ {x} : Users(y)' = Users(y)
      BY <1>5, <2>1, BioAssumption DEF brelseList, Users, TypeOK
    <3>3. Cardinality(Users(x)') = Cardinality(Users(x)) - 1
      <4>1. IsFiniteSet(Users(x)) /\ p \in Users(x)
        BY <2>1, UsersFinite
      <4> QED BY <3>1, <4>1, FS_RemoveElement, Zenon
    <3>4. \A y \in Bufs : buf'[y].refcnt = Cardinality(Users(y)')
      BY <2>2, <3>2, <3>3 DEF RefCounted
    <3>5. \A q \in Procs : b'[q] = NoBuf <=> pc'[q] \in {"idle", "bget", "panic"}
      BY <1>5, BioAssumption DEF brelseList, TypeOK, RefCounted
    <3> QED BY <3>4, <3>5 DEF RefCounted
  <2>5. LockHeld'
    BY <1>5, <2>2, BioAssumption DEF brelseList, TypeOK, LockHeld, Locked
  <2>6. Wanted' /\ Loaded'
    BY <1>5, <2>2, HasBuffer DEF brelseList, TypeOK, Wanted, Loaded, Locked
  <2>7. OneBufferPerBlock' /\ Requests'
    BY <1>5, <2>2 DEF brelseList, TypeOK, OneBufferPerBlock, Requests
  <2> QED BY <2>3, <2>4, <2>5, <2>6, <2>7
<1> QED BY <1>1, <1>2, <1>3, <1>4, <1>5, HitInv, MissInv DEF Kernel

\* Inv is inductive: no caller, kernel step or disk interrupt breaks it.
LEMMA InvStep == Inv /\ [Next]_vars => Inv'
<1> SUFFICES ASSUME Inv, [Next]_vars PROVE Inv'
  OBVIOUS
<1>1. CASE UNCHANGED vars
  <2>1. TypeOK' /\ RefCounted'
    BY <1>1 DEF vars, Inv, TypeOK, RefCounted, Users
  <2>2. LockHeld' /\ Wanted' /\ Loaded'
    BY <1>1 DEF vars, Inv, LockHeld, Wanted, Loaded
  <2>3. OneBufferPerBlock' /\ Requests'
    BY <1>1 DEF vars, Inv, OneBufferPerBlock, Requests
  <2> QED BY <2>1, <2>2, <2>3 DEF Inv
<1>2. CASE Next
  BY <1>2, IdeintrInv, CallerInv, KernelInv DEF Next
<1> QED BY <1>1, <1>2

\* The inductive invariant of the buffer cache holds throughout.
THEOREM InvSafe == Spec => []Inv
BY InitInv, InvStep, PTL DEF Spec
-----------------------------------------------------------------------------
\* bread returns the block that was asked for, locked and read, whatever
\* other processes had the cache recycle while the caller waited.
THEOREM BreadSafe == Spec => []BreadReturns
<1>1. Inv => BreadReturns
  <2> SUFFICES ASSUME Inv, NEW p \in Procs, pc[p] = "holding"
               PROVE  /\ b[p] \in Bufs /\ buf[b[p]].blockno = want[p]
                      /\ buf[b[p]].valid /\ buf[b[p]].lock = p
    BY DEF BreadReturns
  <2>1. b[p] \in Bufs
    BY HasBuffer DEF Inv
  <2> QED BY <2>1 DEF Inv, Wanted, Loaded, LockHeld, Locked
<1> QED BY <1>1, InvSafe, PTL

\* Two buffers with one block would be one buffer, and that has one holder.
LEMMA ExclusiveLemma == Inv => BlockExclusive
<1> SUFFICES ASSUME Inv, NEW p \in Procs, NEW q \in Procs, pc[p] \in Locked,
                    pc[q] \in Locked, want[p] = want[q]
             PROVE  p = q
  BY DEF BlockExclusive
<1>1. b[p] \in Bufs /\ b[q] \in Bufs
  BY HasBuffer DEF Inv, Locked
<1>2. b[p] = b[q]
  BY <1>1, BioAssumption DEF Inv, Wanted, OneBufferPerBlock
<1> QED BY <1>1, <1>2 DEF Inv, LockHeld

\* No two processes have one block, through one buffer or through two.
THEOREM ExclusiveSafe == Spec => []BlockExclusive
BY ExclusiveLemma, InvSafe, PTL
=============================================================================
