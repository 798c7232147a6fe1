--------------------------------- MODULE Inode ---------------------------------
(***************************************************************************)
(* The contents of files: the block bitmap, the direct and indirect blocks  *)
(* of an inode, readi, writei and itrunc of fs.c, under the reads and writes *)
(* that file.c makes through shared struct files, on a disk that mkfs.c has *)
(* written.  The directory layer above is module Fs, the log below is Log.  *)
(***************************************************************************)
EXTENDS Integers, Sequences, FiniteSets, FiniteSetsExt, SequencesExt

CONSTANTS Procs, Files,    \* processes, entries of ftable
          Inodes,          \* inode numbers from 1; 1 is the root directory
          Blocks,          \* data blocks, nmeta .. FSSIZE-1
          BSIZE, NDIRECT, NINDIRECT, MAXOPBLOCKS,
          Sizes,           \* lengths of reads and writes
          Entries,         \* how many files the root directory may hold at first
          MaxCalls         \* bound on the number of calls

MAXFILE == NDIRECT + NINDIRECT
MAXBYTES == MAXFILE * BSIZE

\* The block of the bitmap and the block of the inodes; the bytes that mkfs writes.
BITMAP == 0
INODES == 1
ENTRY == 1
BYTE == 2

VARIABLES
  bitmap,    \* the blocks marked in use
  disk,      \* contents of the blocks: bytes, or block numbers
  dinode,    \* size and addrs of the inodes on disk
  inode,     \* the same in the inode cache, with the holder of ip->lock
  file,      \* ip and off of each struct file
  fd,        \* the struct file that each process has open, or 0
  k,         \* the call in progress and its local variables
  content,   \* history: the bytes of each file
  calls      \* calls so far

vars == <<bitmap, disk, dinode, inode, file, fd, k, content, calls>>

Zero == [j \in 0 .. Max({BSIZE, NINDIRECT}) - 1 |-> 0]
Empty == [size |-> 0, addrs |-> [n \in 0 .. NDIRECT |-> 0]]
Idle == [pc |-> "user", off |-> 0, n |-> 0, tot |-> 0, todo |-> 0, got |-> <<>>, logged |-> {}]
-----------------------------------------------------------------------------
\* mkfs: iappend of one byte, on an image with its next free block.
iappend(img, i, byte) ==
  LET din == img.inode[i]
      fbn == din.size \div BSIZE
      direct == fbn < NDIRECT
      ind == IF din.addrs[NDIRECT] = 0 /\ ~direct THEN img.free ELSE din.addrs[NDIRECT]
      free1 == IF ind # din.addrs[NDIRECT] THEN img.free + 1 ELSE img.free
      old == IF direct THEN din.addrs[fbn] ELSE img.disk[ind][fbn - NDIRECT]
      x == IF old = 0 THEN free1 ELSE old IN
  [free |-> IF old = 0 THEN free1 + 1 ELSE free1,
   disk |-> IF direct THEN [img.disk EXCEPT ![x][din.size % BSIZE] = byte]
            ELSE [img.disk EXCEPT ![x][din.size % BSIZE] = byte, ![ind][fbn - NDIRECT] = x],
   inode |-> [img.inode EXCEPT ![i] =
     [size |-> din.size + 1,
      addrs |-> IF direct THEN [din.addrs EXCEPT ![fbn] = x]
                ELSE [din.addrs EXCEPT ![NDIRECT] = ind]]]]

\* The root directory with n entries of one byte each, a file of bytes, and the
\* last step: the size of the root directory made a multiple of BSIZE.
mkfs(n, bytes) ==
  LET img0 == [free |-> Min(Blocks), disk |-> [b \in Blocks |-> Zero],
               inode |-> [i \in Inodes |-> Empty]]
      img1 == FoldSeq(LAMBDA b, img : iappend(img, 1, b), img0, [j \in 1 .. n |-> ENTRY])
      img2 == FoldSeq(LAMBDA b, img : iappend(img, 2, b), img1, bytes) IN
  [img2 EXCEPT !.inode[1].size = (@ \div BSIZE + 1) * BSIZE]

Locked(d, p) == [lock |-> p, size |-> d.size, addrs |-> d.addrs]

Init ==
  \E n \in Entries, len \in Sizes :
    LET bytes == [j \in 1 .. len |-> BYTE]
        img == mkfs(n, bytes)
        dir == [j \in 1 .. img.inode[1].size |-> IF j <= n THEN ENTRY ELSE 0] IN
    /\ bitmap = Min(Blocks) .. img.free - 1
    /\ disk = img.disk /\ dinode = img.inode
    /\ inode = [i \in Inodes |-> Locked(img.inode[i], 0)]
    /\ file = [f \in Files |-> [ip |-> 0, off |-> 0]]
    /\ fd = [p \in Procs |-> 0]
    /\ k = [p \in Procs |-> Idle]
    /\ content = [i \in Inodes |-> IF i = 1 THEN dir ELSE IF i = 2 THEN bytes ELSE <<>>]
    /\ calls = 0
-----------------------------------------------------------------------------
File(p) == file[fd[p]]
ip(p) == inode[File(p).ip]

Goto(p, r) == k' = [k EXCEPT ![p] = r]

Called(p) ==
  /\ k[p].pc = "user" /\ calls < MaxCalls
  /\ calls' = calls + 1
  /\ UNCHANGED <<bitmap, disk, dinode, content>>

\* sys_open: the first free struct file, offset 0; the inode is read from disk,
\* unless it is in the cache.
open(p) ==
  /\ Called(p) /\ fd[p] = 0
  /\ \E i \in Inodes, f \in Files :
       /\ f = Min(Files \ {fd[q] : q \in Procs})
       /\ inode[i].lock = 0
       /\ file' = [file EXCEPT ![f] = [ip |-> i, off |-> 0]]
       /\ fd' = [fd EXCEPT ![p] = f]
       /\ inode' = IF \E q \in Procs : fd[q] # 0 /\ File(q).ip = i THEN inode
                   ELSE [inode EXCEPT ![i] = Locked(dinode[i], 0)]
  /\ UNCHANGED k

\* A descriptor inherited over fork shares the struct file, and its offset.
inherit(p) ==
  /\ Called(p) /\ fd[p] = 0
  /\ \E q \in Procs : fd[q] # 0 /\ fd' = [fd EXCEPT ![p] = fd[q]]
  /\ UNCHANGED <<inode, file, k>>

close(p) ==
  /\ Called(p) /\ fd[p] # 0
  /\ fd' = [fd EXCEPT ![p] = 0]
  /\ UNCHANGED <<inode, file, k>>

\* sys_read and sys_write, of a file that is not the root directory for the
\* latter: open refuses to open a directory for writing.
fileread(p) ==
  /\ Called(p) /\ fd[p] # 0
  /\ \E n \in Sizes : Goto(p, [Idle EXCEPT !.pc = "ilock_read", !.n = n])
  /\ UNCHANGED <<inode, file, fd>>

filewrite(p) ==
  /\ Called(p) /\ fd[p] # 0 /\ File(p).ip # 1
  /\ \E n \in Sizes : Goto(p, [Idle EXCEPT !.pc = "ilock_write", !.todo = n])
  /\ UNCHANGED <<inode, file, fd>>

\* iput of an inode without links or references: itrunc begins.
remove(p) ==
  /\ Called(p) /\ fd[p] = 0
  /\ \E i \in Inodes \ {1} :
       /\ \A q \in Procs : fd[q] # 0 => file[fd[q]].ip # i
       /\ inode[i].lock = 0
       /\ inode' = [inode EXCEPT ![i] = Locked(dinode[i], p)]
       /\ Goto(p, [Idle EXCEPT !.pc = "itrunc", !.n = i])
  /\ UNCHANGED <<file, fd>>

\* ilock, and readi's adjustment of n to what the file has.
readi(p) ==
  LET size == ip(p).size   off == File(p).off IN
  /\ k[p].pc = "ilock_read" /\ ip(p).lock = 0
  /\ inode' = [inode EXCEPT ![File(p).ip].lock = p]
  /\ Goto(p, [k[p] EXCEPT !.pc = IF off > size THEN "iunlock" ELSE "read", !.off = off,
                          !.n = IF off + @ > size THEN size - off ELSE @])
  /\ UNCHANGED <<bitmap, disk, dinode, file, fd, content, calls>>

max == ((MAXOPBLOCKS - 1 - 1 - 2) \div 2) * BSIZE

ChunkAll(todo) == todo

Chunk(todo) == Min({todo, max})

\* One turn of filewrite's loop: a transaction for at most max bytes, which
\* writei refuses beyond the largest file.
writei(p) ==
  LET off == File(p).off   n1 == Chunk(k[p].todo) IN
  /\ k[p].pc = "ilock_write" /\ ip(p).lock = 0
  /\ inode' = [inode EXCEPT ![File(p).ip].lock = p]
  /\ Goto(p, IF off > ip(p).size \/ off + n1 > MAXBYTES
             THEN [k[p] EXCEPT !.pc = "iunlock", !.n = 0, !.todo = 0]
             ELSE [k[p] EXCEPT !.pc = "write", !.off = off, !.n = n1, !.tot = 0, !.logged = {}])
  /\ UNCHANGED <<bitmap, disk, dinode, file, fd, content, calls>>
-----------------------------------------------------------------------------
InLoop(p) == k[p].pc \in {"read", "write"} /\ k[p].tot < k[p].n
At(p) == k[p].off + k[p].tot
bn(p) == At(p) \div BSIZE

\* bmap's result, 0 where it has to allocate.
Indirect(p) == bn(p) >= NDIRECT
Addr(d, b) == IF b < NDIRECT THEN d.addrs[b]
              ELSE IF d.addrs[NDIRECT] = 0 THEN 0 ELSE disk[d.addrs[NDIRECT]][b - NDIRECT]

FreeBlock == Min(Blocks \ bitmap)

\* balloc: a free block, marked and zeroed.  (Without one the kernel panics.)
balloc == bitmap # Blocks /\ bitmap' = bitmap \cup {FreeBlock}

Logs(p, s) == Goto(p, [k[p] EXCEPT !.logged = @ \cup s])

bmapIndirect(p) ==
  /\ InLoop(p) /\ Indirect(p) /\ ip(p).addrs[NDIRECT] = 0
  /\ balloc
  /\ disk' = [disk EXCEPT ![FreeBlock] = Zero]
  /\ inode' = [inode EXCEPT ![File(p).ip].addrs[NDIRECT] = FreeBlock]
  /\ Logs(p, {BITMAP, FreeBlock})
  /\ UNCHANGED <<dinode, file, fd, content, calls>>

bmap(p) ==
  LET ind == ip(p).addrs[NDIRECT] IN
  /\ InLoop(p) /\ Addr(ip(p), bn(p)) = 0
  /\ Indirect(p) => ind # 0
  /\ balloc
  /\ IF Indirect(p)
     THEN /\ disk' = [disk EXCEPT ![FreeBlock] = Zero, ![ind][bn(p) - NDIRECT] = FreeBlock]
          /\ Logs(p, {BITMAP, FreeBlock, ind})
          /\ UNCHANGED inode
     ELSE /\ disk' = [disk EXCEPT ![FreeBlock] = Zero]
          /\ inode' = [inode EXCEPT ![File(p).ip].addrs[bn(p)] = FreeBlock]
          /\ Logs(p, {BITMAP, FreeBlock})
  /\ UNCHANGED <<dinode, file, fd, content, calls>>

mWholeBlock(p) == Min({k[p].n - k[p].tot, BSIZE})

\* The bytes of this turn that are in one block.
m(p) == Min({k[p].n - k[p].tot, BSIZE - (At(p) % BSIZE)})

readBlock(p) ==
  LET b == Addr(ip(p), bn(p)) IN
  /\ k[p].pc = "read" /\ InLoop(p) /\ b # 0
  /\ Goto(p, [k[p] EXCEPT !.tot = @ + m(p),
                !.got = @ \o [j \in 1 .. m(p) |-> disk[b][(At(p) % BSIZE) + j - 1]]])
  /\ UNCHANGED <<bitmap, disk, dinode, inode, file, fd, content, calls>>

writeBlock(p) ==
  LET b == Addr(ip(p), bn(p))   at == At(p)   i == File(p).ip IN
  /\ k[p].pc = "write" /\ InLoop(p) /\ b # 0
  /\ disk' = [disk EXCEPT ![b] = [j \in DOMAIN @ |->
                IF (at % BSIZE) <= j /\ j < (at % BSIZE) + m(p) THEN p ELSE @[j]]]
  /\ content' = [content EXCEPT ![i] = [j \in 1 .. Max({Len(@), at + m(p)}) |->
                IF at < j /\ j <= at + m(p) THEN p ELSE @[j]]]
  /\ Goto(p, [k[p] EXCEPT !.tot = @ + m(p), !.logged = @ \cup {b}])
  /\ UNCHANGED <<bitmap, dinode, inode, file, fd, calls>>

iupdate(i, d) == dinode' = [dinode EXCEPT ![i] = [size |-> d.size, addrs |-> d.addrs]]

NotGrown(p) == FALSE

Grown(p) == k[p].n > 0 /\ At(p) > ip(p).size

\* The end of writei: the new size goes to disk with the addresses.
writeDone(p) ==
  LET i == File(p).ip IN
  /\ k[p].pc = "write" /\ ~InLoop(p)
  /\ IF Grown(p)
     THEN /\ inode' = [inode EXCEPT ![i].size = At(p)]
          /\ iupdate(i, inode'[i])
          /\ Goto(p, [k[p] EXCEPT !.pc = "iunlock", !.logged = @ \cup {INODES}])
     ELSE UNCHANGED <<inode, dinode>> /\ Goto(p, [k[p] EXCEPT !.pc = "iunlock"])
  /\ UNCHANGED <<bitmap, disk, file, fd, content, calls>>

readDone(p) ==
  /\ k[p].pc = "read" /\ ~InLoop(p)
  /\ Goto(p, [k[p] EXCEPT !.pc = "iunlock"])
  /\ UNCHANGED <<bitmap, disk, dinode, inode, file, fd, content, calls>>

\* f->off += r, iunlock, end_op; and the next turn of filewrite.
iunlock(p) ==
  /\ k[p].pc = "iunlock"
  /\ file' = [file EXCEPT ![fd[p]].off = @ + k[p].tot]
  /\ inode' = [inode EXCEPT ![File(p).ip].lock = 0]
  /\ Goto(p, IF k[p].todo > k[p].tot
             THEN [Idle EXCEPT !.pc = "ilock_write", !.todo = k[p].todo - k[p].tot] ELSE Idle)
  /\ UNCHANGED <<bitmap, disk, dinode, fd, content, calls>>

\* itrunc: bfree of one block after another.
bfree(b) == b \in bitmap /\ bitmap' = bitmap \ {b}

Direct(i) == {n \in 0 .. NDIRECT - 1 : inode[i].addrs[n] # 0}

itruncDirect(p) ==
  LET i == k[p].n   n == Min(Direct(i)) IN
  /\ k[p].pc = "itrunc" /\ Direct(i) # {}
  /\ bfree(inode[i].addrs[n])
  /\ inode' = [inode EXCEPT ![i].addrs[n] = 0]
  /\ Logs(p, {BITMAP})
  /\ UNCHANGED <<disk, dinode, file, fd, content, calls>>

\* a[j] for j = tot, tot + 1, ...
itruncIndirect(p) ==
  LET i == k[p].n   b == disk[inode[i].addrs[NDIRECT]][k[p].tot] IN
  /\ k[p].pc = "itrunc" /\ Direct(i) = {} /\ inode[i].addrs[NDIRECT] # 0
  /\ k[p].tot < NINDIRECT
  /\ IF b # 0 THEN bfree(b) ELSE UNCHANGED bitmap
  /\ Goto(p, [k[p] EXCEPT !.tot = @ + 1, !.logged = @ \cup {BITMAP}])
  /\ UNCHANGED <<disk, dinode, inode, file, fd, content, calls>>

KeepIndirect(i) == UNCHANGED bitmap

FreeIndirect(i) == bfree(inode[i].addrs[NDIRECT])

itruncDone(p) ==
  LET i == k[p].n IN
  /\ k[p].pc = "itrunc" /\ Direct(i) = {}
  /\ inode[i].addrs[NDIRECT] # 0 => k[p].tot = NINDIRECT
  /\ IF inode[i].addrs[NDIRECT] # 0 THEN FreeIndirect(i) ELSE UNCHANGED bitmap
  /\ inode' = [inode EXCEPT ![i] = Locked(Empty, 0)]
  /\ iupdate(i, Empty)
  /\ content' = [content EXCEPT ![i] = <<>>]
  /\ Goto(p, Idle)
  /\ UNCHANGED <<disk, file, fd, calls>>

Next == \E p \in Procs :
  \/ open(p) \/ inherit(p) \/ close(p) \/ fileread(p) \/ filewrite(p) \/ remove(p)
  \/ readi(p) \/ writei(p) \/ bmapIndirect(p) \/ bmap(p) \/ readBlock(p) \/ writeBlock(p)
  \/ writeDone(p) \/ readDone(p) \/ iunlock(p)
  \/ itruncDirect(p) \/ itruncIndirect(p) \/ itruncDone(p)

Spec == Init /\ [][Next]_vars
-----------------------------------------------------------------------------
\* The block numbers that inode d leads to, in a sequence.
Uses(d) ==
  LET a == d.addrs
      direct == [n \in 1 .. NDIRECT + 1 |-> a[n - 1]]
      indirect == IF a[NDIRECT] = 0 THEN <<>>
                  ELSE [n \in 1 .. NINDIRECT |-> disk[a[NDIRECT]][n - 1]] IN
  SelectSeq(direct \o indirect, LAMBDA b : b # 0)

Truncating(i) == \E p \in Procs : k[p].pc = "itrunc" /\ k[p].n = i

\* Every block is in one place: free in the bitmap, or in one file, once; also
\* while other processes are between the steps of balloc and bmap, or of itrunc.
BlocksExact ==
  LET live == {i \in Inodes : ~Truncating(i)}
      all == FlattenSeq([n \in 1 .. Cardinality(live) |-> Uses(inode[SetToSeq(live)[n]])]) IN
  /\ IsInjective(all)
  /\ ToSet(all) \subseteq bitmap
  /\ live = Inodes => ToSet(all) = bitmap

\* What the disk holds of a file that nobody has locked are the bytes written to
\* it, in their places, through any number of direct and indirect blocks: the
\* inode on disk is no older than the one in the cache.
ContentOnDisk ==
  \A i \in Inodes : inode[i].lock = 0 =>
    content[i] = [j \in 1 .. dinode[i].size |->
         disk[Addr(dinode[i], (j - 1) \div BSIZE)][(j - 1) % BSIZE]]

\* A read returns consecutive bytes of the file, from the offset it began at.
ReadExact ==
  \A p \in Procs : k[p].pc \in {"read", "iunlock"} /\ k[p].got # <<>> =>
    k[p].got = SubSeq(content[File(p).ip], k[p].off + 1, k[p].off + Len(k[p].got))

\* No system call writes more blocks in one transaction than begin_op reserved
\* for it in the log: filewrite's max leaves room for the inode, the bitmap, the
\* indirect block and a write that is not aligned.  A read, which is outside any
\* transaction, writes none (log_write would panic): bmap finds every block below
\* the size allocated.
OpFits ==
  \A p \in Procs : /\ Cardinality(k[p].logged) <= MAXOPBLOCKS
                   /\ k[p].pc = "read" => k[p].logged = {}
=============================================================================
