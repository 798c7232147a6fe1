-------------------------------- MODULE MCMemory --------------------------------
(***************************************************************************)
(* The pages of memory, and the blocks of the disk.  A behaviour is one of *)
(* a single part, and the other part stays in its initial state.           *)
(***************************************************************************)
EXTENDS Vm

\* One segment; and two, the second of them ending below the first.
MCImages == {<<4>>, <<8, 4>>}

\* Less and more than a page, both ways.
MCIncrements == {4, 12, -4, -12}

\* Strings that fill the stack's page exactly, that are one word too long, that
\* reach across the guard page, and that reach below address 0.
MCArguments == {<<>>, <<3>>, <<1, 1>>, <<4>>, <<14>>, <<30>>}

CONSTANT Users   \* the processes that use files

VARIABLES part, bitmap, disk, dinode, inode, file, fd, call, content, calls

inodeVars == <<bitmap, disk, dinode, inode, file, fd, call, content, calls>>

\* Two-byte blocks, one direct and three indirect, so that one write crosses
\* from direct to indirect blocks and takes several transactions.
ino == INSTANCE Inode WITH
  Procs <- Users, Files <- {1, 2}, Inodes <- {1, 2, 3}, Blocks <- 10 .. 22, BSIZE <- 2,
  NDIRECT <- 1, NINDIRECT <- 3, MAXOPBLOCKS <- 6, Sizes <- {1, 3, 7}, Entries <- {3},
  MaxCalls <- 4, k <- call

MemoryInit ==
  /\ part \in {"vm", "inode"} /\ Init /\ ino!Init
  /\ part = "vm" => Len(content[2]) = 1

MemoryNext ==
  \/ part = "vm" /\ Next /\ UNCHANGED <<part, inodeVars>>
  \/ part = "inode" /\ ino!Next /\ UNCHANGED <<part, vars>>

MemorySpec == MemoryInit /\ [][MemoryNext]_<<part, vars, inodeVars>>

Symmetry == Permutations(Users)
-----------------------------------------------------------------------------
\* Inode!BlocksExact: every block is free or in one file, once, also in the
\* middle of balloc, bmap and itrunc.
BlocksExact == part = "inode" => ino!BlocksExact

\* Inode!ContentOnDisk: the disk holds the bytes written to a file, in their
\* places, through direct and indirect blocks.
ContentOnDisk == part = "inode" => ino!ContentOnDisk

\* Inode!ReadExact: a read returns consecutive bytes from its offset on.
ReadExact == part = "inode" => ino!ReadExact

\* Inode!OpFits: no call writes more blocks in a transaction than begin_op
\* reserved for it, and none outside of one.
OpFits == part = "inode" => ino!OpFits
=============================================================================
