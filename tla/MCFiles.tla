-------------------------------- MODULE MCFiles --------------------------------
(***************************************************************************)
(* The log, the system calls on paths above it, and those on descriptors   *)
(* with the table of open files.  A behaviour is one of a single part, and *)
(* the other parts stay in their initial states.                           *)
(***************************************************************************)
EXTENDS Log, FsCalls, TLC

VARIABLES part,
  dinode, dirents, icache, cwd, ofile, fpc, l, calls,
  ftable, fds, live, ends, iref, k, fcalls

pathVars == <<dinode, dirents, icache, cwd, ofile, fpc, l, calls>>
fileVars == <<ftable, fds, live, ends, iref, k, fcalls>>

\* Two processes, four inodes and a cache for all of them.
fs == INSTANCE Fs WITH
  NoProc <- "none", Inums <- 1..4, NINODE <- 4, NOFILE <- 1, Names <- {"a", "b", "c"},
  Calls <- AllCalls, MaxCalls <- 3, pc <- fpc

\* Three processes that share and inherit files, and run out of table entries,
\* descriptors and pipes.
file == INSTANCE File WITH
  Procs <- {"p1", "p2", "p3"}, First <- "p1", NFILE <- 3, NOFILE <- 2, NPIPE <- 1,
  MaxCalls <- 5, ofile <- fds, calls <- fcalls

FilesInit == part \in {"path", "file", "log"} /\ Init /\ fs!Init /\ file!Init

FilesNext ==
  \/ part = "log" /\ Next /\ UNCHANGED <<part, pathVars, fileVars>>
  \/ part = "path" /\ fs!Next /\ UNCHANGED <<part, vars, fileVars>>
  \/ part = "file" /\ file!Next /\ UNCHANGED <<part, vars, pathVars>>

FilesSpec == FilesInit /\ [][FilesNext]_<<part, vars, pathVars, fileVars>>

Symmetry == Permutations(Procs)
-----------------------------------------------------------------------------
\* Fs!RefsExact: the count of an inode in the cache is the number of references
\* that processes hold, through a current directory, an open file or a call.
RefsExact == part = "path" => fs!RefsExact

\* Fs!LinksCounted: what a directory with a name still names is not freed, and
\* has at least as many links as there are such entries.
LinksCounted == part = "path" => fs!LinksCounted

\* Fs!InUseAllocated: an open file or a current directory is never freed under
\* its user.
InUseAllocated == part = "path" => fs!InUseAllocated

\* File!FileRefs: the count of an entry of ftable is the number of descriptors
\* that name it, and of calls about to make or drop one.
FileRefs == part = "file" => file!FileRefs

\* File!HeldByFiles: an end of a pipe is open, and an inode has a reference,
\* exactly as long as an open file or a call in progress holds it.
HeldByFiles == part = "file" => file!HeldByFiles
=============================================================================
