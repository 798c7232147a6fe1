---------------------------------- MODULE File ----------------------------------
(***************************************************************************)
(* Open files: the table of struct files of file.c and the descriptors of  *)
(* the processes, under open, pipe, dup, close (sysfile.c, pipe.c) and the *)
(* copying and closing of descriptors by fork and exit (proc.c).  What a    *)
(* file stands for is one end of a pipe, or a reference to an inode.        *)
(* Every hold of ftable.lock is a step, and so is every pipeclose and iput. *)
(***************************************************************************)
EXTENDS Integers, Sequences, FiniteSets, FiniteSetsExt

CONSTANTS Procs, First,   \* process slots, and the one in use at first
          NFILE, NOFILE,  \* struct files; descriptors of a process
          NPIPE,          \* pages that kalloc has for pipes
          MaxCalls        \* bound on the number of calls

Files == 1 .. NFILE
Fds == 0 .. NOFILE - 1
Pipes == 1 .. NPIPE
Ends == {"read", "write"}

VARIABLES
  ftable,   \* ref, type, and the pipe and end or the inode of a struct file
  ofile,    \* descriptors: a struct file or 0
  live,     \* the processes in use
  ends,     \* the open ends of each pipe; a pipe with none is a free page
  iref,     \* references to inodes
  k,        \* the call in progress
  calls     \* calls so far

vars == <<ftable, ofile, live, ends, iref, k, calls>>

FD_NONE == [type |-> "none", pipe |-> 0, end |-> "read"]
FD_INODE == [FD_NONE EXCEPT !.type = "inode"]
FD_PIPE(x, e) == [type |-> "pipe", pipe |-> x, end |-> e]

\* f and g are the files of the call, closing those it still has to close, ff
\* the copy that fileclose made of the one that it closes.
Idle == [pc |-> "user", f |-> 0, g |-> 0, closing |-> <<>>, ff |-> FD_NONE, child |-> First, fd |-> 0]

Init ==
  /\ ftable = [f \in Files |-> [ref |-> 0, is |-> FD_NONE]]
  /\ ofile = [p \in Procs |-> [d \in Fds |-> 0]]
  /\ live = {First}
  /\ ends = [x \in Pipes |-> {}]
  /\ iref = 0 /\ calls = 0
  /\ k = [p \in Procs |-> Idle]
-----------------------------------------------------------------------------
Goto(p, r) == k' = [k EXCEPT ![p] = r]

Called(p) ==
  /\ p \in live /\ k[p].pc = "user" /\ calls < MaxCalls
  /\ calls' = calls + 1

\* filealloc: the first struct file without references, with type FD_NONE.
Free == {f \in Files : ftable[f].ref = 0}
filealloc == ftable' = [ftable EXCEPT ![Min(Free)].ref = 1]

NotCounted(f) == UNCHANGED ftable

filedup(f) == ftable' = [ftable EXCEPT ![f].ref = @ + 1]

\* fdalloc: the first descriptor not in use.
FreeFds(p) == {d \in Fds : ofile[p][d] = 0}
fdalloc(p, f) == ofile' = [ofile EXCEPT ![p][Min(FreeFds(p))] = f]

\* sys_open from the point where it has the inode, up to filealloc.
sys_open(p) ==
  /\ Called(p)
  /\ iref' = iref + 1
  /\ IF Free = {}
     THEN Goto(p, [k[p] EXCEPT !.pc = "iunlockput"]) /\ UNCHANGED ftable
     ELSE filealloc /\ Goto(p, [k[p] EXCEPT !.pc = "fdalloc", !.f = Min(Free)])
  /\ UNCHANGED <<ofile, live, ends>>

\* fdalloc and the fields of the file; or fileclose of the file, which stands for
\* nothing yet, and then iunlockput.
openFd(p) ==
  /\ k[p].pc = "fdalloc"
  /\ IF FreeFds(p) # {}
     THEN /\ fdalloc(p, k[p].f)
          /\ ftable' = [ftable EXCEPT ![k[p].f].is = FD_INODE]
          /\ Goto(p, Idle)
     ELSE /\ Goto(p, [Idle EXCEPT !.pc = "fileclose", !.closing = <<k[p].f>>, !.g = -1])
          /\ UNCHANGED <<ofile, ftable>>
  /\ UNCHANGED <<live, ends, iref, calls>>

iunlockput(p) ==
  /\ k[p].pc = "iunlockput"
  /\ iref' = iref - 1
  /\ Goto(p, Idle)
  /\ UNCHANGED <<ftable, ofile, live, ends, calls>>

\* sys_pipe: pipealloc takes two files and a page, or gives back what it has.
sys_pipe(p) ==
  /\ Called(p) /\ Free # {}
  /\ filealloc
  /\ Goto(p, [k[p] EXCEPT !.pc = "pipealloc", !.f = Min(Free)])
  /\ UNCHANGED <<ofile, live, ends, iref>>

pipealloc(p) ==
  /\ k[p].pc = "pipealloc"
  /\ IF Free = {}
     THEN /\ Goto(p, [Idle EXCEPT !.pc = "fileclose", !.closing = <<k[p].f>>])
          /\ UNCHANGED ftable
     ELSE /\ filealloc
          /\ Goto(p, [k[p] EXCEPT !.pc = "kalloc", !.g = Min(Free)])
  /\ UNCHANGED <<ofile, live, ends, iref, calls>>

pipeInit(p) ==
  LET free == {x \in Pipes : ends[x] = {}}   x == Min(free) IN
  /\ k[p].pc = "kalloc"
  /\ IF free = {}
     THEN /\ Goto(p, [Idle EXCEPT !.pc = "fileclose", !.closing = <<k[p].f, k[p].g>>])
          /\ UNCHANGED <<ftable, ends>>
     ELSE /\ ends' = [ends EXCEPT ![x] = Ends]
          /\ ftable' = [ftable EXCEPT ![k[p].f].is = FD_PIPE(x, "read"),
                                      ![k[p].g].is = FD_PIPE(x, "write")]
          /\ Goto(p, [k[p] EXCEPT !.pc = "pipefds"])
  /\ UNCHANGED <<ofile, live, iref, calls>>

\* Two descriptors, or none.
pipeFds(p) ==
  LET free == FreeFds(p)   d == Min(free) IN
  /\ k[p].pc = "pipefds"
  /\ IF Cardinality(free) >= 2
     THEN /\ ofile' = [ofile EXCEPT ![p][d] = k[p].f, ![p][Min(free \ {d})] = k[p].g]
          /\ Goto(p, Idle)
     ELSE /\ Goto(p, [Idle EXCEPT !.pc = "fileclose", !.closing = <<k[p].f, k[p].g>>])
          /\ UNCHANGED ofile
  /\ UNCHANGED <<ftable, live, ends, iref, calls>>

sys_dup(p) ==
  /\ Called(p) /\ FreeFds(p) # {}
  /\ \E d \in Fds \ FreeFds(p) :
       /\ fdalloc(p, ofile[p][d])
       /\ filedup(ofile[p][d])
  /\ UNCHANGED <<live, ends, iref, k>>

sys_close(p) ==
  /\ Called(p)
  /\ \E d \in Fds \ FreeFds(p) :
       /\ ofile' = [ofile EXCEPT ![p][d] = 0]
       /\ Goto(p, [Idle EXCEPT !.pc = "fileclose", !.closing = <<ofile[p][d]>>])
  /\ UNCHANGED <<ftable, live, ends, iref>>

\* fork: filedup of one descriptor after another, for the child.
fork(p) ==
  /\ Called(p)
  /\ \E q \in Procs \ live :
       /\ \A r \in Procs : k[r].pc = "fork" => k[r].child # q
       /\ Goto(p, [Idle EXCEPT !.pc = "fork", !.child = q])
  /\ UNCHANGED <<ftable, ofile, live, ends, iref>>

forkDup(p) ==
  LET d == k[p].fd   f == ofile[p][d]   q == k[p].child IN
  /\ k[p].pc = "fork"
  /\ IF f = 0 THEN UNCHANGED <<ftable, ofile>>
     ELSE /\ filedup(f)
          /\ ofile' = [ofile EXCEPT ![q][d] = f]
  /\ IF d + 1 < NOFILE
     THEN Goto(p, [k[p] EXCEPT !.fd = d + 1]) /\ UNCHANGED live
     ELSE Goto(p, Idle) /\ live' = live \cup {q}
  /\ UNCHANGED <<ends, iref, calls>>

\* exit: fileclose of each descriptor in turn.  (It clears ofile[fd] after the
\* fileclose, which nobody else can see.)
exit(p) ==
  /\ Called(p) /\ p # First
  /\ Goto(p, [Idle EXCEPT !.pc = "exit"])
  /\ UNCHANGED <<ftable, ofile, live, ends, iref>>

exitClose(p) ==
  LET used == Fds \ FreeFds(p)   d == Min(used) IN
  /\ k[p].pc = "exit"
  /\ IF used = {} THEN Goto(p, Idle) /\ live' = live \ {p} /\ UNCHANGED ofile
     ELSE /\ Goto(p, [k[p] EXCEPT !.pc = "fileclose", !.closing = <<ofile[p][d]>>, !.f = -1])
          /\ ofile' = [ofile EXCEPT ![p][d] = 0]
          /\ UNCHANGED live
  /\ UNCHANGED <<ftable, ends, iref, calls>>

\* What follows the last fileclose of a call: back to exit's loop, to the
\* iunlockput of sys_open (g = -1), or to the user.
After(p, closing) ==
  IF closing # <<>> THEN [k[p] EXCEPT !.pc = "fileclose", !.closing = closing]
  ELSE IF k[p].f = -1 THEN [Idle EXCEPT !.pc = "exit"]
  ELSE IF k[p].g = -1 THEN [Idle EXCEPT !.pc = "iunlockput"] ELSE Idle

KeepType(r) == [r EXCEPT !.ref = 0]

Closed(r) == [ref |-> 0, is |-> FD_NONE]

\* fileclose up to its release: the last reference goes, and the file is free
\* for filealloc before the pipe or the inode is released.
fileclose(p) ==
  LET f == Head(k[p].closing)   rest == Tail(k[p].closing) IN
  /\ k[p].pc = "fileclose"
  /\ IF ftable[f].ref > 1
     THEN /\ ftable' = [ftable EXCEPT ![f].ref = @ - 1]
          /\ Goto(p, After(p, rest))
     ELSE /\ ftable' = [ftable EXCEPT ![f] = Closed(@)]
          /\ Goto(p, [k[p] EXCEPT !.pc = "closed", !.closing = rest, !.ff = ftable[f].is])
  /\ UNCHANGED <<ofile, live, ends, iref, calls>>

\* pipeclose of the end, or iput.
closed(p) ==
  LET ff == k[p].ff IN
  /\ k[p].pc = "closed"
  /\ ends' = IF ff.type = "pipe" THEN [ends EXCEPT ![ff.pipe] = @ \ {ff.end}] ELSE ends
  /\ iref' = IF ff.type = "inode" THEN iref - 1 ELSE iref
  /\ Goto(p, [After(p, k[p].closing) EXCEPT !.ff = FD_NONE])
  /\ UNCHANGED <<ftable, ofile, live, calls>>

Next == \E p \in Procs :
  \/ sys_open(p) \/ openFd(p) \/ iunlockput(p) \/ sys_pipe(p) \/ pipealloc(p) \/ pipeInit(p)
  \/ pipeFds(p) \/ sys_dup(p) \/ sys_close(p) \/ fork(p) \/ forkDup(p) \/ exit(p) \/ exitClose(p)
  \/ fileclose(p) \/ closed(p)

Spec == Init /\ [][Next]_vars
-----------------------------------------------------------------------------
\* The references that calls in progress hold to f.
InFlight(p, f) ==
  \/ k[p].pc \in {"fdalloc", "pipealloc", "kalloc", "pipefds"} /\ f \in {k[p].f, k[p].g}
  \/ \E j \in DOMAIN k[p].closing : k[p].closing[j] = f

\* A struct file has as many references as there are descriptors and calls in
\* progress that lead to it; filealloc never hands out one in use.
FileRefs ==
  \A f \in Files : ftable[f].ref =
    Cardinality({<<p, d>> \in Procs \X Fds : ofile[p][d] = f})
      + Cardinality({p \in Procs : InFlight(p, f)})

\* Who stands for end e of pipe x.
Holders(x, e) == {f \in Files : ftable[f].ref > 0 /\ ftable[f].is = FD_PIPE(x, e)}
Closers(x, e) == {p \in Procs : k[p].pc = "closed" /\ k[p].ff = FD_PIPE(x, e)}

\* An end of a pipe is open exactly as long as one file, or the last step of its
\* fileclose, stands for it: a reader sees the end of file when the last
\* descriptor of the other end is gone, not before and not never.  References
\* to inodes likewise are given back once each, by the last fileclose or on the
\* way out of an open that failed.
HeldByFiles ==
  /\ \A x \in Pipes, e \in Ends :
       Cardinality(Holders(x, e)) + Cardinality(Closers(x, e)) = IF e \in ends[x] THEN 1 ELSE 0
  /\ iref = Cardinality({f \in Files : ftable[f].ref > 0 /\ ftable[f].is = FD_INODE})
           + Cardinality({p \in Procs : k[p].pc \in {"fdalloc", "iunlockput"} \/ k[p].g = -1})
           + Cardinality({p \in Procs : k[p].pc = "closed" /\ k[p].ff = FD_INODE})
=============================================================================
