--------------------------------- MODULE Pipe ---------------------------------
(***************************************************************************)
(* pipe.c: one pipe, the processes that hold its write end and the ones    *)
(* that hold its read end, each with its file descriptor.  p->lock is held *)
(* from a call's acquire to its sleep or release, and a step is what one   *)
(* turn of a call's loop does.  sleep and wakeup miss nothing on their own *)
(* (module SleepLock); whether the pipe calls them at the right places is  *)
(* the question here.  nread and nwrite are unsigned and wrap around.      *)
(***************************************************************************)
EXTENDS Integers, Sequences

CONSTANTS Writers, Readers, NoProc,
          Bytes,
          PIPESIZE,
          UINT,       \* the number of values of a uint, 2^32 in the code
          MaxCall,    \* bound: bytes asked for in one call
          Killable    \* processes that may be killed

Procs == Writers \cup Readers

\* The ring of the code has 512 bytes and its counters 2^32 values.
ASSUME PipeAssumption ==
  /\ PIPESIZE \in Nat \ {0} /\ UINT \in Nat
  /\ UINT % PIPESIZE = 0 /\ UINT > PIPESIZE
  /\ MaxCall \in Nat
  /\ Writers \cap Readers = {} /\ Writers # {} /\ Readers # {} /\ NoProc \notin Procs
  /\ Killable \subseteq Procs

VARIABLES
  data, nread, nwrite, readopen, writeopen,   \* struct pipe
  lock,     \* p->lock
  freed,    \* kfree has been called on the pipe
  pc,
  left,     \* n - i: bytes the call is still to transfer
  fresh,    \* the call has transferred nothing yet (i = 0)
  fds,      \* processes whose descriptor is open
  killed,
  got,      \* the byte that piperead copied last
  eof       \* some read has returned 0

vars == <<data, nread, nwrite, readopen, writeopen, lock, freed, pc, left,
          fresh, fds, killed, got, eof>>
ringVars == <<data, nread, nwrite, got>>
endVars == <<readopen, writeopen, freed, fds>>

Uint == 0..(UINT - 1)

\* pipealloc, and forks that gave every process its end.
Init ==
  /\ data \in [0..(PIPESIZE - 1) -> Bytes]     \* kalloc does not clear it
  /\ nread = 0 /\ nwrite = 0
  /\ readopen = TRUE /\ writeopen = TRUE /\ freed = FALSE
  /\ lock = NoProc
  /\ pc = [p \in Procs |-> "user"]
  /\ left = [p \in Procs |-> 0]
  /\ fresh = [p \in Procs |-> FALSE]
  /\ fds = Procs
  /\ killed = {}
  /\ got = <<>>
  /\ eof = FALSE
-----------------------------------------------------------------------------
FullSigned == nwrite = nread + PIPESIZE

Full == nwrite = (nread + PIPESIZE) % UINT
Empty == nread = nwrite

Goto(p, l) == pc' = [pc EXCEPT ![p] = l]

WakeReadersAndGoto(who, p, l) ==
  pc' = [q \in Procs |-> IF q = p THEN l
                         ELSE IF q \in Readers /\ pc[q] = "asleep" THEN "woken"
                         ELSE pc[q]]

\* wakeup(&p->nread) wakes the readers, wakeup(&p->nwrite) the writers; the
\* caller goes to l.
WakeAndGoto(who, p, l) ==
  pc' = [q \in Procs |-> IF q = p THEN l
                         ELSE IF q \in who /\ pc[q] = "asleep" THEN "woken"
                         ELSE pc[q]]

\* A call of read or write acquires p->lock.
call(p) ==
  /\ pc[p] = "user" /\ p \in fds /\ p \notin killed
  /\ lock = NoProc /\ lock' = p
  /\ \E n \in 1..MaxCall : left' = [left EXCEPT ![p] = n]
  /\ fresh' = [fresh EXCEPT ![p] = TRUE]
  /\ Goto(p, IF p \in Writers THEN "write" ELSE "read")
  /\ UNCHANGED <<killed, eof, ringVars, endVars>>

\* sleep returns with the lock reacquired.
sleepReturn(p) ==
  /\ pc[p] = "woken"
  /\ lock = NoProc /\ lock' = p
  /\ Goto(p, IF p \in Writers THEN "write" ELSE "read")
  /\ UNCHANGED <<left, fresh, killed, eof, ringVars, endVars>>

return(p) == left' = [left EXCEPT ![p] = 0] /\ fresh' = [fresh EXCEPT ![p] = FALSE]
-----------------------------------------------------------------------------
\* pipewrite: one byte.
pipewriteByte(p, v) ==
  /\ pc[p] = "write" /\ left[p] > 0 /\ ~Full
  /\ data' = [data EXCEPT ![nwrite % PIPESIZE] = v]
  /\ nwrite' = (nwrite + 1) % UINT
  /\ left' = [left EXCEPT ![p] = @ - 1]
  /\ fresh' = [fresh EXCEPT ![p] = FALSE]
  /\ UNCHANGED <<nread, got, lock, pc, killed, eof, endVars>>

\* sleep gives the lock up and the process is SLEEPING.  A kill since the test of
\* p->killed, which is not under p->lock, wakes nobody.
sleep(p) ==
  /\ pc[p] = "sleep"
  /\ Goto(p, "asleep")
  /\ lock' = NoProc
  /\ UNCHANGED <<left, fresh, killed, eof, ringVars, endVars>>

\* The pipe is full: return -1, or wake the readers and sleep.
pipewriteFull(p) ==
  /\ pc[p] = "write" /\ left[p] > 0 /\ Full
  /\ IF ~readopen \/ p \in killed
     THEN Goto(p, "user") /\ return(p) /\ lock' = NoProc
     ELSE WakeAndGoto(Readers, p, "sleep") /\ UNCHANGED <<lock, left, fresh>>
  /\ UNCHANGED <<killed, eof, ringVars, endVars>>

\* All bytes are written.
pipewriteDone(p) ==
  /\ pc[p] = "write" /\ left[p] = 0
  /\ WakeAndGoto(Readers, p, "user")
  /\ return(p)
  /\ lock' = NoProc
  /\ UNCHANGED <<killed, eof, ringVars, endVars>>

\* piperead: the loop that waits for data.
pipereadWait(p) ==
  /\ pc[p] = "read" /\ Empty /\ writeopen
  /\ IF p \in killed THEN Goto(p, "user") /\ return(p) /\ lock' = NoProc
                     ELSE Goto(p, "sleep") /\ UNCHANGED <<lock, left, fresh>>
  /\ UNCHANGED <<killed, eof, ringVars, endVars>>

pipereadReady(p) ==
  /\ pc[p] = "read" /\ ~(Empty /\ writeopen)
  /\ Goto(p, "copy")
  /\ UNCHANGED <<lock, left, fresh, killed, eof, ringVars, endVars>>

pipereadByte(p) ==
  /\ pc[p] = "copy" /\ left[p] > 0 /\ ~Empty
  /\ got' = <<data[nread % PIPESIZE]>>
  /\ nread' = (nread + 1) % UINT
  /\ left' = [left EXCEPT ![p] = @ - 1]
  /\ fresh' = [fresh EXCEPT ![p] = FALSE]
  /\ UNCHANGED <<data, nwrite, lock, pc, killed, eof, endVars>>

\* The call returns the number of bytes copied, 0 at end of file.
pipereadDone(p) ==
  /\ pc[p] = "copy" /\ (left[p] = 0 \/ Empty)
  /\ eof' = (eof \/ fresh[p])
  /\ WakeAndGoto(Writers, p, "user")
  /\ return(p)
  /\ lock' = NoProc
  /\ UNCHANGED <<killed, ringVars, endVars>>
-----------------------------------------------------------------------------
pipecloseEither(p) ==
  /\ pc[p] = "user" /\ p \in fds
  /\ lock = NoProc
  /\ fds' = fds \ {p}
  /\ writeopen' = (writeopen /\ fds' \cap Writers # {})
  /\ readopen' = (readopen /\ fds' \cap Readers # {})
  /\ freed' = (~readopen' \/ ~writeopen')
  /\ UNCHANGED <<lock, pc, left, fresh, killed, eof, ringVars>>

\* A process closes its descriptor, or exits.  fileclose calls pipeclose for
\* the last one of an end; the last of both frees the pipe.
pipeclose(p) ==
  /\ pc[p] = "user" /\ p \in fds
  /\ lock = NoProc
  /\ fds' = fds \ {p}
  /\ writeopen' = (writeopen /\ fds' \cap Writers # {})
  /\ readopen' = (readopen /\ fds' \cap Readers # {})
  /\ IF writeopen' # writeopen THEN WakeAndGoto(Readers, p, "user")
     ELSE IF readopen' # readopen THEN WakeAndGoto(Writers, p, "user")
     ELSE UNCHANGED pc
  /\ freed' = (~readopen' /\ ~writeopen')
  /\ UNCHANGED <<lock, left, fresh, killed, eof, ringVars>>

\* kill sets p->killed and wakes the process.
kill(p) ==
  /\ p \in fds /\ p \notin killed
  /\ killed' = killed \cup {p}
  /\ pc' = [pc EXCEPT ![p] = IF @ = "asleep" THEN "woken" ELSE @]
  /\ UNCHANGED <<lock, left, fresh, eof, ringVars, endVars>>

run(p) ==
  \/ sleep(p) \/ sleepReturn(p) \/ pipewriteFull(p) \/ pipewriteDone(p)
  \/ pipereadWait(p) \/ pipereadReady(p) \/ pipereadByte(p) \/ pipereadDone(p)
  \/ \E v \in Bytes : pipewriteByte(p, v)

Next ==
  \/ \E p \in Procs : call(p) \/ run(p) \/ pipeclose(p)
  \/ \E p \in Killable : kill(p)
  \/ fds = {} /\ UNCHANGED vars       \* the pipe is gone

Spec == Init /\ [][Next]_vars
-----------------------------------------------------------------------------
\* The bytes between nread and nwrite, oldest first.
Queue == [i \in 1..((nwrite - nread) % UINT) |-> data[(nread + i - 1) % PIPESIZE]]

abstract == INSTANCE Fifo WITH
              Capacity <- PIPESIZE, queue <- Queue, open <- writeopen

\* The ring buffer with wrapping counters is a bounded FIFO queue: no byte is
\* lost, repeated, overwritten or reordered whichever way the calls of several
\* readers and writers interleave, and a read returns 0 only when the queue is
\* empty and the write end closed.
ImplementsFifo == abstract!Spec

\* pipeclose frees the pipe exactly when the last descriptor of the two ends
\* has been closed, and no call is inside it then.
FreedLast == (freed <=> fds = {}) /\ (freed => \A p \in Procs : pc[p] = "user")
-----------------------------------------------------------------------------
(* Calls run to completion, spinning for p->lock ends (strong fairness),   *)
(* and a process with the read end open keeps reading or closes it.        *)
Fairness ==
  /\ \A p \in Procs : SF_vars(run(p))
  /\ \A r \in Readers : SF_vars(call(r) \/ pipeclose(r))

FairSpec == Spec /\ Fairness

\* A write returns: with its bytes in the pipe or, when the readers have gone,
\* with an error.
WriteReturns == \A w \in Writers : pc[w] = "write" ~> pc[w] = "user"
=============================================================================
