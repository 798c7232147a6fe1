-------------------------------- MODULE Console --------------------------------
(***************************************************************************)
(* Console input: the ring of console.c that the keyboard and serial line  *)
(* interrupts fill and edit and that processes read.  A hold of cons.lock   *)
(* is one step, except for the last part of it before a sleep.              *)
(***************************************************************************)
EXTENDS Integers, Sequences

CONSTANTS Procs,
          Killable,    \* the processes that may be killed
          INPUT_BUF,   \* size of the ring
          W,           \* indices are modulo W, a multiple of INPUT_BUF
          MaxRead,     \* largest n of a read
          MaxTyped     \* bound on the characters typed

Chars == {"a", "\n", "^D", "^H", "^U"}

VARIABLES
  buf, r, w, e,   \* input: the ring, the read, write and edit indices
  k,              \* the read in progress: pc, n, target
  killed,         \* processes that have been killed
  typed,          \* how many characters have been typed
  line, unread    \* history: the line being edited, and the bytes of finished
                  \* lines that no reader has taken

vars == <<buf, r, w, e, k, killed, typed, line, unread>>

Init ==
  /\ buf = [i \in 0 .. INPUT_BUF - 1 |-> "a"]
  /\ r = 0 /\ w = 0 /\ e = 0
  /\ k = [p \in Procs |-> [pc |-> "user", n |-> 0, target |-> 0]]
  /\ killed = {}
  /\ typed = 0 /\ line = <<>> /\ unread = <<>>
-----------------------------------------------------------------------------
At(i) == buf[i % INPUT_BUF]
Dist(i, j) == (i - j) % W

wakeupOne == k' = [p \in Procs |->
  IF k[p].pc = "asleep" /\ p = CHOOSE q \in Procs : k[q].pc = "asleep"
  THEN [k[p] EXCEPT !.pc = "woken"] ELSE k[p]]

wakeup == k' = [p \in Procs |-> IF k[p].pc = "asleep" THEN [k[p] EXCEPT !.pc = "woken"] ELSE k[p]]

\* Kill line takes n characters: back to the last newline, but not into a
\* finished line.
Kills(n) ==
  /\ n <= Dist(e, w)
  /\ \A i \in 1 .. n : At((e - i) % W) # "\n"
  /\ n = Dist(e, w) \/ At((e - n - 1) % W) = "\n"

FullLate == Dist(e, r) <= INPUT_BUF

Room == Dist(e, r) < INPUT_BUF

Erase(n) ==
  /\ e' = (e - n) % W
  /\ line' = SubSeq(line, 1, Len(line) - n)
  /\ UNCHANGED <<buf, w, k, unread>>

\* An ordinary character; a newline, ^D or a full ring ends the line.
Insert(c) ==
  /\ buf' = [buf EXCEPT ![e % INPUT_BUF] = c]
  /\ e' = (e + 1) % W
  /\ IF c \in {"\n", "^D"} \/ Dist(e', r) = INPUT_BUF
     THEN w' = e' /\ wakeup /\ line' = <<>> /\ unread' = unread \o Append(line, c)
     ELSE line' = Append(line, c) /\ UNCHANGED <<w, k, unread>>

\* A process between its test of p->killed and its sleep holds cons.lock.
Locked == \E p \in Procs : k[p].pc = "sleep"

consoleintr ==
  /\ typed < MaxTyped /\ ~Locked
  /\ typed' = typed + 1
  /\ \E c \in Chars :
       CASE c = "^U" -> \E n \in 0 .. INPUT_BUF : Kills(n) /\ Erase(n)
         [] c = "^H" -> Erase(IF e # w THEN 1 ELSE 0)
         [] OTHER -> IF Room THEN Insert(c) ELSE UNCHANGED <<buf, w, e, k, line, unread>>
  /\ UNCHANGED <<r, killed>>

read(p) ==
  /\ k[p].pc = "user" /\ p \notin killed
  /\ \E n \in 1 .. MaxRead : k' = [k EXCEPT ![p] = [pc |-> "woken", n |-> n, target |-> n]]
  /\ UNCHANGED <<buf, r, w, e, killed, typed, line, unread>>

\* consoleread takes m characters when asked for n: up to n, the end of the
\* line included, and those before a ^D.
Takes(m, n) ==
  /\ m <= Dist(w, r)
  /\ \A i \in 0 .. m - 1 : At(r + i) # "^D" /\ (i < m - 1 => At(r + i) # "\n")
  /\ \/ m = n \/ m = Dist(w, r) \/ At(r + m) = "^D"
     \/ m > 0 /\ At(r + m - 1) = "\n"

EndsLine(m, n) ==
  \/ m = n \/ m < Dist(w, r)
  \/ m > 0 /\ At(r + m - 1) = "\n"

\* A ^D is consumed by the read that returns nothing, and kept for the next
\* one by a read that has returned bytes.
EofTaken(p, m) ==
  /\ m < k[p].n /\ m < Dist(w, r) /\ At(r + m) = "^D"
  /\ m = 0 /\ k[p].n = k[p].target

Consume(n) ==
  /\ r' = (r + n) % W
  /\ unread' = SubSeq(unread, n + 1, Len(unread))

\* After m characters the read returns, or it sleeps for more.
Progress(p, m) ==
  IF EndsLine(m, k[p].n) \/ p \in killed THEN [k[p] EXCEPT !.pc = "user"]
  ELSE [k[p] EXCEPT !.pc = "sleep", !.n = k[p].n - m]

\* consoleread from acquire or from its sleep, to the next sleep or the end.
consoleread(p) ==
  /\ k[p].pc = "woken" /\ ~Locked
  /\ IF r = w /\ p \in killed
     THEN k' = [k EXCEPT ![p].pc = "user"] /\ UNCHANGED <<r, unread>>
     ELSE \E m \in 0 .. k[p].n :
            /\ Takes(m, k[p].n)
            /\ Consume(IF EofTaken(p, m) THEN m + 1 ELSE m)
            /\ k' = [k EXCEPT ![p] = Progress(p, m)]
  /\ UNCHANGED <<buf, w, e, killed, typed, line>>

\* sleep gives cons.lock up; a kill just before it has woken nobody.
sleep(p) ==
  /\ k[p].pc = "sleep"
  /\ k' = [k EXCEPT ![p].pc = "asleep"]
  /\ UNCHANGED <<buf, r, w, e, killed, typed, line, unread>>

kill(p) ==
  /\ p \notin killed
  /\ killed' = killed \cup {p}
  /\ k' = IF k[p].pc = "asleep" THEN [k EXCEPT ![p].pc = "woken"] ELSE k
  /\ UNCHANGED <<buf, r, w, e, typed, line, unread>>

Next ==
  \/ consoleintr
  \/ \E p \in Procs : read(p) \/ consoleread(p) \/ sleep(p)
  \/ \E p \in Killable : kill(p)

\* A process that is awake goes on; nobody has to type.
Spec == Init /\ [][Next]_vars /\ \A p \in Procs : WF_vars(consoleread(p) \/ sleep(p))
-----------------------------------------------------------------------------
\* Readers get the bytes of the finished lines, as they were edited, each one
\* once and in order: what is in the ring is what nobody has read yet, through
\* wraps of the ring and of the indices, and while the ring is full.
InputExact ==
  /\ [i \in 1 .. Dist(w, r) |-> At(r + i - 1)] = unread
  /\ [i \in 1 .. Dist(e, w) |-> At(w + i - 1)] = line
  /\ Dist(e, r) <= INPUT_BUF

\* A read in progress returns while there is a finished line, unless others take
\* that: although two may sleep, one line may hold enough for both, and a ^D stays
\* in the ring for the next read, nobody sleeps on next to input.
ReaderWoken ==
  \A p \in Procs : (k[p].pc # "user" /\ r # w) ~> (k[p].pc = "user" \/ r = w)
=============================================================================
