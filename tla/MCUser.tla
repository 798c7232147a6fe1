-------------------------------- MODULE MCUser --------------------------------
(***************************************************************************)
(* A pipe between programs, the shell that sets it up, and the heap of a   *)
(* program.  They share no state: a behaviour is one of a single part, and *)
(* the other parts stay in their initial states.                           *)
(***************************************************************************)
EXTENDS Pipe

VARIABLES part, ts, ptr, size, freep, brk, used, foreign

heapVars == <<ptr, size, freep, brk, used, foreign>>

\* Lines of six tokens, five of them symbols.
sh == INSTANCE Sh WITH MAXARGS <- 3, MaxTokens <- 6, MaxSymbols <- 5

\* Requests below, at and above the unit in which the heap grows.
umalloc == INSTANCE Umalloc WITH Top <- 15, Chunk <- 4, Requests <- {2, 3, 5}, Gaps <- {1}

UserInit ==
  /\ part \in {"sh", "umalloc", "pipe"}
  /\ sh!Init /\ umalloc!Init
  /\ Init /\ (part # "pipe" => data = [n \in 0..1 |-> 0])

UserNext ==
  \/ part = "pipe" /\ Next /\ UNCHANGED <<part, ts, heapVars>>
  \/ part = "sh" /\ sh!Next /\ UNCHANGED <<part, heapVars, vars>>
  \/ part = "umalloc" /\ umalloc!Next /\ UNCHANGED <<part, ts, vars>>

UserSpec == UserInit /\ [][UserNext]_<<part, ts, heapVars, vars>>
-----------------------------------------------------------------------------
\* Sh!ShParses: parsecmd accepts exactly the lines of the grammar, and every
\* word of the line has its place in the command.
ShParses == part = "sh" => sh!ShParses

\* Sh!ShPlumbs: every program that a line starts has the descriptors 0, 1 and 2
\* and no other, and 0 is never a pipe's write end, nor 1 a read end.
ShPlumbs == part = "sh" => sh!ShPlumbs

\* Umalloc!HeapExact: after any calls of malloc, free and sbrk the blocks in use
\* and the free list tile the heap, and neighbours that are free are joined.
HeapExact == part = "umalloc" => umalloc!HeapExact
=============================================================================
