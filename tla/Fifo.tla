--------------------------------- MODULE Fifo ---------------------------------
(***************************************************************************)
(* What a pipe promises: a queue of at most Capacity bytes, delivered in   *)
(* the order in which they were written, each one once; and an end of file *)
(* only after the last byte, once nobody can write any more.               *)
(***************************************************************************)
EXTENDS Naturals, Sequences

CONSTANTS Bytes, Capacity

VARIABLES
  queue,   \* bytes written and not yet read
  got,     \* the byte that was read last, <<>> before the first
  open,    \* some process can still write
  eof      \* some reader has been told that the data is at an end

vars == <<queue, got, open, eof>>

Init == queue = <<>> /\ got = <<>> /\ open = TRUE /\ eof = FALSE

Put(v) ==
  /\ open /\ Len(queue) < Capacity
  /\ queue' = Append(queue, v)
  /\ UNCHANGED <<got, open, eof>>

Get ==
  /\ queue # <<>>
  /\ got' = <<Head(queue)>>
  /\ queue' = Tail(queue)
  /\ UNCHANGED <<open, eof>>

Close == open /\ open' = FALSE /\ UNCHANGED <<queue, got, eof>>

Eof == ~open /\ queue = <<>> /\ eof' = TRUE /\ UNCHANGED <<queue, got, open>>

Next == Get \/ Close \/ Eof \/ \E v \in Bytes : Put(v)

Spec == Init /\ [][Next]_vars
=============================================================================
