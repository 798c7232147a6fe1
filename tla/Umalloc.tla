-------------------------------- MODULE Umalloc --------------------------------
(***************************************************************************)
(* malloc and free of umalloc.c: a circular list of free blocks in order of *)
(* address.  Addresses count units of a Header; a block is its header and   *)
(* the units after it.                                                      *)
(***************************************************************************)
EXTENDS Integers, FiniteSets, FiniteSetsExt

CONSTANTS Top,        \* limit of the address space: sbrk fails beyond it
          Chunk,      \* least number of units that morecore asks for
          Requests,   \* sizes of malloc, in units with the header
          Gaps        \* units the program takes with sbrk for itself

VARIABLES
  ptr, size,   \* s.ptr and s.size of every header
  freep,       \* a free block, or -1 before the first malloc
  brk,         \* end of the heap
  used,        \* headers of the blocks that malloc returned
  foreign      \* units that the program took with sbrk

vars == <<ptr, size, freep, brk, used, foreign>>

base == 0      \* the static header, below the heap and not next to it
Units == 0 .. Top

Init ==
  /\ ptr = [a \in Units |-> 0] /\ size = [a \in Units |-> 0]
  /\ freep = -1 /\ brk = 2
  /\ used = {} /\ foreign = {}
-----------------------------------------------------------------------------
\* The list as functions ptr and size and the place to start from.
List == [ptr |-> ptr, size |-> size, freep |-> freep]

\* free's loop: the block after which bp belongs.
RECURSIVE Before(_, _, _)
Before(l, bp, p) ==
  IF bp > p /\ bp < l.ptr[p] THEN p
  ELSE IF p >= l.ptr[p] /\ (bp > p \/ bp < l.ptr[p]) THEN p
  ELSE Before(l, bp, l.ptr[p])

JoinsNever(l, p, bp) == FALSE

JoinsLower(l, p, bp) == p + l.size[p] = bp

\* free(ap): insert the block, joined with its neighbours.
free(l, bp) ==
  LET p == Before(l, bp, l.freep)
      next == l.ptr[p]
      up == bp + l.size[bp] = next
      sz == IF up THEN l.size[bp] + l.size[next] ELSE l.size[bp]
      nx == IF up THEN l.ptr[next] ELSE next IN
  [freep |-> p,
   size |-> IF JoinsLower(l, p, bp) THEN [l.size EXCEPT ![p] = @ + sz] ELSE [l.size EXCEPT ![bp] = sz],
   ptr |-> IF JoinsLower(l, p, bp) THEN [l.ptr EXCEPT ![p] = nx]
           ELSE [l.ptr EXCEPT ![bp] = nx, ![p] = bp]]

\* morecore: the new units, given to free.
morecore(l, nu, hp) == free([l EXCEPT !.size[hp] = nu], hp)

\* malloc's loop, from prevp: the result as the list, the header returned (-1
\* when sbrk fails), and the end of the heap.
RECURSIVE Search(_, _, _, _, _)
Search(l, n, prevp, p, end) ==
  IF l.size[p] >= n
  THEN IF l.size[p] = n
       THEN [list |-> [l EXCEPT !.ptr[prevp] = l.ptr[p], !.freep = prevp], p |-> p, brk |-> end]
       ELSE LET q == p + l.size[p] - n IN
            [list |-> [l EXCEPT !.size[p] = @ - n, !.size[q] = n, !.freep = prevp],
             p |-> q, brk |-> end]
  ELSE IF p # l.freep THEN Search(l, n, p, l.ptr[p], end)
  ELSE LET nu == Max({n, Chunk}) IN
       IF end + nu > Top THEN [list |-> l, p |-> -1, brk |-> end]
       ELSE LET l1 == morecore(l, nu, end) IN Search(l1, n, l1.freep, l1.ptr[l1.freep], end + nu)

RECURSIVE Around(_, _, _)
Around(next, p, seen) == IF p \in seen THEN seen ELSE Around(next, next[p], seen \cup {p})

\* The new list.  Headers that are neither on it nor of a block in use are stale
\* and forgotten.
Becomes(l, inUse) ==
  LET listed == Around(l.ptr, l.freep, {}) IN
  /\ ptr' = [a \in Units |-> IF a \in listed THEN l.ptr[a] ELSE 0]
  /\ size' = [a \in Units |-> IF a \in listed \cup inUse THEN l.size[a] ELSE 0]
  /\ freep' = l.freep
  /\ used' = inUse

malloc(n) ==
  LET l == IF freep = -1 THEN [List EXCEPT !.ptr[base] = base, !.size[base] = 0, !.freep = base]
           ELSE List
      res == Search(l, n, l.freep, l.ptr[l.freep], brk) IN
  /\ Becomes(res.list, IF res.p = -1 THEN used ELSE used \cup {res.p})
  /\ brk' = res.brk
  /\ UNCHANGED foreign

Malloc == \E n \in Requests : malloc(n)

Free ==
  \E bp \in used :
    /\ Becomes(free(List, bp), used \ {bp})
    /\ UNCHANGED <<brk, foreign>>

\* The program moves the break itself.
Sbrk ==
  \E g \in Gaps :
    /\ brk + g <= Top
    /\ brk' = brk + g /\ foreign' = foreign \cup (brk .. brk + g - 1)
    /\ UNCHANGED <<ptr, size, freep, used>>

Next == Malloc \/ Free \/ Sbrk
Spec == Init /\ [][Next]_vars
-----------------------------------------------------------------------------
FreeBlocks == IF freep = -1 THEN {} ELSE Around(ptr, freep, {}) \ {base}

Extent(a) == a .. a + size[a] - 1

\* Every unit of the heap belongs to one block, free or in use, or to the program,
\* so malloc never returns memory in use and free never loses any; the free list
\* comes back to its start through base; and no two free blocks touch, because
\* free joins neighbours: memory that was all freed is one block again.
HeapExact ==
  LET blocks == FreeBlocks \cup used IN
  /\ \A a, b \in blocks : a # b => Extent(a) \cap Extent(b) = {}
  /\ FreeBlocks \cap used = {}
  /\ UNION {Extent(a) : a \in blocks} \cup foreign = 2 .. brk - 1
  /\ \A a \in blocks : Extent(a) \cap foreign = {}
  /\ freep # -1 => Around(ptr, base, {}) = Around(ptr, freep, {})
  /\ \A a, b \in FreeBlocks : a + size[a] # b
=============================================================================
