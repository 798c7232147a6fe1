---------------------------------- MODULE Vm ----------------------------------
(***************************************************************************)
(* Physical memory: the page allocator of kalloc.c and the page tables of  *)
(* vm.c, under the calls that build, grow, copy, replace and free an       *)
(* address space: growproc and fork (proc.c), exec (exec.c), and the reaping *)
(* of a child by wait.  kalloc and kfree are the only steps that processes *)
(* on different CPUs share, so every kalloc is a step of its own; the pages *)
(* of a deallocuvm or freevm are given back in one step.                   *)
(***************************************************************************)
EXTENDS Integers, Sequences, FiniteSets, SequencesExt, TLC

CONSTANTS Procs, NoProc, Init0,   \* Init0 is the first process
          NFRAMES,     \* physical pages between end and PHYSTOP
          PGSIZE,      \* words in a page
          NPTENTRIES,  \* pages that one page table maps
          KERNBASE,    \* end of user addresses, a multiple of a page table's range
          KTABS,       \* page tables of the kernel part of an address space
          Increments,  \* arguments of sbrk
          Arguments,   \* arguments of exec: the sizes of the strings, in words
          Images       \* programs: the ends (below KERNBASE) of the segments exec loads

Frames == 1 .. NFRAMES   \* 0 is a null pointer

W == 2 * KERNBASE      \* an address is a number modulo W

Pages == 0 .. KERNBASE \div PGSIZE - 1
PDX(v) == v \div NPTENTRIES
Tables == {PDX(v) : v \in Pages}

PGROUNDUP(sz) == (sz + PGSIZE - 1) \div PGSIZE      \* as a page number

VARIABLES
  freelist,   \* kmem.freelist
  proc,       \* state, sz and kstack of each process slot
  pgdir,      \* its page directory, as below
  new,        \* the page directory that exec or copyuvm builds
  k           \* the call in progress and its local variables

vars == <<freelist, proc, pgdir, new, k>>

\* The directory's own page, the kernel's page tables, the user page tables,
\* what the user pages are mapped to, and the page without PTE_U.
NoDir == [dir |-> 0, ktab |-> <<>>, tab |-> [i \in Tables |-> 0],
          pte |-> [v \in Pages |-> 0], guard |-> -1]

Idle == [pc |-> "user", op |-> "none", a |-> 0, oldsz |-> 0, newsz |-> 0, mem |-> 0,
         child |-> NoProc, segs |-> <<>>]

Unused == [state |-> "UNUSED", sz |-> 0, kstack |-> 0, sp |-> 0]

Nonzero(s) == SelectSeq(s, LAMBDA f : f # 0)

\* The pages that freevm gives back, last first.
FramesOf(d) ==
  Nonzero(<<d.dir>> \o Reverse(d.ktab) \o [i \in 1 .. Cardinality(Tables) |-> d.tab[Cardinality(Tables) - i]]
            \o [i \in 1 .. Cardinality(Pages) |-> d.pte[Cardinality(Pages) - i]])

\* userinit: setupkvm and inituvm for the first process.
Init ==
  LET f == [i \in Frames |-> i]   n == 4 + KTABS IN
  /\ freelist = SubSeq(f, n + 1, Len(f))
  /\ proc = [p \in Procs |-> IF p # Init0 THEN Unused ELSE
       [state |-> "USED", sz |-> PGSIZE, kstack |-> f[1], sp |-> PGSIZE]]
  /\ pgdir = [p \in Procs |-> IF p # Init0 THEN NoDir ELSE
       [NoDir EXCEPT !.dir = f[2], !.ktab = SubSeq(f, 3, 2 + KTABS),
                     !.pte[0] = f[3 + KTABS], !.tab[0] = f[4 + KTABS]]]
  /\ new = [p \in Procs |-> NoDir]
  /\ k = [p \in Procs |-> Idle]
-----------------------------------------------------------------------------
\* Which free page kalloc returns is immaterial: the list is kept sorted.
kfree(seq) == freelist' = SortSeq(seq \o freelist, <)

\* mem = kalloc(), when there is a page.
kalloc == freelist # <<>> /\ freelist' = Tail(freelist)

Set(p, r) == k' = [k EXCEPT ![p] = r]

\* The directory that allocuvm and mappages work on.
Target(p) == IF k[p].op = "grow" THEN pgdir[p] ELSE new[p]

SetTarget(p, d) ==
  IF k[p].op = "grow" THEN pgdir' = [pgdir EXCEPT ![p] = d] /\ UNCHANGED new
  ELSE new' = [new EXCEPT ![p] = d] /\ UNCHANGED pgdir


\* deallocuvm(d, oldsz, newsz): the pages given back, and d without them.
InRange(v, oldsz, newsz) == PGROUNDUP(newsz) <= v /\ v * PGSIZE < oldsz

deallocuvm(d, oldsz, newsz) ==
  [pages |-> Nonzero([i \in 1 .. Cardinality(Pages) |->
               IF InRange(i - 1, oldsz, newsz) THEN d.pte[i - 1] ELSE 0]),
   dir |-> [d EXCEPT !.pte = [v \in Pages |-> IF InRange(v, oldsz, newsz) THEN 0 ELSE @[v]]]]

\* sys_sbrk(n) with n > 0: allocuvm(pgdir, sz, sz + n) begins, or is refused.
sbrkGrow(p) ==
  /\ k[p].pc = "user" /\ proc[p].state = "USED"
  /\ \E n \in Increments :
       /\ n > 0
       /\ (proc[p].sz + n) % W < KERNBASE
       /\ Set(p, [Idle EXCEPT !.pc = "alloc", !.op = "grow", !.a = PGROUNDUP(proc[p].sz),
                              !.oldsz = proc[p].sz, !.newsz = (proc[p].sz + n) % W])
  /\ UNCHANGED <<freelist, proc, pgdir, new>>

\* With n < 0: deallocuvm; below 0 the sum wraps and nothing happens.  To
\* exactly 0 the pages are gone but growproc fails and keeps sz, and the
\* process dies of the fault that follows.
sbrkShrink(p) ==
  LET sz == proc[p].sz IN
  /\ k[p].pc = "user" /\ proc[p].state = "USED"
  /\ \E n \in Increments :
       LET newsz == (sz + n) % W   d == deallocuvm(pgdir[p], sz, newsz) IN
       /\ n < 0 /\ newsz < sz
       /\ kfree(Reverse(d.pages))
       /\ pgdir' = [pgdir EXCEPT ![p] = d.dir]
       /\ proc' = IF newsz = 0 THEN [proc EXCEPT ![p].state = "ZOMBIE"]
                  ELSE [proc EXCEPT ![p].sz = newsz]
  /\ UNCHANGED <<new, k>>

\* fork: allocproc takes a slot and a kernel stack.
fork(p) ==
  /\ k[p].pc = "user" /\ proc[p].state = "USED"
  /\ \E q \in Procs :
       /\ proc[q].state = "UNUSED"
       /\ kalloc
       /\ proc' = [proc EXCEPT ![q] = [Unused EXCEPT !.state = "EMBRYO", !.kstack = Head(freelist)]]
       /\ Set(p, [Idle EXCEPT !.pc = "setupkvm", !.op = "fork", !.child = q, !.newsz = proc[p].sz])
  /\ UNCHANGED <<pgdir, new>>

\* exec of a file that passes for a program.
exec(p) ==
  /\ k[p].pc = "user" /\ proc[p].state = "USED"
  /\ \E image \in Images :
       Set(p, [Idle EXCEPT !.pc = "setupkvm", !.op = "exec", !.segs = Tail(image),
                           !.newsz = Head(image)])
  /\ UNCHANGED <<freelist, proc, pgdir, new>>

\* setupkvm: the directory and the page tables of the kernel part.
setupkvm(p) ==
  /\ k[p].pc = "setupkvm"
  /\ kalloc
  /\ new' = [new EXCEPT ![p] = IF @.dir = 0 THEN [@ EXCEPT !.dir = Head(freelist)]
                               ELSE [@ EXCEPT !.ktab = Append(@, Head(freelist))]]
  /\ Set(p, [k[p] EXCEPT !.pc = IF Len(new'[p].ktab) = KTABS THEN "alloc" ELSE @])
  /\ UNCHANGED <<proc, pgdir>>

\* mem = kalloc() in the loops of allocuvm and copyuvm.
allocPage(p) ==
  /\ k[p].pc = "alloc" /\ k[p].a * PGSIZE < k[p].newsz
  /\ kalloc
  /\ Set(p, [k[p] EXCEPT !.pc = "map", !.mem = Head(freelist)])
  /\ UNCHANGED <<proc, pgdir, new>>

Mapped(p, d) ==
  /\ SetTarget(p, [d EXCEPT !.pte[k[p].a] = k[p].mem])
  /\ Set(p, [k[p] EXCEPT !.pc = "alloc", !.a = @ + 1, !.mem = 0])
  /\ UNCHANGED proc

\* mappages, with the page table there, or with a new one from walkpgdir.
mapPage(p) ==
  /\ k[p].pc = "map" /\ Target(p).tab[PDX(k[p].a)] # 0
  /\ Mapped(p, Target(p))
  /\ UNCHANGED freelist

mapTable(p) ==
  /\ k[p].pc = "map" /\ Target(p).tab[PDX(k[p].a)] = 0
  /\ kalloc
  /\ Mapped(p, [Target(p) EXCEPT !.tab[PDX(k[p].a)] = Head(freelist)])
-----------------------------------------------------------------------------
\* What a failed allocation gives back: allocuvm what it has mapped (and
\* growproc fails), exec its new address space, fork that of the child and the
\* child's kernel stack; and mem, which is not mapped yet.
GiveBackPages(p) ==
  LET d == deallocuvm(pgdir[p], k[p].newsz, k[p].oldsz) IN
  IF k[p].op = "grow"
  THEN [pages |-> Nonzero(<<k[p].mem>>) \o Reverse(d.pages), dir |-> d.dir]
  ELSE [pages |-> FramesOf(new[p]) \o Nonzero(<<k[p].mem>>), dir |-> pgdir[p]]

GiveBack(p) ==
  LET d == GiveBackPages(p) IN
  IF k[p].op = "fork" THEN [d EXCEPT !.pages = <<proc[k[p].child].kstack>> \o @] ELSE d

NeedsPage(p) ==
  \/ k[p].pc = "setupkvm"
  \/ k[p].pc = "alloc" /\ k[p].a * PGSIZE < k[p].newsz
  \/ k[p].pc = "map" /\ Target(p).tab[PDX(k[p].a)] = 0

Abort(p) ==
  /\ kfree(GiveBack(p).pages)
  /\ pgdir' = [pgdir EXCEPT ![p] = GiveBack(p).dir]
  /\ new' = [new EXCEPT ![p] = NoDir]
  /\ proc' = IF k[p].op = "fork" THEN [proc EXCEPT ![k[p].child] = Unused] ELSE proc
  /\ Set(p, Idle)

\* kalloc returned 0.
outOfMemory(p) == NeedsPage(p) /\ freelist = <<>> /\ Abort(p)

AllocDone(p, op) == k[p].op = op /\ k[p].pc = "alloc" /\ ~NeedsPage(p)

growDone(p) ==
  /\ AllocDone(p, "grow")
  /\ proc' = [proc EXCEPT ![p].sz = k[p].newsz]
  /\ Set(p, Idle)
  /\ UNCHANGED <<freelist, pgdir, new>>

forkDone(p) ==
  LET q == k[p].child IN
  /\ AllocDone(p, "fork")
  /\ proc' = [proc EXCEPT ![q] = [proc[p] EXCEPT !.kstack = proc[q].kstack]]
  /\ pgdir' = [pgdir EXCEPT ![q] = [new[p] EXCEPT !.guard = pgdir[p].guard]]
  /\ new' = [new EXCEPT ![p] = NoDir]
  /\ Set(p, Idle)
  /\ UNCHANGED freelist

\* exec's next allocuvm, from where the last one ended: a segment, which may
\* end below that; then, page aligned, the two pages of the stack.
execNext(p) ==
  LET sz == k[p].newsz   segs == k[p].segs   top == PGROUNDUP(sz) * PGSIZE IN
  /\ AllocDone(p, "exec") /\ new[p].guard = -1
  /\ IF segs # <<>>
     THEN /\ Set(p, [k[p] EXCEPT !.a = PGROUNDUP(sz), !.segs = Tail(segs),
                                 !.newsz = IF segs[1] < sz THEN sz ELSE segs[1]])
          /\ UNCHANGED new
     ELSE /\ top + 2 * PGSIZE < KERNBASE
          /\ Set(p, [k[p] EXCEPT !.a = PGROUNDUP(sz), !.newsz = top + 2 * PGSIZE])
          /\ new' = [new EXCEPT ![p].guard = PGROUNDUP(sz)]
  /\ UNCHANGED <<freelist, proc, pgdir>>

\* Where exec's copies of args[1 .. i] end up, from the top of the stack down.
Pushed(top, args, i) == (top - FoldSeq(+, 0, SubSeq(args, 1, i))) % W

copyoutFirst(d, va, n) == va < KERNBASE /\ d.pte[va \div PGSIZE] # 0

\* The n words from va are mapped and accessible to the user: copyout succeeds.
copyout(d, va, n) ==
  \A w \in va .. va + n - 1 :
    w < KERNBASE /\ d.pte[w \div PGSIZE] # 0 /\ w \div PGSIZE # d.guard

\* The strings, then argc, argv and a return address with the argv array.
ArgumentsFit(d, top, args) ==
  /\ \A i \in DOMAIN args : copyout(d, Pushed(top, args, i), args[i])
  /\ copyout(d, (Pushed(top, args, Len(args)) - (4 + Len(args))) % W, 4 + Len(args))

ExecFreesTables(p) == Nonzero(<<pgdir[p].dir>> \o pgdir[p].ktab)

ExecFrees(p) == FramesOf(pgdir[p])

\* Commit to the new image and freevm the old one.
execDone(p) ==
  /\ AllocDone(p, "exec") /\ new[p].guard # -1
  /\ \E args \in Arguments :
       /\ ArgumentsFit(new[p], k[p].newsz, args)
       /\ proc' = [proc EXCEPT ![p].sz = k[p].newsz,
                     ![p].sp = (Pushed(k[p].newsz, args, Len(args)) - (4 + Len(args))) % W]
  /\ kfree(ExecFrees(p))
  /\ pgdir' = [pgdir EXCEPT ![p] = new[p]]
  /\ new' = [new EXCEPT ![p] = NoDir]
  /\ Set(p, Idle)

\* goto bad: the file cannot be read or is no program, or the arguments do not
\* fit on the stack.
execBad(p) ==
  /\ AllocDone(p, "exec")
  /\ new[p].guard = -1 \/ \E args \in Arguments : ~ArgumentsFit(new[p], k[p].newsz, args)
  /\ Abort(p)

exit(p) ==
  /\ p # Init0 /\ k[p].pc = "user" /\ proc[p].state = "USED"
  /\ proc' = [proc EXCEPT ![p].state = "ZOMBIE"]
  /\ UNCHANGED <<freelist, pgdir, new, k>>

\* wait: the zombie's stack and address space.
wait(p) ==
  /\ proc[p].state = "ZOMBIE" /\ p # Init0
  /\ kfree(FramesOf(pgdir[p]) \o <<proc[p].kstack>>)
  /\ pgdir' = [pgdir EXCEPT ![p] = NoDir]
  /\ proc' = [proc EXCEPT ![p] = Unused]
  /\ UNCHANGED <<new, k>>

Next == \E p \in Procs :
  \/ sbrkGrow(p) \/ sbrkShrink(p) \/ fork(p) \/ exec(p) \/ exit(p) \/ wait(p)
  \/ setupkvm(p) \/ allocPage(p) \/ mapPage(p) \/ mapTable(p) \/ outOfMemory(p)
  \/ execBad(p) \/ execNext(p) \/ growDone(p) \/ forkDone(p) \/ execDone(p)

Spec == Init /\ [][Next]_vars
-----------------------------------------------------------------------------
\* All the references to physical pages that the kernel has.
References ==
  freelist \o FlattenSeq([i \in 1 .. Cardinality(Procs) |->
    LET p == SetToSeq(Procs)[i] IN
    Nonzero(<<proc[p].kstack, k[p].mem>>) \o FramesOf(pgdir[p]) \o FramesOf(new[p])])

\* Every physical page is in one place: on the free list, or a kernel stack, a
\* page table or a user page of one address space.  Whatever runs out of memory
\* at whatever page, nothing is lost, shared or freed twice.
FramesExact == IsInjective(References) /\ ToSet(References) = Frames


\* The stack pointer that exec sets is on the stack's page, above the page made
\* inaccessible, whatever the arguments: too many words of them fail in copyout,
\* never reach over the guard page.
StackGuarded ==
  \A p \in Procs : pgdir[p].guard # -1 /\ proc[p].state = "USED" =>
    proc[p].sp \div PGSIZE = pgdir[p].guard + 1
=============================================================================
