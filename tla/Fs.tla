---------------------------------- MODULE Fs ----------------------------------
(***************************************************************************)
(* The inode cache, directories and path names of fs.c, under the system   *)
(* calls of sysfile.c that use them.  A process runs one call at a time;   *)
(* a step is what happens from one blocking acquiresleep on an inode to    *)
(* the next, with the critical sections of icache.lock and of the buffers  *)
(* inside it, except that iput gives up the inode's lock in one step and   *)
(* its reference in another.  Transactions are module Log's.  A directory  *)
(* is a function from names to inode numbers, 0 for an unused entry.       *)
(***************************************************************************)
EXTENDS Naturals, Sequences, FiniteSets, FiniteSetsExt

CONSTANTS Procs, NoProc,
          Inums,       \* inode numbers from 1, ROOTINO
          NINODE,      \* entries of the inode cache
          NOFILE,      \* open files per process
          Names,       \* path elements besides "." and ".."
          Calls,       \* the calls [op, path, new] a process may make
          MaxCalls     \* how many they make together (a bound)

ROOTINO == 1
Slots == 1 .. NINODE
Elements == Names \cup {".", ".."}

VARIABLES
  dinode,    \* on disk: type and nlink of each inode
  dirents,   \* on disk: the entries of each directory
  icache,    \* inum, ref, valid, type, nlink and the holder of the lock
  cwd,       \* current directory, an entry of the cache
  ofile,     \* the cache entries of the open files
  pc,        \* where each process is
  l,         \* its local variables, and what iput is to drop and return to
  calls      \* calls made

vars == <<dinode, dirents, icache, cwd, ofile, pc, l, calls>>

NoEntries == [n \in Elements |-> 0]

FreeInode == [type |-> "free", nlink |-> 0]

Unused == [inum |-> 0, ref |-> 0, valid |-> FALSE, type |-> "free", nlink |-> 0,
           lock |-> NoProc]

NoLocals == [op |-> "", path |-> <<>>, new |-> <<>>, name |-> "", ip |-> 0,
             dp |-> 0, old |-> 0, put |-> 0, ret |-> ""]

\* A file system with the empty directory /a and the file /b.
Init ==
  /\ dinode = [i \in Inums |-> CASE i = ROOTINO -> [type |-> "dir", nlink |-> 2]
                                 [] i = 2 -> [type |-> "dir", nlink |-> 1]
                                 [] i = 3 -> [type |-> "file", nlink |-> 1]
                                 [] OTHER -> FreeInode]
  /\ dirents = [i \in Inums |->
       CASE i = ROOTINO -> [NoEntries EXCEPT !["."] = 1, ![".."] = 1, !["a"] = 2, !["b"] = 3]
         [] i = 2 -> [NoEntries EXCEPT !["."] = 2, ![".."] = 1]
         [] OTHER -> NoEntries]
  /\ icache = [s \in Slots |->
       IF s = 1 THEN [Unused EXCEPT !.inum = ROOTINO, !.ref = Cardinality(Procs)]
       ELSE Unused]
  /\ cwd = [p \in Procs |-> 1]
  /\ ofile = [p \in Procs |-> <<>>]
  /\ pc = [p \in Procs |-> "user"]
  /\ l = [p \in Procs |-> NoLocals]
  /\ calls = 0
-----------------------------------------------------------------------------
idupForgotten(c, s) == c

idup(c, s) == [c EXCEPT ![s].ref = @ + 1]

\* The entry iget returns for inode i: the one in use for i, or else the first
\* that is free, or 0; and the cache after iget.
Cached(i) == {s \in Slots : icache[s].ref > 0 /\ icache[s].inum = i}

igetSlot(i) ==
  LET empty == {s \in Slots : icache[s].ref = 0} IN
  IF Cached(i) # {} THEN Min(Cached(i)) ELSE IF empty # {} THEN Min(empty) ELSE 0

iget(c, s, i) ==
  IF c[s].ref > 0 THEN idup(c, s)
  ELSE [c EXCEPT ![s] = [Unused EXCEPT !.inum = i, !.ref = 1]]

\* The entry after ilock has read the inode, if it was not valid.
Load(s) ==
  LET i == icache[s].inum IN
  IF icache[s].valid THEN icache[s]
  ELSE [icache[s] EXCEPT !.valid = TRUE, !.type = dinode[i].type, !.nlink = dinode[i].nlink]

\* skipelem: the next element of a path, and the rest of it.
skipelem(path) == [name |-> Head(path), path |-> Tail(path)]

\* The inode that directory i has under a name, and the directories with an
\* entry more.
dirlookup(i, name) == dirents[i][name]
dirlink(d, i, name, inum) == [d EXCEPT ![i][name] = inum]

\* The first free inode on disk, 0 if there is none.
ialloc ==
  LET free == {j \in Inums : dinode[j].type = "free"} IN IF free = {} THEN 0 ELSE Min(free)

\* The kernel goes on at label to with locals r; back in user mode it has none.
Goto(p, to, r) ==
  /\ pc' = [pc EXCEPT ![p] = to]
  /\ l' = [l EXCEPT ![p] = IF to = "user" THEN NoLocals ELSE r]

\* The step's effect on the disk, the cache and the process's open files.
Effect(d, e, c, o) == dinode' = d /\ dirents' = e /\ icache' = c /\ ofile' = o

Cache(c) == Effect(dinode, dirents, c, ofile)

\* The CPU stops where it is.
panic(p, msg) == Cache(icache) /\ Goto(p, "panic", [l[p] EXCEPT !.ret = msg])

\* iput(s), then on at label ret with locals r.
Iput(p, s, ret, r) == Goto(p, "iput", [r EXCEPT !.put = s, !.ret = ret])

\* ilock(s) and then A.
WithIlock(p, s, A) ==
  /\ icache[s].lock = NoProc
  /\ IF Load(s).type = "free" THEN panic(p, "ilock: no type") ELSE A

\* iget(i) and then A.
WithIget(p, i, A) ==
  IF igetSlot(i) = 0 THEN panic(p, "iget: no inodes") ELSE A

\* Where a name that is not found leads.
Fail(p) == IF l[p].op = "link2" THEN "linkbad" ELSE "user"

\* namex(path) starts at the root or at the current directory; c is the cache.
Namex(p, path, r, c) ==
  LET s == igetSlot(ROOTINO) IN
  IF path # <<>> /\ Head(path) = "/"
  THEN WithIget(p, ROOTINO, Cache(iget(c, s, ROOTINO))
                            /\ Goto(p, "namex", [r EXCEPT !.path = Tail(path), !.ip = s]))
  ELSE /\ Cache(idup(c, cwd[p]))
       /\ Goto(p, "namex", [r EXCEPT !.path = path, !.ip = cwd[p]])

\* A process enters the kernel with one of the calls on path names.
syscall(p) ==
  /\ pc[p] = "user" /\ calls < MaxCalls
  /\ calls' = calls + 1
  /\ \E c \in Calls :
       Namex(p, c.path, [NoLocals EXCEPT !.op = c.op, !.new = c.new], icache)
  /\ UNCHANGED cwd

\* nameiparent, as opposed to namei; and the code that called it.
Creates(p) == l[p].op \in {"creat", "mkdir", "mknod"}
Parent(p) == Creates(p) \/ l[p].op \in {"link2", "unlink"}
Found(p) == IF Creates(p) THEN "create" ELSE l[p].op

\* One turn of namex's loop: look the next element up, get its inode, drop the
\* directory.  nameiparent stops one element early.
namex(p) ==
  LET ip == l[p].ip   path == l[p].path   e == Load(ip)
      next == skipelem(path)   last == Parent(p) /\ next.path = <<>>
      i == dirlookup(e.inum, next.name)   s == igetSlot(i)
      c == [icache EXCEPT ![ip] = e]
  IN
  /\ pc[p] = "namex" /\ path # <<>>
  /\ WithIlock(p, ip,
       \/ /\ e.type # "dir" \/ (~last /\ i = 0)
          /\ Cache(c) /\ Iput(p, ip, Fail(p), [l[p] EXCEPT !.ip = 0])
       \/ /\ e.type = "dir" /\ last
          /\ Cache(c)
          /\ Goto(p, Found(p), [l[p] EXCEPT !.path = <<>>, !.name = next.name,
                                           !.dp = ip, !.ip = 0])
       \/ /\ e.type = "dir" /\ ~last /\ i # 0
          /\ WithIget(p, i, Cache(iget(c, s, i))
                /\ Iput(p, ip, "namex", [l[p] EXCEPT !.path = next.path, !.ip = s])))
  /\ UNCHANGED <<cwd, calls>>

\* The end of the path.
namexEnd(p) ==
  /\ pc[p] = "namex" /\ l[p].path = <<>>
  /\ IF Parent(p) THEN Iput(p, l[p].ip, Fail(p), [l[p] EXCEPT !.ip = 0])
     ELSE Goto(p, Found(p), l[p])
  /\ UNCHANGED <<dinode, dirents, icache, cwd, ofile, calls>>
-----------------------------------------------------------------------------
LastLinked(e) == e.valid /\ e.ref = 1

LastReferenced(e) == e.valid /\ e.nlink = 0

\* if(ip->valid && ip->nlink == 0) ... if(r == 1)
Last(e) == e.valid /\ e.nlink = 0 /\ e.ref = 1

\* iput, the part under the inode's lock: with no link and no other reference
\* the inode is truncated and freed.
iput(p) ==
  LET s == l[p].put   e == icache[s]   i == e.inum IN
  /\ pc[p] = "iput" /\ e.lock = NoProc
  /\ IF Last(e) THEN Effect([dinode EXCEPT ![i] = FreeInode], [dirents EXCEPT ![i] = NoEntries],
                          [icache EXCEPT ![s].valid = FALSE], ofile)
     ELSE Cache(icache)
  /\ Goto(p, "iputref", l[p])
  /\ UNCHANGED <<cwd, calls>>

\* ip->ref--, and the return from iput.
iputref(p) ==
  LET s == l[p].put IN
  /\ pc[p] = "iputref"
  /\ Cache([icache EXCEPT ![s] = IF @.ref = 1 THEN Unused ELSE [@ EXCEPT !.ref = @ - 1]])
  /\ Goto(p, l[p].ret, [l[p] EXCEPT !.put = 0, !.ret = ""])
  /\ UNCHANGED <<cwd, calls>>

\* sys_open's end, with ip locked (c: the cache with ip unlocked): filealloc and
\* fdalloc, or else iunlockput.
Open(p, ip, c) ==
  IF Len(ofile[p]) < NOFILE
  THEN /\ Effect(dinode, dirents, c, [ofile EXCEPT ![p] = Append(@, ip)])
       /\ Goto(p, "user", NoLocals)
  ELSE Cache(c) /\ Iput(p, ip, "user", [l[p] EXCEPT !.ip = 0])

\* sys_open without O_CREATE; a directory opens for reading only.
open(p) ==
  LET ip == l[p].ip   e == Load(ip)   c == [icache EXCEPT ![ip] = e] IN
  /\ pc[p] \in {"open", "openw"}
  /\ WithIlock(p, ip, IF e.type = "dir" /\ l[p].op = "openw"
                      THEN Cache(c) /\ Iput(p, ip, "user", [l[p] EXCEPT !.ip = 0])
                      ELSE Open(p, ip, c))
  /\ UNCHANGED <<cwd, calls>>

\* create, with dp locked: the name exists, or an inode is allocated for it.
create(p) ==
  LET dp == l[p].dp   e == Load(dp)   i == dirlookup(e.inum, l[p].name)
      c == [icache EXCEPT ![dp] = e]
      new == ialloc
      type == CASE l[p].op = "creat" -> "file" [] l[p].op = "mkdir" -> "dir"
                [] l[p].op = "mknod" -> "dev"
  IN
  /\ pc[p] = "create"
  /\ WithIlock(p, dp,
       \/ /\ i # 0
          /\ WithIget(p, i, Cache(iget(c, igetSlot(i), i))
                /\ Iput(p, dp, "exists", [l[p] EXCEPT !.ip = igetSlot(i), !.dp = 0]))
       \/ /\ i = 0
          /\ IF new = 0 THEN panic(p, "ialloc: no inodes")
             ELSE WithIget(p, new,
               /\ Effect([dinode EXCEPT ![new] = [type |-> type, nlink |-> 0]], dirents,
                         iget([c EXCEPT ![dp].lock = p], igetSlot(new), new), ofile)
               /\ Goto(p, "createip", [l[p] EXCEPT !.ip = igetSlot(new)])))
  /\ UNCHANGED <<cwd, calls>>

\* The name exists: good for O_CREATE of a file only.
exists(p) ==
  LET ip == l[p].ip   e == Load(ip)   c == [icache EXCEPT ![ip] = e] IN
  /\ pc[p] = "exists"
  /\ WithIlock(p, ip, IF l[p].op = "creat" /\ e.type = "file" THEN Open(p, ip, c)
                      ELSE Cache(c) /\ Iput(p, ip, "user", [l[p] EXCEPT !.ip = 0]))
  /\ UNCHANGED <<cwd, calls>>

\* ilock the new inode, link it, and iunlockput the directory.
createip(p) ==
  LET ip == l[p].ip   dp == l[p].dp   e == Load(ip)   i == e.inum   d == icache[dp].inum
      sub == IF e.type = "dir" THEN 1 ELSE 0
  IN
  /\ pc[p] = "createip"
  /\ WithIlock(p, ip,
       /\ Effect([dinode EXCEPT ![i].nlink = 1, ![d].nlink = icache[dp].nlink + sub],
                 dirlink(IF sub = 0 THEN dirents
                         ELSE dirlink(dirlink(dirents, i, ".", i), i, "..", d), d, l[p].name, i),
                 [icache EXCEPT ![ip] = [e EXCEPT !.nlink = 1, !.lock = p],
                                ![dp].nlink = @ + sub, ![dp].lock = NoProc],
                 ofile)
       /\ Iput(p, dp, "created", [l[p] EXCEPT !.dp = 0]))
  /\ UNCHANGED <<cwd, calls>>

\* The caller of create: sys_open goes on, sys_mkdir and sys_mknod are done.
created(p) ==
  LET ip == l[p].ip   c == [icache EXCEPT ![ip].lock = NoProc] IN
  /\ pc[p] = "created"
  /\ IF l[p].op = "creat" THEN Open(p, ip, c)
     ELSE Cache(c) /\ Iput(p, ip, "user", [l[p] EXCEPT !.ip = 0])
  /\ UNCHANGED <<cwd, calls>>
-----------------------------------------------------------------------------
\* ip->nlink = n; iupdate(ip); iunlock(ip)
SetNlink(ip, e, n) ==
  Effect([dinode EXCEPT ![e.inum].nlink = n], dirents,
         [icache EXCEPT ![ip] = [e EXCEPT !.nlink = n, !.lock = NoProc]], ofile)

\* sys_link, first half: the old name's inode gets a link more.
link(p) ==
  LET ip == l[p].ip   e == Load(ip) IN
  /\ pc[p] = "link"
  /\ WithIlock(p, ip,
       IF e.type = "dir"
       THEN /\ Cache([icache EXCEPT ![ip] = e])
            /\ Iput(p, ip, "user", [l[p] EXCEPT !.ip = 0])
       ELSE /\ SetNlink(ip, e, e.nlink + 1)
            /\ Goto(p, "linknew", [l[p] EXCEPT !.op = "link2", !.ip = 0, !.old = ip]))
  /\ UNCHANGED <<cwd, calls>>

linknew(p) ==
  /\ pc[p] = "linknew"
  /\ Namex(p, l[p].new, [l[p] EXCEPT !.new = <<>>], icache)
  /\ UNCHANGED <<cwd, calls>>

\* dirlink(dp, name, ip->inum): a name that exists is dropped under dp's lock.
link2(p) ==
  LET dp == l[p].dp   e == Load(dp)   i == dirlookup(e.inum, l[p].name)
      c == [icache EXCEPT ![dp] = e]
  IN
  /\ pc[p] = "link2"
  /\ WithIlock(p, dp,
       \/ /\ i # 0
          /\ WithIget(p, i, Cache(iget([c EXCEPT ![dp].lock = p], igetSlot(i), i))
                            /\ Iput(p, igetSlot(i), "linkexists", l[p]))
       \/ /\ i = 0
          /\ Effect(dinode, dirlink(dirents, e.inum, l[p].name, icache[l[p].old].inum), c, ofile)
          /\ Iput(p, dp, "linked", [l[p] EXCEPT !.dp = 0]))
  /\ UNCHANGED <<cwd, calls>>

linkexists(p) ==
  /\ pc[p] = "linkexists"
  /\ Cache([icache EXCEPT ![l[p].dp].lock = NoProc])
  /\ Iput(p, l[p].dp, "linkbad", [l[p] EXCEPT !.dp = 0])
  /\ UNCHANGED <<cwd, calls>>

\* bad: take the link back.
linkbad(p) ==
  LET ip == l[p].old   e == Load(ip) IN
  /\ pc[p] = "linkbad"
  /\ WithIlock(p, ip, SetNlink(ip, e, e.nlink - 1)
                      /\ Iput(p, ip, "user", [l[p] EXCEPT !.old = 0]))
  /\ UNCHANGED <<cwd, calls>>

linked(p) ==
  /\ pc[p] = "linked"
  /\ Iput(p, l[p].old, "user", [l[p] EXCEPT !.old = 0])
  /\ UNCHANGED <<dinode, dirents, icache, cwd, ofile, calls>>
-----------------------------------------------------------------------------
isdirempty(i) == \A n \in Names : dirents[i][n] = 0

\* sys_unlink with dp locked.
unlink(p) ==
  LET dp == l[p].dp   e == Load(dp)   i == dirlookup(e.inum, l[p].name)
      c == [icache EXCEPT ![dp] = e]
  IN
  /\ pc[p] = "unlink"
  /\ WithIlock(p, dp,
       \/ /\ l[p].name \in {".", ".."} \/ i = 0
          /\ Cache(c) /\ Iput(p, dp, "user", [l[p] EXCEPT !.dp = 0])
       \/ /\ l[p].name \notin {".", ".."} /\ i # 0
          /\ WithIget(p, i, Cache(iget([c EXCEPT ![dp].lock = p], igetSlot(i), i))
                            /\ Goto(p, "unlinkip", [l[p] EXCEPT !.ip = igetSlot(i)])))
  /\ UNCHANGED <<cwd, calls>>

\* With both locked: erase the entry, and iunlockput the directory.
unlinkip(p) ==
  LET ip == l[p].ip   dp == l[p].dp   e == Load(ip)   d == icache[dp].inum
      sub == IF e.type = "dir" THEN 1 ELSE 0
  IN
  /\ pc[p] = "unlinkip"
  /\ WithIlock(p, ip,
       IF e.nlink < 1 THEN panic(p, "unlink: nlink < 1")
       ELSE IF e.type = "dir" /\ ~isdirempty(e.inum)
       THEN /\ Cache([icache EXCEPT ![ip] = e])
            /\ Iput(p, ip, "unlinkbad", [l[p] EXCEPT !.ip = 0])
       ELSE /\ Effect([dinode EXCEPT ![d].nlink = icache[dp].nlink - sub],
                      [dirents EXCEPT ![d][l[p].name] = 0],
                      [icache EXCEPT ![ip] = [e EXCEPT !.lock = p],
                                     ![dp].nlink = @ - sub, ![dp].lock = NoProc], ofile)
            /\ Iput(p, dp, "unlinked", [l[p] EXCEPT !.dp = 0]))
  /\ UNCHANGED <<cwd, calls>>

unlinkbad(p) ==
  /\ pc[p] = "unlinkbad"
  /\ Cache([icache EXCEPT ![l[p].dp].lock = NoProc])
  /\ Iput(p, l[p].dp, "user", [l[p] EXCEPT !.dp = 0])
  /\ UNCHANGED <<cwd, calls>>

\* ip->nlink--, and iunlockput.
unlinked(p) ==
  LET ip == l[p].ip IN
  /\ pc[p] = "unlinked"
  /\ SetNlink(ip, icache[ip], icache[ip].nlink - 1)
  /\ Iput(p, ip, "user", [l[p] EXCEPT !.ip = 0])
  /\ UNCHANGED <<cwd, calls>>

\* sys_chdir: the old directory is dropped before the new one is in place.
chdir(p) ==
  LET ip == l[p].ip   e == Load(ip) IN
  /\ pc[p] = "chdir"
  /\ WithIlock(p, ip,
       /\ Cache([icache EXCEPT ![ip] = e])
       /\ IF e.type = "dir" THEN Iput(p, cwd[p], "chdired", l[p])
          ELSE Iput(p, ip, "user", [l[p] EXCEPT !.ip = 0]))
  /\ UNCHANGED <<cwd, calls>>

chdired(p) ==
  /\ pc[p] = "chdired"
  /\ cwd' = [cwd EXCEPT ![p] = l[p].ip]
  /\ Goto(p, "user", NoLocals)
  /\ UNCHANGED <<dinode, dirents, icache, ofile, calls>>

\* sys_close of the last descriptor: fileclose drops the inode.
close(p) ==
  /\ pc[p] = "user" /\ ofile[p] # <<>>
  /\ Effect(dinode, dirents, icache, [ofile EXCEPT ![p] = Tail(@)])
  /\ Iput(p, Head(ofile[p]), "user", NoLocals)
  /\ UNCHANGED <<cwd, calls>>

Step(p) ==
  \/ syscall(p) \/ namex(p) \/ namexEnd(p) \/ iput(p) \/ iputref(p) \/ open(p)
  \/ create(p) \/ exists(p) \/ createip(p) \/ created(p)
  \/ link(p) \/ linknew(p) \/ link2(p) \/ linkexists(p) \/ linkbad(p) \/ linked(p)
  \/ unlink(p) \/ unlinkip(p) \/ unlinkbad(p) \/ unlinked(p)
  \/ chdir(p) \/ chdired(p) \/ close(p)

Next == \E p \in Procs : Step(p)

Spec == Init /\ [][Next]_vars
-----------------------------------------------------------------------------
\* The pointers a process has to a cache entry: its current directory, its open
\* files, and the local variables of the call it is in.
Pointers(p, s) ==
  Cardinality({j \in DOMAIN ofile[p] : ofile[p][j] = s})
  + Cardinality({f \in {"ip", "dp", "old", "put"} : l[p][f] = s})
  + (IF cwd[p] = s /\ l[p].ret # "chdired" /\ pc[p] # "chdired" THEN 1 ELSE 0)

\* ip->ref "tracks the number of in-memory pointers to the entry (open files
\* and current directories)" (fs.c), the local variables of the calls in
\* progress included: no error path keeps or drops one too many.
RefsExact ==
  \A s \in Slots :
    icache[s].ref = MapThenSumSet(LAMBDA p : Pointers(p, s), Procs)

\* What a directory with a name still names is not freed, and has as many links
\* as there are such entries: itrunc is "only called when the inode has no links
\* to it" (fs.c).
LinksCounted ==
  \A i \in Inums \ {ROOTINO} :
    LET entries == {<<d, n>> \in Inums \X Names :
                      dinode[d].type = "dir" /\ dinode[d].nlink > 0 /\ dirents[d][n] = i}
    IN entries # {} => dinode[i].type # "free" /\ dinode[i].nlink >= Cardinality(entries)

\* An open file or a current directory is never freed under its user ("and has
\* no in-memory reference to it (is not an open file or current directory)").
InUseAllocated ==
  \A p \in Procs :
    /\ \A j \in DOMAIN ofile[p] : dinode[icache[ofile[p][j]].inum].type # "free"
    /\ l[p].ret # "chdired" /\ pc[p] # "chdired" => dinode[icache[cwd[p]].inum].type # "free"

\* The inode lock a process waits for.
Waits(p) ==
  CASE pc[p] = "iput" -> l[p].put
    [] pc[p] \in {"create", "link2", "unlink"} -> l[p].dp
    [] pc[p] = "linkbad" -> l[p].old
    [] pc[p] \in {"open", "openw", "exists", "createip", "link", "unlinkip", "chdir"}
         \/ (pc[p] = "namex" /\ l[p].path # <<>>) -> l[p].ip
    [] OTHER -> 0

\* No processes wait for each other's inode locks ("helps avoid deadlock and
\* races during pathname lookup", fs.c).
NoDeadlock ==
  \A S \in (SUBSET Procs) \ {{}} :
    ~ \A p \in S : Waits(p) # 0 /\ icache[Waits(p)].lock \in S
=============================================================================
