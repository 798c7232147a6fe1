----------------------------------- MODULE Sh -----------------------------------
(***************************************************************************)
(* The shell, sh.c: its parser, against the grammar that it is meant to     *)
(* accept, and the descriptors that runcmd gives each program it starts.    *)
(* A line is a sequence of tokens; white space and the letters of a word    *)
(* are left out.  Words are told apart by their place in the line.          *)
(***************************************************************************)
EXTENDS Integers, Sequences, FiniteSets, FiniteSetsExt, SequencesExt, Functions

CONSTANTS MAXARGS,
          MaxTokens, MaxSymbols   \* bounds on a line: all tokens, and those not words

Tokens == {"a", "|", "(", ")", ";", "&", "<", ">", ">>"}

VARIABLE ts    \* the line

Init == ts = <<>>
Next ==
  /\ Len(ts) < MaxTokens
  /\ \E t \in Tokens :
       /\ t # "a" => Cardinality({i \in DOMAIN ts : ts[i] # "a"}) < MaxSymbols
       /\ ts' = Append(ts, t)
Spec == Init /\ [][Next]_ts
-----------------------------------------------------------------------------
\* A parsing function returns the command and the place where it stopped;
\* panic() ends the parse, and the rest of the functions pass it on.
panic == [cmd |-> [type |-> "panic"], at |-> 0]
Panics(r) == r.at = 0

execcmd(argv) == [type |-> "EXEC", argv |-> argv]
redircmd(cmd, file, fd) == [type |-> "REDIR", cmd |-> cmd, file |-> file, fd |-> fd]
pipecmd(left, right, id) == [type |-> "PIPE", left |-> left, right |-> right, id |-> id]
listcmd(left, right) == [type |-> "LIST", left |-> left, right |-> right]
backcmd(cmd) == [type |-> "BACK", cmd |-> cmd]

gettoken(at) == IF at > Len(ts) THEN "0" ELSE ts[at]
peek(at, toks) == gettoken(at) \in toks

RECURSIVE parseline(_), parsepipe(_), parseexec(_), parseredirs(_), parseargs(_, _), parsebacks(_)

\* parseredirs collects the redirections; Redirect wraps them, the last one
\* outermost.
Joined(redirs, more) == [redirs |-> redirs \o more.redirs, at |-> more.at]

parseredirs(at) ==
  IF ~peek(at, {"<", ">", ">>"}) THEN [redirs |-> <<>>, at |-> at]
  ELSE IF gettoken(at + 1) # "a" THEN [redirs |-> <<>>, at |-> 0]
  ELSE Joined(<<[file |-> at + 1, fd |-> IF gettoken(at) = "<" THEN 0 ELSE 1]>>, parseredirs(at + 2))

Redirect(cmd, redirs) == FoldLeft(LAMBDA c, x : redircmd(c, x.file, x.fd), cmd, redirs)

\* parseblock: a line, then the parenthesis, then redirections.
Redirected(cmd, after) ==
  IF Panics(after) THEN panic ELSE [cmd |-> Redirect(cmd, after.redirs), at |-> after.at]

Enclosed(line) ==
  IF Panics(line) \/ ~peek(line.at, {")"}) THEN panic
  ELSE Redirected(line.cmd, parseredirs(line.at + 1))

parseblock(at) == Enclosed(parseline(at + 1))

\* The loop of parseexec over the words, with the redirections between them.
parseargs(argv, before) ==
  IF Panics(before) THEN panic
  ELSE IF peek(before.at, {"|", ")", "&", ";", "0"}) THEN Redirected(execcmd(argv), before)
  ELSE IF gettoken(before.at) # "a" \/ Len(argv) + 1 >= MAXARGS THEN panic
  ELSE parseargs(Append(argv, before.at), Joined(before.redirs, parseredirs(before.at + 1)))

parseexec(at) == IF peek(at, {"("}) THEN parseblock(at) ELSE parseargs(<<>>, parseredirs(at))

\* parsepipe and parseline: what follows the symbol is parsed by the same function.
PipeTo(left, right) ==
  IF Panics(right) THEN panic
  ELSE [cmd |-> pipecmd(left.cmd, right.cmd, left.at), at |-> right.at]

Piped(left) ==
  IF Panics(left) \/ ~peek(left.at, {"|"}) THEN left ELSE PipeTo(left, parsepipe(left.at + 1))

parsepipe(at) == Piped(parseexec(at))

OneBack(r) == IF peek(r.at, {"&"}) THEN [cmd |-> backcmd(r.cmd), at |-> r.at + 1] ELSE r

parsebacks(r) ==
  IF peek(r.at, {"&"}) THEN parsebacks([cmd |-> backcmd(r.cmd), at |-> r.at + 1]) ELSE r

Sequenced(left, right) ==
  IF Panics(right) THEN panic ELSE [cmd |-> listcmd(left.cmd, right.cmd), at |-> right.at]

Listed(cmd) == IF peek(cmd.at, {";"}) THEN Sequenced(cmd, parseline(cmd.at + 1)) ELSE cmd

Lined(first) == IF Panics(first) THEN panic ELSE Listed(parsebacks(first))

parseline(at) == Lined(parsepipe(at))

\* parsecmd: nothing may be left over.
Complete(r) == IF r.at = Len(ts) + 1 THEN r ELSE panic

parsecmd == Complete(parseline(1))
-----------------------------------------------------------------------------
\* runcmd, with the descriptors of the process: the programs that are started
\* in the end, each with the descriptors it is given.  open, dup and pipe take
\* the lowest descriptor that is free.
Close(f, d) == Restrict(f, DOMAIN f \ {d})
Lowest(f) == Min(0 .. 9 \ DOMAIN f)
Open(f, x) == [d \in DOMAIN f \cup {Lowest(f)} |-> IF d \in DOMAIN f THEN f[d] ELSE x]

ReadEnd(id) == <<"read", id>>
WriteEnd(id) == <<"write", id>>

PipeChildKeeps(f, p0, p1, d, x) == Close(Open(Close(f, d), x), p0)

\* The child of a PIPE command: descriptor d becomes one end of the pipe, and
\* both p[0] and p[1] are closed.
PipeChild(f, p0, p1, d, x) == Close(Close(Open(Close(f, d), x), p0), p1)

\* pipe() takes p[0] and p[1]; the descriptors of the process afterwards.
Piping(f, id) ==
  LET f0 == Open(f, ReadEnd(id)) IN
  [p0 |-> Lowest(f), p1 |-> Lowest(f0), fds |-> Open(f0, WriteEnd(id))]

RECURSIVE runcmd(_, _)
RunPipe(cmd, p) ==
  runcmd(cmd.left, PipeChild(p.fds, p.p0, p.p1, 1, WriteEnd(cmd.id)))
    \cup runcmd(cmd.right, PipeChild(p.fds, p.p0, p.p1, 0, ReadEnd(cmd.id)))

runcmd(cmd, f) ==
  CASE cmd.type = "EXEC" -> IF cmd.argv = <<>> THEN {} ELSE {[argv |-> cmd.argv, fds |-> f]}
    [] cmd.type = "REDIR" -> runcmd(cmd.cmd, Open(Close(f, cmd.fd), <<"file", cmd.file>>))
    [] cmd.type = "LIST" -> runcmd(cmd.left, f) \cup runcmd(cmd.right, f)
    [] cmd.type = "BACK" -> runcmd(cmd.cmd, f)
    [] cmd.type = "PIPE" -> RunPipe(cmd, Piping(f, cmd.id))

\* main makes sure that 0, 1 and 2 are open.
Console == [d \in 0 .. 2 |-> <<"console", 0>>]
-----------------------------------------------------------------------------
\* The grammar, on its own: items of a simple command, redirections of a block.
RECURSIVE IsItems(_, _), IsPipe(_), IsBacked(_), IsLine(_)
IsItems(s, words) ==
  \/ s = <<>>
  \/ words /\ s[1] = "a" /\ IsItems(Tail(s), words)
  \/ s[1] \in {"<", ">", ">>"} /\ Len(s) > 1 /\ s[2] = "a" /\ IsItems(SubSeq(s, 3, Len(s)), words)

Words(s) == Cardinality({i \in DOMAIN s : s[i] = "a" /\ (i = 1 \/ s[i - 1] \notin {"<", ">", ">>"})})

IsSimple(s) == IsItems(s, TRUE) /\ Words(s) < MAXARGS

IsBlock(s) ==
  \E j \in DOMAIN s :
    /\ j > 1 /\ s[1] = "(" /\ s[j] = ")"
    /\ IsLine(SubSeq(s, 2, j - 1)) /\ IsItems(SubSeq(s, j + 1, Len(s)), FALSE)

IsPipe(s) ==
  \/ IsSimple(s) \/ IsBlock(s)
  \/ \E i \in DOMAIN s :
       LET left == SubSeq(s, 1, i - 1) IN
       s[i] = "|" /\ (IsSimple(left) \/ IsBlock(left)) /\ IsPipe(SubSeq(s, i + 1, Len(s)))

IsBacked(s) == IsPipe(s) \/ (s # <<>> /\ Last(s) = "&" /\ IsBacked(Front(s)))

IsLine(s) ==
  \/ IsBacked(s)
  \/ \E i \in DOMAIN s :
       s[i] = ";" /\ IsBacked(SubSeq(s, 1, i - 1)) /\ IsLine(SubSeq(s, i + 1, Len(s)))

\* The places of the words of a command, arguments and files.
RECURSIVE WordsOf(_)
WordsOf(cmd) ==
  CASE cmd.type = "EXEC" -> ToSet(cmd.argv)
    [] cmd.type = "REDIR" -> WordsOf(cmd.cmd) \cup {cmd.file}
    [] cmd.type = "BACK" -> WordsOf(cmd.cmd)
    [] OTHER -> WordsOf(cmd.left) \cup WordsOf(cmd.right)

\* parsecmd, a recursive descent without backtracking, accepts exactly the lines
\* of the grammar, and every word of the line has its place in the command.
ShParses ==
  \A r \in {parsecmd} :
    /\ ~Panics(r) <=> IsLine(ts)
    /\ ~Panics(r) => WordsOf(r.cmd) = {i \in DOMAIN ts : ts[i] = "a"}

\* Every program that a line starts has the descriptors 0, 1 and 2 and no other:
\* an end of a pipe left open in one of them would keep its reader from ever
\* seeing the end of file.  0 is never a pipe's write end, nor 1 a read end.
ShPlumbs ==
  \A r \in {parsecmd} : ~Panics(r) =>
    \A x \in runcmd(r.cmd, Console) :
      /\ DOMAIN x.fds = 0 .. 2
      /\ x.fds[0][1] # "write" /\ x.fds[1][1] # "read" /\ x.fds[2] = Console[2]
=============================================================================
