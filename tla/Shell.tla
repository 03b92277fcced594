-------------------------------- MODULE Shell --------------------------------
(***************************************************************************)
(* The shell, sh.c: the recursive-descent parser, checked against a grammar *)
(* of the command language, and the processes, pipes and waits by which     *)
(* runcmd() runs what was parsed.                                           *)
(*                                                                          *)
(* A word stands for itself by its place <<q, eq>> in the line, as in the   *)
(* code.  A program that was exec'ed reads its standard input to the end if *)
(* that is a pipe, and exits.                                               *)
(***************************************************************************)
EXTENDS Integers, Sequences, FiniteSets, FiniteSetsExt, SequencesExt

CONSTANTS
  Char,      \* characters of a line: "a", " ", the symbols, and "cd" for those two
  MaxLine,   \* bound: characters of the line
  MAXARGS

VARIABLES
  buf,       \* the line
  procs,     \* processes, the shell first: [pc, cmd, parent, fds, back]
  failed     \* history: a fork() or pipe() has failed

vars == <<buf, procs, failed>>

Symbols == {"<", "|", ">", "&", ";", "(", ")"}
es == Len(buf) + 1
At(i) == IF i < es THEN buf[i] ELSE "nul"

execcmd(argv) == [type |-> "exec", argv |-> argv]
redircmd(cmd, file, fd) == [type |-> "redir", cmd |-> cmd, file |-> file, fd |-> fd]
pipecmd(l, r) == [type |-> "pipe", left |-> l, right |-> r]
listcmd(l, r) == [type |-> "list", left |-> l, right |-> r]
backcmd(cmd) == [type |-> "back", cmd |-> cmd]
Panic == [type |-> "panic"]
-----------------------------------------------------------------------------
(***************************************************************************)
(* The parser.  Its functions return what they parsed and where they are.   *)
(***************************************************************************)
Skip(i) == Min({j \in i .. es : At(j) # " "})

WordEnd(i) == Min({j \in i .. es : At(j) \in {" ", "nul"} \cup Symbols})

gettoken(i) ==
  LET q == Skip(i)
      append == At(q) = ">" /\ At(q + 1) = ">"
      eq == CASE At(q) = "nul" -> q
              [] append -> q + 2
              [] At(q) \in Symbols -> q + 1
              [] OTHER -> WordEnd(q)
  IN [tok |-> IF append THEN "+" ELSE IF At(q) \in Symbols \cup {"nul"} THEN At(q) ELSE "a",
      word |-> <<q, eq>>, at |-> Skip(eq)]

peek(i, toks) == At(Skip(i)) \in toks

Parsed(cmd, i) == [cmd |-> cmd, at |-> i]

RECURSIVE parseredirs(_, _)
parseredirs(cmd, i) ==
  IF ~peek(i, {"<", ">"}) THEN Parsed(cmd, i)
  ELSE LET op == gettoken(i)
           file == gettoken(op.at)
       IN IF file.tok # "a" THEN Parsed(Panic, i)
          ELSE parseredirs(redircmd(cmd, file.word, IF op.tok = "<" THEN 0 ELSE 1), file.at)

\* The innermost command, which parseexec() reaches through its pointer
RECURSIVE WithArgs(_, _)
WithArgs(cmd, argv) ==
  IF cmd.type = "redir" THEN [cmd EXCEPT !.cmd = WithArgs(@, argv)] ELSE execcmd(argv)

\* The loop of parseexec(), from a redirected command and the words so far
RECURSIVE ParseArgs(_, _)
ParseArgs(ret, argv) ==
  LET t == gettoken(ret.at) IN
  IF ret.cmd = Panic THEN ret
  ELSE IF peek(ret.at, {"|", ")", "&", ";"}) \/ t.tok = "nul"
  THEN Parsed(WithArgs(ret.cmd, argv), ret.at)
  ELSE IF t.tok # "a" \/ Len(argv) + 1 >= MAXARGS THEN Parsed(Panic, ret.at)
  ELSE ParseArgs(parseredirs(ret.cmd, t.at), Append(argv, t.word))

RECURSIVE Backs(_)
Backs(p) ==
  IF p.cmd # Panic /\ peek(p.at, {"&"})
  THEN Backs(Parsed(backcmd(p.cmd), gettoken(p.at).at)) ELSE p

\* What was parsed before a ";" or "|", and what was parsed after it
Listed(p, rest) == IF rest.cmd = Panic THEN rest ELSE Parsed(listcmd(p.cmd, rest.cmd), rest.at)
Piped(p, rest) == IF rest.cmd = Panic THEN rest ELSE Parsed(pipecmd(p.cmd, rest.cmd), rest.at)

Goes(p, tok) == p.cmd # Panic /\ peek(p.at, {tok})

RECURSIVE parseline(_), parsepipe(_), parseexec(_), parseblock(_)
LineFrom(p) == IF Goes(p, ";") THEN Listed(p, parseline(gettoken(p.at).at)) ELSE p
PipeFrom(p) == IF Goes(p, "|") THEN Piped(p, parsepipe(gettoken(p.at).at)) ELSE p
BlockFrom(p) ==
  IF Goes(p, ")") THEN parseredirs(p.cmd, gettoken(p.at).at) ELSE Parsed(Panic, p.at)

parseline(i) == LineFrom(Backs(parsepipe(i)))
parsepipe(i) == PipeFrom(parseexec(i))
parseexec(i) ==
  IF peek(i, {"("}) THEN parseblock(i) ELSE ParseArgs(parseredirs(execcmd(<<>>), i), <<>>)
parseblock(i) == BlockFrom(parseline(gettoken(i).at))

\* The command, or Panic if the line is wrong or something is left over
Whole(p) == IF Skip(p.at) # es THEN Panic ELSE p.cmd
parsecmd == Whole(parseline(1))

\* The words of a command
RECURSIVE Words(_)
Words(cmd) ==
  CASE cmd.type = "exec" -> Range(cmd.argv)
    [] cmd.type = "redir" -> Words(cmd.cmd) \cup {cmd.file}
    [] cmd.type \in {"pipe", "list"} -> Words(cmd.left) \cup Words(cmd.right)
    [] cmd.type = "back" -> Words(cmd.cmd)

\* Where nulterminate() writes a 0
nulterminate(cmd) == {w[2] : w \in Words(cmd)}
-----------------------------------------------------------------------------
(***************************************************************************)
(* runcmd()                                                                 *)
(***************************************************************************)
Fds == 0 .. 4
Closed == <<"none", 0>>
NoCmd == [type |-> "none"]
Shell == 1

Init ==
  /\ buf = <<>>
  /\ procs = <<[pc |-> "prompt", cmd |-> NoCmd, parent |-> 0,
                fds |-> [f \in Fds |-> IF f < 3 THEN <<"console", 0>> ELSE Closed], back |-> FALSE]>>
  /\ failed = FALSE

\* Bound: cd is typed only at the start; elsewhere it is a word like another.
Type(c) ==
  /\ c = "cd" => buf = <<>>
  /\ Len(procs) = 1 /\ procs[Shell].pc = "prompt" /\ Len(buf) < MaxLine
  /\ buf' = Append(buf, c)
  /\ UNCHANGED <<procs, failed>>

\* exit(): the children go to the first process, and its own parent may wait for
\* this one; a process whose parent is the first process is reaped at once.
Exited(ps, p) ==
  [i \in DOMAIN ps |->
     IF i = p THEN [ps[i] EXCEPT !.pc = IF ps[p].parent = 0 THEN "gone" ELSE "zombie",
                                 !.fds = [f \in Fds |-> Closed]]
     ELSE IF ps[i].parent = p THEN [ps[i] EXCEPT !.parent = 0,
                                                 !.pc = IF @ = "zombie" THEN "gone" ELSE @]
     ELSE ps[i]]

Exit(p) == procs' = Exited(procs, p) /\ UNCHANGED <<buf, failed>>

\* fork1(): the child starts at pc, to run cmd; the parent goes on at next.
\* A failure is a panic, which exits.
fork1(p, pc, cmd, back, next) ==
  \/ /\ procs' = Append([procs EXCEPT ![p].pc = next],
                        [procs[p] EXCEPT !.pc = pc, !.cmd = cmd, !.parent = p, !.back = back])
     /\ UNCHANGED <<buf, failed>>
  \/ procs' = Exited(procs, p) /\ failed' = TRUE /\ UNCHANGED buf

\* main(): the shell itself changes its directory, and asks for the next line.
IsCd == At(1) = "cd" /\ At(2) = " "

Cd ==
  /\ procs[Shell].pc = "prompt" /\ Len(procs) = 1 /\ IsCd
  /\ buf' = <<>>
  /\ UNCHANGED <<procs, failed>>

\* main(): the child parses the line; a panic ends the child.
Enter ==
  /\ procs[Shell].pc = "prompt" /\ Len(procs) = 1 /\ ~IsCd
  /\ fork1(Shell, IF parsecmd = Panic THEN "exit" ELSE "run", parsecmd, FALSE, "wait")

Lowest(fds) == Min({f \in Fds : fds[f] = Closed})
Opened(fds, end) == [fds EXCEPT ![Lowest(fds)] = end]
Without(fds, fs) == [f \in Fds |-> IF f \in fs THEN Closed ELSE fds[f]]

\* p[0] and p[1], in the process that called pipe() and in its children
PipeFd(fds, kind) == {f \in Fds : f > 2 /\ fds[f][1] = kind}
PipeFds(fds) == PipeFd(fds, "read") \cup PipeFd(fds, "write")

Go(p, pc, fds) == procs' = [procs EXCEPT ![p].pc = pc, ![p].fds = fds] /\ UNCHANGED <<buf, failed>>

\* exec() of a program, or its failure
Exec(p) ==
  /\ procs[p].cmd.type = "exec"
  /\ \/ procs[p].cmd.argv # <<>> /\ Go(p, "program", procs[p].fds)
     \/ Exit(p)

Redir(p) ==
  /\ procs[p].cmd.type = "redir"
  /\ \/ LET c == procs[p].cmd
            fds == Opened(Without(procs[p].fds, {c.fd}), <<"file", 0>>)
        IN procs' = [procs EXCEPT ![p].cmd = c.cmd, ![p].fds = fds] /\ UNCHANGED <<buf, failed>>
     \/ Exit(p)

List(p) == procs[p].cmd.type = "list" /\ fork1(p, "run", procs[p].cmd.left, FALSE, "left")

Back(p) == procs[p].cmd.type = "back" /\ fork1(p, "run", procs[p].cmd.cmd, TRUE, "exit")

\* pipe(), and the fork of the left side
Pipe(p) ==
  /\ procs[p].cmd.type = "pipe"
  /\ \/ Go(p, "pipe", Opened(Opened(procs[p].fds, <<"read", p>>), <<"write", p>>))
     \/ procs' = Exited(procs, p) /\ failed' = TRUE /\ UNCHANGED buf

runcmd(p) == procs[p].pc = "run" /\ (Exec(p) \/ Redir(p) \/ List(p) \/ Back(p) \/ Pipe(p))

ForkLeft(p) == procs[p].pc = "pipe" /\ fork1(p, "pipeleft", procs[p].cmd.left, FALSE, "pipe2")
ForkRight(p) == procs[p].pc = "pipe2" /\ fork1(p, "piperight", procs[p].cmd.right, FALSE, "close")

\* close(fd), and dup() of the pipe's end of the given kind
Dupped(fds, fd, kind) == Opened(Without(fds, {fd}), fds[Min(PipeFd(fds, kind))])

\* What the child does with the pipe: it is standard input or output, and no
\* other descriptor.
Side(fds, fd, kind) == Without(Dupped(fds, fd, kind), PipeFds(fds))

Child(p) ==
  \/ procs[p].pc = "pipeleft" /\ Go(p, "run", Side(procs[p].fds, 1, "write"))
  \/ procs[p].pc = "piperight" /\ Go(p, "run", Side(procs[p].fds, 0, "read"))

\* Mutant: the parent keeps the pipe open.
CloseEndsNever(p) == procs[p].pc = "close" /\ Go(p, "wait1", procs[p].fds)

CloseEnds(p) == procs[p].pc = "close" /\ Go(p, "wait1", Without(procs[p].fds, PipeFds(procs[p].fds)))

Children(p) == {c \in DOMAIN procs : procs[c].parent = p /\ procs[c].pc # "gone"}

\* Where a process goes from its wait()
AfterWait(pc) ==
  CASE pc = "wait" -> "prompt" [] pc = "left" -> "run" [] pc = "wait1" -> "wait2" [] OTHER -> "exit"

\* wait(): reap a zombie, or return because there is no child.  A list then
\* runs its right side.
Wait(p) ==
  /\ procs[p].pc \in {"wait", "left", "wait1", "wait2"}
  /\ LET ps == [procs EXCEPT ![p].pc = AfterWait(@),
                             ![p].cmd = IF procs[p].pc = "left" THEN @.right ELSE @]
     IN \/ \E c \in Children(p) : procs[c].pc = "zombie" /\ procs' = [ps EXCEPT ![c].pc = "gone"]
        \/ Children(p) = {} /\ procs' = ps
  /\ UNCHANGED <<buf, failed>>

Holds(p, end) == \E f \in Fds : procs[p].fds[f] = end

\* Standard input is at its end: it is no pipe, or nobody can write to it.
AtEof(p) ==
  LET in == procs[p].fds[0]
  IN in[1] = "read" =>
       \A q \in DOMAIN procs : ~Holds(q, <<"write", in[2]>>)

exit(p) == (procs[p].pc = "exit" \/ (procs[p].pc = "program" /\ AtEof(p))) /\ Exit(p)

Next ==
  \/ \E c \in Char : Type(c)
  \/ Cd \/ Enter
  \/ \E p \in DOMAIN procs : \/ runcmd(p) \/ ForkLeft(p) \/ ForkRight(p) \/ Child(p) \/ CloseEnds(p)
                             \/ Wait(p) \/ exit(p)

Spec == Init /\ [][Next]_vars
-----------------------------------------------------------------------------
(***************************************************************************)
(* The command language, as a grammar: the sets of commands that the part   *)
(* of the line from i up to j may stand for                                 *)
(***************************************************************************)
Blank(i, j) == \A k \in i .. j - 1 : At(k) = " "
Letter(k) == At(k) \notin Symbols \cup {" ", "nul"}
WordsIn(i, j) == {w \in (i .. j - 1) \X (i + 1 .. j) :
                    /\ w[1] < w[2] /\ \A k \in w[1] .. w[2] - 1 : Letter(k)
                    /\ (w[1] = i \/ ~Letter(w[1] - 1)) /\ (w[2] = j \/ ~Letter(w[2]))}

\* w is the word after the operator that ends at k.
Follows(w, k) == k < w[1] /\ Blank(k + 1, w[1])
IsFile(i, w) == \E k \in i .. w[1] - 1 : At(k) \in {"<", ">"} /\ Follows(w, k)

\* Every operator <, > or >> is followed by a word.
RedirsOK(i, j) ==
  \A k \in i .. j - 1 : At(k) \in {"<", ">"} =>
    \/ \E w \in WordsIn(i, j) : Follows(w, k)
    \/ /\ At(k) = ">" /\ k + 1 < j /\ At(k + 1) = ">" /\ ~(k > i /\ At(k - 1) = ">")
       /\ \E w \in WordsIn(i, j) : Follows(w, k + 1)

InOrder(ws) == SetToSortSeq(ws, LAMBDA v, w : v[1] < w[1])

\* cmd with the redirections of the files fs around it, the last one outermost
Redirected(cmd, fs) ==
  FoldLeft(LAMBDA c, w : redircmd(c, w, IF \E k \in 1 .. w[1] - 1 : At(k) = "<" /\ Follows(w, k)
                                        THEN 0 ELSE 1), cmd, InOrder(fs))

Files(i, j) == {w \in WordsIn(i, j) : IsFile(i, w)}
Args(i, j) == WordsIn(i, j) \ Files(i, j)

SimpleIn(i, j) ==
  IF /\ \A k \in i .. j - 1 : At(k) \notin {"|", "&", ";", "(", ")"}
     /\ RedirsOK(i, j) /\ Cardinality(Args(i, j)) < MAXARGS
  THEN {Redirected(execcmd(InOrder(Args(i, j))), Files(i, j))} ELSE {}

RECURSIVE LineIn(_, _), BackIn(_, _), PipeIn(_, _)
BlockIn(i, j) ==
  UNION {{Redirected(c, Files(m + 1, j)) : c \in LineIn(k + 1, m)} :
           <<k, m>> \in {x \in (i .. j - 1) \X (i .. j - 1) :
                           /\ x[1] < x[2] /\ At(x[1]) = "(" /\ At(x[2]) = ")" /\ Blank(i, x[1])
                           /\ SimpleIn(x[2] + 1, j) # {} /\ Args(x[2] + 1, j) = {}}}

LineIn(i, j) ==
  BackIn(i, j) \cup UNION {{listcmd(x[1], x[2]) : x \in BackIn(i, k) \X LineIn(k + 1, j)} :
                             k \in {k \in i .. j - 1 : At(k) = ";"}}

BackIn(i, j) ==
  PipeIn(i, j) \cup UNION {{backcmd(c) : c \in BackIn(i, k)} :
                             k \in {k \in i .. j - 1 : At(k) = "&" /\ Blank(k + 1, j)}}

PipeIn(i, j) ==
  LET exec(a, b) == SimpleIn(a, b) \cup BlockIn(a, b)
  IN exec(i, j) \cup UNION {{pipecmd(x[1], x[2]) : x \in exec(i, k) \X PipeIn(k + 1, j)} :
                              k \in {k \in i .. j - 1 : At(k) = "|"}}
-----------------------------------------------------------------------------
(***************************************************************************)
(* Properties                                                               *)
(***************************************************************************)
Typing == Len(procs) = 1

\* Every process is at a known place, with a command to run if it runs one, and
\* has standard input, output and error as long as it lives.
TypeOK ==
  \A p \in DOMAIN procs :
    /\ procs[p].pc \in {"prompt", "wait", "run", "left", "pipe", "pipe2", "close", "pipeleft",
                        "piperight", "wait1", "wait2", "program", "exit", "zombie", "gone"}
    /\ procs[p].parent \in 0 .. p - 1
    /\ procs[p].pc \notin {"zombie", "gone"} => \A f \in 0 .. 2 : procs[p].fds[f] # Closed

\* parsecmd() accepts exactly the lines of the grammar, and returns the one
\* command such a line stands for.
ParserFollowsGrammar ==
  Typing => LineIn(1, es) = IF parsecmd = Panic THEN {} ELSE {parsecmd}

\* The zeroes nulterminate() writes into the line end every word where it ended,
\* and cut no other.
WordsTerminated ==
  Typing /\ parsecmd # Panic =>
    \A w \in Words(parsecmd) :
      Min({j \in w[1] .. es : j = es \/ j \in nulterminate(parsecmd)}) = w[2]

\* What runs in the foreground is waited for: its parent is inside runcmd() or
\* the shell, and about to wait, so that the next command of a list and the next
\* prompt come after it.  (A failed fork() or pipe() ends the parent.)
ForegroundWaitedFor ==
  \A p \in DOMAIN procs \ {Shell} :
    procs[p].pc \notin {"zombie", "gone"} /\ ~procs[p].back /\ ~failed =>
      /\ procs[p].parent # 0
      /\ procs[procs[p].parent].pc \in {"wait", "left", "pipe2", "close", "wait1", "wait2"}

\* No pipe end is left open by mistake: while the shell waits for a command,
\* some process can go on, so that programs reading from pipes see the end of
\* their input.
PipelineMoves ==
  procs[Shell].pc = "wait" =>
    \E p \in DOMAIN procs :
      \/ procs[p].pc \in {"run", "pipe", "pipe2", "close", "pipeleft", "piperight", "exit"}
      \/ procs[p].pc = "program" /\ AtEof(p)
      \/ /\ procs[p].pc \in {"wait", "left", "wait1", "wait2"}
         /\ \/ Children(p) = {} \/ \E c \in Children(p) : procs[c].pc = "zombie"
==============================================================================
