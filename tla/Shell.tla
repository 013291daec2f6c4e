------------------------------- MODULE Shell -------------------------------
(***************************************************************************)
(* The shell (sh.c): the parser, from the characters of a line to the      *)
(* command tree, and runcmd, which turns the tree into processes, pipes    *)
(* and file descriptors.  A program that has been exec'ed is external: it  *)
(* reads its standard input to the end if that is a pipe, and exits.       *)
(***************************************************************************)
EXTENDS Integers, Sequences, FiniteSets

CONSTANTS
    Sessions,       \* what may be typed: sequences of lines of characters
    MAXARGS,        \* size of argv
    NPROC,          \* number of processes; the shell is process 1
    NOFILE          \* size of a descriptor table

-----------------------------------------------------------------------------
(* Lexical analysis.  The rest of the line is a sequence of characters;    *)
(* any character that is neither white nor a symbol is part of a word.     *)

White == {" ", "\n"}
Symbols == {"<", "|", ">", "&", ";", "(", ")"}

RECURSIVE Skip(_)
Skip(s) == IF s # <<>> /\ Head(s) \in White THEN Skip(Tail(s)) ELSE s

RECURSIVE WordLen(_)
WordLen(s) ==
    IF s = <<>> \/ Head(s) \in White \cup Symbols THEN 0 ELSE 1 + WordLen(Tail(s))

Drop(s, n) == SubSeq(s, n + 1, Len(s))

(* gettoken: the token, its text and the rest of the line *)
Token(s, t, n) == [tok |-> t, text |-> SubSeq(s, 1, n), s |-> Skip(Drop(s, n))]

TokenAt(s) ==
    CASE s = <<>>                            -> Token(s, "end", 0)
      [] s # <<>> /\ Head(s) = ">"           ->
            IF Len(s) > 1 /\ s[2] = ">" THEN Token(s, "+", 2) ELSE Token(s, ">", 1)
      [] s # <<>> /\ Head(s) \in Symbols \ {">"} -> Token(s, Head(s), 1)
      [] OTHER                               -> Token(s, "a", WordLen(s))

Gettoken(rest) == TokenAt(Skip(rest))

Peek(s, toks) == Skip(s) # <<>> /\ Head(Skip(s)) \in toks

-----------------------------------------------------------------------------
(* Constructors, and the result of a parsing function: a command and the   *)
(* rest of the line.  The command Panic stands for a call of panic.        *)

Execcmd == [type |-> "EXEC", argv |-> <<>>]
Redircmd(sub, file, fd) == [type |-> "REDIR", cmd |-> sub, file |-> file, fd |-> fd]
Pipecmd(l, r) == [type |-> "PIPE", left |-> l, right |-> r]
Listcmd(l, r) == [type |-> "LIST", left |-> l, right |-> r]
Backcmd(sub) == [type |-> "BACK", cmd |-> sub]
Panic == [type |-> "PANIC"]
NotParsed == [type |-> "NONE"]

Result(cmd, s) == [cmd |-> cmd, s |-> s]
Failed(r) == r.cmd.type = "PANIC"

(* l and what follows it, r, become one command. *)
Piped(l, r) == IF Failed(r) THEN r ELSE Result(Pipecmd(l.cmd, r.cmd), r.s)
Listed(l, r) == IF Failed(r) THEN r ELSE Result(Listcmd(l.cmd, r.cmd), r.s)

RECURSIVE Parseredirs(_, _), Redir(_, _, _), Addarg(_, _), Args(_), Arg(_, _), Background(_)
RECURSIVE Parseline(_), ListRest(_), Parsepipe(_), PipeRest(_), Parseexec(_)
RECURSIVE Parseblock(_), BlockRest(_)

RedirFile(cmd, op) == Redir(cmd, op.tok, Gettoken(op.s))

Redir(cmd, op, file) ==
    IF file.tok # "a" THEN Result(Panic, file.s)
    ELSE Parseredirs(Redircmd(cmd, file.text, IF op = "<" THEN 0 ELSE 1), file.s)

Parseredirs(cmd, s) ==
    IF ~Peek(s, {"<", ">"}) THEN Result(cmd, s) ELSE RedirFile(cmd, Gettoken(s))

(* The word goes to the execcmd, under the redirections read before it. *)
Addarg(cmd, word) ==
    IF cmd.type = "REDIR" THEN [cmd EXCEPT !.cmd = Addarg(@, word)]
    ELSE [cmd EXCEPT !.argv = Append(@, word)]

RECURSIVE Argc(_)
Argc(cmd) == IF cmd.type = "REDIR" THEN Argc(cmd.cmd) ELSE Len(cmd.argv)

(* The loop of parseexec, and its body for the token t *)
Args(r) ==
    IF Failed(r) \/ Peek(r.s, {"|", ")", "&", ";"}) THEN r ELSE Arg(r, Gettoken(r.s))

Arg(r, t) ==
    IF t.tok = "end" THEN r
    ELSE IF t.tok # "a" \/ Argc(r.cmd) + 1 >= MAXARGS THEN Result(Panic, t.s)
    ELSE Args(Parseredirs(Addarg(r.cmd, t.text), t.s))

Parseexec(s) ==
    IF Peek(s, {"("}) THEN Parseblock(s) ELSE Args(Parseredirs(Execcmd, s))

BlockRest(r) ==
    IF Failed(r) THEN r
    ELSE IF ~Peek(r.s, {")"}) THEN Result(Panic, r.s)
    ELSE Parseredirs(r.cmd, Gettoken(r.s).s)

Parseblock(s) == BlockRest(Parseline(Gettoken(s).s))

PipeRest(l) ==
    IF Failed(l) \/ ~Peek(l.s, {"|"}) THEN l
    ELSE Piped(l, Parsepipe(Gettoken(l.s).s))

Parsepipe(s) == PipeRest(Parseexec(s))

Background(r) ==
    IF Failed(r) \/ ~Peek(r.s, {"&"}) THEN r
    ELSE Background(Result(Backcmd(r.cmd), Gettoken(r.s).s))

(* Mutant: a pipeline takes all of the line. *)
Parseline_NoList(s) == Background(Parsepipe(s))

ListRest(l) ==
    IF Failed(l) \/ ~Peek(l.s, {";"}) THEN l
    ELSE Listed(l, Parseline(Gettoken(l.s).s))

Parseline(s) == ListRest(Background(Parsepipe(s)))

Whole(r) == IF Skip(r.s) # <<>> THEN Panic ELSE r.cmd

Parsecmd(s) == Whole(Parseline(s))

Lines == UNION {{session[n] : n \in DOMAIN session} : session \in Sessions}

(* What gets has put in buf ends in a newline. *)
Parses == {<<l, Parsecmd(Append(l, "\n"))>> : l \in Lines}

-----------------------------------------------------------------------------
(* Processes.  A command is named by its path from the root of its tree,   *)
(* after the number of the line that it is on.                             *)

VARIABLES
    line,           \* the lines typed
    tree,           \* their command trees
    proc,           \* [st, path, fd, p, parent]: where the process is, the
                    \* command it runs, its descriptors, the variable p of
                    \* runcmd and its parent (0 is init)
    forkFailed      \* history: fork1 has called panic

vars == <<line, tree, proc, forkFailed>>

Procs == 1..NPROC
Closed == <<"closed">>
Console == <<"console">>
Unused == [st |-> "unused", path |-> <<>>, fd |-> [i \in 0..(NOFILE - 1) |-> Closed],
           p |-> <<0, 0>>, parent |-> 0]

Node(path) ==
    LET at[i \in 1..Len(path)] == IF i = 1 THEN tree[path[1]] ELSE at[i - 1][path[i]]
    IN  at[Len(path)]

Cmd(p) == Node(proc[p].path)
Runs(p, type) == proc[p].st = "run" /\ Cmd(p).type = type

(* open, dup and pipe use the lowest free descriptor. *)
Lowest(fd) == CHOOSE i \in DOMAIN fd : fd[i] = Closed /\ \A j \in 0..(i - 1) : fd[j] # Closed
HasFree(fd) == \E i \in DOMAIN fd : fd[i] = Closed
Opened(fd, f) == [fd EXCEPT ![Lowest(fd)] = f]

(* The shell as init starts it. *)
NewShell == [Unused EXCEPT !.st = "prompt",
                           !.fd = [i \in DOMAIN @ |-> IF i < 3 THEN Console ELSE Closed]]

(* exit: init inherits the children, and waits for those that are zombies; *)
(* in place of the shell it starts another one.                            *)
After_exit(p) ==
    LET Orphan(q) == proc[q].st # "unused" /\ proc[q].parent = p
    IN  [q \in Procs |->
           CASE q = p /\ p = 1 -> NewShell
             [] q = p /\ p # 1 ->
                         IF proc[p].parent = 0 THEN Unused
                         ELSE [Unused EXCEPT !.st = "zombie", !.path = proc[p].path, !.parent = proc[p].parent]
             [] q # p /\ Orphan(q) /\ proc[q].st = "zombie" -> Unused
             [] q # p /\ Orphan(q) /\ proc[q].st # "zombie" -> [proc[q] EXCEPT !.parent = 0]
             [] OTHER -> proc[q]]

Exit(p) == proc' = After_exit(p) /\ UNCHANGED <<line, tree, forkFailed>>

(* fork1: the child is at st, with the subcommand sub; the parent goes on  *)
(* at next.                                                                *)
Fork1(p, st, sub, next) ==
    LET free == {q \in Procs : proc[q].st = "unused"} IN
    IF free = {}
      THEN /\ proc' = After_exit(p) /\ forkFailed' = TRUE
           /\ UNCHANGED <<line, tree>>
      ELSE LET q == CHOOSE q \in free : \A r \in free : q <= r IN
           /\ proc' = [proc EXCEPT
                 ![q] = [proc[p] EXCEPT !.st = st, !.path = @ \o sub, !.parent = p],
                 ![p].st = next]
           /\ UNCHANGED <<line, tree, forkFailed>>

Zombies(p) == {q \in Procs : proc[q].st = "zombie" /\ proc[q].parent = p}

(* wait returns, and the process goes on as new. *)
Wait(p, new) ==
    /\ \E q \in Zombies(p) : proc' = [proc EXCEPT ![q] = Unused, ![p] = new]
    /\ UNCHANGED <<line, tree, forkFailed>>

Become(p, new) == proc' = [proc EXCEPT ![p] = new] /\ UNCHANGED <<line, tree, forkFailed>>

-----------------------------------------------------------------------------
(* runcmd *)

RunExec(p) ==
    /\ Runs(p, "EXEC")
    /\ \/ Cmd(p).argv # <<>> /\ Become(p, [proc[p] EXCEPT !.st = "program"])
       \/ Exit(p)   \* no argv[0], or exec fails

RunRedir(p) ==
    /\ Runs(p, "REDIR")
    /\ \/ Become(p, [proc[p] EXCEPT !.fd = Opened([@ EXCEPT ![Cmd(p).fd] = Closed], <<"file", Cmd(p).file>>),
                                    !.path = Append(@, "cmd")])
       \/ Exit(p)   \* open fails

RunList(p) == Runs(p, "LIST") /\ Fork1(p, "run", <<"left">>, "list")

RunListRight(p) ==
    proc[p].st = "list" /\ Wait(p, [proc[p] EXCEPT !.st = "run", !.path = Append(@, "right")])

RunPipe(p) ==
    LET fd == proc[p].fd
        fd1 == Opened(fd, <<"r", proc[p].path>>)
    IN  /\ Runs(p, "PIPE")
        /\ IF HasFree(fd) /\ HasFree(fd1)
             THEN Become(p, [proc[p] EXCEPT !.st = "pipe", !.fd = Opened(fd1, <<"w", proc[p].path>>),
                                            !.p = <<Lowest(fd), Lowest(fd1)>>])
             ELSE Exit(p)

ForkLeft(p) == proc[p].st = "pipe" /\ Fork1(p, "left", <<>>, "pipe2")
ForkRight(p) == proc[p].st = "pipe2" /\ Fork1(p, "right", <<>>, "pipe3")

(* Mutant: the child keeps the other end. *)
Plumbed_NoClose(fd, n, i, p) ==
    LET fd1 == [fd EXCEPT ![n] = Closed] IN [Opened(fd1, fd1[p[i]]) EXCEPT ![p[i]] = Closed]

(* A child of PIPE: the descriptor n becomes a copy of p[i]. *)
Plumbed(fd, n, i, p) ==
    LET fd1 == [fd EXCEPT ![n] = Closed]
        fd2 == Opened(fd1, fd1[p[i]])
    IN  [fd2 EXCEPT ![p[1]] = Closed, ![p[2]] = Closed]

PipeLeft(p) ==
    /\ proc[p].st = "left"
    /\ Become(p, [proc[p] EXCEPT !.st = "run", !.fd = Plumbed(@, 1, 2, proc[p].p), !.path = Append(@, "left")])

PipeRight(p) ==
    /\ proc[p].st = "right"
    /\ Become(p, [proc[p] EXCEPT !.st = "run", !.fd = Plumbed(@, 0, 1, proc[p].p), !.path = Append(@, "right")])

(* Mutant: the parent keeps the write end while it waits. *)
PipeParent_NoClose(p) ==
    /\ proc[p].st = "pipe3"
    /\ Become(p, [proc[p] EXCEPT !.st = "wait2", !.fd[proc[p].p[1]] = Closed])

PipeParent(p) ==
    /\ proc[p].st = "pipe3"
    /\ Become(p, [proc[p] EXCEPT !.st = "wait2", !.fd[proc[p].p[1]] = Closed, !.fd[proc[p].p[2]] = Closed])

(* Mutant: only one of the two children is waited for. *)
WaitFirst_Only(p) == proc[p].st = "wait2" /\ Wait(p, [proc[p] EXCEPT !.st = "exit"])

WaitFirst(p) == proc[p].st = "wait2" /\ Wait(p, [proc[p] EXCEPT !.st = "wait1"])
WaitSecond(p) == proc[p].st = "wait1" /\ Wait(p, [proc[p] EXCEPT !.st = "exit"])

RunBack(p) == Runs(p, "BACK") /\ Fork1(p, "run", <<"cmd">>, "exit")

RunExit(p) == proc[p].st = "exit" /\ Exit(p)

(* The program: a read of a pipe returns 0 when nobody can write to it. *)
Eof(f) == ~\E q \in Procs, i \in 0..(NOFILE - 1) : proc[q].fd[i] = <<"w", f[2]>>

Program(p) ==
    /\ proc[p].st = "program"
    /\ proc[p].fd[0][1] = "r" => Eof(proc[p].fd[0])
    /\ Exit(p)

-----------------------------------------------------------------------------
(* main: a line is read, whatever still runs in the background; cd is done *)
(* by the shell itself.                                                    *)
Getcmd(session) ==
    LET n == Len(line) + 1
        l == session[n]
    IN  /\ proc[1].st = "prompt"
        /\ n <= Len(session) /\ SubSeq(session, 1, n - 1) = line
        /\ line' = Append(line, l) /\ tree' = Append(tree, NotParsed)
        /\ proc' = [proc EXCEPT ![1].st = IF Len(l) > 2 /\ SubSeq(l, 1, 3) = <<"c", "d", " ">>
                                          THEN "prompt" ELSE "fork"]
        /\ UNCHANGED forkFailed

(* getcmd returns -1 at the end of the input. *)
EndOfInput == proc[1].st = "prompt" /\ Exit(1)

ForkShell == proc[1].st = "fork" /\ Fork1(1, "parse", <<Len(line)>>, "wait")

(* The child parses; panic ends it. *)
Parse(p) ==
    LET n == proc[p].path[1] IN
    /\ proc[p].st = "parse"
    /\ \E r \in Parses : r[1] = line[n] /\ tree' = [tree EXCEPT ![n] = r[2]]
    /\ proc' = IF tree'[n].type = "PANIC" THEN After_exit(p) ELSE [proc EXCEPT ![p].st = "run"]
    /\ UNCHANGED <<line, forkFailed>>

WaitShell == proc[1].st = "wait" /\ Wait(1, [proc[1] EXCEPT !.st = "prompt"])

Step(p) ==
    \/ Parse(p) \/ RunExec(p) \/ RunRedir(p) \/ RunList(p) \/ RunListRight(p)
    \/ RunPipe(p) \/ ForkLeft(p) \/ ForkRight(p) \/ PipeLeft(p) \/ PipeRight(p)
    \/ PipeParent(p) \/ WaitFirst(p) \/ WaitSecond(p) \/ RunBack(p) \/ RunExit(p)
    \/ Program(p)

Init ==
    /\ line = <<>> /\ tree = <<>> /\ forkFailed = FALSE
    /\ proc = [p \in Procs |-> IF p = 1 THEN NewShell ELSE Unused]

Next ==
    \/ \E session \in Sessions : Getcmd(session)
    \/ EndOfInput \/ ForkShell \/ WaitShell
    \/ \E p \in Procs : Step(p)

Fairness == WF_vars(ForkShell) /\ WF_vars(WaitShell) /\ \A p \in Procs : WF_vars(Step(p))

Spec == Init /\ [][Next]_vars /\ Fairness

-----------------------------------------------------------------------------
(* The reference grammar, on tokens, by splitting at the operators of      *)
(* lowest precedence that are outside parentheses.                         *)

RECURSIVE TokensFrom(_)
TokensFrom(t) ==
    IF t.tok = "end" THEN <<>>
    ELSE <<[tok |-> t.tok, text |-> t.text]>> \o TokensFrom(Gettoken(t.s))

Tokens(s) == TokensFrom(Gettoken(s))

Depth(ts, i) == Cardinality({j \in 1..i : ts[j].tok = "("}) - Cardinality({j \in 1..(i - 1) : ts[j].tok = ")"})

(* Positions of the operator op outside parentheses *)
Splits(ts, op) == {i \in 1..Len(ts) : ts[i].tok = op /\ Depth(ts, i) = 0}
First(S) == CHOOSE i \in S : \A j \in S : i <= j
Before(ts, i) == SubSeq(ts, 1, i - 1)
After(ts, i) == SubSeq(ts, i + 1, Len(ts))
Bad(c) == c.type = "PANIC"
Both(Make(_, _), l, r) == IF Bad(l) \/ Bad(r) THEN Panic ELSE Make(l, r)

(* cmd with the redirections of ts, and its words if it may have words *)
RECURSIVE Simple(_, _, _)
Simple(cmd, ts, words) ==
    CASE ts = <<>> -> cmd
      [] ts # <<>> /\ ts[1].tok = "a" /\ words /\ Argc(cmd) + 1 < MAXARGS ->
            Simple(Addarg(cmd, ts[1].text), Tail(ts), words)
      [] Len(ts) > 1 /\ ts[1].tok \in {"<", ">", "+"} /\ ts[2].tok = "a" /\ ~Bad(cmd) ->
            Simple(Redircmd(cmd, ts[2].text, IF ts[1].tok = "<" THEN 0 ELSE 1), After(ts, 2), words)
      [] OTHER -> Panic

RECURSIVE RefLine(_), RefBack(_), RefPipe(_)
RefElement(ts) ==
    IF ts # <<>> /\ ts[1].tok = "("
      THEN LET ends == {i \in 2..Len(ts) : ts[i].tok = ")" /\ Depth(ts, i) = 1} IN
           IF ends = {} THEN Panic
           ELSE Simple(RefLine(SubSeq(ts, 2, First(ends) - 1)), After(ts, First(ends)), FALSE)
      ELSE Simple(Execcmd, ts, TRUE)

RefPipe(ts) ==
    LET at == Splits(ts, "|") IN
    IF at = {} THEN RefElement(ts)
    ELSE Both(Pipecmd, RefElement(Before(ts, First(at))), RefPipe(After(ts, First(at))))

RefBack(ts) ==
    IF ts # <<>> /\ ts[Len(ts)].tok = "&" /\ Depth(ts, Len(ts)) = 0
      THEN LET c == RefBack(Before(ts, Len(ts))) IN IF Bad(c) THEN c ELSE Backcmd(c)
      ELSE RefPipe(ts)

RefLine(ts) ==
    LET at == Splits(ts, ";") IN
    IF at = {} THEN RefBack(ts)
    ELSE Both(Listcmd, RefBack(Before(ts, First(at))), RefLine(After(ts, First(at))))

Grammar == {<<l, RefLine(Tokens(l))>> : l \in Lines}

-----------------------------------------------------------------------------
(* Properties *)

(* The recursive descent of sh.c gives a line the tree of the grammar, with *)
(* ; binding less than &, and & less than |, and panics on exactly the      *)
(* lines that are not in the grammar (sh.c:344-446).                        *)
ParseFollowsGrammar ==
    \A n \in DOMAIN tree : tree[n] # NotParsed => <<line[n], tree[n]>> \in Grammar

(* Standard input and output of the command at path, by the line alone *)
Wiring(path) ==
    LET io[i \in 1..Len(path)] ==
          IF i = 1 THEN <<Console, Console>>
          ELSE LET above == SubSeq(path, 1, i - 1)
                   n == Node(above)
               IN  CASE n.type = "REDIR" -> [io[i - 1] EXCEPT ![n.fd + 1] = <<"file", n.file>>]
                     [] n.type = "PIPE" /\ path[i] = "left" -> [io[i - 1] EXCEPT ![2] = <<"w", above>>]
                     [] n.type = "PIPE" /\ path[i] = "right" -> [io[i - 1] EXCEPT ![1] = <<"r", above>>]
                     [] OTHER -> io[i - 1]
    IN  io[Len(path)]

(* A program starts with the input and output that the line says, the       *)
(* console as error output, and no other descriptor: close and dup in       *)
(* runcmd hit the descriptors they are meant to, however pipes, blocks and  *)
(* redirections are nested (sh.c:80-85, 99-117).                            *)
ProgramsWired ==
    \A p \in Procs : proc[p].st = "program" =>
        /\ <<proc[p].fd[0], proc[p].fd[1]>> = Wiring(proc[p].path)
        /\ proc[p].fd[2] = Console
        /\ \A i \in 3..(NOFILE - 1) : proc[p].fd[i] = Closed

InBackground(path) == \E i \in 2..Len(path) : Node(SubSeq(path, 1, i - 1)).type = "BACK"

(* When the prompt comes back, everything that the lines started in the     *)
(* foreground has ended: the calls of wait are answered by the right        *)
(* children, also when commands of earlier lines end in the background      *)
(* meanwhile, as those are children of init (sh.c:122-125, 169).  A fork1   *)
(* that fails is the exception, as panic does not wait.                     *)
PromptAfterForeground ==
    proc[1].st = "prompt" /\ ~forkFailed =>
        \A p \in 2..NPROC : proc[p].st # "unused" => InBackground(proc[p].path)

(* Every line ends: no end of a pipe is left open that would keep a reader  *)
(* waiting, so the shell comes back from wait (sh.c:116-119, 169).          *)
PromptReturns == proc[1].st = "wait" ~> proc[1].st # "wait"

=============================================================================
