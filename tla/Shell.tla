-------------------------------- MODULE Shell -------------------------------
(***************************************************************************)
(* The shell (user/sh.c) and the programs it starts: how a command line    *)
(* becomes environments with pipes and files as their descriptors 0 and 1. *)
(*                                                                         *)
(* This module composes what others look into: a step is a call of the     *)
(* library (pipe, fork, dup, close, spawn, wait), and a pipe is closed     *)
(* when nobody holds its other end (ClosedIsReal, ClosedIsSeen of Pipe).   *)
(* A line is the sequence of its tokens.  The shell reads from the         *)
(* console, and a program that reads from it may find the end of its input *)
(* at any time.                                                            *)
(***************************************************************************)
EXTENDS Integers, Sequences, FiniteSetsExt

CONSTANTS NENV,      \* environments
          Avail,     \* how many of them may be left for the shell's use
          MAXFD, MAXARGS, BY2PIPE,
          Scripts,   \* sequences of lines a user may type
          Files,     \* names open() finds
          Filters,   \* programs that copy descriptor 0 to 1 until its end
          Sources,   \* programs that write Bytes bytes to descriptor 1
          Bytes,
          MaxPipes   \* bound: pipes of a behaviour

ASSUME ShellAssumption ==
    /\ NENV \in Nat /\ Avail \subseteq 1 .. NENV
    /\ MAXFD \in Nat /\ MAXFD > 3 /\ MAXARGS \in Nat /\ BY2PIPE > 0
    /\ Scripts \subseteq Seq(Seq(STRING))

VARIABLES script,
          env,      \* envs: [st, gen, pc, fd, toks, argv, p, wait, out, job, stage, failed]
          pipes     \* [n, job, stage]: bytes in the buffer; who made it (history)

vars == <<script, env, pipes>>

Envs == 1 .. NENV
main == 1
Fds == 0 .. MAXFD - 1

\* What a descriptor refers to.
None == <<"none", 0>>
Console == <<"cons", 0>>
NoFds == [i \in Fds |-> None]
\* fd_alloc() never looks at the last one.
FreeFds(fds) == {i \in 0 .. MAXFD - 2 : fds[i] = None}

\* st: free, other (an environment that has nothing to do with the shell),
\* shell, cmd (a forked shell in runcmd) or prog; wait: the slot and
\* the generation of the environment waited for; out: bytes still to write;
\* failed (history): an open() or a dup() of the line up to here has failed.
Free(gen) == [st |-> "free", gen |-> gen, pc |-> "", fd |-> NoFds, toks |-> <<>>, argv |-> <<>>,
              p |-> <<0, 0>>, wait |-> <<1, -1>>, out |-> 0, job |-> 0, stage |-> 1,
              failed |-> FALSE]

Init ==
    /\ script \in Scripts
    /\ \E n \in Avail :
         env = [e \in Envs |-> IF e > n THEN [Free(0) EXCEPT !.st = "other"]
                               ELSE IF e # main THEN Free(0)
                               ELSE [Free(0) EXCEPT !.st = "shell", !.pc = "prompt",
                                                    !.fd = [NoFds EXCEPT ![0] = Console, ![1] = Console]]]
    /\ pipes = <<>>

At(e, st, pc) == env[e].st = st /\ env[e].pc = pc
Become(e, r) == env' = [env EXCEPT ![e] = r] /\ UNCHANGED <<script, pipes>>

\* exit(), also at the end of user_panic(): the descriptors go with the rest.
exit(e) == Become(e, Free(env[e].gen))

FreeEnvs == {e \in Envs : env[e].st = "free"}
NewEnv == Min(FreeEnvs)

\* fork(): a copy, or the panic of fork() when there is no environment left.
\* Parent and child go on as told.
fork(e, parent, child) ==
    \/ FreeEnvs = {} /\ exit(e)
    \/ /\ FreeEnvs # {}
       /\ LET gen == env[NewEnv].gen + 1
          IN env' = [env EXCEPT ![NewEnv] = [child EXCEPT !.gen = gen],
                                ![e] = [parent EXCEPT !.wait = IF parent.pc = "wait" THEN <<NewEnv, gen>> ELSE @]]
       /\ UNCHANGED <<script, pipes>>

Ended(id) == env[id[1]].gen # id[2] \/ env[id[1]].st = "free"
wait(e) == Ended(env[e].wait)

(***************************************************************************)
(* The main loop: read a line, fork, wait.                                 *)
(***************************************************************************)
readline ==
    /\ At(main, "shell", "prompt")
    /\ IF env[main].job = Len(script) THEN exit(main)
       ELSE LET l == script[env[main].job + 1]
            IN Become(main, [env[main] EXCEPT !.job = @ + 1, !.toks = l,
                               !.pc = IF l # <<>> /\ l[1] = "#" THEN "prompt" ELSE "fork"])

main_fork ==
    /\ At(main, "shell", "fork")
    /\ fork(main, [env[main] EXCEPT !.pc = "wait"], [env[main] EXCEPT !.st = "cmd", !.pc = "parse"])

main_wait ==
    /\ At(main, "shell", "wait") /\ wait(main)
    /\ Become(main, [env[main] EXCEPT !.pc = "prompt"])

(***************************************************************************)
(* parsecmd().                                                             *)
(***************************************************************************)
Symbols == {"<", ">", "|", ";", "&", "(", ")"}
IsWord(toks) == toks # <<>> /\ Head(toks) \notin Symbols

\* dup() closes the target first.  When there is no memory for a page table it
\* takes everything back and leaves the target closed, and so it does when old
\* is the target.  parsecmd() does not look at what it returns.
dup(fds, old, new) ==
    IF fds[old] = None THEN {fds}
    ELSE {[fds EXCEPT ![new] = None]} \cup {[fds EXCEPT ![new] = fds[old]] : x \in {old} \ {new}}
close(fds, i) == IF i \in Fds THEN [fds EXCEPT ![i] = None] ELSE fds

\* gettoken(): the next token, and what it leads to.  A symbol without a case
\* in the switch is skipped; a word too many ends the command.  (The 0 after
\* MAXARGS words is stored past argv, where runcmd() reads nothing again.)
token(e) ==
    LET toks == env[e].toks IN
    /\ At(e, "cmd", "parse")
    /\ \/ /\ toks = <<>>
          /\ Become(e, [env[e] EXCEPT !.pc = "run"])
       \/ IsWord(toks) /\ Len(env[e].argv) >= MAXARGS /\ exit(e)
       \/ /\ IsWord(toks) /\ Len(env[e].argv) < MAXARGS
          /\ Become(e, [env[e] EXCEPT !.toks = Tail(@), !.argv = Append(@, Head(toks))])
       \/ /\ toks # <<>> /\ Head(toks) \in Symbols
          /\ Become(e, [env[e] EXCEPT !.toks = Tail(@),
                          !.pc = IF Head(toks) = "|" THEN "pipe"
                                 ELSE IF Head(toks) \in {"<", ">"} THEN Head(toks) ELSE "parse"])

\* The descriptors are f, one of the outcomes of a dup() to descriptor to.
Dupped(e, pc, toks, f, to, old) ==
    Become(e, [env[e] EXCEPT !.pc = pc, !.toks = toks, !.fd = close(f, old), !.failed = @ \/ f[to] = None])

\* The file is opened at the lowest free descriptor, duplicated and closed;
\* when it is not found, or cannot be opened, nothing changes, and nobody is
\* told.
redirect(e) == \E to \in {0, 1} :
    LET toks == env[e].toks
        free == FreeFds(env[e].fd)
        opened == [env[e].fd EXCEPT ![Min(free)] = <<"file", Head(toks)>>]
    IN /\ At(e, "cmd", IF to = 0 THEN "<" ELSE ">")
       /\ \/ ~IsWord(toks) /\ exit(e)
          \/ /\ IsWord(toks)
             /\ Become(e, [env[e] EXCEPT !.pc = "parse", !.toks = Tail(@),
                             !.failed = @ \/ Head(toks) \in Files])
          \/ /\ IsWord(toks) /\ Head(toks) \in Files /\ free # {}
             /\ \E f \in dup(opened, Min(free), to) :
                  Dupped(e, "parse", Tail(toks), f, to, Min(free))

\* pipe(): two descriptors, or an error (no descriptor, no memory) that makes
\* parsecmd return 0.
make_pipe(e) ==
    LET free == FreeFds(env[e].fd)
        r == Min(free)
        w == Min(free \ {r})
        k == Len(pipes) + 1
    IN /\ At(e, "cmd", "pipe")
       /\ \/ Become(e, [env[e] EXCEPT !.pc = "run", !.argv = <<>>])
          \/ /\ Cardinality(free) >= 2 /\ Len(pipes) < MaxPipes
             /\ env' = [env EXCEPT ![e] = [env[e] EXCEPT !.pc = "pfork", !.p = <<r, w>>,
                                             !.fd = [@ EXCEPT ![r] = <<"read", k>>, ![w] = <<"write", k>>]]]
             /\ pipes' = Append(pipes, [n |-> 0, job |-> env[e].job, stage |-> env[e].stage])
             /\ UNCHANGED script

\* The child will parse the rest; what fork() returns is in r, and
\* '*rightpipe' stays 0.
pipe_fork(e) ==
    /\ At(e, "cmd", "pfork")
    /\ fork(e, [env[e] EXCEPT !.pc = "left"],
               [env[e] EXCEPT !.pc = "right", !.argv = <<>>, !.stage = @ + 1])

right_keep_write(e) ==
    /\ At(e, "cmd", "right")
    /\ \E f \in dup(env[e].fd, env[e].p[1], 0) : Dupped(e, "parse", env[e].toks, f, 0, env[e].p[1])

\* The child: dup and close, and close.
right(e) ==
    /\ At(e, "cmd", "right")
    /\ \E f \in dup(env[e].fd, env[e].p[1], 0) : Dupped(e, "right_close", env[e].toks, f, 0, env[e].p[1])

right_close(e) ==
    /\ At(e, "cmd", "right_close")
    /\ Become(e, [env[e] EXCEPT !.pc = "parse", !.fd = close(@, env[e].p[2])])

left_keep_read(e) ==
    /\ At(e, "cmd", "left")
    /\ \E f \in dup(env[e].fd, env[e].p[2], 1) : Dupped(e, "run", env[e].toks, f, 1, env[e].p[2])

\* The parent: the same with the write end; parsecmd returns.
left(e) ==
    /\ At(e, "cmd", "left")
    /\ \E f \in dup(env[e].fd, env[e].p[2], 1) : Dupped(e, "left_close", env[e].toks, f, 1, env[e].p[2])

left_close(e) ==
    /\ At(e, "cmd", "left_close")
    /\ Become(e, [env[e] EXCEPT !.pc = "run", !.fd = close(@, env[e].p[1])])

(***************************************************************************)
(* runcmd(), after parsecmd.                                               *)
(***************************************************************************)
Programs == Filters \cup Sources

\* The program shares the descriptors; without it spawn() returns an error.
runcmd(e) ==
    /\ At(e, "cmd", "run")
    /\ \/ env[e].argv = <<>> /\ exit(e)
       \/ env[e].argv # <<>> /\ Become(e, [env[e] EXCEPT !.pc = "close_all", !.wait = <<e, -1>>])
       \/ /\ env[e].argv # <<>> /\ env[e].argv[1] \in Programs /\ FreeEnvs # {}
          /\ fork(e, [env[e] EXCEPT !.pc = "wait"],
                     [env[e] EXCEPT !.st = "prog", !.pc = "run", !.toks = <<>>, !.p = <<0, 0>>,
                                    !.out = IF env[e].argv[1] \in Sources THEN Bytes ELSE 0])

\* close_all() comes before wait().
Closed(e) == \A i \in Fds : env[e].fd[i] = None

close_all(e) ==
    /\ At(e, "cmd", "close_all") \/ (At(e, "cmd", "wait") /\ ~Closed(e))
    /\ Become(e, [env[e] EXCEPT !.pc = "wait", !.fd = NoFds])

cmd_wait(e) ==
    /\ At(e, "cmd", "wait") /\ Closed(e) /\ wait(e)
    /\ exit(e)

cmd(e) == \/ token(e) \/ redirect(e) \/ make_pipe(e) \/ pipe_fork(e) \/ right(e) \/ right_close(e)
          \/ left(e) \/ left_close(e) \/ runcmd(e) \/ close_all(e) \/ cmd_wait(e)

(***************************************************************************)
(* The programs, byte by byte: like cat and echo.                          *)
(***************************************************************************)
Held(end) == \E e \in Envs : \E i \in Fds : env[e].fd[i] = end
IsFilter(e) == env[e].argv[1] \in Filters

\* read() for a filter: a byte, the end of the input, or an error, which is the
\* end too.
prog_read(e) ==
    LET in == env[e].fd[0] IN
    /\ At(e, "prog", "run") /\ IsFilter(e) /\ env[e].out = 0
    /\ \/ in[1] = "read" /\ pipes[in[2]].n > 0
          /\ pipes' = [pipes EXCEPT ![in[2]].n = @ - 1]
          /\ env' = [env EXCEPT ![e].out = 1]
          /\ UNCHANGED script
       \/ in[1] = "read" /\ pipes[in[2]].n = 0 /\ ~Held(<<"write", in[2]>>) /\ exit(e)
       \/ in[1] \in {"cons", "file"} /\ Become(e, [env[e] EXCEPT !.out = 1, !.pc = "last"])
       \/ in[1] # "read" /\ exit(e)

\* write(): a byte, or an error, on which cat panics while echo goes on.
prog_write(e) ==
    LET to == env[e].fd[1]
        fails == to = None \/ (to[1] = "write" /\ ~Held(<<"read", to[2]>>))
    IN
    /\ env[e].st = "prog" /\ env[e].out > 0
    /\ \/ /\ to[1] = "write" /\ pipes[to[2]].n < BY2PIPE /\ ~fails
          /\ pipes' = [pipes EXCEPT ![to[2]].n = @ + 1]
          /\ env' = [env EXCEPT ![e].out = @ - 1]
          /\ UNCHANGED script
       \/ fails /\ IsFilter(e) /\ exit(e)
       \/ (to[1] # "write" \/ fails) /\ ~(fails /\ IsFilter(e)) /\ Become(e, [env[e] EXCEPT !.out = @ - 1])

prog_exit(e) ==
    /\ env[e].st = "prog" /\ env[e].out = 0 /\ (~IsFilter(e) \/ env[e].pc = "last")
    /\ exit(e)

prog(e) == prog_read(e) \/ prog_write(e) \/ prog_exit(e)

shell == readline \/ main_fork \/ main_wait

Step(e) == (e = main /\ shell) \/ cmd(e) \/ prog(e)

\* Everything has ended.
Over == (\A e \in Envs : env[e].st \in {"free", "other"}) /\ UNCHANGED vars

Next == (\E e \in Envs : Step(e)) \/ Over

Spec == Init /\ [][Next]_vars

\* The scheduler runs every environment again and again (RunnableRuns).
FairSpec == Spec /\ \A e \in Envs : WF_vars(Step(e))

(***************************************************************************)
(* Properties.                                                             *)
(***************************************************************************)
\* What the line says of stage s: its tokens, its words without the names of
\* files, and the files that are found for a direction.
Nth(S, n) == CHOOSE i \in S : Cardinality({j \in S : j <= i}) = n
Bars(l) == {i \in DOMAIN l : l[i] = "|"}
LastStage(l) == Cardinality(Bars(l)) + 1
StageOf(l, s) ==
    LET from == IF s = 1 THEN 0 ELSE Nth(Bars(l), s - 1)
        to == IF s = LastStage(l) THEN Len(l) + 1 ELSE Nth(Bars(l), s)
    IN SubSeq(l, from + 1, to - 1)
Used(t) == {i \in DOMAIN t : t[i] \notin Symbols /\ (i = 1 \/ t[i - 1] \notin {"<", ">"})}
WordsOf(t) == [n \in 1 .. Cardinality(Used(t)) |-> t[Nth(Used(t), n)]]
Redirected(t, dir) ==
    {t[i] : i \in {j \in DOMAIN t : /\ j > 1 /\ t[j - 1] = dir /\ t[j] \in Files
                                    /\ \A x \in j + 1 .. Len(t) : ~(t[x - 1] = dir /\ t[x] \in Files)}}

\* The arguments of every program are the words of its stage, and it holds no
\* end of a pipe beside descriptors 0 and 1, which would keep that pipe open:
\* both whatever open() and dup() returned on the way.  Unless one of them
\* failed, which parsecmd does not look at, its two descriptors are what the
\* line says: its file or the pipe before it, the pipe after it or its file,
\* the console otherwise.  The last stage inherits the output file of an earlier
\* one, whose shell it was forked from after the redirection (parsecmd, runcmd).
Wired ==
    \A e \in Envs : env[e].st = "prog" =>
        LET l == script[env[e].job]
            s == env[e].stage
            t == StageOf(l, s)
            Pipe(end, k, made) == /\ k[1] = end
                                  /\ pipes[k[2]].job = env[e].job /\ pipes[k[2]].stage = made
        IN /\ env[e].argv = WordsOf(t)
           /\ \A i \in Fds \ {0, 1} : env[e].fd[i] = None
           /\ ~env[e].failed =>
                /\ IF Redirected(t, "<") # {} THEN env[e].fd[0] \in {<<"file", f>> : f \in Redirected(t, "<")}
                   ELSE IF s > 1 THEN Pipe("read", env[e].fd[0], s - 1) ELSE env[e].fd[0] = Console
                /\ IF s < LastStage(l) THEN Pipe("write", env[e].fd[1], s)
                   ELSE IF Redirected(l, ">") # {} THEN env[e].fd[1] \in {<<"file", f>> : f \in Redirected(l, ">")}
                   ELSE env[e].fd[1] = Console

\* Whatever fails on the way, every command and every program ends, and so
\* the shell comes back: no writer is left without a reader that notices, no
\* reader waits for an end that nobody will close.
JobsEnd ==
    /\ \A e \in Envs : env[e].st \in {"cmd", "prog"} ~> env[e].st = "free"
    /\ At(main, "shell", "wait") ~> At(main, "shell", "prompt")

\* The prompt means that the command is done: "set '*rightpipe' to the
\* returned child envid", for which runcmd then waits.
PromptMeansDone ==
    At(main, "shell", "prompt") => \A e \in Envs \ {main} : env[e].st \notin {"cmd", "prog"}
=============================================================================
