-------------------------------- MODULE Pipe --------------------------------
(***************************************************************************)
(* One pipe of user/lib/pipe.c, shared by several environments, with the   *)
(* descriptor calls of user/lib/fd.c and fork() that change who holds it.  *)
(*                                                                         *)
(* The pipe has three pages: the Fd page of the read end, the Fd page of   *)
(* the write end and the page of the struct Pipe.  Nothing records who has *)
(* an end open: the library compares the reference counts of pages.  User  *)
(* code may be preempted between any two system calls and any two accesses *)
(* to shared memory; these are the steps of this module.                   *)
(*                                                                         *)
(* One environment reads and one writes, as in the programs of the         *)
(* repository: p_rpos and p_wpos have no lock.                             *)
(***************************************************************************)
EXTENDS Integers, Sequences, FiniteSets

CONSTANTS Proc,      \* environments that may hold the pipe
          Creator,   \* the one that calls pipe()
          Reader,    \* the environment that calls read()
          Writer,    \* the environment that calls write()
          MAXFD,     \* number of descriptors of an environment
          BY2PIPE,   \* size of p_buf
          Orders,    \* orders in which the build updates position and byte
          MaxRequest,\* bound: the largest n of a read or write
          MaxBytes   \* bound: the bytes written into the pipe in all

ASSUME PipeAssumption ==
  /\ IsFiniteSet(Proc)
  /\ Creator \in Proc
  /\ Reader \in Proc /\ Writer \in Proc
  /\ MAXFD \in Nat /\ MAXFD >= 2
  /\ BY2PIPE \in Nat \ {0}
  /\ Orders \subseteq {"byte_first", "pos_first"}
  /\ MaxRequest \in Nat /\ MaxBytes \in Nat

Slot == 0..MAXFD-1
NONE == "unmapped"
End  == {"r", "w"}
Other(e) == IF e = "r" THEN "w" ELSE "r"

VARIABLES fdmap,      \* fdmap[p][s]: the end whose Fd page p maps at INDEX2FD(s)
          datamap,    \* datamap[p][s]: p maps the Pipe page at INDEX2DATA(s)
          p_rpos, p_wpos, p_buf,   \* the struct Pipe
          pc,         \* where each environment is
          frame,      \* arguments and locals of the call it is in
          rescheduled,\* env_runs has changed since p saved it in 'runs'
                      \* (TRUE when p is not between the two)
          got         \* history: the bytes read, in order

mapVars  == <<fdmap, datamap>>
pipeVars == <<p_rpos, p_wpos, p_buf, got>>
vars     == <<mapVars, pipeVars, pc, frame, rescheduled>>

\* The k-th byte written is the number k, so that FIFO order is visible.
Byte == 0..MaxBytes

Label == {"unborn", "embryo", "idle", "dead", "close_fd", "close_data",
          "close_all", "dup_fd", "dup_data", "fork_fd", "fork_data",
          "read", "get_byte", "get_pos", "write", "put_byte", "put_pos",
          "chk_fd", "chk_pipe", "chk_cmp"}

Frame == [op : {"none", "close", "dup", "exit", "fork", "read", "write", "poll"},
          fd : Slot, to : Slot, child : Proc, i : 0..MaxRequest, n : 0..MaxRequest,
          half : {0, 1},           fd_ref : Nat, pipe_ref : Nat]

NoCall == [op |-> "none", fd |-> 0, to |-> 0, child |-> Creator, i |-> 0, n |-> 0,
           half |-> 0, fd_ref |-> 0, pipe_ref |-> 0]

Place == Proc \X Slot

\* pageref() of the Fd page of end e, and of the Pipe page.
FdRef(e)  == Cardinality({x \in Place : fdmap[x[1]][x[2]] = e})
PipeRef   == Cardinality({x \in Place : datamap[x[1]][x[2]]})

-----------------------------------------------------------------------------
\* pipe() by the creator: read end in descriptor 0, write end in descriptor 1.
BothEnds == [s \in Slot |-> IF s = 0 THEN "r" ELSE IF s = 1 THEN "w" ELSE NONE]

InitWith(holders) ==
  /\ fdmap = [p \in Proc |-> IF p \in holders THEN BothEnds ELSE [s \in Slot |-> NONE]]
  /\ datamap = [p \in Proc |-> [s \in Slot |-> p \in holders /\ s \in {0, 1}]]
  /\ p_rpos = 0 /\ p_wpos = 0
  /\ p_buf = [k \in 0..BY2PIPE-1 |-> 0]
  /\ pc = [p \in Proc |-> IF p \in holders THEN "idle" ELSE "unborn"]
  /\ frame = [p \in Proc |-> NoCall]
  /\ rescheduled = [p \in Proc |-> TRUE]
  /\ got = <<>>

Init       == InitWith({Creator})
ForkedInit == InitWith(Proc)    \* after the creator has forked all the others

-----------------------------------------------------------------------------
(* Control: entering a call, going on in it, returning from it.            *)

Call(p, label, f) ==
  /\ pc[p] = "idle"
  /\ pc' = [pc EXCEPT ![p] = label]
  /\ frame' = [frame EXCEPT ![p] = f]

Goto(p, label) == pc' = [pc EXCEPT ![p] = label] /\ UNCHANGED frame

Return(p) == /\ pc' = [pc EXCEPT ![p] = "idle"]
             /\ frame' = [frame EXCEPT ![p] = NoCall]

\* The end that the descriptor of the current call refers to.
MyEnd(p) == fdmap[p][frame[p].fd]

-----------------------------------------------------------------------------
(* close(): pipe_close unmaps the Fd page, then the Pipe page.             *)

close(p, s) ==
  /\ fdmap[p][s] # NONE
  /\ Call(p, "close_fd", [NoCall EXCEPT !.op = "close", !.fd = s])
  /\ UNCHANGED <<mapVars, pipeVars>>

\* The descriptor being closed: dup() closes its target first.
Closing(p) == IF frame[p].op = "dup" THEN frame[p].to ELSE frame[p].fd

close_fd(p) ==
  /\ pc[p] = "close_fd"
  /\ fdmap' = [fdmap EXCEPT ![p][Closing(p)] = NONE]
  /\ Goto(p, "close_data")
  /\ UNCHANGED <<datamap, pipeVars>>

close_data_leaks(p) ==
  /\ pc[p] = "close_data"
  /\ \/ frame[p].op = "close" /\ Return(p)
     \/ frame[p].op = "dup" /\ Goto(p, "dup_fd")
     \/ frame[p].op = "exit" /\ Goto(p, "close_all")
  /\ UNCHANGED <<mapVars, pipeVars>>

close_data(p) ==
  /\ pc[p] = "close_data"
  /\ datamap' = [datamap EXCEPT ![p][Closing(p)] = FALSE]
  /\ \/ frame[p].op = "close" /\ Return(p)
     \/ frame[p].op = "dup" /\ Goto(p, "dup_fd")
     \/ frame[p].op = "exit" /\ Goto(p, "close_all")
  /\ UNCHANGED <<fdmap, pipeVars>>

\* exit(): close_all() in the order of the descriptors, then env_destroy.
exit(p) ==
  /\ Call(p, "close_all", [NoCall EXCEPT !.op = "exit"])
  /\ UNCHANGED <<mapVars, pipeVars>>

OpenSlots(p) == {s \in Slot : fdmap[p][s] # NONE}

close_all(p) ==
  /\ pc[p] = "close_all"
  /\ \/ /\ OpenSlots(p) = {}
        /\ pc' = [pc EXCEPT ![p] = "dead"]
        /\ frame' = [frame EXCEPT ![p] = NoCall]
     \/ \E s \in OpenSlots(p) :
          /\ \A t \in OpenSlots(p) : s <= t
          /\ pc' = [pc EXCEPT ![p] = "close_fd"]
          /\ frame' = [frame EXCEPT ![p].fd = s]
  /\ UNCHANGED <<mapVars, pipeVars>>

-----------------------------------------------------------------------------
(* dup(): close(newfdnum), then map the Fd page, then map the Pipe page.   *)
(* When both numbers are the same the close leaves nothing to map.         *)

dup(p, old, new) ==
  /\ fdmap[p][old] # NONE
  /\ Call(p, IF fdmap[p][new] = NONE THEN "dup_fd" ELSE "close_fd",
          [NoCall EXCEPT !.op = "dup", !.fd = old, !.to = new])
  /\ UNCHANGED <<mapVars, pipeVars>>

dup_fd(p) ==
  /\ pc[p] = "dup_fd"
  /\ fdmap' = [fdmap EXCEPT ![p][frame[p].to] = MyEnd(p)]
  /\ IF MyEnd(p) = NONE THEN Return(p) ELSE Goto(p, "dup_data")
  /\ UNCHANGED <<datamap, pipeVars>>

dup_data_forgotten(p) ==
  /\ pc[p] = "dup_data"
  /\ Return(p)
  /\ UNCHANGED <<mapVars, pipeVars>>

dup_data(p) ==
  /\ pc[p] = "dup_data"
  /\ datamap' = [datamap EXCEPT ![p][frame[p].to] = datamap[p][frame[p].fd]]
  /\ Return(p)
  /\ UNCHANGED <<fdmap, pipeVars>>

-----------------------------------------------------------------------------
(* fork(): duppage() shares the PTE_LIBRARY pages in address order, so all *)
(* the Fd pages come before the Pipe page; then the child is started.      *)

fork(p, c) ==
  /\ pc[p] = "idle" /\ pc[c] = "unborn"
  /\ pc' = [pc EXCEPT ![p] = "fork_fd", ![c] = "embryo"]
  /\ frame' = [frame EXCEPT ![p] = [NoCall EXCEPT !.op = "fork", !.child = c]]
  /\ UNCHANGED <<mapVars, pipeVars>>

FdsToShare(p)  == {s \in Slot : fdmap[p][s] # NONE /\ fdmap[frame[p].child][s] = NONE}
DataToShare(p) == {s \in Slot : datamap[p][s] /\ ~datamap[frame[p].child][s]}

fork_fd(p) ==
  /\ pc[p] = "fork_fd"
  /\ \/ FdsToShare(p) = {} /\ Goto(p, "fork_data") /\ UNCHANGED fdmap
     \/ \E s \in FdsToShare(p) :
          /\ \A t \in FdsToShare(p) : s <= t
          /\ fdmap' = [fdmap EXCEPT ![frame[p].child][s] = fdmap[p][s]]
          /\ UNCHANGED <<pc, frame>>
  /\ UNCHANGED <<datamap, pipeVars>>

fork_data(p) ==
  /\ pc[p] = "fork_data"
  /\ \/ /\ DataToShare(p) = {}
        /\ pc' = [pc EXCEPT ![p] = "idle", ![frame[p].child] = "idle"]
        /\ frame' = [frame EXCEPT ![p] = NoCall]
        /\ UNCHANGED datamap
     \/ \E s \in DataToShare(p) :
          /\ \A t \in DataToShare(p) : s <= t
          /\ datamap' = [datamap EXCEPT ![frame[p].child][s] = TRUE]
          /\ UNCHANGED <<pc, frame>>
  /\ UNCHANGED <<fdmap, pipeVars>>

-----------------------------------------------------------------------------
(***************************************************************************)
(* _pipe_is_closed(): the two counts are read one after the other, and     *)
(* again if env_runs shows that the environment was rescheduled meanwhile. *)
(***************************************************************************)
chk_fd(p) ==
  /\ pc[p] = "chk_fd"
  /\ pc' = [pc EXCEPT ![p] = "chk_pipe"]
  /\ frame' = [frame EXCEPT ![p].fd_ref = FdRef(MyEnd(p))]
  /\ UNCHANGED <<mapVars, pipeVars>>

chk_pipe(p) ==
  /\ pc[p] = "chk_pipe"
  /\ pc' = [pc EXCEPT ![p] = "chk_cmp"]
  /\ frame' = [frame EXCEPT ![p].pipe_ref = PipeRef]
  /\ UNCHANGED <<mapVars, pipeVars>>

SaysClosed(p) == frame[p].fd_ref = frame[p].pipe_ref

\* The loop is left or repeated; the counts are dead either way.
Discard(p, label) ==
  /\ pc' = [pc EXCEPT ![p] = label]
  /\ frame' = [frame EXCEPT ![p].fd_ref = 0, ![p].pipe_ref = 0]

\* The comparison and what the caller does with it: pipe_read and pipe_write
\* return when the pipe is closed, and yield and test again when it is not.
chk_cmp(p) ==
  /\ pc[p] = "chk_cmp"
  /\ \/ rescheduled[p] /\ Discard(p, "chk_fd")
     \/ /\ ~rescheduled[p]
        /\ SaysClosed(p) \/ frame[p].op = "poll"
        /\ Return(p)
     \/ /\ ~rescheduled[p]
        /\ ~SaysClosed(p) /\ frame[p].op # "poll"
        /\ Discard(p, frame[p].op)
  /\ UNCHANGED <<mapVars, pipeVars>>

pipe_is_closed(p, s) ==
  /\ fdmap[p][s] # NONE
  /\ Call(p, "chk_fd", [NoCall EXCEPT !.op = "poll", !.fd = s])
  /\ UNCHANGED <<mapVars, pipeVars>>

-----------------------------------------------------------------------------
(***************************************************************************)
(* pipe_read() and pipe_write().  p_buf[p_wpos++ % BY2PIPE] = *wbuf++ is   *)
(* two stores, and C does not say which is first; gcc moves the position   *)
(* first ("pos_first").  The same goes for the load in pipe_read.          *)
(***************************************************************************)
read(p, s, n) ==
  /\ p = Reader
  /\ fdmap[p][s] = "r"
  /\ Call(p, "read", [NoCall EXCEPT !.op = "read", !.fd = s, !.n = n])
  /\ UNCHANGED <<mapVars, pipeVars>>

Empty == p_rpos >= p_wpos

read_test(p) ==
  /\ pc[p] = "read"
  /\ \/ Empty /\ frame[p].i > 0 /\ Return(p)
     \/ Empty /\ frame[p].i = 0 /\ Goto(p, "chk_fd")
     \/ ~Empty /\ "byte_first" \in Orders /\ Goto(p, "get_byte")
     \/ ~Empty /\ "pos_first" \in Orders /\ Goto(p, "get_pos")
  /\ UNCHANGED <<mapVars, pipeVars>>

\* One of the two halves of a transfer is done: the other half, the next
\* iteration, or the end of the loop.
FirstHalf(p) == frame[p].half = 0

Half(p, label) ==
  IF FirstHalf(p)
    THEN /\ pc' = [pc EXCEPT ![p] = label]
         /\ frame' = [frame EXCEPT ![p].half = 1]
  ELSE IF frame[p].i + 1 = frame[p].n
    THEN Return(p)
    ELSE /\ pc' = [pc EXCEPT ![p] = frame[p].op]
         /\ frame' = [frame EXCEPT ![p].i = @ + 1, ![p].half = 0]

get_byte(p) ==
  /\ pc[p] = "get_byte"
  /\ LET pos == IF FirstHalf(p) THEN p_rpos ELSE p_rpos - 1
     IN  got' = Append(got, p_buf[pos % BY2PIPE])
  /\ Half(p, "get_pos")
  /\ UNCHANGED <<mapVars, p_rpos, p_wpos, p_buf>>

get_pos(p) ==
  /\ pc[p] = "get_pos"
  /\ p_rpos' = p_rpos + 1
  /\ Half(p, "get_byte")
  /\ UNCHANGED <<mapVars, p_wpos, p_buf, got>>

write(p, s, n) ==
  /\ p = Writer
  /\ fdmap[p][s] = "w"
  /\ p_wpos + n <= MaxBytes
  /\ Call(p, "write", [NoCall EXCEPT !.op = "write", !.fd = s, !.n = n])
  /\ UNCHANGED <<mapVars, pipeVars>>

Full_off_by_one == p_wpos > p_rpos + BY2PIPE

Full == p_wpos >= p_rpos + BY2PIPE

write_test(p) ==
  /\ pc[p] = "write"
  /\ \/ Full /\ Goto(p, "chk_fd")
     \/ ~Full /\ "byte_first" \in Orders /\ Goto(p, "put_byte")
     \/ ~Full /\ "pos_first" \in Orders /\ Goto(p, "put_pos")
  /\ UNCHANGED <<mapVars, pipeVars>>

put_byte(p) ==
  /\ pc[p] = "put_byte"
  /\ LET pos == IF FirstHalf(p) THEN p_wpos ELSE p_wpos - 1
     IN  p_buf' = [p_buf EXCEPT ![pos % BY2PIPE] = pos + 1]
  /\ Half(p, "put_pos")
  /\ UNCHANGED <<mapVars, p_rpos, p_wpos, got>>

put_pos(p) ==
  /\ pc[p] = "put_pos"
  /\ p_wpos' = p_wpos + 1
  /\ Half(p, "put_byte")
  /\ UNCHANGED <<mapVars, p_rpos, p_buf, got>>

-----------------------------------------------------------------------------
\* The steps of a call that p is in.
Continue(p) ==
  \/ close_fd(p) \/ close_data(p) \/ close_all(p)
  \/ dup_fd(p) \/ dup_data(p)
  \/ fork_fd(p) \/ fork_data(p)
  \/ chk_fd(p) \/ chk_pipe(p) \/ chk_cmp(p)
  \/ read_test(p) \/ get_byte(p) \/ get_pos(p)
  \/ write_test(p) \/ put_byte(p) \/ put_pos(p)

Use(p) ==
  \E s \in Slot :
    \/ close(p, s)
    \/ \E n \in 1..MaxRequest : read(p, s, n) \/ write(p, s, n)

Share(p) ==
  \/ \E s, t \in Slot : dup(p, s, t)
  \/ \E c \in Proc : fork(p, c)

\* env_run() does not count: a process never notices that it was preempted.
Scheduled_uncounted(p) == rescheduled' = [q \in Proc |-> FALSE]

(***************************************************************************)
(* A step of p.  For every other environment this means that it will have  *)
(* been scheduled again, and its env_runs incremented, when it goes on.    *)
(* A timer interrupt that selects the same environment again also counts   *)
(* as a run; it only makes the loop repeat and is left out.                *)
(***************************************************************************)
Scheduled(p) ==
  rescheduled' = [q \in Proc |->
    IF q = p /\ pc'[p] \in {"chk_pipe", "chk_cmp"}
      THEN rescheduled[p] /\ pc[p] # "chk_fd"
      ELSE TRUE]

UseStep(p)  == (Use(p) \/ exit(p) \/ Continue(p)) /\ Scheduled(p)
PollStep(p) == (\E s \in Slot : pipe_is_closed(p, s)) /\ Scheduled(p)

\* The ends are only used and closed.
UseSpec == ForkedInit /\ [][\E p \in Proc : UseStep(p) \/ PollStep(p)]_vars

\* Every environment that is in a call goes on with it: the scheduler is
\* round robin.  Nothing makes a program call the library.  Polling is left
\* out: here a time slice can be one step, and an environment that polls for
\* ever could then interrupt every pass of another through the loop of
\* _pipe_is_closed, which real time slices do not allow.
FairUseSpec ==
  /\ ForkedInit
  /\ [][\E p \in Proc : UseStep(p)]_vars
  /\ \A p \in Proc : WF_vars(Continue(p) /\ Scheduled(p))

\* The ends are also duplicated and inherited.
Next == \E p \in Proc : UseStep(p) \/ PollStep(p) \/ (Share(p) /\ Scheduled(p))

Spec == Init /\ [][Next]_vars

-----------------------------------------------------------------------------
PipeTypeOK ==
  /\ fdmap \in [Proc -> [Slot -> End \cup {NONE}]]
  /\ datamap \in [Proc -> [Slot -> BOOLEAN]]
  /\ p_rpos \in Nat /\ p_wpos \in Nat
  /\ p_buf \in [0..BY2PIPE-1 -> Nat]
  /\ pc \in [Proc -> Label]
  /\ frame \in [Proc -> Frame]
  /\ rescheduled \in [Proc -> BOOLEAN]
  /\ got \in Seq(Nat)

OpenSomewhere(e) == \E p \in Proc, s \in Slot : fdmap[p][s] = e

\* p is about to act on the counts it has read.
Decides(p) == pc[p] = "chk_cmp" /\ ~rescheduled[p]

(***************************************************************************)
(* _pipe_is_closed() tells the truth when it says "closed": the counts are *)
(* equal only if no environment has the other end open.  Otherwise a       *)
(* reader would see an end of file while a writer is alive.                *)
(***************************************************************************)
ClosedIsReal ==
  \A p \in Proc :
    Decides(p) /\ SaysClosed(p) => ~OpenSomewhere(Other(MyEnd(p)))

(***************************************************************************)
(* And it says "closed" whenever the other end is closed, provided nobody  *)
(* is halfway through closing, duplicating or inheriting a descriptor.     *)
(***************************************************************************)
ClosedIsSeen ==
  \A p \in Proc :
    /\ Decides(p)
    /\ \A q \in Proc : pc[q] \notin {"close_data", "dup_data", "fork_fd", "fork_data"}
    /\ ~OpenSomewhere(Other(MyEnd(p)))
    => SaysClosed(p)

\* The bytes stored so far.  Between the two halves of a transfer this is one
\* more, or one less, than the position says.
Stored ==
  IF frame[Writer].half = 0 THEN p_wpos
  ELSE IF pc[Writer] = "put_pos" THEN p_wpos + 1
  ELSE IF pc[Writer] = "put_byte" THEN p_wpos - 1
  ELSE p_wpos

\* The k-th byte is announced and not stored: the writer moved p_wpos first.
HalfWritten(k) == p_wpos = k /\ Stored = k - 1

\* The k-th byte is given up and not loaded, and the writer has already used
\* its place: the reader moved p_rpos first.
Lapped(k) == p_rpos = k /\ Stored = k + BY2PIPE

(***************************************************************************)
(* What pipe_read() delivers, in whichever order the build moves position  *)
(* and byte.  Every byte comes out once and in its turn, and it is the one *)
(* written, with two exceptions: a byte announced before it is stored      *)
(* reads as what the buffer held one lap earlier, and a byte given up      *)
(* before it is loaded may read as the one a lap later.  Nothing else is   *)
(* ever lost, doubled or overwritten unread.                               *)
(***************************************************************************)
Fifo ==
  [][got' # got =>
       LET k == Len(got) + 1
       IN  got' = Append(got, IF HalfWritten(k) THEN (IF k > BY2PIPE THEN k - BY2PIPE ELSE 0)
                              ELSE IF Lapped(k) THEN k + BY2PIPE
                              ELSE k)]_vars

(***************************************************************************)
(* The bytes come out in the order they went in: true of a build that      *)
(* moves the byte first on both sides, and only of such a build.           *)
(***************************************************************************)
InOrder == \A k \in 1..Len(got) : got[k] = k

(***************************************************************************)
(* pipe_read() returns 0 only if the pipe is closed "and nothing has been  *)
(* written since the last read".                                           *)
(***************************************************************************)
EofMeansDrained ==
  [][\A p \in Proc :
       Decides(p) /\ SaysClosed(p) /\ frame[p].op = "read" /\ pc'[p] = "idle"
         => Empty]_vars

(***************************************************************************)
(* A blocked call comes back once the other end is closed everywhere: the  *)
(* loops of pipe_read and pipe_write do not spin for ever.                 *)
(***************************************************************************)
CloseUnblocks ==
  \A p \in Proc :
    (frame[p].op \in {"read", "write"} /\ ~OpenSomewhere(Other(MyEnd(p))))
      ~> (frame[p].op \notin {"read", "write"})
=============================================================================
