------------------------------- MODULE EnvLib -------------------------------
(***************************************************************************)
(* The system calls of EnvSched as user/lib makes them: fork (exofork,     *)
(* then the child's first status change), exit, ipc_send, ipc_recv, yield, *)
(* and reading the console.  A user program built from the library makes   *)
(* no other call on environments, except spawn() when loading fails.       *)
(***************************************************************************)
EXTENDS EnvSched

\* A child between exofork and the call that starts it.
Embryo(c) == env_status[c] = NOT_RUNNABLE /\ ~env_ipc_recving[c]

\* The end of fork() and of spawn(): syscall_set_env_status(child, RUNNABLE).
start_child(c) ==
  /\ Embryo(c)
  /\ sys_set_env_status(env_id[c], RUNNABLE)

\* exit(): syscall_env_destroy(0).
exit == sys_env_destroy(ZeroId)

\* One round of the loop in ipc_send() that finds its target receiving.
ipc_send(whom, value) == sys_ipc_try_send(whom, value)

\* spawn(), labels err1 and err2: the child that cannot be loaded is
\* destroyed before it was ever started.
spawn_fails(c) ==
  /\ Embryo(c)
  /\ c # curenv
  /\ sys_env_destroy(env_id[c])

LibNext ==
  \/ Boot
  \/ handle_timer
  \/ sys_yield
  \/ sys_cgetc
  \/ scancharc
  \/ sys_exofork
  \/ sys_exofork_no_asid
  \/ sys_ipc_recv
  \/ exit
  \/ \E c \in Env : start_child(c)
  \/ \E id \in Envid, v \in Value : ipc_send(id, v)

LibSpec == Init /\ [][LibNext]_vars

\* The timer keeps firing: handle_timer re-arms it before it does anything
\* else, and user code cannot mask it.  An interrupt that comes while the
\* kernel runs (it may poll the console) stays pending and is taken on the
\* return to user mode, however often the kernel is entered: hence SF.
\* Nothing makes a user press a key: scancharc is not fair.
FairLibSpec == LibSpec /\ SF_vars(handle_timer)

SpawnNext == LibNext \/ \E c \in Env : spawn_fails(c)

SpawnSpec == Init /\ [][SpawnNext]_vars

\* The user goes on typing: no read of the console waits for ever.
ConsoleAnswers == []<>(machine # "console")

(***************************************************************************)
(* Round robin starves nobody: as long as no read of the console waits for *)
(* ever in the kernel, which blocks all environments (kern/syscall_all.c,  *)
(* at sys_cgetc), one that is runnable gets the CPU, whatever calls the    *)
(* others make (schedule moves the preempted environment to the tail and   *)
(* takes the head).                                                        *)
(***************************************************************************)
RunnableRuns ==
  ConsoleAnswers =>
    \A e \in Env : (machine = "up" /\ env_status[e] = RUNNABLE) ~> (curenv = e)
=============================================================================
