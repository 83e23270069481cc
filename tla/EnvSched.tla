------------------------------ MODULE EnvSched ------------------------------
(***************************************************************************)
(* Environments and their scheduling: kern/env.c, kern/sched.c and the     *)
(* system calls of kern/syscall_all.c that act on environments.            *)
(*                                                                         *)
(* There is one CPU and the kernel runs with interrupts off, so every      *)
(* system call and every timer interrupt is one action.  A system call is  *)
(* made by 'curenv'; which call it makes, and with which arguments, is     *)
(* arbitrary here.  EnvLib restricts the calls to those user/lib makes.    *)
(* A call that returns an error before it has changed anything is a        *)
(* stuttering step and is left out.                                        *)
(***************************************************************************)
EXTENDS TailQ, FiniteSets

CONSTANTS envs,      \* the array of all environments, as a sequence
          NASID,     \* number of address space identifiers
          GenMod,    \* number of generations in an envid: 2^(32-1-LOG2NENV)
          Pri,       \* the priorities env_create is called with
          Value,     \* the values sent in messages
          MaxAlloc   \* bound: mkenvid is called while its counter is below this

ASSUME EnvsAssumption ==
  /\ envs \in Seq(Env)
  /\ Len(envs) > 0
  /\ \A e \in Env : \E i \in 1..Len(envs) : envs[i] = e
  /\ \A i, j \in 1..Len(envs) : envs[i] = envs[j] => i = j

ASSUME ParamAssumption ==
  /\ NASID \in Nat
  /\ GenMod \in Nat \ {0}
  /\ MaxAlloc \in Nat
  /\ Pri \subseteq Nat \ {0}
  /\ 0 \in Value

FREE         == "ENV_FREE"
RUNNABLE     == "ENV_RUNNABLE"
NOT_RUNNABLE == "ENV_NOT_RUNNABLE"
Status       == {FREE, RUNNABLE, NOT_RUNNABLE}

\* An envid is a generation shifted left or'ed with the index of a slot; the
\* two fields do not overlap, so it is a pair.  The number 0 is generation 0
\* of slot 0.
Envid  == (0..GenMod-1) \X Env
ZeroId == <<0, envs[1]>>

ENVX(envid) == envid[2]

\* What the machine is doing: booting, running with interrupts enabled,
\* waiting in the kernel for a key, or stopped for one of the reasons the
\* kernel can stop for.
Machine == {"boot", "up", "console", "no_runnable_envs", "no_free_env",
            "null_store", "assert_runnable"}

VARIABLES env_status,       \* [Env -> Status]
          env_sched_list,   \* the tail queue of runnable environments
          env_free_list,    \* the free list; used as a stack, so a sequence
          curenv,           \* the environment that runs, or NULL
          count,            \* time slices left, static in schedule()
          env_pri,
          env_id,
          env_parent_id,
          env_ipc_recving,
          env_ipc_value,
          env_ipc_from,
          asid_bitmap,      \* the set of allocated ASIDs
          env_asid,
          next_id,          \* static counter of mkenvid()
          machine

idVars    == <<env_id, env_parent_id, next_id>>
asidVars  == <<asid_bitmap, env_asid>>
ipcVars   == <<env_ipc_recving, env_ipc_value, env_ipc_from>>
schedVars == <<env_sched_list, curenv, count, machine>>
vars == <<env_status, env_free_list, env_pri, idVars, asidVars, ipcVars, schedVars>>

Runnable == {e \in Env : env_status[e] = RUNNABLE}
Live     == {e \in Env : env_status[e] # FREE}

-----------------------------------------------------------------------------
\* env_init: everything is free, the list is in the order of the array.
\* All the other fields are zero because 'envs' is in .bss.
Init ==
  /\ env_status = [e \in Env |-> FREE]
  /\ env_sched_list = TAILQ_INIT
  /\ env_free_list = envs
  /\ curenv = NULL
  /\ count = 0
  /\ env_pri = [e \in Env |-> 0]
  /\ env_id = [e \in Env |-> ZeroId]
  /\ env_parent_id = [e \in Env |-> ZeroId]
  /\ env_ipc_recving = [e \in Env |-> FALSE]
  /\ env_ipc_value = [e \in Env |-> 0]
  /\ env_ipc_from = [e \in Env |-> ZeroId]
  /\ asid_bitmap = {}
  /\ env_asid = [e \in Env |-> 0]
  /\ next_id = 0
  /\ machine = "boot"

-----------------------------------------------------------------------------
\* The test made of the previous 'curenv'.
CanGoOn_null_check_only(cur, st) == cur # NULL

CanGoOn(cur, st) == cur # NULL /\ st[cur] = RUNNABLE

\* The previous 'curenv' goes to the tail of the list.
Rotate_never(q, e) == q

Rotate(q, e) == TAILQ_INSERT_TAIL(TAILQ_REMOVE(q, e), e)

SlicesLeft_no_decrement(switch, e) == IF switch THEN env_pri[e] ELSE count

SlicesLeft(switch, e) == (IF switch THEN env_pri[e] ELSE count) - 1

(***************************************************************************)
(* schedule(yield), called with 'curenv' = cur, the statuses st and the    *)
(* list q that the caller has left, and env_run of the chosen environment. *)
(***************************************************************************)
schedule(yield, cur, st, q) ==
  LET stays  == CanGoOn(cur, st)
      switch == yield \/ count = 0 \/ ~stays
      queue  == IF switch /\ stays THEN Rotate(q, cur) ELSE q
      chosen == IF switch THEN TAILQ_FIRST(queue) ELSE cur
  IN  /\ env_sched_list' = queue
      /\ IF switch /\ TAILQ_EMPTY(queue)
           THEN /\ machine' = "no_runnable_envs"
                /\ curenv' = cur
                /\ count' = count
           ELSE /\ count' = SlicesLeft(switch, chosen)
                /\ IF st[chosen] = RUNNABLE
                     THEN curenv' = chosen /\ machine' = machine
                     ELSE curenv' = cur /\ machine' = "assert_runnable"

envid2env_no_checkperm(envid, checkperm) ==
  IF envid = ZeroId THEN curenv
  ELSE LET e == ENVX(envid)
       IN  IF env_status[e] # FREE /\ env_id[e] = envid THEN e ELSE NULL

\* envid2env: the environment an envid denotes for 'curenv', or NULL.
envid2env(envid, checkperm) ==
  IF envid = ZeroId THEN curenv
  ELSE LET e == ENVX(envid)
       IN  IF /\ env_status[e] # FREE
              /\ env_id[e] = envid
              /\ checkperm => e = curenv \/ env_parent_id[e] = env_id[curenv]
             THEN e ELSE NULL

mkenvid_slot_only(e) == <<1, e>>

mkenvid(e) == <<(next_id + 1) % GenMod, e>>

FreeAsids_one_too_many == (0..NASID) \ asid_bitmap

FreeAsids == (0..NASID-1) \ asid_bitmap

\* asid_alloc takes the lowest free bit.
asid_alloc(a) == a \in FreeAsids /\ \A b \in FreeAsids : a <= b

(***************************************************************************)
(* env_alloc.  The envid is made, and the slot's env_id overwritten,       *)
(* before asid_alloc may fail.                                             *)
(***************************************************************************)
env_alloc_id(e) ==
  /\ next_id < MaxAlloc
  /\ next_id' = (next_id + 1) % GenMod
  /\ env_id' = [env_id EXCEPT ![e] = mkenvid(e)]

env_alloc(e, parent_id) ==
  /\ env_free_list # <<>> /\ e = Head(env_free_list)
  /\ env_alloc_id(e)
  /\ \E a \in FreeAsids :
       /\ asid_alloc(a)
       /\ env_asid' = [env_asid EXCEPT ![e] = a]
       /\ asid_bitmap' = asid_bitmap \cup {a}
  /\ env_parent_id' = [env_parent_id EXCEPT ![e] = parent_id]
  /\ env_free_list' = Tail(env_free_list)

env_alloc_no_asid ==
  /\ env_free_list # <<>>
  /\ env_alloc_id(Head(env_free_list))
  /\ FreeAsids = {}
  /\ UNCHANGED <<asidVars, env_parent_id, env_free_list>>

-----------------------------------------------------------------------------
(* Boot: mips_init creates the first environments and enables interrupts.  *)

env_create(priority) ==
  /\ machine = "boot"
  /\ \E e \in Env :
       /\ env_alloc(e, ZeroId)
       /\ env_pri' = [env_pri EXCEPT ![e] = priority]
       /\ env_status' = [env_status EXCEPT ![e] = RUNNABLE]
       /\ env_sched_list' = TAILQ_INSERT_HEAD(env_sched_list, e)
  /\ UNCHANGED <<ipcVars, curenv, count, machine>>

\* panic_on(env_alloc(&e, 0)).
env_create_fails ==
  /\ machine = "boot"
  /\ \/ env_free_list = <<>> /\ UNCHANGED <<idVars, asidVars, env_free_list>>
     \/ env_alloc_no_asid
  /\ machine' = "no_free_env"
  /\ UNCHANGED <<env_status, env_pri, ipcVars, env_sched_list, curenv, count>>

enable_irq ==
  /\ machine = "boot"
  /\ env_sched_list.first # NULL
  /\ machine' = "up"
  /\ UNCHANGED <<env_status, env_free_list, env_pri, idVars, asidVars, ipcVars,
                 env_sched_list, curenv, count>>

-----------------------------------------------------------------------------
(* Interrupts and system calls.                                            *)

\* A user environment executes.
UserMode == machine = "up" /\ curenv # NULL

\* An environment has the CPU, in user mode or inside sys_cgetc.
OnCpu == machine \in {"up", "console"} /\ curenv # NULL

handle_timer ==
  /\ machine = "up"
  /\ schedule(FALSE, curenv, env_status, env_sched_list)
  /\ UNCHANGED <<env_status, env_free_list, env_pri, idVars, asidVars, ipcVars>>

sys_yield ==
  /\ UserMode
  /\ schedule(TRUE, curenv, env_status, env_sched_list)
  /\ UNCHANGED <<env_status, env_free_list, env_pri, idVars, asidVars, ipcVars>>

(***************************************************************************)
(* sys_cgetc finds no character and polls in the kernel, with interrupts   *)
(* off: until scancharc reads one, nothing else runs, the timer included.  *)
(* (A call that finds a character at once changes nothing.)                *)
(***************************************************************************)
sys_cgetc ==
  /\ UserMode
  /\ machine' = "console"
  /\ UNCHANGED <<env_status, env_free_list, env_pri, idVars, asidVars, ipcVars,
                 env_sched_list, curenv, count>>

\* A key is pressed: scancharc returns it and the loop of sys_cgetc ends.
scancharc ==
  /\ machine = "console"
  /\ machine' = "up"
  /\ UNCHANGED <<env_status, env_free_list, env_pri, idVars, asidVars, ipcVars,
                 env_sched_list, curenv, count>>

sys_exofork ==
  /\ UserMode
  /\ \E e \in Env :
       /\ env_alloc(e, env_id[curenv])
       /\ env_status' = [env_status EXCEPT ![e] = NOT_RUNNABLE]
       /\ env_pri' = [env_pri EXCEPT ![e] = env_pri[curenv]]
  /\ UNCHANGED <<ipcVars, schedVars>>

sys_exofork_no_asid ==
  /\ UserMode
  /\ env_alloc_no_asid
  /\ UNCHANGED <<env_status, env_pri, ipcVars, schedVars>>

(***************************************************************************)
(* env_free gives back the ASID and the slot; it also unlinks the slot     *)
(* from env_sched_list, whatever its status was, which env_destroy states. *)
(* schedule(1) if it was curenv.                                           *)
(***************************************************************************)
env_free_keeps_asid(e) ==
  /\ env_status' = [env_status EXCEPT ![e] = FREE]
  /\ env_free_list' = <<e>> \o env_free_list
  /\ UNCHANGED <<asidVars, env_pri, idVars, ipcVars>>

env_free_drops_slot(e) ==
  /\ asid_bitmap' = asid_bitmap \ {env_asid[e]}
  /\ env_status' = [env_status EXCEPT ![e] = FREE]
  /\ UNCHANGED <<env_free_list, env_asid, env_pri, idVars, ipcVars>>

env_free(e) ==
  /\ asid_bitmap' = asid_bitmap \ {env_asid[e]}
  /\ env_status' = [env_status EXCEPT ![e] = FREE]
  /\ env_free_list' = <<e>> \o env_free_list
  /\ UNCHANGED <<env_asid, env_pri, idVars, ipcVars>>

env_destroy(e) ==
  LET q == TAILQ_REMOVE(env_sched_list, e)
  IN  /\ env_free(e)
      /\ IF ~CanUnlink(env_sched_list, e)
           THEN machine' = "null_store" /\ UNCHANGED <<env_sched_list, curenv, count>>
         ELSE IF e = curenv
           THEN schedule(TRUE, NULL, env_status', q)
           ELSE env_sched_list' = q /\ UNCHANGED <<curenv, count, machine>>

sys_env_destroy(envid) ==
  /\ UserMode
  /\ envid2env(envid, TRUE) # NULL
  /\ env_destroy(envid2env(envid, TRUE))

sys_set_env_status(envid, status) ==
  /\ UserMode
  /\ LET e == envid2env(envid, TRUE)
     IN  /\ e # NULL
         /\ env_status[e] # status
         /\ env_status' = [env_status EXCEPT ![e] = status]
         /\ env_sched_list' = IF status = RUNNABLE
                                THEN TAILQ_INSERT_TAIL(env_sched_list, e)
                                ELSE TAILQ_REMOVE(env_sched_list, e)
  /\ UNCHANGED <<env_free_list, env_pri, idVars, asidVars, ipcVars,
                 curenv, count, machine>>

sys_ipc_recv ==
  /\ UserMode
  /\ env_ipc_recving' = [env_ipc_recving EXCEPT ![curenv] = TRUE]
  /\ env_status' = [env_status EXCEPT ![curenv] = NOT_RUNNABLE]
  /\ schedule(TRUE, curenv, env_status', TAILQ_REMOVE(env_sched_list, curenv))
  /\ UNCHANGED <<env_free_list, env_pri, idVars, asidVars, env_ipc_value, env_ipc_from>>

\* The receiver is not asked whether it waits for a message.
sys_ipc_try_send_unasked(envid, value) ==
  /\ UserMode
  /\ LET e == envid2env(envid, FALSE)
     IN  /\ e # NULL
         /\ e # curenv
         /\ env_ipc_value' = [env_ipc_value EXCEPT ![e] = value]
         /\ env_ipc_from' = [env_ipc_from EXCEPT ![e] = env_id[curenv]]
         /\ env_ipc_recving' = [env_ipc_recving EXCEPT ![e] = FALSE]
         /\ env_status' = [env_status EXCEPT ![e] = RUNNABLE]
         /\ env_sched_list' = TAILQ_INSERT_TAIL(env_sched_list, e)
  /\ UNCHANGED <<env_free_list, env_pri, idVars, asidVars, curenv, count, machine>>

(***************************************************************************)
(* sys_ipc_try_send.  The target has been made runnable by the time the    *)
(* page at srcva is looked up and mapped; that outcome only selects the    *)
(* value returned to the sender.                                           *)
(***************************************************************************)
sys_ipc_try_send(envid, value) ==
  /\ UserMode
  /\ LET e == envid2env(envid, FALSE)
     IN  /\ e # NULL
         /\ env_ipc_recving[e]
         /\ env_ipc_value' = [env_ipc_value EXCEPT ![e] = value]
         /\ env_ipc_from' = [env_ipc_from EXCEPT ![e] = env_id[curenv]]
         /\ env_ipc_recving' = [env_ipc_recving EXCEPT ![e] = FALSE]
         /\ env_status' = [env_status EXCEPT ![e] = RUNNABLE]
         /\ env_sched_list' = TAILQ_INSERT_TAIL(env_sched_list, e)
  /\ UNCHANGED <<env_free_list, env_pri, idVars, asidVars, curenv, count, machine>>

-----------------------------------------------------------------------------
Boot == \/ \E p \in Pri : env_create(p)
        \/ env_create_fails
        \/ enable_irq

Next ==
  \/ Boot
  \/ handle_timer
  \/ sys_yield
  \/ sys_cgetc
  \/ scancharc
  \/ sys_exofork
  \/ sys_exofork_no_asid
  \/ sys_ipc_recv
  \/ \E id \in Envid :
       \/ sys_env_destroy(id)
       \/ \E st \in {RUNNABLE, NOT_RUNNABLE} : sys_set_env_status(id, st)
       \/ \E v \in Value : sys_ipc_try_send(id, v)

Spec == Init /\ [][Next]_vars

-----------------------------------------------------------------------------
TypeOK ==
  /\ env_status \in [Env -> Status]
  /\ env_sched_list \in TailQueue
  /\ env_free_list \in Seq(Env)
  /\ curenv \in Env \cup {NULL}
  /\ count \in Int
  /\ env_pri \in [Env -> Nat]
  /\ env_id \in [Env -> Envid]
  /\ env_parent_id \in [Env -> Envid]
  /\ env_ipc_recving \in [Env -> BOOLEAN]
  /\ env_ipc_value \in [Env -> Value]
  /\ env_ipc_from \in [Env -> Envid]
  /\ asid_bitmap \subseteq 0..NASID-1
  /\ env_asid \in [Env -> Nat]
  /\ next_id \in 0..GenMod-1
  /\ machine \in Machine

(***************************************************************************)
(* The invariant stated at env_sched_list in kern/env.c: an environment is *)
(* in the list if and only if its status is ENV_RUNNABLE; the list is well *)
(* formed, so TAILQ_FOREACH over it meets each of them exactly once.       *)
(***************************************************************************)
SchedListExact ==
  \E s \in [1..Cardinality(Runnable) -> Env] :
    /\ IsQueue(env_sched_list, s)
    /\ Elements(s) = Runnable

(***************************************************************************)
(* The kernel stops only for want of a runnable environment: it never      *)
(* stores through a null link, never fails env_run's assertion, and does   *)
(* not report "no runnable envs" while one exists.                         *)
(***************************************************************************)
StopsOnlyWhenAllBlocked ==
  /\ machine \notin {"null_store", "assert_runnable"}
  /\ machine = "no_runnable_envs" => Runnable = {}

(***************************************************************************)
(* Nobody holds the CPU longer than its priority allows: the slices left   *)
(* to the running environment are fewer than its priority, never negative. *)
(* (Waiting for a key is not counted: the timer is off meanwhile.)         *)
(***************************************************************************)
SliceWithinPriority ==
  OnCpu => 0 <= count /\ count < env_pri[curenv]

(***************************************************************************)
(* ASIDs isolate: two live environments never share one, and exactly those *)
(* of live environments are marked in the bitmap, so none leaks.           *)
(***************************************************************************)
AsidsExclusive ==
  /\ \A d, e \in Live : env_asid[d] = env_asid[e] => d = e
  /\ asid_bitmap = {env_asid[e] : e \in Live}

(***************************************************************************)
(* No slot is lost or handed out twice: the free list holds exactly the    *)
(* free environments, each once.                                           *)
(***************************************************************************)
FreeListExact ==
  /\ Elements(env_free_list) = Env \ Live
  /\ \A i, j \in 1..Len(env_free_list) :
       env_free_list[i] = env_free_list[j] => i = j

(***************************************************************************)
(* An environment's status changes only by its own call, by its parent's,  *)
(* or by a message it waits for (checkperm of envid2env).  The parent that *)
(* destroys or starts it is the live environment its env_parent_id names.  *)
(***************************************************************************)
StatusConfined ==
  [][\A e \in Live : env_status'[e] # env_status[e] =>
        \/ e = curenv
        \/ env_parent_id[e] = env_id[curenv]
        \/ env_ipc_recving[e] /\ env_status'[e] = RUNNABLE]_vars

(***************************************************************************)
(* No environment is born with children: the envid mkenvid makes is not    *)
(* one a live environment remembers as its parent's, even when the slot    *)
(* was used before.                                                        *)
(***************************************************************************)
BornChildless ==
  [][\A e \in Env \ Live : env_status'[e] # FREE =>
        \A c \in Live : env_parent_id[c] # ZeroId =>
                         env_parent_id[c] # env_id'[e]]_vars

(***************************************************************************)
(* A delivered message stays until its receiver asks for the next one: no  *)
(* later sender overwrites the value before the receiver has run.          *)
(***************************************************************************)
MessageStable ==
  [][\A e \in Live :
        <<env_ipc_value'[e], env_ipc_from'[e]>> # <<env_ipc_value[e], env_ipc_from[e]>>
          => env_ipc_recving[e] /\ ~env_ipc_recving'[e] /\ e # curenv]_vars

(***************************************************************************)
(* The post-condition of schedule(): after a yield 'curenv' is not         *)
(* scheduled again unless it is the only runnable environment.             *)
(***************************************************************************)
YieldGivesWay ==
  [][sys_yield => curenv' # curenv \/ Runnable = {curenv}]_vars
=============================================================================
