------------------------------- MODULE TailQ --------------------------------
(***************************************************************************)
(* The tail queue of include/queue.h at the level of its pointers.         *)
(*                                                                         *)
(* A queue is a record q.  q.first is tqh_first; q.last is tqh_last, the   *)
(* address of the next-field of the last element; q.next[e] is             *)
(* e->tqe_next; q.prev[e] is e->tqe_prev, the address of the field that    *)
(* points to e.  The address of a next-field is written as the element it  *)
(* belongs to, the address of tqh_first as HEAD, and the zero pointer as   *)
(* NULL.  The link fields of an element that is in no queue keep the       *)
(* values they were left with, as they do in the code: the macros never    *)
(* clear them.                                                             *)
(***************************************************************************)
EXTENDS Integers, Sequences

CONSTANTS Env,    \* the structures that carry the link field
          NULL,   \* the zero pointer
          HEAD    \* the address of tqh_first

ASSUME PtrAssumption == /\ NULL \notin Env
                        /\ HEAD \notin Env
                        /\ NULL # HEAD

TailQueue == [first : Env \cup {NULL},
              last  : Env \cup {HEAD},
              next  : [Env -> Env \cup {NULL}],
              prev  : [Env -> Env \cup {HEAD, NULL}]]

(***************************************************************************)
(* *c = v, for an address c that is HEAD or the next-field of an element.  *)
(***************************************************************************)
Store(q, c, v) ==
  IF c = HEAD THEN [q EXCEPT !.first = v]
              ELSE [q EXCEPT !.next = [@ EXCEPT ![c] = v]]

\* TAILQ_INIT on zeroed memory: 'envs' and the list head live in .bss.
TAILQ_INIT == [first |-> NULL, last |-> HEAD,
               next |-> [e \in Env |-> NULL], prev |-> [e \in Env |-> NULL]]

TAILQ_EMPTY(q) == q.first = NULL

TAILQ_FIRST(q) == q.first

TAILQ_INSERT_HEAD(q, e) ==
  [first |-> e,
   last  |-> IF q.first = NULL THEN e ELSE q.last,
   next  |-> [q.next EXCEPT ![e] = q.first],
   prev  |-> [x \in Env |-> IF x = e THEN HEAD
                             ELSE IF x = q.first THEN e
                             ELSE q.prev[x]]]

\* The stores happen in the order of the macro: when e is (wrongly) already
\* the last element, *tqh_last = e makes e its own successor.
TAILQ_INSERT_TAIL(q, e) ==
  LET linked == [q EXCEPT !.next = [@ EXCEPT ![e] = NULL],
                          !.prev = [@ EXCEPT ![e] = q.last]]
  IN  [Store(linked, q.last, e) EXCEPT !.last = e]

\* TAILQ_REMOVE writes through e->tqe_prev, which is a null pointer in an
\* element that was never in the queue: callers check CanUnlink.
CanUnlink(q, e) == q.prev[e] # NULL

TAILQ_REMOVE_keeps_last(q, e) ==
  LET unlinked == IF q.next[e] # NULL
                    THEN [q EXCEPT !.prev = [@ EXCEPT ![q.next[e]] = q.prev[e]]]
                    ELSE q
  IN  Store(unlinked, q.prev[e], q.next[e])

TAILQ_REMOVE(q, e) ==
  LET unlinked == IF q.next[e] # NULL
                    THEN [q EXCEPT !.prev = [@ EXCEPT ![q.next[e]] = q.prev[e]]]
                    ELSE [q EXCEPT !.last = q.prev[e]]
  IN  Store(unlinked, q.prev[e], q.next[e])

-----------------------------------------------------------------------------
(***************************************************************************)
(* What the pointers are meant to represent: q holds exactly the elements  *)
(* of the sequence s, in that order, each once.                            *)
(***************************************************************************)
Elements(s) == {s[i] : i \in 1..Len(s)}

IsQueue(q, s) ==
  /\ s \in Seq(Env)
  /\ \A i, j \in 1..Len(s) : s[i] = s[j] => i = j
  /\ q.first = IF Len(s) = 0 THEN NULL ELSE s[1]
  /\ q.last = IF Len(s) = 0 THEN HEAD ELSE s[Len(s)]
  /\ \A i \in 1..Len(s) :
       /\ q.next[s[i]] = IF i = Len(s) THEN NULL ELSE s[i+1]
       /\ q.prev[s[i]] = IF i = 1 THEN HEAD ELSE s[i-1]

\* The sequence without its p-th element.
Without(s, p) ==
  [i \in 1..(Len(s) - 1) |-> IF i < p THEN s[i] ELSE s[i + 1]]
=============================================================================
