------------------------------ MODULE PrivMem -------------------------------
(***************************************************************************)
(* What fork() promises about memory: every environment has a memory of    *)
(* its own that only its own stores change.  A child starts with a copy of *)
(* its parent's, page by page, each page as it was at one instant during   *)
(* the fork.  Only the pages marked PTE_LIBRARY are common to all.         *)
(***************************************************************************)
CONSTANTS Env,   \* environments
          Priv,  \* private pages
          Lib,   \* pages with PTE_LIBRARY
          Value, Zero, NULL,
          Root   \* the first environment

VARIABLES state,  \* state[e]: free, being created, or live
          parent, \* parent[e]: who creates e
          mem,    \* mem[e][va]: contents of a private page, NULL if there is none yet
          lib     \* lib[va]: contents of a shared page

Store(e, va, v) ==
    /\ state[e] = "live"
    /\ IF va \in Lib THEN lib' = [lib EXCEPT ![va] = v] /\ UNCHANGED mem
                     ELSE mem' = [mem EXCEPT ![e][va] = v] /\ UNCHANGED lib
    /\ UNCHANGED <<state, parent>>

\* The pages of S of child c as parent p has them now.
Copied(p, c, S) == [mem EXCEPT ![c] = [va \in Priv |-> IF va \in S THEN mem[p][va] ELSE @[va]]]

Create(p, c, S) ==
    /\ state[p] = "live" /\ state[c] = "free"
    /\ state' = [state EXCEPT ![c] = "embryo"]
    /\ parent' = [parent EXCEPT ![c] = p]
    /\ mem' = Copied(p, c, S)
    /\ UNCHANGED lib

Inherit(c, S) ==
    /\ state[c] = "embryo" /\ state[parent[c]] = "live"
    /\ \A va \in S : mem[c][va] = NULL
    /\ mem' = Copied(parent[c], c, S)
    /\ UNCHANGED <<state, parent, lib>>

Start(c) ==
    /\ state[c] = "embryo"
    /\ \A va \in Priv : mem[c][va] # NULL
    /\ state' = [state EXCEPT ![c] = "live"]
    /\ UNCHANGED <<parent, mem, lib>>

Exit(e) ==
    /\ state[e] = "live"
    /\ state' = [state EXCEPT ![e] = "free"]
    /\ parent' = [parent EXCEPT ![e] = NULL]
    /\ mem' = [mem EXCEPT ![e] = [va \in Priv |-> NULL]]
    /\ lib' = IF \E g \in Env \ {e} : state[g] = "live" THEN lib ELSE [va \in Lib |-> Zero]

Init ==
    /\ state = [e \in Env |-> IF e = Root THEN "live" ELSE "free"]
    /\ parent = [e \in Env |-> NULL]
    /\ mem = [e \in Env |-> [va \in Priv |-> IF e = Root THEN Zero ELSE NULL]]
    /\ lib = [va \in Lib |-> Zero]

Next ==
    \/ \E e \in Env, va \in Priv \cup Lib, v \in Value : Store(e, va, v)
    \/ \E p, c \in Env, S \in SUBSET Priv : Create(p, c, S)
    \/ \E c \in Env, S \in SUBSET Priv : Inherit(c, S)
    \/ \E e \in Env : Start(e) \/ Exit(e)

Spec == Init /\ [][Next]_<<state, parent, mem, lib>>
=============================================================================
