-------------------------------- MODULE Fork --------------------------------
(***************************************************************************)
(* fork() and copy-on-write (user/lib/fork.c) over the system calls on     *)
(* memory and do_tlb_mod() of kern/tlbex.c, with the contents of pages.    *)
(*                                                                         *)
(* fork() marks pages with two system calls, one for the child and one for *)
(* the parent, and keeps storing to its own stack in between: every call   *)
(* of a system call wrapper saves registers there.  cow_entry() makes the  *)
(* private copy in five steps of user code.  All of them can be preempted. *)
(* Reference counts are exact (RefCountExact of Pmap), so a frame is free  *)
(* when nobody maps it.                                                    *)
(***************************************************************************)
EXTENDS Naturals, Sequences, FiniteSets

CONSTANTS Env, Root,
          VaSeq,   \* the pages below USTACKTOP in ascending order
          Stack,   \* the page of the stack, one of them
          Lib,     \* the pages mapped with PTE_LIBRARY
          Frame,   \* physical pages, consecutive numbers
          Value, Zero,
          MaxForks, \* bound on the calls of fork()
          NULL

Va == {VaSeq[i] : i \in 1 .. Len(VaSeq)}
Priv == Va \ Lib
UCOW == "UCOW"

ASSUME ForkAssumption ==
    /\ Root \in Env /\ NULL \notin Env /\ VaSeq \in Seq(Va)
    /\ \A i, j \in 1 .. Len(VaSeq) : i # j => VaSeq[i] # VaSeq[j]
    /\ Stack \in Va \ Lib /\ Lib \subseteq Va /\ UCOW \notin Va
    /\ Frame \subseteq Nat /\ 1 .. Len(VaSeq) \subseteq Frame /\ NULL \notin Frame /\ NULL \notin Value
    /\ Zero \in Value /\ MaxForks \in Nat

VARIABLES
    page,    \* page[f]: the contents of a frame
    pt,      \* pt[e][va]: frame and permissions; the frame is NULL if not mapped
    status,  \* status[e]: free, not runnable, runnable
    parent,  \* env_parent_id
    entry,   \* entry[e]: env_user_tlb_mod_entry is cow_entry
    fk,      \* fk[e]: how far e is in fork()
    cow,     \* cow[e]: how far e is in cow_entry()
    dup,     \* dup[e]: the pages fork() is done with for the child e
    forks,   \* how often fork() has been called
    halted   \* the kernel has panicked

vars == <<page, pt, status, parent, entry, fk, cow, dup, forks, halted>>

NoPage == [f |-> NULL, perm |-> {}]
NoFork == [at |-> "user", saved |-> FALSE, child |-> NULL, i |-> 0, perm |-> {}]
NoCow  == [at |-> "none", va |-> NULL, perm |-> {}]

\* The lowest frame nobody maps.
FreeFrames == {f \in Frame : \A e \in Env : \A va \in Va \cup {UCOW} : pt[e][va].f # f}
NewFrame == CHOOSE f \in FreeFrames : \A g \in FreeFrames : f <= g

\* page_alloc() clears a page before it hands it out; the model clears it when the
\* last mapping goes, which nobody can tell apart.  Stated over the new tables.
Scrub == page' = [f \in Frame |-> IF \E e \in Env, va \in Va \cup {UCOW} : pt'[e][va].f = f
                                  THEN page[f] ELSE Zero]

\* e executes its program, fork() included, and not cow_entry().
InUser(e) == ~halted /\ status[e] = "runnable" /\ cow[e].at = "none"

\* env_destroy of the environment itself: exit(), also at the end of user_panic().
Destroy(e) ==
    /\ status' = [status EXCEPT ![e] = "free"]
    /\ parent' = [parent EXCEPT ![e] = NULL]
    /\ pt' = [pt EXCEPT ![e] = [va \in Va \cup {UCOW} |-> NoPage]]
    /\ fk' = [fk EXCEPT ![e] = NoFork]
    /\ cow' = [cow EXCEPT ![e] = NoCow]
    /\ dup' = [dup EXCEPT ![e] = {}]
    /\ Scrub

(***************************************************************************)
(* A store: it succeeds, or the page is allocated (passive_alloc), or the  *)
(* kernel enters cow_entry (do_tlb_mod), and then the store is repeated.   *)
(***************************************************************************)
StoreHits(e, va) == "W" \in pt[e][va].perm

\* A store that leaves the page as it is cannot be observed and is left out.
Put(e, va, v) == v # page[pt[e][va].f] /\ page' = [page EXCEPT ![pt[e][va].f] = v]

passive_alloc(e, va) ==
    /\ pt[e][va] = NoPage /\ FreeFrames # {}
    /\ pt' = [pt EXCEPT ![e][va] = [f |-> NewFrame, perm |-> {"W"}]]
    /\ UNCHANGED <<page, status, parent, entry, fk, cow, dup, forks, halted>>

do_tlb_mod(e, va) ==
    /\ "COW" \in pt[e][va].perm /\ "W" \notin pt[e][va].perm
    /\ IF entry[e]
       THEN /\ cow' = [cow EXCEPT ![e] = [at |-> "alloc", va |-> va, perm |-> {}]]
            /\ UNCHANGED halted
       ELSE /\ halted' = TRUE
            /\ UNCHANGED cow
    /\ UNCHANGED <<page, pt, status, parent, entry, fk, dup, forks>>

fault(e, va) ==
    /\ InUser(e)
    /\ (fk[e].at = "user") # (va = Stack)
    /\ passive_alloc(e, va) \/ do_tlb_mod(e, va)

\* The program outside fork() stores anywhere; the stack is left to fork() here.
store(e, va, v) ==
    /\ InUser(e) /\ fk[e].at = "user" /\ va # Stack
    /\ StoreHits(e, va)
    /\ Put(e, va, v)
    /\ UNCHANGED <<pt, status, parent, entry, fk, cow, dup, forks, halted>>

exit(e) ==
    /\ InUser(e) /\ fk[e].at = "user"
    /\ Destroy(e)
    /\ UNCHANGED <<entry, forks, halted>>

(***************************************************************************)
(* cow_entry().                                                            *)
(***************************************************************************)
InCow(e, at) == ~halted /\ status[e] = "runnable" /\ cow[e].at = at

\* The permissions are read, and a page is allocated at UCOW ...
cow_alloc(e) ==
    /\ InCow(e, "alloc") /\ FreeFrames # {}
    /\ LET perm == (pt[e][cow[e].va].perm \ {"COW"}) \cup {"W"} IN
        /\ pt' = [pt EXCEPT ![e][UCOW] = [f |-> NewFrame, perm |-> perm]]
        /\ cow' = [cow EXCEPT ![e].at = "copy", ![e].perm = perm]
    /\ UNCHANGED <<page, status, parent, entry, fk, dup, forks, halted>>

\* ... or not: panic_on ends the environment.
cow_panic(e) ==
    /\ InCow(e, "alloc")
    /\ Destroy(e)
    /\ UNCHANGED <<entry, forks, halted>>

cow_copy(e) ==
    /\ InCow(e, "copy")
    /\ page' = [page EXCEPT ![pt[e][UCOW].f] = page[pt[e][cow[e].va].f]]
    /\ cow' = [cow EXCEPT ![e].at = "map"]
    /\ UNCHANGED <<pt, status, parent, entry, fk, dup, forks, halted>>

cow_map(e) ==
    /\ InCow(e, "map")
    /\ pt' = [pt EXCEPT ![e][cow[e].va] = [f |-> pt[e][UCOW].f, perm |-> cow[e].perm]]
    /\ cow' = [cow EXCEPT ![e].at = "unmap"]
    /\ Scrub
    /\ UNCHANGED <<status, parent, entry, fk, dup, forks, halted>>

\* The page at UCOW goes, and syscall_set_trapframe returns to the store.
cow_unmap(e) ==
    /\ InCow(e, "unmap")
    /\ pt' = [pt EXCEPT ![e][UCOW] = NoPage]
    /\ cow' = [cow EXCEPT ![e] = NoCow]
    /\ UNCHANGED <<page, status, parent, entry, fk, dup, forks, halted>>

cow_entry(e) == cow_alloc(e) \/ cow_panic(e) \/ cow_copy(e) \/ cow_map(e) \/ cow_unmap(e)

(***************************************************************************)
(* fork().  Between two system calls there is a store to the stack: fk[e]  *)
(* names the call, and says whether the registers are saved and it is made *)
(* next.                                                                   *)
(***************************************************************************)
Calls == {"entry", "exofork", "map_child", "map_self", "child_entry", "start"}
At(e, at) == InUser(e) /\ fk[e].at = at /\ ~fk[e].saved
Made(e, at) == InUser(e) /\ fk[e].at = at /\ fk[e].saved

\* Step 1: nothing to do if the entry is already set.
fork_begin(e) ==
    /\ At(e, "user")
    /\ forks < MaxForks /\ forks' = forks + 1
    /\ fk' = [fk EXCEPT ![e].at = IF entry[e] THEN "exofork" ELSE "entry"]
    /\ UNCHANGED <<page, pt, status, parent, entry, cow, dup, halted>>

\* The wrapper of a system call saves registers on the stack.
call(e, v) == \E c \in Calls :
    /\ At(e, c) /\ StoreHits(e, Stack)
    /\ Put(e, Stack, v)
    /\ fk' = [fk EXCEPT ![e].saved = TRUE]
    /\ UNCHANGED <<pt, status, parent, entry, cow, dup, forks, halted>>

fork_entry(e) ==
    /\ Made(e, "entry")
    /\ entry' = [entry EXCEPT ![e] = TRUE]
    /\ fk' = [fk EXCEPT ![e].at = "exofork", ![e].saved = FALSE]
    /\ UNCHANGED <<page, pt, status, parent, cow, dup, forks, halted>>

\* The loop of step 3: the next mapped page from position i on, and its permissions.
NextPage(e, i) == {j \in i .. Len(VaSeq) : pt[e][VaSeq[j]] # NoPage}
GoOn(e, c, i) ==
    IF NextPage(e, i) = {} THEN [at |-> "child_entry", saved |-> FALSE, child |-> c, i |-> 0, perm |-> {}]
    ELSE LET j == CHOOSE j \in NextPage(e, i) : \A k \in NextPage(e, i) : j <= k
         IN [at |-> "map_child", saved |-> FALSE, child |-> c, i |-> j,
             perm |-> pt[e][VaSeq[j]].perm]

\* Pages that are not mapped need nothing: they read as zero on both sides.
Skipped(e, i, next) ==
    {VaSeq[j] : j \in i .. (IF next.at = "child_entry" THEN Len(VaSeq) ELSE next.i - 1)}

\* Step 2: env_alloc clears the entry of the new environment.
fork_exofork(e) == \E c \in Env :
    /\ Made(e, "exofork") /\ status[c] = "free"
    /\ status' = [status EXCEPT ![c] = "not_runnable"]
    /\ parent' = [parent EXCEPT ![c] = e]
    /\ entry' = [entry EXCEPT ![c] = FALSE]
    /\ fk' = [fk EXCEPT ![e] = GoOn(e, c, 1), ![c].at = "child"]
    /\ dup' = [dup EXCEPT ![c] = Skipped(e, 1, GoOn(e, c, 1))]
    /\ UNCHANGED <<page, pt, cow, forks, halted>>

\* exofork fails and the error is taken for an envid, or a page of a page table is
\* missing: panic_on in duppage ends the parent; the child stays as it is.
fork_panic(e) ==
    /\ Made(e, "exofork") \/ Made(e, "map_child")
    /\ Destroy(e)
    /\ UNCHANGED <<entry, forks, halted>>

\* duppage: a private writable page is marked copy-on-write on both sides.
Mark(perm) == IF "W" \in perm /\ "COW" \notin perm /\ "LIB" \notin perm
              THEN (perm \ {"W"}) \cup {"COW"} ELSE perm

\* The page that e maps at its position, into environment t.
MapInto_self_first(e, t) ==
    LET va == VaSeq[fk[e].i]
        u == IF Mark(fk[e].perm) = fk[e].perm THEN t ELSE IF t = e THEN fk[e].child ELSE e
    IN pt' = [pt EXCEPT ![u][va] = [f |-> pt[e][va].f, perm |-> Mark(fk[e].perm)]]

MapInto(e, t) == LET va == VaSeq[fk[e].i] IN
    pt' = [pt EXCEPT ![t][va] = [f |-> pt[e][va].f, perm |-> Mark(fk[e].perm)]]

PageDone(e) == LET c == fk[e].child
                   next == GoOn(e, c, fk[e].i + 1) IN
    /\ fk' = [fk EXCEPT ![e] = next]
    /\ dup' = [dup EXCEPT ![c] = @ \cup {VaSeq[fk[e].i]} \cup Skipped(e, fk[e].i + 1, next)]

fork_map_child(e) ==
    /\ Made(e, "map_child")
    /\ MapInto(e, fk[e].child)
    /\ IF Mark(fk[e].perm) = fk[e].perm
       THEN PageDone(e)
       ELSE fk' = [fk EXCEPT ![e].at = "map_self", ![e].saved = FALSE] /\ UNCHANGED dup
    /\ UNCHANGED <<page, status, parent, entry, cow, forks, halted>>

fork_map_self_skipped(e) ==
    /\ Made(e, "map_self")
    /\ PageDone(e)
    /\ UNCHANGED <<page, pt, status, parent, entry, cow, forks, halted>>

fork_map_self(e) ==
    /\ Made(e, "map_self")
    /\ MapInto(e, e)
    /\ PageDone(e)
    /\ UNCHANGED <<page, status, parent, entry, cow, forks, halted>>

\* Step 4, and fork() returns in the parent.
fork_child_entry_self(e) ==
    /\ Made(e, "child_entry")
    /\ entry' = [entry EXCEPT ![e] = TRUE]
    /\ fk' = [fk EXCEPT ![e].at = "start", ![e].saved = FALSE]
    /\ UNCHANGED <<page, pt, status, parent, cow, dup, forks, halted>>

fork_child_entry(e) ==
    /\ Made(e, "child_entry")
    /\ entry' = [entry EXCEPT ![fk[e].child] = TRUE]
    /\ fk' = [fk EXCEPT ![e].at = "start", ![e].saved = FALSE]
    /\ UNCHANGED <<page, pt, status, parent, cow, dup, forks, halted>>

fork_start(e) ==
    /\ Made(e, "start")
    /\ status' = [status EXCEPT ![fk[e].child] = "runnable"]
    /\ fk' = [fk EXCEPT ![e] = NoFork]
    /\ dup' = [dup EXCEPT ![fk[e].child] = {}]
    /\ UNCHANGED <<page, pt, parent, entry, cow, forks, halted>>

\* exofork returns 0 in the child: it asks for its envid and fixes env.
fork_child(e, v) ==
    /\ At(e, "child") /\ StoreHits(e, Stack)
    /\ Put(e, Stack, v)
    /\ fk' = [fk EXCEPT ![e] = NoFork]
    /\ UNCHANGED <<pt, status, parent, entry, cow, dup, forks, halted>>

fork(e) ==
    \/ fork_begin(e) \/ fork_entry(e) \/ fork_exofork(e) \/ fork_panic(e)
    \/ fork_map_child(e) \/ fork_map_self(e) \/ fork_child_entry(e) \/ fork_start(e)
    \/ \E v \in Value : call(e, v) \/ fork_child(e, v)

-----------------------------------------------------------------------------
Position(va) == CHOOSE i \in 1 .. Len(VaSeq) : VaSeq[i] = va

\* The first environment has run for a while: its stack and its shared pages are
\* mapped, the others not yet.
Init ==
    /\ page = [f \in Frame |-> Zero]
    /\ pt = [e \in Env |-> [va \in Va \cup {UCOW} |->
               IF e = Root /\ va = Stack THEN [f |-> Position(va), perm |-> {"W"}]
               ELSE IF e = Root /\ va \in Lib THEN [f |-> Position(va), perm |-> {"W", "LIB"}]
               ELSE NoPage]]
    /\ status = [e \in Env |-> IF e = Root THEN "runnable" ELSE "free"]
    /\ parent = [e \in Env |-> NULL]
    /\ entry = [e \in Env |-> FALSE]
    /\ fk = [e \in Env |-> NoFork]
    /\ cow = [e \in Env |-> NoCow]
    /\ dup = [e \in Env |-> {}]
    /\ forks = 0
    /\ halted = FALSE

Next == \E e \in Env :
    \/ \E va \in Va : fault(e, va) \/ \E v \in Value : store(e, va, v)
    \/ exit(e) \/ cow_entry(e) \/ fork(e)

Spec == Init /\ [][Next]_vars

-----------------------------------------------------------------------------
ForkTypeOK ==
    /\ page \in [Frame -> Value]
    /\ pt \in [Env -> [Va \cup {UCOW} ->
                  [f : Frame \cup {NULL}, perm : SUBSET {"W", "COW", "LIB"}]]]
    /\ status \in [Env -> {"free", "not_runnable", "runnable"}]
    /\ parent \in [Env -> Env \cup {NULL}]
    /\ entry \in [Env -> BOOLEAN]
    /\ fk \in [Env -> [at : {"user", "child"} \cup Calls, saved : BOOLEAN,
                       child : Env \cup {NULL}, i : 0 .. Len(VaSeq),
                       perm : SUBSET {"W", "COW", "LIB"}]]
    /\ cow \in [Env -> [at : {"none", "alloc", "copy", "map", "unmap"},
                        va : Va \cup {NULL}, perm : SUBSET {"W", "COW", "LIB"}]]
    /\ dup \in [Env -> SUBSET Va] /\ forks \in 0 .. MaxForks
    /\ halted \in BOOLEAN

\* A store to a copy-on-write page always finds a handler (do_tlb_mod panics
\* otherwise): fork() sets its own entry before it marks anything, and the child's
\* before the child can run, and a reused slot keeps nothing.
HandlerReady == ~halted

\* A copy-on-write frame is never writable anywhere else, except by the parent in
\* the middle of duppage, between the two system calls for that page (duppage).
\* The state keeps its types.
CowFrozen ==
    ForkTypeOK /\ \A e, g \in Env : \A va \in Va, w \in Va \cup {UCOW} :
        /\ "COW" \in pt[e][va].perm
        /\ "W" \in pt[g][w].perm
        /\ pt[e][va].f = pt[g][w].f
        => /\ status[e] = "not_runnable" /\ parent[e] = g /\ va = w
           /\ va \notin dup[e]

\* The refinement: what an environment finds in its pages.
MemOf(e, va) ==
    IF status[e] = "free" \/ (status[e] = "not_runnable" /\ va \notin dup[e]) THEN NULL
    ELSE IF pt[e][va] = NoPage THEN Zero ELSE page[pt[e][va].f]

\* What all find in a shared page, or NULL if they do not agree.
LibOf(va) ==
    LET found == {MemOf(e, va) : e \in {g \in Env : status[g] = "runnable"}}
    IN IF found = {} THEN Zero
       ELSE IF Cardinality(found) = 1 THEN CHOOSE v \in found : TRUE ELSE NULL

StateOf(s) == IF s = "runnable" THEN "live" ELSE IF s = "not_runnable" THEN "embryo" ELSE "free"

absState == [e \in Env |-> StateOf(status[e])]
absMem   == [e \in Env |-> [va \in Priv |-> MemOf(e, va)]]
absLib   == [va \in Lib |-> LibOf(va)]

Abstract == INSTANCE PrivMem WITH state <- absState, mem <- absMem, lib <- absLib

\* fork() with copy-on-write gives every environment a memory of its own that
\* starts as a copy of its parent's, and keeps PTE_LIBRARY pages common
\* (duppage, cow_entry, do_tlb_mod).
Isolated == Abstract!Spec
=============================================================================
