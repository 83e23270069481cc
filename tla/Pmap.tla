-------------------------------- MODULE Pmap --------------------------------
(***************************************************************************)
(* Physical pages and user address spaces: kern/pmap.c, the memory side of *)
(* env_alloc and env_free, the memory system calls, and the page faults of *)
(* kern/tlbex.c, with the hardware TLB they must keep coherent.            *)
(*                                                                         *)
(* The kernel runs with interrupts off, so an operation is one action.     *)
(* The environment that calls is left open: EnvSched says who may act on   *)
(* whom.  page_free_list is a set: which free page page_alloc returns does *)
(* not matter here.  A call that fails without effect is left out.         *)
(***************************************************************************)
EXTENDS Integers, FiniteSets

CONSTANTS Env,     \* environment slots
          Page,    \* the physical pages that page_init puts on the free list
          Dir,     \* indices of the user part of a page directory
          Tab,     \* indices of a page table
          NASID,   \* number of address space identifiers
          NULL,
          UVPT     \* the directory index at which a space sees its own tables

ASSUME PmapAssumption ==
  /\ IsFiniteSet(Env) /\ IsFiniteSet(Page) /\ IsFiniteSet(Dir) /\ IsFiniteSet(Tab)
  /\ NULL \notin Page
  /\ UVPT \notin Dir
  /\ NASID \in Nat

Va  == Dir \X Tab
Vpt == {UVPT} \X Dir     \* the pages of the vpt array of user/include/lib.h

VARIABLES pp_ref,          \* reference count of each page
          page_free_list,
          live,            \* the environments that are not ENV_FREE
          env_asid,
          env_pgdir,       \* page that holds the directory of a slot
          pde,             \* pde[e][d]: page of the table at d, or NULL
          pte,             \* pte[e][va]: page mapped at va, or NULL
          writable,        \* writable[e][va]: the entry has PTE_W
          env_pgdir_copy,  \* env_pgdir_copy_pa: page with a copy of the directory
          copied,          \* copied[e][d]: what that copy says at d
          uvpt,            \* uvpt[e]: the directory entry at UVPT is valid
          tlb,             \* translations the hardware holds
          lost,            \* history: pages counted once more than referred to
          panicked

refVars   == <<pp_ref, page_free_list>>
spaceVars == <<env_pgdir, pde, pte, writable>>
vptVars   == <<env_pgdir_copy, copied, uvpt>>
envVars   == <<live, env_asid>>
vars      == <<refVars, spaceVars, vptVars, envVars, tlb, lost, panicked>>

NoTables == [d \in Dir |-> NULL]
NoPages  == [va \in Va |-> NULL]

Init ==
  /\ pp_ref = [p \in Page |-> 0]
  /\ page_free_list = Page
  /\ live = {}
  /\ env_asid = [e \in Env |-> 0]
  /\ env_pgdir = [e \in Env |-> NULL]
  /\ pde = [e \in Env |-> NoTables]
  /\ pte = [e \in Env |-> NoPages]
  /\ writable = [e \in Env |-> [va \in Va |-> FALSE]]
  /\ env_pgdir_copy = [e \in Env |-> NULL]
  /\ copied = [e \in Env |-> NoTables]
  /\ uvpt = [e \in Env |-> FALSE]
  /\ tlb = {}
  /\ lost = {}
  /\ panicked = FALSE

-----------------------------------------------------------------------------
(***************************************************************************)
(* tlb_flush(asid, va): va = 0 stands for all addresses and asid 0 for all *)
(* address spaces, although 0 is also the identifier of one space.         *)
(***************************************************************************)
ALL == "all"

Flushed_exact_asid(asid, va) ==
  {x \in tlb : asid # 0 /\ x.asid = asid /\ (va = ALL \/ x.va = va)}

Flushed(asid, va) ==
  {x \in tlb : (asid = 0 \/ x.asid = asid) /\ (va = ALL \/ x.va = va)}

tlb_flush(asid, va) == tlb' = tlb \ Flushed(asid, va)

page_lookup(e, va) == IF pde[e][va[1]] = NULL THEN NULL ELSE pte[e][va]

\* page_decref: what dropping one reference to p puts on the free list.
Released_always(old) == {p \in Page : p = old}

Released(old) == {p \in Page : p = old /\ pp_ref[p] = 1}

\* pgdir[PDX(UVPT)] = 0.
HideCopy_forgotten(e) == UNCHANGED uvpt

HideCopy(e) == uvpt' = [uvpt EXCEPT ![e] = FALSE]

(***************************************************************************)
(* page_insert(pp) at va of e, when 'avail' are the free pages left by the *)
(* caller.  A page already mapped at va is removed first, and released if  *)
(* that was its last reference; pgdir_walk creates the table if it has to. *)
(* A new mapping hides the copy at UVPT, which may lack the new table.     *)
(***************************************************************************)
Remap(e, pp, va, perm_w, avail) ==
  /\ page_lookup(e, va) = pp
  /\ writable' = [writable EXCEPT ![e][va] = perm_w]
  /\ tlb_flush(env_asid[e], va)
  /\ page_free_list' = avail
  /\ UNCHANGED <<pp_ref, env_pgdir, pde, pte, vptVars>>

page_insert(e, pp, va, perm_w, avail) ==
  \/ Remap(e, pp, va, perm_w, avail)
  \/ LET d   == va[1]
         old == page_lookup(e, va)
         new == pde[e][d] = NULL
     IN  /\ old # pp
         /\ \E table \in IF new THEN avail ELSE {pde[e][d]} :
              /\ pp_ref' = [p \in Page |-> IF new /\ p = table THEN 1
                                           ELSE IF p = pp THEN pp_ref[p] + 1
                                           ELSE IF p = old THEN pp_ref[p] - 1
                                           ELSE pp_ref[p]]
              /\ page_free_list' = (avail \ (IF new THEN {table} ELSE {}))
                                     \cup Released(old)
              /\ pde' = [pde EXCEPT ![e][d] = table]
         /\ pte' = [pte EXCEPT ![e][va] = pp]
         /\ writable' = [writable EXCEPT ![e][va] = perm_w]
         /\ HideCopy(e)
         /\ tlb_flush(env_asid[e], ALL)
         /\ UNCHANGED <<env_pgdir, env_pgdir_copy, copied>>

\* pgdir_walk cannot get a page for the table.
NoTable(e, va, avail) == pde[e][va[1]] = NULL /\ avail = {}

-----------------------------------------------------------------------------
(* Address spaces are made and destroyed.                                  *)

FreeAsids == (0..NASID-1) \ {env_asid[e] : e \in live}

\* A zeroed directory, and no copy of it.
EmptySpace(e) ==
  /\ pde' = [pde EXCEPT ![e] = NoTables]
  /\ pte' = [pte EXCEPT ![e] = NoPages]
  /\ writable' = [writable EXCEPT ![e] = [va \in Va |-> FALSE]]
  /\ env_pgdir_copy' = [env_pgdir_copy EXCEPT ![e] = NULL]
  /\ copied' = [copied EXCEPT ![e] = NoTables]
  /\ uvpt' = [uvpt EXCEPT ![e] = FALSE]

\* env_setup_vm and the rest of env_alloc for the slot e.
env_alloc(e) ==
  /\ ~panicked /\ e \notin live
  /\ \E p \in page_free_list :
       /\ page_free_list' = page_free_list \ {p}
       /\ pp_ref' = [pp_ref EXCEPT ![p] = @ + 1]
       /\ env_pgdir' = [env_pgdir EXCEPT ![e] = p]
  /\ \E a \in FreeAsids :
       /\ \A b \in FreeAsids : a <= b
       /\ env_asid' = [env_asid EXCEPT ![e] = a]
  /\ live' = live \cup {e}
  /\ EmptySpace(e)
  /\ UNCHANGED <<tlb, lost, panicked>>

\* env_setup_vm fails, env_alloc does not look at its result: the slot keeps
\* the directory of its last user.
env_alloc_no_page(e) ==
  /\ ~panicked /\ e \notin live
  /\ page_free_list = {}
  /\ \E a \in FreeAsids :
       /\ \A b \in FreeAsids : a <= b
       /\ env_asid' = [env_asid EXCEPT ![e] = a]
  /\ live' = live \cup {e}
  /\ UNCHANGED <<refVars, spaceVars, vptVars, tlb, lost, panicked>>

\* asid_alloc fails after env_setup_vm has taken a page.
env_alloc_no_asid(e) ==
  /\ ~panicked /\ e \notin live
  /\ FreeAsids = {}
  /\ \E p \in page_free_list :
       /\ page_free_list' = page_free_list \ {p}
       /\ pp_ref' = [pp_ref EXCEPT ![p] = @ + 1]
       /\ env_pgdir' = [env_pgdir EXCEPT ![e] = p]
  /\ UNCHANGED <<pde, pte, writable, vptVars, envVars, tlb, lost, panicked>>

\* How often the address space of e refers to p.
Uses_without_copy(e, p) ==
  Cardinality({va \in Va : page_lookup(e, va) = p})
    + Cardinality({d \in Dir : pde[e][d] = p})
    + (IF env_pgdir[e] = p THEN 1 ELSE 0)

Uses(e, p) ==
  Cardinality({va \in Va : page_lookup(e, va) = p})
    + Cardinality({d \in Dir : pde[e][d] = p})
    + (IF env_pgdir_copy[e] = p THEN 1 ELSE 0)
    + (IF env_pgdir[e] = p THEN 1 ELSE 0)

\* env_free drops all of them, one page_decref each, and asserts that the copy
\* had no other reference.
env_free(e) ==
  /\ ~panicked /\ e \in live
  /\ pp_ref' = [p \in Page |-> pp_ref[p] - Uses(e, p)]
  /\ page_free_list' = page_free_list
       \cup {p \in Page : Uses(e, p) > 0 /\ pp_ref[p] = Uses(e, p)}
  /\ live' = live \ {e}
  /\ EmptySpace(e)
  /\ tlb_flush(env_asid[e], ALL)
  /\ UNCHANGED <<env_pgdir, env_asid, lost, panicked>>

-----------------------------------------------------------------------------
(* System calls.  IPC maps a page into the receiver as sys_mem_map does.   *)

sys_mem_alloc_still_listed(e, va, perm_w) ==
  /\ ~panicked /\ e \in live
  /\ \E pp \in page_free_list : page_insert(e, pp, va, perm_w, page_free_list)
  /\ UNCHANGED <<envVars, lost, panicked>>

sys_mem_alloc(e, va, perm_w) ==
  /\ ~panicked /\ e \in live
  /\ \E pp \in page_free_list :
       page_insert(e, pp, va, perm_w, page_free_list \ {pp})
  /\ UNCHANGED <<envVars, lost, panicked>>

\* page_insert fails; the page that was allocated is forgotten.
sys_mem_alloc_no_table(e, va) ==
  /\ ~panicked /\ e \in live
  /\ \E pp \in page_free_list :
       /\ NoTable(e, va, page_free_list \ {pp})
       /\ page_free_list' = page_free_list \ {pp}
  /\ UNCHANGED <<pp_ref, spaceVars, vptVars, envVars, tlb, lost, panicked>>

sys_mem_map(src, srcva, dst, dstva, perm_w) ==
  /\ ~panicked /\ src \in live /\ dst \in live
  /\ page_lookup(src, srcva) # NULL
  /\ page_insert(dst, page_lookup(src, srcva), dstva, perm_w, page_free_list)
  /\ UNCHANGED <<envVars, lost, panicked>>

sys_mem_unmap(e, va) ==
  /\ ~panicked /\ e \in live
  /\ LET old == page_lookup(e, va)
     IN  /\ old # NULL
         /\ pp_ref' = [pp_ref EXCEPT ![old] = @ - 1]
         /\ page_free_list' = page_free_list \cup Released(old)
  /\ pte' = [pte EXCEPT ![e][va] = NULL]
  /\ writable' = [writable EXCEPT ![e][va] = FALSE]
  /\ tlb_flush(env_asid[e], va)
  /\ UNCHANGED <<env_pgdir, pde, vptVars, envVars, lost, panicked>>

-----------------------------------------------------------------------------
(* Page faults of the running environment e.                               *)

panic == /\ panicked' = TRUE
         /\ UNCHANGED <<refVars, spaceVars, vptVars, envVars, tlb, lost>>

passive_alloc(e, va) ==
  /\ ~panicked /\ e \in live
  /\ page_lookup(e, va) = NULL
  /\ \/ /\ \E pp \in page_free_list :
            page_insert(e, pp, va, TRUE, page_free_list \ {pp})
        /\ UNCHANGED <<envVars, lost, panicked>>
     \/ /\ page_free_list = {} \/ \E pp \in page_free_list : NoTable(e, va, page_free_list \ {pp})
        /\ panic

(***************************************************************************)
(* A store to the vpt array: passive_alloc lets UVPT <= va < ULIM through, *)
(* and page_insert puts the new page into the table at PDX(UVPT), which is *)
(* the copy while that is visible and a new page otherwise.  Then it       *)
(* zeroes the directory entry it has just used: nothing refers any more to *)
(* the page, nor to the new table, although both are counted.  Where the   *)
(* copy has an entry the store is "bad perm".                              *)
(***************************************************************************)
vpt_store_fault(e, d) ==
  /\ ~panicked /\ e \in live
  /\ \/ /\ ~(uvpt[e] /\ copied[e][d] # NULL)
        /\ \E pp \in page_free_list, gone \in SUBSET page_free_list :
             /\ IF uvpt[e]
                  THEN gone = {pp} /\ copied' = [copied EXCEPT ![e][d] = pp]
                  ELSE /\ \E table \in page_free_list \ {pp} : gone = {pp, table}
                       /\ UNCHANGED copied
             /\ page_free_list' = page_free_list \ gone
             /\ pp_ref' = [p \in Page |-> IF p \in gone THEN 1 ELSE pp_ref[p]]
             /\ lost' = lost \cup gone
        /\ HideCopy(e)
        /\ tlb_flush(env_asid[e], ALL)
        /\ UNCHANGED <<spaceVars, env_pgdir_copy, envVars, panicked>>
     \/ /\ \/ uvpt[e] /\ copied[e][d] # NULL
           \/ page_free_list = {}
           \/ ~uvpt[e] /\ \E pp \in page_free_list : page_free_list = {pp}
        /\ panic

\* A load from the vpt array while the entry at UVPT, or the one for d in the
\* copy, is invalid: the directory is copied into a page of its own, which
\* then serves as the page table.
vpt_fault(e, d) ==
  /\ ~panicked /\ e \in live
  /\ ~(uvpt[e] /\ copied[e][d] # NULL)
  /\ \/ /\ pde[e][d] # NULL
        /\ \/ env_pgdir_copy[e] # NULL /\ UNCHANGED <<refVars, env_pgdir_copy>>
           \/ /\ env_pgdir_copy[e] = NULL
              /\ \E p \in page_free_list :
                   /\ page_free_list' = page_free_list \ {p}
                   /\ pp_ref' = [pp_ref EXCEPT ![p] = @ + 1]
                   /\ env_pgdir_copy' = [env_pgdir_copy EXCEPT ![e] = p]
        /\ copied' = [copied EXCEPT ![e] = pde[e]]
        /\ uvpt' = [uvpt EXCEPT ![e] = TRUE]
        /\ UNCHANGED <<spaceVars, envVars, tlb, lost, panicked>>
     \/ /\ pde[e][d] = NULL \/ (env_pgdir_copy[e] = NULL /\ page_free_list = {})
        /\ panic

\* The hardware walks the tables of e and keeps what it finds.
tlb_fill(e, va) ==
  /\ ~panicked /\ e \in live
  /\ page_lookup(e, va) # NULL
  /\ tlb' = tlb \cup {[asid |-> env_asid[e], va |-> va, page |-> pte[e][va],
                        w |-> writable[e][va]]}
  /\ UNCHANGED <<refVars, spaceVars, vptVars, envVars, lost, panicked>>

tlb_fill_vpt(e, d) ==
  /\ ~panicked /\ e \in live
  /\ uvpt[e] /\ copied[e][d] # NULL
  /\ tlb' = tlb \cup {[asid |-> env_asid[e], va |-> <<UVPT, d>>,
                        page |-> copied[e][d], w |-> FALSE]}
  /\ UNCHANGED <<refVars, spaceVars, vptVars, envVars, lost, panicked>>

-----------------------------------------------------------------------------
Next ==
  \E e \in Env :
    \/ env_alloc(e)
    \/ env_free(e)
    \/ \E va \in Va :
         \/ \E w \in BOOLEAN : sys_mem_alloc(e, va, w)
         \/ sys_mem_alloc_no_table(e, va)
         \/ \E src \in Env, srcva \in Va, w \in BOOLEAN : sys_mem_map(src, srcva, e, va, w)
         \/ sys_mem_unmap(e, va)
         \/ passive_alloc(e, va)
         \/ tlb_fill(e, va)
    \/ \E d \in Dir : vpt_fault(e, d) \/ vpt_store_fault(e, d) \/ tlb_fill_vpt(e, d)

Spec == Init /\ [][Next]_vars

\* With the two ways in which env_alloc runs out of something.
ShortSpec ==
  /\ Init
  /\ [][Next \/ \E e \in Env : env_alloc_no_page(e) \/ env_alloc_no_asid(e)]_vars

-----------------------------------------------------------------------------
TlbEntry == [asid : 0..NASID-1, va : Va \cup Vpt, page : Page, w : BOOLEAN]

PmapTypeOK ==
  /\ pp_ref \in [Page -> Nat]
  /\ page_free_list \subseteq Page
  /\ live \subseteq Env
  /\ env_asid \in [Env -> Nat]
  /\ env_pgdir \in [Env -> Page \cup {NULL}]
  /\ pde \in [Env -> [Dir -> Page \cup {NULL}]]
  /\ pte \in [Env -> [Va -> Page \cup {NULL}]]
  /\ writable \in [Env -> [Va -> BOOLEAN]]
  /\ env_pgdir_copy \in [Env -> Page \cup {NULL}]
  /\ copied \in [Env -> [Dir -> Page \cup {NULL}]]
  /\ uvpt \in [Env -> BOOLEAN]
  /\ tlb \subseteq TlbEntry
  /\ lost \subseteq Page
  /\ panicked \in BOOLEAN

\* The places that hold a reference to p: entries of the tables and of the
\* directory of a live environment, the directory itself and its copy.
Place == ({"pte"} \X Va) \cup ({"pde"} \X Dir) \cup ({"dir", "copy"} \X {NULL})

Held(e, at) ==
  CASE at[1] = "pte"  -> page_lookup(e, at[2])
    [] at[1] = "pde"  -> pde[e][at[2]]
    [] at[1] = "dir"  -> env_pgdir[e]
    [] at[1] = "copy" -> env_pgdir_copy[e]

References(p) == {r \in live \X Place : Held(r[1], r[2]) = p}

\* What page_insert at UVPT has forgotten to take back.
Forgotten(p) == IF p \in lost THEN 1 ELSE 0

(***************************************************************************)
(* The reference count of a page is the number of places that refer to it, *)
(* whatever was mapped over, shared, unmapped or destroyed before (and     *)
(* every variable keeps its type).  The one exception are the pages that a *)
(* store to the vpt array has lost (pgdir[PDX(UVPT)] = 0 in page_insert):  *)
(* they are counted once more than referred to, so they leak, and are      *)
(* never freed early.                                                      *)
(***************************************************************************)
RefCountExact ==
  /\ PmapTypeOK
  /\ \A p \in Page : pp_ref[p] = Cardinality(References(p)) + Forgotten(p)

(***************************************************************************)
(* Nothing on page_free_list is in use: no page is handed out again while  *)
(* a table, a mapping or the hardware still leads to it.                   *)
(***************************************************************************)
FreeNotUsed ==
  \A p \in page_free_list :
    pp_ref[p] = 0 /\ References(p) = {} /\ \A x \in tlb : x.page # p

(***************************************************************************)
(* A page that serves as directory, table or copy serves nothing else:     *)
(* user code can never write an address translation.                       *)
(***************************************************************************)
TablesPrivate ==
  \A e \in live :
    \A p \in {env_pgdir[e], env_pgdir_copy[e]} \cup {pde[e][d] : d \in Dir} :
      p # NULL => Cardinality(References(p)) = 1

(***************************************************************************)
(* The TLB never disagrees with the tables: what it holds for an address   *)
(* space identifier is what the live environment with that identifier maps *)
(* now, with no more permission (tlb_flush of page_insert, page_remove and *)
(* env_free).                                                              *)
(***************************************************************************)
TlbCoherent ==
  \A x \in tlb : \E e \in live :
    /\ env_asid[e] = x.asid
    /\ IF x.va \in Vpt
         THEN pde[e][x.va[2]] = x.page
         ELSE page_lookup(e, x.va) = x.page /\ writable[e][x.va] = x.w

(***************************************************************************)
(* While the copy is visible at UVPT it shows every table the environment  *)
(* has: fork() and dup() walk the space through it and would miss pages.   *)
(***************************************************************************)
UvptFresh == \A e \in live : uvpt[e] => copied[e] = pde[e]

(***************************************************************************)
(* Pages to which nothing refers are on the free list.                     *)
(***************************************************************************)
NothingLeaks == \A p \in Page : References(p) = {} => p \in page_free_list

(***************************************************************************)
(* env_alloc gives every environment a directory of its own.               *)
(***************************************************************************)
OwnDirectory ==
  \A e \in live : /\ env_pgdir[e] \in Page \ page_free_list
                   /\ \A f \in live : env_pgdir[e] = env_pgdir[f] => e = f
=============================================================================
