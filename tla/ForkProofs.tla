----------------------------- MODULE ForkProofs -----------------------------
(***************************************************************************)
(* Proofs about Fork: no store to a copy-on-write page is without a        *)
(* handler, frames marked copy-on-write are frozen, and fork() with        *)
(* copy-on-write implements private memories (PrivMem), for any number of  *)
(* environments, pages and frames.                                         *)
(***************************************************************************)
EXTENDS Fork, FiniteSetTheorems, WellFoundedInduction, TLAPS

AllVa == Va \cup {UCOW}
Busy == {"map_child", "map_self", "child_entry", "start"}

\* The types of the records, for short.
Entry   == [f : Frame \cup {NULL}, perm : SUBSET {"W", "COW", "LIB"}]
ForkRec == [at : {"user", "child"} \cup Calls, saved : BOOLEAN, child : Env \cup {NULL},
            i : 0 .. Len(VaSeq), perm : SUBSET {"W", "COW", "LIB"}]
CowRec  == [at : {"none", "alloc", "copy", "map", "unmap"},
            va : Va \cup {NULL}, perm : SUBSET {"W", "COW", "LIB"}]

\* What a page table entry may hold: a private page is writable or copy-on-write,
\* a shared one always has its first frame, and that frame is mapped nowhere else.
MapAt(e, va) ==
    /\ \/ pt[e][va] = NoPage
       \/ pt[e][va].f \in Frame /\ va = UCOW /\ pt[e][va].perm = {"W"}
       \/ pt[e][va].f \in Frame /\ va \in Priv /\ pt[e][va].perm \in {{"W"}, {"COW"}}
       \/ pt[e][va].f = Position(va) /\ va \in Lib /\ pt[e][va].perm = {"W", "LIB"}
    /\ \A l \in Lib : pt[e][va].f = Position(l) => va = l
MapOK == \A e \in Env : \A va \in AllVa : MapAt(e, va)

\* Everybody who runs maps the shared pages, and an embryo those that are done.
LibAt(e, l) == status[e] = "runnable" \/ l \in dup[e] => pt[e][l] # NoPage
LibOK == \A e \in Env : \A l \in Lib : LibAt(e, l)

\* A free environment holds nothing; an embryo is exactly where exofork() left it;
\* nobody else has pages that are done.
IdleAt(e) ==
    /\ status[e] = "free" => /\ \A va \in AllVa : pt[e][va] = NoPage
                             /\ fk[e] = NoFork /\ cow[e] = NoCow
    /\ status[e] = "not_runnable" =>
         cow[e] = NoCow /\ fk[e].at = "child" /\ ~fk[e].saved /\ parent[e] \in Env
    /\ status[e] # "not_runnable" => dup[e] = {}
IdleOK == \A e \in Env : IdleAt(e)

\* A parent inside fork(): its child is an embryo of its own.  In the loop the pages
\* before its position are done, the ones after it are not mapped yet, and the
\* permissions that duppage read are still true.
Cur(e) == VaSeq[fk[e].i]
LoopAt(e) ==
    /\ fk[e].i \in 1 .. Len(VaSeq)
    /\ dup[fk[e].child] = {VaSeq[j] : j \in 1 .. fk[e].i - 1}
    /\ pt[e][Cur(e)] # NoPage
    /\ fk[e].perm = pt[e][Cur(e)].perm
    /\ Cur(e) = Stack => fk[e].perm = {"W"}
    /\ \A va \in Va \ dup[fk[e].child] : va = Cur(e) \/ pt[fk[e].child][va] = NoPage
    /\ fk[e].at = "map_child" => pt[fk[e].child][Cur(e)] = NoPage
    /\ fk[e].at = "map_self" =>
         /\ fk[e].perm = {"W"}
         /\ pt[fk[e].child][Cur(e)] = [f |-> pt[e][Cur(e)].f, perm |-> {"COW"}]
ParentAt(e) == fk[e].at \in Busy =>
    /\ fk[e].child \in Env /\ status[fk[e].child] = "not_runnable"
    /\ parent[fk[e].child] = e
    /\ fk[e].at \in {"map_child", "map_self"} => LoopAt(e)
    /\ fk[e].at \in {"child_entry", "start"} => dup[fk[e].child] = Va
ParentOK == \A e \in Env : ParentAt(e)

\* Once the registers are saved, the stack is writable until the system call.
SavedAt(e) == fk[e].saved => fk[e].at \in Calls /\ pt[e][Stack].perm = {"W"}
SavedOK == \A e \in Env : SavedAt(e)

\* The handler is set before it is needed.
EntryAt(e) ==
    /\ status[e] = "runnable" => \A va \in Va : "COW" \in pt[e][va].perm => entry[e]
    /\ fk[e].at \in Busy \cup {"exofork"} => entry[e]
    /\ fk[e].at = "start" => entry[fk[e].child]
EntryOK == \A e \in Env : EntryAt(e)

\* The five steps of cow_entry().
CowAt(e) ==
    /\ cow[e].at # "none" =>
         /\ status[e] = "runnable" /\ cow[e].va \in Priv
         /\ (fk[e].at = "user") # (cow[e].va = Stack)
    /\ cow[e].at \in {"none", "alloc"} => pt[e][UCOW] = NoPage
    /\ cow[e].at \in {"alloc", "copy", "map"} => pt[e][cow[e].va].perm = {"COW"}
    /\ cow[e].at \in {"copy", "map", "unmap"} =>
         pt[e][UCOW] # NoPage /\ cow[e].perm = {"W"}
    /\ cow[e].at = "map" => page[pt[e][UCOW].f] = page[pt[e][cow[e].va].f]
    /\ cow[e].at = "unmap" => pt[e][cow[e].va] = pt[e][UCOW]
CowOK == \A e \in Env : CowAt(e)

\* Parent p is between the two system calls for page va, and c is its child.
Mid(p, c, va) == fk[p].at = "map_self" /\ fk[p].child = c /\ va = Cur(p)

\* Who may map the frame of another mapping.
Shared(e, va, g, w) ==
    \/ va = w /\ va \in Lib
    \/ va = w /\ va \in Priv /\ pt[e][va].perm = {"COW"} /\ pt[g][w].perm = {"COW"}
    \/ va = w /\ (Mid(e, g, va) \/ Mid(g, e, va))
    \/ e = g /\ cow[e].at = "unmap" /\ {va, w} = {cow[e].va, UCOW}
ShareAt(e, va, g, w) ==
    pt[e][va].f = pt[g][w].f /\ pt[e][va].f # NULL /\ ~(e = g /\ va = w)
        => Shared(e, va, g, w)
ShareOK == \A e, g \in Env : \A va, w \in AllVa : ShareAt(e, va, g, w)

\* The inductive invariant.
ForkInv == /\ ForkTypeOK /\ MapOK /\ LibOK /\ IdleOK /\ ParentOK /\ SavedOK
           /\ EntryOK /\ CowOK /\ ShareOK /\ ~halted

-----------------------------------------------------------------------------
(* A set of naturals that is not empty has a smallest element. *)
LEMMA Smallest ==
  ASSUME NEW S \in SUBSET Nat, S # {}
  PROVE  \E m \in S : \A n \in S : m <= n
<1>1. PICK m \in S : \A n \in S : ~(<<n, m>> \in OpToRel(<, Nat))
  BY WFMin, NatLessThanWellFounded
<1>2. \A n \in S : ~(n < m)
  <2> SUFFICES ASSUME NEW n \in S, n < m PROVE FALSE
    OBVIOUS
  <2>1. <<n, m>> \in Nat \X Nat /\ <<n, m>>[1] < <<n, m>>[2]
    OBVIOUS
  <2>2. <<n, m>> \in OpToRel(<, Nat)
    BY <2>1 DEF OpToRel
  <2> QED BY <2>2, <1>1
<1> QED BY <1>2

(* The pages in their order. *)
LEMMA VaFacts ==
  /\ Len(VaSeq) \in Nat
  /\ \A i \in 1 .. Len(VaSeq) : VaSeq[i] \in Va
  /\ \A va \in Va : Position(va) \in 1 .. Len(VaSeq) /\ VaSeq[Position(va)] = va
  /\ \A va \in Va : Position(va) \in Frame /\ Position(va) # NULL
  /\ \A va, w \in Va : Position(va) = Position(w) => va = w
  /\ Stack \in Priv /\ Stack \in Va /\ Stack \notin Lib /\ Lib \subseteq Va
  /\ Priv \subseteq Va /\ UCOW \notin Va /\ UCOW \in AllVa /\ Va \subseteq AllVa
  /\ NULL \notin Env /\ NULL \notin Frame
<1>1. Len(VaSeq) \in Nat
  BY ForkAssumption
<1>2. \A i \in 1 .. Len(VaSeq) : VaSeq[i] \in Va
  BY DEF Va
<1>3. \A va \in Va : Position(va) \in 1 .. Len(VaSeq) /\ VaSeq[Position(va)] = va
  BY DEF Va, Position
<1>4. \A va \in Va : Position(va) \in Frame /\ Position(va) # NULL
  BY <1>3, ForkAssumption
<1>5. \A va, w \in Va : Position(va) = Position(w) => va = w
  BY <1>3
<1>6. /\ Stack \in Priv /\ Stack \in Va /\ Stack \notin Lib /\ Lib \subseteq Va
      /\ Priv \subseteq Va /\ UCOW \notin Va /\ UCOW \in AllVa /\ Va \subseteq AllVa
      /\ NULL \notin Env /\ NULL \notin Frame
  BY ForkAssumption DEF Priv, AllVa
<1> QED BY <1>1, <1>2, <1>3, <1>4, <1>5, <1>6

(* page_alloc() hands out a frame that nobody maps. *)
LEMMA FreshFrame ==
  ASSUME FreeFrames # {}
  PROVE  /\ NewFrame \in Frame /\ NewFrame # NULL
         /\ \A e \in Env : \A va \in AllVa : pt[e][va].f # NewFrame
<1>1. FreeFrames \subseteq Nat
  BY ForkAssumption DEF FreeFrames
<1>2. NewFrame \in FreeFrames
  BY <1>1, Smallest DEF NewFrame
<1> QED BY <1>2, ForkAssumption DEF FreeFrames, AllVa

(* The loop of fork() goes on with the first mapped page and passes over pages *)
(* that are not mapped.                                                        *)
GoesOn(e, c, i, S) ==
    /\ Skipped(e, i, GoOn(e, c, i)) = {VaSeq[j] : j \in S}
    /\ \A j \in S : pt[e][VaSeq[j]] = NoPage
    /\ \/ /\ S = i .. Len(VaSeq)
          /\ GoOn(e, c, i) = [at |-> "child_entry", saved |-> FALSE, child |-> c, i |-> 0,
                              perm |-> {}]
       \/ \E k \in i .. Len(VaSeq) :
          /\ S = i .. k - 1 /\ pt[e][VaSeq[k]] # NoPage
          /\ GoOn(e, c, i) = [at |-> "map_child", saved |-> FALSE, child |-> c, i |-> k,
                              perm |-> pt[e][VaSeq[k]].perm]

LEMMA GoOnFacts ==
  ASSUME NEW e \in Env, NEW c \in Env, NEW i \in 1 .. Len(VaSeq) + 1
  PROVE  \E S \in SUBSET (i .. Len(VaSeq)) : GoesOn(e, c, i, S)
<1>1. CASE NextPage(e, i) = {}
  <2>1. /\ GoOn(e, c, i) = [at |-> "child_entry", saved |-> FALSE, child |-> c, i |-> 0,
                            perm |-> {}]
        /\ \A j \in i .. Len(VaSeq) : pt[e][VaSeq[j]] = NoPage
        /\ Skipped(e, i, GoOn(e, c, i)) = {VaSeq[j] : j \in i .. Len(VaSeq)}
    BY <1>1 DEF GoOn, Skipped, NextPage
  <2>2. GoesOn(e, c, i, i .. Len(VaSeq))
    BY <2>1 DEF GoesOn
  <2> QED BY <2>2
<1>2. CASE NextPage(e, i) # {}
  <2> DEFINE k == CHOOSE j \in NextPage(e, i) : \A l \in NextPage(e, i) : j <= l
  <2>1. NextPage(e, i) \subseteq Nat
    BY VaFacts DEF NextPage
  <2>2. k \in NextPage(e, i) /\ \A l \in NextPage(e, i) : k <= l
    BY <1>2, <2>1, Smallest
  <2>3. GoOn(e, c, i) = [at |-> "map_child", saved |-> FALSE, child |-> c, i |-> k,
                         perm |-> pt[e][VaSeq[k]].perm]
    BY <1>2 DEF GoOn
  <2>4. k \in i .. Len(VaSeq) /\ pt[e][VaSeq[k]] # NoPage
    BY <2>2 DEF NextPage
  <2>5. \A j \in i .. k - 1 : pt[e][VaSeq[j]] = NoPage
    <3> SUFFICES ASSUME NEW j \in i .. k - 1 PROVE pt[e][VaSeq[j]] = NoPage
      OBVIOUS
    <3>1. j \in i .. Len(VaSeq) /\ ~(k <= j)
      BY <2>4, VaFacts
    <3> QED BY <3>1, <2>2 DEF NextPage
  <2>6. Skipped(e, i, GoOn(e, c, i)) = {VaSeq[j] : j \in i .. k - 1}
    BY <2>3 DEF Skipped
  <2> HIDE DEF k
  <2>7. i .. k - 1 \in SUBSET (i .. Len(VaSeq))
    BY <2>4, VaFacts
  <2>8. GoesOn(e, c, i, i .. k - 1)
    BY <2>3, <2>4, <2>5, <2>6 DEF GoesOn
  <2> QED BY <2>7, <2>8
<1> QED BY <1>1, <1>2

-----------------------------------------------------------------------------
(* The records keep their types. *)
LEMMA RecTypes ==
  /\ NoPage \in Entry /\ NoFork \in ForkRec /\ NoCow \in CowRec
  /\ \A f \in Frame : [f |-> f, perm |-> {"W"}] \in Entry
  /\ \A r \in ForkRec, b \in BOOLEAN, at \in {"user", "child"} \cup Calls :
        /\ [r EXCEPT !.saved = b] \in ForkRec
        /\ [r EXCEPT !.at = at] \in ForkRec
        /\ [r EXCEPT !.at = at, !.saved = b] \in ForkRec
  /\ \A r \in CowRec, at \in {"none", "alloc", "copy", "map", "unmap"},
        perm \in SUBSET {"W", "COW", "LIB"} :
        /\ [r EXCEPT !.at = at] \in CowRec
        /\ [r EXCEPT !.at = at, !.perm = perm] \in CowRec
<1>1. NoPage \in Entry /\ NoFork \in ForkRec /\ NoCow \in CowRec
  BY VaFacts DEF NoPage, NoFork, NoCow, Entry, ForkRec, CowRec
<1>2. \A f \in Frame : [f |-> f, perm |-> {"W"}] \in Entry
  BY DEF Entry
<1>3. ASSUME NEW r \in ForkRec, NEW b \in BOOLEAN, NEW at \in {"user", "child"} \cup Calls
      PROVE  /\ [r EXCEPT !.saved = b] \in ForkRec
             /\ [r EXCEPT !.at = at] \in ForkRec
             /\ [r EXCEPT !.at = at, !.saved = b] \in ForkRec
  BY DEF ForkRec
<1>4. ASSUME NEW r \in CowRec, NEW at \in {"none", "alloc", "copy", "map", "unmap"},
             NEW perm \in SUBSET {"W", "COW", "LIB"}
      PROVE  /\ [r EXCEPT !.at = at] \in CowRec
             /\ [r EXCEPT !.at = at, !.perm = perm] \in CowRec
  BY DEF CowRec
<1> QED BY <1>1, <1>2, <1>3, <1>4

(* The type invariant in these terms. *)
LEMMA TypeFacts ==
  ForkTypeOK <=>
    /\ page \in [Frame -> Value] /\ pt \in [Env -> [AllVa -> Entry]]
    /\ status \in [Env -> {"free", "not_runnable", "runnable"}]
    /\ parent \in [Env -> Env \cup {NULL}] /\ entry \in [Env -> BOOLEAN]
    /\ fk \in [Env -> ForkRec] /\ cow \in [Env -> CowRec]
    /\ dup \in [Env -> SUBSET Va] /\ forks \in 0 .. MaxForks /\ halted \in BOOLEAN
BY Zenon DEF ForkTypeOK, AllVa, Entry, ForkRec, CowRec

(* What of a parent's state its place in fork() depends on. *)
LEMMA ParentFrame ==
  ASSUME NEW g \in Env, ParentAt(g), fk'[g] = fk[g],
         fk[g].at \in Busy =>
           /\ status'[fk[g].child] = status[fk[g].child]
           /\ parent'[fk[g].child] = parent[fk[g].child]
           /\ dup'[fk[g].child] = dup[fk[g].child],
         fk[g].at \in {"map_child", "map_self"} =>
           /\ \A va \in Va : pt'[fk[g].child][va] = pt[fk[g].child][va]
           /\ pt'[g][Cur(g)] = pt[g][Cur(g)]
  PROVE  ParentAt(g)'
<1>1. Cur(g)' = Cur(g)
  BY DEF Cur
<1>2. fk[g].at \in {"map_child", "map_self"} /\ LoopAt(g) => LoopAt(g)'
  <2> SUFFICES ASSUME fk[g].at \in {"map_child", "map_self"}, LoopAt(g) PROVE LoopAt(g)'
    OBVIOUS
  <2>1. fk[g].at \in Busy /\ Cur(g) \in Va
    BY VaFacts DEF Busy, LoopAt, Cur
  <2> QED BY <1>1, <2>1 DEF LoopAt
<1> QED BY <1>1, <1>2 DEF ParentAt

(* What of an environment's state its place in cow_entry() depends on. *)
LEMMA CowFrame ==
  ASSUME NEW g \in Env, CowAt(g), cow'[g] = cow[g], fk'[g] = fk[g],
         status'[g] = status[g],
         \A w \in AllVa : pt'[g][w] = pt[g][w],
         cow[g].at = "map" =>
           /\ page'[pt[g][UCOW].f] = page[pt[g][UCOW].f]
           /\ page'[pt[g][cow[g].va].f] = page[pt[g][cow[g].va].f]
  PROVE  CowAt(g)'
BY VaFacts DEF CowAt

(* Sharing is symmetric. *)
LEMMA ShareSym ==
  ASSUME NEW e, NEW va, NEW g, NEW w, ShareAt(e, va, g, w)
  PROVE  ShareAt(g, w, e, va)
<1>1. Shared(e, va, g, w) => Shared(g, w, e, va)
  BY DEF Shared
<1> QED BY <1>1 DEF ShareAt

(* Where the state of two mappings does not change, neither does their sharing. *)
LEMMA ShareFrame ==
  ASSUME NEW e \in Env, NEW va \in AllVa, NEW g \in Env, NEW w \in AllVa,
         ShareAt(e, va, g, w), pt'[e][va] = pt[e][va], pt'[g][w] = pt[g][w],
         Mid(e, g, va) => Mid(e, g, va)', Mid(g, e, va) => Mid(g, e, va)',
         e = g => cow'[e] = cow[e]
  PROVE  ShareAt(e, va, g, w)'
BY DEF ShareAt, Shared

(* The permission sets that occur are different. *)
LEMMA PermFacts ==
  /\ {"W"} # {} /\ {"COW"} # {} /\ {"W", "LIB"} # {} /\ {"W"} # {"COW"}
  /\ {"W"} # {"W", "LIB"} /\ {"COW"} # {"W", "LIB"}
  /\ "W" \notin {"COW"} /\ "COW" \notin {"W"} /\ "COW" \notin {"W", "LIB"} /\ "LIB" \notin {"W"}
  /\ NoPage.f = NULL /\ NoPage.perm = {}
<1>1. "W" # "COW" /\ "LIB" # "COW" /\ "W" # "LIB"
  OBVIOUS
<1> QED BY <1>1 DEF NoPage

(* What a permission says about the mapping. *)
LEMMA MapFacts ==
  ASSUME MapOK, NEW e \in Env, NEW va \in AllVa
  PROVE  /\ pt[e][va].f = NULL <=> pt[e][va] = NoPage
         /\ pt[e][va].f \in Frame \cup {NULL}
         /\ pt[e][va].perm = {} <=> pt[e][va] = NoPage
         /\ "COW" \in pt[e][va].perm <=> pt[e][va].perm = {"COW"}
         /\ pt[e][va].perm = {"COW"} => va \in Priv /\ pt[e][va] # NoPage
         /\ pt[e][va].perm = {"W"} => va \notin Lib /\ pt[e][va] # NoPage
         /\ "W" \in pt[e][va].perm <=> pt[e][va].perm \in {{"W"}, {"W", "LIB"}}
         /\ pt[e][va].perm = {"W", "LIB"} <=> va \in Lib /\ pt[e][va] # NoPage
         /\ va \in Lib /\ pt[e][va] # NoPage => pt[e][va].f = Position(va)
         /\ pt[e][va].perm \in {{}, {"W"}, {"COW"}, {"W", "LIB"}}
<1>1. MapAt(e, va)
  BY DEF MapOK
<1>2. CASE pt[e][va] = NoPage
  BY <1>1, <1>2, PermFacts, VaFacts DEF MapAt
<1>3. CASE pt[e][va].f \in Frame /\ va = UCOW /\ pt[e][va].perm = {"W"}
  BY <1>3, PermFacts, VaFacts
<1>4. CASE pt[e][va].f \in Frame /\ va \in Priv /\ pt[e][va].perm = {"W"}
  BY <1>4, PermFacts, VaFacts DEF Priv
<1>5. CASE pt[e][va].f \in Frame /\ va \in Priv /\ pt[e][va].perm = {"COW"}
  BY <1>5, PermFacts, VaFacts DEF Priv
<1>6. CASE pt[e][va].f = Position(va) /\ va \in Lib /\ pt[e][va].perm = {"W", "LIB"}
  BY <1>6, PermFacts, VaFacts DEF Priv
<1> QED BY <1>1, <1>2, <1>3, <1>4, <1>5, <1>6 DEF MapAt

(* The frame of a writable private page has no other mapping, unless fork() is  *)
(* half done with it or cow_entry() has just moved it.                          *)
LEMMA WritableAlone ==
  ASSUME ForkInv, NEW e \in Env, NEW va \in AllVa, NEW g \in Env, NEW w \in AllVa,
         pt[e][va].perm = {"W"}, pt[g][w].f = pt[e][va].f, ~(e = g /\ va = w)
  PROVE  \/ va = w /\ Mid(e, g, va)
         \/ e = g /\ cow[e].at = "unmap" /\ {va, w} = {cow[e].va, UCOW}
<1>1. pt[e][va].f # NULL /\ va \notin Lib
  BY MapFacts DEF ForkInv
<1>2. Shared(e, va, g, w)
  BY <1>1 DEF ForkInv, ShareOK, ShareAt
<1>3. ~Mid(g, e, va)
  <2> SUFFICES ASSUME Mid(g, e, va) PROVE FALSE
    OBVIOUS
  <2>1. fk[g].at = "map_self" /\ fk[g].child = e /\ va = Cur(g) /\ ParentAt(g)
    BY DEF Mid, ForkInv, ParentOK
  <2>2. LoopAt(g)
    BY <2>1 DEF ParentAt, Busy
  <2>3. pt[e][va] = [f |-> pt[g][va].f, perm |-> {"COW"}]
    BY <2>1, <2>2 DEF LoopAt
  <2>4. pt[e][va].perm = {"COW"}
    BY <2>3
  <2> QED BY <2>4, PermFacts
<1> QED BY <1>1, <1>2, <1>3 DEF Shared

(* Who runs is nobody's child in the making, and two parents have two children. *)
LEMMA FamilyFacts ==
  ASSUME ForkInv, NEW g \in Env, fk[g].at \in Busy
  PROVE  /\ fk[g].child \in Env /\ status[fk[g].child] = "not_runnable"
         /\ status[g] = "runnable" /\ fk[g].child # g /\ parent[fk[g].child] = g
         /\ \A h \in Env : fk[h].at \in Busy /\ fk[h].child = fk[g].child => h = g
<1>1. \A h \in Env : fk[h].at \in Busy =>
        fk[h].child \in Env /\ status[fk[h].child] = "not_runnable" /\ parent[fk[h].child] = h
  BY DEF ForkInv, ParentOK, ParentAt
<1>2. status[g] = "runnable"
  BY DEF ForkInv, IdleOK, IdleAt, ForkTypeOK, Busy, NoFork
<1> QED BY <1>1, <1>2

-----------------------------------------------------------------------------
(* The initial state: the first environment maps its stack and its shared pages. *)
LEMMA ForkInvInit == Init => ForkInv
<1> SUFFICES ASSUME Init PROVE ForkInv
  OBVIOUS
<1>1. /\ pt[Root][Stack] = [f |-> Position(Stack), perm |-> {"W"}]
      /\ \A l \in Lib : pt[Root][l] = [f |-> Position(l), perm |-> {"W", "LIB"}]
      /\ \A e \in Env : \A va \in AllVa :
            e # Root \/ (va # Stack /\ va \notin Lib) => pt[e][va] = NoPage
  <2>1. \A e \in Env : \A va \in AllVa : pt[e][va] =
          IF e = Root /\ va = Stack THEN [f |-> Position(va), perm |-> {"W"}]
          ELSE IF e = Root /\ va \in Lib THEN [f |-> Position(va), perm |-> {"W", "LIB"}]
          ELSE NoPage
    BY DEF Init, AllVa
  <2>2. Root \in Env /\ Stack \in AllVa /\ Lib \subseteq AllVa
    BY VaFacts, ForkAssumption
  <2>3. pt[Root][Stack] = [f |-> Position(Stack), perm |-> {"W"}]
    BY <2>1, <2>2, Zenon
  <2>4. ASSUME NEW l \in Lib PROVE pt[Root][l] = [f |-> Position(l), perm |-> {"W", "LIB"}]
    <3>1. l # Stack /\ l \in AllVa
      BY <2>2, VaFacts
    <3> QED BY <3>1, <2>1, <2>2, Zenon
  <2>5. ASSUME NEW e \in Env, NEW va \in AllVa, e # Root \/ (va # Stack /\ va \notin Lib)
        PROVE  pt[e][va] = NoPage
    BY <2>1, <2>5, Zenon
  <2> QED BY <2>3, <2>4, <2>5
<1>2. ForkTypeOK
  <2>1. \A e \in Env : \A va \in AllVa :
          pt[e][va] \in [f : Frame \cup {NULL}, perm : SUBSET {"W", "COW", "LIB"}]
    <3> SUFFICES ASSUME NEW e \in Env, NEW va \in AllVa
                 PROVE  pt[e][va] \in [f : Frame \cup {NULL}, perm : SUBSET {"W", "COW", "LIB"}]
      OBVIOUS
    <3>1. CASE e = Root /\ va = Stack
      BY <1>1, <3>1, VaFacts
    <3>2. CASE e = Root /\ va \in Lib
      <4>1. pt[e][va] = [f |-> Position(va), perm |-> {"W", "LIB"}]
        BY <1>1, <3>2, Zenon
      <4> QED BY <3>2, <4>1, VaFacts
    <3>3. CASE e # Root \/ (va # Stack /\ va \notin Lib)
      BY <1>1, <3>3 DEF NoPage
    <3> QED BY <3>1, <3>2, <3>3
  <2>2. pt \in [Env -> [AllVa -> [f : Frame \cup {NULL}, perm : SUBSET {"W", "COW", "LIB"}]]]
    BY <2>1 DEF Init, AllVa
  <2>3. fk \in [Env -> [at : {"user", "child"} \cup Calls, saved : BOOLEAN,
                       child : Env \cup {NULL}, i : 0 .. Len(VaSeq),
                       perm : SUBSET {"W", "COW", "LIB"}]]
    BY VaFacts DEF Init, NoFork
  <2>4. /\ page \in [Frame -> Value]
        /\ status \in [Env -> {"free", "not_runnable", "runnable"}]
        /\ parent \in [Env -> Env \cup {NULL}] /\ entry \in [Env -> BOOLEAN]
        /\ dup \in [Env -> SUBSET Va] /\ forks \in 0 .. MaxForks /\ halted \in BOOLEAN
    <3>1. page \in [Frame -> Value] /\ forks \in 0 .. MaxForks
      BY ForkAssumption DEF Init
    <3>2. status \in [Env -> {"free", "not_runnable", "runnable"}]
      BY DEF Init
    <3> QED BY <3>1, <3>2 DEF Init
  <2>5. cow \in [Env -> [at : {"none", "alloc", "copy", "map", "unmap"},
                         va : Va \cup {NULL}, perm : SUBSET {"W", "COW", "LIB"}]]
    BY DEF Init, NoCow
  <2> QED BY <2>2, <2>3, <2>4, <2>5 DEF ForkTypeOK, AllVa
<1>3. MapOK
  <2> SUFFICES ASSUME NEW e \in Env, NEW va \in AllVa PROVE MapAt(e, va)
    BY DEF MapOK
  <2>1. CASE e = Root /\ va = Stack
    <3>1. pt[e][va].f = Position(Stack) /\ pt[e][va].perm = {"W"}
      BY <1>1, <2>1
    <3> QED BY <2>1, <3>1, VaFacts DEF MapAt
  <2>2. CASE e = Root /\ va \in Lib
    <3>1. pt[e][va].f = Position(va) /\ pt[e][va].perm = {"W", "LIB"}
      <4>1. pt[e][va] = [f |-> Position(va), perm |-> {"W", "LIB"}]
        BY <1>1, <2>2, Zenon
      <4> QED BY <4>1
    <3> QED BY <2>2, <3>1, VaFacts DEF MapAt
  <2>3. CASE e # Root \/ (va # Stack /\ va \notin Lib)
    <3>1. pt[e][va] = NoPage /\ pt[e][va].f = NULL
      BY <1>1, <2>3, PermFacts
    <3> QED BY <3>1, VaFacts DEF MapAt
  <2> QED BY <2>1, <2>2, <2>3
<1>4. LibOK
  BY <1>1, VaFacts, PermFacts DEF LibOK, LibAt, Init
<1>5. IdleOK
  BY <1>1, VaFacts DEF IdleOK, IdleAt, Init
<1>6. ParentOK /\ SavedOK /\ ~halted
  BY DEF ParentOK, ParentAt, SavedOK, SavedAt, Init, Busy, NoFork
<1>7. EntryOK
  BY <1>1, VaFacts, PermFacts DEF EntryOK, EntryAt, Init, Busy, NoFork
<1>8. CowOK
  BY <1>1, VaFacts DEF CowOK, CowAt, Init, NoCow
<1>9. ShareOK
  <2> SUFFICES ASSUME NEW e \in Env, NEW g \in Env, NEW va \in AllVa, NEW w \in AllVa,
                      pt[e][va].f = pt[g][w].f, pt[e][va].f # NULL
               PROVE  e = g /\ va = w
    BY DEF ShareOK, ShareAt
  <2>1. pt[e][va] # NoPage /\ pt[g][w] # NoPage
    BY PermFacts
  <2>2. e = Root /\ va \in Va /\ g = Root /\ w \in Va
    BY <2>1, <1>1, VaFacts
  <2>3. pt[e][va].f = Position(va) /\ pt[g][w].f = Position(w)
    <3>1. va \in {Stack} \cup Lib /\ w \in {Stack} \cup Lib
      BY <2>1, <1>1
    <3>2. \A l \in Lib : pt[Root][l].f = Position(l)
      <4> TAKE l \in Lib
      <4>1. pt[Root][l] = [f |-> Position(l), perm |-> {"W", "LIB"}]
        BY <1>1, Zenon
      <4> QED BY <4>1
    <3>3. pt[Root][Stack].f = Position(Stack)
      BY <1>1
    <3> QED BY <2>2, <3>1, <3>2, <3>3
  <2> QED BY <2>2, <2>3, VaFacts
<1> QED BY <1>2, <1>3, <1>4, <1>5, <1>6, <1>7, <1>8, <1>9 DEF ForkInv

-----------------------------------------------------------------------------
(* A page that is not mapped is allocated by the page fault. *)
LEMMA PassiveAllocStep ==
  ASSUME ForkInv, NEW e \in Env, NEW va \in Va, InUser(e),
         (fk[e].at = "user") # (va = Stack), passive_alloc(e, va)
  PROVE  ForkInv'
<1> DEFINE n == [f |-> NewFrame, perm |-> {"W"}]
<1>0. /\ UNCHANGED <<page, status, parent, entry, fk, cow, dup, forks, halted>>
      /\ status[e] = "runnable" /\ cow[e].at = "none" /\ pt[e][va] = NoPage
  BY DEF passive_alloc, InUser
<1>1. /\ NewFrame \in Frame /\ NewFrame # NULL
      /\ \A g \in Env : \A w \in AllVa : pt[g][w].f # NewFrame
  BY FreshFrame DEF passive_alloc
<1>2. \A g \in Env : \A w \in AllVa :
        pt'[g][w] = IF g = e /\ w = va THEN n ELSE pt[g][w]
  BY DEF passive_alloc, ForkInv, ForkTypeOK, AllVa
<1>3. va \in Priv /\ va \in AllVa /\ va # UCOW
  BY <1>0, VaFacts DEF ForkInv, LibOK, LibAt, Priv
<1>4. ForkTypeOK'
  BY <1>0, <1>1 DEF passive_alloc, ForkInv, ForkTypeOK
<1>5. MapOK'
  <2> SUFFICES ASSUME NEW g \in Env, NEW w \in AllVa PROVE MapAt(g, w)'
    BY DEF MapOK
  <2>1. CASE g = e /\ w = va
    <3>1. \A l \in Lib : pt[e][l].f = Position(l)
      BY <1>0, MapFacts, VaFacts DEF ForkInv, LibOK, LibAt
    <3>2. \A l \in Lib : NewFrame # Position(l)
      BY <3>1, <1>1, VaFacts
    <3> QED BY <1>1, <1>2, <1>3, <2>1, <3>2 DEF MapAt
  <2>2. CASE ~(g = e /\ w = va)
    BY <1>2, <2>2 DEF MapAt, ForkInv, MapOK
  <2> QED BY <2>1, <2>2
<1>6. LibOK'
  BY <1>0, <1>2, <1>3, VaFacts DEF ForkInv, LibOK, LibAt, Priv
<1>7. IdleOK'
  BY <1>0, <1>2 DEF ForkInv, IdleOK, IdleAt
<1>8. ParentOK'
  <2> SUFFICES ASSUME NEW g \in Env PROVE ParentAt(g)'
    BY DEF ParentOK
  <2>1. fk[g].at \in {"map_child", "map_self"} => ~(g = e /\ Cur(g) = va) /\ Cur(g) \in Va
    BY <1>0, VaFacts DEF ForkInv, ParentOK, ParentAt, LoopAt, Busy, Cur
  <2>2. fk[g].at \in Busy => fk[g].child # e /\ fk[g].child \in Env
    BY <1>0, FamilyFacts
  <2> QED BY <1>0, <1>2, <2>1, <2>2, ParentFrame, VaFacts DEF ForkInv, ParentOK, Busy
<1>9. SavedOK'
  BY <1>0, <1>2, VaFacts DEF ForkInv, SavedOK, SavedAt
<1>10. EntryOK'
  BY <1>0, <1>2, VaFacts, PermFacts DEF ForkInv, EntryOK, EntryAt
<1>11. CowOK'
  <2> SUFFICES ASSUME NEW g \in Env PROVE CowAt(g)'
    BY DEF CowOK
  <2>1. CASE g = e
    BY <1>0, <1>2, <1>3, <2>1, VaFacts DEF ForkInv, CowOK, CowAt
  <2>2. CASE g # e
    BY <1>0, <1>2, <2>2, CowFrame DEF ForkInv, CowOK
  <2> QED BY <2>1, <2>2
<1>12. ShareOK'
  <2> SUFFICES ASSUME NEW g \in Env, NEW h \in Env, NEW w \in AllVa, NEW x \in AllVa
               PROVE  ShareAt(g, w, h, x)'
    BY DEF ShareOK
  <2>1. CASE ~(g = e /\ w = va) /\ ~(h = e /\ x = va)
    BY <1>0, <1>2, <2>1, ShareFrame DEF ForkInv, ShareOK, Mid, Cur
  <2>2. CASE g = e /\ w = va
    BY <1>1, <1>2, <2>2 DEF ShareAt
  <2>3. CASE h = e /\ x = va
    BY <1>1, <1>2, <2>3 DEF ShareAt
  <2> QED BY <2>1, <2>2, <2>3
<1> QED BY <1>0, <1>4, <1>5, <1>6, <1>7, <1>8, <1>9, <1>10, <1>11, <1>12 DEF ForkInv

(* do_tlb_mod() finds the entry set and enters cow_entry(). *)
LEMMA TlbModStep ==
  ASSUME ForkInv, NEW e \in Env, NEW va \in Va, InUser(e),
         (fk[e].at = "user") # (va = Stack), do_tlb_mod(e, va)
  PROVE  ForkInv'
<1>0. /\ UNCHANGED <<page, pt, status, parent, entry, fk, dup, forks>>
      /\ status[e] = "runnable" /\ cow[e].at = "none" /\ "COW" \in pt[e][va].perm
  BY DEF do_tlb_mod, InUser
<1>1. entry[e]
  BY <1>0 DEF ForkInv, EntryOK, EntryAt
<1>2. /\ cow' = [cow EXCEPT ![e] = [at |-> "alloc", va |-> va, perm |-> {}]]
      /\ UNCHANGED halted
  BY <1>1 DEF do_tlb_mod
<1>3. /\ cow'[e].at = "alloc" /\ cow'[e].va = va
      /\ \A g \in Env : g # e => cow'[g] = cow[g]
  BY <1>2 DEF ForkInv, ForkTypeOK
<1>4. ForkTypeOK'
  BY <1>0, <1>2 DEF ForkInv, ForkTypeOK
<1>5. MapOK' /\ LibOK' /\ SavedOK' /\ EntryOK'
  BY <1>0 DEF ForkInv, MapOK, MapAt, LibOK, LibAt, SavedOK, SavedAt, EntryOK, EntryAt
<1>6. IdleOK'
  BY <1>0, <1>3 DEF ForkInv, IdleOK, IdleAt
<1>7. ParentOK'
  BY <1>0, ParentFrame DEF ForkInv, ParentOK
<1>8. CowOK'
  <2> SUFFICES ASSUME NEW g \in Env PROVE CowAt(g)'
    BY DEF CowOK
  <2>1. CASE g = e
    <3>1. va \in Priv /\ pt[e][va].perm = {"COW"} /\ pt[e][UCOW] = NoPage
      BY <1>0, MapFacts, VaFacts DEF ForkInv, CowOK, CowAt
    <3> QED BY <1>0, <1>3, <2>1, <3>1 DEF CowAt
  <2>2. CASE g # e
    BY <1>0, <1>3, <2>2, CowFrame DEF ForkInv, CowOK
  <2> QED BY <2>1, <2>2
<1>9. ShareOK'
  <2> SUFFICES ASSUME NEW g \in Env, NEW h \in Env, NEW w \in AllVa, NEW x \in AllVa
               PROVE  ShareAt(g, w, h, x)'
    BY DEF ShareOK
  <2>1. ShareAt(g, w, h, x)
    BY DEF ForkInv, ShareOK
  <2> QED BY <1>0, <1>3, <2>1 DEF ShareAt, Shared, Mid, Cur
<1> QED BY <1>2, <1>4, <1>5, <1>6, <1>7, <1>8, <1>9 DEF ForkInv

(* A step that changes the contents of pages and nobody's mappings, and moves only *)
(* the place of e in fork(): a store, alone or as part of a call.                  *)
LEMMA StoreStep ==
  ASSUME ForkInv, NEW e \in Env, NEW va \in Va, NEW v \in Value, InUser(e),
         StoreHits(e, va), Put(e, va, v),
         UNCHANGED <<pt, status, parent, entry, cow, dup, forks, halted>>,
         \/ UNCHANGED fk
         \/ /\ va = Stack /\ fk[e].at \in Calls
            /\ fk' = [fk EXCEPT ![e].saved = TRUE]
         \/ fk[e].at = "child" /\ fk' = [fk EXCEPT ![e] = NoFork]
  PROVE  ForkInv'
<1>0. /\ status[e] = "runnable" /\ cow[e].at = "none"
      /\ pt[e][va].perm \in {{"W"}, {"W", "LIB"}} /\ va \in AllVa
      /\ pt[e][va].f \in Frame
  BY MapFacts, VaFacts, PermFacts DEF InUser, StoreHits, ForkInv
<1>1. page' = [page EXCEPT ![pt[e][va].f] = v]
  BY DEF Put
<1>2. ForkTypeOK'
  <2>1. page' \in [Frame -> Value]
    BY <1>0, <1>1 DEF ForkInv, ForkTypeOK
  <2>2. fk' \in [Env -> [at : {"user", "child"} \cup Calls, saved : BOOLEAN,
                        child : Env \cup {NULL}, i : 0 .. Len(VaSeq),
                        perm : SUBSET {"W", "COW", "LIB"}]]
    <3>1. CASE UNCHANGED fk
      BY <3>1 DEF ForkInv, ForkTypeOK
    <3>2. CASE fk' = [fk EXCEPT ![e].saved = TRUE]
      <4>1. fk \in [Env -> ForkRec]
        BY TypeFacts DEF ForkInv
      <4>2. fk' = [fk EXCEPT ![e] = [fk[e] EXCEPT !.saved = TRUE]]
        BY <3>2
      <4>3. [fk[e] EXCEPT !.saved = TRUE] \in ForkRec
        BY <4>1, RecTypes
      <4> QED BY <4>1, <4>2, <4>3 DEF ForkRec
    <3>3. CASE fk' = [fk EXCEPT ![e] = NoFork]
      BY <3>3, VaFacts DEF ForkInv, ForkTypeOK, NoFork
    <3> QED BY <3>1, <3>2, <3>3
  <2> QED BY <2>1, <2>2 DEF ForkInv, ForkTypeOK
<1>3. MapOK' /\ LibOK'
  BY DEF ForkInv, MapOK, MapAt, LibOK, LibAt
<1>4. /\ \A g \in Env : g # e => fk'[g] = fk[g]
      /\ fk'[e].at = fk[e].at \/ fk'[e].at = "user"
      /\ fk[e].at \in Busy => /\ fk'[e].at = fk[e].at /\ fk'[e].child = fk[e].child
                              /\ fk'[e].i = fk[e].i /\ fk'[e].perm = fk[e].perm
  BY DEF ForkInv, ForkTypeOK, Busy, NoFork
<1>5. IdleOK'
  BY <1>0, <1>4 DEF ForkInv, IdleOK, IdleAt
<1>6. ParentOK'
  <2> SUFFICES ASSUME NEW g \in Env PROVE ParentAt(g)'
    BY DEF ParentOK
  <2>1. CASE g # e
    BY <1>4, <2>1, ParentFrame DEF ForkInv, ParentOK
  <2>2. CASE g = e /\ fk[e].at \in Busy
    <3>1. ParentAt(e)
      BY DEF ForkInv, ParentOK
    <3>2. Cur(e)' = Cur(e)
      BY <1>4, <2>2 DEF Cur
    <3>3. LoopAt(e) => LoopAt(e)'
      BY <1>4, <2>2, <3>2 DEF LoopAt
    <3> QED BY <1>4, <2>2, <3>1, <3>3 DEF ParentAt
  <2>3. CASE g = e /\ fk[e].at \notin Busy
    BY <1>4, <2>3 DEF ParentAt, Busy
  <2> QED BY <2>1, <2>2, <2>3
<1>7. SavedOK'
  <2> SUFFICES ASSUME NEW g \in Env, fk'[g].saved
               PROVE  fk'[g].at \in Calls /\ pt[g][Stack].perm = {"W"}
    BY DEF SavedOK, SavedAt
  <2>1. CASE g # e \/ UNCHANGED fk
    BY <1>4, <2>1 DEF ForkInv, SavedOK, SavedAt
  <2>2. CASE g = e /\ va = Stack /\ fk[e].at \in Calls /\ fk' = [fk EXCEPT ![e].saved = TRUE]
    <3>1. pt[e][Stack].perm = {"W"}
      BY <1>0, <2>2, MapFacts, VaFacts DEF ForkInv
    <3> QED BY <2>2, <3>1 DEF ForkInv, ForkTypeOK
  <2>3. CASE g = e /\ fk' = [fk EXCEPT ![e] = NoFork]
    BY <2>3 DEF ForkInv, ForkTypeOK, NoFork
  <2> QED BY <2>1, <2>2, <2>3
<1>8. EntryOK'
  <2> SUFFICES ASSUME NEW g \in Env PROVE EntryAt(g)'
    BY DEF EntryOK
  <2>1. fk'[g].at \in Busy \cup {"exofork"} => fk'[g].at = fk[g].at
    BY <1>4 DEF Busy
  <2>2. fk'[g].at = "start" => fk'[g].child = fk[g].child
    BY <1>4, <2>1 DEF Busy
  <2> QED BY <2>1, <2>2 DEF ForkInv, EntryOK, EntryAt, Busy
<1>9. CowOK'
  <2> SUFFICES ASSUME NEW g \in Env PROVE CowAt(g)'
    BY DEF CowOK
  <2>1. CASE g = e
    BY <1>0, <2>1 DEF ForkInv, CowOK, CowAt
  <2>2. CASE g # e
    <3>1. CASE cow[g].at # "map"
      BY <1>4, <2>2, <3>1, CowFrame DEF ForkInv, CowOK
    <3>2. CASE cow[g].at = "map"
      <4> DEFINE w == cow[g].va
      <4>1. w \in AllVa /\ w \notin Lib /\ pt[g][w].perm = {"COW"} /\ pt[g][UCOW] # NoPage
            /\ status[g] = "runnable"
        BY <3>2, VaFacts DEF ForkInv, CowOK, CowAt, Priv
      <4>2. pt[g][UCOW].f # pt[e][va].f
        <5>1. pt[g][UCOW].perm = {"W"}
          BY <4>1, VaFacts DEF ForkInv, MapOK, MapAt, Priv
        <5> QED BY <5>1, <2>2, <3>2, <1>0, WritableAlone, VaFacts DEF Mid
      <4>3. pt[g][w].f # pt[e][va].f
        <5>1. CASE pt[e][va].perm = {"W"}
          <6>1. ~Mid(e, g, va)
            BY <4>1, FamilyFacts DEF Mid, Busy
          <6> QED BY <5>1, <6>1, <2>2, <1>0, <4>1, WritableAlone
        <5>2. CASE pt[e][va].perm = {"W", "LIB"}
          <6>1. va \in Lib /\ pt[e][va].f = Position(va)
            BY <5>2, <1>0, MapFacts DEF ForkInv
          <6> QED BY <6>1, <4>1 DEF ForkInv, MapOK, MapAt
        <5> QED BY <5>1, <5>2, <1>0
      <4>4. pt[g][UCOW].f \in Frame /\ pt[g][w].f \in Frame
        <5>1. pt[g][w] # NoPage
          BY <4>1, MapFacts DEF ForkInv
        <5>2. \A x \in AllVa : pt[g][x] # NoPage => pt[g][x].f \in Frame
          BY MapFacts DEF ForkInv
        <5> QED BY <4>1, <5>1, <5>2, VaFacts
      <4>5. /\ page'[pt[g][UCOW].f] = page[pt[g][UCOW].f]
            /\ page'[pt[g][w].f] = page[pt[g][w].f]
        BY <1>1, <4>2, <4>3, <4>4 DEF ForkInv, ForkTypeOK
      <4> QED BY <1>4, <2>2, <4>5, CowFrame DEF ForkInv, CowOK
    <3> QED BY <3>1, <3>2
  <2> QED BY <2>1, <2>2
<1>10. ShareOK'
  <2> SUFFICES ASSUME NEW g \in Env, NEW h \in Env, NEW w \in AllVa, NEW x \in AllVa
               PROVE  ShareAt(g, w, h, x)'
    BY DEF ShareOK
  <2>1. \A p, c \in Env : Mid(p, c, w) => Mid(p, c, w)'
    BY <1>4 DEF Mid, Cur, Busy
  <2> QED BY <2>1, ShareFrame DEF ForkInv, ShareOK
<1> QED BY <1>2, <1>3, <1>5, <1>6, <1>7, <1>8, <1>9, <1>10 DEF ForkInv

(* The environment ends: exit(), or a panic in cow_entry() or in fork(). *)
LEMMA DestroyStep ==
  ASSUME ForkInv, NEW e \in Env, status[e] = "runnable", Destroy(e), UNCHANGED <<entry, forks, halted>>
  PROVE  ForkInv'
<1>1. /\ \A g \in Env : \A w \in AllVa : pt'[g][w] = IF g = e THEN NoPage ELSE pt[g][w]
      /\ \A g \in Env : g # e => /\ status'[g] = status[g] /\ parent'[g] = parent[g]
                                 /\ fk'[g] = fk[g] /\ cow'[g] = cow[g] /\ dup'[g] = dup[g]
      /\ status'[e] = "free" /\ fk'[e] = NoFork /\ cow'[e] = NoCow /\ dup'[e] = {}
  BY DEF Destroy, ForkInv, ForkTypeOK, AllVa
<1>2. \A g \in Env : \A w \in AllVa :
        g # e /\ pt[g][w].f \in Frame => page'[pt[g][w].f] = page[pt[g][w].f]
  BY <1>1 DEF Destroy, Scrub, AllVa
<1>3. ForkTypeOK'
  <2>1. page' \in [Frame -> Value]
    BY ForkAssumption DEF Destroy, Scrub, ForkInv, ForkTypeOK
  <2>2. pt' \in [Env -> [Va \cup {UCOW} ->
                  [f : Frame \cup {NULL}, perm : SUBSET {"W", "COW", "LIB"}]]]
    <3>1. NoPage \in [f : Frame \cup {NULL}, perm : SUBSET {"W", "COW", "LIB"}]
      BY DEF NoPage
    <3> QED BY <3>1 DEF Destroy, ForkInv, ForkTypeOK
  <2>3. NoFork \in [at : {"user", "child"} \cup Calls, saved : BOOLEAN,
                    child : Env \cup {NULL}, i : 0 .. Len(VaSeq),
                    perm : SUBSET {"W", "COW", "LIB"}]
    BY VaFacts DEF NoFork
  <2>4. NoCow \in [at : {"none", "alloc", "copy", "map", "unmap"},
                   va : Va \cup {NULL}, perm : SUBSET {"W", "COW", "LIB"}]
    BY DEF NoCow
  <2> QED BY <2>1, <2>2, <2>3, <2>4 DEF Destroy, ForkInv, ForkTypeOK
<1>4. MapOK'
  <2> SUFFICES ASSUME NEW g \in Env, NEW w \in AllVa PROVE MapAt(g, w)'
    BY DEF MapOK
  <2>1. CASE g = e
    <3>1. pt'[g][w] = NoPage /\ pt'[g][w].f = NULL
      BY <1>1, <2>1, PermFacts
    <3> QED BY <3>1, VaFacts DEF MapAt
  <2>2. CASE g # e
    BY <1>1, <2>2 DEF MapAt, ForkInv, MapOK
  <2> QED BY <2>1, <2>2
<1>5. LibOK'
  BY <1>1, VaFacts DEF ForkInv, LibOK, LibAt
<1>6. IdleOK'
  BY <1>1 DEF ForkInv, IdleOK, IdleAt
<1>7. ParentOK'
  <2> SUFFICES ASSUME NEW g \in Env PROVE ParentAt(g)'
    BY DEF ParentOK
  <2>1. CASE g = e
    BY <1>1, <2>1 DEF ParentAt, Busy, NoFork
  <2>2. CASE g # e
    <3>1. fk[g].at \in Busy => fk[g].child # e /\ fk[g].child \in Env
      BY FamilyFacts
    <3>2. fk[g].at \in {"map_child", "map_self"} => fk[g].at \in Busy /\ Cur(g) \in Va
      BY VaFacts DEF ForkInv, ParentOK, ParentAt, LoopAt, Busy, Cur
    <3> QED BY <1>1, <2>2, <3>1, <3>2, ParentFrame, VaFacts DEF ForkInv, ParentOK
  <2> QED BY <2>1, <2>2
<1>8. SavedOK'
  BY <1>1, VaFacts DEF ForkInv, SavedOK, SavedAt, NoFork
<1>9. EntryOK'
  BY <1>1, VaFacts DEF ForkInv, EntryOK, EntryAt, NoFork, Busy
<1>10. CowOK'
  <2> SUFFICES ASSUME NEW g \in Env PROVE CowAt(g)'
    BY DEF CowOK
  <2>1. CASE g = e
    BY <1>1, <2>1, VaFacts DEF CowAt, NoCow
  <2>2. CASE g # e
    <3>1. cow[g].at = "map" => /\ pt[g][UCOW].f \in Frame /\ pt[g][cow[g].va].f \in Frame
                               /\ cow[g].va \in AllVa
      <4> SUFFICES ASSUME cow[g].at = "map"
                   PROVE  /\ pt[g][UCOW].f \in Frame /\ pt[g][cow[g].va].f \in Frame
                          /\ cow[g].va \in AllVa
        OBVIOUS
      <4>1. cow[g].va \in AllVa /\ pt[g][cow[g].va].perm = {"COW"} /\ pt[g][UCOW] # NoPage
        BY VaFacts DEF ForkInv, CowOK, CowAt
      <4>2. \A x \in AllVa : pt[g][x] # NoPage => pt[g][x].f \in Frame
        BY MapFacts DEF ForkInv
      <4>3. pt[g][cow[g].va] # NoPage
        BY <4>1, MapFacts DEF ForkInv
      <4> QED BY <4>1, <4>2, <4>3, VaFacts
    <3> QED BY <1>1, <1>2, <2>2, <3>1, CowFrame, VaFacts DEF ForkInv, CowOK
  <2> QED BY <2>1, <2>2
<1>11. ShareOK'
  <2> SUFFICES ASSUME NEW g \in Env, NEW h \in Env, NEW w \in AllVa, NEW x \in AllVa
               PROVE  ShareAt(g, w, h, x)'
    BY DEF ShareOK
  <2>1. CASE g = e \/ h = e
    BY <1>1, <2>1, PermFacts DEF ShareAt
  <2>2. CASE g # e /\ h # e
    BY <1>1, <2>2, ShareFrame DEF ForkInv, ShareOK, Mid, Cur
  <2> QED BY <2>1, <2>2
<1> QED BY <1>3, <1>4, <1>5, <1>6, <1>7, <1>8, <1>9, <1>10, <1>11 DEF ForkInv

(* cow_entry() allocates a page at UCOW. *)
LEMMA CowAllocStep ==
  ASSUME ForkInv, NEW e \in Env, cow_alloc(e)
  PROVE  ForkInv'
<1> DEFINE n == [f |-> NewFrame, perm |-> {"W"}]
<1>0. /\ UNCHANGED <<page, status, parent, entry, fk, dup, forks, halted>>
      /\ status[e] = "runnable" /\ cow[e].at = "alloc"
      /\ pt[e][cow[e].va].perm = {"COW"} /\ pt[e][UCOW] = NoPage
      /\ cow[e].va \in Priv /\ cow[e].va # UCOW
  BY VaFacts DEF cow_alloc, InCow, ForkInv, CowOK, CowAt
<1>1. /\ NewFrame \in Frame /\ NewFrame # NULL
      /\ \A g \in Env : \A w \in AllVa : pt[g][w].f # NewFrame
  BY FreshFrame DEF cow_alloc
<1>2. ({"COW"} \ {"COW"}) \cup {"W"} = {"W"}
  OBVIOUS
<1>3. /\ pt' = [pt EXCEPT ![e][UCOW] = n]
      /\ cow' = [cow EXCEPT ![e].at = "copy", ![e].perm = {"W"}]
  BY <1>0, <1>2 DEF cow_alloc
<1>4. /\ \A g \in Env : \A w \in AllVa :
            pt'[g][w] = IF g = e /\ w = UCOW THEN n ELSE pt[g][w]
      /\ \A g \in Env : g # e => cow'[g] = cow[g]
      /\ cow'[e].at = "copy" /\ cow'[e].perm = {"W"} /\ cow'[e].va = cow[e].va
  BY <1>3 DEF ForkInv, ForkTypeOK, AllVa
<1>5. ForkTypeOK'
  <2>1. pt \in [Env -> [AllVa -> Entry]] /\ cow \in [Env -> CowRec]
    BY TypeFacts DEF ForkInv
  <2>2. pt' \in [Env -> [AllVa -> Entry]]
    BY <1>1, <1>3, <2>1, RecTypes
  <2>3. [cow[e] EXCEPT !.at = "copy", !.perm = {"W"}] \in CowRec
    BY <2>1, RecTypes
  <2>4. cow' = [cow EXCEPT ![e] = [cow[e] EXCEPT !.at = "copy", !.perm = {"W"}]]
    BY <1>3
  <2>5. cow' \in [Env -> CowRec]
    BY <2>1, <2>3, <2>4
  <2> QED BY <1>0, <2>2, <2>5 DEF ForkInv, ForkTypeOK, AllVa, Entry, CowRec
<1>6. MapOK'
  <2> SUFFICES ASSUME NEW g \in Env, NEW w \in AllVa PROVE MapAt(g, w)'
    BY DEF MapOK
  <2>1. CASE g = e /\ w = UCOW
    <3>1. \A l \in Lib : pt[e][l].f = Position(l)
      BY <1>0, MapFacts, VaFacts DEF ForkInv, LibOK, LibAt
    <3>2. \A l \in Lib : NewFrame # Position(l)
      BY <3>1, <1>1, VaFacts
    <3> QED BY <1>1, <1>4, <2>1, <3>2 DEF MapAt
  <2>2. CASE ~(g = e /\ w = UCOW)
    BY <1>4, <2>2 DEF MapAt, ForkInv, MapOK
  <2> QED BY <2>1, <2>2
<1>7. LibOK'
  BY <1>0, <1>4, VaFacts DEF ForkInv, LibOK, LibAt
<1>8. IdleOK'
  BY <1>0, <1>4 DEF ForkInv, IdleOK, IdleAt
<1>9. ParentOK'
  <2> SUFFICES ASSUME NEW g \in Env PROVE ParentAt(g)'
    BY DEF ParentOK
  <2>1. fk[g].at \in Busy => fk[g].child \in Env
    BY FamilyFacts
  <2>2. fk[g].at \in {"map_child", "map_self"} => fk[g].at \in Busy /\ Cur(g) \in Va
    BY VaFacts DEF ForkInv, ParentOK, ParentAt, LoopAt, Busy, Cur
  <2> QED BY <1>0, <1>4, <2>1, <2>2, ParentFrame, VaFacts DEF ForkInv, ParentOK
<1>10. SavedOK' /\ EntryOK'
  BY <1>0, <1>4, VaFacts DEF ForkInv, SavedOK, SavedAt, EntryOK, EntryAt
<1>11. CowOK'
  <2> SUFFICES ASSUME NEW g \in Env PROVE CowAt(g)'
    BY DEF CowOK
  <2>1. CASE g = e
    <3>1. pt'[e][UCOW] # NoPage
      BY <1>1, <1>4, VaFacts DEF NoPage
    <3>2. pt'[e][cow[e].va].perm = {"COW"}
      BY <1>0, <1>4, VaFacts
    <3> QED BY <1>0, <1>4, <2>1, <3>1, <3>2 DEF ForkInv, CowOK, CowAt
  <2>2. CASE g # e
    BY <1>0, <1>4, <2>2, CowFrame DEF ForkInv, CowOK
  <2> QED BY <2>1, <2>2
<1>12. ShareOK'
  <2> SUFFICES ASSUME NEW g \in Env, NEW h \in Env, NEW w \in AllVa, NEW x \in AllVa
               PROVE  ShareAt(g, w, h, x)'
    BY DEF ShareOK
  <2>1. CASE ~(g = e /\ w = UCOW) /\ ~(h = e /\ x = UCOW)
    <3>1. ShareAt(g, w, h, x)
      BY DEF ForkInv, ShareOK
    <3>2. Shared(g, w, h, x) => Shared(g, w, h, x)'
      BY <1>0, <1>4, <2>1 DEF Shared, Mid, Cur
    <3> QED BY <1>4, <2>1, <3>1, <3>2 DEF ShareAt
  <2>2. CASE g = e /\ w = UCOW
    BY <1>1, <1>4, <2>2 DEF ShareAt
  <2>3. CASE h = e /\ x = UCOW
    BY <1>1, <1>4, <2>3 DEF ShareAt
  <2> QED BY <2>1, <2>2, <2>3
<1> QED BY <1>0, <1>5, <1>6, <1>7, <1>8, <1>9, <1>10, <1>11, <1>12 DEF ForkInv

(* Frames that a copy in progress reads and writes are mapped. *)
LEMMA CopyFrames ==
  ASSUME ForkInv, NEW g \in Env, cow[g].at \in {"copy", "map"}
  PROVE  /\ cow[g].va \in AllVa /\ cow[g].va \in Va /\ cow[g].va \notin Lib
         /\ pt[g][UCOW].f \in Frame /\ pt[g][UCOW].perm = {"W"}
         /\ pt[g][cow[g].va].f \in Frame /\ pt[g][cow[g].va].perm = {"COW"}
         /\ status[g] = "runnable"
<1>1. /\ cow[g].va \in AllVa /\ cow[g].va \in Va /\ cow[g].va \notin Lib
      /\ pt[g][cow[g].va].perm = {"COW"} /\ pt[g][UCOW] # NoPage /\ status[g] = "runnable"
  BY VaFacts DEF ForkInv, CowOK, CowAt, Priv
<1>2. \A x \in AllVa : pt[g][x] # NoPage => pt[g][x].f \in Frame
  BY MapFacts DEF ForkInv
<1>3. pt[g][cow[g].va] # NoPage
  BY <1>1, MapFacts DEF ForkInv
<1>4. pt[g][UCOW].perm = {"W"}
  BY <1>1, VaFacts DEF ForkInv, MapOK, MapAt, Priv
<1> QED BY <1>1, <1>2, <1>3, <1>4, VaFacts

(* The page that cow_entry() has at UCOW is its own until it is mapped. *)
LEMMA CopyAlone ==
  ASSUME ForkInv, NEW e \in Env, cow[e].at \in {"copy", "map"},
         NEW g \in Env, NEW w \in AllVa, ~(g = e /\ w = UCOW)
  PROVE  pt[g][w].f # pt[e][UCOW].f
<1>1. pt[e][UCOW].perm = {"W"}
  BY CopyFrames
<1>2. ~Mid(e, g, UCOW)
  <2>1. fk[e].at = "map_self" => Cur(e) \in Va
    BY VaFacts DEF ForkInv, ParentOK, ParentAt, LoopAt, Busy, Cur
  <2> QED BY <2>1, VaFacts DEF Mid
<1> QED BY <1>1, <1>2, WritableAlone, VaFacts

(* cow_entry() copies the page. *)
LEMMA CowCopyStep ==
  ASSUME ForkInv, NEW e \in Env, cow_copy(e)
  PROVE  ForkInv'
<1> DEFINE va == cow[e].va
<1>0. /\ UNCHANGED <<pt, status, parent, entry, fk, dup, forks, halted>>
      /\ page' = [page EXCEPT ![pt[e][UCOW].f] = page[pt[e][va].f]]
      /\ cow' = [cow EXCEPT ![e].at = "map"]
      /\ cow[e].at = "copy"
  BY DEF cow_copy, InCow
<1>1. /\ cow'[e].at = "map" /\ cow'[e].va = va /\ cow'[e].perm = cow[e].perm
      /\ \A g \in Env : g # e => cow'[g] = cow[g]
  BY <1>0 DEF ForkInv, ForkTypeOK
<1>2. /\ va \in AllVa /\ pt[e][UCOW].f \in Frame /\ pt[e][va].f \in Frame /\ va # UCOW
      /\ status[e] = "runnable"
  BY <1>0, CopyFrames, VaFacts
<1>3. ForkTypeOK'
  <2>1. page \in [Frame -> Value] /\ cow \in [Env -> CowRec]
    BY TypeFacts DEF ForkInv
  <2>2. page' \in [Frame -> Value]
    BY <1>0, <1>2, <2>1
  <2>3. [cow[e] EXCEPT !.at = "map"] \in CowRec
    BY <2>1, RecTypes
  <2>4. cow' = [cow EXCEPT ![e] = [cow[e] EXCEPT !.at = "map"]]
    BY <1>0
  <2>5. cow' \in [Env -> CowRec]
    BY <2>1, <2>3, <2>4
  <2> QED BY <1>0, <2>2, <2>5 DEF ForkInv, ForkTypeOK, CowRec
<1>4. MapOK' /\ LibOK' /\ SavedOK' /\ EntryOK'
  BY <1>0 DEF ForkInv, MapOK, MapAt, LibOK, LibAt, SavedOK, SavedAt, EntryOK, EntryAt
<1>5. IdleOK'
  BY <1>0, <1>1, <1>2 DEF ForkInv, IdleOK, IdleAt
<1>6. ParentOK'
  BY <1>0, ParentFrame DEF ForkInv, ParentOK
<1>7. CowOK'
  <2> SUFFICES ASSUME NEW g \in Env PROVE CowAt(g)'
    BY DEF CowOK
  <2>1. CASE g = e
    <3>1. pt[e][va].f # pt[e][UCOW].f
      BY <1>0, <1>2, CopyAlone
    <3>2. page'[pt[e][UCOW].f] = page'[pt[e][va].f]
      BY <1>0, <1>2, <3>1 DEF ForkInv, ForkTypeOK
    <3> QED BY <1>0, <1>1, <2>1, <3>2 DEF ForkInv, CowOK, CowAt
  <2>2. CASE g # e
    <3>1. \A w \in AllVa : pt[g][w].f \in Frame => page'[pt[g][w].f] = page[pt[g][w].f]
      <4>1. page \in [Frame -> Value]
        BY DEF ForkInv, ForkTypeOK
      <4>2. \A f \in Frame : f # pt[e][UCOW].f => page'[f] = page[f]
        BY <1>0, <4>1
      <4>3. \A w \in AllVa : pt[g][w].f # pt[e][UCOW].f
        BY <1>0, <2>2, CopyAlone
      <4> QED BY <4>2, <4>3
    <3>2. cow[g].at = "map" => /\ cow[g].va \in AllVa
                               /\ pt[g][UCOW].f \in Frame /\ pt[g][cow[g].va].f \in Frame
      BY CopyFrames
    <3> QED BY <1>0, <1>1, <2>2, <3>1, <3>2, CowFrame, VaFacts DEF ForkInv, CowOK
  <2> QED BY <2>1, <2>2
<1>8. ShareOK'
  <2> SUFFICES ASSUME NEW g \in Env, NEW h \in Env, NEW w \in AllVa, NEW x \in AllVa
               PROVE  ShareAt(g, w, h, x)'
    BY DEF ShareOK
  <2>1. ShareAt(g, w, h, x)
    BY DEF ForkInv, ShareOK
  <2>2. Shared(g, w, h, x) => Shared(g, w, h, x)'
    BY <1>0, <1>1 DEF Shared, Mid, Cur
  <2> QED BY <1>0, <2>1, <2>2 DEF ShareAt
<1> QED BY <1>0, <1>3, <1>4, <1>5, <1>6, <1>7, <1>8 DEF ForkInv

(* The copy takes the place of the page that is copy-on-write. *)
LEMMA CowMapStep ==
  ASSUME ForkInv, NEW e \in Env, cow_map(e)
  PROVE  ForkInv'
<1>a. PICK va \in AllVa : va = cow[e].va
  BY CopyFrames DEF cow_map, InCow
<1>0. /\ UNCHANGED <<status, parent, entry, fk, dup, forks, halted>> /\ va = cow[e].va
      /\ pt' = [pt EXCEPT ![e][va] = [f |-> pt[e][UCOW].f, perm |-> cow[e].perm]]
      /\ cow' = [cow EXCEPT ![e].at = "unmap"]
      /\ cow[e].at = "map" /\ Scrub
  BY <1>a DEF cow_map, InCow
<1>1. /\ va \in AllVa /\ va \in Va /\ va \in Priv /\ va # UCOW
      /\ pt[e][UCOW].f \in Frame /\ pt[e][UCOW].perm = {"W"} /\ cow[e].perm = {"W"}
      /\ pt[e][va].perm = {"COW"} /\ status[e] = "runnable"
  BY <1>0, CopyFrames, VaFacts DEF ForkInv, CowOK, CowAt
<1>2. pt[e][UCOW] = [f |-> pt[e][UCOW].f, perm |-> cow[e].perm]
  <2>1. pt[e][UCOW] \in Entry
    BY TypeFacts, VaFacts DEF ForkInv
  <2> QED BY <2>1, <1>1 DEF Entry
<1>3. /\ \A g \in Env : \A w \in AllVa :
            pt'[g][w] = IF g = e /\ w = va THEN pt[e][UCOW] ELSE pt[g][w]
      /\ cow'[e].at = "unmap" /\ cow'[e].va = va /\ cow'[e].perm = cow[e].perm
      /\ \A g \in Env : g # e => cow'[g] = cow[g]
  BY <1>0, <1>1, <1>2 DEF ForkInv, ForkTypeOK, AllVa
<1>4. ForkTypeOK'
  <2>1. pt \in [Env -> [AllVa -> Entry]] /\ cow \in [Env -> CowRec] /\ page \in [Frame -> Value]
    BY TypeFacts DEF ForkInv
  <2>2. page' \in [Frame -> Value]
    BY <1>0, <2>1, ForkAssumption DEF Scrub
  <2>3. pt[e][UCOW] \in Entry
    BY <2>1, VaFacts
  <2>4. pt' \in [Env -> [AllVa -> Entry]]
    BY <1>0, <1>2, <2>1, <2>3
  <2>5. [cow[e] EXCEPT !.at = "unmap"] \in CowRec
    BY <2>1, RecTypes
  <2>6. cow' = [cow EXCEPT ![e] = [cow[e] EXCEPT !.at = "unmap"]]
    BY <1>0
  <2>7. cow' \in [Env -> CowRec]
    BY <2>1, <2>5, <2>6
  <2> QED BY <1>0, <2>2, <2>4, <2>7 DEF ForkInv, ForkTypeOK, CowRec, Entry, AllVa
<1>5. MapOK'
  <2> SUFFICES ASSUME NEW g \in Env, NEW w \in AllVa PROVE MapAt(g, w)'
    BY DEF MapOK
  <2>1. CASE g = e /\ w = va
    <3>1. \A l \in Lib : pt[e][UCOW].f # Position(l)
      BY VaFacts DEF ForkInv, MapOK, MapAt
    <3> QED BY <1>1, <1>3, <2>1, <3>1 DEF MapAt
  <2>2. CASE ~(g = e /\ w = va)
    BY <1>3, <2>2 DEF MapAt, ForkInv, MapOK
  <2> QED BY <2>1, <2>2
<1>6. LibOK'
  BY <1>0, <1>1, <1>3, VaFacts DEF ForkInv, LibOK, LibAt, Priv
<1>7. IdleOK'
  BY <1>0, <1>1, <1>3 DEF ForkInv, IdleOK, IdleAt
<1>8. ParentOK'
  <2> SUFFICES ASSUME NEW g \in Env PROVE ParentAt(g)'
    BY DEF ParentOK
  <2>1. fk[g].at \in Busy => fk[g].child \in Env /\ fk[g].child # e
    BY <1>1, FamilyFacts
  <2>2. fk[g].at \in {"map_child", "map_self"} =>
          fk[g].at \in Busy /\ Cur(g) \in Va /\ ~(g = e /\ Cur(g) = va)
    <3> SUFFICES ASSUME fk[g].at \in {"map_child", "map_self"}
                 PROVE  fk[g].at \in Busy /\ Cur(g) \in Va /\ ~(g = e /\ Cur(g) = va)
      OBVIOUS
    <3>1. LoopAt(g) /\ fk[g].at \in Busy
      BY DEF ForkInv, ParentOK, ParentAt, Busy
    <3>2. Cur(g) \in Va
      BY <3>1, VaFacts DEF LoopAt, Cur
    <3>3. g = e /\ Cur(g) = va => va = Stack /\ pt[e][va].perm = {"W"}
      BY <1>0, <3>1 DEF LoopAt, ForkInv, CowOK, CowAt
    <3> QED BY <1>1, <3>1, <3>2, <3>3, PermFacts
  <2> QED BY <1>0, <1>3, <2>1, <2>2, ParentFrame, VaFacts DEF ForkInv, ParentOK
<1>9. SavedOK' /\ EntryOK'
  BY <1>0, <1>1, <1>3, VaFacts, PermFacts DEF ForkInv, SavedOK, SavedAt, EntryOK, EntryAt
<1>10. CowOK'
  <2> SUFFICES ASSUME NEW g \in Env PROVE CowAt(g)'
    BY DEF CowOK
  <2>1. CASE g = e
    <3>1. pt'[e][UCOW] = pt[e][UCOW] /\ pt'[e][va] = pt[e][UCOW]
      BY <1>1, <1>3, VaFacts
    <3>2. pt[e][UCOW] # NoPage /\ (fk[e].at = "user") # (va = Stack)
      BY <1>0 DEF ForkInv, CowOK, CowAt
    <3> QED BY <1>0, <1>1, <1>3, <2>1, <3>1, <3>2 DEF CowAt
  <2>2. CASE g # e
    <3>1. \A w \in AllVa : pt[g][w].f \in Frame => page'[pt[g][w].f] = page[pt[g][w].f]
      BY <1>0, <1>3, <2>2 DEF Scrub, AllVa
    <3>2. cow[g].at = "map" => /\ cow[g].va \in AllVa
                               /\ pt[g][UCOW].f \in Frame /\ pt[g][cow[g].va].f \in Frame
      BY CopyFrames
    <3> QED BY <1>0, <1>3, <2>2, <3>1, <3>2, CowFrame, VaFacts DEF ForkInv, CowOK
  <2> QED BY <2>1, <2>2
<1>11. ShareOK'
  <2>1. ASSUME NEW h \in Env, NEW x \in AllVa PROVE ShareAt(e, va, h, x)'
    <3>1. CASE h = e /\ x = va
      BY <3>1 DEF ShareAt
    <3>2. CASE h = e /\ x = UCOW
      BY <1>3, <3>2 DEF ShareAt, Shared
    <3>3. CASE ~(h = e /\ x = va) /\ ~(h = e /\ x = UCOW)
      <4>1. pt[h][x].f # pt[e][UCOW].f
        BY <1>0, <3>3, CopyAlone
      <4> QED BY <1>1, <1>3, <3>3, <4>1 DEF ShareAt
    <3> QED BY <3>1, <3>2, <3>3
  <2>2. ASSUME NEW g \in Env, NEW h \in Env, NEW w \in AllVa, NEW x \in AllVa,
               ~(g = e /\ w = va), ~(h = e /\ x = va)
        PROVE  ShareAt(g, w, h, x)'
    <3>1. ShareAt(g, w, h, x)
      BY DEF ForkInv, ShareOK
    <3>2. Shared(g, w, h, x) => Shared(g, w, h, x)'
      BY <1>0, <1>3, <2>2 DEF Shared, Mid, Cur
    <3> QED BY <1>3, <2>2, <3>1, <3>2 DEF ShareAt
  <2>3. ASSUME NEW h \in Env, NEW x \in AllVa PROVE ShareAt(h, x, e, va)'
    BY <2>1 DEF ShareAt, Shared
  <2> QED BY <1>1, <2>1, <2>2, <2>3 DEF ShareOK
<1> QED BY <1>0, <1>4, <1>5, <1>6, <1>7, <1>8, <1>9, <1>10, <1>11 DEF ForkInv

(* The page at UCOW goes, and the store is repeated. *)
LEMMA CowUnmapStep ==
  ASSUME ForkInv, NEW e \in Env, cow_unmap(e)
  PROVE  ForkInv'
<1>0. /\ UNCHANGED <<page, status, parent, entry, fk, dup, forks, halted>>
      /\ pt' = [pt EXCEPT ![e][UCOW] = NoPage] /\ cow' = [cow EXCEPT ![e] = NoCow]
      /\ cow[e].at = "unmap" /\ status[e] = "runnable"
  BY DEF cow_unmap, InCow
<1>1. /\ \A g \in Env : \A w \in AllVa :
            pt'[g][w] = IF g = e /\ w = UCOW THEN NoPage ELSE pt[g][w]
      /\ cow'[e] = NoCow /\ \A g \in Env : g # e => cow'[g] = cow[g]
  BY <1>0 DEF ForkInv, ForkTypeOK, AllVa
<1>2. ForkTypeOK'
  <2>1. pt \in [Env -> [AllVa -> Entry]] /\ cow \in [Env -> CowRec]
    BY TypeFacts DEF ForkInv
  <2>2. pt' \in [Env -> [AllVa -> Entry]] /\ cow' \in [Env -> CowRec]
    BY <1>0, <2>1, RecTypes
  <2> QED BY <1>0, <2>2 DEF ForkInv, ForkTypeOK, CowRec, Entry, AllVa
<1>3. MapOK'
  <2> SUFFICES ASSUME NEW g \in Env, NEW w \in AllVa PROVE MapAt(g, w)'
    BY DEF MapOK
  <2>1. CASE g = e /\ w = UCOW
    <3>1. pt'[g][w] = NoPage /\ pt'[g][w].f = NULL
      BY <1>1, <2>1, PermFacts
    <3> QED BY <3>1, VaFacts DEF MapAt
  <2>2. CASE ~(g = e /\ w = UCOW)
    BY <1>1, <2>2 DEF MapAt, ForkInv, MapOK
  <2> QED BY <2>1, <2>2
<1>4. LibOK' /\ SavedOK' /\ EntryOK'
  BY <1>0, <1>1, VaFacts DEF ForkInv, LibOK, LibAt, SavedOK, SavedAt, EntryOK, EntryAt
<1>5. IdleOK'
  BY <1>0, <1>1 DEF ForkInv, IdleOK, IdleAt
<1>6. ParentOK'
  <2> SUFFICES ASSUME NEW g \in Env PROVE ParentAt(g)'
    BY DEF ParentOK
  <2>1. fk[g].at \in Busy => fk[g].child \in Env
    BY FamilyFacts
  <2>2. fk[g].at \in {"map_child", "map_self"} => fk[g].at \in Busy /\ Cur(g) \in Va
    BY VaFacts DEF ForkInv, ParentOK, ParentAt, LoopAt, Busy, Cur
  <2> QED BY <1>0, <1>1, <2>1, <2>2, ParentFrame, VaFacts DEF ForkInv, ParentOK
<1>7. CowOK'
  <2> SUFFICES ASSUME NEW g \in Env PROVE CowAt(g)'
    BY DEF CowOK
  <2>1. CASE g = e
    BY <1>1, <2>1, VaFacts DEF CowAt, NoCow
  <2>2. CASE g # e
    BY <1>0, <1>1, <2>2, CowFrame DEF ForkInv, CowOK
  <2> QED BY <2>1, <2>2
<1>8. ShareOK'
  <2> SUFFICES ASSUME NEW g \in Env, NEW h \in Env, NEW w \in AllVa, NEW x \in AllVa
               PROVE  ShareAt(g, w, h, x)'
    BY DEF ShareOK
  <2>1. CASE (g = e /\ w = UCOW) \/ (h = e /\ x = UCOW)
    BY <1>1, <2>1, PermFacts DEF ShareAt
  <2>2. CASE ~(g = e /\ w = UCOW) /\ ~(h = e /\ x = UCOW)
    <3>1. ShareAt(g, w, h, x)
      BY DEF ForkInv, ShareOK
    <3>2. Shared(g, w, h, x) => Shared(g, w, h, x)'
      BY <1>0, <1>1, <2>2 DEF Shared, Mid, Cur
    <3> QED BY <1>1, <2>2, <3>1, <3>2 DEF ShareAt
  <2> QED BY <2>1, <2>2
<1> QED BY <1>0, <1>2, <1>3, <1>4, <1>5, <1>6, <1>7, <1>8 DEF ForkInv

-----------------------------------------------------------------------------
(* fork() is called: it goes on to exofork() when the entry is set. *)
LEMMA ForkBeginStep ==
  ASSUME ForkInv, NEW e \in Env, fork_begin(e)
  PROVE  ForkInv'
<1>0. /\ UNCHANGED <<page, pt, status, parent, entry, cow, dup, halted>>
      /\ forks < MaxForks /\ forks' = forks + 1
      /\ fk' = [fk EXCEPT ![e].at = IF entry[e] THEN "exofork" ELSE "entry"]
      /\ status[e] = "runnable" /\ cow[e].at = "none" /\ fk[e].at = "user" /\ ~fk[e].saved
  BY DEF fork_begin, At, InUser
<1>1. /\ fk'[e].at = IF entry[e] THEN "exofork" ELSE "entry"
      /\ fk'[e].saved = fk[e].saved
      /\ \A g \in Env : g # e => fk'[g] = fk[g]
  BY <1>0 DEF ForkInv, ForkTypeOK
<1>2. ForkTypeOK'
  <2>1. fk \in [Env -> ForkRec] /\ forks \in 0 .. MaxForks
    BY TypeFacts DEF ForkInv
  <2>2. [fk[e] EXCEPT !.at = IF entry[e] THEN "exofork" ELSE "entry"] \in ForkRec
    BY <2>1, RecTypes DEF Calls
  <2>3. fk' = [fk EXCEPT ![e] = [fk[e] EXCEPT !.at = IF entry[e] THEN "exofork" ELSE "entry"]]
    BY <1>0
  <2>4. fk' \in [Env -> ForkRec] /\ forks' \in 0 .. MaxForks
    BY <1>0, <2>1, <2>2, <2>3, ForkAssumption
  <2> QED BY <1>0, <2>4 DEF ForkInv, ForkTypeOK, ForkRec
<1>3. MapOK' /\ LibOK'
  BY <1>0 DEF ForkInv, MapOK, MapAt, LibOK, LibAt
<1>4. IdleOK' /\ SavedOK'
  <2> SUFFICES ASSUME NEW g \in Env PROVE IdleAt(g)' /\ SavedAt(g)'
    BY DEF IdleOK, SavedOK
  <2>1. IdleAt(g) /\ SavedAt(g)
    BY DEF ForkInv, IdleOK, SavedOK
  <2>2. CASE g = e
    BY <1>0, <1>1, <2>1, <2>2 DEF IdleAt, SavedAt
  <2>3. CASE g # e
    BY <1>0, <1>1, <2>1, <2>3 DEF IdleAt, SavedAt
  <2> QED BY <2>2, <2>3
<1>5. ParentOK'
  <2> SUFFICES ASSUME NEW g \in Env PROVE ParentAt(g)'
    BY DEF ParentOK
  <2>1. CASE g = e
    BY <1>1, <2>1 DEF ParentAt, Busy
  <2>2. CASE g # e
    BY <1>0, <1>1, <2>2, ParentFrame DEF ForkInv, ParentOK
  <2> QED BY <2>1, <2>2
<1>6. EntryOK'
  BY <1>0, <1>1 DEF ForkInv, EntryOK, EntryAt, Busy
<1>7. CowOK'
  <2> SUFFICES ASSUME NEW g \in Env PROVE CowAt(g)'
    BY DEF CowOK
  <2>1. CASE g = e
    BY <1>0, <2>1 DEF ForkInv, CowOK, CowAt
  <2>2. CASE g # e
    BY <1>0, <1>1, <2>2, CowFrame DEF ForkInv, CowOK
  <2> QED BY <2>1, <2>2
<1>8. ShareOK'
  <2> SUFFICES ASSUME NEW g \in Env, NEW h \in Env, NEW w \in AllVa, NEW x \in AllVa
               PROVE  ShareAt(g, w, h, x)'
    BY DEF ShareOK
  <2>1. \A p, c \in Env : Mid(p, c, w) => Mid(p, c, w)'
    BY <1>0, <1>1 DEF Mid, Cur
  <2> QED BY <1>0, <2>1, ShareFrame DEF ForkInv, ShareOK
<1> QED BY <1>0, <1>2, <1>3, <1>4, <1>5, <1>6, <1>7, <1>8 DEF ForkInv

(* The entry is set: that of the caller, or that of its child. *)
LEMMA ForkEntryStep ==
  ASSUME ForkInv, NEW e \in Env, fork_entry(e)
  PROVE  ForkInv'
<1>0. /\ UNCHANGED <<page, pt, status, parent, cow, dup, forks, halted>>
      /\ entry' = [entry EXCEPT ![e] = TRUE]
      /\ fk' = [fk EXCEPT ![e].at = "exofork", ![e].saved = FALSE]
      /\ status[e] = "runnable" /\ cow[e].at = "none" /\ fk[e].at = "entry"
  BY DEF fork_entry, Made, InUser
<1>1. /\ fk'[e].at = "exofork" /\ fk'[e].saved = FALSE
      /\ \A g \in Env : g # e => fk'[g] = fk[g]
      /\ \A g \in Env : entry[g] => entry'[g]
      /\ entry'[e]
  BY <1>0 DEF ForkInv, ForkTypeOK
<1>2. ForkTypeOK'
  <2>1. fk \in [Env -> ForkRec] /\ entry \in [Env -> BOOLEAN]
    BY TypeFacts DEF ForkInv
  <2>2. [fk[e] EXCEPT !.at = "exofork", !.saved = FALSE] \in ForkRec
    BY <2>1, RecTypes DEF Calls
  <2>3. fk' = [fk EXCEPT ![e] = [fk[e] EXCEPT !.at = "exofork", !.saved = FALSE]]
    BY <1>0
  <2>4. fk' \in [Env -> ForkRec] /\ entry' \in [Env -> BOOLEAN]
    BY <1>0, <2>1, <2>2, <2>3
  <2> QED BY <1>0, <2>4 DEF ForkInv, ForkTypeOK, ForkRec
<1>3. MapOK' /\ LibOK'
  BY <1>0 DEF ForkInv, MapOK, MapAt, LibOK, LibAt
<1>4. IdleOK' /\ SavedOK'
  <2> SUFFICES ASSUME NEW g \in Env PROVE IdleAt(g)' /\ SavedAt(g)'
    BY DEF IdleOK, SavedOK
  <2>1. IdleAt(g) /\ SavedAt(g)
    BY DEF ForkInv, IdleOK, SavedOK
  <2>2. CASE g = e
    BY <1>0, <1>1, <2>1, <2>2 DEF IdleAt, SavedAt
  <2>3. CASE g # e
    BY <1>0, <1>1, <2>1, <2>3 DEF IdleAt, SavedAt
  <2> QED BY <2>2, <2>3
<1>5. ParentOK'
  <2> SUFFICES ASSUME NEW g \in Env PROVE ParentAt(g)'
    BY DEF ParentOK
  <2>1. CASE g = e
    BY <1>1, <2>1 DEF ParentAt, Busy
  <2>2. CASE g # e
    BY <1>0, <1>1, <2>2, ParentFrame DEF ForkInv, ParentOK
  <2> QED BY <2>1, <2>2
<1>6. EntryOK'
  <2>1. \A g \in Env : fk[g].at = "start" => fk[g].child \in Env
    BY FamilyFacts DEF Busy
  <2> QED BY <1>0, <1>1, <2>1 DEF ForkInv, EntryOK, EntryAt, Busy
<1>7. CowOK'
  <2> SUFFICES ASSUME NEW g \in Env PROVE CowAt(g)'
    BY DEF CowOK
  <2>1. CASE g = e
    BY <1>0, <2>1 DEF ForkInv, CowOK, CowAt
  <2>2. CASE g # e
    BY <1>0, <1>1, <2>2, CowFrame DEF ForkInv, CowOK
  <2> QED BY <2>1, <2>2
<1>8. ShareOK'
  <2> SUFFICES ASSUME NEW g \in Env, NEW h \in Env, NEW w \in AllVa, NEW x \in AllVa
               PROVE  ShareAt(g, w, h, x)'
    BY DEF ShareOK
  <2>1. \A p, c \in Env : Mid(p, c, w) => Mid(p, c, w)'
    BY <1>0, <1>1 DEF Mid, Cur
  <2> QED BY <1>0, <2>1, ShareFrame DEF ForkInv, ShareOK
<1> QED BY <1>0, <1>2, <1>3, <1>4, <1>5, <1>6, <1>7, <1>8 DEF ForkInv

(* fork() sets the entry of its child and goes on to start it. *)
LEMMA ChildEntryStep ==
  ASSUME ForkInv, NEW e \in Env, fork_child_entry(e)
  PROVE  ForkInv'
<1>0. /\ UNCHANGED <<page, pt, status, parent, cow, dup, forks, halted>>
      /\ entry' = [entry EXCEPT ![fk[e].child] = TRUE]
      /\ fk' = [fk EXCEPT ![e].at = "start", ![e].saved = FALSE]
      /\ status[e] = "runnable" /\ cow[e].at = "none" /\ fk[e].at = "child_entry"
      /\ fk[e].child \in Env
  BY FamilyFacts DEF fork_child_entry, Made, InUser, Busy
<1>1. /\ fk'[e].at = "start" /\ fk'[e].saved = FALSE /\ fk'[e].child = fk[e].child
      /\ \A g \in Env : g # e => fk'[g] = fk[g]
      /\ \A g \in Env : entry[g] => entry'[g]
      /\ entry'[fk[e].child]
  BY <1>0 DEF ForkInv, ForkTypeOK
<1>2. ForkTypeOK'
  <2>1. fk \in [Env -> ForkRec] /\ entry \in [Env -> BOOLEAN]
    BY TypeFacts DEF ForkInv
  <2>2. [fk[e] EXCEPT !.at = "start", !.saved = FALSE] \in ForkRec
    BY <2>1, RecTypes DEF Calls
  <2>3. fk' = [fk EXCEPT ![e] = [fk[e] EXCEPT !.at = "start", !.saved = FALSE]]
    BY <1>0
  <2>4. fk' \in [Env -> ForkRec] /\ entry' \in [Env -> BOOLEAN]
    BY <1>0, <2>1, <2>2, <2>3
  <2> QED BY <1>0, <2>4 DEF ForkInv, ForkTypeOK, ForkRec
<1>3. MapOK' /\ LibOK'
  BY <1>0 DEF ForkInv, MapOK, MapAt, LibOK, LibAt
<1>4. IdleOK' /\ SavedOK'
  <2>1. IdleOK'
    <3> SUFFICES ASSUME NEW g \in Env PROVE IdleAt(g)'
      BY DEF IdleOK
    <3>1. CASE g = e
      BY <1>0, <3>1 DEF ForkInv, IdleOK, IdleAt
    <3>2. CASE g # e
      <4>1. IdleAt(g) /\ fk'[g] = fk[g]
        BY <1>1, <3>2 DEF ForkInv, IdleOK
      <4> QED BY <1>0, <4>1 DEF IdleAt
    <3> QED BY <3>1, <3>2
  <2>2. SavedOK'
    BY <1>0, <1>1 DEF ForkInv, SavedOK, SavedAt
  <2> QED BY <2>1, <2>2
<1>5. ParentOK'
  <2> SUFFICES ASSUME NEW g \in Env PROVE ParentAt(g)'
    BY DEF ParentOK
  <2>1. CASE g = e
    BY <1>0, <1>1, <2>1 DEF ForkInv, ParentOK, ParentAt, Busy
  <2>2. CASE g # e
    BY <1>0, <1>1, <2>2, ParentFrame DEF ForkInv, ParentOK
  <2> QED BY <2>1, <2>2
<1>6. EntryOK'
  <2>1. \A g \in Env : fk[g].at = "start" => fk[g].child \in Env
    BY FamilyFacts DEF Busy
  <2> QED BY <1>0, <1>1, <2>1 DEF ForkInv, EntryOK, EntryAt, Busy
<1>7. CowOK'
  <2> SUFFICES ASSUME NEW g \in Env PROVE CowAt(g)'
    BY DEF CowOK
  <2>1. CASE g = e
    BY <1>0, <2>1 DEF ForkInv, CowOK, CowAt
  <2>2. CASE g # e
    BY <1>0, <1>1, <2>2, CowFrame DEF ForkInv, CowOK
  <2> QED BY <2>1, <2>2
<1>8. ShareOK'
  <2> SUFFICES ASSUME NEW g \in Env, NEW h \in Env, NEW w \in AllVa, NEW x \in AllVa
               PROVE  ShareAt(g, w, h, x)'
    BY DEF ShareOK
  <2>1. \A p, c \in Env : Mid(p, c, w) => Mid(p, c, w)'
    BY <1>0, <1>1 DEF Mid, Cur
  <2> QED BY <1>0, <2>1, ShareFrame DEF ForkInv, ShareOK
<1> QED BY <1>0, <1>2, <1>3, <1>4, <1>5, <1>6, <1>7, <1>8 DEF ForkInv

(* The child becomes runnable. *)
LEMMA ForkStartStep ==
  ASSUME ForkInv, NEW e \in Env, fork_start(e)
  PROVE  ForkInv'
<1>a. PICK c \in Env : c = fk[e].child
  BY FamilyFacts DEF fork_start, Made, Busy
<1>0. /\ UNCHANGED <<page, pt, parent, entry, cow, forks, halted>>
      /\ status' = [status EXCEPT ![c] = "runnable"]
      /\ fk' = [fk EXCEPT ![e] = NoFork] /\ dup' = [dup EXCEPT ![c] = {}]
      /\ status[e] = "runnable" /\ cow[e].at = "none" /\ fk[e].at = "start"
      /\ fk[e].child = c
  BY <1>a DEF fork_start, Made, InUser
<1>1. /\ status[c] = "not_runnable" /\ c # e
      /\ \A g \in Env : fk[g].at \in Busy /\ g # e => fk[g].child # c
  BY <1>0, FamilyFacts DEF Busy
<1>2. /\ fk'[e] = NoFork /\ \A g \in Env : g # e => fk'[g] = fk[g]
      /\ status'[c] = "runnable" /\ \A g \in Env : g # c => status'[g] = status[g]
      /\ dup'[c] = {} /\ \A g \in Env : g # c => dup'[g] = dup[g]
  BY <1>0 DEF ForkInv, ForkTypeOK
<1>3. ForkTypeOK'
  <2>1. fk \in [Env -> ForkRec]
    BY TypeFacts DEF ForkInv
  <2>2. fk' \in [Env -> ForkRec]
    BY <1>0, <2>1, RecTypes
  <2> QED BY <1>0, <2>2 DEF ForkInv, ForkTypeOK, ForkRec
<1>4. MapOK'
  BY <1>0 DEF ForkInv, MapOK, MapAt
<1>5. LibOK'
  <2>1. dup[c] = Va
    BY <1>0 DEF ForkInv, ParentOK, ParentAt, Busy
  <2> QED BY <1>0, <1>2, <2>1, VaFacts DEF ForkInv, LibOK, LibAt
<1>6. IdleOK'
  <2> SUFFICES ASSUME NEW g \in Env PROVE IdleAt(g)'
    BY DEF IdleOK
  <2>1. CASE g = c
    BY <1>2, <2>1 DEF IdleAt
  <2>2. CASE g = e
    BY <1>0, <1>1, <1>2, <2>2 DEF ForkInv, IdleOK, IdleAt
  <2>3. CASE g # c /\ g # e
    BY <1>0, <1>2, <2>3 DEF ForkInv, IdleOK, IdleAt
  <2> QED BY <2>1, <2>2, <2>3
<1>7. ParentOK'
  <2> SUFFICES ASSUME NEW g \in Env PROVE ParentAt(g)'
    BY DEF ParentOK
  <2>1. CASE g = e
    BY <1>2, <2>1 DEF ParentAt, Busy, NoFork
  <2>2. CASE g # e
    <3>1. fk[g].at \in Busy => fk[g].child \in Env /\ fk[g].child # c
      BY <1>1, <2>2, FamilyFacts
    <3> QED BY <1>0, <1>2, <2>2, <3>1, ParentFrame DEF ForkInv, ParentOK
  <2> QED BY <2>1, <2>2
<1>8. SavedOK'
  BY <1>0, <1>2 DEF ForkInv, SavedOK, SavedAt, NoFork
<1>9. EntryOK'
  <2> SUFFICES ASSUME NEW g \in Env PROVE EntryAt(g)'
    BY DEF EntryOK
  <2>1. CASE g = e
    BY <1>0, <1>1, <1>2, <2>1 DEF ForkInv, EntryOK, EntryAt, Busy, NoFork
  <2>2. CASE g = c
    <3>1. fk[c].at = "child" /\ entry[c]
      BY <1>0, <1>1 DEF ForkInv, IdleOK, IdleAt, EntryOK, EntryAt
    <3> QED BY <1>0, <1>1, <1>2, <2>2, <3>1 DEF EntryAt, Busy
  <2>3. CASE g # c /\ g # e
    BY <1>0, <1>2, <2>3 DEF ForkInv, EntryOK, EntryAt
  <2> QED BY <2>1, <2>2, <2>3
<1>10. CowOK'
  <2> SUFFICES ASSUME NEW g \in Env PROVE CowAt(g)'
    BY DEF CowOK
  <2>1. CASE g = e
    BY <1>0, <2>1 DEF ForkInv, CowOK, CowAt
  <2>2. CASE g = c
    <3>1. cow[c].at = "none"
      BY <1>1 DEF ForkInv, IdleOK, IdleAt, NoCow
    <3> QED BY <1>0, <2>2, <3>1 DEF ForkInv, CowOK, CowAt
  <2>3. CASE g # c /\ g # e
    BY <1>0, <1>2, <2>3, CowFrame DEF ForkInv, CowOK
  <2> QED BY <2>1, <2>2, <2>3
<1>11. ShareOK'
  <2> SUFFICES ASSUME NEW g \in Env, NEW h \in Env, NEW w \in AllVa, NEW x \in AllVa
               PROVE  ShareAt(g, w, h, x)'
    BY DEF ShareOK
  <2>1. \A p, q \in Env : Mid(p, q, w) => Mid(p, q, w)'
    BY <1>0, <1>2 DEF Mid, Cur
  <2> QED BY <1>0, <2>1, ShareFrame DEF ForkInv, ShareOK
<1> QED BY <1>0, <1>3, <1>4, <1>5, <1>6, <1>7, <1>8, <1>9, <1>10, <1>11 DEF ForkInv

(* exofork() makes a child, and the loop looks for its first page. *)
LEMMA ExoforkStep ==
  ASSUME ForkInv, NEW e \in Env, fork_exofork(e)
  PROVE  ForkInv'
<1>a. PICK c \in Env :
        /\ Made(e, "exofork") /\ status[c] = "free"
        /\ status' = [status EXCEPT ![c] = "not_runnable"]
        /\ parent' = [parent EXCEPT ![c] = e]
        /\ entry' = [entry EXCEPT ![c] = FALSE]
        /\ fk' = [fk EXCEPT ![e] = GoOn(e, c, 1), ![c].at = "child"]
        /\ dup' = [dup EXCEPT ![c] = Skipped(e, 1, GoOn(e, c, 1))]
        /\ UNCHANGED <<page, pt, cow, forks, halted>>
  BY DEF fork_exofork
<1> DEFINE n == GoOn(e, c, 1)
<1>0. /\ status[e] = "runnable" /\ cow[e].at = "none" /\ fk[e].at = "exofork" /\ fk[e].saved
      /\ c # e /\ fk[c] = NoFork /\ cow[c] = NoCow /\ \A va \in AllVa : pt[c][va] = NoPage
      /\ pt[e][Stack].perm = {"W"} /\ entry[e]
      /\ \A l \in Lib : pt[e][l] # NoPage
  BY <1>a DEF Made, InUser, ForkInv, IdleOK, IdleAt, SavedOK, SavedAt, EntryOK, EntryAt,
              LibOK, LibAt
<1>1. /\ status'[c] = "not_runnable" /\ \A g \in Env : g # c => status'[g] = status[g]
      /\ parent'[c] = e /\ \A g \in Env : g # c => parent'[g] = parent[g]
      /\ \A g \in Env : g # c => entry'[g] = entry[g]
      /\ dup'[c] = Skipped(e, 1, n) /\ \A g \in Env : g # c => dup'[g] = dup[g]
      /\ fk'[e] = n /\ fk'[c] = [NoFork EXCEPT !.at = "child"]
      /\ \A g \in Env : g # c /\ g # e => fk'[g] = fk[g]
  BY <1>a, <1>0 DEF ForkInv, ForkTypeOK
<1>b. PICK S \in SUBSET (1 .. Len(VaSeq)) : GoesOn(e, c, 1, S)
  <2>1. 1 \in 1 .. Len(VaSeq) + 1
    BY VaFacts
  <2> QED BY <2>1, GoOnFacts
<1>2.   /\ Skipped(e, 1, n) = {VaSeq[j] : j \in S}
        /\ \A j \in S : pt[e][VaSeq[j]] = NoPage
        /\ \/ /\ S = 1 .. Len(VaSeq)
              /\ n = [at |-> "child_entry", saved |-> FALSE, child |-> c, i |-> 0, perm |-> {}]
           \/ \E k \in 1 .. Len(VaSeq) :
                /\ S = 1 .. k - 1 /\ pt[e][VaSeq[k]] # NoPage
                /\ n = [at |-> "map_child", saved |-> FALSE, child |-> c, i |-> k,
                        perm |-> pt[e][VaSeq[k]].perm]
  BY <1>b DEF GoesOn
<1> HIDE DEF n
<1>3. ForkTypeOK'
  <2>1. n \in ForkRec
    <3>1. \A va \in AllVa : pt[e][va].perm \in SUBSET {"W", "COW", "LIB"}
      BY TypeFacts DEF ForkInv, Entry
    <3>2. ASSUME NEW k \in 1 .. Len(VaSeq),
                 n = [at |-> "map_child", saved |-> FALSE, child |-> c, i |-> k,
                      perm |-> pt[e][VaSeq[k]].perm]
          PROVE  n \in ForkRec
      <4>1. pt[e][VaSeq[k]].perm \in SUBSET {"W", "COW", "LIB"} /\ k \in 0 .. Len(VaSeq)
        BY <3>1, VaFacts
      <4> QED BY <3>2, <4>1 DEF ForkRec, Calls
    <3>3. [at |-> "child_entry", saved |-> FALSE, child |-> c, i |-> 0, perm |-> {}] \in ForkRec
      BY VaFacts DEF ForkRec, Calls
    <3> QED BY <1>2, <3>2, <3>3
  <2>2. [NoFork EXCEPT !.at = "child"] \in ForkRec
    BY RecTypes
  <2>3. fk \in [Env -> ForkRec]
    BY TypeFacts DEF ForkInv
  <2>4. fk' \in [Env -> ForkRec]
    BY <1>a, <1>0, <2>1, <2>2, <2>3 DEF n
  <2>5. Skipped(e, 1, n) \subseteq Va
    BY <1>2, VaFacts
  <2>6. dup' \in [Env -> SUBSET Va]
    BY <1>a, <2>5 DEF ForkInv, ForkTypeOK, n
  <2> QED BY <1>a, <2>4, <2>6 DEF ForkInv, ForkTypeOK, ForkRec
<1>4. MapOK'
  BY <1>a DEF ForkInv, MapOK, MapAt
<1>5. LibOK'
  <2>1. \A l \in Lib : l \notin Skipped(e, 1, n)
    BY <1>0, <1>2
  <2> QED BY <1>a, <1>0, <1>1, <2>1, VaFacts DEF ForkInv, LibOK, LibAt
<1>6. IdleOK'
  <2> SUFFICES ASSUME NEW g \in Env PROVE IdleAt(g)'
    BY DEF IdleOK
  <2>1. CASE g = c
    BY <1>a, <1>0, <1>1, <2>1 DEF IdleAt, NoFork
  <2>2. CASE g = e
    BY <1>0, <1>1, <2>2 DEF ForkInv, IdleOK, IdleAt
  <2>3. CASE g # c /\ g # e
    <3>1. /\ IdleAt(g) /\ fk'[g] = fk[g] /\ status'[g] = status[g]
          /\ dup'[g] = dup[g] /\ parent'[g] = parent[g]
      BY <1>1, <2>3 DEF ForkInv, IdleOK
    <3> QED BY <1>a, <3>1 DEF IdleAt
  <2> QED BY <2>1, <2>2, <2>3
<1>7. ParentOK'
  <2> SUFFICES ASSUME NEW g \in Env PROVE ParentAt(g)'
    BY DEF ParentOK
  <2>1. CASE g = c
    BY <1>1, <2>1 DEF ParentAt, Busy, NoFork
  <2>2. CASE g = e
    <3>1. CASE /\ n = [at |-> "child_entry", saved |-> FALSE, child |-> c, i |-> 0, perm |-> {}]
               /\ Skipped(e, 1, n) = {VaSeq[j] : j \in 1 .. Len(VaSeq)}
      <4>1. dup'[c] = Va
        BY <1>1, <3>1 DEF Va
      <4> QED BY <1>1, <2>2, <3>1, <4>1 DEF ParentAt, Busy
    <3>2. CASE \E k \in 1 .. Len(VaSeq) :
               /\ Skipped(e, 1, n) = {VaSeq[j] : j \in 1 .. k - 1} /\ pt[e][VaSeq[k]] # NoPage
               /\ n = [at |-> "map_child", saved |-> FALSE, child |-> c, i |-> k,
                       perm |-> pt[e][VaSeq[k]].perm]
      <4>1. PICK k \in 1 .. Len(VaSeq) :
               /\ Skipped(e, 1, n) = {VaSeq[j] : j \in 1 .. k - 1} /\ pt[e][VaSeq[k]] # NoPage
               /\ n = [at |-> "map_child", saved |-> FALSE, child |-> c, i |-> k,
                       perm |-> pt[e][VaSeq[k]].perm]
        BY <3>2
      <4>2. /\ fk'[e].at = "map_child" /\ fk'[e].child = c /\ fk'[e].i = k
            /\ fk'[e].perm = pt[e][VaSeq[k]].perm
        BY <1>1, <4>1
      <4>3. Cur(e)' = VaSeq[k] /\ VaSeq[k] \in Va
        BY <4>2, VaFacts DEF Cur
      <4>4. dup'[fk'[e].child] = {VaSeq[j] : j \in 1 .. fk'[e].i - 1}
        BY <1>1, <4>1, <4>2
      <4>5. \A va \in Va : pt'[fk'[e].child][va] = NoPage
        BY <1>a, <1>0, <4>2, VaFacts
      <4>6. /\ pt'[e][VaSeq[k]] # NoPage /\ fk'[e].perm = pt'[e][VaSeq[k]].perm
            /\ VaSeq[k] = Stack => fk'[e].perm = {"W"}
        BY <1>a, <1>0, <4>1, <4>2
      <4>7. LoopAt(e)'
        BY <4>2, <4>3, <4>4, <4>5, <4>6 DEF LoopAt
      <4> QED BY <1>1, <2>2, <4>2, <4>7 DEF ParentAt
    <3> QED BY <1>2, <3>1, <3>2
  <2>3. CASE g # c /\ g # e
    <3>1. fk[g].at \in Busy => fk[g].child \in Env /\ fk[g].child # c
      BY <1>a, FamilyFacts
    <3> QED BY <1>a, <1>1, <2>3, <3>1, ParentFrame DEF ForkInv, ParentOK
  <2> QED BY <2>1, <2>2, <2>3
<1>8. n.saved = FALSE /\ n.at \in {"map_child", "child_entry"} /\ n.child = c
  BY <1>2
<1>9. SavedOK'
  <2> SUFFICES ASSUME NEW g \in Env PROVE SavedAt(g)'
    BY DEF SavedOK
  <2>1. CASE g = c \/ g = e
    BY <1>1, <1>8, <2>1 DEF SavedAt, NoFork
  <2>2. CASE g # c /\ g # e
    BY <1>a, <1>1, <2>2 DEF ForkInv, SavedOK, SavedAt
  <2> QED BY <2>1, <2>2
<1>10. EntryOK'
  <2> SUFFICES ASSUME NEW g \in Env PROVE EntryAt(g)'
    BY DEF EntryOK
  <2>1. CASE g = c
    BY <1>1, <2>1 DEF EntryAt, Busy, NoFork
  <2>2. CASE g = e
    BY <1>a, <1>0, <1>1, <1>8, <2>2 DEF EntryAt
  <2>3. CASE g # c /\ g # e
    <3>1. fk[g].at \in Busy => fk[g].child \in Env /\ fk[g].child # c
      BY <1>a, FamilyFacts
    <3>2. EntryAt(g)
      BY DEF ForkInv, EntryOK
    <3>3. fk'[g] = fk[g] /\ status'[g] = status[g] /\ entry'[g] = entry[g] /\ pt' = pt
      BY <1>a, <1>1, <2>3
    <3>4. fk[g].at = "start" => entry'[fk[g].child] = entry[fk[g].child]
      BY <1>1, <3>1 DEF Busy
    <3> QED BY <3>2, <3>3, <3>4 DEF EntryAt
  <2> QED BY <2>1, <2>2, <2>3
<1>11. CowOK'
  <2> SUFFICES ASSUME NEW g \in Env PROVE CowAt(g)'
    BY DEF CowOK
  <2>1. CASE g = e
    BY <1>a, <1>0, <2>1 DEF ForkInv, CowOK, CowAt
  <2>2. CASE g = c
    BY <1>a, <1>0, <2>2, VaFacts DEF CowAt, NoCow
  <2>3. CASE g # c /\ g # e
    BY <1>a, <1>1, <2>3, CowFrame DEF ForkInv, CowOK
  <2> QED BY <2>1, <2>2, <2>3
<1>12. ShareOK'
  <2> SUFFICES ASSUME NEW g \in Env, NEW h \in Env, NEW w \in AllVa, NEW x \in AllVa
               PROVE  ShareAt(g, w, h, x)'
    BY DEF ShareOK
  <2>1. \A p, q \in Env : Mid(p, q, w) => Mid(p, q, w)'
    BY <1>0, <1>1 DEF Mid, Cur, NoFork
  <2> QED BY <1>a, <2>1, ShareFrame DEF ForkInv, ShareOK
<1> QED BY <1>a, <1>3, <1>4, <1>5, <1>6, <1>7, <1>9, <1>10, <1>11, <1>12 DEF ForkInv

(* duppage() is done with page va at position i, and the loop goes on. *)
LEMMA PageDoneFacts ==
  ASSUME ForkInv, NEW e \in Env, NEW c \in Env, NEW i, NEW va,
         fk[e].at \in {"map_child", "map_self"}, fk[e].saved,
         fk[e].child = c, fk[e].i = i, va = Cur(e), PageDone(e),
         UNCHANGED <<status, parent>>,
         \A g \in Env : \A w \in AllVa : ~(w = va /\ g \in {e, c}) => pt'[g][w] = pt[g][w],
         pt'[c][va] # NoPage
  PROVE  /\ fk' \in [Env -> ForkRec] /\ dup' \in [Env -> SUBSET Va]
         /\ fk'[e].at \in {"map_child", "child_entry"} /\ ~fk'[e].saved /\ fk'[e].child = c
         /\ \A g \in Env : g # e => fk'[g] = fk[g]
         /\ \A g \in Env : g # c => dup'[g] = dup[g]
         /\ ParentAt(e)'
         /\ \A l \in Lib : LibAt(c, l)'
<1>0. /\ LoopAt(e) /\ i \in 1 .. Len(VaSeq) /\ va = VaSeq[i] /\ va \in Va
      /\ status[c] = "not_runnable" /\ parent[c] = e /\ status[e] = "runnable"
      /\ c # e /\ pt[e][Stack].perm = {"W"} /\ \A l \in Lib : pt[e][l] # NoPage
  <2>1. fk[e].at \in Busy /\ LoopAt(e)
    BY DEF ForkInv, ParentOK, ParentAt, Busy
  <2>2. i \in 1 .. Len(VaSeq) /\ va = VaSeq[i] /\ va \in Va
    BY <2>1, VaFacts DEF LoopAt, Cur
  <2>3. status[c] = "not_runnable" /\ parent[c] = e /\ status[e] = "runnable" /\ c # e
    BY <2>1, FamilyFacts
  <2> QED BY <2>1, <2>2, <2>3 DEF ForkInv, SavedOK, SavedAt, LibOK, LibAt
<1>a. PICK m \in 1 .. Len(VaSeq) + 1 : m = i + 1
  BY <1>0, VaFacts
<1> DEFINE n == GoOn(e, c, m)
<1>b. PICK S \in SUBSET (m .. Len(VaSeq)) : GoesOn(e, c, m, S)
  BY GoOnFacts
<1>1.   /\ Skipped(e, m, n) = {VaSeq[j] : j \in S}
        /\ \A j \in S : pt[e][VaSeq[j]] = NoPage
        /\ \/ /\ S = m .. Len(VaSeq)
              /\ n = [at |-> "child_entry", saved |-> FALSE, child |-> c, i |-> 0, perm |-> {}]
           \/ \E k \in m .. Len(VaSeq) :
                /\ S = m .. k - 1 /\ pt[e][VaSeq[k]] # NoPage
                /\ n = [at |-> "map_child", saved |-> FALSE, child |-> c, i |-> k,
                        perm |-> pt[e][VaSeq[k]].perm]
  BY <1>b DEF GoesOn
<1>2. /\ fk' = [fk EXCEPT ![e] = n]
      /\ dup' = [dup EXCEPT ![c] = @ \cup {va} \cup Skipped(e, m, n)]
  BY <1>a DEF PageDone, Cur
<1> HIDE DEF n
<1>3. n.saved = FALSE /\ n.at \in {"map_child", "child_entry"} /\ n.child = c /\ n \in ForkRec
  <2>1. \A x \in AllVa : pt[e][x].perm \in SUBSET {"W", "COW", "LIB"}
    BY TypeFacts DEF ForkInv, Entry
  <2>2. ASSUME NEW k \in m .. Len(VaSeq),
               n = [at |-> "map_child", saved |-> FALSE, child |-> c, i |-> k,
                    perm |-> pt[e][VaSeq[k]].perm]
        PROVE  n \in ForkRec
    <3>1. pt[e][VaSeq[k]].perm \in SUBSET {"W", "COW", "LIB"} /\ k \in 0 .. Len(VaSeq)
      BY <1>0, <1>a, <2>1, VaFacts
    <3> QED BY <2>2, <3>1 DEF ForkRec, Calls
  <2>3. [at |-> "child_entry", saved |-> FALSE, child |-> c, i |-> 0, perm |-> {}] \in ForkRec
    BY VaFacts DEF ForkRec, Calls
  <2>4. n \in ForkRec
    BY <1>1, <2>2, <2>3
  <2> QED BY <1>1, <2>4
<1>4. /\ fk'[e] = n /\ dup'[c] = dup[c] \cup {va} \cup {VaSeq[j] : j \in S}
      /\ fk' \in [Env -> ForkRec] /\ dup' \in [Env -> SUBSET Va]
      /\ \A g \in Env : g # e => fk'[g] = fk[g]
      /\ \A g \in Env : g # c => dup'[g] = dup[g]
  <2>1. fk \in [Env -> ForkRec] /\ dup \in [Env -> SUBSET Va]
    BY TypeFacts DEF ForkInv
  <2>2. {VaSeq[j] : j \in S} \subseteq Va
    BY <1>0, <1>1, VaFacts
  <2> QED BY <1>0, <1>1, <1>2, <1>3, <2>1, <2>2
<1>5. dup[c] = {VaSeq[j] : j \in 1 .. i - 1}
  BY <1>0 DEF LoopAt
<1>6. \A x \in Va \ dup'[c] : pt'[c][x] = NoPage
  BY <1>0, <1>4, VaFacts DEF LoopAt
<1>7. ParentAt(e)'
  <2>1. CASE /\ S = m .. Len(VaSeq)
             /\ n = [at |-> "child_entry", saved |-> FALSE, child |-> c, i |-> 0, perm |-> {}]
    <3>1. dup'[c] = Va
      <4>1. \A j \in 1 .. Len(VaSeq) : VaSeq[j] \in dup'[c]
        BY <1>0, <1>a, <1>4, <1>5, <2>1, VaFacts
      <4>2. \A x \in Va : x \in dup'[c]
        BY <4>1 DEF Va
      <4>3. dup'[c] \subseteq Va
        BY <1>4
      <4> QED BY <4>2, <4>3
    <3> QED BY <1>0, <1>4, <2>1, <3>1 DEF ParentAt, Busy
  <2>2. CASE \E k \in m .. Len(VaSeq) :
               /\ S = m .. k - 1 /\ pt[e][VaSeq[k]] # NoPage
               /\ n = [at |-> "map_child", saved |-> FALSE, child |-> c, i |-> k,
                       perm |-> pt[e][VaSeq[k]].perm]
    <3>1. PICK k \in m .. Len(VaSeq) :
               /\ S = m .. k - 1 /\ pt[e][VaSeq[k]] # NoPage
               /\ n = [at |-> "map_child", saved |-> FALSE, child |-> c, i |-> k,
                       perm |-> pt[e][VaSeq[k]].perm]
      BY <2>2
    <3>2. /\ fk'[e].at = "map_child" /\ fk'[e].child = c /\ fk'[e].i = k
          /\ fk'[e].perm = pt[e][VaSeq[k]].perm /\ k \in 1 .. Len(VaSeq)
      BY <1>0, <1>a, <1>4, <3>1
    <3>3. Cur(e)' = VaSeq[k] /\ VaSeq[k] \in Va /\ VaSeq[k] # va
      <4>1. k # i /\ i \in 1 .. Len(VaSeq)
        BY <1>0, <1>a
      <4>2. VaSeq[k] # VaSeq[i]
        BY <3>2, <4>1, ForkAssumption
      <4> QED BY <1>0, <3>2, <4>2, VaFacts DEF Cur
    <3>4. dup'[c] = {VaSeq[j] : j \in 1 .. k - 1}
      <4>1. \A j \in 1 .. k - 1 : j \in 1 .. i - 1 \/ j = i \/ j \in S
        BY <1>0, <1>a, <3>1
      <4>2. \A j : j \in 1 .. i - 1 \/ j = i \/ j \in S => j \in 1 .. k - 1
        BY <1>0, <1>a, <3>1
      <4>3. \A x : x \in dup'[c] <=> x \in {VaSeq[j] : j \in 1 .. k - 1}
        BY <1>0, <1>4, <1>5, <4>1, <4>2
      <4> QED BY <4>3
    <3>5. VaSeq[k] \notin dup'[c]
      <4>1. \A j \in 1 .. k - 1 : VaSeq[j] # VaSeq[k]
        BY <3>2, ForkAssumption
      <4> QED BY <3>4, <4>1
    <3>6. pt'[e][VaSeq[k]] = pt[e][VaSeq[k]]
      BY <3>3, VaFacts
    <3>7. LoopAt(e)'
      BY <1>0, <1>6, <3>1, <3>2, <3>3, <3>4, <3>5, <3>6 DEF LoopAt
    <3> QED BY <1>0, <3>2, <3>7 DEF ParentAt
  <2> QED BY <1>1, <2>1, <2>2
<1>8. \A l \in Lib : LibAt(c, l)'
  <2> SUFFICES ASSUME NEW l \in Lib, l \in dup'[c] PROVE pt'[c][l] # NoPage
    BY <1>0 DEF LibAt
  <2>1. CASE l = va
    BY <2>1
  <2>2. CASE l # va
    <3>1. \A j \in S : l # VaSeq[j]
      BY <1>0, <1>1
    <3>2. l \in dup[c]
      BY <1>4, <2>2, <3>1
    <3>3. pt[c][l] # NoPage
      BY <3>2 DEF ForkInv, LibOK, LibAt
    <3> QED BY <2>2, <3>3, VaFacts
  <2> QED BY <2>1, <2>2
<1> QED BY <1>3, <1>4, <1>7, <1>8

(* What duppage() makes of the permissions that occur. *)
LEMMA MarkFacts ==
  /\ Mark({"W"}) = {"COW"} /\ Mark({"COW"}) = {"COW"} /\ Mark({"W", "LIB"}) = {"W", "LIB"}
<1>1. Mark({"W"}) = {"COW"}
  <2>1. ({"W"} \ {"W"}) \cup {"COW"} = {"COW"}
    OBVIOUS
  <2> QED BY <2>1, PermFacts DEF Mark
<1>2. Mark({"COW"}) = {"COW"}
  BY PermFacts DEF Mark
<1>3. Mark({"W", "LIB"}) = {"W", "LIB"}
  BY DEF Mark
<1> QED BY <1>1, <1>2, <1>3

(* The page is mapped into the child. *)
LEMMA MapChildStep ==
  ASSUME ForkInv, NEW e \in Env, fork_map_child(e)
  PROVE  ForkInv'
<1>a. /\ UNCHANGED <<page, status, parent, entry, cow, forks, halted>>
      /\ fk[e].at = "map_child" /\ fk[e].saved /\ status[e] = "runnable" /\ cow[e].at = "none"
      /\ fk[e].at \in Busy /\ LoopAt(e)
  BY DEF fork_map_child, Made, InUser, ForkInv, ParentOK, ParentAt, Busy
<1>b. PICK c \in Env : c = fk[e].child
  BY <1>a, FamilyFacts
<1>c. PICK va \in Va : va = Cur(e)
  BY <1>a, VaFacts DEF LoopAt, Cur
<1>d. PICK perm : perm = fk[e].perm
  OBVIOUS
<1>e. PICK i : i = fk[e].i
  OBVIOUS
<1> DEFINE n == [f |-> pt[e][va].f, perm |-> Mark(perm)]
<1>0. /\ c # e /\ status[c] = "not_runnable" /\ parent[c] = e /\ cow[c] = NoCow
      /\ va \in AllVa /\ va # UCOW /\ pt[e][va] # NoPage /\ perm = pt[e][va].perm
      /\ pt[c][va] = NoPage /\ pt[e][va].f \in Frame /\ pt[e][va].f # NULL
  <2>1. c # e /\ status[c] = "not_runnable" /\ parent[c] = e
    BY <1>a, <1>b, FamilyFacts
  <2>2. va \in AllVa /\ va # UCOW
    BY <1>c, VaFacts
  <2>3. pt[e][va] # NoPage /\ perm = pt[e][va].perm /\ pt[c][va] = NoPage
    BY <1>a, <1>b, <1>c, <1>d DEF LoopAt
  <2>4. pt[e][va].f \in Frame /\ pt[e][va].f # NULL
    BY <2>2, <2>3, MapFacts DEF ForkInv
  <2> QED BY <2>1, <2>2, <2>3, <2>4 DEF ForkInv, IdleOK, IdleAt
<1>1. perm \in {{"W"}, {"COW"}, {"W", "LIB"}} /\ (perm = {"W", "LIB"} <=> va \in Lib)
  BY <1>0, MapFacts DEF ForkInv
<1>2. /\ pt' = [pt EXCEPT ![c][va] = n]
      /\ \/ Mark(perm) = perm /\ PageDone(e)
         \/ /\ Mark(perm) # perm /\ UNCHANGED dup
            /\ fk' = [fk EXCEPT ![e].at = "map_self", ![e].saved = FALSE]
  BY <1>b, <1>c, <1>d DEF fork_map_child, MapInto, Cur
<1>3. \A g \in Env : \A w \in AllVa :
        pt'[g][w] = IF g = c /\ w = va THEN n ELSE pt[g][w]
  BY <1>2 DEF ForkInv, ForkTypeOK, AllVa
<1>4. /\ n.f = pt[e][va].f /\ n.perm = Mark(perm) /\ n \in Entry
      /\ Mark(perm) = (IF va \in Lib THEN {"W", "LIB"} ELSE {"COW"}) /\ n # NoPage
  <2>1. Mark(perm) = (IF va \in Lib THEN {"W", "LIB"} ELSE {"COW"})
    BY <1>1, MarkFacts
  <2>2. n \in Entry
    BY <1>0, <2>1 DEF Entry
  <2> QED BY <1>0, <2>1, <2>2 DEF NoPage
<1>5. pt' \in [Env -> [AllVa -> Entry]]
  <2>1. pt \in [Env -> [AllVa -> Entry]]
    BY TypeFacts DEF ForkInv
  <2> QED BY <1>0, <1>2, <1>4, <2>1
<1>6. MapOK'
  <2> SUFFICES ASSUME NEW g \in Env, NEW w \in AllVa PROVE MapAt(g, w)'
    BY DEF MapOK
  <2>1. CASE g = c /\ w = va
    <3>1. \A l \in Lib : pt[e][va].f = Position(l) => va = l
      BY <1>0 DEF ForkInv, MapOK, MapAt
    <3>2. va \in Lib => pt[e][va].f = Position(va)
      BY <1>0, MapFacts DEF ForkInv
    <3>3. pt'[g][w].f = pt[e][va].f /\ pt'[g][w].perm = Mark(perm)
      BY <1>3, <1>4, <2>1
    <3>4. CASE va \in Lib
      BY <1>4, <2>1, <3>1, <3>2, <3>3, <3>4 DEF MapAt
    <3>5. CASE va \notin Lib
      BY <1>0, <1>4, <2>1, <3>1, <3>3, <3>5 DEF MapAt, Priv
    <3> QED BY <3>4, <3>5
  <2>2. CASE ~(g = c /\ w = va)
    BY <1>3, <2>2 DEF MapAt, ForkInv, MapOK
  <2> QED BY <2>1, <2>2
<1>7. /\ fk' \in [Env -> ForkRec] /\ dup' \in [Env -> SUBSET Va] /\ ~fk'[e].saved
      /\ fk'[e].at \in {"map_child", "map_self", "child_entry"} /\ fk'[e].child = c
      /\ \A g \in Env : g # e => fk'[g] = fk[g]
      /\ \A g \in Env : g # c => dup'[g] = dup[g]
      /\ ParentAt(e)' /\ \A l \in Lib : LibAt(c, l)'
      /\ ShareOK'
  <2>1. CASE Mark(perm) = perm
    <3>1. PageDone(e)
      BY <1>2, <2>1
    <3>2. /\ fk' \in [Env -> ForkRec] /\ dup' \in [Env -> SUBSET Va]
          /\ fk'[e].at \in {"map_child", "child_entry"} /\ ~fk'[e].saved /\ fk'[e].child = c
          /\ \A g \in Env : g # e => fk'[g] = fk[g]
          /\ \A g \in Env : g # c => dup'[g] = dup[g]
          /\ ParentAt(e)'
          /\ \A l \in Lib : LibAt(c, l)'
      <4>1. /\ \A g \in Env : \A w \in AllVa : ~(w = va /\ g \in {e, c}) => pt'[g][w] = pt[g][w]
            /\ pt'[c][va] # NoPage
        BY <1>0, <1>3, <1>4
      <4> QED BY <1>a, <1>b, <1>c, <1>e, <3>1, <4>1, PageDoneFacts
    <3>3. ShareOK'
      <4>1. ASSUME NEW h \in Env, NEW x \in AllVa PROVE ShareAt(c, va, h, x)'
        <5> SUFFICES ASSUME pt'[h][x].f = pt[e][va].f, ~(h = c /\ x = va)
                     PROVE  Shared(c, va, h, x)'
          BY <1>0, <1>3, <1>4 DEF ShareAt
        <5>1. pt'[h][x] = pt[h][x] /\ pt'[c][va] = n
          BY <1>0, <1>3
        <5>2. CASE va \in Lib
          <6>1. pt[e][va].f = Position(va)
            BY <1>0, <5>2, MapFacts DEF ForkInv
          <6>2. x = va
            BY <5>1, <5>2, <6>1 DEF ForkInv, MapOK, MapAt
          <6> QED BY <5>2, <6>2 DEF Shared
        <5>3. CASE va \notin Lib
          <6>1. perm = {"COW"} /\ va \in Priv
            BY <1>4, <2>1, <5>3 DEF Priv
          <6>2. CASE h = e /\ x = va
            BY <1>0, <1>4, <5>1, <6>1, <6>2, MarkFacts DEF Shared
          <6>3. CASE ~(h = e /\ x = va)
            <7>1. Shared(e, va, h, x)
              BY <1>0, <5>1, <6>3 DEF ForkInv, ShareOK, ShareAt
            <7>2. ~Mid(e, h, va) /\ ~Mid(h, e, va)
              BY <1>a, FamilyFacts DEF Mid, Busy
            <7>3. va = x /\ pt[h][x].perm = {"COW"}
              BY <1>a, <5>3, <7>1, <7>2 DEF Shared
            <7> QED BY <1>4, <5>1, <6>1, <7>3, MarkFacts DEF Shared
          <6> QED BY <6>2, <6>3
        <5> QED BY <5>2, <5>3
      <4>2. ASSUME NEW h \in Env, NEW x \in AllVa PROVE ShareAt(h, x, c, va)'
        BY <4>1 DEF ShareAt, Shared
      <4>3. ASSUME NEW g \in Env, NEW h \in Env, NEW w \in AllVa, NEW x \in AllVa,
                   ~(g = c /\ w = va), ~(h = c /\ x = va)
            PROVE  ShareAt(g, w, h, x)'
        <5>1. \A p, q \in Env : Mid(p, q, w) => Mid(p, q, w)'
          BY <1>a, <3>2 DEF Mid, Cur
        <5> QED BY <1>a, <1>3, <4>3, <5>1, ShareFrame DEF ForkInv, ShareOK
      <4> QED BY <1>0, <4>1, <4>2, <4>3 DEF ShareOK
    <3> QED BY <3>2, <3>3
  <2>2. CASE Mark(perm) # perm
    <3>1. perm = {"W"} /\ va \notin Lib /\ Mark(perm) = {"COW"}
      BY <1>1, <2>2, MarkFacts
    <3>2. UNCHANGED dup /\ fk' = [fk EXCEPT ![e].at = "map_self", ![e].saved = FALSE]
      BY <1>2, <2>2
    <3>3. /\ fk' \in [Env -> ForkRec]
          /\ fk'[e].at = "map_self" /\ ~fk'[e].saved /\ fk'[e].child = c
          /\ fk'[e].i = fk[e].i /\ fk'[e].perm = perm
          /\ \A g \in Env : g # e => fk'[g] = fk[g]
      <4>1. fk \in [Env -> ForkRec]
        BY TypeFacts DEF ForkInv
      <4>2. [fk[e] EXCEPT !.at = "map_self", !.saved = FALSE] \in ForkRec
        BY <4>1, RecTypes DEF Calls
      <4>3. fk' = [fk EXCEPT ![e] = [fk[e] EXCEPT !.at = "map_self", !.saved = FALSE]]
        BY <3>2
      <4>4. fk' \in [Env -> ForkRec] /\ \A g \in Env : g # e => fk'[g] = fk[g]
        BY <4>1, <4>2, <4>3
      <4> QED BY <1>b, <1>d, <3>2, <4>4 DEF ForkInv, ForkTypeOK
    <3>4. dup' \in [Env -> SUBSET Va]
      BY <3>2 DEF ForkInv, ForkTypeOK
    <3>5. ParentAt(e)'
      <4>1. Cur(e)' = va
        BY <1>c, <3>3 DEF Cur
      <4>2. pt'[e][va] = pt[e][va] /\ pt'[c][va] = n
        BY <1>0, <1>3
      <4>3. \A x \in Va \ dup[c] : x = va \/ pt'[c][x] = NoPage
        BY <1>a, <1>b, <1>c, <1>3, VaFacts DEF LoopAt
      <4>4. LoopAt(e)'
        <5>1. pt'[c][va] = [f |-> pt'[e][va].f, perm |-> {"COW"}]
          BY <3>1, <4>2
        <5>2. /\ fk'[e].i \in 1 .. Len(VaSeq)
              /\ dup'[fk'[e].child] = {VaSeq[j] : j \in 1 .. fk'[e].i - 1}
          BY <1>a, <1>b, <3>2, <3>3 DEF LoopAt
        <5>3. \A x \in Va \ dup'[fk'[e].child] : x = va \/ pt'[fk'[e].child][x] = NoPage
          BY <3>2, <3>3, <4>3
        <5>4. /\ pt'[e][va] # NoPage /\ fk'[e].perm = pt'[e][va].perm
              /\ fk'[e].perm = {"W"} /\ fk'[e].at = "map_self" /\ fk'[e].child = c
          BY <1>0, <3>1, <3>3, <4>2
        <5> QED BY <4>1, <5>1, <5>2, <5>3, <5>4 DEF LoopAt
      <4> QED BY <1>a, <1>0, <3>3, <4>4 DEF ParentAt
    <3>6. \A l \in Lib : LibAt(c, l)'
      BY <1>a, <1>0, <1>3, <3>1, <3>2, VaFacts DEF ForkInv, LibOK, LibAt
    <3>7. ShareOK'
      <4>1. ASSUME NEW h \in Env, NEW x \in AllVa PROVE ShareAt(c, va, h, x)'
        <5> SUFFICES ASSUME pt'[h][x].f = pt[e][va].f, ~(h = c /\ x = va)
                     PROVE  Shared(c, va, h, x)'
          BY <1>0, <1>3, <1>4 DEF ShareAt
        <5>1. pt'[h][x] = pt[h][x]
          BY <1>0, <1>3
        <5>2. h = e /\ x = va
          <6>1. ~Mid(e, h, va)
            BY <1>a DEF Mid
          <6>2. pt[e][va].perm = {"W"} /\ pt[h][x].f = pt[e][va].f
            BY <1>0, <3>1, <5>1
          <6>3. cow[e].at # "unmap"
            BY <1>a
          <6> QED BY <1>0, <6>1, <6>2, <6>3, WritableAlone
        <5>3. Mid(e, c, va)'
          BY <1>c, <3>3 DEF Mid, Cur
        <5> QED BY <5>2, <5>3 DEF Shared
      <4>2. ASSUME NEW h \in Env, NEW x \in AllVa PROVE ShareAt(h, x, c, va)'
        BY <4>1 DEF ShareAt, Shared
      <4>3. ASSUME NEW g \in Env, NEW h \in Env, NEW w \in AllVa, NEW x \in AllVa,
                   ~(g = c /\ w = va), ~(h = c /\ x = va)
            PROVE  ShareAt(g, w, h, x)'
        <5>1. \A p, q \in Env : Mid(p, q, w) => Mid(p, q, w)'
          BY <1>a, <3>3 DEF Mid, Cur
        <5> QED BY <1>a, <1>3, <4>3, <5>1, ShareFrame DEF ForkInv, ShareOK
      <4> QED BY <1>0, <4>1, <4>2, <4>3 DEF ShareOK
    <3> QED BY <3>2, <3>3, <3>4, <3>5, <3>6, <3>7
  <2> QED BY <2>1, <2>2
<1>8. ForkTypeOK'
  BY <1>a, <1>5, <1>7 DEF ForkInv, ForkTypeOK, ForkRec, Entry, AllVa
<1>9. LibOK'
  <2> SUFFICES ASSUME NEW g \in Env, g # c, NEW l \in Lib PROVE LibAt(g, l)'
    BY <1>7 DEF LibOK
  <2> QED BY <1>a, <1>3, <1>7, VaFacts DEF ForkInv, LibOK, LibAt
<1>10. IdleOK'
  <2> SUFFICES ASSUME NEW g \in Env PROVE IdleAt(g)'
    BY DEF IdleOK
  <2>1. CASE g = e
    BY <1>a, <1>0, <1>7, <2>1 DEF ForkInv, IdleOK, IdleAt
  <2>2. CASE g = c
    BY <1>a, <1>0, <1>7, <2>2 DEF ForkInv, IdleOK, IdleAt
  <2>3. CASE g # c /\ g # e
    BY <1>a, <1>3, <1>7, <2>3 DEF ForkInv, IdleOK, IdleAt
  <2> QED BY <2>1, <2>2, <2>3
<1>11. ParentOK'
  <2> SUFFICES ASSUME NEW g \in Env, g # e PROVE ParentAt(g)'
    BY <1>7 DEF ParentOK
  <2>1. fk[g].at \in Busy => fk[g].child \in Env /\ fk[g].child # c /\ g # c
    BY <1>a, <1>b, <1>0, FamilyFacts
  <2>2. fk[g].at \in {"map_child", "map_self"} => fk[g].at \in Busy /\ Cur(g) \in Va
    BY VaFacts DEF ForkInv, ParentOK, ParentAt, LoopAt, Busy, Cur
  <2> QED BY <1>a, <1>3, <1>7, <2>1, <2>2, ParentFrame, VaFacts DEF ForkInv, ParentOK
<1>12. SavedOK'
  <2> SUFFICES ASSUME NEW g \in Env, g # e PROVE SavedAt(g)'
    BY <1>7 DEF SavedOK, SavedAt
  <2>1. SavedAt(g) /\ (g = c => ~fk[g].saved)
    BY <1>0 DEF ForkInv, SavedOK, IdleOK, IdleAt
  <2> QED BY <1>3, <1>7, <2>1, VaFacts DEF SavedAt
<1>13. EntryOK'
  <2> SUFFICES ASSUME NEW g \in Env PROVE EntryAt(g)'
    BY DEF EntryOK
  <2>1. EntryAt(g)
    BY DEF ForkInv, EntryOK
  <2>2. CASE g = e
    BY <1>a, <1>0, <1>3, <1>7, <2>1, <2>2, VaFacts DEF EntryAt, Busy
  <2>3. CASE g = c
    BY <1>a, <1>0, <1>7, <2>1, <2>3 DEF EntryAt
  <2>4. CASE g # e /\ g # c
    BY <1>a, <1>3, <1>7, <2>1, <2>4, VaFacts DEF EntryAt
  <2> QED BY <2>2, <2>3, <2>4
<1>14. CowOK'
  <2> SUFFICES ASSUME NEW g \in Env PROVE CowAt(g)'
    BY DEF CowOK
  <2>1. CASE g = e \/ g = c
    <3>1. cow[g].at = "none" /\ pt'[g][UCOW] = pt[g][UCOW]
      BY <1>a, <1>0, <1>3, <2>1, VaFacts DEF NoCow
    <3> QED BY <1>a, <3>1 DEF ForkInv, CowOK, CowAt
  <2>2. CASE g # e /\ g # c
    BY <1>a, <1>3, <1>7, <2>2, CowFrame DEF ForkInv, CowOK
  <2> QED BY <2>1, <2>2
<1> QED BY <1>a, <1>6, <1>7, <1>8, <1>9, <1>10, <1>11, <1>12, <1>13, <1>14 DEF ForkInv

(* The page becomes copy-on-write in the parent too. *)
LEMMA MapSelfStep ==
  ASSUME ForkInv, NEW e \in Env, fork_map_self(e)
  PROVE  ForkInv'
<1>a. /\ UNCHANGED <<page, status, parent, entry, cow, forks, halted>>
      /\ fk[e].at = "map_self" /\ fk[e].saved /\ status[e] = "runnable" /\ cow[e].at = "none"
      /\ fk[e].at \in Busy /\ LoopAt(e) /\ PageDone(e) /\ MapInto(e, e)
  BY DEF fork_map_self, Made, InUser, ForkInv, ParentOK, ParentAt, Busy
<1>b. PICK c \in Env : c = fk[e].child
  BY <1>a, FamilyFacts
<1>c. PICK va \in Va : va = Cur(e)
  BY <1>a, VaFacts DEF LoopAt, Cur
<1>d. PICK i : i = fk[e].i
  OBVIOUS
<1> DEFINE n == [f |-> pt[e][va].f, perm |-> {"COW"}]
<1>0. /\ c # e /\ status[c] = "not_runnable" /\ parent[c] = e /\ cow[c] = NoCow
      /\ va \in AllVa /\ va # UCOW /\ va \in Priv /\ pt[e][va].perm = {"W"}
      /\ pt[c][va] = n /\ pt[e][va].f \in Frame /\ pt[e][va].f # NULL
      /\ fk[e].perm = {"W"} /\ entry[e]
  <2>1. c # e /\ status[c] = "not_runnable" /\ parent[c] = e
    BY <1>a, <1>b, FamilyFacts
  <2>2. va \in AllVa /\ va # UCOW
    BY <1>c, VaFacts
  <2>3. pt[e][va].perm = {"W"} /\ pt[c][va] = n /\ fk[e].perm = {"W"}
    BY <1>a, <1>b, <1>c DEF LoopAt
  <2>4. pt[e][va].f \in Frame /\ pt[e][va].f # NULL /\ va \notin Lib
    BY <2>2, <2>3, MapFacts DEF ForkInv
  <2> QED BY <1>a, <2>1, <2>2, <2>3, <2>4 DEF ForkInv, IdleOK, IdleAt, EntryOK, EntryAt, Priv
<1>1. pt' = [pt EXCEPT ![e][va] = n]
  BY <1>a, <1>c, <1>0, MarkFacts DEF MapInto, Cur
<1>2. \A g \in Env : \A w \in AllVa :
        pt'[g][w] = IF g = e /\ w = va THEN n ELSE pt[g][w]
  BY <1>1 DEF ForkInv, ForkTypeOK, AllVa
<1>3. n.f = pt[e][va].f /\ n.perm = {"COW"} /\ n \in Entry /\ n # NoPage
  BY <1>0 DEF Entry, NoPage
<1>4. /\ fk' \in [Env -> ForkRec] /\ dup' \in [Env -> SUBSET Va]
      /\ fk'[e].at \in {"map_child", "child_entry"} /\ ~fk'[e].saved /\ fk'[e].child = c
      /\ \A g \in Env : g # e => fk'[g] = fk[g]
      /\ \A g \in Env : g # c => dup'[g] = dup[g]
      /\ ParentAt(e)'
      /\ \A l \in Lib : LibAt(c, l)'
  <2>1. /\ \A g \in Env : \A w \in AllVa : ~(w = va /\ g \in {e, c}) => pt'[g][w] = pt[g][w]
        /\ pt'[c][va] # NoPage
    BY <1>0, <1>2, <1>3
  <2> QED BY <1>a, <1>b, <1>c, <1>d, <2>1, PageDoneFacts
<1>5. ForkTypeOK'
  <2>1. pt' \in [Env -> [AllVa -> Entry]]
    <3>1. pt \in [Env -> [AllVa -> Entry]]
      BY TypeFacts DEF ForkInv
    <3> QED BY <1>0, <1>1, <1>3, <3>1
  <2> QED BY <1>a, <1>4, <2>1 DEF ForkInv, ForkTypeOK, ForkRec, Entry, AllVa
<1>6. MapOK'
  <2> SUFFICES ASSUME NEW g \in Env, NEW w \in AllVa PROVE MapAt(g, w)'
    BY DEF MapOK
  <2>1. CASE g = e /\ w = va
    <3>1. \A l \in Lib : pt[e][va].f = Position(l) => va = l
      BY <1>0 DEF ForkInv, MapOK, MapAt
    <3>2. pt'[g][w].f = pt[e][va].f /\ pt'[g][w].perm = {"COW"}
      BY <1>2, <1>3, <2>1
    <3> QED BY <1>0, <2>1, <3>1, <3>2 DEF MapAt
  <2>2. CASE ~(g = e /\ w = va)
    BY <1>2, <2>2 DEF MapAt, ForkInv, MapOK
  <2> QED BY <2>1, <2>2
<1>7. LibOK'
  <2> SUFFICES ASSUME NEW g \in Env, g # c, NEW l \in Lib PROVE LibAt(g, l)'
    BY <1>4 DEF LibOK
  <2>1. LibAt(g, l) /\ l # va /\ l \in AllVa
    BY <1>0, VaFacts DEF ForkInv, LibOK, Priv
  <2> QED BY <1>a, <1>2, <1>4, <2>1 DEF LibAt
<1>8. IdleOK'
  <2> SUFFICES ASSUME NEW g \in Env PROVE IdleAt(g)'
    BY DEF IdleOK
  <2>1. CASE g = e
    BY <1>a, <1>0, <1>4, <2>1 DEF ForkInv, IdleOK, IdleAt
  <2>2. CASE g = c
    BY <1>a, <1>0, <1>4, <2>2 DEF ForkInv, IdleOK, IdleAt
  <2>3. CASE g # c /\ g # e
    BY <1>a, <1>2, <1>4, <2>3 DEF ForkInv, IdleOK, IdleAt
  <2> QED BY <2>1, <2>2, <2>3
<1>9. ParentOK'
  <2> SUFFICES ASSUME NEW g \in Env, g # e PROVE ParentAt(g)'
    BY <1>4 DEF ParentOK
  <2>1. fk[g].at \in Busy => fk[g].child \in Env /\ fk[g].child # c /\ fk[g].child # e
    BY <1>a, <1>b, <1>0, FamilyFacts
  <2>2. fk[g].at \in {"map_child", "map_self"} => fk[g].at \in Busy /\ Cur(g) \in Va
    BY VaFacts DEF ForkInv, ParentOK, ParentAt, LoopAt, Busy, Cur
  <2> QED BY <1>a, <1>2, <1>4, <2>1, <2>2, ParentFrame, VaFacts DEF ForkInv, ParentOK
<1>10. SavedOK'
  <2> SUFFICES ASSUME NEW g \in Env, g # e PROVE SavedAt(g)'
    BY <1>4 DEF SavedOK, SavedAt
  <2> QED BY <1>2, <1>4, VaFacts DEF ForkInv, SavedOK, SavedAt
<1>11. EntryOK'
  <2> SUFFICES ASSUME NEW g \in Env PROVE EntryAt(g)'
    BY DEF EntryOK
  <2>1. CASE g = e
    BY <1>a, <1>0, <1>4, <2>1 DEF EntryAt
  <2>2. CASE g # e
    BY <1>a, <1>2, <1>4, <2>2, VaFacts DEF ForkInv, EntryOK, EntryAt
  <2> QED BY <2>1, <2>2
<1>12. CowOK'
  <2> SUFFICES ASSUME NEW g \in Env PROVE CowAt(g)'
    BY DEF CowOK
  <2>1. CASE g = e
    <3>1. pt'[g][UCOW] = pt[g][UCOW]
      BY <1>0, <1>2, VaFacts
    <3> QED BY <1>a, <2>1, <3>1 DEF ForkInv, CowOK, CowAt
  <2>2. CASE g # e
    BY <1>a, <1>2, <1>4, <2>2, CowFrame DEF ForkInv, CowOK
  <2> QED BY <2>1, <2>2
<1>13. ShareOK'
  <2>1. ASSUME NEW h \in Env, NEW x \in AllVa PROVE ShareAt(e, va, h, x)'
    <3> SUFFICES ASSUME pt'[h][x].f = pt[e][va].f, ~(h = e /\ x = va)
                 PROVE  Shared(e, va, h, x)'
      BY <1>0, <1>2, <1>3 DEF ShareAt
    <3>1. pt'[h][x] = pt[h][x] /\ cow[e].at # "unmap"
      BY <1>a, <1>2
    <3>2. va = x /\ Mid(e, h, va)
      BY <1>0, <3>1, WritableAlone
    <3>3. h = c /\ pt'[c][va].perm = {"COW"} /\ pt'[e][va].perm = {"COW"}
      BY <1>b, <1>0, <1>2, <1>3, <3>2 DEF Mid
    <3> QED BY <1>0, <3>2, <3>3 DEF Shared
  <2>2. ASSUME NEW h \in Env, NEW x \in AllVa PROVE ShareAt(h, x, e, va)'
    BY <2>1 DEF ShareAt, Shared
  <2>3. ASSUME NEW g \in Env, NEW h \in Env, NEW w \in AllVa, NEW x \in AllVa,
               ~(g = e /\ w = va), ~(h = e /\ x = va)
        PROVE  ShareAt(g, w, h, x)'
    <3>1. ShareAt(g, w, h, x)
      BY DEF ForkInv, ShareOK
    <3>2. w = x => \A p, q \in {g, h} : Mid(p, q, w) => p # e
      BY <1>c, <2>3 DEF Mid
    <3>3. w = x => /\ Mid(g, h, w) => Mid(g, h, w)'
                   /\ Mid(h, g, w) => Mid(h, g, w)'
      BY <1>4, <3>2 DEF Mid, Cur
    <3>4. Shared(g, w, h, x) => Shared(g, w, h, x)'
      BY <1>a, <1>2, <2>3, <3>3 DEF Shared
    <3> QED BY <1>2, <2>3, <3>1, <3>4 DEF ShareAt
  <2> QED BY <1>0, <2>1, <2>2, <2>3 DEF ShareOK
<1> QED BY <1>a, <1>5, <1>6, <1>7, <1>8, <1>9, <1>10, <1>11, <1>12, <1>13 DEF ForkInv

-----------------------------------------------------------------------------
(* Every step keeps the invariant. *)
LEMMA ForkInvStep == ForkInv /\ [Next]_vars => ForkInv'
<1> SUFFICES ASSUME ForkInv, [Next]_vars PROVE ForkInv'
  OBVIOUS
<1>1. CASE UNCHANGED vars
  <2>1. UNCHANGED <<page, pt, status, parent, entry, fk, cow, dup, forks, halted>>
    BY <1>1 DEF vars
  <2>2. ForkTypeOK' /\ MapOK' /\ LibOK' /\ IdleOK'
    <3>1. ForkTypeOK' /\ LibOK'
      BY <2>1 DEF ForkInv, ForkTypeOK, LibOK, LibAt
    <3>2. MapOK' /\ IdleOK'
      BY <2>1 DEF ForkInv, MapOK, MapAt, IdleOK, IdleAt
    <3> QED BY <3>1, <3>2
  <2>3. ParentOK' /\ SavedOK' /\ EntryOK' /\ CowOK'
    <3>1. ParentOK'
      BY <2>1, ParentFrame DEF ForkInv, ParentOK
    <3>2. CowOK'
      BY <2>1, CowFrame DEF ForkInv, CowOK
    <3> QED BY <2>1, <3>1, <3>2 DEF ForkInv, SavedOK, SavedAt, EntryOK, EntryAt
  <2>4. ShareOK'
    BY <2>1, ShareFrame DEF ForkInv, ShareOK, Mid, Cur
  <2> QED BY <2>1, <2>2, <2>3, <2>4 DEF ForkInv
<1>2. ASSUME NEW e \in Env, NEW va \in Va, fault(e, va) PROVE ForkInv'
  BY <1>2, PassiveAllocStep, TlbModStep DEF fault
<1>3. ASSUME NEW e \in Env, NEW va \in Va, NEW v \in Value, store(e, va, v) PROVE ForkInv'
  BY <1>3, StoreStep DEF store
<1>4. ASSUME NEW e \in Env, exit(e) PROVE ForkInv'
  BY <1>4, DestroyStep DEF exit, InUser
<1>5. ASSUME NEW e \in Env, cow_entry(e) PROVE ForkInv'
  <2>1. CASE cow_panic(e)
    BY <2>1, DestroyStep DEF cow_panic, InCow
  <2> QED BY <1>5, <2>1, CowAllocStep, CowCopyStep, CowMapStep, CowUnmapStep DEF cow_entry
<1>6. ASSUME NEW e \in Env, fork(e) PROVE ForkInv'
  <2>1. CASE fork_panic(e)
    BY <2>1, DestroyStep DEF fork_panic, Made, InUser
  <2>2. ASSUME NEW v \in Value, call(e, v) PROVE ForkInv'
    BY <2>2, StoreStep, VaFacts DEF call, At
  <2>3. ASSUME NEW v \in Value, fork_child(e, v) PROVE ForkInv'
    BY <2>3, StoreStep, VaFacts DEF fork_child, At
  <2> QED BY <1>6, <2>1, <2>2, <2>3, ForkBeginStep, ForkEntryStep, ExoforkStep, MapChildStep,
             MapSelfStep, ChildEntryStep, ForkStartStep DEF fork
<1> QED BY <1>1, <1>2, <1>3, <1>4, <1>5, <1>6 DEF Next

-----------------------------------------------------------------------------
(* The invariant holds throughout. *)
LEMMA ForkInvAlways == Spec => []ForkInv
<1>1. Init => ForkInv
  BY ForkInvInit
<1>2. ForkInv /\ [Next]_vars => ForkInv'
  BY ForkInvStep
<1> QED BY <1>1, <1>2, PTL DEF Spec

(* A store to a copy-on-write page always finds its handler: the kernel does not *)
(* panic in do_tlb_mod(), however fork(), stores and faults interleave.          *)
THEOREM HandlerAlwaysReady == Spec => []HandlerReady
<1>1. ForkInv => HandlerReady
  BY DEF ForkInv, HandlerReady
<1> QED BY <1>1, ForkInvAlways, PTL

(* A frame that is copy-on-write for one environment is writable for another only *)
(* between the two system calls of duppage(), for its parent and the same page.   *)
LEMMA FrozenInv == ForkInv => CowFrozen
<1> SUFFICES ASSUME ForkInv, NEW e \in Env, NEW g \in Env, NEW va \in Va, NEW w \in Va \cup {UCOW},
                    "COW" \in pt[e][va].perm, "W" \in pt[g][w].perm,
                    pt[e][va].f = pt[g][w].f
             PROVE  /\ status[e] = "not_runnable" /\ parent[e] = g /\ va = w
                    /\ va \notin dup[e]
  BY DEF CowFrozen, ForkInv
<1>1. /\ pt[e][va].perm = {"COW"} /\ va \in AllVa /\ w \in AllVa /\ va \in Priv
      /\ pt[g][w].perm \in {{"W"}, {"W", "LIB"}}
  BY MapFacts, VaFacts DEF ForkInv, AllVa
<1>2. pt[g][w].perm = {"W"}
  <2> SUFFICES ASSUME pt[g][w].perm = {"W", "LIB"} PROVE FALSE
    BY <1>1
  <2>1. w \in Lib /\ pt[g][w].f = Position(w)
    BY <1>1, MapFacts DEF ForkInv
  <2>2. va = w
    BY <1>1, <2>1 DEF ForkInv, MapOK, MapAt
  <2> QED BY <1>1, <2>1, <2>2 DEF Priv
<1>3. ~(e = g /\ va = w)
  BY <1>1, <1>2, PermFacts
<1>4. ~(e = g /\ cow[e].at = "unmap" /\ {va, w} = {cow[e].va, UCOW})
  <2> SUFFICES ASSUME e = g, cow[e].at = "unmap", {va, w} = {cow[e].va, UCOW} PROVE FALSE
    OBVIOUS
  <2>1. pt[e][cow[e].va] = pt[e][UCOW]
    BY DEF ForkInv, CowOK, CowAt
  <2>2. va = cow[e].va \/ va = UCOW
    OBVIOUS
  <2>3. w = cow[e].va \/ w = UCOW
    OBVIOUS
  <2> QED BY <1>1, <1>2, <2>1, <2>2, <2>3, PermFacts
<1>5. va = w /\ Mid(g, e, va)
  BY <1>1, <1>2, <1>3, <1>4, WritableAlone
<1>6. /\ fk[g].at \in Busy /\ fk[g].child = e /\ LoopAt(g) /\ va = VaSeq[fk[g].i]
      /\ status[e] = "not_runnable" /\ parent[e] = g
  BY <1>5 DEF Mid, ForkInv, ParentOK, ParentAt, Busy, Cur
<1>7. va \notin dup[e]
  <2>1. PICK i \in 1 .. Len(VaSeq) :
          i = fk[g].i /\ dup[e] = {VaSeq[j] : j \in 1 .. i - 1}
    BY <1>6 DEF LoopAt
  <2>2. \A j \in 1 .. i - 1 : VaSeq[j] # VaSeq[i]
    BY VaFacts, ForkAssumption
  <2> QED BY <1>6, <2>1, <2>2
<1> QED BY <1>5, <1>6, <1>7

(* Frames marked copy-on-write are frozen, in every reachable state. *)
THEOREM CowAlwaysFrozen == Spec => []CowFrozen
BY FrozenInv, ForkInvAlways, PTL

-----------------------------------------------------------------------------
(* A frame that nobody maps holds zeros. *)
Mapped(f) == \E e \in Env : \E va \in AllVa : pt[e][va].f = f
FreeZero == \A f \in Frame : Mapped(f) \/ page[f] = Zero

LEMMA FreeZeroInit == Init => FreeZero
BY DEF Init, FreeZero

LEMMA ScrubZero == ASSUME Scrub PROVE FreeZero'
BY DEF Scrub, FreeZero, Mapped, AllVa

(* Frames only become free in steps that clear them. *)
LEMMA KeepZero ==
  ASSUME ForkInv, FreeZero, \A f \in Frame : Mapped(f) => Mapped(f)',
         \A f \in Frame : page'[f] = page[f] \/ Mapped(f)
  PROVE  FreeZero'
BY DEF FreeZero

LEMMA FreeZeroStep == ForkInv /\ ForkInv' /\ FreeZero /\ [Next]_vars => FreeZero'
<1> SUFFICES ASSUME ForkInv, ForkInv', FreeZero, [Next]_vars PROVE FreeZero'
  OBVIOUS
<1>1. ASSUME UNCHANGED <<page, pt>> PROVE FreeZero'
  BY <1>1 DEF FreeZero, Mapped
<1>2. ASSUME NEW e \in Env, NEW va \in AllVa, UNCHANGED pt, NEW v,
             page' = [page EXCEPT ![pt[e][va].f] = v]
      PROVE  FreeZero'
  <2>1. \A f \in Frame : page'[f] = page[f] \/ f = pt[e][va].f
    BY <1>2 DEF ForkInv, ForkTypeOK
  <2> QED BY <1>2, <2>1, KeepZero DEF Mapped
<1>3. ASSUME NEW e \in Env, NEW va \in AllVa, NEW n, UNCHANGED page,
             pt' = [pt EXCEPT ![e][va] = n],
             \/ pt[e][va].f \notin Frame
             \/ n.f = pt[e][va].f
             \/ \E w \in AllVa : w # va /\ pt[e][w].f = pt[e][va].f
      PROVE  FreeZero'
  <2>1. /\ pt'[e][va] = n
        /\ \A g \in Env : \A w \in AllVa : ~(g = e /\ w = va) => pt'[g][w] = pt[g][w]
    BY <1>3 DEF ForkInv, ForkTypeOK, AllVa
  <2>2. ASSUME NEW f \in Frame, Mapped(f) PROVE Mapped(f)'
    <3>1. PICK g \in Env, w \in AllVa : pt[g][w].f = f
      BY <2>2 DEF Mapped
    <3>2. CASE ~(g = e /\ w = va)
      BY <2>1, <3>1, <3>2 DEF Mapped
    <3>3. CASE g = e /\ w = va
      BY <1>3, <2>1, <3>1, <3>3 DEF Mapped
    <3> QED BY <3>2, <3>3
  <2> QED BY <1>3, <2>2, KeepZero
<1>4. \A e \in Env, va \in AllVa : pt[e][va] = NoPage => pt[e][va].f \notin Frame
  BY PermFacts, VaFacts
<1>5. ASSUME NEW e \in Env, NEW va \in Va, fault(e, va) PROVE FreeZero'
  BY <1>1, <1>3, <1>4, <1>5, VaFacts DEF fault, passive_alloc, do_tlb_mod
<1>6. ASSUME NEW e \in Env, NEW va \in Va, NEW v \in Value, store(e, va, v) PROVE FreeZero'
  BY <1>2, <1>6, VaFacts DEF store, Put
<1>7. ASSUME NEW e \in Env, cow_entry(e) PROVE FreeZero'
  <2>1. CASE cow_alloc(e)
    <3>1. pt[e][UCOW] = NoPage
      BY <2>1 DEF cow_alloc, InCow, ForkInv, CowOK, CowAt
    <3> QED BY <1>3, <1>4, <2>1, <3>1, VaFacts DEF cow_alloc
  <2>2. CASE cow_copy(e)
    <3>1. UNCHANGED pt /\ page' = [page EXCEPT ![pt[e][UCOW].f] = page[pt[e][cow[e].va].f]]
      BY <2>2 DEF cow_copy
    <3>2. UCOW \in AllVa
      BY VaFacts
    <3>3. PICK v : v = page[pt[e][cow[e].va].f]
      OBVIOUS
    <3> QED BY <1>2, <3>1, <3>2, <3>3
  <2>3. CASE cow_unmap(e)
    <3>1. pt[e][cow[e].va] = pt[e][UCOW] /\ cow[e].va \in AllVa /\ cow[e].va # UCOW
      BY <2>3, VaFacts DEF cow_unmap, InCow, ForkInv, CowOK, CowAt
    <3> QED BY <1>3, <2>3, <3>1, VaFacts DEF cow_unmap
  <2>4. CASE cow_map(e) \/ cow_panic(e)
    BY <2>4, ScrubZero DEF cow_map, cow_panic, Destroy
  <2> QED BY <1>7, <2>1, <2>2, <2>3, <2>4 DEF cow_entry
<1>8. ASSUME NEW e \in Env, fork(e) PROVE FreeZero'
  <2>1. CASE fork_begin(e) \/ fork_entry(e) \/ fork_exofork(e) \/ fork_child_entry(e) \/ fork_start(e)
    BY <1>1, <2>1 DEF fork_begin, fork_entry, fork_exofork, fork_child_entry, fork_start
  <2>2. CASE fork_panic(e)
    BY <2>2, ScrubZero DEF fork_panic, Destroy
  <2>3. ASSUME NEW v \in Value, call(e, v) \/ fork_child(e, v) PROVE FreeZero'
    <3>1. UNCHANGED pt /\ page' = [page EXCEPT ![pt[e][Stack].f] = v]
      BY <2>3 DEF call, fork_child, Put
    <3> QED BY <1>2, <3>1, VaFacts
  <2>4. CASE fork_map_child(e) \/ fork_map_self(e)
    <3>1. fk[e].at \in Busy /\ fk[e].at \in {"map_child", "map_self"} /\ UNCHANGED page
      BY <2>4 DEF fork_map_child, fork_map_self, Made, Busy
    <3>2. LoopAt(e) /\ fk[e].child \in Env /\ Cur(e) \in AllVa
      BY <3>1, VaFacts DEF ForkInv, ParentOK, ParentAt, LoopAt, Cur
    <3>3. CASE fork_map_child(e)
      <4>1. pt[fk[e].child][Cur(e)] = NoPage
        BY <3>2, <3>3 DEF fork_map_child, Made, LoopAt
      <4> QED BY <1>3, <1>4, <3>1, <3>2, <3>3, <4>1 DEF fork_map_child, MapInto, Cur
    <3>4. CASE fork_map_self(e)
      BY <1>3, <3>1, <3>2, <3>4 DEF fork_map_self, MapInto, Cur
    <3> QED BY <2>4, <3>3, <3>4
  <2> QED BY <1>8, <2>1, <2>2, <2>3, <2>4 DEF fork
<1>9. ASSUME NEW e \in Env, exit(e) PROVE FreeZero'
  BY <1>9, ScrubZero DEF exit, Destroy
<1>10. CASE UNCHANGED vars
  BY <1>1, <1>10 DEF vars
<1> QED BY <1>5, <1>6, <1>7, <1>8, <1>9, <1>10 DEF Next

-----------------------------------------------------------------------------
(* What all find in a shared page is what is in its frame. *)
Running == \E g \in Env : status[g] = "runnable"
LibTrue == \A l \in Lib : LibOf(l) = IF Running THEN page[Position(l)] ELSE Zero

LEMMA LibValue == ForkInv => LibTrue
<1> SUFFICES ASSUME ForkInv, NEW l \in Lib
             PROVE  LibOf(l) = IF Running THEN page[Position(l)] ELSE Zero
  BY DEF LibTrue
<1> DEFINE found == {MemOf(e, l) : e \in {g \in Env : status[g] = "runnable"}}
<1>1. \A e \in Env : status[e] = "runnable" => MemOf(e, l) = page[Position(l)]
  <2> SUFFICES ASSUME NEW e \in Env, status[e] = "runnable"
               PROVE  MemOf(e, l) = page[Position(l)]
    OBVIOUS
  <2>1. pt[e][l] # NoPage /\ l \in AllVa
    BY VaFacts DEF ForkInv, LibOK, LibAt
  <2>2. pt[e][l].f = Position(l)
    BY <2>1, MapFacts DEF ForkInv
  <2> QED BY <2>1, <2>2 DEF MemOf
<1>2. CASE Running
  <2>1. found = {page[Position(l)]}
    BY <1>1, <1>2 DEF Running
  <2>2. Cardinality(found) = 1
    BY <2>1, FS_Singleton
  <2>3. (CHOOSE v \in found : TRUE) = page[Position(l)]
    BY <2>1
  <2>4. found # {}
    BY <2>1
  <2> QED BY <1>2, <2>2, <2>3, <2>4 DEF LibOf
<1>3. CASE ~Running
  <2>1. found = {}
    BY <1>3 DEF Running
  <2> QED BY <1>3, <2>1 DEF LibOf
<1> QED BY <1>2, <1>3

(* The frame of a shared page is never that of a private one. *)
LEMMA LibApart ==
  ASSUME ForkInv, NEW e \in Env, NEW va \in AllVa, NEW l \in Lib, pt[e][va].f = Position(l)
  PROVE  va = l
BY DEF ForkInv, MapOK, MapAt

(* A step that no environment can see. *)
LEMMA Unseen ==
  ASSUME LibTrue, LibTrue', UNCHANGED <<status, parent>>,
         \A e \in Env : \A va \in Priv : MemOf(e, va)' = MemOf(e, va),
         Running => \A l \in Lib : page'[Position(l)] = page[Position(l)]
  PROVE  UNCHANGED <<absState, parent, absMem, absLib>>
<1>1. absState' = absState
  BY DEF absState
<1>2. absMem' = absMem
  BY DEF absMem
<1>3. \A l \in Lib : LibOf(l)' = LibOf(l)
  BY DEF LibTrue, Running
<1>4. absLib' = absLib
  BY <1>3 DEF absLib
<1> QED BY <1>1, <1>2, <1>4

LEMMA Quiet ==
  ASSUME LibTrue, LibTrue', UNCHANGED <<page, status, parent, dup>>,
         \A e \in Env : \A va \in Va : pt'[e][va] = pt[e][va]
  PROVE  UNCHANGED <<absState, parent, absMem, absLib>>
<1>1. \A e \in Env : \A va \in Priv : MemOf(e, va)' = MemOf(e, va)
  BY VaFacts DEF MemOf
<1> QED BY <1>1, Unseen

(* A store by its program or by fork() is a store to the memory of e alone. *)
LEMMA StoreSeen ==
  ASSUME ForkInv, LibTrue, LibTrue', NEW e \in Env, NEW va \in Va, NEW v \in Value,
         InUser(e), StoreHits(e, va), Put(e, va, v),
         UNCHANGED <<pt, status, parent, dup>>
  PROVE  Abstract!Store(e, va, v)
<1>1. /\ status[e] = "runnable" /\ cow[e].at = "none" /\ va \in AllVa /\ Running
      /\ pt[e][va].perm \in {{"W"}, {"W", "LIB"}} /\ pt[e][va].f \in Frame
      /\ pt[e][va] # NoPage
  BY MapFacts, VaFacts, PermFacts DEF InUser, StoreHits, ForkInv, Running
<1>2. page' = [page EXCEPT ![pt[e][va].f] = v] /\ page \in [Frame -> Value]
  BY DEF Put, ForkInv, ForkTypeOK
<1>3. \A f \in Frame : page'[f] = IF f = pt[e][va].f THEN v ELSE page[f]
  BY <1>1, <1>2
<1>4. absState[e] = "live" /\ UNCHANGED <<absState, parent>>
  BY <1>1 DEF absState, StateOf
<1>5. \A l \in Lib : Position(l) \in Frame
  BY VaFacts
<1>6. CASE va \in Lib
  <2>1. pt[e][va].f = Position(va)
    BY <1>1, <1>6, MapFacts DEF ForkInv
  <2>2. \A l \in Lib : LibOf(l)' = IF l = va THEN v ELSE LibOf(l)
    <3>1. \A l \in Lib : page'[Position(l)] = IF l = va THEN v ELSE page[Position(l)]
      BY <1>3, <1>5, <1>6, <2>1, VaFacts
    <3> QED BY <1>1, <3>1 DEF LibTrue, Running
  <2>3. absLib' = [absLib EXCEPT ![va] = v]
    BY <1>6, <2>2 DEF absLib
  <2>4. \A g \in Env : \A w \in Priv : MemOf(g, w)' = MemOf(g, w)
    <3> SUFFICES ASSUME NEW g \in Env, NEW w \in Priv PROVE MemOf(g, w)' = MemOf(g, w)
      OBVIOUS
    <3>1. w \in AllVa /\ w \notin Lib
      BY VaFacts DEF Priv
    <3>2. pt[g][w] # NoPage => pt[g][w].f \in Frame /\ pt[g][w].f # pt[e][va].f
      BY <1>6, <2>1, <3>1, LibApart, MapFacts DEF ForkInv
    <3> QED BY <1>3, <3>2 DEF MemOf
  <2>5. UNCHANGED absMem
    BY <2>4 DEF absMem
  <2> QED BY <1>4, <1>6, <2>3, <2>5 DEF Abstract!Store
<1>7. CASE va \notin Lib
  <2>1. va \in Priv /\ pt[e][va].perm = {"W"}
    BY <1>1, <1>7, MapFacts DEF ForkInv, Priv
  <2>2. \A l \in Lib : page'[Position(l)] = page[Position(l)]
    BY <1>1, <1>3, <1>5, <1>7, LibApart
  <2>3. \A l \in Lib : LibOf(l)' = LibOf(l)
    BY <2>2 DEF LibTrue, Running
  <2>4. UNCHANGED absLib
    BY <2>3 DEF absLib
  <2>5. ASSUME NEW g \in Env, NEW w \in Priv
        PROVE  MemOf(g, w)' = IF g = e /\ w = va THEN v ELSE MemOf(g, w)
    <3>1. CASE g = e /\ w = va
      BY <1>1, <1>3, <3>1 DEF MemOf
    <3>2. CASE ~(g = e /\ w = va) /\ (pt[g][w] = NoPage \/ pt[g][w].f # pt[e][va].f)
      <4>1. pt[g][w] # NoPage => pt[g][w].f \in Frame
        BY MapFacts, VaFacts DEF ForkInv
      <4> QED BY <1>3, <3>2, <4>1 DEF MemOf
    <3>3. CASE ~(g = e /\ w = va) /\ pt[g][w].f = pt[e][va].f
      <4>1. w \in AllVa /\ cow[e].at # "unmap"
        BY <1>1, VaFacts
      <4>2. va = w /\ Mid(e, g, va)
        BY <1>1, <2>1, <3>3, <4>1, WritableAlone
      <4>3. /\ fk[e].at \in Busy /\ fk[e].child = g /\ LoopAt(e) /\ va = VaSeq[fk[e].i]
            /\ status[g] = "not_runnable"
        BY <4>2 DEF Mid, ForkInv, ParentOK, ParentAt, Busy, Cur
      <4>4. w \notin dup[g]
        <5>1. PICK i \in 1 .. Len(VaSeq) :
                i = fk[e].i /\ dup[g] = {VaSeq[j] : j \in 1 .. i - 1}
          BY <4>3 DEF LoopAt
        <5>2. \A j \in 1 .. i - 1 : VaSeq[j] # VaSeq[i]
          BY VaFacts, ForkAssumption
        <5> QED BY <4>2, <4>3, <5>1, <5>2
      <4> QED BY <3>3, <4>3, <4>4 DEF MemOf
    <3> QED BY <3>1, <3>2, <3>3
  <2>6. absMem' = [absMem EXCEPT ![e][va] = v]
    BY <2>1, <2>5 DEF absMem
  <2> QED BY <1>4, <1>7, <2>4, <2>6 DEF Abstract!Store
<1> QED BY <1>6, <1>7

(* A page that was not mapped read as zeros, and so does the new page. *)
LEMMA PassiveUnseen ==
  ASSUME ForkInv, FreeZero, LibTrue, LibTrue', NEW e \in Env, NEW va \in Va,
         status[e] = "runnable", passive_alloc(e, va)
  PROVE  UNCHANGED <<absState, parent, absMem, absLib>>
<1>0. /\ pt[e][va] = NoPage /\ UNCHANGED <<page, status, parent, dup>>
      /\ pt' = [pt EXCEPT ![e][va] = [f |-> NewFrame, perm |-> {"W"}]]
      /\ NewFrame \in Frame /\ page[NewFrame] = Zero
  BY FreshFrame DEF passive_alloc, FreeZero, Mapped
<1>1. \A g \in Env : \A w \in Va :
        pt'[g][w] = IF g = e /\ w = va THEN [f |-> NewFrame, perm |-> {"W"}] ELSE pt[g][w]
  BY <1>0 DEF ForkInv, ForkTypeOK
<1>2. [f |-> NewFrame, perm |-> {"W"}] # NoPage
  BY <1>0, VaFacts DEF NoPage
<1>3. ASSUME NEW g \in Env, NEW w \in Priv PROVE MemOf(g, w)' = MemOf(g, w)
  <2>1. w \in Va
    BY VaFacts
  <2>2. CASE g = e /\ w = va
    BY <1>0, <1>1, <1>2, <2>1, <2>2 DEF MemOf
  <2>3. CASE ~(g = e /\ w = va)
    BY <1>0, <1>1, <2>1, <2>3 DEF MemOf
  <2> QED BY <2>2, <2>3
<1> QED BY <1>0, <1>3, Unseen

(* The copy that cow_entry() makes is not seen before it is mapped. *)
LEMMA CopyUnseen ==
  ASSUME ForkInv, LibTrue, LibTrue', NEW e \in Env, cow_copy(e)
  PROVE  UNCHANGED <<absState, parent, absMem, absLib>>
<1>0. /\ cow[e].at \in {"copy", "map"} /\ UNCHANGED <<pt, status, parent, dup>>
      /\ page' = [page EXCEPT ![pt[e][UCOW].f] = page[pt[e][cow[e].va].f]]
  BY DEF cow_copy, InCow
<1>1. pt[e][UCOW].f \in Frame /\ page \in [Frame -> Value]
  BY <1>0, CopyFrames DEF ForkInv, ForkTypeOK
<1>2. \A f \in Frame : f # pt[e][UCOW].f => page'[f] = page[f]
  BY <1>0, <1>1
<1>3. ASSUME NEW g \in Env, NEW w \in Priv PROVE MemOf(g, w)' = MemOf(g, w)
  <2>1. w \in AllVa /\ w # UCOW
    BY VaFacts
  <2>2. pt[g][w].f # pt[e][UCOW].f /\ (pt[g][w] # NoPage => pt[g][w].f \in Frame)
    BY <1>0, <2>1, CopyAlone, MapFacts DEF ForkInv
  <2> QED BY <1>0, <1>2, <2>2 DEF MemOf
<1>4. \A l \in Lib : page'[Position(l)] = page[Position(l)]
  <2>1. \A l \in Lib : Position(l) \in Frame /\ l # UCOW
    BY VaFacts
  <2> QED BY <1>2, <2>1, LibApart, VaFacts
<1> QED BY <1>0, <1>3, <1>4, Unseen

(* The copy that is mapped has the contents of the page it replaces. *)
LEMMA CowMapUnseen ==
  ASSUME ForkInv, LibTrue, LibTrue', NEW e \in Env, cow_map(e)
  PROVE  UNCHANGED <<absState, parent, absMem, absLib>>
<1>a. PICK va \in Va : va = cow[e].va
  BY CopyFrames DEF cow_map, InCow
<1>0. /\ cow[e].at = "map" /\ UNCHANGED <<status, parent, dup>> /\ Scrub
      /\ pt' = [pt EXCEPT ![e][va] = [f |-> pt[e][UCOW].f, perm |-> cow[e].perm]]
  BY <1>a DEF cow_map, InCow
<1>1. /\ pt[e][UCOW].f \in Frame /\ pt[e][va].f \in Frame /\ va \in AllVa /\ va # UCOW /\ va \notin Lib
      /\ pt[e][va] # NoPage /\ status[e] = "runnable"
      /\ page[pt[e][UCOW].f] = page[pt[e][va].f]
  <2>1. /\ pt[e][UCOW].f \in Frame /\ pt[e][va].f \in Frame /\ va \in AllVa /\ va \notin Lib
        /\ status[e] = "runnable"
    BY <1>0, <1>a, CopyFrames
  <2>2. page[pt[e][UCOW].f] = page[pt[e][va].f]
    BY <1>0, <1>a DEF ForkInv, CowOK, CowAt
  <2>3. pt[e][va] # NoPage
    BY <2>1, PermFacts, VaFacts
  <2> QED BY <2>1, <2>2, <2>3, VaFacts
<1>2. PICK n : n = [f |-> pt[e][UCOW].f, perm |-> cow[e].perm]
  OBVIOUS
<1>3. n.f = pt[e][UCOW].f /\ n # NoPage
  BY <1>1, <1>2, VaFacts DEF NoPage
<1>4. \A g \in Env : \A w \in AllVa : pt'[g][w] = IF g = e /\ w = va THEN n ELSE pt[g][w]
  BY <1>0, <1>2 DEF ForkInv, ForkTypeOK, AllVa
<1>5. ASSUME NEW g \in Env, NEW w \in AllVa, pt'[g][w].f \in Frame
      PROVE  page'[pt'[g][w].f] = page[pt'[g][w].f]
  BY <1>0, <1>5 DEF Scrub, AllVa
<1>6. ASSUME NEW g \in Env, NEW w \in Priv PROVE MemOf(g, w)' = MemOf(g, w)
  <2>1. w \in AllVa
    BY VaFacts
  <2>2. CASE g = e /\ w = va
    <3>1. pt'[g][w] = n
      BY <1>4, <2>1, <2>2
    <3>2. page'[n.f] = page[n.f]
      BY <1>1, <1>3, <1>5, <2>1, <3>1
    <3> QED BY <1>0, <1>1, <1>3, <2>2, <3>1, <3>2 DEF MemOf
  <2>3. CASE ~(g = e /\ w = va)
    <3>1. pt'[g][w] = pt[g][w] /\ (pt[g][w] # NoPage => pt[g][w].f \in Frame)
      BY <1>4, <2>1, <2>3, MapFacts DEF ForkInv
    <3>2. pt[g][w] # NoPage => page'[pt[g][w].f] = page[pt[g][w].f]
      BY <1>5, <2>1, <3>1
    <3> QED BY <1>0, <3>1, <3>2 DEF MemOf
  <2> QED BY <2>2, <2>3
<1>7. ASSUME NEW l \in Lib PROVE page'[Position(l)] = page[Position(l)]
  <2>1. l \in AllVa /\ pt[e][l] # NoPage /\ Position(l) \in Frame
    BY <1>1, VaFacts DEF ForkInv, LibOK, LibAt
  <2>2. pt[e][l].f = Position(l) /\ pt'[e][l] = pt[e][l]
    BY <1>1, <1>4, <2>1, MapFacts DEF ForkInv
  <2> QED BY <1>5, <2>1, <2>2
<1> QED BY <1>0, <1>6, <1>7, Unseen

(* An environment that ends takes its memory with it and changes no other. *)
LEMMA ExitSeen ==
  ASSUME ForkInv, LibTrue, LibTrue', NEW e \in Env, status[e] = "runnable", Destroy(e)
  PROVE  Abstract!Exit(e)
<1>1. /\ \A g \in Env : \A w \in AllVa : pt'[g][w] = IF g = e THEN NoPage ELSE pt[g][w]
      /\ \A g \in Env : g # e => status'[g] = status[g] /\ dup'[g] = dup[g]
      /\ status' = [status EXCEPT ![e] = "free"] /\ status'[e] = "free"
      /\ parent' = [parent EXCEPT ![e] = NULL]
  BY DEF Destroy, ForkInv, ForkTypeOK, AllVa
<1>2. \A g \in Env : \A w \in AllVa :
        g # e /\ pt[g][w].f \in Frame => page'[pt[g][w].f] = page[pt[g][w].f]
  BY <1>1 DEF Destroy, Scrub, AllVa
<1>3. ASSUME NEW g \in Env, NEW w \in Priv
      PROVE  MemOf(g, w)' = IF g = e THEN NULL ELSE MemOf(g, w)
  <2>1. w \in AllVa
    BY VaFacts
  <2>2. CASE g = e
    BY <1>1, <2>2 DEF MemOf
  <2>3. CASE g # e
    <3>1. pt[g][w] # NoPage => page'[pt[g][w].f] = page[pt[g][w].f]
      BY <1>2, <2>1, <2>3, MapFacts DEF ForkInv
    <3> QED BY <1>1, <2>1, <2>3, <3>1 DEF MemOf
  <2> QED BY <2>2, <2>3
<1>4. absState[e] = "live" /\ absState' = [absState EXCEPT ![e] = "free"]
  BY <1>1 DEF absState, StateOf
<1>5. absMem' = [absMem EXCEPT ![e] = [va \in Priv |-> NULL]]
  BY <1>3 DEF absMem
<1>6. CASE \E g \in Env \ {e} : status[g] = "runnable"
  <2>1. PICK g \in Env \ {e} : status[g] = "runnable"
    BY <1>6
  <2>2. absState[g] = "live" /\ Running /\ Running'
    BY <1>1, <2>1 DEF absState, StateOf, Running
  <2>3. ASSUME NEW l \in Lib PROVE page'[Position(l)] = page[Position(l)]
    <3>1. l \in AllVa /\ pt[g][l] # NoPage /\ Position(l) \in Frame
      BY <2>1, VaFacts DEF ForkInv, LibOK, LibAt
    <3>2. pt[g][l].f = Position(l)
      BY <3>1, MapFacts DEF ForkInv
    <3> QED BY <1>2, <2>1, <3>1, <3>2
  <2>4. \A l \in Lib : LibOf(l)' = LibOf(l)
    BY <2>2, <2>3 DEF LibTrue
  <2>5. absLib' = absLib
    BY <2>4 DEF absLib
  <2> QED BY <1>1, <1>4, <1>5, <2>1, <2>2, <2>5 DEF Abstract!Exit
<1>7. CASE ~\E g \in Env \ {e} : status[g] = "runnable"
  <2>1. ~Running' /\ \A g \in Env \ {e} : absState[g] # "live"
    BY <1>1, <1>7 DEF absState, StateOf, Running
  <2>2. \A l \in Lib : LibOf(l)' = Zero
    BY <2>1 DEF LibTrue
  <2>3. absLib' = [va \in Lib |-> Zero]
    BY <2>2 DEF absLib
  <2> QED BY <1>1, <1>4, <1>5, <2>1, <2>3 DEF Abstract!Exit
<1> QED BY <1>6, <1>7

(* Nothing that is shared changes while the pages and who runs do not. *)
LEMMA LibKept ==
  ASSUME LibTrue, LibTrue', UNCHANGED page, Running, Running'
  PROVE  absLib' = absLib
<1>1. \A l \in Lib : LibOf(l)' = LibOf(l)
  BY DEF LibTrue
<1> QED BY <1>1 DEF absLib

(* The pages that the loop passes over, between two positions. *)
LEMMA SkippedFacts ==
  ASSUME NEW e \in Env, NEW c \in Env, NEW i \in 1 .. Len(VaSeq) + 1
  PROVE  \E T \in SUBSET Va :
           /\ T = Skipped(e, i, GoOn(e, c, i))
           /\ \A w \in T : pt[e][w] = NoPage /\ \E j \in i .. Len(VaSeq) : w = VaSeq[j]
<1>a. PICK S \in SUBSET (i .. Len(VaSeq)) : GoesOn(e, c, i, S)
  BY GoOnFacts
<1>1. /\ Skipped(e, i, GoOn(e, c, i)) = {VaSeq[j] : j \in S}
      /\ \A j \in S : pt[e][VaSeq[j]] = NoPage
  BY <1>a DEF GoesOn
<1>2. \A j \in S : VaSeq[j] \in Va /\ j \in i .. Len(VaSeq)
  BY VaFacts
<1>3. PICK T : T = {VaSeq[j] : j \in S}
  OBVIOUS
<1>4. \A w \in T : \E j \in S : w = VaSeq[j]
  BY <1>3
<1>5. T \in SUBSET Va
  BY <1>2, <1>4
<1>6. \A w \in T : pt[e][w] = NoPage /\ \E j \in i .. Len(VaSeq) : w = VaSeq[j]
  BY <1>1, <1>2, <1>4
<1> QED BY <1>1, <1>3, <1>5, <1>6

(* exofork() makes a child that has the pages which its parent has not touched. *)
LEMMA CreateSeen ==
  ASSUME ForkInv, LibTrue, LibTrue', NEW e \in Env, fork_exofork(e)
  PROVE  \E c \in Env, S \in SUBSET Priv : Abstract!Create(e, c, S)
<1>0. PICK c \in Env :
        /\ Made(e, "exofork") /\ status[c] = "free"
        /\ status' = [status EXCEPT ![c] = "not_runnable"]
        /\ parent' = [parent EXCEPT ![c] = e]
        /\ dup' = [dup EXCEPT ![c] = Skipped(e, 1, GoOn(e, c, 1))]
        /\ UNCHANGED <<page, pt>>
  BY DEF fork_exofork
<1>1. /\ status[e] = "runnable" /\ c # e /\ \A va \in AllVa : pt[c][va] = NoPage
      /\ Running /\ Running'
  BY <1>0 DEF Made, InUser, ForkInv, IdleOK, IdleAt, ForkTypeOK, Running
<1>2. PICK T \in SUBSET Va : T = Skipped(e, 1, GoOn(e, c, 1)) /\ \A w \in T : pt[e][w] = NoPage
  <2>1. 1 \in 1 .. Len(VaSeq) + 1
    BY VaFacts
  <2> QED BY <2>1, SkippedFacts
<1>3. /\ status'[c] = "not_runnable" /\ dup'[c] = T
      /\ \A g \in Env : g # c => status'[g] = status[g] /\ dup'[g] = dup[g]
  BY <1>0, <1>2 DEF ForkInv, ForkTypeOK
<1>4. PICK S \in SUBSET Priv : S = T \cap Priv
  OBVIOUS
<1>5. ASSUME NEW g \in Env, NEW w \in Priv
      PROVE  MemOf(g, w)' = IF g = c /\ w \in S THEN MemOf(e, w) ELSE MemOf(g, w)
  <2>1. w \in AllVa
    BY VaFacts
  <2>2. CASE g # c
    BY <1>0, <1>3, <2>2 DEF MemOf
  <2>3. CASE g = c /\ w \in S
    BY <1>0, <1>1, <1>2, <1>3, <1>4, <2>1, <2>3 DEF MemOf
  <2>4. CASE g = c /\ w \notin S
    BY <1>0, <1>1, <1>3, <1>4, <2>1, <2>4 DEF MemOf
  <2> QED BY <2>2, <2>3, <2>4
<1>6. absMem' = Abstract!Copied(e, c, S)
  BY <1>1, <1>5 DEF absMem, Abstract!Copied
<1>7. /\ absState[e] = "live" /\ absState[c] = "free"
      /\ absState' = [absState EXCEPT ![c] = "embryo"]
  BY <1>0, <1>1, <1>3 DEF absState, StateOf
<1>8. absLib' = absLib
  BY <1>0, <1>1, LibKept
<1> QED BY <1>0, <1>6, <1>7, <1>8 DEF Abstract!Create

(* When duppage() is done with a page, the child has that page, and the pages that *)
(* are passed over, as its parent has them now.                                    *)
LEMMA InheritSeen ==
  ASSUME ForkInv, LibTrue, LibTrue', NEW e \in Env, NEW c \in Env, NEW va \in Va,
         fk[e].at \in {"map_child", "map_self"},
         fk[e].child = c, va = Cur(e), PageDone(e), UNCHANGED <<page, status, parent>>,
         \A g \in Env : \A w \in AllVa : ~(w = va /\ g \in {e, c}) => pt'[g][w] = pt[g][w],
         pt'[e][va].f = pt[e][va].f, pt'[c][va].f = pt[e][va].f
  PROVE  \E S \in SUBSET Priv : Abstract!Inherit(c, S)
<1>0. /\ fk[e].at \in Busy /\ LoopAt(e) /\ status[c] = "not_runnable" /\ parent[c] = e
      /\ status[e] = "runnable" /\ c # e /\ Running /\ Running'
  <2>1. fk[e].at \in Busy
    BY DEF Busy
  <2>2. LoopAt(e)
    BY <2>1 DEF ForkInv, ParentOK, ParentAt
  <2> QED BY <2>1, <2>2, FamilyFacts DEF Running
<1>1. PICK i \in 1 .. Len(VaSeq) : i = fk[e].i
  BY <1>0 DEF LoopAt
<1>2. PICK m \in 1 .. Len(VaSeq) + 1 : m = i + 1
  BY VaFacts
<1>3. PICK T \in SUBSET Va :
        /\ T = Skipped(e, m, GoOn(e, c, m))
        /\ \A w \in T : pt[e][w] = NoPage /\ \E j \in m .. Len(VaSeq) : w = VaSeq[j]
  BY SkippedFacts
<1>4. /\ dup'[c] = dup[c] \cup {va} \cup T /\ \A g \in Env : g # c => dup'[g] = dup[g]
  <2>1. dup' = [dup EXCEPT ![c] = @ \cup {va} \cup T]
    BY <1>1, <1>2, <1>3 DEF PageDone, Cur
  <2> QED BY <2>1 DEF ForkInv, ForkTypeOK
<1>5. va = VaSeq[i] /\ dup[c] = {VaSeq[j] : j \in 1 .. i - 1}
  BY <1>0, <1>1 DEF LoopAt, Cur
<1>6. va \notin dup[c]
  <2>1. \A j \in 1 .. i - 1 : VaSeq[j] # VaSeq[i]
    BY VaFacts, ForkAssumption
  <2> QED BY <1>5, <2>1
<1>7. ASSUME NEW w \in T PROVE w # va /\ w \notin dup[c] /\ pt[c][w] = NoPage
  <2>1. PICK k \in m .. Len(VaSeq) : w = VaSeq[k]
    BY <1>3
  <2>2. \A j \in 1 .. i : VaSeq[j] # VaSeq[k]
    <3>1. k \in 1 .. Len(VaSeq) /\ \A j \in 1 .. i : j \in 1 .. Len(VaSeq) /\ j # k
      BY <1>2, VaFacts
    <3> QED BY <3>1, ForkAssumption
  <2>3. w # va
    BY <1>5, <2>1, <2>2
  <2>4. w \notin dup[c]
    <3>1. \A j \in 1 .. i - 1 : j \in 1 .. i
      OBVIOUS
    <3> QED BY <1>5, <2>1, <2>2, <3>1
  <2>5. pt[c][w] = NoPage
    BY <1>0, <2>3, <2>4 DEF LoopAt
  <2> QED BY <2>3, <2>4, <2>5
<1>8. /\ pt[e][va] # NoPage /\ pt'[e][va] # NoPage /\ pt'[c][va] # NoPage /\ va \in AllVa
  <2>1. pt[e][va] # NoPage /\ va \in AllVa
    BY <1>0, VaFacts DEF LoopAt
  <2>2. pt[e][va].f # NULL
    BY <2>1, MapFacts DEF ForkInv
  <2> QED BY <2>1, <2>2, PermFacts
<1>9. PICK S \in SUBSET Priv : S = ({va} \cup T) \cap Priv
  OBVIOUS
<1>10. ASSUME NEW g \in Env, NEW w \in Priv
       PROVE  MemOf(g, w)' = IF g = c /\ w \in S THEN MemOf(e, w) ELSE MemOf(g, w)
  <2>1. w \in AllVa
    BY VaFacts
  <2>2. CASE g # c /\ ~(g = e /\ w = va)
    <3>1. pt'[g][w] = pt[g][w]
      BY <2>1, <2>2
    <3> QED BY <1>4, <2>2, <3>1 DEF MemOf
  <2>3. CASE g = e /\ w = va
    BY <1>0, <1>8, <2>3 DEF MemOf
  <2>4. CASE g = c /\ w = va
    BY <1>0, <1>4, <1>8, <1>9, <2>4 DEF MemOf
  <2>5. CASE g = c /\ w # va /\ w \in T
    <3>1. pt'[c][w] = NoPage /\ w \in dup'[c]
      BY <1>4, <1>7, <2>1, <2>5
    <3> QED BY <1>0, <1>3, <1>9, <2>5, <3>1 DEF MemOf
  <2>6. CASE g = c /\ w # va /\ w \notin T
    <3>1. pt'[c][w] = pt[c][w] /\ (w \in dup'[c] <=> w \in dup[c]) /\ w \notin S
      BY <1>4, <1>9, <2>1, <2>6
    <3> QED BY <2>6, <3>1 DEF MemOf
  <2> QED BY <2>2, <2>3, <2>4, <2>5, <2>6
<1>11. absMem' = Abstract!Copied(parent[c], c, S)
  <2>1. absMem' = Abstract!Copied(e, c, S)
    <3>1. \A g \in Env : \A w \in Priv :
            absMem'[g][w] = IF g = c /\ w \in S THEN absMem[e][w] ELSE absMem[g][w]
      BY <1>10 DEF absMem
    <3>2. absMem' = [g \in Env |-> [w \in Priv |-> absMem'[g][w]]]
      BY DEF absMem
    <3>3. absMem = [g \in Env |-> [w \in Priv |-> absMem[g][w]]]
      BY DEF absMem
    <3> QED BY <3>1, <3>2, <3>3 DEF Abstract!Copied
  <2> QED BY <1>0, <2>1
<1>12. \A w \in S : absMem[c][w] = NULL
  BY <1>0, <1>6, <1>7, <1>9 DEF absMem, MemOf
<1>13. absState[c] = "embryo" /\ absState[parent[c]] = "live" /\ UNCHANGED absState
  BY <1>0 DEF absState, StateOf
<1>14. absLib' = absLib
  BY <1>0, LibKept
<1> QED BY <1>11, <1>12, <1>13, <1>14 DEF Abstract!Inherit

(* A child that starts has all its pages. *)
LEMMA StartSeen ==
  ASSUME ForkInv, LibTrue, LibTrue', NEW e \in Env, fork_start(e)
  PROVE  \E c \in Env : Abstract!Start(c)
<1>0. /\ fk[e].at = "start" /\ fk[e].at \in Busy /\ UNCHANGED <<page, pt, parent>>
      /\ status' = [status EXCEPT ![fk[e].child] = "runnable"]
      /\ dup' = [dup EXCEPT ![fk[e].child] = {}]
  BY DEF fork_start, Made, Busy
<1>1. PICK c \in Env : c = fk[e].child /\ status[c] = "not_runnable" /\ dup[c] = Va
                       /\ status[e] = "runnable" /\ c # e
  BY <1>0, FamilyFacts DEF ForkInv, ParentOK, ParentAt
<1>2. /\ status'[c] = "runnable" /\ Running /\ Running'
      /\ \A g \in Env : g # c => status'[g] = status[g] /\ dup'[g] = dup[g]
  BY <1>0, <1>1 DEF ForkInv, ForkTypeOK, Running
<1>3. \A g \in Env : \A w \in Priv : MemOf(g, w)' = MemOf(g, w)
  BY <1>0, <1>1, <1>2, VaFacts DEF MemOf
<1>4. ASSUME NEW w \in Priv PROVE MemOf(c, w) # NULL
  <2>1. w \in Va /\ w \in AllVa
    BY VaFacts
  <2>2. pt[c][w] # NoPage => page[pt[c][w].f] \in Value
    BY <2>1, MapFacts DEF ForkInv, ForkTypeOK
  <2> QED BY <1>1, <2>1, <2>2, ForkAssumption DEF MemOf
<1>5. absMem' = absMem /\ \A w \in Priv : absMem[c][w] # NULL
  BY <1>3, <1>4 DEF absMem
<1>6. absState[c] = "embryo" /\ absState' = [absState EXCEPT ![c] = "live"]
  BY <1>1, <1>2 DEF absState, StateOf
<1>7. absLib' = absLib
  BY <1>0, <1>2, LibKept
<1> QED BY <1>0, <1>5, <1>6, <1>7 DEF Abstract!Start

(* A step of duppage(): what becomes of the page in the loop. *)
LEMMA DuppageSeen ==
  ASSUME ForkInv, LibTrue, LibTrue', NEW e \in Env, fork_map_child(e) \/ fork_map_self(e)
  PROVE  \/ UNCHANGED <<absState, parent, absMem, absLib>>
         \/ \E c \in Env, S \in SUBSET Priv : Abstract!Inherit(c, S)
<1>0. /\ fk[e].at \in {"map_child", "map_self"} /\ fk[e].at \in Busy
      /\ UNCHANGED <<page, status, parent>> /\ LoopAt(e)
  BY DEF fork_map_child, fork_map_self, Made, ForkInv, ParentOK, ParentAt, Busy
<1>1. PICK c \in Env : c = fk[e].child /\ c # e /\ status[c] = "not_runnable"
  BY <1>0, FamilyFacts
<1>2. PICK va \in Va : va = Cur(e)
  BY <1>0, VaFacts DEF LoopAt, Cur
<1>3. PICK n : n = [f |-> pt[e][va].f, perm |-> Mark(fk[e].perm)]
  OBVIOUS
<1>4. n.f = pt[e][va].f
  BY <1>3
<1>5. CASE fork_map_child(e)
  <2>1. pt' = [pt EXCEPT ![c][va] = n]
    BY <1>1, <1>2, <1>3, <1>5 DEF fork_map_child, MapInto, Cur
  <2>2. \A g \in Env : \A w \in AllVa : pt'[g][w] = IF g = c /\ w = va THEN n ELSE pt[g][w]
    BY <2>1 DEF ForkInv, ForkTypeOK, AllVa
  <2>3. CASE PageDone(e)
    BY <1>0, <1>1, <1>2, <1>4, <2>2, <2>3, InheritSeen, VaFacts
  <2>4. CASE ~PageDone(e)
    <3>1. UNCHANGED dup
      BY <1>5, <2>4 DEF fork_map_child
    <3>2. va \notin dup[c]
      <4>1. PICK i \in 1 .. Len(VaSeq) :
              i = fk[e].i /\ dup[c] = {VaSeq[j] : j \in 1 .. i - 1}
        BY <1>0, <1>1 DEF LoopAt
      <4>2. \A j \in 1 .. i - 1 : VaSeq[j] # VaSeq[i]
        BY VaFacts, ForkAssumption
      <4> QED BY <1>2, <4>1, <4>2 DEF Cur
    <3>3. ASSUME NEW g \in Env, NEW w \in Priv PROVE MemOf(g, w)' = MemOf(g, w)
      <4>1. w \in AllVa
        BY VaFacts
      <4>2. CASE g = c /\ w = va
        BY <1>0, <1>1, <3>1, <3>2, <4>2 DEF MemOf
      <4>3. CASE ~(g = c /\ w = va)
        BY <1>0, <2>2, <3>1, <4>1, <4>3 DEF MemOf
      <4> QED BY <4>2, <4>3
    <3> QED BY <1>0, <3>3, Unseen
  <2> QED BY <2>3, <2>4
<1>6. CASE fork_map_self(e)
  <2>1. pt' = [pt EXCEPT ![e][va] = n] /\ PageDone(e) /\ fk[e].at = "map_self"
    BY <1>2, <1>3, <1>6 DEF fork_map_self, MapInto, Cur, Made
  <2>2. \A g \in Env : \A w \in AllVa : pt'[g][w] = IF g = e /\ w = va THEN n ELSE pt[g][w]
    BY <2>1 DEF ForkInv, ForkTypeOK, AllVa
  <2>3. pt[c][va].f = pt[e][va].f
    BY <1>0, <1>1, <1>2, <2>1 DEF LoopAt
  <2> QED BY <1>0, <1>1, <1>2, <1>4, <2>1, <2>2, <2>3, InheritSeen, VaFacts
<1> QED BY <1>5, <1>6

-----------------------------------------------------------------------------
(* The initial state, seen as private memories. *)
LEMMA InitSeen == Init => Abstract!Init
<1> SUFFICES ASSUME Init PROVE Abstract!Init
  OBVIOUS
<1>1. ForkInv /\ LibTrue
  BY ForkInvInit, LibValue
<1>2. /\ status = [e \in Env |-> IF e = Root THEN "runnable" ELSE "free"]
      /\ parent = [e \in Env |-> NULL] /\ page = [f \in Frame |-> Zero]
  BY DEF Init
<1>3. absState = [e \in Env |-> IF e = Root THEN "live" ELSE "free"]
  BY <1>2 DEF absState, StateOf
<1>4. ASSUME NEW e \in Env, NEW va \in Priv
      PROVE  MemOf(e, va) = IF e = Root THEN Zero ELSE NULL
  <2>1. pt[e][va] # NoPage => pt[e][va].f \in Frame
    BY <1>1, MapFacts, VaFacts DEF ForkInv
  <2> QED BY <1>2, <2>1 DEF MemOf
<1>5. absMem = [e \in Env |-> [va \in Priv |-> IF e = Root THEN Zero ELSE NULL]]
  BY <1>4 DEF absMem
<1>6. \A l \in Lib : LibOf(l) = Zero
  BY <1>1, <1>2, VaFacts DEF LibTrue
<1>7. absLib = [va \in Lib |-> Zero]
  BY <1>6 DEF absLib
<1> QED BY <1>2, <1>3, <1>5, <1>7 DEF Abstract!Init

(* Every step is a step on private memories, or is not seen. *)
LEMMA StepSeen ==
  ASSUME ForkInv, FreeZero, LibTrue, LibTrue', [Next]_vars
  PROVE  [Abstract!Next]_<<absState, parent, absMem, absLib>>
<1> DEFINE Stutter == UNCHANGED <<absState, parent, absMem, absLib>>
<1>1. CASE UNCHANGED vars
  BY <1>1, Quiet DEF vars
<1>2. ASSUME NEW e \in Env, NEW va \in Va, fault(e, va) PROVE Stutter
  <2>1. CASE passive_alloc(e, va)
    BY <1>2, <2>1, PassiveUnseen DEF fault, InUser
  <2>2. CASE do_tlb_mod(e, va)
    BY <2>2, Quiet DEF do_tlb_mod
  <2> QED BY <1>2, <2>1, <2>2 DEF fault
<1>3. ASSUME NEW e \in Env, NEW va \in Va, NEW v \in Value,
             InUser(e), StoreHits(e, va), Put(e, va, v), UNCHANGED <<pt, status, parent, dup>>
      PROVE  Abstract!Next
  <2>1. Abstract!Store(e, va, v)
    BY <1>3, StoreSeen
  <2>2. va \in Priv \cup Lib
    BY DEF Priv
  <2> QED BY <2>1, <2>2 DEF Abstract!Next
<1>4. ASSUME NEW e \in Env, exit(e) \/ cow_panic(e) \/ fork_panic(e) PROVE Abstract!Next
  <2>1. status[e] = "runnable" /\ Destroy(e)
    BY <1>4 DEF exit, cow_panic, fork_panic, InUser, InCow, Made
  <2>2. Abstract!Exit(e)
    BY <2>1, ExitSeen
  <2> QED BY <2>2 DEF Abstract!Next
<1>5. ASSUME NEW e \in Env, cow_entry(e), ~cow_panic(e) PROVE Stutter
  <2>1. CASE cow_alloc(e)
    <3>1. PICK n : pt' = [pt EXCEPT ![e][UCOW] = n]
      BY <2>1 DEF cow_alloc
    <3>2. \A g \in Env : \A w \in Va : pt'[g][w] = pt[g][w]
      BY <3>1, VaFacts DEF ForkInv, ForkTypeOK
    <3> QED BY <2>1, <3>2, Quiet DEF cow_alloc
  <2>2. CASE cow_unmap(e)
    <3>1. \A g \in Env : \A w \in Va : pt'[g][w] = pt[g][w]
      BY <2>2, VaFacts DEF cow_unmap, ForkInv, ForkTypeOK
    <3> QED BY <2>2, <3>1, Quiet DEF cow_unmap
  <2> QED BY <1>5, <2>1, <2>2, CopyUnseen, CowMapUnseen DEF cow_entry
<1>6. ASSUME NEW e \in Env, fork(e), ~fork_panic(e) PROVE Abstract!Next \/ Stutter
  <2>1. CASE fork_begin(e) \/ fork_entry(e) \/ fork_child_entry(e)
    BY <2>1, Quiet DEF fork_begin, fork_entry, fork_child_entry
  <2>2. CASE fork_exofork(e)
    BY <2>2, CreateSeen DEF Abstract!Next
  <2>3. CASE fork_map_child(e) \/ fork_map_self(e)
    BY <2>3, DuppageSeen DEF Abstract!Next
  <2>4. CASE fork_start(e)
    BY <2>4, StartSeen DEF Abstract!Next
  <2>5. ASSUME NEW v \in Value, call(e, v) \/ fork_child(e, v) PROVE Abstract!Next
    BY <1>3, <2>5, VaFacts DEF call, fork_child, At
  <2> QED BY <1>6, <2>1, <2>2, <2>3, <2>4, <2>5 DEF fork
<1>7. ASSUME NEW e \in Env, NEW va \in Va, NEW v \in Value, store(e, va, v) PROVE Abstract!Next
  BY <1>3, <1>7 DEF store
<1> QED BY <1>1, <1>2, <1>4, <1>5, <1>6, <1>7 DEF Next, fork, cow_entry

(* fork() with copy-on-write implements private memories: whatever faults, stores, *)
(* forks and exits interleave, an environment finds in its pages what its own      *)
(* stores put there, and a child starts with its parent's pages (duppage,          *)
(* cow_entry, do_tlb_mod).                                                         *)
THEOREM ForkIsolates == Spec => Isolated
<1>1. Init => Abstract!Init /\ FreeZero
  BY InitSeen, FreeZeroInit
<1>2. ForkInv /\ ForkInv' /\ FreeZero /\ [Next]_vars => FreeZero'
  BY FreeZeroStep
<1>3. ForkInv => LibTrue
  BY LibValue
<1>4. ForkInv /\ FreeZero /\ LibTrue /\ LibTrue' /\ [Next]_vars
        => [Abstract!Next]_<<absState, parent, absMem, absLib>>
  BY StepSeen
<1>5. Spec => []ForkInv
  BY ForkInvAlways
<1> QED BY <1>1, <1>2, <1>3, <1>4, <1>5, PTL DEF Spec, Isolated, Abstract!Spec
=============================================================================
