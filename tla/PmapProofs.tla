----------------------------- MODULE PmapProofs -----------------------------
(***************************************************************************)
(* Proofs about Pmap: reference counts are exact, free pages are unused,   *)
(* pages that hold translations serve nothing else, the TLB agrees with    *)
(* the tables and the copy at UVPT is fresh, for any finite number of      *)
(* environments, pages and addresses.                                      *)
(***************************************************************************)
EXTENDS Pmap, FiniteSetTheorems, TLAPS

\* All places that can hold a reference, and what they hold.
All       == Env \X Place
Pte(e, va) == <<e, <<"pte", va>>>>
Pde(e, d)  == <<e, <<"pde", d>>>>
DirOf(e)   == <<e, <<"dir", NULL>>>>
CopyOf(e)  == <<e, <<"copy", NULL>>>>
PteOf(e)   == {Pte(e, va) : va \in Va}
Tables     == All \ UNION {PteOf(e) : e \in Env}
PlacesOf(e) == {r \in All : r[1] = e}

Holds == [r \in All |-> IF r[1] \in live THEN Held(r[1], r[2]) ELSE NULL]
Where(H, p) == {r \in All : H[r] = p}

-----------------------------------------------------------------------------
(* The inductive invariant. *)

\* Where a directory has no table there are no pages.
TableFirst == \A e \in Env : \A va \in Va : pde[e][va[1]] = NULL => pte[e][va] = NULL

\* Counts are exact, and a free page has none.
Counted == \A p \in Page : pp_ref[p] = Cardinality(Where(Holds, p)) + Forgotten(p)
FreeIdle == \A p \in page_free_list : pp_ref[p] = 0

\* What serves as directory, table or copy is held nowhere else.
SoleIn(H) == \A r \in Tables : \A s \in All : H[r] # NULL /\ H[s] = H[r] => s = r
Sole == SoleIn(Holds)

\* Address space identifiers tell live environments apart.
AsidOK == /\ \A e \in live : env_asid[e] \in 0 .. NASID - 1
          /\ \A e, g \in live : env_asid[e] = env_asid[g] => e = g

PmapInv == /\ PmapTypeOK /\ TableFirst /\ Counted /\ FreeIdle /\ Sole /\ AsidOK
           /\ TlbCoherent /\ UvptFresh

-----------------------------------------------------------------------------
(* The places: there are finitely many, of four kinds. *)
LEMMA PlaceFacts ==
  /\ IsFiniteSet(All)
  /\ \A e \in Env :
       /\ \A va \in Va : Pte(e, va) \in All /\ Pte(e, va) \notin Tables
       /\ \A d \in Dir : Pde(e, d) \in Tables
       /\ DirOf(e) \in Tables /\ CopyOf(e) \in Tables
  /\ Tables \subseteq All
  /\ \A va \in Va : va[1] \in Dir
<1>1. IsFiniteSet(Va)
  BY PmapAssumption, FS_Product DEF Va
<1>2. IsFiniteSet({"pte"} \X Va) /\ IsFiniteSet({"pde"} \X Dir) /\ IsFiniteSet({"dir", "copy"} \X {NULL})
  <2>1. IsFiniteSet({"pte"}) /\ IsFiniteSet({"pde"}) /\ IsFiniteSet({NULL})
    BY FS_Singleton
  <2>2. IsFiniteSet({"dir"} \cup {"copy"})
    BY FS_Singleton, FS_AddElement
  <2>3. {"dir"} \cup {"copy"} = {"dir", "copy"}
    OBVIOUS
  <2> QED BY <1>1, <2>1, <2>2, <2>3, PmapAssumption, FS_Product
<1>3. IsFiniteSet(Place)
  <2>1. IsFiniteSet(({"pte"} \X Va) \cup ({"pde"} \X Dir))
    BY <1>2, FS_Union
  <2> QED BY <1>2, <2>1, FS_Union DEF Place
<1>4. IsFiniteSet(All)
  BY <1>3, PmapAssumption, FS_Product DEF All
<1>5. ASSUME NEW e \in Env
      PROVE  /\ \A va \in Va : Pte(e, va) \in All /\ Pte(e, va) \notin Tables
             /\ \A d \in Dir : Pde(e, d) \in Tables
             /\ DirOf(e) \in Tables /\ CopyOf(e) \in Tables
  <2>1. \A va \in Va : Pte(e, va) \in All
    BY DEF All, Place, Pte
  <2>2. \A va \in Va : Pte(e, va) \notin Tables
    BY DEF PteOf, Tables
  <2>3. /\ \A d \in Dir : Pde(e, d) \in All
        /\ DirOf(e) \in All /\ CopyOf(e) \in All
    BY DEF All, Place, Pde, DirOf, CopyOf
  <2>4. \A g \in Env : \A va \in Va :
          /\ Pte(g, va) # DirOf(e) /\ Pte(g, va) # CopyOf(e)
          /\ \A d \in Dir : Pte(g, va) # Pde(e, d)
    BY DEF Pte, Pde, DirOf, CopyOf
  <2> QED BY <2>1, <2>2, <2>3, <2>4 DEF Tables, PteOf
<1> QED BY <1>4, <1>5 DEF Tables, Va

(* Two places are the same only if they are of one kind, environment and index. *)
LEMMA PlaceNames ==
  ASSUME NEW e \in Env, NEW g \in Env
  PROVE  /\ \A va, w \in Va : Pte(e, va) = Pte(g, w) <=> e = g /\ va = w
         /\ \A d, f \in Dir : Pde(e, d) = Pde(g, f) <=> e = g /\ d = f
         /\ DirOf(e) = DirOf(g) <=> e = g
         /\ CopyOf(e) = CopyOf(g) <=> e = g
         /\ \A va \in Va, d \in Dir : Pte(e, va) # Pde(g, d)
         /\ \A va \in Va : Pte(e, va) # DirOf(g) /\ Pte(e, va) # CopyOf(g)
         /\ \A d \in Dir : Pde(e, d) # DirOf(g) /\ Pde(e, d) # CopyOf(g)
         /\ DirOf(e) # CopyOf(g)
BY DEF Pte, Pde, DirOf, CopyOf

LEMMA PlaceForms ==
  ASSUME NEW r \in All
  PROVE  \E e \in Env : \/ \E va \in Va : r = Pte(e, va)
                        \/ \E d \in Dir : r = Pde(e, d)
                        \/ r = DirOf(e) \/ r = CopyOf(e)
BY DEF All, Place, Pte, Pde, DirOf, CopyOf

(* What the places hold. *)
HoldsOK ==
  /\ Holds \in [All -> Page \cup {NULL}]
  /\ \A e \in live :
       /\ \A va \in Va : Holds[Pte(e, va)] = pte[e][va]
       /\ \A d \in Dir : Holds[Pde(e, d)] = pde[e][d]
       /\ Holds[DirOf(e)] = env_pgdir[e]
       /\ Holds[CopyOf(e)] = env_pgdir_copy[e]
  /\ \A e \in Env \ live :
       /\ \A va \in Va : Holds[Pte(e, va)] = NULL
       /\ \A d \in Dir : Holds[Pde(e, d)] = NULL
       /\ Holds[DirOf(e)] = NULL
       /\ Holds[CopyOf(e)] = NULL
  /\ \A e \in Env : \A va \in Va : page_lookup(e, va) = pte[e][va]

LEMMA HoldsFacts == TableFirst /\ PmapTypeOK => HoldsOK
<1> SUFFICES ASSUME TableFirst, PmapTypeOK PROVE HoldsOK
  OBVIOUS
<1>1. \A e \in Env : \A va \in Va : page_lookup(e, va) = pte[e][va]
  BY DEF TableFirst, page_lookup
<1>2. \A e \in Env :
        /\ \A va \in Va : Pte(e, va) \in All
        /\ \A d \in Dir : Pde(e, d) \in All
        /\ DirOf(e) \in All /\ CopyOf(e) \in All
  BY PlaceFacts
<1>3. /\ \A e, va : Pte(e, va)[1] = e /\ Held(e, Pte(e, va)[2]) = page_lookup(e, va)
      /\ \A e, d : Pde(e, d)[1] = e /\ Held(e, Pde(e, d)[2]) = pde[e][d]
      /\ \A e : DirOf(e)[1] = e /\ Held(e, DirOf(e)[2]) = env_pgdir[e]
      /\ \A e : CopyOf(e)[1] = e /\ Held(e, CopyOf(e)[2]) = env_pgdir_copy[e]
  BY DEF Held, Pte, Pde, DirOf, CopyOf
<1>4. live \subseteq Env
  BY DEF PmapTypeOK
<1>5. \A e \in live :
        /\ \A va \in Va : Holds[Pte(e, va)] = pte[e][va]
        /\ \A d \in Dir : Holds[Pde(e, d)] = pde[e][d]
        /\ Holds[DirOf(e)] = env_pgdir[e]
        /\ Holds[CopyOf(e)] = env_pgdir_copy[e]
  BY <1>1, <1>2, <1>3, <1>4 DEF Holds
<1>6. \A e \in Env \ live :
        /\ \A va \in Va : Holds[Pte(e, va)] = NULL
        /\ \A d \in Dir : Holds[Pde(e, d)] = NULL
        /\ Holds[DirOf(e)] = NULL
        /\ Holds[CopyOf(e)] = NULL
  BY <1>2, <1>3 DEF Holds
<1>7. ASSUME NEW r \in All PROVE Holds[r] \in Page \cup {NULL}
  <2>1. PICK e \in Env : \/ \E va \in Va : r = Pte(e, va)
                         \/ \E d \in Dir : r = Pde(e, d)
                         \/ r = DirOf(e) \/ r = CopyOf(e)
    BY PlaceForms
  <2>2. CASE e \in live
    BY <1>5, <2>1, <2>2, PlaceFacts DEF PmapTypeOK
  <2>3. CASE e \notin live
    BY <1>6, <2>1, <2>3
  <2> QED BY <2>2, <2>3
<1>8. Holds \in [All -> Page \cup {NULL}]
  BY <1>7 DEF Holds
<1> QED BY <1>1, <1>5, <1>6, <1>8 DEF HoldsOK

LEMMA HoldsNext == TableFirst' /\ PmapTypeOK' => HoldsOK'
BY HoldsFacts, PTL

(* The references to a page are the places that hold it. *)
LEMMA RefsWhere ==
  ASSUME PmapTypeOK, NEW p \in Page
  PROVE  References(p) = Where(Holds, p)
<1>1. live \subseteq Env /\ p # NULL
  BY PmapAssumption DEF PmapTypeOK
<1>2. \A r : r \in References(p) <=> r \in All /\ r[1] \in live /\ Held(r[1], r[2]) = p
  BY <1>1 DEF References, All
<1>3. \A r : r \in Where(Holds, p) <=> r \in All /\ r[1] \in live /\ Held(r[1], r[2]) = p
  BY <1>1 DEF Where, Holds
<1> QED BY <1>2, <1>3

-----------------------------------------------------------------------------
(* Place r comes to hold q, and nothing else changes. *)
Maps == [All -> Page \cup {NULL}]
Moved(H, G, r, q) == G[r] = q /\ \A s \in All : s # r => G[s] = H[s]

(* Counting: when one place comes to hold something else. *)
LEMMA Recount ==
  ASSUME NEW H \in Maps, NEW G \in Maps, NEW r \in All, NEW q \in Page \cup {NULL},
         Moved(H, G, r, q), H[r] # q, NEW p \in Page
  PROVE  /\ Cardinality(Where(H, p)) \in Nat
         /\ p = q => Cardinality(Where(G, p)) = Cardinality(Where(H, p)) + 1
         /\ p = H[r] => Cardinality(Where(G, p)) = Cardinality(Where(H, p)) - 1
         /\ p # q /\ p # H[r] => Cardinality(Where(G, p)) = Cardinality(Where(H, p))
<1>1. Where(H, p) \in SUBSET All
  BY DEF Where
<1>2. IsFiniteSet(Where(H, p)) /\ Cardinality(Where(H, p)) \in Nat
  BY <1>1, PlaceFacts, FS_Subset, FS_CardinalityType
<1>3. CASE p = q
  <2>1. Where(G, p) = Where(H, p) \cup {r} /\ r \notin Where(H, p)
    BY <1>3 DEF Where, Moved
  <2> QED BY <1>2, <1>3, <2>1, FS_AddElement
<1>4. CASE p # q /\ p = H[r]
  <2>1. Where(G, p) = Where(H, p) \ {r} /\ r \in Where(H, p)
    BY <1>4 DEF Where, Moved
  <2>2. Cardinality(Where(H, p) \ {r}) = Cardinality(Where(H, p)) - 1
    BY <1>2, <2>1, FS_RemoveElement
  <2> QED BY <1>2, <1>4, <2>1, <2>2
<1>5. CASE p # q /\ p # H[r]
  <2>1. Where(G, p) = Where(H, p)
    BY <1>5 DEF Where, Moved
  <2> QED BY <1>2, <1>5, <2>1
<1> QED BY <1>2, <1>3, <1>4, <1>5

(* Tables stay sole when a place takes up something that nobody holds, or a *)
(* mapping something that no table holds.                                   *)
LEMMA SoleUpdate ==
  ASSUME NEW H \in Maps, NEW G \in Maps, SoleIn(H), NEW r \in All, NEW q, Moved(H, G, r, q),
         \/ q = NULL
         \/ \A s \in All : H[s] # q
         \/ r \notin Tables /\ \A s \in Tables : H[s] # q
  PROVE  SoleIn(G)
BY PlaceFacts DEF SoleIn, Moved

(* What Counted says of one page. *)
LEMMA CountOf ==
  ASSUME PmapInv, NEW p \in Page
  PROVE  /\ IsFiniteSet(Where(Holds, p)) /\ Cardinality(Where(Holds, p)) \in Nat
         /\ Forgotten(p) \in Nat /\ pp_ref[p] \in Nat
         /\ pp_ref[p] = Cardinality(Where(Holds, p)) + Forgotten(p)
<1>1. Where(Holds, p) \in SUBSET All
  BY DEF Where
<1>2. IsFiniteSet(Where(Holds, p)) /\ Cardinality(Where(Holds, p)) \in Nat
  BY <1>1, PlaceFacts, FS_Subset, FS_CardinalityType
<1> QED BY <1>2 DEF PmapInv, PmapTypeOK, Counted, Forgotten

(* Counted after a step that loses no page. *)
LEMMA CountKept ==
  ASSUME UNCHANGED lost,
         \A p \in Page : pp_ref'[p] = Cardinality(Where(Holds', p)) + Forgotten(p)
  PROVE  Counted'
BY DEF Counted, Where, Forgotten

(* Free pages are held nowhere. *)
LEMMA FreeUnheld ==
  ASSUME PmapInv, NEW p \in page_free_list
  PROVE  p \in Page /\ p # NULL /\ Where(Holds, p) = {} /\ \A r \in All : Holds[r] # p
<1>1. p \in Page /\ pp_ref[p] = 0
  BY DEF PmapInv, FreeIdle, PmapTypeOK
<1>2. IsFiniteSet(Where(Holds, p)) /\ Cardinality(Where(Holds, p)) = 0
  BY <1>1, CountOf
<1>3. Where(Holds, p) = {}
  BY <1>1, <1>2, FS_EmptySet
<1> QED BY <1>1, <1>3, PmapAssumption DEF Where

(* Steps that leave every reference where it is. *)
LEMMA SameRefs ==
  ASSUME PmapInv, UNCHANGED <<pp_ref, lost>>, page_free_list' \subseteq page_free_list, Holds' = Holds
  PROVE  Counted' /\ FreeIdle' /\ Sole'
BY DEF PmapInv, Counted, FreeIdle, Sole, SoleIn, Where, Forgotten

LEMMA SameHolds ==
  ASSUME HoldsOK, HoldsOK', UNCHANGED <<live, pte, pde, env_pgdir, env_pgdir_copy>>, live \subseteq Env
  PROVE  Holds' = Holds
<1>1. ASSUME NEW r \in All PROVE Holds'[r] = Holds[r]
  <2>1. PICK e \in Env : \/ \E va \in Va : r = Pte(e, va)
                         \/ \E d \in Dir : r = Pde(e, d)
                         \/ r = DirOf(e) \/ r = CopyOf(e)
    BY PlaceForms
  <2>2. CASE e \in live
    BY <2>1, <2>2 DEF HoldsOK
  <2>3. CASE e \notin live
    BY <2>1, <2>3 DEF HoldsOK
  <2> QED BY <2>2, <2>3
<1> QED BY <1>1 DEF Holds

(* Steps that leave what the TLB holds true. *)
LEMMA TlbKept ==
  ASSUME PmapInv, tlb' \subseteq tlb,
         \A x \in tlb' : \A e \in live : env_asid[e] = x.asid =>
           /\ e \in live' /\ env_asid'[e] = env_asid[e]
           /\ x.va \in Vpt => pde'[e][x.va[2]] = pde[e][x.va[2]]
           /\ x.va \in Va => page_lookup(e, x.va)' = page_lookup(e, x.va)
                             /\ writable'[e][x.va] = writable[e][x.va]
  PROVE  TlbCoherent'
<1> SUFFICES ASSUME NEW x \in tlb'
             PROVE  \E e \in live' :
                      /\ env_asid'[e] = x.asid
                      /\ IF x.va \in Vpt
                         THEN pde'[e][x.va[2]] = x.page
                         ELSE page_lookup(e, x.va)' = x.page /\ writable'[e][x.va] = x.w
  BY DEF TlbCoherent
<1>1. x \in tlb /\ x.va \in Va \cup Vpt
  BY DEF PmapInv, PmapTypeOK, TlbEntry
<1>2. PICK e \in live :
        /\ env_asid[e] = x.asid
        /\ IF x.va \in Vpt
           THEN pde[e][x.va[2]] = x.page
           ELSE page_lookup(e, x.va) = x.page /\ writable[e][x.va] = x.w
  BY <1>1 DEF PmapInv, TlbCoherent
<1>3. /\ e \in live' /\ env_asid'[e] = env_asid[e]
      /\ x.va \in Vpt => pde'[e][x.va[2]] = pde[e][x.va[2]]
      /\ x.va \in Va => page_lookup(e, x.va)' = page_lookup(e, x.va)
                        /\ writable'[e][x.va] = writable[e][x.va]
  BY <1>2
<1> QED BY <1>1, <1>2, <1>3

(* Addresses of the vpt array are no user addresses. *)
LEMMA VptApart == Va \cap Vpt = {} /\ \A v \in Vpt : v[2] \in Dir
BY PmapAssumption DEF Va, Vpt

-----------------------------------------------------------------------------
(* A new environment: a directory from the free list, and nothing in it. *)
LEMMA AllocStep ==
  ASSUME PmapInv, NEW e \in Env, env_alloc(e)
  PROVE  PmapInv'
<1>1. PICK p \in page_free_list :
       /\ page_free_list' = page_free_list \ {p}
       /\ pp_ref' = [pp_ref EXCEPT ![p] = @ + 1]
       /\ env_pgdir' = [env_pgdir EXCEPT ![e] = p]
  BY DEF env_alloc
<1>2. PICK a \in FreeAsids : env_asid' = [env_asid EXCEPT ![e] = a]
  BY DEF env_alloc
<1>3. e \notin live /\ live' = live \cup {e} /\ UNCHANGED <<tlb, lost, panicked>>
  BY DEF env_alloc
<1>4. /\ pde' = [pde EXCEPT ![e] = NoTables]
      /\ pte' = [pte EXCEPT ![e] = NoPages]
      /\ writable' = [writable EXCEPT ![e] = [va \in Va |-> FALSE]]
      /\ env_pgdir_copy' = [env_pgdir_copy EXCEPT ![e] = NULL]
      /\ copied' = [copied EXCEPT ![e] = NoTables]
      /\ uvpt' = [uvpt EXCEPT ![e] = FALSE]
  BY DEF env_alloc, EmptySpace
<1>5. p \in Page /\ p # NULL /\ \A r \in All : Holds[r] # p
  BY FreeUnheld
<1>6. a \in 0 .. NASID - 1 /\ a \in Nat /\ \A g \in live : env_asid[g] # a
  BY PmapAssumption DEF FreeAsids
<1>7. PmapTypeOK'
  <2>1. NoTables \in [Dir -> Page \cup {NULL}] /\ NoPages \in [Va -> Page \cup {NULL}]
    BY DEF NoTables, NoPages
  <2> QED BY <1>1, <1>2, <1>3, <1>4, <1>5, <1>6, <2>1 DEF PmapInv, PmapTypeOK
<1>8. /\ \A va \in Va : pte'[e][va] = NULL
      /\ \A d \in Dir : pde'[e][d] = NULL
      /\ env_pgdir'[e] = p /\ env_pgdir_copy'[e] = NULL /\ uvpt'[e] = FALSE /\ env_asid'[e] = a
      /\ \A g \in Env : g # e =>
           /\ pte'[g] = pte[g] /\ pde'[g] = pde[g] /\ env_pgdir'[g] = env_pgdir[g]
           /\ env_pgdir_copy'[g] = env_pgdir_copy[g] /\ uvpt'[g] = uvpt[g]
           /\ env_asid'[g] = env_asid[g] /\ writable'[g] = writable[g] /\ copied'[g] = copied[g]
  BY <1>1, <1>2, <1>4 DEF PmapInv, PmapTypeOK, NoPages, NoTables
<1>9. TableFirst'
  BY <1>8 DEF PmapInv, TableFirst
<1>10. HoldsOK /\ HoldsOK'
  BY <1>7, <1>9, HoldsFacts, HoldsNext DEF PmapInv
<1>11. /\ Moved(Holds, Holds', DirOf(e), p) /\ Holds[DirOf(e)] = NULL /\ DirOf(e) \in All
       /\ Holds \in Maps /\ Holds' \in Maps
  <2>1. ASSUME NEW r \in All PROVE Holds'[r] = IF r = DirOf(e) THEN p ELSE Holds[r]
    <3>1. PICK g \in Env : \/ \E va \in Va : r = Pte(g, va)
                           \/ \E d \in Dir : r = Pde(g, d)
                           \/ r = DirOf(g) \/ r = CopyOf(g)
      BY PlaceForms
    <3>2. CASE g = e
      <4>1. g \in live' /\ g \in Env \ live
        BY <1>3, <3>2
      <4> QED BY <1>8, <1>10, <3>1, <3>2, <4>1, PlaceNames DEF HoldsOK
    <3>3. CASE g # e /\ g \in live
      <4>1. g \in live'
        BY <1>3, <3>3
      <4> QED BY <1>8, <1>10, <3>1, <3>3, <4>1, PlaceNames DEF HoldsOK
    <3>4. CASE g # e /\ g \notin live
      <4>1. g \notin live'
        BY <1>3, <3>4
      <4> QED BY <1>10, <3>1, <3>4, <4>1, PlaceNames DEF HoldsOK
    <3> QED BY <3>2, <3>3, <3>4
  <2>2. Holds[DirOf(e)] = NULL /\ DirOf(e) \in All /\ Holds \in Maps /\ Holds' \in Maps
    BY <1>3, <1>10, PlaceFacts DEF HoldsOK, Maps
  <2> QED BY <2>1, <2>2 DEF Moved
<1>12. Counted'
  <2>1. ASSUME NEW q \in Page PROVE pp_ref'[q] = Cardinality(Where(Holds', q)) + Forgotten(q)
    <3>1. /\ Cardinality(Where(Holds, q)) \in Nat
          /\ Cardinality(Where(Holds', q)) =
               IF q = p THEN Cardinality(Where(Holds, q)) + 1 ELSE Cardinality(Where(Holds, q))
      <4>1. Holds[DirOf(e)] # p /\ Holds[DirOf(e)] # q
        BY <1>5, <1>11, PmapAssumption
      <4> QED BY <1>5, <1>11, <4>1, Recount
    <3>2. pp_ref'[q] = IF q = p THEN pp_ref[q] + 1 ELSE pp_ref[q]
      BY <1>1 DEF PmapInv, PmapTypeOK
    <3> QED BY <3>1, <3>2, CountOf
  <2> QED BY <1>3, <2>1, CountKept
<1>13. FreeIdle'
  BY <1>1, <1>5 DEF PmapInv, FreeIdle, PmapTypeOK
<1>14. Sole'
  <2>1. SoleIn(Holds')
    BY <1>5, <1>11, SoleUpdate DEF PmapInv, Sole
  <2> QED BY <2>1 DEF Sole, SoleIn
<1>15. AsidOK'
  BY <1>3, <1>6, <1>8 DEF PmapInv, AsidOK, PmapTypeOK
<1>16. TlbCoherent'
  <2>1. \A x \in tlb' : \A g \in live : env_asid[g] = x.asid =>
           /\ g \in live' /\ env_asid'[g] = env_asid[g]
           /\ x.va \in Vpt => pde'[g][x.va[2]] = pde[g][x.va[2]]
           /\ x.va \in Va => page_lookup(g, x.va)' = page_lookup(g, x.va)
                             /\ writable'[g][x.va] = writable[g][x.va]
    <3>1. \A g \in live : g # e /\ g \in Env /\ g \in live'
      BY <1>3 DEF PmapInv, PmapTypeOK
    <3> QED BY <1>8, <3>1 DEF page_lookup
  <2> QED BY <1>3, <2>1, TlbKept
<1>17. UvptFresh'
  BY <1>3, <1>8 DEF PmapInv, UvptFresh, PmapTypeOK
<1> QED BY <1>7, <1>9, <1>12, <1>13, <1>14, <1>15, <1>16, <1>17 DEF PmapInv

(* What tlb_flush() leaves. *)
LEMMA FlushFacts ==
  ASSUME NEW a, NEW v, tlb_flush(a, v)
  PROVE  tlb' \subseteq tlb /\ \A x \in tlb' : x.asid = a => v # ALL /\ x.va # v
BY DEF tlb_flush, Flushed

LEMMA DisjointUnion ==
  ASSUME NEW S, NEW T, IsFiniteSet(S), IsFiniteSet(T), S \cap T = {}
  PROVE  IsFiniteSet(S \cup T) /\ Cardinality(S \cup T) = Cardinality(S) + Cardinality(T)
<1>1. Cardinality(S) \in Nat /\ Cardinality(T) \in Nat /\ Cardinality(S \cap T) = 0
  BY FS_CardinalityType, FS_EmptySet
<1>2. /\ IsFiniteSet(S \cup T)
      /\ Cardinality(S \cup T) = Cardinality(S) + Cardinality(T) - Cardinality(S \cap T)
  BY FS_Union
<1> QED BY <1>1, <1>2

(* env_free() counts each reference of the environment once. *)
LEMMA UsesFacts ==
  ASSUME PmapInv, NEW e \in live, NEW p \in Page
  PROVE  Uses(e, p) = Cardinality(Where(Holds, p) \cap PlacesOf(e))
<1> DEFINE V == {va \in Va : page_lookup(e, va) = p}
           D == {d \in Dir : pde[e][d] = p}
           PV == {Pte(e, va) : va \in V}
           PD == {Pde(e, d) : d \in D}
           C == IF env_pgdir_copy[e] = p THEN {CopyOf(e)} ELSE {}
           R == IF env_pgdir[e] = p THEN {DirOf(e)} ELSE {}
<1>0. HoldsOK /\ e \in Env
  BY HoldsFacts DEF PmapInv, PmapTypeOK
<1>1. IsFiniteSet(V) /\ IsFiniteSet(D)
  <2>1. IsFiniteSet(Va) /\ V \in SUBSET Va /\ D \in SUBSET Dir
    BY PmapAssumption, FS_Product DEF Va
  <2> QED BY <2>1, PmapAssumption, FS_Subset
<1>2. IsFiniteSet(PV) /\ Cardinality(PV) = Cardinality(V)
  <2>1. [va \in V |-> Pte(e, va)] \in Bijection(V, PV)
    BY <1>0, PlaceNames DEF Bijection, Injection, Surjection, IsInjective
  <2> QED BY <1>1, <2>1, FS_Bijection DEF ExistsBijection
<1>3. IsFiniteSet(PD) /\ Cardinality(PD) = Cardinality(D)
  <2>1. [d \in D |-> Pde(e, d)] \in Bijection(D, PD)
    BY <1>0, PlaceNames DEF Bijection, Injection, Surjection, IsInjective
  <2> QED BY <1>1, <2>1, FS_Bijection DEF ExistsBijection
<1>4. /\ IsFiniteSet(C) /\ Cardinality(C) = (IF env_pgdir_copy[e] = p THEN 1 ELSE 0)
      /\ IsFiniteSet(R) /\ Cardinality(R) = (IF env_pgdir[e] = p THEN 1 ELSE 0)
  BY FS_Singleton, FS_EmptySet
<1>5. Where(Holds, p) \cap PlacesOf(e) = ((PV \cup PD) \cup C) \cup R
  <2>1. ASSUME NEW r PROVE r \in Where(Holds, p) \cap PlacesOf(e) => r \in PV \cup PD \cup C \cup R
    <3> SUFFICES ASSUME r \in Where(Holds, p) \cap PlacesOf(e) PROVE r \in PV \cup PD \cup C \cup R
      OBVIOUS
    <3>1. r \in All /\ r[1] = e /\ Holds[r] = p
      BY DEF Where, PlacesOf
    <3>2. \/ \E va \in Va : r = Pte(e, va)
          \/ \E d \in Dir : r = Pde(e, d)
          \/ r = DirOf(e) \/ r = CopyOf(e)
      <4>1. PICK g \in Env : \/ \E va \in Va : r = Pte(g, va)
                             \/ \E d \in Dir : r = Pde(g, d)
                             \/ r = DirOf(g) \/ r = CopyOf(g)
        BY <3>1, PlaceForms
      <4>2. g = e
        BY <3>1, <4>1 DEF Pte, Pde, DirOf, CopyOf
      <4> QED BY <4>1, <4>2
    <3> QED BY <1>0, <3>1, <3>2 DEF HoldsOK
  <2>2. ASSUME NEW r \in PV \cup PD \cup C \cup R PROVE r \in Where(Holds, p) \cap PlacesOf(e)
    <3>1. r \in All /\ Holds[r] = p
      BY <1>0, PlaceFacts DEF HoldsOK
    <3>2. r[1] = e
      BY DEF Pte, Pde, DirOf, CopyOf
    <3> QED BY <3>1, <3>2 DEF Where, PlacesOf
  <2> QED BY <2>1, <2>2
<1>6. PV \cap PD = {} /\ (PV \cup PD) \cap C = {} /\ ((PV \cup PD) \cup C) \cap R = {}
  BY <1>0, PlaceNames
<1> HIDE DEF PV, PD, C, R
<1>7. IsFiniteSet(PV \cup PD) /\ Cardinality(PV \cup PD) = Cardinality(PV) + Cardinality(PD)
  BY <1>2, <1>3, <1>6, DisjointUnion
<1>8. /\ IsFiniteSet((PV \cup PD) \cup C)
      /\ Cardinality((PV \cup PD) \cup C) = Cardinality(PV \cup PD) + Cardinality(C)
  BY <1>4, <1>6, <1>7, DisjointUnion
<1>9. Cardinality(((PV \cup PD) \cup C) \cup R) = Cardinality((PV \cup PD) \cup C) + Cardinality(R)
  BY <1>4, <1>6, <1>8, DisjointUnion
<1>10. Cardinality(PV) \in Nat /\ Cardinality(PD) \in Nat /\ Cardinality(C) \in Nat /\ Cardinality(R) \in Nat
  BY <1>2, <1>3, <1>4, FS_CardinalityType
<1>11. Uses(e, p) = Cardinality(V) + Cardinality(D)
                     + (IF env_pgdir_copy[e] = p THEN 1 ELSE 0) + (IF env_pgdir[e] = p THEN 1 ELSE 0)
  BY DEF Uses
<1> HIDE DEF V, D
<1>12. Uses(e, p) = Cardinality(PV) + Cardinality(PD) + Cardinality(C) + Cardinality(R)
  BY <1>2, <1>3, <1>4, <1>11
<1> QED BY <1>5, <1>7, <1>8, <1>9, <1>10, <1>12

(* env_free() drops every reference of the environment. *)
LEMMA FreeStep ==
  ASSUME PmapInv, NEW e \in Env, env_free(e)
  PROVE  PmapInv'
<1>1. /\ e \in live /\ live' = live \ {e} /\ UNCHANGED <<env_pgdir, env_asid, lost, panicked>>
      /\ pp_ref' = [p \in Page |-> pp_ref[p] - Uses(e, p)]
      /\ page_free_list' = page_free_list
           \cup {p \in Page : Uses(e, p) > 0 /\ pp_ref[p] = Uses(e, p)}
      /\ tlb_flush(env_asid[e], ALL)
  BY DEF env_free
<1>2. /\ pde' = [pde EXCEPT ![e] = NoTables]
      /\ pte' = [pte EXCEPT ![e] = NoPages]
      /\ writable' = [writable EXCEPT ![e] = [va \in Va |-> FALSE]]
      /\ env_pgdir_copy' = [env_pgdir_copy EXCEPT ![e] = NULL]
      /\ copied' = [copied EXCEPT ![e] = NoTables]
      /\ uvpt' = [uvpt EXCEPT ![e] = FALSE]
  BY DEF env_free, EmptySpace
<1>3. \A p \in Page :
        /\ Cardinality(Where(Holds, p)) \in Nat
        /\ Uses(e, p) \in Nat
        /\ pp_ref[p] - Uses(e, p) = Cardinality(Where(Holds, p) \ PlacesOf(e)) + Forgotten(p)
        /\ pp_ref[p] - Uses(e, p) \in Nat
  <2> SUFFICES ASSUME NEW p \in Page
               PROVE  /\ Cardinality(Where(Holds, p)) \in Nat
                      /\ Uses(e, p) \in Nat
                      /\ pp_ref[p] - Uses(e, p) = Cardinality(Where(Holds, p) \ PlacesOf(e)) + Forgotten(p)
                      /\ pp_ref[p] - Uses(e, p) \in Nat
    OBVIOUS
  <2>1. IsFiniteSet(Where(Holds, p))
    <3>1. Where(Holds, p) \in SUBSET All
      BY DEF Where
    <3> QED BY <3>1, PlaceFacts, FS_Subset
  <2>2. Uses(e, p) = Cardinality(Where(Holds, p) \cap PlacesOf(e))
    BY <1>1, UsesFacts
  <2>3. Uses(e, p) \in Nat
    BY <2>1, <2>2, FS_Intersection, FS_CardinalityType
  <2>4. /\ pp_ref[p] = Cardinality(Where(Holds, p)) + Forgotten(p)
        /\ Forgotten(p) \in Nat /\ Cardinality(Where(Holds, p)) \in Nat
    BY CountOf
  <2>5. /\ IsFiniteSet(Where(Holds, p) \ PlacesOf(e))
        /\ Cardinality(Where(Holds, p) \ PlacesOf(e)) = Cardinality(Where(Holds, p)) - Uses(e, p)
    BY <2>1, <2>2, FS_Difference
  <2>6. Cardinality(Where(Holds, p) \ PlacesOf(e)) \in Nat
    BY <2>5, FS_CardinalityType
  <2> QED BY <2>3, <2>4, <2>5, <2>6
<1>4. PmapTypeOK'
  <2>1. NoTables \in [Dir -> Page \cup {NULL}] /\ NoPages \in [Va -> Page \cup {NULL}]
    BY DEF NoTables, NoPages
  <2>2. pp_ref' \in [Page -> Nat] /\ tlb' \subseteq TlbEntry
    BY <1>1, <1>3, FlushFacts DEF PmapInv, PmapTypeOK
  <2> QED BY <1>1, <1>2, <2>1, <2>2 DEF PmapInv, PmapTypeOK
<1>5. /\ \A va \in Va : pte'[e][va] = NULL
      /\ \A g \in Env : g # e =>
           /\ pte'[g] = pte[g] /\ pde'[g] = pde[g] /\ env_pgdir'[g] = env_pgdir[g]
           /\ env_pgdir_copy'[g] = env_pgdir_copy[g] /\ uvpt'[g] = uvpt[g]
           /\ writable'[g] = writable[g] /\ copied'[g] = copied[g]
  BY <1>1, <1>2 DEF PmapInv, PmapTypeOK, NoPages, NoTables
<1>6. TableFirst'
  BY <1>5 DEF PmapInv, TableFirst
<1>7. HoldsOK /\ HoldsOK'
  BY <1>4, <1>6, HoldsFacts, HoldsNext DEF PmapInv
<1>8. \A r \in All : Holds'[r] = IF r[1] = e THEN NULL ELSE Holds[r]
  <2> SUFFICES ASSUME NEW r \in All PROVE Holds'[r] = IF r[1] = e THEN NULL ELSE Holds[r]
    OBVIOUS
  <2>1. PICK g \in Env : \/ \E va \in Va : r = Pte(g, va)
                         \/ \E d \in Dir : r = Pde(g, d)
                         \/ r = DirOf(g) \/ r = CopyOf(g)
    BY PlaceForms
  <2>2. r[1] = g
    BY <2>1 DEF Pte, Pde, DirOf, CopyOf
  <2>3. CASE g = e
    <3>1. g \in Env \ live'
      BY <1>1, <2>3
    <3> QED BY <1>7, <2>1, <2>2, <2>3, <3>1 DEF HoldsOK
  <2>4. CASE g # e /\ g \in live
    <3>1. g \in live'
      BY <1>1, <2>4
    <3> QED BY <1>5, <1>7, <2>1, <2>2, <2>4, <3>1 DEF HoldsOK
  <2>5. CASE g # e /\ g \notin live
    <3>1. g \in Env \ live' /\ g \in Env \ live
      BY <1>1, <2>5
    <3> QED BY <1>7, <2>1, <2>2, <2>5, <3>1 DEF HoldsOK
  <2> QED BY <2>3, <2>4, <2>5
<1>9. \A p \in Page : Where(Holds', p) = Where(Holds, p) \ PlacesOf(e)
  BY <1>8, PmapAssumption DEF Where, PlacesOf
<1>10. Counted'
  <2>1. \A p \in Page : pp_ref'[p] = Cardinality(Where(Holds', p)) + Forgotten(p)
    BY <1>1, <1>3, <1>9
  <2> QED BY <1>1, <2>1, CountKept
<1>11. FreeIdle'
  <2> SUFFICES ASSUME NEW p \in page_free_list' PROVE pp_ref'[p] = 0
    BY DEF FreeIdle
  <2>1. p \in Page /\ pp_ref'[p] = pp_ref[p] - Uses(e, p)
    BY <1>1, <1>4 DEF PmapTypeOK
  <2>2. CASE p \in page_free_list
    <3>1. pp_ref[p] = 0
      BY <2>2 DEF PmapInv, FreeIdle
    <3>2. Uses(e, p) \in Nat /\ pp_ref[p] - Uses(e, p) \in Nat
      BY <1>3, <2>1
    <3> QED BY <2>1, <3>1, <3>2
  <2>3. CASE p \notin page_free_list
    <3>1. pp_ref[p] = Uses(e, p) /\ Uses(e, p) \in Nat
      BY <1>1, <1>3, <2>1, <2>3
    <3> QED BY <2>1, <3>1
  <2> QED BY <2>2, <2>3
<1>12. Sole'
  <2>1. SoleIn(Holds')
    BY <1>8, PlaceFacts DEF PmapInv, Sole, SoleIn
  <2> QED BY <2>1 DEF Sole, SoleIn
<1>13. AsidOK'
  BY <1>1 DEF PmapInv, AsidOK
<1>14. TlbCoherent'
  <2>1. tlb' \subseteq tlb /\ \A x \in tlb' : x.asid # env_asid[e]
    BY <1>1, FlushFacts
  <2>2. \A x \in tlb' : \A g \in live : env_asid[g] = x.asid =>
           /\ g \in live' /\ env_asid'[g] = env_asid[g]
           /\ x.va \in Vpt => pde'[g][x.va[2]] = pde[g][x.va[2]]
           /\ x.va \in Va => page_lookup(g, x.va)' = page_lookup(g, x.va)
                             /\ writable'[g][x.va] = writable[g][x.va]
    BY <1>1, <1>5, <2>1 DEF page_lookup, PmapInv, PmapTypeOK
  <2> QED BY <2>1, <2>2, TlbKept
<1>15. UvptFresh'
  BY <1>1, <1>5 DEF PmapInv, UvptFresh, PmapTypeOK
<1> QED BY <1>4, <1>6, <1>10, <1>11, <1>12, <1>13, <1>14, <1>15 DEF PmapInv

(* page_insert() of the page that is already there changes its permission only. *)
LEMMA RemapStep ==
  ASSUME PmapInv, NEW e \in live, NEW pp \in Page, NEW va \in Va, NEW w \in BOOLEAN,
         NEW avail \in SUBSET page_free_list,
         Remap(e, pp, va, w, avail), UNCHANGED <<envVars, lost, panicked>>
  PROVE  PmapInv'
<1>1. /\ writable' = [writable EXCEPT ![e][va] = w]
      /\ page_free_list' = avail
      /\ UNCHANGED <<pp_ref, env_pgdir, pde, pte, env_pgdir_copy, copied, uvpt>>
      /\ UNCHANGED <<live, env_asid, lost, panicked>>
      /\ tlb_flush(env_asid[e], va)
  BY DEF Remap, vptVars, envVars
<1>2. tlb' \subseteq tlb /\ \A x \in tlb' : x.asid = env_asid[e] => x.va # va
  BY <1>1, FlushFacts
<1>3. PmapTypeOK' /\ TableFirst'
  BY <1>1, <1>2 DEF PmapInv, PmapTypeOK, TableFirst
<1>4. HoldsOK /\ HoldsOK'
  BY <1>3, HoldsFacts, HoldsNext DEF PmapInv
<1>5. Holds' = Holds
  BY <1>1, <1>4, SameHolds DEF PmapInv, PmapTypeOK
<1>6. Counted' /\ FreeIdle' /\ Sole'
  BY <1>1, <1>5, SameRefs
<1>7. AsidOK' /\ UvptFresh'
  BY <1>1 DEF PmapInv, AsidOK, UvptFresh
<1>8. TlbCoherent'
  <2>1. ASSUME NEW x \in tlb', NEW g \in live, env_asid[g] = x.asid, x.va \in Va
        PROVE  writable'[g][x.va] = writable[g][x.va]
    <3>1. ~(g = e /\ x.va = va) /\ g \in Env
      BY <1>2, <2>1 DEF PmapInv, PmapTypeOK
    <3> QED BY <1>1, <2>1, <3>1 DEF PmapInv, PmapTypeOK
  <2> QED BY <1>1, <1>2, <2>1, TlbKept DEF page_lookup
<1> QED BY <1>3, <1>6, <1>7, <1>8 DEF PmapInv

(* page_insert() of a page that no table is: it may take a table from the free list, *)
(* and it may release the page that was there.                                       *)
LEMMA InsertStep ==
  ASSUME PmapInv, NEW e \in live, NEW pp \in Page, NEW va \in Va, NEW w \in BOOLEAN,
         NEW avail \in SUBSET page_free_list, pp \notin avail,
         \A s \in Tables : Holds[s] # pp,
         page_insert(e, pp, va, w, avail), UNCHANGED <<envVars, lost, panicked>>
  PROVE  PmapInv'
<1>a. CASE Remap(e, pp, va, w, avail)
  BY <1>a, RemapStep
<1>b. CASE ~Remap(e, pp, va, w, avail)
  <2>a. HoldsOK /\ e \in Env /\ va[1] \in Dir
    BY HoldsFacts, PlaceFacts DEF PmapInv, PmapTypeOK
  <2>b. PICK d \in Dir : d = va[1]
    BY <2>a
  <2>c. PICK old \in Page \cup {NULL} : old = pte[e][va]
    BY <2>a DEF PmapInv, PmapTypeOK
  <2>d. page_lookup(e, va) = old
    BY <2>a, <2>c DEF HoldsOK
  <2>e. old # pp /\ HideCopy(e) /\ tlb_flush(env_asid[e], ALL)
        /\ UNCHANGED <<env_pgdir, env_pgdir_copy, copied, live, env_asid, lost, panicked>>
        /\ pte' = [pte EXCEPT ![e][va] = pp]
        /\ writable' = [writable EXCEPT ![e][va] = w]
    BY <1>b, <2>d DEF page_insert, envVars
  <2>f. PICK table \in IF pde[e][d] = NULL THEN avail ELSE {pde[e][d]} :
          /\ pp_ref' = [p \in Page |-> IF pde[e][d] = NULL /\ p = table THEN 1
                                       ELSE IF p = pp THEN pp_ref[p] + 1
                                       ELSE IF p = old THEN pp_ref[p] - 1
                                       ELSE pp_ref[p]]
          /\ page_free_list' = (avail \ (IF pde[e][d] = NULL THEN {table} ELSE {}))
                                 \cup Released(old)
          /\ pde' = [pde EXCEPT ![e][d] = table]
    BY <1>b, <2>b, <2>d DEF page_insert
  <2>g. table \in Page /\ table # NULL /\ (pde[e][d] # NULL => table = pde[e][d])
    BY <2>a, <2>f, FreeUnheld, PmapAssumption DEF PmapInv, PmapTypeOK
  <2>h. /\ \A g \in Env, v \in Va : pte'[g][v] = IF g = e /\ v = va THEN pp ELSE pte[g][v]
        /\ \A g \in Env, f \in Dir : pde'[g][f] = IF g = e /\ f = d THEN table ELSE pde[g][f]
        /\ \A g \in Env : g # e => /\ pte'[g] = pte[g] /\ pde'[g] = pde[g]
                                   /\ writable'[g] = writable[g] /\ uvpt'[g] = uvpt[g]
        /\ uvpt'[e] = FALSE
    BY <2>a, <2>e, <2>f DEF HideCopy, PmapInv, PmapTypeOK
  <2>i. tlb' \subseteq tlb /\ \A x \in tlb' : x.asid # env_asid[e]
    BY <2>e, FlushFacts
  <2>j. \A p \in Page :
          /\ Cardinality(Where(Holds, p)) \in Nat /\ Forgotten(p) \in Nat
          /\ pp_ref[p] = Cardinality(Where(Holds, p)) + Forgotten(p)
    BY CountOf
  <2>k. Holds[Pte(e, va)] = old /\ Pte(e, va) \in All /\ Holds[Pde(e, d)] = pde[e][d] /\ Pde(e, d) \in All
    BY <2>a, <2>c, PlaceFacts DEF HoldsOK
  <2>l. \A p \in page_free_list : Holds[Pte(e, va)] # p /\ p \in Page /\ pp_ref[p] = 0
    BY <2>k, FreeUnheld DEF PmapInv, FreeIdle
  <2>m. old # NULL => pp_ref[old] > 0
    <3> SUFFICES ASSUME old # NULL, pp_ref[old] = 0 PROVE FALSE
      BY <2>j
    <3>1. Where(Holds, old) \in SUBSET All /\ old \in Page
      BY DEF Where
    <3>2. IsFiniteSet(Where(Holds, old)) /\ Cardinality(Where(Holds, old)) = 0
      BY <2>j, <3>1, PlaceFacts, FS_Subset
    <3>3. Where(Holds, old) = {}
      BY <3>2, FS_EmptySet
    <3> QED BY <2>k, <3>3 DEF Where
  <2>1. PmapTypeOK'
    <3>1. pp_ref' \in [Page -> Nat]
      <4> SUFFICES ASSUME NEW p \in Page PROVE pp_ref'[p] \in Nat
        BY <2>f
      <4>1. pp_ref[p] \in Nat /\ (p = old => pp_ref[p] - 1 \in Nat)
        BY <2>j, <2>m, PmapAssumption
      <4> QED BY <2>f, <4>1
    <3>2. page_free_list' \subseteq Page
      BY <2>f DEF Released, PmapInv, PmapTypeOK
    <3>3. pde' \in [Env -> [Dir -> Page \cup {NULL}]]
      BY <2>f, <2>g DEF PmapInv, PmapTypeOK
    <3>4. uvpt' \in [Env -> BOOLEAN] /\ pte' \in [Env -> [Va -> Page \cup {NULL}]]
          /\ writable' \in [Env -> [Va -> BOOLEAN]]
      BY <2>e DEF HideCopy, PmapInv, PmapTypeOK
    <3> QED BY <2>e, <2>i, <3>1, <3>2, <3>3, <3>4 DEF PmapInv, PmapTypeOK
  <2>2. TableFirst'
    <3> SUFFICES ASSUME NEW g \in Env, NEW v \in Va, pde'[g][v[1]] = NULL PROVE pte'[g][v] = NULL
      BY DEF TableFirst
    <3>1. v[1] \in Dir
      BY PlaceFacts
    <3>2. ~(g = e /\ v[1] = d)
      BY <2>g, <2>h, <3>1
    <3> QED BY <2>b, <2>h, <3>1, <3>2 DEF PmapInv, TableFirst
  <2>3. HoldsOK'
    BY <2>1, <2>2, HoldsNext
  <2>4. Holds \in Maps /\ Holds' \in Maps
    BY <2>a, <2>3 DEF HoldsOK, Maps
  <2>5. ASSUME NEW r \in All, r # Pte(e, va), r # Pde(e, d) PROVE Holds'[r] = Holds[r]
    <3>1. PICK g \in Env : \/ \E v \in Va : r = Pte(g, v)
                           \/ \E f \in Dir : r = Pde(g, f)
                           \/ r = DirOf(g) \/ r = CopyOf(g)
      BY PlaceForms
    <3>2. CASE g \notin live
      <4>1. g \in Env \ live /\ g \in Env \ live'
        BY <2>e, <3>2
      <4> QED BY <2>a, <2>3, <3>1, <4>1 DEF HoldsOK
    <3>3. CASE g \in live
      <4>1. g \in live'
        BY <2>e, <3>3
      <4>2. CASE r = DirOf(g) \/ r = CopyOf(g)
        BY <2>a, <2>e, <2>3, <3>3, <4>1, <4>2 DEF HoldsOK
      <4>3. CASE \E v \in Va : r = Pte(g, v)
        <5>1. PICK v \in Va : r = Pte(g, v)
          BY <4>3
        <5>2. ~(g = e /\ v = va)
          BY <2>5, <5>1
        <5> QED BY <2>a, <2>h, <2>3, <3>3, <4>1, <5>1, <5>2 DEF HoldsOK
      <4>4. CASE \E f \in Dir : r = Pde(g, f)
        <5>1. PICK f \in Dir : r = Pde(g, f)
          BY <4>4
        <5>2. ~(g = e /\ f = d)
          BY <2>5, <5>1
        <5> QED BY <2>a, <2>h, <2>3, <3>3, <4>1, <5>1, <5>2 DEF HoldsOK
      <4> QED BY <3>1, <4>2, <4>3, <4>4
    <3> QED BY <3>2, <3>3
  <2>6. Holds'[Pte(e, va)] = pp /\ Holds'[Pde(e, d)] = table
    <3>1. e \in live'
      BY <2>e
    <3> QED BY <2>a, <2>h, <2>3, <3>1 DEF HoldsOK
  <2>7. Pte(e, va) # Pde(e, d) /\ Pte(e, va) \notin Tables
    BY <2>a, PlaceNames, PlaceFacts
  <2>8. Counted' /\ FreeIdle' /\ Sole'
    <3>1. CASE pde[e][d] # NULL
      <4>1. Moved(Holds, Holds', Pte(e, va), pp)
        BY <2>5, <2>6, <2>g, <2>k, <3>1 DEF Moved
      <4>2. ASSUME NEW p \in Page PROVE pp_ref'[p] = Cardinality(Where(Holds', p)) + Forgotten(p)
        <5>1. /\ p = pp => Cardinality(Where(Holds', p)) = Cardinality(Where(Holds, p)) + 1
              /\ p = old => Cardinality(Where(Holds', p)) = Cardinality(Where(Holds, p)) - 1
              /\ p # pp /\ p # old => Cardinality(Where(Holds', p)) = Cardinality(Where(Holds, p))
          BY <2>4, <2>e, <2>k, <4>1, Recount
        <5> QED BY <2>e, <2>f, <2>j, <3>1, <5>1
      <4>3. Counted'
        BY <2>e, <4>2, CountKept
      <4>4. FreeIdle'
        <5> SUFFICES ASSUME NEW p \in page_free_list' PROVE pp_ref'[p] = 0
          BY DEF FreeIdle
        <5>1. CASE p \in avail
          BY <2>f, <2>k, <2>l, <3>1, <5>1
        <5>2. CASE p = old /\ old \in Page /\ pp_ref[old] = 1
          BY <2>e, <2>f, <3>1, <5>2
        <5> QED BY <2>f, <3>1, <5>1, <5>2 DEF Released
      <4>5. SoleIn(Holds')
        BY <2>4, <2>7, <2>k, <4>1, SoleUpdate DEF PmapInv, Sole
      <4> QED BY <4>3, <4>4, <4>5 DEF Sole, SoleIn
    <3>2. CASE pde[e][d] = NULL
      <4>1. old = NULL /\ table \in avail /\ table \in page_free_list /\ table # pp /\ pp_ref[table] = 0
        BY <2>b, <2>c, <2>f, <2>l, <2>a, <3>2 DEF PmapInv, TableFirst
      <4>2. PICK M \in Maps : M = [Holds EXCEPT ![Pde(e, d)] = table]
        BY <2>4, <2>g DEF Maps
      <4>3. Moved(Holds, M, Pde(e, d), table)
        BY <2>4, <2>k, <4>2 DEF Moved, Maps
      <4>4. Moved(M, Holds', Pte(e, va), pp) /\ M[Pte(e, va)] = NULL
        BY <2>4, <2>5, <2>6, <2>7, <2>k, <4>1, <4>3 DEF Moved
      <4>5. ASSUME NEW p \in Page PROVE pp_ref'[p] = Cardinality(Where(Holds', p)) + Forgotten(p)
        <5>1. pp # NULL /\ table # NULL /\ p # NULL
          BY <2>g, PmapAssumption
        <5>2. /\ p = table => Cardinality(Where(M, p)) = Cardinality(Where(Holds, p)) + 1
              /\ p # table => Cardinality(Where(M, p)) = Cardinality(Where(Holds, p))
          BY <2>4, <2>g, <2>k, <3>2, <4>3, <5>1, Recount
        <5>3. /\ p = pp => Cardinality(Where(Holds', p)) = Cardinality(Where(M, p)) + 1
              /\ p # pp => Cardinality(Where(Holds', p)) = Cardinality(Where(M, p))
          BY <2>4, <2>k, <4>4, <5>1, Recount
        <5>4. CASE p = table
          BY <2>f, <2>j, <3>2, <4>1, <5>2, <5>3, <5>4
        <5>5. CASE p # table
          BY <2>f, <2>j, <3>2, <4>1, <5>1, <5>2, <5>3, <5>5
        <5> QED BY <5>4, <5>5
      <4>6. Counted'
        BY <2>e, <4>5, CountKept
      <4>7. FreeIdle'
        <5> SUFFICES ASSUME NEW p \in page_free_list' PROVE pp_ref'[p] = 0
          BY DEF FreeIdle
        <5>1. p \in avail /\ p # table
          BY <2>f, <3>2, <4>1, PmapAssumption DEF Released
        <5>2. p \in Page /\ p # pp /\ p # old /\ pp_ref[p] = 0
          BY <2>l, <4>1, <5>1, PmapAssumption
        <5> QED BY <2>f, <5>1, <5>2
      <4>8. SoleIn(M)
        <5>1. \A s \in All : Holds[s] # table
          BY <4>1, FreeUnheld
        <5> QED BY <2>4, <2>k, <4>3, <5>1, SoleUpdate DEF PmapInv, Sole
      <4>9. SoleIn(Holds')
        <5>1. \A s \in Tables : M[s] # pp
          BY <4>1, <4>3, PlaceFacts DEF Moved
        <5> QED BY <2>4, <2>7, <2>k, <4>4, <4>8, <5>1, SoleUpdate
      <4> QED BY <4>6, <4>7, <4>9 DEF Sole, SoleIn
    <3> QED BY <3>1, <3>2
  <2>9. AsidOK'
    BY <2>e DEF PmapInv, AsidOK
  <2>10. TlbCoherent'
    <3>1. \A x \in tlb' : \A g \in live : env_asid[g] = x.asid =>
           /\ g \in live' /\ env_asid'[g] = env_asid[g]
           /\ x.va \in Vpt => pde'[g][x.va[2]] = pde[g][x.va[2]]
           /\ x.va \in Va => page_lookup(g, x.va)' = page_lookup(g, x.va)
                             /\ writable'[g][x.va] = writable[g][x.va]
      BY <2>e, <2>h, <2>i DEF page_lookup, PmapInv, PmapTypeOK
    <3> QED BY <2>i, <3>1, TlbKept
  <2>11. UvptFresh'
    BY <2>e, <2>h DEF PmapInv, UvptFresh, PmapTypeOK
  <2> QED BY <2>1, <2>2, <2>8, <2>9, <2>10, <2>11 DEF PmapInv
<1> QED BY <1>a, <1>b

(* sys_mem_unmap() gives back one reference. *)
LEMMA UnmapStep ==
  ASSUME PmapInv, NEW e \in Env, NEW va \in Va, sys_mem_unmap(e, va)
  PROVE  PmapInv'
<1>0. HoldsOK /\ e \in live /\ va[1] \in Dir
  BY HoldsFacts, PlaceFacts DEF PmapInv, sys_mem_unmap
<1>1. PICK old \in Page : old = page_lookup(e, va) /\ old = pte[e][va]
  <2>1. page_lookup(e, va) = pte[e][va] /\ pte[e][va] \in Page \cup {NULL}
    BY <1>0 DEF HoldsOK, PmapInv, PmapTypeOK
  <2> QED BY <2>1 DEF sys_mem_unmap
<1>2. /\ pp_ref' = [pp_ref EXCEPT ![old] = @ - 1]
      /\ page_free_list' = page_free_list \cup Released(old)
      /\ pte' = [pte EXCEPT ![e][va] = NULL]
      /\ writable' = [writable EXCEPT ![e][va] = FALSE]
      /\ tlb_flush(env_asid[e], va)
      /\ UNCHANGED <<env_pgdir, pde, env_pgdir_copy, copied, uvpt, live, env_asid, lost, panicked>>
  BY <1>1 DEF sys_mem_unmap, vptVars, envVars
<1>3. \A g \in Env, v \in Va : pte'[g][v] = IF g = e /\ v = va THEN NULL ELSE pte[g][v]
  BY <1>2 DEF PmapInv, PmapTypeOK
<1>4. tlb' \subseteq tlb /\ \A x \in tlb' : x.asid = env_asid[e] => x.va # va
  BY <1>2, FlushFacts
<1>5. Holds[Pte(e, va)] = old /\ Pte(e, va) \in All /\ old # NULL
  BY <1>0, <1>1, PlaceFacts, PmapAssumption DEF HoldsOK
<1>6. \A p \in Page :
        /\ Cardinality(Where(Holds, p)) \in Nat /\ Forgotten(p) \in Nat
        /\ pp_ref[p] = Cardinality(Where(Holds, p)) + Forgotten(p)
  BY CountOf
<1>7. pp_ref[old] > 0
  <2> SUFFICES ASSUME pp_ref[old] = 0 PROVE FALSE
    BY <1>6
  <2>1. Where(Holds, old) \in SUBSET All
    BY DEF Where
  <2>2. IsFiniteSet(Where(Holds, old)) /\ Cardinality(Where(Holds, old)) = 0
    BY <1>6, <2>1, PlaceFacts, FS_Subset
  <2>3. Where(Holds, old) = {}
    BY <2>2, FS_EmptySet
  <2> QED BY <1>5, <2>3 DEF Where
<1>8. PmapTypeOK'
  <2>1. pp_ref' \in [Page -> Nat]
    <3>1. pp_ref[old] - 1 \in Nat
      BY <1>6, <1>7
    <3> QED BY <1>2, <3>1 DEF PmapInv, PmapTypeOK
  <2>2. page_free_list' \subseteq Page
    BY <1>2 DEF Released, PmapInv, PmapTypeOK
  <2> QED BY <1>2, <1>4, <2>1, <2>2 DEF PmapInv, PmapTypeOK
<1>9. TableFirst'
  BY <1>2, <1>3 DEF PmapInv, TableFirst
<1>10. HoldsOK'
  BY <1>8, <1>9, HoldsNext
<1>11. Moved(Holds, Holds', Pte(e, va), NULL) /\ Holds \in Maps /\ Holds' \in Maps
  <2>1. ASSUME NEW r \in All, r # Pte(e, va) PROVE Holds'[r] = Holds[r]
    <3>1. PICK g \in Env : \/ \E v \in Va : r = Pte(g, v)
                           \/ \E f \in Dir : r = Pde(g, f)
                           \/ r = DirOf(g) \/ r = CopyOf(g)
      BY PlaceForms
    <3>2. CASE g \notin live
      <4>1. g \in Env \ live /\ g \in Env \ live'
        BY <1>2, <3>2
      <4> QED BY <1>0, <1>10, <3>1, <4>1 DEF HoldsOK
    <3>3. CASE g \in live
      <4>1. g \in live'
        BY <1>2, <3>3
      <4>2. \A v \in Va : r = Pte(g, v) => ~(g = e /\ v = va)
        BY <2>1
      <4> QED BY <1>0, <1>2, <1>3, <1>10, <3>1, <3>3, <4>1, <4>2 DEF HoldsOK
    <3> QED BY <3>2, <3>3
  <2>2. Holds'[Pte(e, va)] = NULL
    <3>1. e \in live'
      BY <1>0, <1>2
    <3> QED BY <1>3, <1>10, <3>1 DEF HoldsOK
  <2> QED BY <1>0, <1>10, <2>1, <2>2 DEF Moved, HoldsOK, Maps
<1>12. Counted'
  <2>1. ASSUME NEW p \in Page PROVE pp_ref'[p] = Cardinality(Where(Holds', p)) + Forgotten(p)
    <3>1. /\ p = old => Cardinality(Where(Holds', p)) = Cardinality(Where(Holds, p)) - 1
          /\ p # old => Cardinality(Where(Holds', p)) = Cardinality(Where(Holds, p))
      BY <1>5, <1>11, Recount, PmapAssumption
    <3>2. pp_ref'[p] = IF p = old THEN pp_ref[p] - 1 ELSE pp_ref[p]
      BY <1>2 DEF PmapInv, PmapTypeOK
    <3> QED BY <1>6, <3>1, <3>2
  <2> QED BY <1>2, <2>1, CountKept
<1>13. FreeIdle'
  <2> SUFFICES ASSUME NEW p \in page_free_list' PROVE pp_ref'[p] = 0
    BY DEF FreeIdle
  <2>1. CASE p \in page_free_list
    <3>1. p \in Page /\ pp_ref[p] = 0 /\ p # old
      BY <1>5, <2>1, FreeUnheld DEF PmapInv, FreeIdle
    <3> QED BY <1>2, <3>1 DEF PmapInv, PmapTypeOK
  <2>2. CASE p = old /\ pp_ref[old] = 1
    BY <1>2, <2>2 DEF PmapInv, PmapTypeOK
  <2> QED BY <1>2, <2>1, <2>2 DEF Released
<1>14. Sole'
  <2>1. SoleIn(Holds')
    BY <1>5, <1>11, SoleUpdate DEF PmapInv, Sole
  <2> QED BY <2>1 DEF Sole, SoleIn
<1>15. AsidOK' /\ UvptFresh'
  BY <1>2 DEF PmapInv, AsidOK, UvptFresh
<1>16. TlbCoherent'
  <2>1. ASSUME NEW x \in tlb', NEW g \in live, env_asid[g] = x.asid, x.va \in Va
        PROVE  page_lookup(g, x.va)' = page_lookup(g, x.va) /\ writable'[g][x.va] = writable[g][x.va]
    <3>1. ~(g = e /\ x.va = va) /\ g \in Env
      BY <1>4, <2>1 DEF PmapInv, PmapTypeOK
    <3>2. writable'[g][x.va] = writable[g][x.va]
      BY <1>2, <2>1, <3>1 DEF PmapInv, PmapTypeOK
    <3> QED BY <1>2, <1>3, <2>1, <3>1, <3>2 DEF page_lookup
  <2> QED BY <1>2, <1>4, <2>1, TlbKept
<1> QED BY <1>8, <1>9, <1>12, <1>13, <1>14, <1>15, <1>16 DEF PmapInv

(* A load through UVPT: the directory is copied, if need be into a new page. *)
LEMMA VptFaultStep ==
  ASSUME PmapInv, NEW e \in live,
         copied' = [copied EXCEPT ![e] = pde[e]],
         uvpt' = [uvpt EXCEPT ![e] = TRUE],
         UNCHANGED <<env_pgdir, pde, pte, writable, live, env_asid, tlb, lost, panicked>>,
         \/ UNCHANGED <<pp_ref, page_free_list, env_pgdir_copy>>
         \/ /\ env_pgdir_copy[e] = NULL
            /\ \E p \in page_free_list :
                 /\ page_free_list' = page_free_list \ {p}
                 /\ pp_ref' = [pp_ref EXCEPT ![p] = @ + 1]
                 /\ env_pgdir_copy' = [env_pgdir_copy EXCEPT ![e] = p]
  PROVE  PmapInv'
<1>0. HoldsOK /\ e \in Env
  BY HoldsFacts DEF PmapInv, PmapTypeOK
<1>1. AsidOK' /\ UvptFresh' /\ TlbCoherent'
  <2>1. UvptFresh'
    BY DEF PmapInv, UvptFresh, PmapTypeOK
  <2>2. TlbCoherent'
    BY DEF PmapInv, TlbCoherent, page_lookup
  <2> QED BY <2>1, <2>2 DEF PmapInv, AsidOK
<1>2. TableFirst'
  BY DEF PmapInv, TableFirst
<1>3. CASE UNCHANGED <<pp_ref, page_free_list, env_pgdir_copy>>
  <2>1. PmapTypeOK'
    BY <1>0, <1>3 DEF PmapInv, PmapTypeOK
  <2>2. HoldsOK'
    BY <1>2, <2>1, HoldsNext
  <2>3. Holds' = Holds
    BY <1>0, <1>3, <2>2, SameHolds DEF PmapInv, PmapTypeOK
  <2>4. Counted' /\ FreeIdle' /\ Sole'
    BY <1>3, <2>3, SameRefs
  <2> QED BY <1>1, <1>2, <2>1, <2>4 DEF PmapInv
<1>4. CASE env_pgdir_copy[e] = NULL /\ \E p \in page_free_list :
             /\ page_free_list' = page_free_list \ {p}
             /\ pp_ref' = [pp_ref EXCEPT ![p] = @ + 1]
             /\ env_pgdir_copy' = [env_pgdir_copy EXCEPT ![e] = p]
  <2>0. PICK p \in page_free_list :
             /\ page_free_list' = page_free_list \ {p}
             /\ pp_ref' = [pp_ref EXCEPT ![p] = @ + 1]
             /\ env_pgdir_copy' = [env_pgdir_copy EXCEPT ![e] = p]
    BY <1>4
  <2>1. p \in Page /\ p # NULL /\ \A r \in All : Holds[r] # p
    BY FreeUnheld
  <2>2. PmapTypeOK'
    BY <1>0, <2>0, <2>1 DEF PmapInv, PmapTypeOK
  <2>3. HoldsOK'
    BY <1>2, <2>2, HoldsNext
  <2>4. \A g \in Env : env_pgdir_copy'[g] = IF g = e THEN p ELSE env_pgdir_copy[g]
    BY <2>0 DEF PmapInv, PmapTypeOK
  <2>5. /\ Moved(Holds, Holds', CopyOf(e), p) /\ Holds[CopyOf(e)] = NULL /\ CopyOf(e) \in All
        /\ Holds \in Maps /\ Holds' \in Maps
    <3>1. ASSUME NEW r \in All, r # CopyOf(e) PROVE Holds'[r] = Holds[r]
      <4>1. PICK g \in Env : \/ \E v \in Va : r = Pte(g, v)
                             \/ \E f \in Dir : r = Pde(g, f)
                             \/ r = DirOf(g) \/ r = CopyOf(g)
        BY PlaceForms
      <4>2. CASE g \notin live
        BY <1>0, <2>3, <4>1, <4>2 DEF HoldsOK
      <4>3. CASE g \in live
        <5>1. r = CopyOf(g) => g # e
          BY <3>1
        <5> QED BY <1>0, <2>3, <2>4, <4>1, <4>3, <5>1 DEF HoldsOK
      <4> QED BY <4>2, <4>3
    <3>2. Holds'[CopyOf(e)] = p
      BY <1>0, <2>3, <2>4 DEF HoldsOK
    <3>3. Holds[CopyOf(e)] = NULL /\ CopyOf(e) \in All
      BY <1>0, <1>4, PlaceFacts DEF HoldsOK
    <3> QED BY <1>0, <2>3, <3>1, <3>2, <3>3 DEF Moved, HoldsOK, Maps
  <2>6. Counted'
    <3>1. ASSUME NEW q \in Page PROVE pp_ref'[q] = Cardinality(Where(Holds', q)) + Forgotten(q)
      <4>1. Holds[CopyOf(e)] # p /\ Holds[CopyOf(e)] # q
        BY <2>1, <2>5, PmapAssumption
      <4>2. /\ Cardinality(Where(Holds, q)) \in Nat
            /\ q = p => Cardinality(Where(Holds', q)) = Cardinality(Where(Holds, q)) + 1
            /\ q # p => Cardinality(Where(Holds', q)) = Cardinality(Where(Holds, q))
        BY <2>1, <2>5, <4>1, Recount
      <4>3. pp_ref'[q] = IF q = p THEN pp_ref[q] + 1 ELSE pp_ref[q]
        BY <2>0 DEF PmapInv, PmapTypeOK
      <4> QED BY <4>2, <4>3, CountOf
    <3> QED BY <3>1, CountKept
  <2>7. FreeIdle'
    BY <2>0, <2>1 DEF PmapInv, FreeIdle, PmapTypeOK
  <2>8. Sole'
    <3>1. SoleIn(Holds')
      BY <2>1, <2>5, SoleUpdate DEF PmapInv, Sole
    <3> QED BY <3>1 DEF Sole, SoleIn
  <2> QED BY <1>1, <1>2, <2>2, <2>6, <2>7, <2>8 DEF PmapInv
<1> QED BY <1>3, <1>4

(* A store through UVPT: one or two pages are counted and then forgotten. *)
Loses(e, gone) ==
  /\ gone \subseteq page_free_list
  /\ copied' \in [Env -> [Dir -> Page \cup {NULL}]]
  /\ \A g \in Env : g # e => copied'[g] = copied[g]
  /\ page_free_list' = page_free_list \ gone
  /\ pp_ref' = [p \in Page |-> IF p \in gone THEN 1 ELSE pp_ref[p]]
  /\ lost' = lost \cup gone
  /\ HideCopy(e) /\ tlb_flush(env_asid[e], ALL)
  /\ UNCHANGED <<env_pgdir, pde, pte, writable, env_pgdir_copy, live, env_asid, panicked>>

LEMMA VptStoreStep ==
  ASSUME PmapInv, NEW e \in live, NEW gone, Loses(e, gone)
  PROVE  PmapInv'
<1> USE DEF Loses
<1>0. HoldsOK /\ e \in Env /\ gone \subseteq Page /\ tlb' \subseteq tlb
  BY HoldsFacts, FlushFacts DEF PmapInv, PmapTypeOK
<1>1. PmapTypeOK'
  BY <1>0 DEF PmapInv, PmapTypeOK, HideCopy
<1>2. TableFirst' /\ AsidOK'
  BY DEF PmapInv, TableFirst, AsidOK
<1>3. Holds' = Holds
  BY <1>0, <1>1, <1>2, HoldsNext, SameHolds DEF PmapInv, PmapTypeOK
<1>4. Counted'
  <2>1. ASSUME NEW p \in Page PROVE pp_ref'[p] = Cardinality(Where(Holds, p)) + Forgotten(p)'
    <3>1. CASE p \in gone
      <4>1. Cardinality(Where(Holds, p)) = 0
        BY <3>1, FreeUnheld, FS_EmptySet
      <4>2. pp_ref'[p] = 1 /\ Forgotten(p)' = 1
        BY <3>1 DEF Forgotten
      <4> QED BY <4>1, <4>2
    <3>2. CASE p \notin gone
      <4>1. pp_ref'[p] = pp_ref[p] /\ Forgotten(p)' = Forgotten(p)
        BY <3>2 DEF Forgotten
      <4> QED BY <4>1, CountOf
    <3> QED BY <3>1, <3>2
  <2> QED BY <1>3, <2>1 DEF Counted, Where
<1>5. FreeIdle' /\ Sole'
  BY <1>3 DEF PmapInv, PmapTypeOK, FreeIdle, Sole, SoleIn
<1>6. TlbCoherent'
  BY <1>0, TlbKept DEF page_lookup
<1>7. UvptFresh'
  BY <1>0 DEF PmapInv, PmapTypeOK, UvptFresh, HideCopy
<1> QED BY <1>1, <1>2, <1>4, <1>5, <1>6, <1>7 DEF PmapInv

(* Steps that change the TLB, the free list or the panic flag alone. *)
LEMMA QuietStep ==
  ASSUME PmapInv, page_free_list' \subseteq page_free_list, tlb' \subseteq TlbEntry,
         TlbCoherent', panicked' \in BOOLEAN,
         UNCHANGED <<pp_ref, env_pgdir, pde, pte, writable, env_pgdir_copy, copied, uvpt, live, env_asid, lost>>
  PROVE  PmapInv'
<1>1. PmapTypeOK' /\ TableFirst'
  BY DEF PmapInv, PmapTypeOK, TableFirst
<1>2. Holds' = Holds
  BY <1>1, HoldsFacts, HoldsNext, SameHolds DEF PmapInv, PmapTypeOK
<1>3. Counted' /\ FreeIdle' /\ Sole'
  BY <1>2, SameRefs
<1>4. AsidOK' /\ UvptFresh'
  BY DEF PmapInv, AsidOK, UvptFresh
<1> QED BY <1>1, <1>3, <1>4 DEF PmapInv

LEMMA CalmStep ==
  ASSUME PmapInv, page_free_list' \subseteq page_free_list, UNCHANGED tlb, panicked' \in BOOLEAN,
         UNCHANGED <<pp_ref, env_pgdir, pde, pte, writable, env_pgdir_copy, copied, uvpt, live, env_asid, lost>>
  PROVE  PmapInv'
<1>1. TlbCoherent' /\ tlb' \subseteq TlbEntry
  BY DEF PmapInv, PmapTypeOK, TlbCoherent, page_lookup
<1> QED BY <1>1, QuietStep

(* The hardware caches a translation of the tables, or of the copy at UVPT. *)
LEMMA FillStep ==
  ASSUME PmapInv, NEW e \in Env, NEW va \in Va, tlb_fill(e, va)
  PROVE  PmapInv'
<1>0. PICK x : x = [asid |-> env_asid[e], va |-> va, page |-> pte[e][va], w |-> writable[e][va]]
  OBVIOUS
<1>1. /\ e \in live /\ page_lookup(e, va) # NULL /\ tlb' = tlb \cup {x}
      /\ UNCHANGED <<pp_ref, page_free_list, env_pgdir, pde, pte, writable>>
      /\ UNCHANGED <<env_pgdir_copy, copied, uvpt, live, env_asid, lost, panicked>>
  BY <1>0 DEF tlb_fill, refVars, spaceVars, vptVars, envVars
<1>2. page_lookup(e, va) = pte[e][va] /\ pte[e][va] \in Page /\ env_asid[e] \in 0 .. NASID - 1
  BY <1>1, HoldsFacts DEF HoldsOK, PmapInv, PmapTypeOK, AsidOK
<1>3. x \in TlbEntry
  BY <1>0, <1>2 DEF TlbEntry, PmapInv, PmapTypeOK
<1>4. TlbCoherent'
  <2>1. va \notin Vpt
    BY VptApart
  <2>2. \A y \in tlb : \E g \in live :
          /\ env_asid[g] = y.asid
          /\ IF y.va \in Vpt
             THEN pde[g][y.va[2]] = y.page
             ELSE page_lookup(g, y.va) = y.page /\ writable[g][y.va] = y.w
    BY DEF PmapInv, TlbCoherent
  <2>3. \E g \in live :
          /\ env_asid[g] = x.asid
          /\ IF x.va \in Vpt
             THEN pde[g][x.va[2]] = x.page
             ELSE page_lookup(g, x.va) = x.page /\ writable[g][x.va] = x.w
    BY <1>0, <1>1, <1>2, <2>1
  <2> QED BY <1>1, <2>2, <2>3 DEF TlbCoherent, page_lookup
<1> QED BY <1>1, <1>3, <1>4, QuietStep DEF PmapInv, PmapTypeOK

LEMMA FillVptStep ==
  ASSUME PmapInv, NEW e \in Env, NEW d \in Dir, tlb_fill_vpt(e, d)
  PROVE  PmapInv'
<1>0. PICK x : x = [asid |-> env_asid[e], va |-> <<UVPT, d>>, page |-> copied[e][d], w |-> FALSE]
  OBVIOUS
<1>1. /\ e \in live /\ uvpt[e] /\ copied[e][d] # NULL /\ tlb' = tlb \cup {x}
      /\ UNCHANGED <<pp_ref, page_free_list, env_pgdir, pde, pte, writable>>
      /\ UNCHANGED <<env_pgdir_copy, copied, uvpt, live, env_asid, lost, panicked>>
  BY <1>0 DEF tlb_fill_vpt, refVars, spaceVars, vptVars, envVars
<1>2. copied[e][d] = pde[e][d] /\ copied[e][d] \in Page /\ env_asid[e] \in 0 .. NASID - 1
  BY <1>1 DEF PmapInv, PmapTypeOK, AsidOK, UvptFresh
<1>3. <<UVPT, d>> \in Vpt /\ <<UVPT, d>>[2] = d
  BY DEF Vpt
<1>4. x \in TlbEntry
  BY <1>0, <1>2, <1>3 DEF TlbEntry
<1>5. TlbCoherent'
  <2>1. \A y \in tlb : \E g \in live :
          /\ env_asid[g] = y.asid
          /\ IF y.va \in Vpt
             THEN pde[g][y.va[2]] = y.page
             ELSE page_lookup(g, y.va) = y.page /\ writable[g][y.va] = y.w
    BY DEF PmapInv, TlbCoherent
  <2>2. x.va \in Vpt /\ x.va[2] = d /\ x.asid = env_asid[e] /\ x.page = pde[e][d]
    BY <1>0, <1>2, <1>3
  <2> QED BY <1>1, <2>1, <2>2 DEF TlbCoherent, page_lookup
<1> QED BY <1>1, <1>4, <1>5, QuietStep DEF PmapInv, PmapTypeOK

-----------------------------------------------------------------------------
LEMMA PmapInvInit == Init => PmapInv
<1> SUFFICES ASSUME Init PROVE PmapInv
  OBVIOUS
<1>1. PmapTypeOK
  BY PmapAssumption DEF Init, PmapTypeOK, NoTables, NoPages
<1>2. TableFirst /\ AsidOK /\ TlbCoherent /\ UvptFresh /\ FreeIdle
  BY DEF Init, TableFirst, AsidOK, TlbCoherent, UvptFresh, FreeIdle, NoPages
<1>3. \A r \in All : Holds[r] = NULL
  BY DEF Init, Holds
<1>4. \A p \in Page : Where(Holds, p) = {}
  BY <1>3, PmapAssumption DEF Where
<1>5. Counted
  <2>1. ASSUME NEW p \in Page PROVE pp_ref[p] = Cardinality(Where(Holds, p)) + Forgotten(p)
    <3>1. Cardinality(Where(Holds, p)) = 0
      BY <1>4, FS_EmptySet
    <3>2. pp_ref[p] = 0 /\ Forgotten(p) = 0
      BY DEF Init, Forgotten
    <3> QED BY <3>1, <3>2
  <2> QED BY <2>1 DEF Counted
<1>6. Sole
  BY <1>3, PlaceFacts DEF Sole, SoleIn
<1> QED BY <1>1, <1>2, <1>5, <1>6 DEF PmapInv

(* Every step keeps the invariant. *)
LEMMA PmapInvStep == PmapInv /\ [Next]_vars => PmapInv'
<1> SUFFICES ASSUME PmapInv, [Next]_vars PROVE PmapInv'
  OBVIOUS
<1>a. live \subseteq Env /\ page_free_list \subseteq Page /\ panicked \in BOOLEAN /\ HoldsOK
  BY HoldsFacts DEF PmapInv, PmapTypeOK
<1>b. ASSUME panic PROVE PmapInv'
  BY <1>b, CalmStep DEF panic, refVars, spaceVars, vptVars, envVars
<1>1. CASE UNCHANGED vars
  BY <1>a, <1>1, CalmStep DEF vars, refVars, spaceVars, vptVars, envVars
<1>2. ASSUME NEW e \in live, NEW va \in Va, NEW w \in BOOLEAN, NEW pp \in page_free_list,
             page_insert(e, pp, va, w, page_free_list \ {pp}), UNCHANGED <<envVars, lost, panicked>>
      PROVE  PmapInv'
  <2>1. \A s \in Tables : Holds[s] # pp
    BY FreeUnheld, PlaceFacts
  <2>2. pp \in Page /\ page_free_list \ {pp} \in SUBSET page_free_list /\ pp \notin page_free_list \ {pp}
    BY <1>a
  <2> QED BY <1>2, <2>1, <2>2, InsertStep
<1>3. ASSUME NEW e \in Env, NEW va \in Va, NEW w \in BOOLEAN, sys_mem_alloc(e, va, w) PROVE PmapInv'
  BY <1>2, <1>3 DEF sys_mem_alloc
<1>4. ASSUME NEW e \in Env, NEW va \in Va, sys_mem_alloc_no_table(e, va) PROVE PmapInv'
  BY <1>a, <1>4, CalmStep DEF sys_mem_alloc_no_table, spaceVars, vptVars, envVars
<1>5. ASSUME NEW e \in Env, NEW va \in Va, NEW src \in Env, NEW srcva \in Va, NEW w \in BOOLEAN,
             sys_mem_map(src, srcva, e, va, w)
      PROVE  PmapInv'
  <2>0. PICK pp : pp = page_lookup(src, srcva)
    OBVIOUS
  <2>1. /\ src \in live /\ e \in live /\ pp # NULL
        /\ page_insert(e, pp, va, w, page_free_list) /\ UNCHANGED <<envVars, lost, panicked>>
    BY <1>5, <2>0 DEF sys_mem_map
  <2>2. Holds[Pte(src, srcva)] = pp /\ pp \in Page /\ Pte(src, srcva) \in All /\ Pte(src, srcva) \notin Tables
    BY <1>a, <2>0, <2>1, PlaceFacts DEF HoldsOK
  <2>3. pp \notin page_free_list
    BY <2>2, FreeUnheld
  <2>4. \A s \in Tables : Holds[s] # pp
    BY <2>1, <2>2 DEF PmapInv, Sole, SoleIn
  <2> QED BY <2>1, <2>2, <2>3, <2>4, InsertStep
<1>6. ASSUME NEW e \in Env, NEW va \in Va, passive_alloc(e, va) PROVE PmapInv'
  <2>1. CASE panic
    BY <1>b, <2>1
  <2>2. CASE ~panic
    <3>1. PICK pp \in page_free_list :
            page_insert(e, pp, va, TRUE, page_free_list \ {pp}) /\ e \in live
            /\ UNCHANGED <<envVars, lost, panicked>>
      BY <1>6, <2>2 DEF passive_alloc
    <3> QED BY <1>2, <3>1
  <2> QED BY <2>1, <2>2
<1>7. ASSUME NEW e \in Env, NEW d \in Dir, vpt_fault(e, d) PROVE PmapInv'
  <2>1. CASE panic
    BY <1>b, <2>1
  <2>2. CASE ~panic
    <3>1. /\ e \in live
          /\ copied' = [copied EXCEPT ![e] = pde[e]]
          /\ uvpt' = [uvpt EXCEPT ![e] = TRUE]
          /\ UNCHANGED <<env_pgdir, pde, pte, writable, live, env_asid, tlb, lost, panicked>>
          /\ \/ UNCHANGED <<pp_ref, page_free_list, env_pgdir_copy>>
             \/ /\ env_pgdir_copy[e] = NULL
                /\ \E p \in page_free_list :
                     /\ page_free_list' = page_free_list \ {p}
                     /\ pp_ref' = [pp_ref EXCEPT ![p] = @ + 1]
                     /\ env_pgdir_copy' = [env_pgdir_copy EXCEPT ![e] = p]
      BY <1>7, <2>2 DEF vpt_fault, spaceVars, envVars, refVars
    <3> QED BY <3>1, VptFaultStep
  <2> QED BY <2>1, <2>2
<1>8. ASSUME NEW e \in Env, NEW d \in Dir, vpt_store_fault(e, d) PROVE PmapInv'
  <2>1. CASE panic
    BY <1>b, <2>1
  <2>2. CASE ~panic
    <3>1. PICK pp \in page_free_list, gone \in SUBSET page_free_list :
            /\ \/ copied' = [copied EXCEPT ![e][d] = pp]
               \/ UNCHANGED copied
            /\ page_free_list' = page_free_list \ gone
            /\ pp_ref' = [p \in Page |-> IF p \in gone THEN 1 ELSE pp_ref[p]]
            /\ lost' = lost \cup gone
      BY <1>8, <2>2 DEF vpt_store_fault
    <3>2. /\ e \in live /\ HideCopy(e) /\ tlb_flush(env_asid[e], ALL)
          /\ UNCHANGED <<env_pgdir, pde, pte, writable, env_pgdir_copy, live, env_asid, panicked>>
      BY <1>8, <2>2 DEF vpt_store_fault, spaceVars, envVars
    <3>3. /\ copied' \in [Env -> [Dir -> Page \cup {NULL}]]
          /\ \A g \in Env : g # e => copied'[g] = copied[g]
      <4>1. copied \in [Env -> [Dir -> Page \cup {NULL}]] /\ pp \in Page
        BY <1>a DEF PmapInv, PmapTypeOK
      <4>2. CASE copied' = [copied EXCEPT ![e][d] = pp]
        BY <4>1, <4>2
      <4> QED BY <3>1, <4>1, <4>2
    <3>4. Loses(e, gone)
      BY <3>1, <3>2, <3>3 DEF Loses
    <3> QED BY <3>2, <3>4, VptStoreStep
  <2> QED BY <2>1, <2>2
<1> QED BY <1>1, <1>3, <1>4, <1>5, <1>6, <1>7, <1>8, AllocStep, FreeStep, UnmapStep, FillStep, FillVptStep
        DEF Next

LEMMA PmapInvAlways == Spec => []PmapInv
<1>1. Init => PmapInv
  BY PmapInvInit
<1>2. PmapInv /\ [Next]_vars => PmapInv'
  BY PmapInvStep
<1> QED BY <1>1, <1>2, PTL DEF Spec

-----------------------------------------------------------------------------
(* The count that page_decref() and env_free() go by is the number of places that *)
(* refer to the page, whatever was mapped over, shared or destroyed before; the   *)
(* pages that a store to the vpt array loses are counted once more, so that they  *)
(* are never freed.  env_alloc() with no page left, whose result is not looked at *)
(* (ShortSpec), is not among the steps.                                           *)
THEOREM CountsAreExact == Spec => []RefCountExact
<1>1. PmapInv => RefCountExact
  BY RefsWhere DEF PmapInv, Counted, RefCountExact
<1> QED BY <1>1, PmapInvAlways, PTL

(* No page on page_free_list can be reached: page_alloc() never hands out a page *)
(* that a table, a mapping or the hardware still leads to.                       *)
THEOREM FreePagesUnused == Spec => []FreeNotUsed
<1>1. ASSUME PmapInv PROVE FreeNotUsed
  <2> SUFFICES ASSUME NEW p \in page_free_list
               PROVE  pp_ref[p] = 0 /\ References(p) = {} /\ \A x \in tlb : x.page # p
    BY DEF FreeNotUsed
  <2>1. p \in Page /\ Where(Holds, p) = {} /\ \A r \in All : Holds[r] # p
    BY <1>1, FreeUnheld
  <2>2. pp_ref[p] = 0 /\ References(p) = {}
    BY <1>1, <2>1, RefsWhere DEF PmapInv, FreeIdle
  <2>3. ASSUME NEW x \in tlb PROVE x.page # p
    <3>1. HoldsOK /\ x.va \in Va \cup Vpt /\ live \subseteq Env
      BY <1>1, HoldsFacts DEF PmapInv, PmapTypeOK, TlbEntry
    <3>2. PICK e \in live : IF x.va \in Vpt THEN pde[e][x.va[2]] = x.page
                                            ELSE page_lookup(e, x.va) = x.page
      BY <1>1 DEF PmapInv, TlbCoherent
    <3>3. CASE x.va \in Vpt
      <4>1. x.va[2] \in Dir /\ Pde(e, x.va[2]) \in All
        BY <3>1, <3>3, VptApart, PlaceFacts
      <4> QED BY <2>1, <3>1, <3>2, <3>3, <4>1 DEF HoldsOK
    <3>4. CASE x.va \notin Vpt
      <4>1. x.va \in Va /\ Pte(e, x.va) \in All
        BY <3>1, <3>4, PlaceFacts
      <4> QED BY <2>1, <3>1, <3>2, <3>4, <4>1 DEF HoldsOK
    <3> QED BY <3>3, <3>4
  <2> QED BY <2>2, <2>3
<1>2. PmapInv => FreeNotUsed
  BY <1>1
<1> QED BY <1>2, PmapInvAlways, PTL

(* A page that serves as directory, table or copy has no other reference: no user *)
(* mapping leads to an address translation.                                       *)
THEOREM TablesStayPrivate == Spec => []TablesPrivate
<1>1. ASSUME PmapInv PROVE TablesPrivate
  <2> SUFFICES ASSUME NEW e \in live, NEW p, p # NULL,
                      p \in {env_pgdir[e], env_pgdir_copy[e]} \cup {pde[e][d] : d \in Dir}
               PROVE  Cardinality(References(p)) = 1
    BY DEF TablesPrivate
  <2>0. HoldsOK /\ e \in Env
    BY <1>1, HoldsFacts DEF PmapInv, PmapTypeOK
  <2>1. PICK r \in Tables : Holds[r] = p
    BY <2>0, PlaceFacts DEF HoldsOK
  <2>2. p \in Page /\ r \in All
    BY <2>0, <2>1, PlaceFacts DEF HoldsOK
  <2>3. Where(Holds, p) = {r}
    BY <1>1, <2>1, <2>2 DEF Where, PmapInv, Sole, SoleIn
  <2>4. References(p) = Where(Holds, p)
    BY <1>1, <2>2, RefsWhere DEF PmapInv
  <2> QED BY <2>3, <2>4, FS_Singleton
<1>2. PmapInv => TablesPrivate
  BY <1>1
<1> QED BY <1>2, PmapInvAlways, PTL

(* The TLB never disagrees with the tables of the live environments, although an *)
(* identifier of zero flushes all spaces and identifiers are reused.             *)
THEOREM TlbStaysCoherent == Spec => []TlbCoherent
<1>1. PmapInv => TlbCoherent
  BY DEF PmapInv
<1> QED BY <1>1, PmapInvAlways, PTL

(* While the copy of the directory is visible at UVPT, it is the directory. *)
THEOREM UvptStaysFresh == Spec => []UvptFresh
<1>1. PmapInv => UvptFresh
  BY DEF PmapInv
<1> QED BY <1>1, PmapInvAlways, PTL
=============================================================================
