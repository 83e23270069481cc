----------------------------- MODULE DiskProofs -----------------------------
(***************************************************************************)
(* Proofs about the disk driver: no descriptor is lost or used twice, the  *)
(* page of a request is left alone while the device has it, and ide_read   *)
(* and ide_write are atomic operations on sectors.                         *)
(***************************************************************************)
EXTENDS VirtioDisk, FiniteSetTheorems, WellFoundedInduction, TLAPS

-----------------------------------------------------------------------------
(* The inductive invariant.                                                *)

Second(h) == desc[h].next
Third(h)  == desc[desc[h].next].next
Trio(h)   == {h, Second(h), Third(h)}

\* The client whose buffer and status the chain of h points at.
ClientOf(h) == desc[Second(h)].addr.at

\* The chain virtio_disk_req() lays out: header, buffer, status.
Shaped(h) ==
    /\ h \in Desc
    /\ h # Second(h) /\ h # Third(h) /\ Second(h) # Third(h)
    /\ "NEXT" \in desc[h].flags /\ "NEXT" \in desc[Second(h)].flags
    /\ "NEXT" \notin desc[Third(h)].flags
    /\ desc[h].addr.at = h
    /\ ClientOf(h) \in Client /\ desc[Third(h)].addr.at = ClientOf(h)

AllShaped == \A o \in Outstanding : Shaped(o[3])

Disjoint == \A o, p \in Outstanding : o # p => Trio(o[3]) \cap Trio(p[3]) = {}

\* No descriptor is lost: what is not free belongs to an outstanding chain.
NoneLost == \A d \in Desc : d \in free <=> \A o \in Outstanding : d \notin Trio(o[3])

\* Chains that the device has not answered yet.
Unanswered == {o \in Outstanding : o[1] \notin {"answered", "used"}}

\* The client of an unanswered chain waits, and the header says what it asked for.
Asked(h) ==
    /\ ide[ClientOf(h)].pc = "poll"
    /\ req[ClientOf(h)].status = "NO_RESP"
    /\ outhdr[h].type = IF req[ClientOf(h)].write THEN "OUT" ELSE "IN"
    /\ outhdr[h].sector = req[ClientOf(h)].sector

AllAsked == \A o \in Unanswered : Asked(o[3])

\* A client has at most one unanswered chain.
OneEach == \A o, p \in Unanswered : ClientOf(o[3]) = ClientOf(p[3]) => o = p

\* The rest of the sectors a call asks for exist.
InBlock == \A c \in Client : ide[c].pc # "idle" =>
              /\ \A k \in 0 .. ide[c].left : req[c].sector + k \in Sector
              /\ ide[c].pc = "next" => ide[c].left # 0

DiskInv == /\ DiskTypeOK /\ ~panicked
           /\ AllShaped /\ Disjoint /\ NoneLost
           /\ AllAsked /\ OneEach /\ InBlock

-----------------------------------------------------------------------------
(* Numbers.                                                                *)

Below == {p \in Nat \X Nat : p[1] < p[2]}

(***************************************************************************)
(* Every nonempty set of natural numbers has a least element.  Induction   *)
(* is done with it, on the least number for which a claim is false.        *)
(***************************************************************************)
LEMMA LeastNat ==
  ASSUME NEW S, S \subseteq Nat, S # {}
  PROVE  \E x \in S : \A y \in S : x <= y
<1>1. IsWellFoundedOn(Below, Nat)
  BY NatLessThanWellFounded, Zenon DEF OpToRel, Below
<1>2. PICK x \in S : \A y \in S : ~(<<y, x>> \in Below)
  BY <1>1, WFMin
<1>3. ASSUME NEW y \in S PROVE x <= y
  <2>1. ~(<<y, x>> \in Below) /\ x \in Nat /\ y \in Nat
    BY <1>2
  <2>2. ~(y < x)
    BY <2>1 DEF Below
  <2>3. QED
    BY <2>1, <2>2
<1>4. QED
  BY <1>2, <1>3

(***************************************************************************)
(* Numbers that differ by less than m, but do differ, have different       *)
(* remainders.                                                             *)
(***************************************************************************)
LEMMA RemaindersDiffer ==
  ASSUME NEW m \in Nat \ {0}, NEW j \in Nat, NEW k \in Nat, j < k, k < j + m
  PROVE  j % m # k % m
<1>1. PICK a \in Int, b \in Int : j = m * a + (j % m) /\ k = m * b + (k % m)
  <2>1. /\ j = m * (j \div m) + (j % m) /\ k = m * (k \div m) + (k % m)
        /\ j \div m \in Int /\ k \div m \in Int
    OBVIOUS
  <2>2. QED
    BY <2>1
<1>2. SUFFICES ASSUME j % m = k % m PROVE FALSE
  OBVIOUS
<1>3. PICK d \in Int : d = b - a
  OBVIOUS
<1>4. k - j = m * d
  <2>1. j % m \in Int
    OBVIOUS
  <2>2. m * d = m * b - m * a
    BY <1>3
  <2>3. QED
    BY <1>1, <1>2, <2>1, <2>2
<1>5. CASE d <= 0
  <2>1. m * d <= 0
    BY <1>5
  <2>2. QED
    BY <1>4, <2>1
<1>6. CASE d >= 1
  <2>1. m * d >= m
    BY <1>6
  <2>2. QED
    BY <1>4, <2>1
<1>7. QED
  BY <1>5, <1>6

(***************************************************************************)
(* A multiple of m may be dropped from the dividend.                       *)
(***************************************************************************)
LEMMA DropMultiple ==
  ASSUME NEW m \in Nat \ {0}, NEW n \in Nat, n % m = 0, NEW x \in Nat, x >= n
  PROVE  (x - n) % m = x % m
<1>1. PICK a \in Int : n = m * a
  <2>1. n = m * (n \div m) + (n % m) /\ n \div m \in Int
    OBVIOUS
  <2>2. QED
    BY <2>1
<1>2. PICK b \in Int, r \in 0 .. m - 1 : x = m * b + r /\ r = x % m
  <2>1. x = m * (x \div m) + (x % m) /\ x \div m \in Int /\ x % m \in 0 .. m - 1
    OBVIOUS
  <2>2. QED
    BY <2>1
<1>3. PICK c \in Int, s \in 0 .. m - 1 : x - n = m * c + s /\ s = (x - n) % m
  <2>1. /\ x - n = m * ((x - n) \div m) + ((x - n) % m)
        /\ (x - n) \div m \in Int /\ (x - n) % m \in 0 .. m - 1
    OBVIOUS
  <2>2. QED
    BY <2>1
<1>4. PICK d \in Int : d = b - a - c
  OBVIOUS
<1>5. m * d = s - r
  <2>1. m * d = m * b - m * a - m * c
    BY <1>4
  <2>2. PICK u \in Int, v \in Int, w \in Int : u = m * a /\ v = m * b /\ w = m * c
    OBVIOUS
  <2>3. n = u /\ x = v + r /\ x - n = w + s /\ m * d = v - u - w
    BY <1>1, <1>2, <1>3, <2>1, <2>2
  <2>4. QED
    BY <2>3
<1>6. CASE d <= -1
  <2>1. m * d <= -m
    BY <1>6
  <2>2. QED
    BY <1>5, <2>1
<1>7. CASE d >= 1
  <2>1. m * d >= m
    BY <1>7
  <2>2. QED
    BY <1>5, <2>1
<1>8. CASE d = 0
  <2>1. m * d = 0
    BY <1>8
  <2>2. r = s
    BY <1>5, <2>1
  <2>3. QED
    BY <1>2, <1>3, <2>2
<1>9. QED
  BY <1>6, <1>7, <1>8

-----------------------------------------------------------------------------
(* The indices of the rings.                                               *)

LEMMA Sizes == /\ QN \in Nat /\ QN >= 3
               /\ IdxMod \in Nat /\ IdxMod >= QN /\ IdxMod % QN = 0
<1>1. QN \in Nat /\ QN >= 3 /\ IdxMod \in Nat /\ IdxMod > 0 /\ IdxMod % QN = 0
  BY DiskAssumption
<1>2. IdxMod < QN => IdxMod % QN = IdxMod
  BY <1>1
<1>3. QED
  BY <1>1, <1>2

\* How far index b is ahead of index a.
Ahead(a, b) == IF a <= b THEN b - a ELSE b - a + IdxMod

Succ(a) == (a + 1) % IdxMod

LEMMA SuccIs ==
  ASSUME NEW a \in Idx
  PROVE  Succ(a) \in Idx /\ Succ(a) = IF a + 1 = IdxMod THEN 0 ELSE a + 1
BY Sizes DEF Idx, Succ

LEMMA Multiple == ASSUME NEW x \in Nat, x >= IdxMod
                  PROVE  (x - IdxMod) % IdxMod = x % IdxMod
<1>1. IdxMod \in Nat \ {0} /\ IdxMod % IdxMod = 0
  BY Sizes
<1>2. QED
  BY <1>1, DropMultiple

(***************************************************************************)
(* Between without remainders.                                             *)
(***************************************************************************)
LEMMA BetweenIs ==
  ASSUME NEW a \in Idx, NEW b \in Idx
  PROVE  Between(a, b) = {i \in Idx : IF a <= b THEN a <= i /\ i < b ELSE a <= i \/ i < b}
<1> DEFINE M == IdxMod
           B == {i \in Idx : IF a <= b THEN a <= i /\ i < b ELSE a <= i \/ i < b}
<1>0. M \in Nat /\ M > 0 /\ a \in Nat /\ b \in Nat /\ a < M /\ b < M
  BY Sizes DEF Idx
<1>1. (b - a + M) % M = Ahead(a, b)
  <2>1. CASE a <= b
    <3>1. b - a \in Nat /\ b - a < M
      BY <1>0, <2>1
    <3>2. (b - a + M) % M = b - a
      <4>1. PICK x \in Nat : x = b - a + M /\ x >= M /\ x - M = b - a
        BY <1>0, <3>1
      <4>2. (x - M) % M = x % M
        BY <1>0, <4>1, Multiple
      <4>3. (b - a) % M = b - a
        BY <1>0, <3>1
      <4>4. QED
        BY <4>1, <4>2, <4>3
    <3>3. QED
      BY <2>1, <3>2 DEF Ahead
  <2>2. CASE ~(a <= b)
    BY <1>0, <2>2 DEF Ahead
  <2>3. QED
    BY <2>1, <2>2
<1>2. Ahead(a, b) \in 0 .. M - 1
  BY <1>0 DEF Ahead
<1>3. \A k \in 0 .. M - 1 : (a + k) % M = IF a + k < M THEN a + k ELSE a + k - M
  <2> TAKE k \in 0 .. M - 1
  <2>1. CASE a + k < M
    BY <1>0, <2>1
  <2>2. CASE ~(a + k < M)
    <3>1. PICK x \in Nat : x = a + k /\ x >= M /\ x - M \in Nat /\ x - M < M
      BY <1>0, <2>2
    <3>2. (x - M) % M = x % M
      BY <3>1, Multiple
    <3>3. (x - M) % M = x - M
      BY <1>0, <3>1
    <3>4. x % M = x - M
      BY <3>2, <3>3
    <3>5. QED
      BY <1>0, <2>2, <3>1, <3>4
  <2>3. QED
    BY <2>1, <2>2
<1>4. Between(a, b) = {(a + k) % M : k \in 0 .. Ahead(a, b) - 1}
  BY <1>1 DEF Between
<1>5. ASSUME NEW i \in Between(a, b) PROVE i \in B
  <2>1. PICK k \in 0 .. Ahead(a, b) - 1 : i = (a + k) % M
    BY <1>4
  <2>2. k \in 0 .. M - 1
    BY <1>0, <1>2, <2>1
  <2>4. i = IF a + k < M THEN a + k ELSE a + k - M
    BY <1>3, <2>1, <2>2
  <2>3. QED
    BY <1>0, <2>1, <2>2, <2>4 DEF Ahead, Idx
<1>6. ASSUME NEW i \in B PROVE i \in Between(a, b)
  <2>0. i \in Int
    BY DEF Idx
  <2>1. PICK k \in Int : k = IF a <= i THEN i - a ELSE i - a + M
    <3>1. i - a \in Int /\ i - a + M \in Int
      BY <1>0, <2>0
    <3>2. QED
      BY <3>1
  <2>2. k \in 0 .. Ahead(a, b) - 1 /\ k \in 0 .. M - 1
    BY <1>0, <2>1 DEF Ahead, Idx
  <2>3. i = (a + k) % M
    BY <1>0, <1>3, <2>1, <2>2 DEF Idx
  <2>4. QED
    BY <1>4, <2>2, <2>3
<1>7. QED
  BY <1>5, <1>6

(***************************************************************************)
(* Taking the first entry of a ring, and adding one at its end.            *)
(***************************************************************************)
LEMMA BetweenFirst ==
  ASSUME NEW a \in Idx, NEW b \in Idx, a # b
  PROVE  a \in Between(a, b) /\ Between(Succ(a), b) = Between(a, b) \ {a}
<1>1. /\ IdxMod \in Nat /\ a \in Nat /\ b \in Nat /\ a < IdxMod /\ b < IdxMod
  BY Sizes DEF Idx
<1>2. Succ(a) \in Idx /\ Succ(a) = IF a + 1 = IdxMod THEN 0 ELSE a + 1
  BY SuccIs
<1>3. PICK s \in Idx : s = Succ(a)
  BY <1>2
<1>4. /\ Between(s, b) = {i \in Idx : IF s <= b THEN s <= i /\ i < b ELSE s <= i \/ i < b}
      /\ Between(a, b) = {i \in Idx : IF a <= b THEN a <= i /\ i < b ELSE a <= i \/ i < b}
  BY <1>3, BetweenIs
<1>5. a \in Between(a, b)
  BY <1>1, <1>4
<1>6. ASSUME NEW i \in Idx PROVE i \in Between(s, b) <=> i \in Between(a, b) /\ i # a
  BY <1>1, <1>2, <1>3, <1>4 DEF Idx
<1>7. QED
  BY <1>3, <1>4, <1>5, <1>6

LEMMA BetweenLast ==
  ASSUME NEW a \in Idx, NEW b \in Idx, Succ(b) # a
  PROVE  b \notin Between(a, b) /\ Between(a, Succ(b)) = Between(a, b) \cup {b}
<1>1. /\ IdxMod \in Nat /\ a \in Nat /\ b \in Nat /\ a < IdxMod /\ b < IdxMod
  BY Sizes DEF Idx
<1>2. Succ(b) \in Idx /\ Succ(b) = IF b + 1 = IdxMod THEN 0 ELSE b + 1
  BY SuccIs
<1>3. PICK s \in Idx : s = Succ(b)
  BY <1>2
<1>4. /\ Between(a, s) = {i \in Idx : IF a <= s THEN a <= i /\ i < s ELSE a <= i \/ i < s}
      /\ Between(a, b) = {i \in Idx : IF a <= b THEN a <= i /\ i < b ELSE a <= i \/ i < b}
  BY <1>3, BetweenIs
<1>5. b \notin Between(a, b)
  BY <1>1, <1>4
<1>6. ASSUME NEW i \in Idx PROVE i \in Between(a, s) <=> i \in Between(a, b) \/ i = b
  BY <1>1, <1>2, <1>3, <1>4 DEF Idx
<1>7. QED
  BY <1>3, <1>4, <1>5, <1>6

LEMMA BetweenNone == ASSUME NEW a \in Idx PROVE Between(a, a) = {}
<1>1. Between(a, a) = {i \in Idx : IF a <= a THEN a <= i /\ i < a ELSE a <= i \/ i < a}
  BY BetweenIs
<1>2. QED
  BY <1>1, Sizes DEF Idx

(***************************************************************************)
(* While a ring is not full, the entry behind its last one is none of the  *)
(* entries in use: the indices wrap at a multiple of the ring's size.      *)
(***************************************************************************)
LEMMA EntriesDiffer ==
  ASSUME NEW a \in Idx, NEW b \in Idx, Ahead(a, b) < QN, NEW i \in Between(a, b)
  PROVE  i % QN # b % QN
<1>1. /\ IdxMod \in Nat /\ a \in Nat /\ b \in Nat /\ a < IdxMod /\ b < IdxMod
      /\ QN \in Nat \ {0} /\ IdxMod % QN = 0
  BY Sizes DEF Idx
<1>2. /\ i \in Nat /\ i < IdxMod
      /\ IF a <= b THEN a <= i /\ i < b ELSE a <= i \/ i < b
  BY <1>1, BetweenIs DEF Idx
<1>3. CASE i < b
  <2>1. b < i + QN
    BY <1>1, <1>2, <1>3 DEF Ahead
  <2>2. QED
    BY <1>1, <1>2, <1>3, <2>1, RemaindersDiffer
<1>4. CASE ~(i < b)
  <2>1. PICK x \in Nat : x = b + IdxMod /\ x >= IdxMod /\ x - IdxMod = b
    BY <1>1
  <2>2. i < x /\ x < i + QN
    BY <1>1, <1>2, <1>4, <2>1 DEF Ahead
  <2>3. i % QN # x % QN
    BY <1>1, <1>2, <2>1, <2>2, RemaindersDiffer
  <2>4. (x - IdxMod) % QN = x % QN
    BY <1>1, <2>1, DropMultiple
  <2>5. QED
    BY <2>1, <2>3, <2>4
<1>5. QED
  BY <1>3, <1>4

LEMMA SlotType == ASSUME NEW i \in Idx PROVE i % QN \in Desc
BY Sizes DEF Idx, Desc

\* The k-th index from a on.
Nth(a, k) == IF a + k < IdxMod THEN a + k ELSE a + k - IdxMod

(***************************************************************************)
(* A ring whose entries are different descriptors, none of them in a set   *)
(* of three, is never full.                                                *)
(***************************************************************************)
LEMMA Room ==
  ASSUME NEW a \in Idx, NEW b \in Idx, NEW ring \in [Desc -> Desc],
         NEW T, T \subseteq Desc, Cardinality(T) = 3,
         \A i \in Between(a, b) : ring[i % QN] \notin T,
         \A i, j \in Between(a, b) : ring[i % QN] = ring[j % QN] => i = j
  PROVE  /\ Ahead(a, b) <= QN - 3
         /\ Succ(b) # a
<1>1. /\ IdxMod \in Nat /\ a \in Nat /\ b \in Nat /\ a < IdxMod /\ b < IdxMod
      /\ QN \in Nat /\ QN >= 3 /\ IdxMod >= QN
  BY Sizes DEF Idx
<1>2. PICK n \in Nat : n = Ahead(a, b) /\ n < IdxMod
  <2>1. Ahead(a, b) \in Nat /\ Ahead(a, b) < IdxMod
    BY <1>1 DEF Ahead
  <2>2. QED
    BY <2>1
<1>3. /\ IsFiniteSet(Desc) /\ Cardinality(Desc) = QN
      /\ IsFiniteSet(1 .. n) /\ Cardinality(1 .. n) = n
  BY <1>1, <1>2, FS_Interval DEF Desc
<1>4. IsFiniteSet(Desc \ T) /\ Cardinality(Desc \ T) = QN - 3
  <2>1. Desc \cap T = T
    OBVIOUS
  <2>2. /\ IsFiniteSet(Desc \ T)
        /\ Cardinality(Desc \ T) = Cardinality(Desc) - Cardinality(Desc \cap T)
    BY <1>3, FS_Difference
  <2>3. QED
    BY <1>3, <2>1, <2>2
<1>5. ASSUME NEW k \in 1 .. n PROVE Nth(a, k - 1) \in Between(a, b)
  <2>1. PICK i : i = Nth(a, k - 1)
    OBVIOUS
  <2>2. i \in Idx /\ IF a <= b THEN a <= i /\ i < b ELSE a <= i \/ i < b
    BY <1>1, <1>2, <1>5, <2>1 DEF Nth, Ahead, Idx
  <2>3. i \in Between(a, b)
    BY <2>2, BetweenIs
  <2>4. QED
    BY <2>1, <2>3
<1>6. ASSUME NEW k \in 1 .. n, NEW l \in 1 .. n, Nth(a, k - 1) = Nth(a, l - 1) PROVE k = l
  BY <1>1, <1>2, <1>6 DEF Nth
<1> DEFINE f == [k \in 1 .. n |-> ring[Nth(a, k - 1) % QN]]
<1>7. \A i \in Between(a, b) : ring[i % QN] \in Desc \ T
  <2> TAKE i \in Between(a, b)
  <2>1. i \in Idx
    BY BetweenIs
  <2>2. QED
    BY <2>1, SlotType
<1>8. f \in [1 .. n -> Desc \ T]
  BY <1>5, <1>7
<1>9. ASSUME NEW k \in 1 .. n, NEW l \in 1 .. n, f[k] = f[l] PROVE k = l
  <2>1. ring[Nth(a, k - 1) % QN] = ring[Nth(a, l - 1) % QN]
    BY <1>9
  <2>2. Nth(a, k - 1) = Nth(a, l - 1)
    BY <1>5, <2>1
  <2>3. QED
    BY <1>6, <2>2
<1> HIDE DEF f
<1>10. f \in Injection(1 .. n, Desc \ T)
  BY <1>8, <1>9 DEF Injection, IsInjective
<1>11. n <= QN - 3
  BY <1>3, <1>4, <1>10, FS_Injection
<1>12. Succ(b) # a
  BY <1>1, <1>2, <1>11, SuccIs DEF Ahead
<1>13. QED
  BY <1>2, <1>11, <1>12

-----------------------------------------------------------------------------
(* Descriptors.                                                            *)

LEMMA ThreeElements ==
  ASSUME NEW a, NEW b, NEW c, a # b, a # c, b # c
  PROVE  IsFiniteSet({a, b, c}) /\ Cardinality({a, b, c}) = 3
<1>1. IsFiniteSet({a}) /\ Cardinality({a}) = 1
  BY FS_Singleton
<1>2. IsFiniteSet({a} \cup {b}) /\ Cardinality({a} \cup {b}) = 2
  BY <1>1, FS_AddElement
<1>3. IsFiniteSet(({a} \cup {b}) \cup {c}) /\ Cardinality(({a} \cup {b}) \cup {c}) = 3
  <2>1. c \notin {a} \cup {b}
    OBVIOUS
  <2>2. QED
    BY <1>2, <2>1, FS_AddElement
<1>4. ({a} \cup {b}) \cup {c} = {a, b, c}
  OBVIOUS
<1>5. QED
  BY <1>3, <1>4

(***************************************************************************)
(* alloc_desc() finds a descriptor if there is one.                        *)
(***************************************************************************)
LEMMA AllocFinds ==
  ASSUME NEW f, f \subseteq Desc, f # {}
  PROVE  alloc_desc(f) \in f
<1>1. f \subseteq Nat
  BY DEF Desc
<1>2. \E d \in f : \A e \in f : d <= e
  BY <1>1, LeastNat
<1>3. QED
  BY <1>2, Zenon DEF alloc_desc

(***************************************************************************)
(* alloc_3_desc() takes three different free descriptors, or nothing.      *)
(***************************************************************************)
LEMMA AllocThree ==
  ASSUME NEW f, f \subseteq Desc
  PROVE  \/ ~alloc_3_desc(f).ok /\ alloc_3_desc(f).free = f
         \/ \E a, b, c \in f :
              /\ a # b /\ a # c /\ b # c
              /\ alloc_3_desc(f).ok
              /\ alloc_3_desc(f).free = f \ {a, b, c}
              /\ alloc_3_desc(f).idx = <<a, b, c>>
<1>1. IsFiniteSet(f) /\ Cardinality(f) \in Nat
  <2>1. IsFiniteSet(Desc)
    BY Sizes, FS_Interval DEF Desc
  <2>2. QED
    BY <2>1, FS_Subset, FS_CardinalityType
<1>2. CASE Cardinality(f) < 3
  BY <1>2 DEF alloc_3_desc
<1>3. CASE ~(Cardinality(f) < 3)
  <2> DEFINE a == alloc_desc(f)
             b == alloc_desc(f \ {a})
             c == alloc_desc(f \ {a, b})
  <2>1. a \in f
    <3>1. f # {}
      BY <1>3, FS_EmptySet
    <3>2. QED
      BY <3>1, AllocFinds
  <2> HIDE DEF a
  <2>2. IsFiniteSet(f \ {a}) /\ Cardinality(f \ {a}) = Cardinality(f) - 1
    BY <1>1, <2>1, FS_RemoveElement
  <2>3. b \in f \ {a}
    <3>1. f \ {a} # {}
      BY <1>1, <1>3, <2>2, FS_EmptySet
    <3>2. f \ {a} \subseteq Desc
      OBVIOUS
    <3>3. QED
      BY <3>1, <3>2, AllocFinds
  <2> HIDE DEF b
  <2>4. (f \ {a}) \ {b} = f \ {a, b}
    OBVIOUS
  <2>5. Cardinality(f \ {a, b}) = Cardinality(f) - 2
    <3>1. Cardinality((f \ {a}) \ {b}) = Cardinality(f \ {a}) - 1
      BY <2>2, <2>3, FS_RemoveElement
    <3>2. QED
      BY <1>1, <2>2, <2>4, <3>1
  <2>6. c \in f \ {a, b}
    <3>1. f \ {a, b} # {}
      BY <1>1, <1>3, <2>5, FS_EmptySet
    <3>2. f \ {a, b} \subseteq Desc
      OBVIOUS
    <3>3. QED
      BY <3>1, <3>2, AllocFinds
  <2> HIDE DEF c
  <2>7. alloc_3_desc(f) = [ok |-> TRUE, free |-> f \ {a, b, c}, idx |-> <<a, b, c>>]
    BY <1>3, Zenon DEF alloc_3_desc, a, b, c
  <2>8. /\ alloc_3_desc(f).ok
        /\ alloc_3_desc(f).free = f \ {a, b, c}
        /\ alloc_3_desc(f).idx = <<a, b, c>>
    BY <2>7
  <2>9. QED
    BY <2>1, <2>3, <2>6, <2>8
<1>4. QED
  BY <1>2, <1>3

(***************************************************************************)
(* A chain of three, as free_chain() walks it.                             *)
(***************************************************************************)
LEMMA ChainIsTrio ==
  ASSUME DiskTypeOK, NEW h, Shaped(h)
  PROVE  /\ ChainDescs(h) = Trio(h)
         /\ Chain(h)[QN] = -1
         /\ Trio(h) \subseteq Desc
         /\ Cardinality(Trio(h)) = 3
<1> DEFINE Step(g, k) == IF k = 0 THEN h
                         ELSE IF g[k-1] = -1 \/ "NEXT" \notin desc[g[k-1]].flags THEN -1
                         ELSE desc[g[k-1]].next
           F == [k \in 0 .. QN |-> IF k = 0 THEN h ELSE IF k = 1 THEN Second(h)
                                   ELSE IF k = 2 THEN Third(h) ELSE -1]
<1>1. /\ h \in Desc /\ Second(h) \in Desc /\ Third(h) \in Desc
      /\ QN \in Nat /\ QN >= 3
  BY Sizes DEF DiskTypeOK, Shaped, Second, Third
<1>2. h # -1 /\ Second(h) # -1 /\ Third(h) # -1
  BY <1>1 DEF Desc
<1>3. F = [k \in 0 .. QN |-> Step(F, k)]
  <2>1. ASSUME NEW k \in 0 .. QN PROVE F[k] = Step(F, k)
    <3>1. k = 0 => F[k] = Step(F, k)
      OBVIOUS
    <3>2. k = 1 => F[k] = Step(F, k)
      BY <1>1, <1>2 DEF Shaped, Second
    <3>3. k = 2 => F[k] = Step(F, k)
      BY <1>1, <1>2 DEF Shaped, Second, Third
    <3>4. k = 3 => F[k] = Step(F, k)
      BY <1>1, <1>2 DEF Shaped
    <3>5. k > 3 => F[k] = Step(F, k)
      BY <1>1
    <3>6. QED
      BY <1>1, <3>1, <3>2, <3>3, <3>4, <3>5
  <2>2. QED
    BY <2>1, Zenon
<1>4. Chain(h) = [k \in 0 .. QN |-> Step(Chain(h), k)]
  BY <1>3, Zenon DEF Chain
<1>5. PICK g : g = Chain(h)
  OBVIOUS
<1>6. g = [k \in 0 .. QN |-> Step(g, k)]
  BY <1>4, <1>5, Zenon
<1>7. \A k \in 0 .. QN : g[k] = Step(g, k)
  BY <1>6
<1>8. \A k \in 0 .. QN : g[k] = F[k]
  <2> DEFINE B == {k \in 0 .. QN : g[k] # F[k]}
  <2> SUFFICES ASSUME B # {} PROVE FALSE
    OBVIOUS
  <2>1. PICK k \in B : \A l \in B : k <= l
    <3>1. B \subseteq Nat
      OBVIOUS
    <3>2. QED
      BY <3>1, LeastNat
  <2>2. k \in 0 .. QN /\ g[k] # F[k] /\ F[k] = Step(F, k) /\ g[k] = Step(g, k)
    BY <1>3, <1>7
  <2>3. CASE k = 0
    BY <2>2, <2>3
  <2>4. CASE k # 0
    <3>1. k - 1 \in 0 .. QN /\ k - 1 \notin B
      BY <1>1, <2>1, <2>2, <2>4
    <3>2. g[k-1] = F[k-1]
      BY <3>1
    <3> HIDE DEF F, B
    <3>3. QED
      BY <2>2, <2>4, <3>2
  <2>5. QED
    BY <2>3, <2>4
<1>9. /\ g[0] = h /\ g[1] = Second(h) /\ g[2] = Third(h)
      /\ \A k \in 0 .. QN : k > 2 => g[k] = -1
  BY <1>1, <1>8
<1>10. {g[k] : k \in 0 .. QN} \ {-1} = Trio(h)
  <2>1. ASSUME NEW x, x \in {g[k] : k \in 0 .. QN} \ {-1} PROVE x \in Trio(h)
    <3>1. PICK k \in 0 .. QN : x = g[k] /\ x # -1
      BY <2>1
    <3>2. k = 0 \/ k = 1 \/ k = 2
      BY <1>1, <1>9, <3>1
    <3>3. QED
      BY <1>9, <3>1, <3>2 DEF Trio
  <2>2. ASSUME NEW x \in Trio(h) PROVE x \in {g[k] : k \in 0 .. QN} \ {-1}
    <3>1. 0 \in 0 .. QN /\ 1 \in 0 .. QN /\ 2 \in 0 .. QN
      BY <1>1
    <3>2. QED
      BY <1>2, <1>9, <3>1 DEF Trio
  <2>3. QED
    BY <2>1, <2>2
<1>11. ChainDescs(h) = Trio(h) /\ Chain(h)[QN] = -1
  BY <1>1, <1>5, <1>9, <1>10 DEF ChainDescs
<1>12. Trio(h) \subseteq Desc /\ Cardinality(Trio(h)) = 3
  BY <1>1, ThreeElements DEF Trio, Shaped
<1>13. QED
  BY <1>11, <1>12

-----------------------------------------------------------------------------
(* The outstanding chains by place.                                        *)

Prepared == IF kern = "publish" THEN {<<"prepared", avail.idx, avail.ring[avail.idx % QN]>>}
            ELSE {}
InAvail  == {<<"avail", i, avail.ring[i % QN]>> : i \in Between(dev.idx, avail.idx)}
InWork   == {<<w.step, 0, w.head>> : w \in dev.work}
InUsed   == {<<"used", i, used.ring[i % QN]>> : i \in Between(used_idx, used.idx)}

LEMMA Places == Outstanding = Prepared \cup InAvail \cup InWork \cup InUsed
BY DEF Outstanding, Prepared, InAvail, InWork, InUsed

Chains == AllShaped /\ Disjoint /\ NoneLost
Waits  == AllAsked /\ OneEach

(***************************************************************************)
(* An outstanding chain is known by its head.                              *)
(***************************************************************************)
LEMMA HeadsDiffer ==
  ASSUME Disjoint, NEW o \in Outstanding, NEW p \in Outstanding, o[3] = p[3]
  PROVE  o = p
BY DEF Disjoint, Trio

(***************************************************************************)
(* Three descriptors that head no chain in a ring leave room in the ring.  *)
(***************************************************************************)
LEMMA AvailRoom ==
  ASSUME DiskTypeOK, Disjoint, NEW T, T \subseteq Desc, Cardinality(T) = 3,
         \A o \in InAvail : o[3] \notin T
  PROVE  Ahead(dev.idx, avail.idx) <= QN - 3 /\ Succ(avail.idx) # dev.idx
<1>1. dev.idx \in Idx /\ avail.idx \in Idx /\ avail.ring \in [Desc -> Desc]
  BY DEF DiskTypeOK
<1>2. ASSUME NEW i \in Between(dev.idx, avail.idx)
      PROVE  /\ <<"avail", i, avail.ring[i % QN]>> \in InAvail
             /\ <<"avail", i, avail.ring[i % QN]>> \in Outstanding
  BY Places DEF InAvail
<1>3. \A i \in Between(dev.idx, avail.idx) : avail.ring[i % QN] \notin T
  BY <1>2
<1>4. ASSUME NEW i \in Between(dev.idx, avail.idx), NEW j \in Between(dev.idx, avail.idx),
             avail.ring[i % QN] = avail.ring[j % QN]
      PROVE  i = j
  <2>1. <<"avail", i, avail.ring[i % QN]>> = <<"avail", j, avail.ring[j % QN]>>
    BY <1>2, <1>4, HeadsDiffer
  <2>2. QED
    BY <2>1
<1>5. QED
  BY <1>1, <1>3, <1>4, Room

LEMMA UsedRoom ==
  ASSUME DiskTypeOK, Disjoint, NEW T, T \subseteq Desc, Cardinality(T) = 3,
         \A o \in InUsed : o[3] \notin T
  PROVE  Ahead(used_idx, used.idx) <= QN - 3 /\ Succ(used.idx) # used_idx
<1>1. used_idx \in Idx /\ used.idx \in Idx /\ used.ring \in [Desc -> Desc]
  BY DEF DiskTypeOK
<1>2. ASSUME NEW i \in Between(used_idx, used.idx)
      PROVE  /\ <<"used", i, used.ring[i % QN]>> \in InUsed
             /\ <<"used", i, used.ring[i % QN]>> \in Outstanding
  BY Places DEF InUsed
<1>3. \A i \in Between(used_idx, used.idx) : used.ring[i % QN] \notin T
  BY <1>2
<1>4. ASSUME NEW i \in Between(used_idx, used.idx), NEW j \in Between(used_idx, used.idx),
             used.ring[i % QN] = used.ring[j % QN]
      PROVE  i = j
  <2>1. <<"used", i, used.ring[i % QN]>> = <<"used", j, used.ring[j % QN]>>
    BY <1>2, <1>4, HeadsDiffer
  <2>2. QED
    BY <2>1
<1>5. QED
  BY <1>1, <1>3, <1>4, Room

(***************************************************************************)
(* The chain of an outstanding entry keeps out of the other entries.       *)
(***************************************************************************)
LEMMA OthersOutside ==
  ASSUME Disjoint, NEW x \in Outstanding, NEW o \in Outstanding, o # x
  PROVE  o[3] \notin Trio(x[3])
BY DEF Disjoint, Trio

(***************************************************************************)
(* What is said of a chain only depends on the descriptors.                *)
(***************************************************************************)
LEMMA SameDesc ==
  ASSUME desc' = desc, NEW h
  PROVE  /\ Second(h)' = Second(h) /\ Third(h)' = Third(h) /\ Trio(h)' = Trio(h)
         /\ ClientOf(h)' = ClientOf(h)
         /\ Shaped(h)' <=> Shaped(h)
BY DEF Second, Third, Trio, ClientOf, Shaped

(***************************************************************************)
(* A chain that changes its place is still outstanding.                    *)
(***************************************************************************)
LEMMA MoveChain ==
  ASSUME Chains, NEW x \in Outstanding, NEW y, y[3] = x[3],
         Outstanding' = (Outstanding \ {x}) \cup {y},
         desc' = desc, free' = free
  PROVE  Chains'
<1>1. \A o \in Outstanding' : o = y \/ (o \in Outstanding /\ o # x)
  OBVIOUS
<1>2. \A h : (Trio(h))' = Trio(h) /\ (Shaped(h)' <=> Shaped(h))
  BY SameDesc
<1>3. AllShaped'
  BY <1>1, <1>2 DEF AllShaped, Chains
<1>4. Disjoint'
  <2> SUFFICES ASSUME NEW o \in Outstanding', NEW p \in Outstanding', o # p
               PROVE  Trio(o[3]) \cap Trio(p[3]) = {}
    BY <1>2 DEF Disjoint
  <2>1. PICK a \in Outstanding : a[3] = o[3] /\ (o = y => a = x) /\ (o # y => a = o /\ o # x)
    BY <1>1
  <2>2. PICK b \in Outstanding : b[3] = p[3] /\ (p = y => b = x) /\ (p # y => b = p /\ p # x)
    BY <1>1
  <2>3. a # b
    BY <2>1, <2>2
  <2>4. QED
    BY <2>1, <2>2, <2>3 DEF Chains, Disjoint
<1>5. NoneLost'
  <2> SUFFICES ASSUME NEW d \in Desc
               PROVE  d \in free <=> \A o \in Outstanding' : d \notin Trio(o[3])
    BY <1>2 DEF NoneLost
  <2>1. d \in free <=> \A o \in Outstanding : d \notin Trio(o[3])
    BY DEF Chains, NoneLost
  <2>2. QED
    BY <1>1, <2>1
<1>6. QED
  BY <1>3, <1>4, <1>5 DEF Chains

\* What a waiting client and its request need to have in common stays.
SameRequest(c) ==
  /\ ide'[c].pc = ide[c].pc
  /\ req'[c].status = req[c].status
  /\ req'[c].write = req[c].write
  /\ req'[c].sector = req[c].sector

(***************************************************************************)
(* A step that only moves unanswered chains, or takes some away, leaves    *)
(* the others with their clients.                                          *)
(***************************************************************************)
LEMMA WaitsKept ==
  ASSUME Waits, Disjoint', desc' = desc, outhdr' = outhdr,
         \A o \in Unanswered' : \E p \in Unanswered : p[3] = o[3] /\ SameRequest(ClientOf(p[3]))
  PROVE  Waits'
<1>1. AllAsked'
  <2> SUFFICES ASSUME NEW o \in Unanswered' PROVE Asked(o[3])'
    BY DEF AllAsked
  <2>1. PICK p \in Unanswered : p[3] = o[3] /\ SameRequest(ClientOf(p[3]))
    OBVIOUS
  <2>2. Asked(p[3])
    BY DEF Waits, AllAsked
  <2>3. ClientOf(o[3])' = ClientOf(p[3])
    BY <2>1, SameDesc
  <2>4. QED
    BY <2>1, <2>2, <2>3 DEF Asked, SameRequest
<1>2. OneEach'
  <2> SUFFICES ASSUME NEW o \in Unanswered', NEW q \in Unanswered',
                      ClientOf(o[3])' = ClientOf(q[3])'
               PROVE  o = q
    BY DEF OneEach
  <2>1. PICK p \in Unanswered : p[3] = o[3]
    OBVIOUS
  <2>2. PICK r \in Unanswered : r[3] = q[3]
    OBVIOUS
  <2>3. ClientOf(o[3]) = ClientOf(q[3])
    BY SameDesc
  <2>4. p = r
    BY <2>1, <2>2, <2>3 DEF Waits, OneEach
  <2>5. o \in Outstanding' /\ q \in Outstanding' /\ o[3] = q[3]
    BY <2>1, <2>2, <2>4 DEF Unanswered
  <2>6. o[3] \in Trio(o[3])' /\ o[3] \in Trio(q[3])'
    BY <2>5 DEF Trio
  <2>7. QED
    BY <2>5, <2>6 DEF Disjoint
<1>3. QED
  BY <1>1, <1>2 DEF Waits

-----------------------------------------------------------------------------
(* The device.                                                             *)

Steps == {"taken", "moved", "answered"}

LEMMA Tags ==
  ASSUME DiskTypeOK
  PROVE  /\ \A o \in Prepared : o[1] = "prepared"
         /\ \A o \in InAvail : o[1] = "avail"
         /\ \A o \in InWork : o[1] \in Steps
         /\ \A o \in InUsed : o[1] = "used"
BY DEF Prepared, InAvail, InWork, InUsed, Steps, DiskTypeOK

LEMMA WorkIs ==
  ASSUME DiskTypeOK, NEW v \in dev.work, NEW w \in dev.work,
         v.head = w.head, v.step = w.step
  PROVE  v = w
<1>1. v \in [head : Desc, step : Steps] /\ w \in [head : Desc, step : Steps]
  BY DEF DiskTypeOK, Steps
<1>2. v = [head |-> v.head, step |-> v.step] /\ w = [head |-> w.head, step |-> w.step]
  BY <1>1
<1>3. QED
  BY <1>2, Zenon

(***************************************************************************)
(* The device goes on with a chain it has in work.                         *)
(***************************************************************************)
LEMMA AdvanceMoves ==
  ASSUME DiskTypeOK, NEW w \in dev.work, NEW t \in Steps, dev' = Advance(w, t),
         UNCHANGED <<kern, avail, used, used_idx>>
  PROVE  /\ <<w.step, 0, w.head>> \in Outstanding
         /\ Outstanding' = (Outstanding \ {<<w.step, 0, w.head>>}) \cup {<<t, 0, w.head>>}
         /\ dev' \in [phase : {"run", "check", "sleep"}, idx : Idx,
                      work : SUBSET [head : Desc, step : Steps]]
<1> DEFINE x == <<w.step, 0, w.head>>
           y == <<t, 0, w.head>>
<1>1. /\ dev \in [phase : {"run", "check", "sleep"}, idx : Idx,
                  work : SUBSET [head : Desc, step : Steps]]
  BY DEF DiskTypeOK, Steps
<1>2. /\ w.head \in Desc /\ w.step \in Steps
      /\ dev'.idx = dev.idx /\ dev'.phase = dev.phase
      /\ dev'.work = (dev.work \ {w}) \cup {[head |-> w.head, step |-> t]}
  <2>1. [w EXCEPT !.step = t] = [head |-> w.head, step |-> t]
    BY <1>1
  <2>2. QED
    BY <1>1, <2>1 DEF Advance
<1>3. dev' \in [phase : {"run", "check", "sleep"}, idx : Idx,
                work : SUBSET [head : Desc, step : Steps]]
  BY <1>1, <1>2 DEF Advance
<1>4. InWork' = (InWork \ {x}) \cup {y}
  <2>1. ASSUME NEW o \in InWork' PROVE o \in (InWork \ {x}) \cup {y}
    <3>1. PICK v \in dev'.work : o = <<v.step, 0, v.head>>
      BY DEF InWork
    <3>2. CASE v \in dev.work /\ v # w
      <4>1. o \in InWork
        BY <3>1, <3>2 DEF InWork
      <4>2. o # x
        BY <3>1, <3>2, WorkIs
      <4>3. QED
        BY <4>1, <4>2
    <3>3. CASE v = [head |-> w.head, step |-> t]
      BY <3>1, <3>3
    <3>4. QED
      BY <1>2, <3>2, <3>3
  <2>2. ASSUME NEW o \in (InWork \ {x}) \cup {y} PROVE o \in InWork'
    <3>1. CASE o \in InWork \ {x}
      <4>1. PICK v \in dev.work : o = <<v.step, 0, v.head>> /\ v # w
        BY <3>1 DEF InWork
      <4>2. v \in dev'.work
        BY <1>2, <4>1
      <4>3. QED
        BY <4>1, <4>2 DEF InWork
    <3>2. CASE o = y
      <4>1. [head |-> w.head, step |-> t] \in dev'.work
        BY <1>2
      <4>2. PICK v \in dev'.work : v.head = w.head /\ v.step = t
        BY <4>1
      <4>3. QED
        BY <3>2, <4>2 DEF InWork
    <3>3. QED
      BY <3>1, <3>2
  <2>3. QED
    BY <2>1, <2>2
<1>5. Prepared' = Prepared /\ InAvail' = InAvail /\ InUsed' = InUsed
  BY <1>2 DEF Prepared, InAvail, InUsed
<1>6. x \in InWork
  BY DEF InWork
<1>7. x \notin Prepared /\ x \notin InAvail /\ x \notin InUsed
  <2>1. x[1] \in Steps
    BY <1>2
  <2>2. QED
    BY <2>1, Tags DEF Steps
<1>8. /\ Outstanding = Prepared \cup InAvail \cup InWork \cup InUsed
      /\ Outstanding' = Prepared' \cup InAvail' \cup InWork' \cup InUsed'
  BY Places DEF Outstanding, Prepared, InAvail, InWork, InUsed
<1> HIDE DEF x, y
<1>9. Outstanding' = (Outstanding \ {x}) \cup {y} /\ x \in Outstanding
  BY <1>4, <1>5, <1>6, <1>7, <1>8
<1>10. QED
  BY <1>3, <1>9 DEF x, y

(***************************************************************************)
(* The device takes the next chain of the available ring.                  *)
(***************************************************************************)
LEMMA TakeMoves ==
  ASSUME DiskTypeOK, dev_take
  PROVE  LET h == avail.ring[dev.idx % QN]
         IN  /\ <<"avail", dev.idx, h>> \in Outstanding
             /\ Outstanding' = (Outstanding \ {<<"avail", dev.idx, h>>}) \cup {<<"taken", 0, h>>}
             /\ dev' \in [phase : {"run", "check", "sleep"}, idx : Idx,
                          work : SUBSET [head : Desc, step : Steps]]
<1>1. PICK h : h = avail.ring[dev.idx % QN]
  OBVIOUS
<1> DEFINE x == <<"avail", dev.idx, h>>
           y == <<"taken", 0, h>>
<1>2. /\ dev \in [phase : {"run", "check", "sleep"}, idx : Idx,
                  work : SUBSET [head : Desc, step : Steps]]
      /\ dev.idx \in Idx /\ avail.idx \in Idx /\ avail.ring \in [Desc -> Desc]
  BY DEF DiskTypeOK, Steps
<1>3. h \in Desc
  BY <1>1, <1>2, SlotType
<1>4. /\ dev.idx # avail.idx /\ UNCHANGED <<kern, avail, used, used_idx>>
      /\ dev'.idx = Succ(dev.idx) /\ dev'.phase = dev.phase
      /\ dev'.work = dev.work \cup {[head |-> h, step |-> "taken"]}
      /\ dev' = [phase |-> dev.phase, idx |-> Succ(dev.idx),
                 work |-> dev.work \cup {[head |-> h, step |-> "taken"]}]
  BY <1>1, <1>2 DEF dev_take, DevStep, drv, Succ
<1>5. dev' \in [phase : {"run", "check", "sleep"}, idx : Idx,
                work : SUBSET [head : Desc, step : Steps]]
  <2>1. Succ(dev.idx) \in Idx
    BY <1>2, SuccIs
  <2>2. [head |-> h, step |-> "taken"] \in [head : Desc, step : Steps]
    BY <1>3 DEF Steps
  <2>3. QED
    BY <1>2, <1>4, <2>1, <2>2
<1>6. /\ dev.idx \in Between(dev.idx, avail.idx)
      /\ Between(dev'.idx, avail'.idx) = Between(dev.idx, avail.idx) \ {dev.idx}
  BY <1>2, <1>4, BetweenFirst
<1>7. InAvail' = InAvail \ {x} /\ x \in InAvail
  BY <1>1, <1>4, <1>6 DEF InAvail
<1>8. InWork' = InWork \cup {y}
  <2>1. ASSUME NEW o \in InWork' PROVE o \in InWork \cup {y}
    <3>1. PICK v \in dev'.work : o = <<v.step, 0, v.head>>
      BY DEF InWork
    <3>2. CASE v \in dev.work
      BY <3>1, <3>2 DEF InWork
    <3>3. CASE v = [head |-> h, step |-> "taken"]
      BY <3>1, <3>3
    <3>4. QED
      BY <1>4, <3>2, <3>3
  <2>2. ASSUME NEW o \in InWork PROVE o \in InWork'
    BY <1>4 DEF InWork
  <2>3. y \in InWork'
    <3>1. [head |-> h, step |-> "taken"] \in dev'.work
      BY <1>4
    <3>2. PICK v \in dev'.work : v.head = h /\ v.step = "taken"
      BY <3>1
    <3>3. QED
      BY <3>2 DEF InWork
  <2>4. QED
    BY <2>1, <2>2, <2>3
<1>9. Prepared' = Prepared /\ InUsed' = InUsed
  BY <1>4 DEF Prepared, InUsed
<1>10. x \notin Prepared /\ x \notin InWork /\ x \notin InUsed
  <2>1. x[1] = "avail"
    OBVIOUS
  <2>2. QED
    BY <2>1, Tags DEF Steps
<1>11. /\ Outstanding = Prepared \cup InAvail \cup InWork \cup InUsed
       /\ Outstanding' = Prepared' \cup InAvail' \cup InWork' \cup InUsed'
  BY Places DEF Outstanding, Prepared, InAvail, InWork, InUsed
<1> HIDE DEF x, y
<1>12. Outstanding' = (Outstanding \ {x}) \cup {y} /\ x \in Outstanding
  BY <1>7, <1>8, <1>9, <1>10, <1>11
<1>13. QED
  BY <1>1, <1>5, <1>12 DEF x, y

\* What dev_used does with a chain.
GivesBack(w) ==
  /\ w.step = "answered"
  /\ used' = [used EXCEPT !.ring[used.idx % QN] = w.head, !.idx = (@ + 1) % IdxMod]
  /\ dev' = [dev EXCEPT !.work = @ \ {w}]

(***************************************************************************)
(* The device puts a chain it has answered in the used ring, where it      *)
(* overwrites no entry virtio_disk_intr() has not seen.                    *)
(***************************************************************************)
LEMMA UsedMoves ==
  ASSUME DiskTypeOK, Chains, NEW w \in dev.work, GivesBack(w),
         UNCHANGED <<kern, avail, used_idx>>
  PROVE  /\ <<"answered", 0, w.head>> \in Outstanding
         /\ Outstanding' = (Outstanding \ {<<"answered", 0, w.head>>})
                             \cup {<<"used", used.idx, w.head>>}
         /\ dev' \in [phase : {"run", "check", "sleep"}, idx : Idx,
                      work : SUBSET [head : Desc, step : Steps]]
         /\ used' \in [flags : {0, 1}, idx : Idx, ring : [Desc -> Desc]]
<1>1. PICK h : h = w.head
  OBVIOUS
<1> DEFINE x == <<"answered", 0, h>>
           y == <<"used", used.idx, h>>
<1>2. /\ dev \in [phase : {"run", "check", "sleep"}, idx : Idx,
                  work : SUBSET [head : Desc, step : Steps]]
      /\ used \in [flags : {0, 1}, idx : Idx, ring : [Desc -> Desc]]
      /\ used.idx \in Idx /\ used_idx \in Idx /\ used.ring \in [Desc -> Desc]
  BY DEF DiskTypeOK, Steps
<1>3. h \in Desc /\ used.idx % QN \in Desc /\ Succ(used.idx) \in Idx
  BY <1>1, <1>2, SlotType, SuccIs
<1>4. /\ dev'.idx = dev.idx /\ dev'.phase = dev.phase /\ dev'.work = dev.work \ {w}
      /\ dev' \in [phase : {"run", "check", "sleep"}, idx : Idx,
                   work : SUBSET [head : Desc, step : Steps]]
  BY <1>2 DEF GivesBack
<1>5. /\ used' = [flags |-> used.flags, idx |-> Succ(used.idx),
                  ring |-> [used.ring EXCEPT ![used.idx % QN] = h]]
  BY <1>1, <1>2 DEF Succ, GivesBack
<1>6. /\ used'.idx = Succ(used.idx)
      /\ used'.ring = [used.ring EXCEPT ![used.idx % QN] = h]
      /\ used' \in [flags : {0, 1}, idx : Idx, ring : [Desc -> Desc]]
  <2>1. PICK r \in [Desc -> Desc] : r = [used.ring EXCEPT ![used.idx % QN] = h]
    BY <1>2, <1>3
  <2>2. PICK s \in Idx, z \in {0, 1} : s = Succ(used.idx) /\ z = used.flags
    BY <1>2, <1>3
  <2>3. used' = [flags |-> z, idx |-> s, ring |-> r]
    BY <1>5, <2>1, <2>2, Zenon
  <2>4. /\ used'.idx = s /\ used'.ring = r
        /\ used' \in [flags : {0, 1}, idx : Idx, ring : [Desc -> Desc]]
    BY <2>3
  <2>5. QED
    BY <2>1, <2>2, <2>4
<1>7. x \in InWork /\ x \in Outstanding
  <2>1. x = <<w.step, 0, w.head>>
    BY <1>1 DEF GivesBack
  <2>2. x \in InWork
    BY <2>1 DEF InWork
  <2>3. QED
    BY <2>2, Places
<1>8. x[1] = "answered" /\ x[3] = h
  OBVIOUS
<1>9. x \notin Prepared /\ x \notin InAvail /\ x \notin InUsed
  BY <1>8, Tags
<1>10. Ahead(used_idx, used.idx) <= QN - 3 /\ Succ(used.idx) # used_idx
  <2>1. Shaped(h)
    BY <1>7, <1>8 DEF Chains, AllShaped
  <2>2. Trio(h) \subseteq Desc /\ Cardinality(Trio(h)) = 3
    BY <2>1, ChainIsTrio
  <2>3. \A o \in InUsed : o[3] \notin Trio(h)
    BY <1>7, <1>8, <1>9, Places, OthersOutside DEF Chains
  <2>4. QED
    BY <2>2, <2>3, UsedRoom DEF Chains
<1>11. Between(used_idx', used'.idx) = Between(used_idx, used.idx) \cup {used.idx}
  BY <1>2, <1>6, <1>10, BetweenLast
<1>12. ASSUME NEW i \in Between(used_idx, used.idx)
       PROVE  used'.ring[i % QN] = used.ring[i % QN]
  <2>1. i \in Idx
    BY <1>2, BetweenIs
  <2>2. i % QN # used.idx % QN
    <3>1. Ahead(used_idx, used.idx) < QN
      BY <1>2, <1>10, Sizes DEF Ahead, Idx
    <3>2. QED
      BY <1>2, <3>1, EntriesDiffer
  <2>3. i % QN \in Desc
    BY <2>1, SlotType
  <2>4. QED
    BY <1>2, <1>6, <2>2, <2>3
<1>13. used'.ring[used.idx % QN] = h
  BY <1>2, <1>3, <1>6
<1>14. InUsed' = InUsed \cup {y}
  BY <1>11, <1>12, <1>13 DEF InUsed
<1>15. InWork' = InWork \ {x}
  <2>1. ASSUME NEW o \in InWork' PROVE o \in InWork /\ o # x
    <3>1. PICK v \in dev.work : o = <<v.step, 0, v.head>> /\ v # w
      BY <1>4 DEF InWork
    <3>2. o # x
      BY <1>1, <3>1, WorkIs DEF GivesBack
    <3>3. QED
      BY <3>1, <3>2 DEF InWork
  <2>2. ASSUME NEW o \in InWork, o # x PROVE o \in InWork'
    <3>1. PICK v \in dev.work : o = <<v.step, 0, v.head>>
      BY DEF InWork
    <3>2. v # w
      BY <1>1, <2>2, <3>1 DEF GivesBack
    <3>3. QED
      BY <1>4, <3>1, <3>2 DEF InWork
  <2>3. QED
    BY <2>1, <2>2
<1>16. Prepared' = Prepared /\ InAvail' = InAvail
  BY <1>4 DEF Prepared, InAvail
<1>17. /\ Outstanding = Prepared \cup InAvail \cup InWork \cup InUsed
       /\ Outstanding' = Prepared' \cup InAvail' \cup InWork' \cup InUsed'
  BY Places DEF Outstanding, Prepared, InAvail, InWork, InUsed
<1> HIDE DEF x, y
<1>18. Outstanding' = (Outstanding \ {x}) \cup {y}
  BY <1>7, <1>9, <1>14, <1>15, <1>16, <1>17
<1>19. QED
  BY <1>1, <1>4, <1>6, <1>7, <1>18 DEF x, y

-----------------------------------------------------------------------------
(* The driver.                                                             *)

(***************************************************************************)
(* avail->idx++ hands the prepared chain to the device, and never makes    *)
(* the available ring look empty.                                          *)
(***************************************************************************)
LEMMA PublishMoves ==
  ASSUME DiskTypeOK, Chains, publish
  PROVE  LET h == avail.ring[avail.idx % QN]
         IN  /\ <<"prepared", avail.idx, h>> \in Outstanding
             /\ Outstanding' = (Outstanding \ {<<"prepared", avail.idx, h>>})
                                 \cup {<<"avail", avail.idx, h>>}
             /\ avail' \in [idx : Idx, ring : [Desc -> Desc]]
<1>1. PICK h : h = avail.ring[avail.idx % QN]
  OBVIOUS
<1> DEFINE x == <<"prepared", avail.idx, h>>
           y == <<"avail", avail.idx, h>>
<1>2. /\ avail \in [idx : Idx, ring : [Desc -> Desc]]
      /\ dev.idx \in Idx /\ avail.idx \in Idx /\ avail.ring \in [Desc -> Desc]
  BY DEF DiskTypeOK
<1>3. /\ kern = "publish" /\ kern' = "notify"
      /\ avail' = [idx |-> Succ(avail.idx), ring |-> avail.ring]
      /\ UNCHANGED <<dev, used, used_idx>>
  BY <1>2 DEF publish, Succ
<1>4. avail'.idx = Succ(avail.idx) /\ avail'.ring = avail.ring
  BY <1>3
<1>5. avail' \in [idx : Idx, ring : [Desc -> Desc]]
  BY <1>2, <1>3, SuccIs
<1>6. Prepared = {x} /\ Prepared' = {} /\ x \in Outstanding
  BY <1>1, <1>3, Places DEF Prepared
<1>7. x[1] = "prepared" /\ x[3] = h
  OBVIOUS
<1>8. x \notin InAvail /\ x \notin InWork /\ x \notin InUsed
  BY <1>7, Tags DEF Steps
<1>9. Succ(avail.idx) # dev.idx
  <2>1. Shaped(h)
    BY <1>6, <1>7 DEF Chains, AllShaped
  <2>2. Trio(h) \subseteq Desc /\ Cardinality(Trio(h)) = 3
    BY <2>1, ChainIsTrio
  <2>3. \A o \in InAvail : o[3] \notin Trio(h)
    BY <1>6, <1>7, <1>8, Places, OthersOutside DEF Chains
  <2>4. QED
    BY <2>2, <2>3, AvailRoom DEF Chains
<1>10. Between(dev'.idx, avail'.idx) = Between(dev.idx, avail.idx) \cup {avail.idx}
  BY <1>2, <1>3, <1>4, <1>9, BetweenLast
<1>11. InAvail' = InAvail \cup {y}
  BY <1>1, <1>4, <1>10 DEF InAvail
<1>12. InWork' = InWork /\ InUsed' = InUsed
  BY <1>3 DEF InWork, InUsed
<1>13. /\ Outstanding = Prepared \cup InAvail \cup InWork \cup InUsed
       /\ Outstanding' = Prepared' \cup InAvail' \cup InWork' \cup InUsed'
  BY Places DEF Outstanding, Prepared, InAvail, InWork, InUsed
<1> HIDE DEF x, y
<1>14. Outstanding' = (Outstanding \ {x}) \cup {y}
  BY <1>6, <1>8, <1>11, <1>12, <1>13
<1>15. QED
  BY <1>1, <1>5, <1>6, <1>14 DEF x, y

(***************************************************************************)
(* virtio_disk_intr() gives back exactly the descriptors of the chains in  *)
(* the used ring, and none of the assertions of free_desc() fails.         *)
(***************************************************************************)
LEMMA Recycle ==
  ASSUME DiskTypeOK, ~panicked, Chains, virtio_disk_intr,
         UNCHANGED <<desc, avail, used, kern, dev>>
  PROVE  /\ ~panicked' /\ panicked' \in BOOLEAN
         /\ used_idx' \in Idx
         /\ Outstanding' = Outstanding \ InUsed
         /\ free' \subseteq Desc
         /\ Chains'
<1>1. /\ used_idx' = used.idx /\ used_idx \in Idx /\ used.idx \in Idx
      /\ used.ring \in [Desc -> Desc] /\ free \subseteq Desc
  BY DEF virtio_disk_intr, DiskTypeOK
<1>2. InUsed' = {}
  <2>1. Between(used_idx', used'.idx) = {}
    BY <1>1, BetweenNone
  <2>2. QED
    BY <2>1 DEF InUsed
<1>3. Prepared' = Prepared /\ InAvail' = InAvail /\ InWork' = InWork
  BY DEF Prepared, InAvail, InWork
<1>4. /\ Outstanding = Prepared \cup InAvail \cup InWork \cup InUsed
      /\ Outstanding' = Prepared' \cup InAvail' \cup InWork' \cup InUsed'
  BY Places DEF Outstanding, Prepared, InAvail, InWork, InUsed
<1>5. Outstanding' = Outstanding \ InUsed
  <2>1. \A o \in Prepared \cup InAvail \cup InWork : o \notin InUsed
    BY Tags DEF Steps
  <2>2. QED
    BY <1>2, <1>3, <1>4, <2>1
<1>6. \A h \in Finished : \E o \in InUsed : o[3] = h /\ o \in Outstanding
  BY <1>4 DEF Finished, InUsed
<1>7. \A o \in InUsed : o[3] \in Finished
  BY DEF Finished, InUsed
<1>8. ASSUME NEW h \in Finished
      PROVE  /\ Shaped(h) /\ ChainDescs(h) = Trio(h) /\ Chain(h)[QN] = -1
             /\ Trio(h) \subseteq Desc /\ Trio(h) \cap free = {}
  <2>1. PICK o \in Outstanding : o[3] = h
    BY <1>6
  <2>2. Shaped(h)
    BY <2>1 DEF Chains, AllShaped
  <2>3. /\ ChainDescs(h) = Trio(h) /\ Chain(h)[QN] = -1 /\ Trio(h) \subseteq Desc
    BY <2>2, ChainIsTrio
  <2>4. Trio(h) \cap free = {}
    BY <2>1, <2>3 DEF Chains, NoneLost
  <2>5. QED
    BY <2>2, <2>3, <2>4
<1>9. ASSUME NEW h \in Finished, NEW g \in Finished, g # h
      PROVE  ChainDescs(g) \cap ChainDescs(h) = {}
  <2>1. PICK o \in Outstanding : o[3] = h
    BY <1>6
  <2>2. PICK p \in Outstanding : p[3] = g
    BY <1>6
  <2>3. Trio(g) \cap Trio(h) = {}
    BY <1>9, <2>1, <2>2 DEF Chains, Disjoint
  <2>4. QED
    BY <1>8, <2>3
<1>10. Cardinality(Finished) = Cardinality(Between(used_idx, used.idx))
  <2> DEFINE B == Between(used_idx, used.idx)
             f == [i \in B |-> used.ring[i % QN]]
  <2>1. IsFiniteSet(B)
    <3>1. B \subseteq Idx
      BY <1>1, BetweenIs
    <3>2. IsFiniteSet(Idx)
      BY Sizes, FS_Interval DEF Idx
    <3>3. QED
      BY <3>1, <3>2, FS_Subset
  <2>2. ASSUME NEW i \in B, NEW j \in B, used.ring[i % QN] = used.ring[j % QN] PROVE i = j
    <3>1. /\ <<"used", i, used.ring[i % QN]>> \in Outstanding
          /\ <<"used", j, used.ring[j % QN]>> \in Outstanding
      BY <1>4 DEF InUsed
    <3>2. <<"used", i, used.ring[i % QN]>> = <<"used", j, used.ring[j % QN]>>
      BY <2>2, <3>1, HeadsDiffer DEF Chains
    <3>3. QED
      BY <3>2
  <2>3. Finished = {used.ring[i % QN] : i \in B}
    BY DEF Finished
  <2> HIDE DEF B
  <2>4. f \in Bijection(B, Finished)
    <3>1. f \in [B -> Finished]
      BY <2>3
    <3>2. \A i, j \in B : f[i] = f[j] => i = j
      BY <2>2
    <3>3. \A t \in Finished : \E i \in B : f[i] = t
      BY <2>3
    <3>4. QED
      BY <3>1, <3>2, <3>3 DEF Bijection, Injection, Surjection, IsInjective
  <2>5. QED
    BY <2>1, <2>4, FS_Bijection DEF ExistsBijection, B
<1>11. ~panicked' /\ panicked' \in BOOLEAN
  <2>1. ~\E h \in Finished : \/ ChainDescs(h) \cap free # {}
                             \/ Chain(h)[QN] # -1
                             \/ \E g \in Finished \ {h} : ChainDescs(g) \cap ChainDescs(h) # {}
    BY <1>8, <1>9
  <2>2. panicked' = FALSE
    BY <1>10, <2>1, Zenon DEF virtio_disk_intr, free_chain
  <2>3. QED
    BY <2>2
<1>12. free' = free \cup UNION {Trio(h) : h \in Finished}
  <2>1. free' = free \cup UNION {ChainDescs(h) : h \in Finished}
    BY DEF virtio_disk_intr, free_chain
  <2>2. {ChainDescs(h) : h \in Finished} = {Trio(h) : h \in Finished}
    BY <1>8
  <2>3. QED
    BY <2>1, <2>2
<1>13. free' \subseteq Desc
  BY <1>1, <1>8, <1>12
<1>14. AllShaped' /\ Disjoint'
  BY <1>5, SameDesc DEF Chains, AllShaped, Disjoint
<1>15. NoneLost'
  <2> SUFFICES ASSUME NEW d \in Desc
               PROVE  d \in free' <=> \A o \in Outstanding' : d \notin Trio(o[3])
    BY SameDesc DEF NoneLost
  <2>1. d \in free' <=> d \in free \/ \E o \in InUsed : d \in Trio(o[3])
    BY <1>6, <1>7, <1>12
  <2>2. d \in free <=> \A o \in Outstanding : d \notin Trio(o[3])
    BY DEF Chains, NoneLost
  <2>3. InUsed \subseteq Outstanding
    BY <1>4
  <2>4. \A o, p \in Outstanding : d \in Trio(o[3]) /\ d \in Trio(p[3]) => o = p
    BY DEF Chains, Disjoint
  <2>5. QED
    BY <1>5, <2>1, <2>2, <2>3, <2>4
<1>16. QED
  BY <1>1, <1>5, <1>11, <1>13, <1>14, <1>15 DEF Chains

-----------------------------------------------------------------------------
(* Every step preserves the invariant.  First the device's.                *)

Answered == {"answered", "used"}

LEMMA MoveWaits ==
  ASSUME Waits, Disjoint', NEW x \in Outstanding, NEW y, y[3] = x[3],
         Outstanding' = (Outstanding \ {x}) \cup {y},
         desc' = desc, outhdr' = outhdr,
         y[1] \notin Answered => x[1] \notin Answered,
         \A o \in Unanswered : o # x \/ y[1] \notin Answered => SameRequest(ClientOf(o[3]))
  PROVE  Waits'
<1>1. ASSUME NEW o \in Unanswered'
      PROVE  \E p \in Unanswered : p[3] = o[3] /\ SameRequest(ClientOf(p[3]))
  <2>1. o \in Outstanding' /\ o[1] \notin Answered
    BY DEF Unanswered, Answered
  <2>2. CASE o = y
    <3>1. x \in Unanswered
      BY <2>1, <2>2 DEF Unanswered, Answered
    <3>2. QED
      BY <2>1, <2>2, <3>1
  <2>3. CASE o # y
    <3>1. o \in Unanswered /\ o # x
      BY <2>1, <2>3 DEF Unanswered, Answered
    <3>2. QED
      BY <3>1
  <2>4. QED
    BY <2>2, <2>3
<1>2. QED
  BY <1>1, WaitsKept

\* The parts of the invariant by which the proofs are arranged.
LEMMA InvParts ==
  /\ DiskInv <=> DiskTypeOK /\ ~panicked /\ Chains /\ Waits /\ InBlock
  /\ DiskInv' <=> DiskTypeOK' /\ ~panicked' /\ Chains' /\ Waits' /\ InBlock'
BY DEF DiskInv, Chains, Waits

LEMMA TakeStep ==
  ASSUME DiskInv, dev_take
  PROVE  DiskInv'
<1>1. DiskTypeOK /\ ~panicked /\ Chains /\ Waits /\ InBlock
  BY InvParts
<1>2. UNCHANGED <<free, desc, outhdr, avail, used_idx, panicked, ide, calls, dst, kern,
                  used, req, disk>>
  BY DEF dev_take, DevStep, drv
<1>3. PICK h : h = avail.ring[dev.idx % QN]
  OBVIOUS
<1> DEFINE x == <<"avail", dev.idx, h>>
           y == <<"taken", 0, h>>
<1>4. /\ x \in Outstanding
      /\ Outstanding' = (Outstanding \ {x}) \cup {y}
      /\ dev' \in [phase : {"run", "check", "sleep"}, idx : Idx,
                   work : SUBSET [head : Desc, step : Steps]]
  BY <1>1, <1>3, TakeMoves
<1>5. x[3] = y[3] /\ x[1] \notin Answered
  BY DEF Answered
<1> HIDE DEF x, y
<1>6. Chains'
  BY <1>1, <1>2, <1>4, <1>5, MoveChain
<1>7. \A c : SameRequest(c)
  BY <1>2 DEF SameRequest
<1>8. Waits'
  BY <1>1, <1>2, <1>4, <1>5, <1>6, <1>7, MoveWaits DEF Chains
<1>9. DiskTypeOK'
  BY <1>1, <1>2, <1>4 DEF DiskTypeOK, Steps
<1>10. InBlock'
  BY <1>1, <1>2 DEF InBlock
<1>11. QED
  BY <1>1, <1>2, <1>6, <1>8, <1>9, <1>10, InvParts

\* The steps in which the device only decides whether to sleep.
LEMMA SleepStep ==
  ASSUME DiskInv, dev_drained \/ dev_check
  PROVE  DiskInv'
<1>1. DiskTypeOK /\ ~panicked /\ Chains /\ Waits /\ InBlock
  BY InvParts
<1>2. UNCHANGED <<free, desc, outhdr, avail, used_idx, panicked, ide, calls, dst, kern,
                  req, disk>>
  BY DEF dev_drained, dev_check, DevStep, drv
<1>3. /\ dev \in [phase : {"run", "check", "sleep"}, idx : Idx,
                  work : SUBSET [head : Desc, step : Steps]]
      /\ used \in [flags : {0, 1}, idx : Idx, ring : [Desc -> Desc]]
  BY <1>1 DEF DiskTypeOK, Steps
<1>4. \E p \in {"run", "check", "sleep"}, z \in {0, 1} :
         dev' = [dev EXCEPT !.phase = p] /\ used' = [used EXCEPT !.flags = z]
  BY DEF dev_drained, dev_check
<1>5. /\ dev'.idx = dev.idx /\ dev'.work = dev.work
      /\ used'.idx = used.idx /\ used'.ring = used.ring
      /\ dev' \in [phase : {"run", "check", "sleep"}, idx : Idx,
                   work : SUBSET [head : Desc, step : Steps]]
      /\ used' \in [flags : {0, 1}, idx : Idx, ring : [Desc -> Desc]]
  BY <1>3, <1>4
<1>6. Outstanding' = Outstanding
  BY <1>2, <1>5 DEF Outstanding
<1>7. Chains'
  BY <1>1, <1>2, <1>6, SameDesc DEF Chains, AllShaped, Disjoint, NoneLost
<1>8. \A c : SameRequest(c)
  BY <1>2 DEF SameRequest
<1>9. Waits'
  <2>1. Unanswered' = Unanswered
    BY <1>6 DEF Unanswered
  <2>2. QED
    BY <1>1, <1>2, <1>7, <1>8, <2>1, WaitsKept DEF Chains
<1>10. DiskTypeOK'
  BY <1>1, <1>2, <1>5 DEF DiskTypeOK, Steps
<1>11. InBlock'
  BY <1>1, <1>2 DEF InBlock
<1>12. QED
  BY <1>1, <1>2, <1>7, <1>9, <1>10, <1>11, InvParts

LEMMA TransferStep ==
  ASSUME DiskInv, dev_transfer
  PROVE  DiskInv'
<1>1. DiskTypeOK /\ ~panicked /\ Chains /\ Waits /\ InBlock
  BY InvParts
<1>2. UNCHANGED <<free, desc, outhdr, avail, used_idx, panicked, ide, calls, dst, kern, used>>
  BY DEF dev_transfer, DevStep, drv
<1>3. PICK w \in dev.work :
        /\ w.step = "taken"
        /\ LET h == outhdr[desc[w.head].addr.at]
               b == desc[desc[w.head].next].addr.at
           IN IF h.type = "OUT"
              THEN disk' = [disk EXCEPT ![h.sector] = req[b].buf] /\ UNCHANGED req
              ELSE req' = [req EXCEPT ![b].buf = disk[h.sector]] /\ UNCHANGED disk
        /\ dev' = Advance(w, "moved")
  BY DEF dev_transfer
<1>4. PICK g : g = w.head
  OBVIOUS
<1> DEFINE x == <<"taken", 0, g>>
           y == <<"moved", 0, g>>
<1>5. /\ x \in Outstanding
      /\ Outstanding' = (Outstanding \ {x}) \cup {y}
      /\ dev' \in [phase : {"run", "check", "sleep"}, idx : Idx,
                   work : SUBSET [head : Desc, step : Steps]]
  <2>1. "moved" \in Steps
    BY DEF Steps
  <2>2. /\ <<w.step, 0, w.head>> \in Outstanding
        /\ Outstanding' = (Outstanding \ {<<w.step, 0, w.head>>}) \cup {<<"moved", 0, w.head>>}
        /\ dev' \in [phase : {"run", "check", "sleep"}, idx : Idx,
                     work : SUBSET [head : Desc, step : Steps]]
    BY <1>1, <1>2, <1>3, <2>1, AdvanceMoves
  <2>3. QED
    BY <1>3, <1>4, <2>2
<1>6. x[3] = g /\ y[3] = g /\ x[1] \notin Answered
  BY DEF Answered
<1> HIDE DEF x, y
<1>7. Shaped(g) /\ ClientOf(g) \in Client
  BY <1>1, <1>5, <1>6 DEF Chains, AllShaped, Shaped
<1>8. g \in Desc /\ desc[g].addr.at = g /\ desc[desc[g].next].addr.at = ClientOf(g)
  BY <1>7 DEF Shaped, ClientOf, Second
<1>9. /\ outhdr[g].sector \in Sector
      /\ disk \in [Sector -> Value]
      /\ req \in [Client -> [sector : Sector, write : BOOLEAN,
                             status : {"NO_RESP", "OK"}, buf : Value]]
  BY <1>1, <1>8 DEF DiskTypeOK
<1>10. \/ disk' = [disk EXCEPT ![outhdr[g].sector] = req[ClientOf(g)].buf] /\ UNCHANGED req
       \/ req' = [req EXCEPT ![ClientOf(g)].buf = disk[outhdr[g].sector]] /\ UNCHANGED disk
  BY <1>3, <1>4, <1>8
<1>11. /\ disk' \in [Sector -> Value]
       /\ req' \in [Client -> [sector : Sector, write : BOOLEAN,
                               status : {"NO_RESP", "OK"}, buf : Value]]
  BY <1>7, <1>9, <1>10
<1>12. \A c \in Client : /\ req'[c].sector = req[c].sector /\ req'[c].write = req[c].write
                         /\ req'[c].status = req[c].status
  BY <1>7, <1>9, <1>10
<1>13. Chains'
  BY <1>1, <1>2, <1>5, <1>6, MoveChain
<1>14. Waits'
  <2>1. \A o \in Unanswered : SameRequest(ClientOf(o[3]))
    <3> TAKE o \in Unanswered
    <3>1. ClientOf(o[3]) \in Client
      BY <1>1 DEF Unanswered, Chains, AllShaped, Shaped
    <3>2. QED
      BY <1>2, <1>12, <3>1 DEF SameRequest
  <2>2. QED
    BY <1>1, <1>2, <1>5, <1>6, <1>13, <2>1, MoveWaits DEF Chains
<1>15. DiskTypeOK'
  BY <1>1, <1>2, <1>5, <1>11 DEF DiskTypeOK, Steps
<1>16. InBlock'
  BY <1>1, <1>2, <1>12 DEF InBlock
<1>17. QED
  BY <1>1, <1>2, <1>13, <1>14, <1>15, <1>16, InvParts

LEMMA StatusStep ==
  ASSUME DiskInv, dev_status
  PROVE  DiskInv'
<1>1. DiskTypeOK /\ ~panicked /\ Chains /\ Waits /\ InBlock
  BY InvParts
<1>2. UNCHANGED <<free, desc, outhdr, avail, used_idx, panicked, ide, calls, dst, kern,
                  used, disk>>
  BY DEF dev_status, DevStep, drv
<1>3. PICK w \in dev.work :
        /\ w.step = "moved"
        /\ req' = [req EXCEPT ![desc[desc[desc[w.head].next].next].addr.at].status = "OK"]
        /\ dev' = Advance(w, "answered")
  BY DEF dev_status
<1>4. PICK g : g = w.head
  OBVIOUS
<1> DEFINE x == <<"moved", 0, g>>
           y == <<"answered", 0, g>>
<1>5. /\ x \in Outstanding
      /\ Outstanding' = (Outstanding \ {x}) \cup {y}
      /\ dev' \in [phase : {"run", "check", "sleep"}, idx : Idx,
                   work : SUBSET [head : Desc, step : Steps]]
  <2>1. "answered" \in Steps
    BY DEF Steps
  <2>2. /\ <<w.step, 0, w.head>> \in Outstanding
        /\ Outstanding' = (Outstanding \ {<<w.step, 0, w.head>>}) \cup {<<"answered", 0, w.head>>}
        /\ dev' \in [phase : {"run", "check", "sleep"}, idx : Idx,
                     work : SUBSET [head : Desc, step : Steps]]
    BY <1>1, <1>2, <1>3, <2>1, AdvanceMoves
  <2>3. QED
    BY <1>3, <1>4, <2>2
<1>6. x[3] = g /\ y[3] = g /\ x[1] \notin Answered /\ y[1] \in Answered
  BY DEF Answered
<1> HIDE DEF x, y
<1>7. Shaped(g) /\ ClientOf(g) \in Client
  BY <1>1, <1>5, <1>6 DEF Chains, AllShaped, Shaped
<1>8. desc[desc[desc[g].next].next].addr.at = ClientOf(g)
  BY <1>7 DEF Shaped, Third
<1>9. req \in [Client -> [sector : Sector, write : BOOLEAN,
                          status : {"NO_RESP", "OK"}, buf : Value]]
  BY <1>1 DEF DiskTypeOK
<1>10. req' = [req EXCEPT ![ClientOf(g)].status = "OK"]
  BY <1>3, <1>4, <1>8
<1>11. req' \in [Client -> [sector : Sector, write : BOOLEAN,
                            status : {"NO_RESP", "OK"}, buf : Value]]
  BY <1>7, <1>9, <1>10
<1>12. /\ \A c \in Client : req'[c].sector = req[c].sector
       /\ \A c \in Client : c # ClientOf(g) => req'[c] = req[c]
  BY <1>7, <1>9, <1>10
<1>13. Chains'
  BY <1>1, <1>2, <1>5, <1>6, MoveChain
<1>14. Waits'
  <2>1. ASSUME NEW o \in Unanswered, o # x PROVE SameRequest(ClientOf(o[3]))
    <3>1. ClientOf(o[3]) \in Client
      BY <1>1 DEF Unanswered, Chains, AllShaped, Shaped
    <3>2. x \in Unanswered
      BY <1>5, <1>6 DEF Unanswered, Answered
    <3>3. ClientOf(o[3]) # ClientOf(g)
      BY <1>1, <1>6, <2>1, <3>2 DEF Waits, OneEach
    <3>4. QED
      BY <1>2, <1>12, <3>1, <3>3 DEF SameRequest
  <2>2. QED
    BY <1>1, <1>2, <1>5, <1>6, <1>13, <2>1, MoveWaits DEF Chains
<1>15. DiskTypeOK'
  BY <1>1, <1>2, <1>5, <1>11 DEF DiskTypeOK, Steps
<1>16. InBlock'
  BY <1>1, <1>2, <1>12 DEF InBlock
<1>17. QED
  BY <1>1, <1>2, <1>13, <1>14, <1>15, <1>16, InvParts

LEMMA UsedStep ==
  ASSUME DiskInv, dev_used
  PROVE  DiskInv'
<1>1. DiskTypeOK /\ ~panicked /\ Chains /\ Waits /\ InBlock
  BY InvParts
<1>2. UNCHANGED <<free, desc, outhdr, avail, used_idx, panicked, ide, calls, dst, kern,
                  req, disk>>
  BY DEF dev_used, DevStep, drv
<1>3. PICK w \in dev.work : GivesBack(w)
  BY DEF dev_used, GivesBack
<1> DEFINE x == <<"answered", 0, w.head>>
           y == <<"used", used.idx, w.head>>
<1>4. /\ x \in Outstanding
      /\ Outstanding' = (Outstanding \ {x}) \cup {y}
      /\ dev' \in [phase : {"run", "check", "sleep"}, idx : Idx,
                   work : SUBSET [head : Desc, step : Steps]]
      /\ used' \in [flags : {0, 1}, idx : Idx, ring : [Desc -> Desc]]
  BY <1>1, <1>2, <1>3, UsedMoves
<1>5. x[3] = y[3] /\ y[1] \in Answered
  BY DEF Answered
<1> HIDE DEF x, y
<1>6. Chains'
  BY <1>1, <1>2, <1>4, <1>5, MoveChain
<1>7. \A c : SameRequest(c)
  BY <1>2 DEF SameRequest
<1>8. Waits'
  BY <1>1, <1>2, <1>4, <1>5, <1>6, <1>7, MoveWaits DEF Chains
<1>9. DiskTypeOK'
  BY <1>1, <1>2, <1>4 DEF DiskTypeOK, Steps
<1>10. InBlock'
  BY <1>1, <1>2 DEF InBlock
<1>11. QED
  BY <1>1, <1>2, <1>6, <1>8, <1>9, <1>10, InvParts

-----------------------------------------------------------------------------
(* The steps of the kernel and of ide.c.                                   *)

LEMMA PublishStep ==
  ASSUME DiskInv, publish
  PROVE  DiskInv'
<1>1. DiskTypeOK /\ ~panicked /\ Chains /\ Waits /\ InBlock
  BY InvParts
<1>2. /\ UNCHANGED <<free, desc, outhdr, used_idx, panicked, used, req, ide, calls, dst,
                     disk, dev>>
      /\ kern' = "notify"
  BY DEF publish
<1>3. PICK h : h = avail.ring[avail.idx % QN]
  OBVIOUS
<1> DEFINE x == <<"prepared", avail.idx, h>>
           y == <<"avail", avail.idx, h>>
<1>4. /\ x \in Outstanding
      /\ Outstanding' = (Outstanding \ {x}) \cup {y}
      /\ avail' \in [idx : Idx, ring : [Desc -> Desc]]
  BY <1>1, <1>3, PublishMoves
<1>5. x[3] = y[3] /\ x[1] \notin Answered
  BY DEF Answered
<1> HIDE DEF x, y
<1>6. Chains'
  BY <1>1, <1>2, <1>4, <1>5, MoveChain
<1>7. \A c : SameRequest(c)
  BY <1>2 DEF SameRequest
<1>8. Waits'
  BY <1>1, <1>2, <1>4, <1>5, <1>6, <1>7, MoveWaits DEF Chains
<1>9. DiskTypeOK'
  BY <1>1, <1>2, <1>4 DEF DiskTypeOK
<1>10. InBlock'
  BY <1>1, <1>2 DEF InBlock
<1>11. QED
  BY <1>1, <1>2, <1>6, <1>8, <1>9, <1>10, InvParts

LEMMA NotifyStep ==
  ASSUME DiskInv, notify \/ recheck
  PROVE  DiskInv'
<1>1. DiskTypeOK /\ ~panicked /\ Chains /\ Waits /\ InBlock
  BY InvParts
<1>2. /\ UNCHANGED <<free, desc, outhdr, avail, used_idx, panicked, ide, calls, dst, req, disk>>
      /\ kern \in {"notify", "flags"} /\ kern' \in {"user", "flags", "panic"}
  BY DEF notify, recheck, drv
<1>3. /\ dev \in [phase : {"run", "check", "sleep"}, idx : Idx,
                  work : SUBSET [head : Desc, step : Steps]]
      /\ used \in [flags : {0, 1}, idx : Idx, ring : [Desc -> Desc]]
  BY <1>1 DEF DiskTypeOK, Steps
<1>4. /\ dev' = dev \/ dev' = [dev EXCEPT !.phase = "run"]
      /\ used' = used \/ used' = [used EXCEPT !.flags = 1]
  BY DEF notify, recheck
<1>5. /\ dev'.idx = dev.idx /\ dev'.work = dev.work
      /\ used'.idx = used.idx /\ used'.ring = used.ring
      /\ dev' \in [phase : {"run", "check", "sleep"}, idx : Idx,
                   work : SUBSET [head : Desc, step : Steps]]
      /\ used' \in [flags : {0, 1}, idx : Idx, ring : [Desc -> Desc]]
  BY <1>3, <1>4
<1>6. Outstanding' = Outstanding
  BY <1>2, <1>5 DEF Outstanding
<1>7. Chains'
  BY <1>1, <1>2, <1>6, SameDesc DEF Chains, AllShaped, Disjoint, NoneLost
<1>8. \A c : SameRequest(c)
  BY <1>2 DEF SameRequest
<1>9. Waits'
  <2>1. Unanswered' = Unanswered
    BY <1>6 DEF Unanswered
  <2>2. QED
    BY <1>1, <1>2, <1>7, <1>8, <2>1, WaitsKept DEF Chains
<1>10. DiskTypeOK'
  BY <1>1, <1>2, <1>5 DEF DiskTypeOK, Steps
<1>11. InBlock'
  BY <1>1, <1>2 DEF InBlock
<1>12. QED
  BY <1>1, <1>2, <1>7, <1>9, <1>10, <1>11, InvParts

\* The timer and the two yields of ide.c: schedule() recycles what is finished.
LEMMA ScheduleStep ==
  ASSUME DiskInv, schedule \/ \E c \in Client : ide_yield(c) \/ ide_wait(c)
  PROVE  DiskInv'
<1>1. DiskTypeOK /\ ~panicked /\ Chains /\ Waits /\ InBlock
  BY InvParts
<1>2. /\ virtio_disk_intr
      /\ UNCHANGED <<desc, outhdr, avail, used, req, calls, dst, kern, disk, dev>>
  BY DEF schedule, ide_yield, ide_wait
<1>3. \/ ide' = ide
      \/ \E c \in Client : ide[c].pc = "full" /\ ide' = [ide EXCEPT ![c].pc = "issue"]
  BY DEF schedule, ide_yield, ide_wait
<1>4. ide \in [Client -> [pc : {"idle", "issue", "full", "poll", "next"},
                          left : 0 .. SECT2BLK - 1]]
  BY <1>1 DEF DiskTypeOK
<1>5. /\ ide' \in [Client -> [pc : {"idle", "issue", "full", "poll", "next"},
                              left : 0 .. SECT2BLK - 1]]
      /\ \A c \in Client :
           /\ ide'[c].left = ide[c].left
           /\ \/ ide'[c].pc = ide[c].pc
              \/ ide[c].pc = "full" /\ ide'[c].pc = "issue"
  BY <1>3, <1>4
<1>6. /\ ~panicked' /\ panicked' \in BOOLEAN
      /\ used_idx' \in Idx
      /\ Outstanding' = Outstanding \ InUsed
      /\ free' \subseteq Desc
      /\ Chains'
  BY <1>1, <1>2, Recycle
<1>7. \A o \in Unanswered' : o \in Unanswered /\ SameRequest(ClientOf(o[3]))
  <2> TAKE o \in Unanswered'
  <2>1. o \in Unanswered
    BY <1>6 DEF Unanswered
  <2>2. ClientOf(o[3]) \in Client
    BY <1>1, <2>1 DEF Unanswered, Chains, AllShaped, Shaped
  <2>3. ide[ClientOf(o[3])].pc = "poll"
    BY <1>1, <2>1 DEF Waits, AllAsked, Asked
  <2>4. QED
    BY <1>2, <1>5, <2>1, <2>2, <2>3 DEF SameRequest
<1>8. Waits'
  BY <1>1, <1>2, <1>6, <1>7, WaitsKept DEF Chains
<1>9. DiskTypeOK'
  BY <1>1, <1>2, <1>5, <1>6 DEF DiskTypeOK
<1>10. InBlock'
  BY <1>1, <1>2, <1>5 DEF InBlock
<1>11. QED
  BY <1>6, <1>8, <1>9, <1>10, InvParts

(***************************************************************************)
(* A step of ide.c between its system calls: only a client that has no     *)
(* unanswered chain changes its request.                                   *)
(***************************************************************************)
LEMMA UserWaits ==
  ASSUME DiskTypeOK, Chains, Waits, NEW c \in Client,
         ide[c].pc # "poll" \/ req[c].status # "NO_RESP",
         \A d \in Client \ {c} : ide'[d] = ide[d] /\ req'[d] = req[d],
         UNCHANGED <<drv, used, kern, dev>>
  PROVE  Chains' /\ Waits'
<1>1. Outstanding' = Outstanding /\ Unanswered' = Unanswered /\ desc' = desc /\ free' = free
      /\ outhdr' = outhdr
  BY DEF Outstanding, Unanswered, drv
<1>2. Chains'
  BY <1>1, SameDesc DEF Chains, AllShaped, Disjoint, NoneLost
<1>3. \A o \in Unanswered : SameRequest(ClientOf(o[3]))
  <2> TAKE o \in Unanswered
  <2>1. ClientOf(o[3]) \in Client
    BY DEF Unanswered, Chains, AllShaped, Shaped
  <2>2. ide[ClientOf(o[3])].pc = "poll" /\ req[ClientOf(o[3])].status = "NO_RESP"
    BY DEF Waits, AllAsked, Asked
  <2>3. ClientOf(o[3]) # c
    BY <2>2
  <2>4. QED
    BY <2>1, <2>3 DEF SameRequest
<1>4. QED
  BY <1>1, <1>2, <1>3, WaitsKept DEF Chains

LEMMA AnsweredStep ==
  ASSUME DiskInv, NEW c \in Client, ide_answered(c)
  PROVE  DiskInv'
<1>1. DiskTypeOK /\ ~panicked /\ Chains /\ Waits /\ InBlock
  BY InvParts
<1>2. /\ ide[c].pc = "poll" /\ req[c].status # "NO_RESP"
      /\ UNCHANGED <<drv, used, req, calls, kern, disk, dev>>
  BY DEF ide_answered
<1>3. /\ ide \in [Client -> [pc : {"idle", "issue", "full", "poll", "next"},
                             left : 0 .. SECT2BLK - 1]]
      /\ dst \in [Client -> Value] /\ req[c].buf \in Value
  BY <1>1 DEF DiskTypeOK
<1>4. PICK p \in {"idle", "next"} :
        ide' = [ide EXCEPT ![c].pc = p] /\ (p = "next" => ide[c].left # 0)
  BY DEF ide_answered
<1>5. /\ ide' \in [Client -> [pc : {"idle", "issue", "full", "poll", "next"},
                              left : 0 .. SECT2BLK - 1]]
      /\ \A d \in Client \ {c} : ide'[d] = ide[d]
      /\ ide'[c].pc = p /\ ide'[c].left = ide[c].left
  BY <1>3, <1>4
<1>6. dst' \in [Client -> Value]
  BY <1>3 DEF ide_answered
<1>7. Chains' /\ Waits'
  BY <1>1, <1>2, <1>5, UserWaits
<1>8. DiskTypeOK'
  BY <1>1, <1>2, <1>5, <1>6 DEF DiskTypeOK, drv
<1>9. InBlock'
  BY <1>1, <1>2, <1>4, <1>5 DEF InBlock
<1>10. QED
  BY <1>1, <1>2, <1>7, <1>8, <1>9, InvParts DEF drv

\* The stores of a turn of the loop keep the status and put data in the page only
\* to write it.
LEMMA PrepareIs ==
  ASSUME DiskTypeOK, NEW c \in Client, NEW w \in BOOLEAN, NEW s \in Sector, NEW v \in Value,
         Prepare(c, w, s, v)
  PROVE  /\ req' \in [Client -> [sector : Sector, write : BOOLEAN,
                                 status : {"NO_RESP", "OK"}, buf : Value]]
         /\ \A d \in Client \ {c} : req'[d] = req[d]
         /\ req'[c].sector = s /\ req'[c].write = w
<1>1. req \in [Client -> [sector : Sector, write : BOOLEAN,
                          status : {"NO_RESP", "OK"}, buf : Value]]
  BY DEF DiskTypeOK
<1>2. QED
  BY <1>1 DEF Prepare

LEMMA CallStep ==
  ASSUME DiskInv, NEW c \in Client, ide_call(c)
  PROVE  DiskInv'
<1>1. DiskTypeOK /\ ~panicked /\ Chains /\ Waits /\ InBlock
  BY InvParts
<1>2. PICK w \in BOOLEAN, secno \in Sector, v \in Src[c] :
        /\ ide[c].pc = "idle" /\ secno % SECT2BLK = 0
        /\ calls' = [calls EXCEPT ![c] = @ + 1]
        /\ Prepare(c, w, secno, v)
        /\ ide' = [ide EXCEPT ![c] = [pc |-> "issue", left |-> SECT2BLK - 1]]
        /\ UNCHANGED <<drv, used, dst, kern, disk, dev>>
  BY DEF ide_call
<1>3. /\ ide \in [Client -> [pc : {"idle", "issue", "full", "poll", "next"},
                             left : 0 .. SECT2BLK - 1]]
      /\ calls \in [Client -> Nat] /\ SECT2BLK \in Nat \ {0} /\ v \in Value
      /\ Sector \subseteq Nat
  BY <1>1, DiskAssumption DEF DiskTypeOK
<1>4. /\ ide' \in [Client -> [pc : {"idle", "issue", "full", "poll", "next"},
                              left : 0 .. SECT2BLK - 1]]
      /\ \A d \in Client \ {c} : ide'[d] = ide[d]
      /\ ide'[c].pc = "issue" /\ ide'[c].left = SECT2BLK - 1
  BY <1>2, <1>3
<1>5. calls' \in [Client -> Nat]
  BY <1>2, <1>3
<1>6. /\ req' \in [Client -> [sector : Sector, write : BOOLEAN,
                              status : {"NO_RESP", "OK"}, buf : Value]]
      /\ \A d \in Client \ {c} : req'[d] = req[d]
      /\ req'[c].sector = secno
  BY <1>1, <1>2, <1>3, PrepareIs
<1>7. Chains' /\ Waits'
  BY <1>1, <1>2, <1>4, <1>6, UserWaits
<1>8. DiskTypeOK'
  BY <1>1, <1>2, <1>4, <1>5, <1>6 DEF DiskTypeOK, drv
<1>9. \A k \in 0 .. SECT2BLK - 1 : secno + k \in Sector
  <2> TAKE k \in 0 .. SECT2BLK - 1
  <2>1. secno + k \in secno .. secno + SECT2BLK - 1
    BY <1>3
  <2>2. QED
    BY <1>2, <2>1, DiskAssumption
<1>10. InBlock'
  BY <1>1, <1>2, <1>4, <1>6, <1>9 DEF InBlock
<1>11. QED
  BY <1>1, <1>2, <1>7, <1>8, <1>10, InvParts DEF drv

LEMMA NextStep ==
  ASSUME DiskInv, NEW c \in Client, ide_next(c)
  PROVE  DiskInv'
<1>1. DiskTypeOK /\ ~panicked /\ Chains /\ Waits /\ InBlock
  BY InvParts
<1>2. PICK v \in Src[c] :
        /\ ide[c].pc = "next"
        /\ Prepare(c, req[c].write, req[c].sector + 1, v)
        /\ ide' = [ide EXCEPT ![c] = [pc |-> "issue", left |-> @.left - 1]]
        /\ UNCHANGED <<drv, used, calls, dst, kern, disk, dev>>
  BY DEF ide_next
<1>3. /\ ide \in [Client -> [pc : {"idle", "issue", "full", "poll", "next"},
                             left : 0 .. SECT2BLK - 1]]
      /\ SECT2BLK \in Nat \ {0} /\ v \in Value /\ Sector \subseteq Nat
      /\ req[c].write \in BOOLEAN /\ req[c].sector \in Sector
      /\ ide[c].left \in 0 .. SECT2BLK - 1
  BY <1>1, DiskAssumption DEF DiskTypeOK
<1>4. /\ ide[c].left # 0 /\ ide[c].left \in Nat /\ req[c].sector \in Nat
      /\ \A k \in 0 .. ide[c].left : req[c].sector + k \in Sector
  <2>1. req[c].sector \in Nat
    BY <1>3
  <2>2. ide[c].left \in Nat
    BY <1>3
  <2>3. QED
    BY <1>1, <1>2, <2>1, <2>2 DEF InBlock
<1>5. PICK n \in 0 .. SECT2BLK - 1 : n = ide[c].left - 1
  BY <1>3, <1>4
<1>6. /\ ide' \in [Client -> [pc : {"idle", "issue", "full", "poll", "next"},
                              left : 0 .. SECT2BLK - 1]]
      /\ \A d \in Client \ {c} : ide'[d] = ide[d]
      /\ ide'[c].pc = "issue" /\ ide'[c].left = n
  BY <1>2, <1>3, <1>5
<1>7. \A k \in 0 .. n : (req[c].sector + 1) + k \in Sector
  <2> TAKE k \in 0 .. n
  <2>1. req[c].sector \in Nat /\ ide[c].left \in Nat
    BY <1>4
  <2>2. k + 1 \in 0 .. ide[c].left /\ (req[c].sector + 1) + k = req[c].sector + (k + 1)
    BY <1>5, <2>1
  <2>3. QED
    BY <1>4, <2>2
<1>8. req[c].sector + 1 \in Sector
  <2>1. 1 \in 0 .. ide[c].left
    BY <1>3, <1>4
  <2>2. QED
    BY <1>4, <2>1
<1>9. /\ req' \in [Client -> [sector : Sector, write : BOOLEAN,
                              status : {"NO_RESP", "OK"}, buf : Value]]
      /\ \A d \in Client \ {c} : req'[d] = req[d]
      /\ req'[c].sector = req[c].sector + 1
  <2>1. Prepare(c, req[c].write, req[c].sector + 1, v)
    BY <1>2
  <2>2. req[c].write \in BOOLEAN /\ v \in Value
    BY <1>3
  <2> HIDE DEF DiskTypeOK
  <2>3. QED
    BY <1>1, <1>8, <2>1, <2>2, PrepareIs, Zenon
<1>10. Chains' /\ Waits'
  BY <1>1, <1>2, <1>6, <1>9, UserWaits
<1>11. DiskTypeOK'
  BY <1>1, <1>2, <1>6, <1>9 DEF DiskTypeOK, drv
<1>12. InBlock'
  BY <1>1, <1>6, <1>7, <1>9 DEF InBlock
<1>13. QED
  BY <1>1, <1>2, <1>10, <1>11, <1>12, InvParts DEF drv

\* What an accepted request of c stores, with its chain in descriptors i, j and k.
Header(c) == [type |-> IF req[c].write THEN "OUT" ELSE "IN", sector |-> req[c].sector]

LaysOut(c, i, j, k) ==
  /\ free' = free \ {i, j, k}
  /\ virtio_disk_req(c, <<i, j, k>>)
  /\ kern' = "publish"
  /\ UNCHANGED <<used_idx, used, dev>>

\* What of a chain only depends on its own descriptors.
SameChain(h) ==
  /\ Second(h)' = Second(h) /\ Third(h)' = Third(h) /\ Trio(h)' = Trio(h)
  /\ ClientOf(h)' = ClientOf(h)
  /\ Shaped(h)'
  /\ outhdr'[h] = outhdr[h]

LEMMA FillIs ==
  ASSUME DiskTypeOK, NEW c \in Client, NEW i \in Desc, NEW j \in Desc, NEW k \in Desc,
         i # j, i # k, j # k, LaysOut(c, i, j, k)
  PROVE  /\ desc' \in [Desc -> [addr : Addr, next : Desc, flags : SUBSET {"NEXT", "WRITE"}]]
         /\ \A h \in Desc \ {i, j, k} : desc'[h] = desc[h]
         /\ desc'[i].addr.at = i /\ desc'[i].next = j /\ "NEXT" \in desc'[i].flags
         /\ desc'[j].addr.at = c /\ desc'[j].next = k /\ "NEXT" \in desc'[j].flags
         /\ desc'[k].addr.at = c /\ "NEXT" \notin desc'[k].flags
<1> DEFINE D == [addr : Addr, next : Desc, flags : SUBSET {"NEXT", "WRITE"}]
<1>1. desc \in [Desc -> D]
  BY DEF DiskTypeOK
<1>2. PICK q, r, t :
        /\ q = [addr |-> [kind |-> "outhdr", at |-> i], next |-> j, flags |-> {"NEXT"}]
        /\ r = [addr |-> [kind |-> "buf", at |-> c], next |-> k,
                flags |-> IF req[c].write THEN {"NEXT"} ELSE {"NEXT", "WRITE"}]
        /\ t = [addr |-> [kind |-> "status", at |-> c], next |-> 0, flags |-> {"WRITE"}]
  OBVIOUS
<1>3. 0 \in Desc
  BY Sizes DEF Desc
<1>4. [kind |-> "outhdr", at |-> i] \in Addr /\ [kind |-> "buf", at |-> c] \in Addr
      /\ [kind |-> "status", at |-> c] \in Addr
  BY DEF Addr
<1>5. q \in D /\ r \in D /\ t \in D
  BY <1>2, <1>3, <1>4
<1>6. /\ q.addr.at = i /\ q.next = j /\ "NEXT" \in q.flags
      /\ r.addr.at = c /\ r.next = k /\ "NEXT" \in r.flags
      /\ t.addr.at = c /\ "NEXT" \notin t.flags
  BY <1>2
<1>7. desc' = [desc EXCEPT ![i] = q, ![j] = r, ![k] = t]
  BY <1>2 DEF LaysOut, virtio_disk_req, FillChain
<1> HIDE DEF D
<1>8. desc' \in [Desc -> D]
  BY <1>1, <1>5, <1>7
<1>9. /\ \A h \in Desc \ {i, j, k} : desc'[h] = desc[h]
      /\ desc'[i] = q /\ desc'[j] = r /\ desc'[k] = t
  BY <1>1, <1>7
<1>10. QED
  BY <1>6, <1>8, <1>9 DEF D

(***************************************************************************)
(* An accepted request adds a chain, overwrites no entry that the device   *)
(* has not read, and changes nothing about the other chains.               *)
(***************************************************************************)
LEMMA NewChain ==
  ASSUME DiskTypeOK, Chains, kern = "user", NEW c \in Client,
         NEW i \in free, NEW j \in free, NEW k \in free, i # j, i # k, j # k,
         LaysOut(c, i, j, k)
  PROVE  /\ Outstanding' = Outstanding \cup {<<"prepared", avail.idx, i>>}
         /\ \A o \in Outstanding : SameChain(o[3])
         /\ Shaped(i)' /\ ClientOf(i)' = c /\ outhdr'[i] = Header(c)
         /\ avail' \in [idx : Idx, ring : [Desc -> Desc]]
         /\ outhdr' \in [Desc -> [type : {"IN", "OUT"}, sector : Sector]]
         /\ Chains'
<1> DEFINE T == {i, j, k}
           x == <<"prepared", avail.idx, i>>
<1>1. /\ free \subseteq Desc /\ avail \in [idx : Idx, ring : [Desc -> Desc]]
      /\ outhdr \in [Desc -> [type : {"IN", "OUT"}, sector : Sector]]
      /\ desc \in [Desc -> [addr : Addr, next : Desc, flags : SUBSET {"NEXT", "WRITE"}]]
      /\ req[c].sector \in Sector
      /\ avail.idx \in Idx /\ dev.idx \in Idx /\ avail.ring \in [Desc -> Desc]
      /\ avail.idx % QN \in Desc
  BY SlotType DEF DiskTypeOK
<1>2. i \in Desc /\ j \in Desc /\ k \in Desc
  BY <1>1
<1>3. /\ \A h \in Desc \ {i, j, k} : desc'[h] = desc[h]
      /\ desc'[i].addr.at = i /\ desc'[i].next = j /\ "NEXT" \in desc'[i].flags
      /\ desc'[j].addr.at = c /\ desc'[j].next = k /\ "NEXT" \in desc'[j].flags
      /\ desc'[k].addr.at = c /\ "NEXT" \notin desc'[k].flags
  BY <1>2, FillIs
<1>4. /\ free' = free \ T /\ kern' = "publish" /\ UNCHANGED <<used_idx, used, dev>>
      /\ outhdr' = [outhdr EXCEPT ![i] = Header(c)]
      /\ avail' = [avail EXCEPT !.ring[avail.idx % QN] = i]
  BY DEF LaysOut, virtio_disk_req, Header
<1>5. /\ outhdr' \in [Desc -> [type : {"IN", "OUT"}, sector : Sector]]
      /\ outhdr'[i] = Header(c)
      /\ \A h \in Desc \ {i} : outhdr'[h] = outhdr[h]
  <2>1. Header(c) \in [type : {"IN", "OUT"}, sector : Sector]
    BY <1>1 DEF Header
  <2>2. QED
    BY <1>1, <1>2, <1>4, <2>1
<1>6. /\ avail'.idx = avail.idx
      /\ avail'.ring = [avail.ring EXCEPT ![avail.idx % QN] = i]
      /\ avail' \in [idx : Idx, ring : [Desc -> Desc]]
  BY <1>1, <1>2, <1>4
<1>7. /\ avail'.ring[avail.idx % QN] = i
      /\ \A e \in Desc : e # avail.idx % QN => avail'.ring[e] = avail.ring[e]
  BY <1>1, <1>6
<1>8. \A o \in Outstanding : Shaped(o[3]) /\ Trio(o[3]) \cap T = {}
  <2> TAKE o \in Outstanding
  <2>1. Shaped(o[3])
    BY DEF Chains, AllShaped
  <2>2. QED
    BY <1>2, <2>1 DEF Chains, NoneLost
<1>9. \A o \in Outstanding : SameChain(o[3])
  <2> TAKE o \in Outstanding
  <2>1. PICK h : h = o[3]
    OBVIOUS
  <2>2. Shaped(h) /\ Trio(h) \cap T = {}
    BY <1>8, <2>1
  <2>3. h \in Desc /\ Second(h) \in Desc /\ Third(h) \in Desc
    BY <1>1, <2>2 DEF Shaped, Second, Third
  <2>4. h \notin T /\ Second(h) \notin T /\ Third(h) \notin T
    BY <2>2 DEF Trio
  <2>5. /\ desc'[h] = desc[h] /\ desc'[Second(h)] = desc[Second(h)]
        /\ desc'[Third(h)] = desc[Third(h)] /\ outhdr'[h] = outhdr[h]
    BY <1>3, <1>5, <2>3, <2>4
  <2>6. Second(h)' = Second(h)
    BY <2>5 DEF Second
  <2>7. Third(h)' = Third(h)
    BY <2>5 DEF Second, Third
  <2>8. ClientOf(h)' = ClientOf(h)
    BY <2>5, <2>6 DEF ClientOf
  <2>9. Trio(h)' = Trio(h)
    BY <2>6, <2>7 DEF Trio
  <2>10. Shaped(h)'
    BY <2>2, <2>5, <2>6, <2>7, <2>8 DEF Shaped
  <2>11. QED
    BY <2>1, <2>5, <2>6, <2>7, <2>8, <2>9, <2>10 DEF SameChain
<1>10. Second(i)' = j /\ Third(i)' = k /\ ClientOf(i)' = c /\ Trio(i)' = T
  BY <1>3 DEF Second, Third, ClientOf, Trio
<1>11. Shaped(i)'
  BY <1>2, <1>3, <1>10 DEF Shaped
<1>12. InAvail' = InAvail
  <2>1. Cardinality(T) = 3
    BY ThreeElements
  <2>2. \A o \in InAvail : o[3] \notin T
    BY <1>8, Places DEF Trio
  <2>3. Ahead(dev.idx, avail.idx) <= QN - 3
    BY <1>2, <2>1, <2>2, AvailRoom DEF Chains
  <2>4. Ahead(dev.idx, avail.idx) < QN
    <3>1. dev.idx \in Int /\ avail.idx \in Int /\ IdxMod \in Int /\ QN \in Int
      BY <1>1, Sizes DEF Idx
    <3>2. Ahead(dev.idx, avail.idx) \in Int
      BY <3>1 DEF Ahead
    <3>3. QED
      BY <2>3, <3>1, <3>2
  <2>5. ASSUME NEW e \in Between(dev.idx, avail.idx)
        PROVE  avail'.ring[e % QN] = avail.ring[e % QN]
    <3>1. e % QN # avail.idx % QN
      BY <1>1, <2>4, EntriesDiffer
    <3>2. e \in Idx
      BY <1>1, BetweenIs
    <3>3. QED
      BY <1>7, <3>1, <3>2, SlotType
  <2>6. QED
    BY <1>4, <1>6, <2>5 DEF InAvail
<1>13. Outstanding' = Outstanding \cup {x}
  <2>1. Prepared = {} /\ Prepared' = {x}
    BY <1>4, <1>6, <1>7 DEF Prepared
  <2>2. InWork' = InWork /\ InUsed' = InUsed
    BY <1>4 DEF InWork, InUsed
  <2>3. /\ Outstanding = Prepared \cup InAvail \cup InWork \cup InUsed
        /\ Outstanding' = Prepared' \cup InAvail' \cup InWork' \cup InUsed'
    BY Places DEF Outstanding, Prepared, InAvail, InWork, InUsed
  <2> HIDE DEF x
  <2>4. QED
    BY <1>12, <2>1, <2>2, <2>3
<1>14. x[3] = i
  OBVIOUS
<1> HIDE DEF x
<1>15. AllShaped'
  BY <1>9, <1>11, <1>13, <1>14 DEF AllShaped, SameChain
<1>16. Disjoint'
  <2> SUFFICES ASSUME NEW o \in Outstanding', NEW p \in Outstanding', o # p
               PROVE  Trio(o[3])' \cap Trio(p[3])' = {}
    BY DEF Disjoint
  <2>1. CASE o = x
    BY <1>8, <1>9, <1>10, <1>13, <1>14, <2>1 DEF SameChain
  <2>2. CASE p = x
    BY <1>8, <1>9, <1>10, <1>13, <1>14, <2>2 DEF SameChain
  <2>3. CASE o # x /\ p # x
    BY <1>9, <1>13, <2>3 DEF SameChain, Chains, Disjoint
  <2>4. QED
    BY <2>1, <2>2, <2>3
<1>17. NoneLost'
  <2> SUFFICES ASSUME NEW e \in Desc
               PROVE  e \in free' <=> \A o \in Outstanding' : e \notin Trio(o[3])'
    BY DEF NoneLost
  <2>1. e \in free <=> \A o \in Outstanding : e \notin Trio(o[3])
    BY DEF Chains, NoneLost
  <2>2. \A o \in Outstanding : Trio(o[3])' = Trio(o[3])
    BY <1>9 DEF SameChain
  <2>3. QED
    BY <1>4, <1>10, <1>13, <1>14, <2>1, <2>2
<1>18. QED
  BY <1>5, <1>6, <1>9, <1>10, <1>11, <1>13, <1>15, <1>16, <1>17 DEF Chains, x

LEMMA RequestStep ==
  ASSUME DiskInv, NEW c \in Client, sys_dev_req(c)
  PROVE  DiskInv'
<1>1. DiskTypeOK /\ ~panicked /\ Chains /\ Waits /\ InBlock
  BY InvParts
<1>2. /\ kern = "user" /\ ide[c].pc = "issue"
      /\ UNCHANGED <<used_idx, panicked, used, calls, dst, disk, dev>>
      /\ free' = alloc_3_desc(free).free
      /\ IF alloc_3_desc(free).ok
         THEN /\ virtio_disk_req(c, alloc_3_desc(free).idx)
              /\ kern' = "publish"
              /\ ide' = [ide EXCEPT ![c].pc = "poll"]
         ELSE /\ ide' = [ide EXCEPT ![c].pc = "full"]
              /\ UNCHANGED <<outhdr, desc, avail, req, kern>>
  BY DEF sys_dev_req, Running
<1>3. /\ free \subseteq Desc
      /\ ide \in [Client -> [pc : {"idle", "issue", "full", "poll", "next"},
                             left : 0 .. SECT2BLK - 1]]
      /\ req \in [Client -> [sector : Sector, write : BOOLEAN,
                             status : {"NO_RESP", "OK"}, buf : Value]]
  BY <1>1 DEF DiskTypeOK
<1>4. ASSUME NEW p \in {"full", "poll"}, ide' = [ide EXCEPT ![c].pc = p]
      PROVE  /\ ide' \in [Client -> [pc : {"idle", "issue", "full", "poll", "next"},
                                     left : 0 .. SECT2BLK - 1]]
             /\ \A d \in Client \ {c} : ide'[d] = ide[d]
             /\ ide'[c].pc = p /\ ide'[c].left = ide[c].left
  BY <1>3, <1>4
<1>5. CASE ~alloc_3_desc(free).ok
  <2>1. /\ ide' = [ide EXCEPT ![c].pc = "full"]
        /\ UNCHANGED <<outhdr, desc, avail, req, kern>>
    BY <1>2, <1>5
  <2>2. free' = free
    BY <1>2, <1>3, <1>5, AllocThree
  <2>3. /\ ide' \in [Client -> [pc : {"idle", "issue", "full", "poll", "next"},
                                left : 0 .. SECT2BLK - 1]]
        /\ \A d \in Client \ {c} : ide'[d] = ide[d]
        /\ ide'[c].pc = "full" /\ ide'[c].left = ide[c].left
    BY <1>4, <2>1
  <2>4. UNCHANGED <<drv, used, kern, dev>>
    BY <1>2, <2>1, <2>2 DEF drv
  <2>5. Chains' /\ Waits'
    BY <1>1, <1>2, <2>1, <2>3, <2>4, UserWaits
  <2>6. DiskTypeOK'
    BY <1>1, <1>2, <2>1, <2>2, <2>3 DEF DiskTypeOK
  <2>7. InBlock'
    BY <1>1, <1>2, <2>1, <2>3 DEF InBlock
  <2>8. QED
    BY <1>1, <1>2, <2>5, <2>6, <2>7, InvParts
<1>6. CASE alloc_3_desc(free).ok
  <2>1. PICK i \in free, j \in free, k \in free :
          /\ i # j /\ i # k /\ j # k
          /\ alloc_3_desc(free).free = free \ {i, j, k}
          /\ alloc_3_desc(free).idx = <<i, j, k>>
    BY <1>3, <1>6, AllocThree
  <2>2. LaysOut(c, i, j, k)
    BY <1>2, <1>6, <2>1 DEF LaysOut
  <2>3. /\ kern' = "publish" /\ ide' = [ide EXCEPT ![c].pc = "poll"]
        /\ req' = [req EXCEPT ![c].status = "NO_RESP"]
        /\ free' \subseteq Desc
    BY <1>2, <1>3, <1>6, <2>1, <2>2 DEF LaysOut, virtio_disk_req
  <2>4. desc' \in [Desc -> [addr : Addr, next : Desc, flags : SUBSET {"NEXT", "WRITE"}]]
    BY <1>1, <1>3, <2>1, <2>2, FillIs
  <2> DEFINE x == <<"prepared", avail.idx, i>>
  <2>5. /\ Outstanding' = Outstanding \cup {x}
        /\ \A o \in Outstanding : SameChain(o[3])
        /\ Shaped(i)' /\ ClientOf(i)' = c /\ outhdr'[i] = Header(c)
        /\ avail' \in [idx : Idx, ring : [Desc -> Desc]]
        /\ outhdr' \in [Desc -> [type : {"IN", "OUT"}, sector : Sector]]
        /\ Chains'
    BY <1>1, <1>2, <2>1, <2>2, NewChain
  <2>6. /\ ide' \in [Client -> [pc : {"idle", "issue", "full", "poll", "next"},
                                left : 0 .. SECT2BLK - 1]]
        /\ \A d \in Client \ {c} : ide'[d] = ide[d]
        /\ ide'[c].pc = "poll" /\ ide'[c].left = ide[c].left
    BY <1>4, <2>3
  <2>7. /\ req' \in [Client -> [sector : Sector, write : BOOLEAN,
                                status : {"NO_RESP", "OK"}, buf : Value]]
        /\ \A d \in Client \ {c} : req'[d] = req[d]
        /\ req'[c].status = "NO_RESP" /\ req'[c].sector = req[c].sector
        /\ req'[c].write = req[c].write
    BY <1>3, <2>3
  <2>8. x[3] = i /\ x[1] \notin Answered
    BY DEF Answered
  <2> HIDE DEF x
  <2>9. \A o \in Unanswered' : o = x \/ o \in Unanswered
    BY <2>5 DEF Unanswered
  <2>10. ASSUME NEW o \in Unanswered
         PROVE  /\ ClientOf(o[3]) \in Client \ {c} /\ ClientOf(o[3])' = ClientOf(o[3])
                /\ Asked(o[3]) /\ outhdr'[o[3]] = outhdr[o[3]]
    <3>1. o \in Outstanding
      BY DEF Unanswered
    <3>2. ClientOf(o[3]) \in Client
      BY <1>1, <3>1 DEF Chains, AllShaped, Shaped
    <3>3. Asked(o[3])
      BY <1>1 DEF Waits, AllAsked
    <3>4. ClientOf(o[3]) # c
      BY <1>2, <3>3 DEF Asked
    <3>5. QED
      BY <2>5, <3>1, <3>2, <3>3, <3>4 DEF SameChain
  <2>11. AllAsked'
    <3> SUFFICES ASSUME NEW o \in Unanswered' PROVE Asked(o[3])'
      BY DEF AllAsked
    <3>1. CASE o = x
      BY <2>5, <2>6, <2>7, <2>8, <3>1 DEF Asked, Header
    <3>2. CASE o \in Unanswered
      <4>1. /\ ClientOf(o[3]) \in Client \ {c} /\ ClientOf(o[3])' = ClientOf(o[3])
            /\ Asked(o[3]) /\ outhdr'[o[3]] = outhdr[o[3]]
        BY <2>10, <3>2
      <4>2. QED
        BY <2>6, <2>7, <4>1 DEF Asked
    <3>3. QED
      BY <2>9, <3>1, <3>2
  <2>12. OneEach'
    <3> SUFFICES ASSUME NEW o \in Unanswered', NEW p \in Unanswered',
                        ClientOf(o[3])' = ClientOf(p[3])'
                 PROVE  o = p
      BY DEF OneEach
    <3>1. CASE o = x
      BY <2>5, <2>8, <2>9, <2>10, <3>1
    <3>2. CASE p = x
      BY <2>5, <2>8, <2>9, <2>10, <3>2
    <3>3. CASE o \in Unanswered /\ p \in Unanswered
      BY <1>1, <2>10, <3>3 DEF Waits, OneEach
    <3>4. QED
      BY <2>9, <3>1, <3>2, <3>3
  <2>13. DiskTypeOK'
    BY <1>1, <1>2, <2>3, <2>4, <2>5, <2>6, <2>7 DEF DiskTypeOK
  <2>14. InBlock'
    BY <1>1, <1>2, <2>6, <2>7 DEF InBlock
  <2>15. QED
    BY <1>1, <1>2, <2>5, <2>11, <2>12, <2>13, <2>14, InvParts DEF Waits
<1>7. QED
  BY <1>5, <1>6

-----------------------------------------------------------------------------

LEMMA InitInv == Init => DiskInv
<1> SUFFICES ASSUME Init PROVE DiskInv
  OBVIOUS
<1>1. PICK n \in Served, u \in Client :
        virtio_disk_init(n, u) /\ dev = [phase |-> "sleep", idx |-> n % IdxMod, work |-> {}]
  BY DEF Init
<1>2. n \in Nat /\ 0 \in Sector /\ SECT2BLK \in Nat \ {0} /\ Value # {}
  BY DiskAssumption
<1>3. n % IdxMod \in Idx /\ 0 \in Desc /\ 1 \in Desc /\ 2 \in Desc
  BY <1>2, Sizes DEF Idx, Desc
<1>4. (CHOOSE v \in Value : TRUE) \in Value
  BY <1>2
<1>5. desc \in [Desc -> [addr : Addr, next : Desc, flags : SUBSET {"NEXT", "WRITE"}]]
  <2> DEFINE D == [addr : Addr, next : Desc, flags : SUBSET {"NEXT", "WRITE"}]
  <2>1. [kind |-> "none", at |-> NULL] \in Addr /\ [kind |-> "outhdr", at |-> 0] \in Addr
        /\ [kind |-> "buf", at |-> u] \in Addr /\ [kind |-> "status", at |-> u] \in Addr
    BY <1>3 DEF Addr
  <2>2. NoDesc \in D
    BY <1>3, <2>1 DEF NoDesc
  <2>3. PICK q \in D, r \in D, t \in D :
          /\ q = [addr |-> [kind |-> "outhdr", at |-> 0], next |-> 1, flags |-> {"NEXT"}]
          /\ r = [addr |-> [kind |-> "buf", at |-> u], next |-> 2, flags |-> {"NEXT", "WRITE"}]
          /\ t = [addr |-> [kind |-> "status", at |-> u], next |-> 0, flags |-> {"WRITE"}]
    BY <1>3, <2>1
  <2>4. PICK zero : zero = [d \in Desc |-> NoDesc]
    OBVIOUS
  <2>5. desc = zero \/ desc = [zero EXCEPT ![0] = q, ![1] = r, ![2] = t]
    BY <1>1, <2>3, <2>4 DEF virtio_disk_init, FillChain
  <2> HIDE DEF D
  <2>6. zero \in [Desc -> D]
    BY <2>2, <2>4
  <2>7. desc \in [Desc -> D]
    BY <2>3, <2>5, <2>6
  <2>8. QED
    BY <2>7 DEF D
<1>6. DiskTypeOK
  <2>1. /\ avail \in [idx : Idx, ring : [Desc -> Desc]]
        /\ used \in [flags : {0, 1}, idx : Idx, ring : [Desc -> Desc]]
        /\ used_idx \in Idx /\ free \subseteq Desc
        /\ outhdr \in [Desc -> [type : {"IN", "OUT"}, sector : Sector]]
    BY <1>1, <1>2, <1>3 DEF virtio_disk_init
  <2>2. dev \in [phase : {"run", "check", "sleep"}, idx : Idx,
                 work : SUBSET [head : Desc, step : {"taken", "moved", "answered"}]]
    BY <1>1, <1>3
  <2>3. /\ req \in [Client -> [sector : Sector, write : BOOLEAN,
                               status : {"NO_RESP", "OK"}, buf : Value]]
        /\ dst \in [Client -> Value] /\ disk \in [Sector -> Value]
    BY <1>2, <1>4 DEF Init
  <2>4. /\ ide \in [Client -> [pc : {"idle", "issue", "full", "poll", "next"},
                               left : 0 .. SECT2BLK - 1]]
        /\ calls \in [Client -> Nat]
    BY <1>2 DEF Init
  <2>5. QED
    BY <1>5, <2>1, <2>2, <2>3, <2>4 DEF DiskTypeOK, Init
<1>7. Outstanding = {}
  <2>1. Between(n % IdxMod, n % IdxMod) = {}
    BY <1>3, BetweenNone
  <2>2. /\ avail.idx = n % IdxMod /\ used.idx = n % IdxMod /\ used_idx = n % IdxMod
        /\ dev.idx = n % IdxMod /\ dev.work = {}
    BY <1>1 DEF virtio_disk_init
  <2>3. QED
    BY <2>1, <2>2 DEF Outstanding, Init
<1>8. free = Desc
  BY <1>1 DEF virtio_disk_init
<1>9. AllShaped /\ Disjoint /\ NoneLost /\ AllAsked /\ OneEach
  BY <1>7, <1>8 DEF AllShaped, Disjoint, NoneLost, AllAsked, OneEach, Unanswered
<1>10. InBlock
  BY DEF Init, InBlock
<1>11. ~panicked
  BY DEF Init
<1>12. QED
  BY <1>6, <1>9, <1>10, <1>11 DEF DiskInv

LEMMA DiskStep == DiskInv /\ [Next]_vars => DiskInv'
<1> SUFFICES ASSUME DiskInv, [Next]_vars PROVE DiskInv'
  OBVIOUS
<1>1. CASE UNCHANGED vars
  <2>1. UNCHANGED <<free, desc, outhdr, avail, used_idx, panicked, used, req, ide, calls,
                    dst, kern, disk, dev>>
    BY <1>1 DEF vars, drv
  <2>2. Outstanding' = Outstanding /\ Unanswered' = Unanswered
    BY <2>1 DEF Outstanding, Unanswered
  <2>3. DiskTypeOK' /\ ~panicked' /\ InBlock'
    BY <2>1 DEF DiskInv, DiskTypeOK, InBlock
  <2>4. Chains'
    BY <2>1, <2>2, SameDesc DEF DiskInv, Chains, AllShaped, Disjoint, NoneLost
  <2>5. Waits'
    BY <2>1, <2>2, <2>4, WaitsKept DEF DiskInv, Chains, Waits, SameRequest
  <2>6. QED
    BY <2>3, <2>4, <2>5, InvParts
<1>2. ASSUME NEW c \in Client, ide_call(c) \/ ide_step(c) PROVE DiskInv'
  BY <1>2, CallStep, RequestStep, ScheduleStep, AnsweredStep, NextStep DEF ide_step
<1>3. CASE kernel \/ schedule
  BY <1>3, PublishStep, NotifyStep, ScheduleStep DEF kernel
<1>4. CASE dev_take \/ dev_drained \/ dev_check \/ dev_transfer \/ dev_status \/ dev_used
  BY <1>4, TakeStep, SleepStep, TransferStep, StatusStep, UsedStep
<1>5. QED
  BY <1>1, <1>2, <1>3, <1>4 DEF Next

LEMMA DiskIsSound == Spec => []DiskInv
BY InitInv, DiskStep, PTL DEF Spec

-----------------------------------------------------------------------------
(* What the invariant says of the descriptors and of the requests.         *)

(***************************************************************************)
(* Three descriptors for every outstanding chain make up all that are not  *)
(* free.                                                                   *)
(***************************************************************************)
LEMMA CountDescs ==
  ASSUME DiskTypeOK, Chains
  PROVE  Cardinality(free) + 3 * Cardinality(Outstanding) = QN
<1> DEFINE K == {1, 2, 3}
           P == Outstanding \X K
           At(o, k) == IF k = 1 THEN o[3] ELSE IF k = 2 THEN Second(o[3]) ELSE Third(o[3])
           f == [p \in P |-> At(p[1], p[2])]
           T == Desc \ free
<1>1. /\ IsFiniteSet(Desc) /\ Cardinality(Desc) = QN
      /\ free \subseteq Desc /\ IsFiniteSet(free)
  <2>1. IsFiniteSet(Desc) /\ Cardinality(Desc) = QN
    BY Sizes, FS_Interval DEF Desc
  <2>2. free \subseteq Desc
    BY DEF DiskTypeOK
  <2>3. QED
    BY <2>1, <2>2, FS_Subset
<1>2. IsFiniteSet(T) /\ Cardinality(T) = QN - Cardinality(free)
  <2>1. IsFiniteSet(T) /\ Cardinality(T) = Cardinality(Desc) - Cardinality(Desc \cap free)
    BY <1>1, FS_Difference
  <2>2. Desc \cap free = free
    BY <1>1
  <2>3. QED
    BY <1>1, <2>1, <2>2
<1>3. \A o \in Outstanding : Shaped(o[3]) /\ Trio(o[3]) \subseteq T
  <2> TAKE o \in Outstanding
  <2>1. Shaped(o[3])
    BY DEF Chains, AllShaped
  <2>2. Trio(o[3]) \subseteq Desc
    BY <2>1, ChainIsTrio
  <2>3. QED
    BY <2>1, <2>2 DEF Chains, NoneLost
<1>4. IsFiniteSet(Outstanding)
  <2> DEFINE g == [o \in Outstanding |-> o[3]]
  <2>1. g \in [Outstanding -> Desc]
    BY <1>3 DEF Trio
  <2>2. \A o, p \in Outstanding : g[o] = g[p] => o = p
    BY HeadsDiffer DEF Chains
  <2>3. g \in Injection(Outstanding, Desc)
    BY <2>1, <2>2 DEF Injection, IsInjective
  <2>4. QED
    BY <1>1, <2>3, FS_Injection DEF ExistsInjection
<1>5. IsFiniteSet(K) /\ Cardinality(K) = 3
  <2>1. 1 # 2 /\ 1 # 3 /\ 2 # 3
    OBVIOUS
  <2>2. QED
    BY <2>1, ThreeElements, Zenon
<1>6. IsFiniteSet(P) /\ Cardinality(P) = Cardinality(Outstanding) * 3
  BY <1>4, <1>5, FS_Product
<1>7. f \in [P -> T]
  <2> SUFFICES ASSUME NEW o \in Outstanding, NEW k \in K PROVE At(o, k) \in T
    OBVIOUS
  <2>1. QED
    BY <1>3 DEF Trio
<1>8. ASSUME NEW p \in P, NEW q \in P, f[p] = f[q] PROVE p = q
  <2>1. PICK o \in Outstanding, k \in K : p = <<o, k>>
    OBVIOUS
  <2>2. PICK r \in Outstanding, l \in K : q = <<r, l>>
    OBVIOUS
  <2>3. At(o, k) = At(r, l)
    BY <1>8, <2>1, <2>2
  <2>4. At(o, k) \in Trio(o[3]) /\ At(r, l) \in Trio(r[3])
    BY DEF Trio
  <2>5. o = r
    BY <2>3, <2>4 DEF Chains, Disjoint
  <2>6. Shaped(o[3])
    BY <1>3
  <2>7. k = l
    BY <2>3, <2>5, <2>6 DEF Shaped
  <2>8. QED
    BY <2>1, <2>2, <2>5, <2>7
<1>9. ASSUME NEW t \in T PROVE \E p \in P : f[p] = t
  <2>1. PICK o \in Outstanding : t \in Trio(o[3])
    BY DEF Chains, NoneLost
  <2>2. PICK k \in K : At(o, k) = t
    BY <2>1 DEF Trio
  <2>3. <<o, k>> \in P /\ f[<<o, k>>] = t
    BY <2>2
  <2>4. QED
    BY <2>3
<1>10. f \in Bijection(P, T)
  <2> HIDE DEF f, P, T
  <2>1. QED
    BY <1>7, <1>8, <1>9 DEF Bijection, Injection, Surjection, IsInjective
<1> HIDE DEF f, P, T
<1>11. Cardinality(T) = Cardinality(P)
  BY <1>6, <1>10, FS_Bijection DEF ExistsBijection
<1>12. Cardinality(Outstanding) \in Nat /\ Cardinality(free) \in Nat /\ QN \in Nat
  BY <1>1, <1>4, Sizes, FS_CardinalityType
<1>13. QED
  BY <1>2, <1>6, <1>11, <1>12

LEMMA InvConserves == DiskInv => DescConserved
<1> SUFFICES ASSUME DiskInv PROVE DescConserved
  OBVIOUS
<1>1. DiskTypeOK /\ ~panicked /\ Chains
  BY InvParts
<1>2. ASSUME NEW o \in Outstanding
      PROVE  /\ ChainDescs(o[3]) = Trio(o[3]) /\ Cardinality(ChainDescs(o[3])) = 3
             /\ ChainDescs(o[3]) \cap free = {}
  <2>1. Shaped(o[3])
    BY <1>1 DEF Chains, AllShaped
  <2>2. /\ ChainDescs(o[3]) = Trio(o[3]) /\ Trio(o[3]) \subseteq Desc
        /\ Cardinality(Trio(o[3])) = 3
    BY <1>1, <2>1, ChainIsTrio
  <2>3. Trio(o[3]) \cap free = {}
    BY <1>1, <2>2 DEF Chains, NoneLost
  <2>4. QED
    BY <2>2, <2>3
<1>3. \A o, p \in Outstanding : o # p => ChainDescs(o[3]) \cap ChainDescs(p[3]) = {}
  BY <1>1, <1>2 DEF Chains, Disjoint
<1>4. QED
  BY <1>1, <1>2, <1>3, CountDescs DEF DescConserved

(***************************************************************************)
(* However the device, the driver and its clients interleave, and wherever *)
(* the 16-bit indices of the rings wrap, every descriptor is free or       *)
(* belongs to exactly one outstanding chain of three, and no assertion of  *)
(* free_desc() fails (alloc_3_desc, virtio_disk_req, virtio_disk_intr).    *)
(* The panic over the flags in virtio_disk_req is another matter: it can   *)
(* happen (FlagsAsExpected).                                               *)
(***************************************************************************)
THEOREM DescriptorsAreConserved == Spec => []DescConserved
BY DiskIsSound, InvConserves, PTL

(***************************************************************************)
(* The device only works on the page of a request while its client polls   *)
(* the status there: ide.c may reuse the page as soon as it sees an answer *)
(* although its chain is recycled later.                                   *)
(***************************************************************************)
THEOREM PageIsLeftAlone == Spec => []PageInUse
<1>1. DiskInv => PageInUse
  BY DEF DiskInv, PageInUse, AllAsked, Unanswered, Asked, ClientOf, Second
<1>2. QED
  BY <1>1, DiskIsSound, PTL

-----------------------------------------------------------------------------
(* The refinement of SectorDisk.                                           *)

HasMoved(w, c) == w.step = "moved" /\ ClientOf(w.head) = c

LEMMA MovedIs ==
  ASSUME NEW c
  PROVE  /\ Moved(c) <=> req[c].status = "OK" \/ \E w \in dev.work : HasMoved(w, c)
         /\ Moved(c)' <=> req'[c].status = "OK" \/ \E w \in dev'.work : HasMoved(w, c)'
BY DEF Moved, HasMoved, ClientOf, Second

\* Nothing a caller can see of its call changes.
LEMMA SameCall ==
  ASSUME NEW c, PhaseOf(c)' = PhaseOf(c), req'[c].write = req[c].write,
         req'[c].sector = req[c].sector, req'[c].buf = req[c].buf
  PROVE  CallOf(c)' = CallOf(c)
BY DEF CallOf

LEMMA OneCall ==
  ASSUME NEW c \in Client, NEW r, CallOf(c)' = r,
         \A d \in Client \ {c} : CallOf(d)' = CallOf(d)
  PROVE  absCall' = [absCall EXCEPT ![c] = r]
<1>1. \A d \in Client : CallOf(d)' = IF d = c THEN r ELSE CallOf(d)
  OBVIOUS
<1>2. absCall' = [d \in Client |-> IF d = c THEN r ELSE CallOf(d)]
  BY <1>1 DEF absCall
<1>3. [absCall EXCEPT ![c] = r] = [d \in Client |-> IF d = c THEN r ELSE CallOf(d)]
  BY DEF absCall
<1>4. QED
  BY <1>2, <1>3, Zenon

\* A step that neither moves data, nor answers, nor changes a request.
LEMMA SamePhase ==
  ASSUME NEW c, ide'[c].pc = ide[c].pc, req'[c].status = req[c].status,
         \A w \in dev'.work : HasMoved(w, c)' => w \in dev.work /\ HasMoved(w, c),
         \A w \in dev.work : HasMoved(w, c) => w \in dev'.work /\ HasMoved(w, c)'
  PROVE  PhaseOf(c)' = PhaseOf(c)
<1>1. Moved(c)' <=> Moved(c)
  BY MovedIs
<1>2. QED
  BY <1>1 DEF PhaseOf

Stutter == UNCHANGED <<disk, absCall, dst>>

LEMMA AllSame ==
  ASSUME \A c \in Client : CallOf(c)' = CallOf(c), UNCHANGED <<disk, dst>>
  PROVE  Stutter
<1>1. absCall' = absCall
  BY DEF absCall
<1>2. QED
  BY <1>1 DEF Stutter

LEMMA SameHasMoved ==
  ASSUME NEW c, desc' = desc
  PROVE  \A w : HasMoved(w, c)' <=> HasMoved(w, c)
BY DEF HasMoved, ClientOf, Second

(***************************************************************************)
(* The steps a caller does not see.                                        *)
(***************************************************************************)
LEMMA DeviceStutters ==
  ASSUME DiskInv, dev_take \/ dev_drained \/ dev_check \/ dev_used \/ publish \/ notify \/ recheck
  PROVE  Stutter
<1>1. UNCHANGED <<desc, ide, req, disk, dst>>
  BY DEF dev_take, dev_drained, dev_check, dev_used, publish, notify, recheck, DevStep, drv
<1>2. \A w : w.step = "moved" => (w \in dev'.work <=> w \in dev.work)
  <2>1. dev \in [phase : {"run", "check", "sleep"}, idx : Idx,
                  work : SUBSET [head : Desc, step : Steps]]
    BY DEF DiskInv, DiskTypeOK, Steps
  <2>2. CASE dev_take
    <3>1. dev'.work = dev.work \cup {[head |-> avail.ring[dev.idx % QN], step |-> "taken"]}
      BY <2>1, <2>2 DEF dev_take
    <3>2. [head |-> avail.ring[dev.idx % QN], step |-> "taken"].step # "moved"
      OBVIOUS
    <3>3. QED
      BY <3>1, <3>2
  <2>3. CASE dev_used
    BY <2>1, <2>3 DEF dev_used
  <2>4. CASE dev_drained \/ dev_check \/ publish \/ notify \/ recheck
    BY <2>1, <2>4 DEF dev_drained, dev_check, publish, notify, recheck
  <2>5. QED
    BY <2>2, <2>3, <2>4
<1>3. ASSUME NEW c \in Client PROVE CallOf(c)' = CallOf(c)
  <2>1. \A w : HasMoved(w, c)' <=> HasMoved(w, c)
    BY <1>1, SameHasMoved
  <2>2. \A w : HasMoved(w, c) => w.step = "moved"
    BY DEF HasMoved
  <2>3. PhaseOf(c)' = PhaseOf(c)
    BY <1>1, <1>2, <2>1, <2>2, SamePhase
  <2>4. QED
    BY <1>1, <2>3, SameCall
<1>4. QED
  BY <1>1, <1>3, AllSame

LEMMA ScheduleStutters ==
  ASSUME DiskInv, schedule \/ \E c \in Client : ide_yield(c) \/ ide_wait(c)
  PROVE  Stutter
<1>1. UNCHANGED <<desc, req, dst, disk, dev>>
  BY DEF schedule, ide_yield, ide_wait
<1>2. \/ ide' = ide
      \/ \E c \in Client : ide[c].pc = "full" /\ ide' = [ide EXCEPT ![c].pc = "issue"]
  BY DEF schedule, ide_yield, ide_wait
<1>3. ide \in [Client -> [pc : {"idle", "issue", "full", "poll", "next"},
                          left : 0 .. SECT2BLK - 1]]
  BY DEF DiskInv, DiskTypeOK
<1>4. \A c \in Client : \/ ide'[c].pc = ide[c].pc
                        \/ ide[c].pc = "full" /\ ide'[c].pc = "issue"
  BY <1>2, <1>3
<1>5. ASSUME NEW c \in Client PROVE CallOf(c)' = CallOf(c)
  <2>1. CASE ide'[c].pc = ide[c].pc
    <3>1. PhaseOf(c)' = PhaseOf(c)
      BY <1>1, <2>1, SameHasMoved, SamePhase
    <3>2. QED
      BY <1>1, <3>1, SameCall
  <2>2. CASE ide[c].pc = "full" /\ ide'[c].pc = "issue"
    <3>1. PhaseOf(c)' = PhaseOf(c)
      BY <2>2 DEF PhaseOf
    <3>2. QED
      BY <1>1, <3>1, SameCall
  <2>3. QED
    BY <1>4, <2>1, <2>2
<1>6. QED
  BY <1>1, <1>5, AllSame

\* A chain in work belongs to the client that waits for it.
LEMMA WorkAsked ==
  ASSUME DiskInv, NEW w \in dev.work
  PROVE  /\ <<w.step, 0, w.head>> \in Outstanding
         /\ Shaped(w.head) /\ ClientOf(w.head) \in Client
         /\ w.step # "answered" => Asked(w.head)
         /\ \A v \in dev.work : /\ v.step # "answered" /\ w.step # "answered"
                                /\ ClientOf(v.head) = ClientOf(w.head)
                                => v.step = w.step
<1>1. DiskTypeOK /\ Chains /\ Waits
  BY InvParts
<1>2. \A v \in dev.work : <<v.step, 0, v.head>> \in Outstanding /\ v.step \in Steps
  BY <1>1, Places DEF InWork, DiskTypeOK, Steps
<1>3. \A v \in dev.work : v.step # "answered" => <<v.step, 0, v.head>> \in Unanswered
  BY <1>2 DEF Unanswered, Steps
<1>4. Shaped(w.head) /\ ClientOf(w.head) \in Client
  <2>1. PICK o \in Outstanding : o[3] = w.head
    BY <1>2
  <2>2. QED
    BY <1>1, <2>1 DEF Chains, AllShaped, Shaped
<1>5. w.step # "answered" => Asked(w.head)
  <2> SUFFICES ASSUME w.step # "answered" PROVE Asked(w.head)
    OBVIOUS
  <2>1. PICK o \in Unanswered : o[3] = w.head
    BY <1>3
  <2>2. QED
    BY <1>1, <2>1 DEF Waits, AllAsked
<1>6. ASSUME NEW v \in dev.work, v.step # "answered", w.step # "answered",
             ClientOf(v.head) = ClientOf(w.head)
      PROVE  v.step = w.step
  <2>1. PICK o \in Unanswered : o[1] = v.step /\ o[3] = v.head
    BY <1>3, <1>6
  <2>2. PICK p \in Unanswered : p[1] = w.step /\ p[3] = w.head
    BY <1>3, <1>6
  <2>3. o = p
    BY <1>1, <1>6, <2>1, <2>2 DEF Waits, OneEach
  <2>4. QED
    BY <2>1, <2>2, <2>3
<1>7. QED
  BY <1>2, <1>4, <1>5, <1>6

LEMMA AdvancedWork ==
  ASSUME DiskTypeOK, NEW w \in dev.work, NEW t \in Steps, dev' = Advance(w, t)
  PROVE  /\ \A v : v \in dev'.work <=> \/ v \in dev.work /\ v # w
                                       \/ v = [head |-> w.head, step |-> t]
<1>1. /\ dev \in [phase : {"run", "check", "sleep"}, idx : Idx,
                  work : SUBSET [head : Desc, step : Steps]]
  BY DEF DiskTypeOK, Steps
<1>2. [w EXCEPT !.step = t] = [head |-> w.head, step |-> t]
  BY <1>1
<1>3. dev'.work = (dev.work \ {w}) \cup {[head |-> w.head, step |-> t]}
  BY <1>1, <1>2 DEF Advance
<1>4. QED
  BY <1>3

\* The status is stored after the data has moved: the caller sees no difference.
LEMMA StatusStutters ==
  ASSUME DiskInv, dev_status
  PROVE  Stutter
<1>1. DiskTypeOK /\ Chains /\ Waits
  BY InvParts
<1>2. UNCHANGED <<desc, ide, disk, dst>>
  BY DEF dev_status, DevStep, drv
<1>3. PICK w \in dev.work :
        /\ w.step = "moved"
        /\ req' = [req EXCEPT ![desc[desc[desc[w.head].next].next].addr.at].status = "OK"]
        /\ dev' = Advance(w, "answered")
  BY DEF dev_status
<1>4. PICK b \in Client : b = ClientOf(w.head)
  BY WorkAsked
<1>5. desc[desc[desc[w.head].next].next].addr.at = b
  BY <1>4, WorkAsked DEF Shaped, Third
<1>6. req \in [Client -> [sector : Sector, write : BOOLEAN,
                          status : {"NO_RESP", "OK"}, buf : Value]]
  BY <1>1 DEF DiskTypeOK
<1>7. /\ \A c \in Client : /\ req'[c].sector = req[c].sector /\ req'[c].write = req[c].write
                           /\ req'[c].buf = req[c].buf
      /\ \A c \in Client \ {b} : req'[c].status = req[c].status
      /\ req'[b].status = "OK"
  BY <1>3, <1>5, <1>6
<1>8. \A v : v \in dev'.work <=> \/ v \in dev.work /\ v # w
                                 \/ v = [head |-> w.head, step |-> "answered"]
  BY <1>1, <1>3, AdvancedWork DEF Steps
<1>9. ASSUME NEW c \in Client PROVE PhaseOf(c)' = PhaseOf(c)
  <2>1. CASE c = b
    <3>1. Moved(c) /\ Moved(c)'
      <4>1. HasMoved(w, c)
        BY <1>3, <1>4, <2>1 DEF HasMoved
      <4>2. QED
        BY <1>7, <2>1, <4>1, MovedIs
    <3>2. QED
      BY <1>2, <3>1 DEF PhaseOf
  <2>2. CASE c # b
    <3>1. \A v : HasMoved(v, c)' <=> HasMoved(v, c)
      BY <1>2, SameHasMoved
    <3>2. ~HasMoved(w, c)
      BY <1>4, <2>2 DEF HasMoved
    <3>3. ~HasMoved([head |-> w.head, step |-> "answered"], c)
      BY DEF HasMoved
    <3>4. QED
      BY <1>2, <1>7, <1>8, <2>2, <3>1, <3>2, <3>3, SamePhase
  <2>3. QED
    BY <2>1, <2>2
<1>10. \A c \in Client : CallOf(c)' = CallOf(c)
  BY <1>7, <1>9, SameCall
<1>11. QED
  BY <1>2, <1>10, AllSame

\* The system call itself changes nothing a caller can see, accepted or refused.
LEMMA RequestStutters ==
  ASSUME DiskInv, NEW c \in Client, sys_dev_req(c)
  PROVE  Stutter
<1>1. DiskTypeOK /\ Chains /\ Waits
  BY InvParts
<1>2. /\ kern = "user" /\ ide[c].pc = "issue"
      /\ UNCHANGED <<used_idx, used, dst, disk, dev>>
      /\ free' = alloc_3_desc(free).free
      /\ IF alloc_3_desc(free).ok
         THEN /\ virtio_disk_req(c, alloc_3_desc(free).idx)
              /\ kern' = "publish"
              /\ ide' = [ide EXCEPT ![c].pc = "poll"]
         ELSE /\ ide' = [ide EXCEPT ![c].pc = "full"]
              /\ UNCHANGED <<outhdr, desc, avail, req, kern>>
  BY DEF sys_dev_req, Running
<1>3. /\ free \subseteq Desc
      /\ ide \in [Client -> [pc : {"idle", "issue", "full", "poll", "next"},
                             left : 0 .. SECT2BLK - 1]]
      /\ req \in [Client -> [sector : Sector, write : BOOLEAN,
                             status : {"NO_RESP", "OK"}, buf : Value]]
  BY <1>1 DEF DiskTypeOK
<1>4. \/ req' = req
      \/ req' = [req EXCEPT ![c].status = "NO_RESP"]
  BY <1>2 DEF virtio_disk_req
<1>5. /\ \A d \in Client : /\ req'[d].sector = req[d].sector /\ req'[d].write = req[d].write
                           /\ req'[d].buf = req[d].buf
      /\ \A d \in Client \ {c} : req'[d].status = req[d].status /\ ide'[d].pc = ide[d].pc
  BY <1>2, <1>3, <1>4
<1>6. \A w \in dev.work : ClientOf(w.head)' = ClientOf(w.head)
  <2>1. CASE ~alloc_3_desc(free).ok
    BY <1>2, <2>1 DEF ClientOf, Second
  <2>2. CASE alloc_3_desc(free).ok
    <3>1. PICK i \in free, j \in free, k \in free :
            /\ i # j /\ i # k /\ j # k
            /\ alloc_3_desc(free).free = free \ {i, j, k}
            /\ alloc_3_desc(free).idx = <<i, j, k>>
      BY <1>3, <2>2, AllocThree
    <3>2. LaysOut(c, i, j, k)
      BY <1>2, <2>2, <3>1 DEF LaysOut
    <3>3. \A o \in Outstanding : SameChain(o[3])
      BY <1>1, <1>2, <3>1, <3>2, NewChain
    <3>4. ASSUME NEW w \in dev.work PROVE SameChain(w.head)
      <4>1. PICK o \in Outstanding : o[3] = w.head
        BY WorkAsked
      <4>2. QED
        BY <3>3, <4>1
    <3>5. QED
      BY <3>4 DEF SameChain
  <2>3. QED
    BY <2>1, <2>2
<1>7. \A d : \A w \in dev.work : HasMoved(w, d)' <=> HasMoved(w, d)
  BY <1>6 DEF HasMoved
<1>8. \A w \in dev.work : ~HasMoved(w, c)
  <2> SUFFICES ASSUME NEW w \in dev.work, HasMoved(w, c) PROVE FALSE
    OBVIOUS
  <2>1. Asked(w.head)
    BY WorkAsked DEF HasMoved
  <2>2. QED
    BY <1>2, <2>1 DEF Asked, HasMoved
<1>9. ASSUME NEW d \in Client PROVE PhaseOf(d)' = PhaseOf(d)
  <2>1. CASE d # c
    BY <1>2, <1>5, <1>7, <2>1, SamePhase
  <2>2. CASE d = c /\ ~alloc_3_desc(free).ok
    <3>1. ide'[c].pc = "full"
      BY <1>2, <1>3, <2>2
    <3>2. QED
      BY <1>2, <2>2, <3>1 DEF PhaseOf
  <2>3. CASE d = c /\ alloc_3_desc(free).ok
    <3>1. ide'[c].pc = "poll" /\ req'[c].status = "NO_RESP"
      <4>1. req' = [req EXCEPT ![c].status = "NO_RESP"]
        BY <1>2, <2>3 DEF virtio_disk_req
      <4>2. ide' = [ide EXCEPT ![c].pc = "poll"]
        BY <1>2, <2>3
      <4>3. QED
        BY <1>3, <4>1, <4>2
    <3>2. ~Moved(c)'
      BY <1>2, <1>7, <1>8, <3>1, MovedIs
    <3>3. QED
      BY <1>2, <2>3, <3>1, <3>2 DEF PhaseOf
  <2>4. QED
    BY <2>1, <2>2, <2>3
<1>10. \A d \in Client : CallOf(d)' = CallOf(d)
  BY <1>5, <1>9, SameCall
<1>11. QED
  BY <1>2, <1>10, AllSame

\* Between the system calls of c the other callers see nothing.
LEMMA OthersSame ==
  ASSUME NEW c \in Client, UNCHANGED <<desc, dev>>,
         \A d \in Client \ {c} : ide'[d] = ide[d] /\ req'[d] = req[d]
  PROVE  \A d \in Client \ {c} : CallOf(d)' = CallOf(d)
<1> TAKE d \in Client \ {c}
<1>1. PhaseOf(d)' = PhaseOf(d)
  BY SameHasMoved, SamePhase
<1>2. QED
  BY <1>1, SameCall

LEMMA Invokes ==
  ASSUME DiskInv, DiskInv', NEW c \in Client, ide_call(c) \/ ide_next(c)
  PROVE  Abstract!Invoke(c)
<1>1. UNCHANGED <<desc, dev, disk, dst>>
  BY DEF ide_call, ide_next, drv
<1>2. /\ ide \in [Client -> [pc : {"idle", "issue", "full", "poll", "next"},
                             left : 0 .. SECT2BLK - 1]]
      /\ req \in [Client -> [sector : Sector, write : BOOLEAN,
                             status : {"NO_RESP", "OK"}, buf : Value]]
  BY DEF DiskInv, DiskTypeOK
<1>3. req' \in [Client -> [sector : Sector, write : BOOLEAN,
                           status : {"NO_RESP", "OK"}, buf : Value]]
  BY DEF DiskInv, DiskTypeOK
<1>4. ide[c].pc \in {"idle", "next"}
  BY DEF ide_call, ide_next
<1>5. ide'[c].pc = "issue" /\ \A d \in Client \ {c} : ide'[d] = ide[d]
  BY <1>2 DEF ide_call, ide_next
<1>6. \A d \in Client \ {c} : req'[d] = req[d]
  BY <1>2 DEF ide_call, ide_next, Prepare
<1>7. \A d \in Client \ {c} : CallOf(d)' = CallOf(d)
  BY <1>1, <1>5, <1>6, OthersSame
<1>8. PICK w \in BOOLEAN, s \in Sector, v \in Value :
        w = req'[c].write /\ s = req'[c].sector /\ v = req'[c].buf
  BY <1>3
<1>9. CallOf(c)' = [phase |-> "called", write |-> w, sector |-> s, value |-> v]
  BY <1>5, <1>8 DEF CallOf, PhaseOf
<1>10. absCall' = [absCall EXCEPT ![c] = [phase |-> "called", write |-> w, sector |-> s,
                                          value |-> v]]
  BY <1>7, <1>9, OneCall
<1>11. absCall[c].phase = "idle"
  BY <1>4 DEF absCall, CallOf, PhaseOf
<1>12. QED
  BY <1>1, <1>10, <1>11 DEF Abstract!Invoke

LEMMA Returns ==
  ASSUME DiskInv, NEW c \in Client, ide_answered(c)
  PROVE  Abstract!Return(c)
<1>1. /\ ide[c].pc = "poll" /\ req[c].status # "NO_RESP"
      /\ UNCHANGED <<desc, dev, disk, req>>
      /\ dst' = IF req[c].write THEN dst ELSE [dst EXCEPT ![c] = req[c].buf]
  BY DEF ide_answered, drv
<1>2. /\ ide \in [Client -> [pc : {"idle", "issue", "full", "poll", "next"},
                             left : 0 .. SECT2BLK - 1]]
      /\ req[c].status \in {"NO_RESP", "OK"}
  BY DEF DiskInv, DiskTypeOK
<1>3. ide'[c].pc \in {"idle", "next"} /\ \A d \in Client \ {c} : ide'[d] = ide[d]
  BY <1>2 DEF ide_answered
<1>4. \A d \in Client \ {c} : CallOf(d)' = CallOf(d)
  BY <1>1, <1>3, OthersSame
<1>5. Moved(c)
  BY <1>1, <1>2 DEF Moved
<1>6. PhaseOf(c) = "done" /\ PhaseOf(c)' = "idle"
  BY <1>1, <1>3, <1>5 DEF PhaseOf
<1>7. CallOf(c)' = [CallOf(c) EXCEPT !.phase = "idle"]
  BY <1>1, <1>6 DEF CallOf
<1>8. absCall' = [absCall EXCEPT ![c] = [CallOf(c) EXCEPT !.phase = "idle"]]
  BY <1>4, <1>7, OneCall
<1>9. absCall[c] = CallOf(c)
  BY DEF absCall
<1>10. absCall' = [absCall EXCEPT ![c].phase = "idle"]
  BY <1>8, <1>9
<1>11. absCall[c].phase = "done" /\ absCall[c].write = req[c].write
       /\ absCall[c].value = req[c].buf
  BY <1>6, <1>9 DEF CallOf
<1>12. dst' = IF absCall[c].write THEN dst ELSE [dst EXCEPT ![c] = absCall[c].value]
  BY <1>1, <1>11, Zenon
<1>13. QED
  BY <1>1, <1>10, <1>11, <1>12, Zenon DEF Abstract!Return

(***************************************************************************)
(* The transfer of the device is the instant at which the operation takes  *)
(* effect: its client is still waiting, and the header and the buffer are  *)
(* still those of its call.                                                *)
(***************************************************************************)
LEMMA Applies ==
  ASSUME DiskInv, dev_transfer
  PROVE  \E c \in Client : Abstract!Apply(c)
<1>1. DiskTypeOK /\ Chains /\ Waits
  BY InvParts
<1>2. UNCHANGED <<desc, ide, dst>>
  BY DEF dev_transfer, DevStep, drv
<1>3. PICK w \in dev.work :
        /\ w.step = "taken"
        /\ LET h == outhdr[desc[w.head].addr.at]
               b == desc[desc[w.head].next].addr.at
           IN IF h.type = "OUT"
              THEN disk' = [disk EXCEPT ![h.sector] = req[b].buf] /\ UNCHANGED req
              ELSE req' = [req EXCEPT ![b].buf = disk[h.sector]] /\ UNCHANGED disk
        /\ dev' = Advance(w, "moved")
  BY DEF dev_transfer
<1>4. PICK c \in Client : c = ClientOf(w.head)
  BY WorkAsked
<1>5. Shaped(w.head) /\ Asked(w.head)
  BY <1>3, WorkAsked
<1>6. /\ desc[w.head].addr.at = w.head /\ desc[desc[w.head].next].addr.at = c
      /\ ide[c].pc = "poll" /\ req[c].status = "NO_RESP"
      /\ outhdr[w.head].type = IF req[c].write THEN "OUT" ELSE "IN"
      /\ outhdr[w.head].sector = req[c].sector
  BY <1>4, <1>5 DEF Shaped, Asked, ClientOf, Second
<1>7. req \in [Client -> [sector : Sector, write : BOOLEAN,
                          status : {"NO_RESP", "OK"}, buf : Value]]
  BY <1>1 DEF DiskTypeOK
<1>8. IF req[c].write
      THEN disk' = [disk EXCEPT ![req[c].sector] = req[c].buf] /\ UNCHANGED req
      ELSE req' = [req EXCEPT ![c].buf = disk[req[c].sector]] /\ UNCHANGED disk
  <2>1. outhdr[w.head].type = "OUT" <=> req[c].write
    BY <1>6, <1>7
  <2>2. QED
    BY <1>3, <1>6, <2>1
<1>9. \A v : v \in dev'.work <=> \/ v \in dev.work /\ v # w
                                 \/ v = [head |-> w.head, step |-> "moved"]
  BY <1>1, <1>3, AdvancedWork DEF Steps
<1>10. /\ \A d \in Client : /\ req'[d].sector = req[d].sector /\ req'[d].write = req[d].write
                            /\ req'[d].status = req[d].status
       /\ \A d \in Client \ {c} : req'[d].buf = req[d].buf
       /\ req'[c].buf = IF req[c].write THEN req[c].buf ELSE disk[req[c].sector]
  BY <1>7, <1>8
<1>11. \A d : \A v : HasMoved(v, d)' <=> HasMoved(v, d)
  BY <1>2, SameHasMoved
<1>12. ASSUME NEW d \in Client \ {c} PROVE CallOf(d)' = CallOf(d)
  <2>1. ~HasMoved(w, d) /\ ~HasMoved([head |-> w.head, step |-> "moved"], d)
    BY <1>3, <1>4 DEF HasMoved
  <2>2. PhaseOf(d)' = PhaseOf(d)
    BY <1>2, <1>9, <1>10, <1>11, <2>1, SamePhase
  <2>3. QED
    BY <1>10, <2>2, SameCall
<1>13. PhaseOf(c) = "called"
  <2>1. \A v \in dev.work : ~HasMoved(v, c)
    BY <1>3, <1>4, WorkAsked DEF HasMoved
  <2>2. ~Moved(c)
    BY <1>6, <2>1, MovedIs
  <2>3. QED
    BY <1>6, <2>2 DEF PhaseOf
<1>14. PhaseOf(c)' = "done"
  <2>1. PICK v : v = [head |-> w.head, step |-> "moved"]
    OBVIOUS
  <2>2. v.head = w.head /\ v.step = "moved" /\ v \in dev'.work
    BY <1>9, <2>1
  <2>3. HasMoved(v, c)'
    BY <1>4, <1>11, <2>2 DEF HasMoved
  <2>4. Moved(c)'
    BY <2>2, <2>3, MovedIs
  <2>5. QED
    BY <1>2, <1>6, <2>4 DEF PhaseOf
<1>15. absCall[c] = CallOf(c)
  BY DEF absCall
<1>16. /\ absCall[c].phase = "called" /\ absCall[c].write = req[c].write
       /\ absCall[c].sector = req[c].sector /\ absCall[c].value = req[c].buf
  BY <1>13, <1>15 DEF CallOf
<1>17. CASE req[c].write
  <2>1. CallOf(c)' = [CallOf(c) EXCEPT !.phase = "done"]
    <3>1. CallOf(c)' = [phase |-> "done", write |-> req[c].write, sector |-> req[c].sector,
                        value |-> req[c].buf]
      BY <1>10, <1>14, <1>17 DEF CallOf
    <3>2. QED
      BY <3>1 DEF CallOf
  <2>2. absCall' = [absCall EXCEPT ![c] = [CallOf(c) EXCEPT !.phase = "done"]]
    BY <1>12, <2>1, OneCall
  <2>3. absCall' = [absCall EXCEPT ![c].phase = "done"]
    BY <1>15, <2>2
  <2>4. QED
    BY <1>2, <1>8, <1>16, <1>17, <2>3 DEF Abstract!Apply
<1>18. CASE ~req[c].write
  <2>1. PICK u : u = disk[req[c].sector]
    OBVIOUS
  <2>2. CallOf(c)' = [CallOf(c) EXCEPT !.phase = "done", !.value = u]
    <3>1. CallOf(c)' = [phase |-> "done", write |-> req[c].write, sector |-> req[c].sector,
                        value |-> u]
      BY <1>10, <1>14, <1>18, <2>1 DEF CallOf
    <3>2. PICK k : k = CallOf(c)
      OBVIOUS
    <3>3. k \in [phase : {"called"}, write : BOOLEAN, sector : Sector, value : Value]
      BY <1>7, <1>13, <3>2 DEF CallOf
    <3>4. PICK z : z = [k EXCEPT !.phase = "done", !.value = u]
      OBVIOUS
    <3>5. /\ z \in [phase : {"done"}, write : BOOLEAN, sector : Sector, value : {u}]
          /\ z.write = k.write /\ z.sector = k.sector
      BY <3>3, <3>4
    <3>6. /\ z = [phase |-> z.phase, write |-> z.write, sector |-> z.sector, value |-> z.value]
          /\ z.phase = "done" /\ z.value = u
      BY <3>5
    <3>7. k.write = req[c].write /\ k.sector = req[c].sector
      BY <3>2 DEF CallOf
    <3>8. z = [phase |-> "done", write |-> req[c].write, sector |-> req[c].sector, value |-> u]
      BY <3>5, <3>6, <3>7, Zenon
    <3>9. QED
      BY <3>1, <3>2, <3>4, <3>8, Zenon
  <2>3. absCall' = [absCall EXCEPT ![c] = [CallOf(c) EXCEPT !.phase = "done", !.value = u]]
    BY <1>12, <2>2, OneCall
  <2>4. absCall' = [absCall EXCEPT ![c].phase = "done", ![c].value = u]
    BY <1>15, <2>3
  <2>5. QED
    BY <1>2, <1>8, <1>16, <1>18, <2>1, <2>4 DEF Abstract!Apply
<1>19. QED
  BY <1>17, <1>18

LEMMA StepSeen ==
  DiskInv /\ DiskInv' /\ [Next]_vars => [Abstract!Next]_<<disk, absCall, dst>>
<1> SUFFICES ASSUME DiskInv, DiskInv', [Next]_vars
             PROVE  Abstract!Next \/ Stutter
  BY DEF Stutter
<1>1. CASE UNCHANGED vars
  <2>1. UNCHANGED <<desc, ide, req, disk, dst, dev>>
    BY <1>1 DEF vars, drv
  <2>2. \A c \in Client : PhaseOf(c)' = PhaseOf(c)
    BY <2>1, SameHasMoved, SamePhase
  <2>3. \A c \in Client : CallOf(c)' = CallOf(c)
    BY <2>1, <2>2, SameCall
  <2>4. QED
    BY <2>1, <2>3, AllSame
<1>2. ASSUME NEW c \in Client, ide_call(c) \/ ide_step(c) PROVE Abstract!Next \/ Stutter
  <2>1. CASE ide_call(c) \/ ide_next(c)
    BY <2>1, Invokes DEF Abstract!Next
  <2>2. CASE ide_answered(c)
    BY <2>2, Returns DEF Abstract!Next
  <2>3. CASE sys_dev_req(c)
    BY <2>3, RequestStutters
  <2>4. CASE ide_yield(c) \/ ide_wait(c)
    BY <2>4, ScheduleStutters
  <2>5. QED
    BY <1>2, <2>1, <2>2, <2>3, <2>4 DEF ide_step
<1>3. CASE dev_transfer
  BY <1>3, Applies DEF Abstract!Next
<1>4. CASE kernel \/ schedule \/ dev_take \/ dev_drained \/ dev_check \/ dev_status \/ dev_used
  BY <1>4, DeviceStutters, ScheduleStutters, StatusStutters DEF kernel
<1>5. QED
  BY <1>1, <1>2, <1>3, <1>4 DEF Next

LEMMA InitSeen == Init => Abstract!Init
<1> SUFFICES ASSUME Init PROVE Abstract!Init
  OBVIOUS
<1>1. DiskTypeOK
  BY InitInv DEF DiskInv
<1>2. disk \in [Sector -> Value] /\ dst \in [Client -> Value]
  BY <1>1 DEF DiskTypeOK
<1>3. ASSUME NEW c \in Client PROVE CallOf(c) \in {k \in Abstract!Call : k.phase = "idle"}
  <2>1. PhaseOf(c) = "idle"
    BY DEF Init, PhaseOf
  <2>2. req[c].sector \in Sector /\ req[c].write \in BOOLEAN /\ req[c].buf \in Value
    BY <1>1 DEF DiskTypeOK
  <2>3. QED
    BY <2>1, <2>2 DEF CallOf, Abstract!Call, Abstract!Phase
<1>4. absCall \in [Client -> {k \in Abstract!Call : k.phase = "idle"}]
  BY <1>3 DEF absCall
<1>5. QED
  BY <1>2, <1>4 DEF Abstract!Init

(***************************************************************************)
(* ide_read() and ide_write(), over the driver and a device that works on  *)
(* its own and out of order, implement atomic operations on sectors: each  *)
(* takes effect once, between its call and its return, with the data of    *)
(* the call (fs/ide.c, virtio_disk_req).                                   *)
(***************************************************************************)
THEOREM DiskIsAtomic == Spec => Linearizable
BY InitSeen, StepSeen, DiskIsSound, PTL DEF Spec, Linearizable, Abstract!Spec
=============================================================================
