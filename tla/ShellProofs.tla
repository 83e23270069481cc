----------------------------- MODULE ShellProofs ----------------------------
(***************************************************************************)
(* Proofs about the shell: every program of every command line gets the    *)
(* arguments and descriptors the line says.                                *)
(***************************************************************************)
EXTENDS Shell, FiniteSetTheorems, SequenceTheorems, WellFoundedInduction, TLAPS

-----------------------------------------------------------------------------
(* Counting positions.                                                     *)

Below == {p \in Nat \X Nat : p[1] < p[2]}

(***************************************************************************)
(* Every nonempty set of natural numbers has a least element.              *)
(***************************************************************************)
LEMMA LeastNat ==
  ASSUME NEW S, S \subseteq Nat, S # {}
  PROVE  \E x \in S : \A y \in S : x <= y
<1>1. IsWellFoundedOn(Below, Nat)
  BY NatLessThanWellFounded, Zenon DEF OpToRel, Below
<1>2. PICK x \in S : \A y \in S : ~(<<y, x>> \in Below)
  BY <1>1, WFMin
<1>3. ASSUME NEW y \in S PROVE x <= y
  <2>1. ~(<<y, x>> \in Below) /\ x \in Nat /\ y \in Nat
    BY <1>2
  <2>2. ~(y < x)
    BY <2>1 DEF Below
  <2>3. QED
    BY <2>1, <2>2
<1>4. QED
  BY <1>2, <1>3

Positions(S) == IsFiniteSet(S) /\ \A j \in S : j \in Nat /\ j > 0
Upto(S, n) == {j \in S : j <= n}
Count(S, n) == Cardinality(Upto(S, n))

LEMMA CountType ==
  ASSUME NEW S, Positions(S), NEW n \in Int
  PROVE  IsFiniteSet(Upto(S, n)) /\ Count(S, n) \in Nat
<1>1. Upto(S, n) \subseteq S /\ IsFiniteSet(S)
  BY DEF Upto, Positions
<1>2. IsFiniteSet(Upto(S, n))
  BY <1>1, FS_Subset
<1>3. QED
  BY <1>2, FS_CardinalityType DEF Count

(***************************************************************************)
(* The count goes up by one at each member of the set.                     *)
(***************************************************************************)
LEMMA CountStep ==
  ASSUME NEW S, Positions(S), NEW n \in Nat
  PROVE  Count(S, n + 1) = IF n + 1 \in S THEN Count(S, n) + 1 ELSE Count(S, n)
<1>1. CASE n + 1 \in S
  <2>1. Upto(S, n + 1) = Upto(S, n) \cup {n + 1} /\ n + 1 \notin Upto(S, n)
    BY <1>1 DEF Upto, Positions
  <2>2. IsFiniteSet(Upto(S, n))
    BY CountType
  <2>3. QED
    BY <1>1, <2>1, <2>2, FS_AddElement DEF Count
<1>2. CASE n + 1 \notin S
  <2>1. Upto(S, n + 1) = Upto(S, n)
    BY <1>2 DEF Upto, Positions
  <2>2. QED
    BY <1>2, <2>1 DEF Count
<1>3. QED
  BY <1>1, <1>2

(***************************************************************************)
(* It grows with the bound, strictly when a member comes in.               *)
(***************************************************************************)
LEMMA CountGrows ==
  ASSUME NEW S, Positions(S), NEW a \in Int, NEW b \in Int, a <= b
  PROVE  /\ Count(S, a) <= Count(S, b)
         /\ \A x \in S : a < x /\ x <= b => Count(S, a) < Count(S, b)
<1>1. Upto(S, a) \subseteq Upto(S, b)
  BY DEF Upto, Positions
<1>2. IsFiniteSet(Upto(S, b)) /\ IsFiniteSet(Upto(S, a))
  BY CountType
<1>3. Count(S, a) <= Count(S, b) /\ (Count(S, a) = Count(S, b) => Upto(S, a) = Upto(S, b))
  BY <1>1, <1>2, FS_Subset DEF Count
<1>4. ASSUME NEW x \in S, a < x, x <= b PROVE Upto(S, a) # Upto(S, b)
  <2>1. x \in Upto(S, b) /\ x \notin Upto(S, a)
    BY <1>4 DEF Upto, Positions
  <2>2. QED
    BY <2>1
<1>5. Count(S, a) \in Nat /\ Count(S, b) \in Nat
  BY CountType
<1>6. QED
  BY <1>3, <1>4, <1>5

LEMMA CountEnds ==
  ASSUME NEW S, Positions(S)
  PROVE  /\ Count(S, 0) = 0 /\ Cardinality(S) \in Nat
         /\ \A m \in Int : (\A j \in S : j <= m) => Count(S, m) = Cardinality(S)
<1>1. Upto(S, 0) = {} /\ \A m \in Int : (\A j \in S : j <= m) => Upto(S, m) = S
  BY DEF Upto, Positions
<1>2. IsFiniteSet(S)
  BY DEF Positions
<1>3. QED
  BY <1>1, <1>2, FS_EmptySet, FS_CardinalityType DEF Count

(***************************************************************************)
(* Nth(S, n) is the n-th member of S.                                      *)
(***************************************************************************)
LEMMA NthIs ==
  ASSUME NEW S, Positions(S), NEW i \in S
  PROVE  Nth(S, Count(S, i)) = i
<1>1. ASSUME NEW k \in S, Count(S, k) = Count(S, i) PROVE k = i
  <2>1. k \in Int /\ i \in Int
    BY DEF Positions
  <2>2. Count(S, k) \in Nat /\ Count(S, i) \in Nat
    BY <2>1, CountType
  <2>3. ~(k < i)
    <3>1. k < i => Count(S, k) < Count(S, i)
      BY <2>1, CountGrows
    <3>2. QED
      BY <1>1, <2>2, <3>1
  <2>4. ~(i < k)
    <3>1. i < k => Count(S, i) < Count(S, k)
      BY <2>1, CountGrows
    <3>2. QED
      BY <1>1, <2>2, <3>1
  <2>5. QED
    BY <2>1, <2>3, <2>4
<1>2. \A n : Nth(S, n) = CHOOSE k \in S : Count(S, k) = n
  BY Zenon DEF Nth, Count, Upto
<1>3. PICK n : n = Count(S, i)
  OBVIOUS
<1>4. \E k \in S : Count(S, k) = n
  BY <1>3
<1>5. (CHOOSE k \in S : Count(S, k) = n) \in S /\ Count(S, CHOOSE k \in S : Count(S, k) = n) = n
  BY <1>4, Zenon
<1>6. QED
  BY <1>1, <1>2, <1>3, <1>5, Zenon

LEMMA NthExists ==
  ASSUME NEW S, Positions(S), NEW n \in 1 .. Cardinality(S), NEW m \in Nat, \A j \in S : j <= m
  PROVE  \E i \in S : Count(S, i) = n
<1> DEFINE C == {k \in Nat : Count(S, k) >= n}
<1>1. m \in C
  BY CountEnds
<1>2. PICK k \in C : \A y \in C : k <= y
  <2>1. C \subseteq Nat /\ C # {}
    BY <1>1
  <2>2. QED
    BY <2>1, LeastNat
<1>3. k \in Nat /\ Count(S, k) >= n /\ k # 0 /\ n \in Nat
  BY <1>2, CountEnds
<1>4. k - 1 \in Nat /\ ~(Count(S, k - 1) >= n)
  BY <1>2, <1>3
<1>5. Count(S, k - 1) \in Nat /\ Count(S, k) \in Nat
  BY <1>3, <1>4, CountType
<1>6. Count(S, k) = IF k \in S THEN Count(S, k - 1) + 1 ELSE Count(S, k - 1)
  <2>1. PICK j \in Nat : j = k - 1
    BY <1>4
  <2>2. Count(S, j + 1) = IF j + 1 \in S THEN Count(S, j) + 1 ELSE Count(S, j)
    BY CountStep
  <2>3. j + 1 = k
    BY <2>1, <1>3
  <2>4. QED
    BY <2>1, <2>2, <2>3
<1>7. QED
  BY <1>3, <1>4, <1>5, <1>6

-----------------------------------------------------------------------------
(* Lines: parts, what is left of them, words and files.                    *)

(***************************************************************************)
(* The part of a line between two positions, and one token more.           *)
(***************************************************************************)
LEMMA PartOf ==
  ASSUME NEW T, NEW l \in Seq(T), NEW a \in Nat, NEW q \in Nat, a <= q, q <= Len(l)
  PROVE  /\ SubSeq(l, a + 1, q) \in Seq(T) /\ Len(SubSeq(l, a + 1, q)) = q - a
         /\ \A i \in 1 .. q - a : SubSeq(l, a + 1, q)[i] = l[a + i]
         /\ a = q => SubSeq(l, a + 1, q) = <<>>
         /\ q < Len(l) => SubSeq(l, a + 1, q + 1) = Append(SubSeq(l, a + 1, q), l[q + 1])
<1>1. PICK t : t = SubSeq(l, a + 1, q)
  OBVIOUS
<1>2. t \in Seq(T) /\ Len(t) = q - a /\ \A i \in 1 .. q - a : t[i] = l[a + i]
  BY <1>1, SubSeqProperties
<1>3. a = q => t = <<>>
  BY <1>2, EmptySeq
<1>4. q < Len(l) => SubSeq(l, a + 1, q + 1) = Append(t, l[q + 1])
  <2> SUFFICES ASSUME q < Len(l) PROVE SubSeq(l, a + 1, q + 1) = Append(t, l[q + 1])
    OBVIOUS
  <2>1. PICK u : u = SubSeq(l, a + 1, q + 1)
    OBVIOUS
  <2>2. u \in Seq(T) /\ Len(u) = q + 1 - a /\ \A i \in 1 .. q + 1 - a : u[i] = l[a + i]
    BY <2>1, SubSeqProperties
  <2>3. PICK v : v = Append(t, l[q + 1])
    OBVIOUS
  <2>4. v \in Seq(T) /\ Len(v) = q - a + 1 /\ v[q - a + 1] = l[q + 1]
        /\ \A i \in 1 .. q - a : v[i] = t[i]
    BY <1>2, <2>3
  <2>5. \A i \in 1 .. Len(u) : u[i] = v[i]
    BY <1>2, <2>2, <2>4
  <2>6. u = v
    BY <2>2, <2>4, <2>5, SeqEqual
  <2>7. QED
    BY <2>1, <2>3, <2>6
<1>5. QED
  BY <1>1, <1>2, <1>3, <1>4

(***************************************************************************)
(* What gettoken() has left.                                               *)
(***************************************************************************)
LEMMA RestOf ==
  ASSUME NEW T, NEW l \in Seq(T), NEW q \in Nat, q <= Len(l), NEW t, t = SubSeq(l, q + 1, Len(l))
  PROVE  /\ t = <<>> <=> q = Len(l)
         /\ q < Len(l) => Head(t) = l[q + 1] /\ Tail(t) = SubSeq(l, q + 2, Len(l))
         /\ q = 0 => t = l
<1>1. t \in Seq(T) /\ Len(t) = Len(l) - q /\ \A i \in 1 .. Len(l) - q : t[i] = l[q + i]
  BY SubSeqProperties
<1>2. t = <<>> <=> q = Len(l)
  <2>1. t = <<>> => Len(t) = 0
    OBVIOUS
  <2>2. Len(t) = 0 => t = <<>>
    BY <1>1, EmptySeq
  <2>3. QED
    BY <1>1, <2>1, <2>2
<1>3. ASSUME q < Len(l) PROVE Head(t) = l[q + 1] /\ Tail(t) = SubSeq(l, q + 2, Len(l))
  <2>1. q + 1 \in 1 .. Len(l) /\ Len(l) \in q + 1 .. Len(l) /\ (q + 1) + 1 = q + 2
    BY <1>3
  <2>2. Head(t) = l[q + 1] /\ Tail(t) = SubSeq(l, (q + 1) + 1, Len(l))
    BY <2>1, HeadTailOfSubSeq
  <2>3. QED
    BY <2>1, <2>2
<1>4. q = 0 => t = l
  BY <1>1, SeqEqual
<1>5. QED
  BY <1>2, <1>3, <1>4

(***************************************************************************)
(* The words of a part with one token more.                                *)
(***************************************************************************)
Follows(t, dirs) == t # <<>> /\ t[Len(t)] \in dirs

LEMMA UsedPositions ==
  ASSUME NEW T, NEW t \in Seq(T)
  PROVE  Positions(Used(t)) /\ \A j \in Used(t) : j <= Len(t)
<1>1. Used(t) \subseteq 1 .. Len(t) /\ Len(t) \in Nat
  BY DEF Used
<1>2. IsFiniteSet(1 .. Len(t))
  BY <1>1, FS_Interval
<1>3. IsFiniteSet(Used(t))
  BY <1>1, <1>2, FS_Subset
<1>4. QED
  BY <1>1, <1>3 DEF Positions

LEMMA NoWords == WordsOf(<<>>) = <<>>
<1>1. Used(<<>>) = {}
  BY DEF Used
<1>2. Cardinality(Used(<<>>)) = 0
  BY <1>1, FS_EmptySet
<1>3. QED
  BY <1>2 DEF WordsOf

LEMMA WordSkipped ==
  ASSUME NEW T, NEW t \in Seq(T), NEW x \in T, x \in Symbols \/ Follows(t, {"<", ">"})
  PROVE  WordsOf(Append(t, x)) = WordsOf(t)
<1>1. PICK u : u = Append(t, x)
  OBVIOUS
<1>2. PICK n \in Nat : n = Len(t)
  OBVIOUS
<1>3. u \in Seq(T) /\ Len(u) = n + 1 /\ u[n + 1] = x /\ \A i \in 1 .. n : u[i] = t[i]
  BY <1>1, <1>2
<1>4. t # <<>> <=> n > 0
  BY <1>2
<1>5. n + 1 \notin Used(u)
  BY <1>2, <1>3, <1>4 DEF Used, Follows
<1>6. \A i \in 1 .. n : i \in Used(u) <=> i \in Used(t)
  BY <1>2, <1>3 DEF Used
<1>7. Used(u) \subseteq 1 .. n + 1 /\ Used(t) \subseteq 1 .. n
  BY <1>2, <1>3 DEF Used
<1>8. Used(u) = Used(t)
  <2>1. \A i \in 1 .. n + 1 : i = n + 1 \/ i \in 1 .. n
    OBVIOUS
  <2>2. \A i \in 1 .. n : i \in 1 .. n + 1
    OBVIOUS
  <2>3. QED
    BY <1>5, <1>6, <1>7, <2>1, <2>2, Zenon
<1>9. PICK S : S = Used(t)
  OBVIOUS
<1>10. WordsOf(u) = [k \in 1 .. Cardinality(S) |-> u[Nth(S, k)]]
  BY <1>8, <1>9, Zenon DEF WordsOf
<1>11. WordsOf(t) = [k \in 1 .. Cardinality(S) |-> t[Nth(S, k)]]
  BY <1>9, Zenon DEF WordsOf
<1>12. Positions(S) /\ \A j \in S : j <= n
  BY <1>2, <1>9, UsedPositions
<1>13. ASSUME NEW k \in 1 .. Cardinality(S) PROVE u[Nth(S, k)] = t[Nth(S, k)]
  <2>1. PICK i \in S : Count(S, i) = k
    BY <1>12, NthExists
  <2>2. Nth(S, k) = i
    BY <1>12, <2>1, NthIs
  <2>3. QED
    BY <1>3, <1>7, <1>9, <2>2
<1>14. QED
  BY <1>1, <1>10, <1>11, <1>13

LEMMA WordAdded ==
  ASSUME NEW T, NEW t \in Seq(T), NEW x \in T, x \notin Symbols, ~Follows(t, {"<", ">"})
  PROVE  WordsOf(Append(t, x)) = Append(WordsOf(t), x)
<1>1. PICK u : u = Append(t, x)
  OBVIOUS
<1>2. PICK n \in Nat : n = Len(t)
  OBVIOUS
<1>3. u \in Seq(T) /\ Len(u) = n + 1 /\ u[n + 1] = x /\ \A i \in 1 .. n : u[i] = t[i]
  BY <1>1, <1>2
<1>4. t # <<>> <=> n > 0
  BY <1>2
<1>5. n + 1 \in Used(u)
  BY <1>2, <1>3, <1>4 DEF Used, Follows
<1>6. \A i \in 1 .. n : i \in Used(u) <=> i \in Used(t)
  BY <1>2, <1>3 DEF Used
<1>7. Used(u) \subseteq 1 .. n + 1 /\ Used(t) \subseteq 1 .. n
  BY <1>2, <1>3 DEF Used
<1>8. PICK S : S = Used(t)
  OBVIOUS
<1>9. PICK U : U = Used(u)
  OBVIOUS
<1>10. U = S \cup {n + 1} /\ n + 1 \notin S
  BY <1>5, <1>6, <1>7, <1>8, <1>9
<1>11. Positions(S) /\ (\A j \in S : j <= n) /\ Positions(U)
  BY <1>2, <1>3, <1>8, <1>9, UsedPositions
<1>12. PICK c \in Nat : c = Cardinality(S)
  BY <1>11, CountEnds
<1>13. Cardinality(U) = c + 1
  BY <1>10, <1>11, <1>12, FS_AddElement DEF Positions
<1>14. Count(U, n + 1) = c + 1
  <2>1. \A j \in U : j <= n + 1
    BY <1>7, <1>9
  <2>2. QED
    BY <1>2, <1>11, <1>13, <2>1, CountEnds
<1>15. Nth(U, c + 1) = n + 1
  BY <1>10, <1>11, <1>14, NthIs
<1>16. ASSUME NEW k \in 1 .. c PROVE u[Nth(U, k)] = t[Nth(S, k)] /\ t[Nth(S, k)] \in T
  <2>1. PICK i \in S : Count(S, i) = k
    BY <1>11, <1>12, NthExists
  <2>2. i \in 1 .. n /\ i \in U
    BY <1>7, <1>8, <1>10
  <2>3. Upto(U, i) = Upto(S, i)
    BY <1>10, <2>2 DEF Upto
  <2>4. Count(U, i) = k
    BY <2>1, <2>3 DEF Count
  <2>5. Nth(S, k) = i /\ Nth(U, k) = i
    BY <1>11, <2>1, <2>2, <2>4, NthIs
  <2>6. QED
    BY <1>2, <1>3, <2>2, <2>5
<1>17. PICK v : v = WordsOf(t)
  OBVIOUS
<1>18. v = [k \in 1 .. c |-> t[Nth(S, k)]]
  BY <1>8, <1>12, <1>17, Zenon DEF WordsOf
<1>19. PICK w : w = WordsOf(u)
  OBVIOUS
<1>20. w = [k \in 1 .. c + 1 |-> u[Nth(U, k)]]
  BY <1>9, <1>13, <1>19, Zenon DEF WordsOf
<1>21. v \in Seq(T) /\ Len(v) = c
  BY <1>16, <1>18
<1>22. w[c + 1] = x /\ \A k \in 1 .. c : w[k] = v[k]
  BY <1>3, <1>15, <1>16, <1>18, <1>20
<1>23. \A k \in 1 .. c + 1 : w[k] \in T
  BY <1>16, <1>18, <1>22
<1>24. w \in Seq(T) /\ Len(w) = c + 1
  BY <1>20, <1>23
<1>25. PICK z : z = Append(v, x)
  OBVIOUS
<1>26. z \in Seq(T) /\ Len(z) = c + 1 /\ z[c + 1] = x /\ \A k \in 1 .. c : z[k] = v[k]
  BY <1>21, <1>25
<1>27. w = z
  BY <1>22, <1>24, <1>26, SeqEqual
<1>28. QED
  BY <1>1, <1>17, <1>19, <1>25, <1>27

(***************************************************************************)
(* The file a part redirects to, with one token more.                      *)
(***************************************************************************)
LEMMA NoFile == \A dir : Redirected(<<>>, dir) = {}
BY DEF Redirected

FileNext(t, x, dir) ==
  /\ Follows(t, {dir}) /\ x \in Files => Redirected(Append(t, x), dir) = {x}
  /\ ~(Follows(t, {dir}) /\ x \in Files) => Redirected(Append(t, x), dir) = Redirected(t, dir)

LEMMA FileAdded ==
  ASSUME NEW T, NEW t \in Seq(T), NEW x \in T, NEW dir
  PROVE  FileNext(t, x, dir)
<1>1. PICK u : u = Append(t, x)
  OBVIOUS
<1>2. PICK n \in Nat : n = Len(t)
  OBVIOUS
<1>3. u \in Seq(T) /\ Len(u) = n + 1 /\ u[n + 1] = x /\ \A i \in 1 .. n : u[i] = t[i]
  BY <1>1, <1>2
<1>4. DOMAIN u = 1 .. n + 1 /\ DOMAIN t = 1 .. n
  BY <1>2, <1>3
<1>5. Follows(t, {dir}) <=> n > 0 /\ t[n] = dir
  BY <1>2 DEF Follows
<1> DEFINE In(s, m) == {j \in DOMAIN s : /\ j > 1 /\ s[j - 1] = dir /\ s[j] \in Files
                                       /\ \A i \in j + 1 .. m : ~(s[i - 1] = dir /\ s[i] \in Files)}
<1>6. Redirected(u, dir) = {u[i] : i \in In(u, n + 1)} /\ Redirected(t, dir) = {t[i] : i \in In(t, n)}
  BY <1>2, <1>3 DEF Redirected
<1>7. CASE Follows(t, {dir}) /\ x \in Files
  <2>1. In(u, n + 1) = {n + 1}
    BY <1>3, <1>4, <1>5, <1>7
  <2> HIDE DEF In
  <2>2. QED
    BY <1>1, <1>3, <1>6, <1>7, <2>1 DEF FileNext
<1>8. CASE ~(Follows(t, {dir}) /\ x \in Files)
  <2>1. In(u, n + 1) = In(t, n)
    BY <1>3, <1>4, <1>5, <1>8
  <2>2. \A i \in In(t, n) : t[i] = u[i]
    BY <1>3, <1>4
  <2> HIDE DEF In
  <2>3. PICK I : I = In(t, n)
    OBVIOUS
  <2>4. {u[i] : i \in I} = {t[i] : i \in I}
    BY <2>2, <2>3
  <2>5. QED
    BY <1>1, <1>6, <1>8, <2>1, <2>3, <2>4, Zenon DEF FileNext
<1>9. QED
  BY <1>7, <1>8 DEF FileNext

(***************************************************************************)
(* Stages: one starts after position a, and goes to the next bar.          *)
(***************************************************************************)
Starts(l, a, s) ==
  /\ a \in 0 .. Len(l) /\ (a > 0 => l[a] = "|")
  /\ s \in Nat /\ s > 0 /\ Count(Bars(l), a) = s - 1
NoBar(l, a, q) == \A i \in a + 1 .. q : l[i] # "|"

LEMMA BarPositions ==
  ASSUME NEW T, NEW l \in Seq(T)
  PROVE  Positions(Bars(l)) /\ Bars(l) \subseteq 1 .. Len(l)
<1>1. Bars(l) \subseteq 1 .. Len(l) /\ Len(l) \in Nat
  BY DEF Bars
<1>2. IsFiniteSet(1 .. Len(l))
  BY <1>1, FS_Interval
<1>3. IsFiniteSet(Bars(l))
  BY <1>1, <1>2, FS_Subset
<1>4. QED
  BY <1>1, <1>3 DEF Positions

LEMMA FirstStage ==
  ASSUME NEW T, NEW l \in Seq(T)
  PROVE  Starts(l, 0, 1)
<1>1. Count(Bars(l), 0) = 0
  BY BarPositions, CountEnds
<1>2. QED
  BY <1>1 DEF Starts

LEMMA StageIs ==
  ASSUME NEW T, NEW l \in Seq(T), NEW a, NEW s, Starts(l, a, s),
         NEW q \in Nat, a <= q, q <= Len(l), NoBar(l, a, q)
  PROVE  /\ q = Len(l) => s = LastStage(l) /\ StageOf(l, s) = SubSeq(l, a + 1, q)
         /\ q < Len(l) /\ l[q + 1] = "|" =>
              s < LastStage(l) /\ StageOf(l, s) = SubSeq(l, a + 1, q) /\ Starts(l, q + 1, s + 1)
<1>1. PICK B : B = Bars(l)
  OBVIOUS
<1>2. Positions(B) /\ B \subseteq 1 .. Len(l) /\ Len(l) \in Nat
  BY <1>1, BarPositions
<1>3. a \in Nat /\ a <= Len(l) /\ s \in Nat /\ s > 0 /\ Count(B, a) = s - 1 /\ (a > 0 => a \in B)
  BY <1>1 DEF Starts, Bars
<1>4. Count(B, q) = s - 1
  <2>1. \A i \in B : i <= q <=> i <= a
    BY <1>1, <1>2, <1>3 DEF Bars, NoBar
  <2>2. Upto(B, q) = Upto(B, a)
    BY <2>1, Zenon DEF Upto
  <2>3. QED
    BY <1>3, <2>2 DEF Count
<1>5. (IF s = 1 THEN 0 ELSE Nth(B, s - 1)) = a
  <2>1. CASE a = 0
    <3>1. Count(B, a) = 0
      BY <1>2, <2>1, CountEnds
    <3>2. s = 1
      BY <1>3, <3>1
    <3>3. QED
      BY <2>1, <3>2
  <2>2. CASE a > 0
    <3>1. Count(B, 0) = 0
      BY <1>2, CountEnds
    <3>2. Count(B, 0) < Count(B, a)
      BY <1>2, <1>3, <2>2, CountGrows
    <3>3. s # 1
      BY <1>3, <3>1, <3>2
    <3>4. Nth(B, s - 1) = a
      BY <1>2, <1>3, <2>2, NthIs
    <3>5. QED
      BY <3>3, <3>4
  <2>3. QED
    BY <1>3, <2>1, <2>2
<1>6. ASSUME NEW z \in Int, (IF s = LastStage(l) THEN Len(l) + 1 ELSE Nth(B, s)) = z + 1
      PROVE  StageOf(l, s) = SubSeq(l, a + 1, z)
  <2>1. StageOf(l, s) = SubSeq(l, (IF s = 1 THEN 0 ELSE Nth(B, s - 1)) + 1,
                                  (IF s = LastStage(l) THEN Len(l) + 1 ELSE Nth(B, s)) - 1)
    BY <1>1, Zenon DEF StageOf
  <2>2. (z + 1) - 1 = z
    OBVIOUS
  <2>3. QED
    BY <1>5, <1>6, <2>1, <2>2, Zenon
<1>7. \A j \in B : j <= Len(l)
  BY <1>2
<1>8. Count(B, Len(l)) = Cardinality(B) /\ LastStage(l) = Cardinality(B) + 1
  BY <1>1, <1>2, <1>7, CountEnds DEF LastStage
<1>9. CASE q = Len(l)
  <2>1. s = LastStage(l)
    BY <1>3, <1>4, <1>8, <1>9
  <2>2. StageOf(l, s) = SubSeq(l, a + 1, q)
    BY <1>6, <1>9, <2>1
  <2>3. QED
    BY <1>9, <2>1, <2>2
<1>10. CASE q < Len(l) /\ l[q + 1] = "|"
  <2>1. q + 1 \in B
    BY <1>1, <1>10 DEF Bars
  <2>2. Count(B, q + 1) = s
    BY <1>2, <1>3, <1>4, <2>1, CountStep
  <2>3. Nth(B, s) = q + 1
    BY <1>2, <2>1, <2>2, NthIs
  <2>4. Count(B, q + 1) <= Count(B, Len(l))
    BY <1>2, <1>10, CountGrows
  <2>5. s < LastStage(l)
    <3>1. PICK c \in Nat : c = Cardinality(B)
      BY <1>2, CountEnds
    <3>2. s <= c /\ LastStage(l) = c + 1
      BY <1>8, <2>2, <2>4, <3>1
    <3>3. QED
      BY <1>3, <3>2
  <2>6. StageOf(l, s) = SubSeq(l, a + 1, q)
    <3>1. s # LastStage(l)
      <4>1. PICK c \in Nat : c = Cardinality(B)
        BY <1>2, CountEnds
      <4>2. QED
        BY <1>3, <1>8, <2>5, <4>1
    <3>2. QED
      BY <1>6, <2>3, <3>1
  <2>7. Starts(l, q + 1, s + 1)
    BY <1>1, <1>3, <1>10, <2>2 DEF Starts
  <2>8. QED
    BY <1>10, <2>5, <2>6, <2>7
<1>11. QED
  BY <1>9, <1>10

-----------------------------------------------------------------------------
(* Where an environment is in its line, and what its descriptors are then. *)

Fields == {"st", "gen", "pc", "fd", "toks", "argv", "p", "wait", "out", "job", "stage", "failed"}
Shaped(r) == DOMAIN r = Fields /\ DOMAIN r.fd = Fds

PipeEnd(k, end, job, made, ps) ==
  \E i \in DOMAIN ps : k = <<end, i>> /\ ps[i].job = job /\ ps[i].stage = made
FileOf(k, F) == \E f \in F : k = <<"file", f>>
NoneBut(fd, I) == \A i \in Fds \ I : fd[i] = None

Input(k, t, job, s, ps) ==
  IF Redirected(t, "<") # {} THEN FileOf(k, Redirected(t, "<"))
  ELSE IF s > 1 THEN PipeEnd(k, "read", job, s - 1, ps) ELSE k = Console
Output(k, u) ==
  IF Redirected(u, ">") # {} THEN FileOf(k, Redirected(u, ">")) ELSE k = Console

\* Nothing is known of descriptors 0 and 1 once an open() or a dup() has failed.
InputOK(r, t, ps) == r.failed \/ Input(r.fd[0], t, r.job, r.stage, ps)
OutputOK(r, u) == r.failed \/ Output(r.fd[1], u)

\* The stage of r starts after a and is read up to q.
ReadTo(r, l, ps, a, q) ==
  /\ a \in Nat /\ q \in Nat /\ a <= q /\ q <= Len(l)
  /\ Starts(l, a, r.stage) /\ NoBar(l, a, q)
  /\ r.argv = WordsOf(SubSeq(l, a + 1, q))
  /\ InputOK(r, SubSeq(l, a + 1, q), ps)

Parsing(r, l, ps, a, q) ==
  /\ ReadTo(r, l, ps, a, q)
  /\ r.toks = SubSeq(l, q + 1, Len(l))
  /\ OutputOK(r, SubSeq(l, 1, q)) /\ NoneBut(r.fd, {0, 1})
  /\ IF r.pc = "parse" THEN q > 0 => l[q] \notin {"<", ">"} ELSE q > 0 /\ l[q] = r.pc

\* The bar after q has been read too.
AtBar(r, l, ps, a, q) ==
  /\ ReadTo(r, l, ps, a, q)
  /\ q < Len(l) /\ l[q + 1] = "|" /\ (q > 0 => l[q] \notin {"<", ">"})
  /\ r.toks = SubSeq(l, q + 2, Len(l))

\* Both ends of the pipe made by a stage are open.
Ends(r, made, ps) ==
  /\ r.p = <<2, 3>> /\ 3 \in Fds
  /\ PipeEnd(r.fd[2], "read", r.job, made, ps) /\ PipeEnd(r.fd[3], "write", r.job, made, ps)
HasPipe(r, made, ps) ==
  NoneBut(r.fd, {0, 1, r.p[1], r.p[2]}) /\ (r.failed \/ Ends(r, made, ps))

\* The child of a stage, before it parses the next one.
Begins(r, l, a) ==
  /\ a \in Nat /\ a > 0 /\ a <= Len(l) /\ Starts(l, a, r.stage) /\ r.stage > 1
  /\ r.argv = <<>> /\ r.toks = SubSeq(l, a + 1, Len(l)) /\ OutputOK(r, SubSeq(l, 1, a))

\* What a program must find.
Out(r, l, ps) ==
  IF r.stage < LastStage(l) THEN PipeEnd(r.fd[1], "write", r.job, r.stage, ps) ELSE Output(r.fd[1], l)
Complete(r, l, ps) ==
  /\ r.argv = WordsOf(StageOf(l, r.stage)) /\ NoneBut(r.fd, {0, 1})
  /\ InputOK(r, StageOf(l, r.stage), ps) /\ (r.failed \/ Out(r, l, ps))

CmdOK(r, l, ps) ==
  /\ r.pc \in {"parse", "<", ">"} => \E a, q : Parsing(r, l, ps, a, q)
  /\ r.pc = "pipe" => \E a, q : /\ AtBar(r, l, ps, a, q) /\ NoneBut(r.fd, {0, 1})
                                /\ OutputOK(r, SubSeq(l, 1, q))
  /\ r.pc \in {"pfork", "left"} => \E a, q : /\ AtBar(r, l, ps, a, q) /\ HasPipe(r, r.stage, ps)
                                             /\ OutputOK(r, SubSeq(l, 1, q))
  /\ r.pc = "left_close" => /\ \E a, q : AtBar(r, l, ps, a, q)
                            /\ NoneBut(r.fd, {0, 1, r.p[1]})
                            /\ r.failed \/ (r.p[1] = 2 /\ PipeEnd(r.fd[1], "write", r.job, r.stage, ps))
  /\ r.pc = "right" => (\E a : Begins(r, l, a)) /\ HasPipe(r, r.stage - 1, ps)
  /\ r.pc = "right_close" => /\ \E a : Begins(r, l, a)
                             /\ NoneBut(r.fd, {0, 1, r.p[2]})
                             /\ r.failed \/ (r.p[2] = 3 /\ PipeEnd(r.fd[0], "read", r.job, r.stage - 1, ps))
  /\ r.pc = "run" => r.argv = <<>> \/ Complete(r, l, ps)

MainOK(r, sc) ==
  /\ r.job \in 0 .. Len(sc) /\ r.argv = <<>> /\ r.stage = 1 /\ ~r.failed
  /\ NoneBut(r.fd, {0, 1}) /\ r.fd[0] = Console /\ r.fd[1] = Console
  /\ r.pc = "fork" => r.job > 0 /\ r.toks = sc[r.job]

EnvOK(r, sc, ps) ==
  /\ Shaped(r)
  /\ r.st = "shell" => MainOK(r, sc)
  /\ r.st \in {"cmd", "prog"} => r.job \in 1 .. Len(sc)
  /\ r.st = "cmd" => CmdOK(r, sc[r.job], ps)
  /\ r.st = "prog" => Complete(r, sc[r.job], ps)

\* d is a good next state of a command at r.
StepOK(d, r, l, ps) == Shaped(d) /\ d.st = r.st /\ d.job = r.job /\ CmdOK(d, l, ps)

Labels(ps) == \E X : ps \in Seq([n : X, job : Nat, stage : Nat])

ShellInv ==
  /\ script \in Scripts /\ Labels(pipes) /\ DOMAIN env = Envs
  /\ \A e \in Envs : EnvOK(env[e], script, pipes)

(***************************************************************************)
(* Pipes are only added.                                                   *)
(***************************************************************************)
Grown(ps, ps2) ==
  /\ DOMAIN ps \subseteq DOMAIN ps2
  /\ \A i \in DOMAIN ps : ps2[i].job = ps[i].job /\ ps2[i].stage = ps[i].stage

LEMMA StillOK ==
  ASSUME NEW r, NEW sc, NEW ps, NEW ps2, EnvOK(r, sc, ps), Grown(ps, ps2)
  PROVE  EnvOK(r, sc, ps2)
<1>1. \A k, end, job, made : PipeEnd(k, end, job, made, ps) => PipeEnd(k, end, job, made, ps2)
  BY DEF PipeEnd, Grown
<1>2. \A t : InputOK(r, t, ps) => InputOK(r, t, ps2)
  BY <1>1, Zenon DEF Input, InputOK
<1>3. \A l : Complete(r, l, ps) => Complete(r, l, ps2)
  BY <1>1, <1>2, Zenon DEF Complete, Out
<1>4. \A l, a, q : ReadTo(r, l, ps, a, q) => ReadTo(r, l, ps2, a, q)
  BY <1>2, Zenon DEF ReadTo
<1>5. \A l, a, q : Parsing(r, l, ps, a, q) => Parsing(r, l, ps2, a, q)
  BY <1>4, Zenon DEF Parsing
<1>6. \A l, a, q : AtBar(r, l, ps, a, q) => AtBar(r, l, ps2, a, q)
  BY <1>4, Zenon DEF AtBar
<1>7. \A made : HasPipe(r, made, ps) => HasPipe(r, made, ps2)
  BY <1>1, Zenon DEF HasPipe, Ends
<1>8. \A l : CmdOK(r, l, ps) => CmdOK(r, l, ps2)
  <2> SUFFICES ASSUME NEW l, CmdOK(r, l, ps) PROVE CmdOK(r, l, ps2)
    OBVIOUS
  <2>1. r.pc \in {"parse", "<", ">"} => \E a, q : Parsing(r, l, ps2, a, q)
    BY <1>5, Zenon DEF CmdOK
  <2>2. r.pc = "pipe" => \E a, q : /\ AtBar(r, l, ps2, a, q) /\ NoneBut(r.fd, {0, 1})
                                   /\ OutputOK(r, SubSeq(l, 1, q))
    BY <1>6, Zenon DEF CmdOK
  <2>3. r.pc \in {"pfork", "left"} => \E a, q : /\ AtBar(r, l, ps2, a, q) /\ HasPipe(r, r.stage, ps2)
                                                /\ OutputOK(r, SubSeq(l, 1, q))
    BY <1>6, <1>7, Zenon DEF CmdOK
  <2>4. r.pc = "left_close" => /\ \E a, q : AtBar(r, l, ps2, a, q)
                               /\ NoneBut(r.fd, {0, 1, r.p[1]})
                               /\ r.failed \/ (r.p[1] = 2 /\ PipeEnd(r.fd[1], "write", r.job, r.stage, ps2))
    BY <1>1, <1>6, Zenon DEF CmdOK
  <2>5. r.pc = "right" => (\E a : Begins(r, l, a)) /\ HasPipe(r, r.stage - 1, ps2)
    BY <1>7, Zenon DEF CmdOK
  <2>6. r.pc = "right_close" => /\ \E a : Begins(r, l, a)
                                /\ NoneBut(r.fd, {0, 1, r.p[2]})
                                /\ r.failed \/ (r.p[2] = 3 /\ PipeEnd(r.fd[0], "read", r.job, r.stage - 1, ps2))
    BY <1>1, Zenon DEF CmdOK
  <2>7. r.pc = "run" => r.argv = <<>> \/ Complete(r, l, ps2)
    BY <1>3, Zenon DEF CmdOK
  <2>8. QED
    BY <2>1, <2>2, <2>3, <2>4, <2>5, <2>6, <2>7, Zenon DEF CmdOK
<1>9. QED
  BY <1>3, <1>8, Zenon DEF EnvOK

-----------------------------------------------------------------------------
(* parsecmd(), token by token.                                             *)

LEMMA Sizes ==
  /\ MAXFD \in Nat /\ MAXFD > 3 /\ Scripts \subseteq Seq(Seq(STRING))
  /\ Fds = 0 .. MAXFD - 1 /\ 0 \in Fds /\ 1 \in Fds /\ 2 \in Fds /\ 3 \in Fds
BY ShellAssumption DEF Fds

(***************************************************************************)
(* One token more: the part of the stage, and of the line, that is read.   *)
(***************************************************************************)
Lengthened(l, a, q, t, u, x) ==
  /\ x \in Symbols \/ (q > a /\ l[q] \in {"<", ">"}) => WordsOf(u) = WordsOf(t)
  /\ x \notin Symbols /\ ~(q > a /\ l[q] \in {"<", ">"}) => WordsOf(u) = Append(WordsOf(t), x)
  /\ \A dir : q > a /\ l[q] = dir /\ x \in Files => Redirected(u, dir) = {x}
  /\ \A dir : ~(q > a /\ l[q] = dir /\ x \in Files) => Redirected(u, dir) = Redirected(t, dir)

LEMMA NextToken ==
  ASSUME NEW T, NEW l \in Seq(T), NEW a \in Nat, NEW q \in Nat, a <= q, q < Len(l),
         NEW x, x = l[q + 1], NEW t, t = SubSeq(l, a + 1, q), NEW u, u = SubSeq(l, a + 1, q + 1)
  PROVE  Lengthened(l, a, q, t, u, x)
<1>1. q <= Len(l) /\ x \in T
  OBVIOUS
<1>2. t \in Seq(T) /\ Len(t) = q - a /\ (\A i \in 1 .. q - a : t[i] = l[a + i]) /\ u = Append(t, x)
  BY <1>1, PartOf
<1>3. t # <<>> <=> q > a
  <2>1. t = <<>> => Len(t) = 0
    OBVIOUS
  <2>2. t # <<>> => Len(t) \in Nat \ {0}
    BY <1>2, EmptySeq
  <2>3. PICK n : n = Len(t) /\ n = q - a
    BY <1>2
  <2>4. n > 0 <=> q > a
    BY <2>3
  <2>5. (t = <<>> => n = 0) /\ (t # <<>> => n \in Nat \ {0})
    BY <2>1, <2>2, <2>3, Zenon
  <2>6. (n = 0 => ~(n > 0)) /\ (n \in Nat \ {0} => n > 0)
    BY <2>3
  <2>7. QED
    BY <2>4, <2>5, <2>6, Zenon
<1>4. q > a => t[Len(t)] = l[q]
  BY <1>2
<1>5. \A D : Follows(t, D) <=> q > a /\ l[q] \in D
  BY <1>3, <1>4 DEF Follows
<1>6. Follows(t, {"<", ">"}) <=> q > a /\ l[q] \in {"<", ">"}
  BY <1>5, Zenon
<1>7. \A dir : Follows(t, {dir}) <=> q > a /\ l[q] = dir
  <2>1. \A dir : l[q] \in {dir} <=> l[q] = dir
    OBVIOUS
  <2>2. QED
    BY <1>5, <2>1, Zenon
<1>8. ASSUME x \in Symbols \/ Follows(t, {"<", ">"}) PROVE WordsOf(u) = WordsOf(t)
  <2>1. WordsOf(Append(t, x)) = WordsOf(t)
    BY <1>1, <1>2, <1>8, WordSkipped
  <2>2. QED
    BY <1>2, <2>1, Zenon
<1>9. ASSUME x \notin Symbols, ~Follows(t, {"<", ">"}) PROVE WordsOf(u) = Append(WordsOf(t), x)
  <2>1. WordsOf(Append(t, x)) = Append(WordsOf(t), x)
    BY <1>1, <1>2, <1>9, WordAdded
  <2>2. QED
    BY <1>2, <2>1, Zenon
<1>10. \A dir : FileNext(t, x, dir)
  BY <1>1, <1>2, FileAdded, Zenon
<1>11. \A dir : /\ Follows(t, {dir}) /\ x \in Files => Redirected(u, dir) = {x}
                /\ ~(Follows(t, {dir}) /\ x \in Files) => Redirected(u, dir) = Redirected(t, dir)
  BY <1>2, <1>10, Zenon DEF FileNext
<1>12. QED
  BY <1>6, <1>7, <1>8, <1>9, <1>11, Zenon DEF Lengthened

LEMMA SomethingThere ==
  /\ \A k, t, job, s, ps : Input(k, t, job, s, ps) => k # None
  /\ \A k, u : Output(k, u) => k # None
<1>1. \A f : <<"file", f>> # None
  BY DEF None
<1>2. \A i : <<"read", i>> # None
  BY DEF None
<1>3. Console # None
  BY DEF None, Console
<1>4. \A k, F : FileOf(k, F) => k # None
  BY <1>1 DEF FileOf
<1>5. \A k, job, made, ps : PipeEnd(k, "read", job, made, ps) => k # None
  BY <1>2 DEF PipeEnd
<1>6. QED
  BY <1>3, <1>4, <1>5, Zenon DEF Input, Output

(***************************************************************************)
(* With descriptors 0 and 1 in use, the next ones are 2 and 3.             *)
(***************************************************************************)
LEMMA MinIs ==
  ASSUME NEW S, NEW m \in S, \A i \in S : m <= i /\ i \in Int
  PROVE  Min(S) = m
<1>1. \E i \in S : \A j \in S : i <= j
  OBVIOUS
<1>2. PICK c : c = Min(S)
  OBVIOUS
<1>3. c \in S /\ \A j \in S : c <= j
  BY <1>1, <1>2, Zenon DEF Min
<1>4. QED
  BY <1>2, <1>3

LEMMA Lowest ==
  ASSUME NEW fd, NoneBut(fd, {0, 1}), fd[0] # None, fd[1] # None
  PROVE  /\ FreeFds(fd) # {} /\ Min(FreeFds(fd)) = 2
         /\ Cardinality(FreeFds(fd)) >= 2 => 3 \in Fds /\ Min(FreeFds(fd) \ {2}) = 3
<1>1. FreeFds(fd) = 2 .. MAXFD - 2
  BY Sizes DEF FreeFds, NoneBut
<1>2. Cardinality(2 .. MAXFD - 2) = MAXFD - 3
  BY Sizes, FS_Interval
<1>3. PICK F : F = FreeFds(fd)
  OBVIOUS
<1>4. 2 \in F /\ \A i \in F : 2 <= i /\ i \in Int
  BY <1>1, <1>3, Sizes
<1>5. Min(F) = 2
  BY <1>4, MinIs
<1>6. ASSUME Cardinality(F) >= 2
      PROVE  3 \in Fds /\ Min(F \ {2}) = 3
  <2>1. MAXFD > 4
    BY <1>1, <1>2, <1>3, <1>6, Sizes
  <2>2. PICK G : G = F \ {2}
    OBVIOUS
  <2>3. 3 \in G /\ \A i \in G : 3 <= i /\ i \in Int
    BY <1>1, <1>3, <2>1, <2>2, Sizes
  <2>4. Min(G) = 3
    BY <2>3, MinIs
  <2>5. 3 \in Fds
    BY <2>1, Sizes
  <2>6. QED
    BY <2>2, <2>4, <2>5, Zenon
<1>7. QED
  BY <1>3, <1>4, <1>5, <1>6

(***************************************************************************)
(* The end of the line, a word, a symbol.                                  *)
(***************************************************************************)
LEMMA EndOK ==
  ASSUME NEW T, NEW l \in Seq(T), NEW ps, NEW r, Shaped(r), r.pc = "parse", CmdOK(r, l, ps),
         r.toks = <<>>, NEW d, d = [r EXCEPT !.pc = "run"]
  PROVE  StepOK(d, r, l, ps)
<1>1. /\ Shaped(d) /\ d.st = r.st /\ d.job = r.job /\ d.pc = "run" /\ d.fd = r.fd /\ d.argv = r.argv /\ d.stage = r.stage
      /\ d.failed = r.failed
  BY DEF Shaped, Fields
<1>2. PICK a, q : Parsing(r, l, ps, a, q)
  BY DEF CmdOK
<1>3. q \in Nat /\ q <= Len(l) /\ a <= q /\ Starts(l, a, r.stage) /\ NoBar(l, a, q)
  BY <1>2 DEF Parsing, ReadTo
<1>4. q = Len(l)
  BY <1>2, <1>3, RestOf DEF Parsing
<1>5. r.stage = LastStage(l) /\ StageOf(l, r.stage) = SubSeq(l, a + 1, q)
  BY <1>3, <1>4, StageIs
<1>6. SubSeq(l, 1, q) = l
  BY <1>4, RestOf
<1>7. LastStage(l) \in Nat
  BY <1>3, <1>5 DEF Starts
<1>8. Complete(d, l, ps)
  <2>1. ~(r.stage < LastStage(l))
    BY <1>5, <1>7
  <2>2. QED
    BY <1>1, <1>2, <1>5, <1>6, <2>1, Zenon DEF Complete, Parsing, ReadTo, InputOK, OutputOK, Out
<1>9. QED
  BY <1>1, <1>8 DEF StepOK, CmdOK

(***************************************************************************)
(* A step that reads a token and goes on parsing at d.                     *)
(***************************************************************************)
TokenFacts(r, l, a, q, x) ==
  /\ a \in Nat /\ q \in Nat /\ q < Len(l) /\ a <= q /\ x = l[q + 1]
  /\ Tail(r.toks) = SubSeq(l, (q + 1) + 1, Len(l))
  /\ x # "|" => NoBar(l, a, q + 1)
  /\ r.pc # "parse" => q > a /\ l[q] = r.pc
  /\ r.pc = "parse" /\ q > 0 => l[q] \notin {"<", ">"}

LEMMA TokenRead ==
  ASSUME NEW T, NEW l \in Seq(T), NEW ps, NEW r, NEW a, NEW q, Parsing(r, l, ps, a, q),
         r.pc \in {"parse", "<", ">"}, r.toks # <<>>, NEW x, x = Head(r.toks)
  PROVE  TokenFacts(r, l, a, q, x)
<1>1. /\ a \in Nat /\ q \in Nat /\ q <= Len(l) /\ a <= q /\ Starts(l, a, r.stage) /\ NoBar(l, a, q)
      /\ r.toks = SubSeq(l, q + 1, Len(l)) /\ Len(l) \in Nat
  BY DEF Parsing, ReadTo
<1>2. q < Len(l)
  BY <1>1, RestOf
<1>3. x = l[q + 1] /\ Tail(r.toks) = SubSeq(l, q + 2, Len(l))
  BY <1>1, <1>2, RestOf
<1>4. (q + 1) + 1 = q + 2
  BY <1>1
<1>5. x # "|" => NoBar(l, a, q + 1)
  BY <1>1, <1>3 DEF NoBar
<1>6. r.pc # "parse" => q > 0 /\ l[q] = r.pc
  BY DEF Parsing
<1>7. r.pc # "parse" => q > a
  BY <1>1, <1>6 DEF Starts
<1>8. r.pc = "parse" /\ q > 0 => l[q] \notin {"<", ">"}
  BY DEF Parsing
<1>9. QED
  BY <1>1, <1>2, <1>3, <1>4, <1>5, <1>6, <1>7, <1>8, Zenon DEF TokenFacts

LEMMA WordOK ==
  ASSUME NEW T, NEW l \in Seq(T), NEW ps, NEW r, Shaped(r), r.pc = "parse", CmdOK(r, l, ps),
         IsWord(r.toks), NEW d, d = [r EXCEPT !.toks = Tail(@), !.argv = Append(@, Head(r.toks))]
  PROVE  StepOK(d, r, l, ps)
<1>1. /\ Shaped(d) /\ d.st = r.st /\ d.job = r.job /\ d.pc = "parse" /\ d.fd = r.fd /\ d.stage = r.stage
      /\ d.toks = Tail(r.toks) /\ d.failed = r.failed /\ d.argv = Append(r.argv, Head(r.toks))
  BY DEF Shaped, Fields
<1>2. PICK a, q : Parsing(r, l, ps, a, q)
  BY DEF CmdOK
<1>3. PICK x : x = Head(r.toks)
  OBVIOUS
<1>4. x \notin Symbols /\ x # "|" /\ x \notin {"<", ">"} /\ r.toks # <<>>
  BY <1>3 DEF IsWord, Symbols
<1>5. /\ a \in Nat /\ q \in Nat /\ q < Len(l) /\ a <= q /\ x = l[q + 1]
      /\ Tail(r.toks) = SubSeq(l, (q + 1) + 1, Len(l))
      /\ NoBar(l, a, q + 1)
      /\ q > 0 => l[q] \notin {"<", ">"}
  <2>1. TokenFacts(r, l, a, q, x)
    BY <1>2, <1>3, <1>4, TokenRead
  <2>2. QED
    BY <1>4, <2>1, Zenon DEF TokenFacts
<1>6. q + 1 \in Nat /\ q + 1 <= Len(l) /\ a <= q + 1 /\ ~(q > a /\ l[q] \in {"<", ">"})
  BY <1>5
<1>7. /\ WordsOf(SubSeq(l, a + 1, q + 1)) = Append(WordsOf(SubSeq(l, a + 1, q)), x)
      /\ Redirected(SubSeq(l, a + 1, q + 1), "<") = Redirected(SubSeq(l, a + 1, q), "<")
  <2>1. PICK t, u : t = SubSeq(l, a + 1, q) /\ u = SubSeq(l, a + 1, q + 1)
    OBVIOUS
  <2>2. Lengthened(l, a, q, t, u, x)
    BY <1>5, <2>1, NextToken
  <2>3. ~(q > a /\ l[q] = "<" /\ x \in Files)
    BY <1>6
  <2>4. QED
    BY <1>4, <1>6, <2>1, <2>2, <2>3, Zenon DEF Lengthened
<1>8. Redirected(SubSeq(l, 1, q + 1), ">") = Redirected(SubSeq(l, 1, q), ">")
  <2>1. ~(q > 0 /\ l[q] = ">" /\ x \in Files) /\ 0 \in Nat /\ 0 <= q /\ 0 + 1 = 1
    BY <1>5
  <2>2. PICK t, u : t = SubSeq(l, 0 + 1, q) /\ u = SubSeq(l, 0 + 1, q + 1)
    OBVIOUS
  <2>3. Lengthened(l, 0, q, t, u, x)
    BY <1>5, <2>1, <2>2, NextToken
  <2>4. QED
    BY <2>1, <2>2, <2>3, Zenon DEF Lengthened
<1>9. d.argv = WordsOf(SubSeq(l, a + 1, q + 1))
  BY <1>1, <1>2, <1>3, <1>7, Zenon DEF Parsing, ReadTo
<1>10. InputOK(d, SubSeq(l, a + 1, q + 1), ps)
  BY <1>1, <1>2, <1>7, Zenon DEF Parsing, ReadTo, Input, InputOK
<1>11. OutputOK(d, SubSeq(l, 1, q + 1)) /\ NoneBut(d.fd, {0, 1})
  BY <1>1, <1>2, <1>8, Zenon DEF Parsing, Output, OutputOK
<1>12. Starts(l, a, d.stage)
  BY <1>1, <1>2, Zenon DEF Parsing, ReadTo
<1>13. ReadTo(d, l, ps, a, q + 1)
  BY <1>5, <1>6, <1>9, <1>10, <1>12, Zenon DEF ReadTo
<1>14. Parsing(d, l, ps, a, q + 1)
  BY <1>1, <1>4, <1>5, <1>11, <1>13, Zenon DEF Parsing
<1>15. QED
  BY <1>1, <1>14 DEF StepOK, CmdOK

(***************************************************************************)
(* A symbol: a bar ends the stage, the others end no word.                 *)
(***************************************************************************)
LEMMA SymbolOK ==
  ASSUME NEW T, NEW l \in Seq(T), NEW ps, NEW r, Shaped(r), r.pc = "parse", CmdOK(r, l, ps),
         r.toks # <<>>, Head(r.toks) \in Symbols, NEW d,
         d = [r EXCEPT !.toks = Tail(@),
                !.pc = IF Head(r.toks) = "|" THEN "pipe"
                       ELSE IF Head(r.toks) \in {"<", ">"} THEN Head(r.toks) ELSE "parse"]
  PROVE  StepOK(d, r, l, ps)
<1>1. PICK x : x = Head(r.toks)
  OBVIOUS
<1>2. PICK c : c = IF x = "|" THEN "pipe" ELSE IF x \in {"<", ">"} THEN x ELSE "parse"
  OBVIOUS
<1>3. d = [r EXCEPT !.toks = Tail(@), !.pc = c]
  BY <1>1, <1>2, Zenon
<1>4. /\ Shaped(d) /\ d.st = r.st /\ d.job = r.job /\ d.pc = c /\ d.fd = r.fd /\ d.stage = r.stage
      /\ d.toks = Tail(r.toks) /\ d.failed = r.failed /\ d.argv = r.argv
  BY <1>3 DEF Shaped, Fields
<1>5. PICK a, q : Parsing(r, l, ps, a, q)
  BY DEF CmdOK
<1>6. /\ a \in Nat /\ q \in Nat /\ q < Len(l) /\ a <= q /\ x = l[q + 1]
      /\ Tail(r.toks) = SubSeq(l, (q + 1) + 1, Len(l))
      /\ x # "|" => NoBar(l, a, q + 1)
      /\ q > 0 => l[q] \notin {"<", ">"}
  <2>1. TokenFacts(r, l, a, q, x)
    BY <1>1, <1>5, TokenRead
  <2>2. QED
    BY <2>1, Zenon DEF TokenFacts
<1>7. CASE x = "|"
  <2>1. (q + 1) + 1 = q + 2
    BY <1>6
  <2>2. ReadTo(d, l, ps, a, q)
    BY <1>4, <1>5, Zenon DEF Parsing, ReadTo, InputOK
  <2>3. AtBar(d, l, ps, a, q)
    BY <1>4, <1>6, <1>7, <2>1, <2>2, Zenon DEF AtBar
  <2>4. OutputOK(d, SubSeq(l, 1, q)) /\ NoneBut(d.fd, {0, 1})
    BY <1>4, <1>5, Zenon DEF Parsing, OutputOK
  <2>5. d.pc = "pipe"
    BY <1>2, <1>4, <1>7
  <2>6. QED
    BY <1>4, <2>3, <2>4, <2>5 DEF CmdOK, StepOK
<1>8. CASE x # "|"
  <2>1. q + 1 \in Nat /\ q + 1 <= Len(l) /\ a <= q + 1 /\ q + 1 > 0 /\ ~(q > a /\ l[q] \in {"<", ">"})
    BY <1>6
  <2>2. PICK t, u : t = SubSeq(l, a + 1, q) /\ u = SubSeq(l, a + 1, q + 1)
    OBVIOUS
  <2>3. Lengthened(l, a, q, t, u, x)
    BY <1>6, <2>2, NextToken
  <2>4. ~(q > a /\ l[q] = "<" /\ x \in Files)
    BY <2>1
  <2>5. /\ WordsOf(SubSeq(l, a + 1, q + 1)) = WordsOf(SubSeq(l, a + 1, q))
        /\ Redirected(SubSeq(l, a + 1, q + 1), "<") = Redirected(SubSeq(l, a + 1, q), "<")
    BY <1>1, <2>2, <2>3, <2>4, Zenon DEF Lengthened
  <2>6. Redirected(SubSeq(l, 1, q + 1), ">") = Redirected(SubSeq(l, 1, q), ">")
    <3>1. ~(q > 0 /\ l[q] = ">" /\ x \in Files) /\ 0 \in Nat /\ 0 <= q /\ 0 + 1 = 1
      BY <1>6
    <3>2. PICK t1, u1 : t1 = SubSeq(l, 0 + 1, q) /\ u1 = SubSeq(l, 0 + 1, q + 1)
      OBVIOUS
    <3>3. Lengthened(l, 0, q, t1, u1, x)
      BY <1>6, <3>1, <3>2, NextToken
    <3>4. QED
      BY <3>1, <3>2, <3>3, Zenon DEF Lengthened
  <2>7. InputOK(d, SubSeq(l, a + 1, q + 1), ps)
    BY <1>4, <1>5, <2>5, Zenon DEF Parsing, ReadTo, Input, InputOK
  <2>8. OutputOK(d, SubSeq(l, 1, q + 1)) /\ NoneBut(d.fd, {0, 1})
    BY <1>4, <1>5, <2>6, Zenon DEF Parsing, Output, OutputOK
  <2>9. Starts(l, a, d.stage) /\ d.argv = WordsOf(SubSeq(l, a + 1, q + 1))
    BY <1>4, <1>5, <2>5, Zenon DEF Parsing, ReadTo
  <2>10. ReadTo(d, l, ps, a, q + 1)
    BY <1>6, <1>8, <2>1, <2>7, <2>9, Zenon DEF ReadTo
  <2>11. /\ d.pc \in {"parse", "<", ">"}
         /\ IF d.pc = "parse" THEN l[q + 1] \notin {"<", ">"} ELSE l[q + 1] = d.pc
    BY <1>2, <1>4, <1>6, <1>8
  <2>12. Parsing(d, l, ps, a, q + 1)
    BY <1>4, <1>6, <2>1, <2>8, <2>10, <2>11, Zenon DEF Parsing
  <2>13. QED
    BY <1>4, <2>11, <2>12 DEF CmdOK, StepOK
<1>9. QED
  BY <1>7, <1>8

(***************************************************************************)
(* The name of a file.                                                     *)
(***************************************************************************)
DupFacts(fd, f, g, old, to) ==
  /\ DOMAIN g = Fds
  /\ \A i \in Fds : i = old => g[i] = None
  /\ \A i \in Fds : i # old /\ i # to => g[i] = fd[i]
  /\ f[to] # None /\ fd[old] # None => g[to] = fd[old]

LEMMA DupClose ==
  ASSUME NEW fd, DOMAIN fd = Fds, NEW old, NEW to \in Fds, NEW f \in dup(fd, old, to),
         NEW g, g = close(f, old)
  PROVE  DupFacts(fd, f, g, old, to)
<1>1. \/ f = fd /\ fd[old] = None
      \/ f = [fd EXCEPT ![to] = None]
      \/ f = [fd EXCEPT ![to] = fd[old]] /\ old # to
  BY DEF dup
<1>2. PICK v : v = fd[old]
  OBVIOUS
<1>3. /\ DOMAIN f = Fds /\ \A i \in Fds : i # to => f[i] = fd[i]
      /\ f[to] # None /\ fd[old] # None => f[to] = fd[old] /\ old # to
  <2>1. CASE f = fd /\ fd[old] = None
    BY <2>1
  <2>2. CASE f = [fd EXCEPT ![to] = None]
    BY <2>2
  <2>3. CASE f = [fd EXCEPT ![to] = v] /\ old # to
    BY <1>2, <2>3
  <2>4. QED
    BY <1>1, <1>2, <2>1, <2>2, <2>3, Zenon
<1>4. CASE old \in Fds
  <2>1. g = [f EXCEPT ![old] = None]
    BY <1>4, Zenon DEF close
  <2>2. DOMAIN g = Fds /\ g[old] = None /\ \A i \in Fds : i # old => g[i] = f[i]
    BY <1>3, <1>4, <2>1
  <2>3. QED
    BY <1>3, <2>2, Zenon DEF DupFacts
<1>5. CASE old \notin Fds
  <2>1. g = f
    BY <1>5, Zenon DEF close
  <2>2. QED
    BY <1>3, <1>5, <2>1, Zenon DEF DupFacts
<1>6. QED
  BY <1>4, <1>5

\* What the redirection of descriptor to leaves.
Redirects(r, d, to, x) ==
  /\ DOMAIN d.fd = Fds /\ NoneBut(d.fd, {0, 1})
  /\ d.failed \/ (/\ ~r.failed
                  /\ \A i \in {0, 1} : d.fd[i] = IF i = to /\ x \in Files THEN <<"file", x>> ELSE r.fd[i])

NameFacts(r, l, a, q, x) ==
  /\ x # "|" /\ x \notin {"<", ">"} /\ r.toks # <<>>
  /\ a \in Nat /\ q \in Nat /\ q < Len(l) /\ a <= q /\ x = l[q + 1]
  /\ Tail(r.toks) = SubSeq(l, (q + 1) + 1, Len(l))
  /\ NoBar(l, a, q + 1)
  /\ q > a /\ l[q] = r.pc
  /\ q + 1 \in Nat /\ q + 1 <= Len(l) /\ a <= q + 1 /\ q > 0 /\ l[q] \in {"<", ">"}

LEMMA NameRead ==
  ASSUME NEW T, NEW l \in Seq(T), NEW ps, NEW r, NEW a, NEW q, Parsing(r, l, ps, a, q),
         r.pc \in {"<", ">"}, IsWord(r.toks), NEW x, x = Head(r.toks)
  PROVE  NameFacts(r, l, a, q, x)
<1>1. x \notin Symbols /\ x # "|" /\ x \notin {"<", ">"} /\ r.toks # <<>>
  BY DEF IsWord, Symbols
<1>2. r.pc # "parse" /\ r.pc \in {"parse", "<", ">"}
  OBVIOUS
<1>3. /\ a \in Nat /\ q \in Nat /\ q < Len(l) /\ a <= q /\ x = l[q + 1]
      /\ Tail(r.toks) = SubSeq(l, (q + 1) + 1, Len(l))
      /\ NoBar(l, a, q + 1)
      /\ q > a /\ l[q] = r.pc
  <2>1. TokenFacts(r, l, a, q, x)
    BY <1>1, <1>2, TokenRead
  <2>2. QED
    BY <1>1, <1>2, <2>1, Zenon DEF TokenFacts
<1>4. q + 1 \in Nat /\ q + 1 <= Len(l) /\ a <= q + 1 /\ q > 0
  BY <1>3
<1>5. l[q] \in {"<", ">"}
  BY <1>3, Zenon
<1>6. QED
  BY <1>1, <1>3, <1>4, <1>5, Zenon DEF NameFacts

LEMMA RedirectOK ==
  ASSUME NEW T, NEW l \in Seq(T), NEW ps, NEW r, Shaped(r), CmdOK(r, l, ps),
         NEW to \in {0, 1}, r.pc = IF to = 0 THEN "<" ELSE ">", IsWord(r.toks),
         NEW x, x = Head(r.toks), NEW f, NEW b, NEW d,
         d = [r EXCEPT !.pc = "parse", !.toks = Tail(@), !.fd = f, !.failed = b], Redirects(r, d, to, x)
  PROVE  StepOK(d, r, l, ps)
<1>1. /\ DOMAIN d = Fields /\ d.st = r.st /\ d.job = r.job /\ d.pc = "parse" /\ d.fd = f /\ d.stage = r.stage
      /\ d.toks = Tail(r.toks) /\ d.argv = r.argv
  BY DEF Shaped, Fields
<1>2. r.pc \in {"<", ">"} /\ r.pc \in {"parse", "<", ">"}
  OBVIOUS
<1>3. PICK a, q : Parsing(r, l, ps, a, q)
  BY <1>2, Zenon DEF CmdOK
<1>4. /\ x # "|" /\ x \notin {"<", ">"} /\ r.toks # <<>>
      /\ a \in Nat /\ q \in Nat /\ q < Len(l) /\ a <= q /\ x = l[q + 1]
      /\ Tail(r.toks) = SubSeq(l, (q + 1) + 1, Len(l))
      /\ NoBar(l, a, q + 1)
      /\ q > a /\ l[q] = r.pc
      /\ q + 1 \in Nat /\ q + 1 <= Len(l) /\ a <= q + 1 /\ q > 0 /\ l[q] \in {"<", ">"}
  <2>1. NameFacts(r, l, a, q, x)
    BY <1>2, <1>3, NameRead
  <2>2. QED
    BY <2>1, Zenon DEF NameFacts
<1>5. 0 \in Nat /\ 0 <= q /\ 0 + 1 = 1
  BY <1>4
<1>6. PICK t, u : t = SubSeq(l, a + 1, q) /\ u = SubSeq(l, a + 1, q + 1)
  OBVIOUS
<1>7. PICK t1, u1 : t1 = SubSeq(l, 0 + 1, q) /\ u1 = SubSeq(l, 0 + 1, q + 1)
  OBVIOUS
<1>8. Lengthened(l, a, q, t, u, x) /\ Lengthened(l, 0, q, t1, u1, x)
  BY <1>4, <1>5, <1>6, <1>7, NextToken
<1>9. InputOK(r, t, ps) /\ OutputOK(r, t1) /\ Starts(l, a, r.stage) /\ r.argv = WordsOf(t)
  BY <1>3, <1>5, <1>6, <1>7, Zenon DEF Parsing, ReadTo
<1>10. WordsOf(u) = WordsOf(t)
  BY <1>4, <1>5, <1>8, Zenon DEF Lengthened
<1>11. DOMAIN f = Fds /\ NoneBut(f, {0, 1})
  BY <1>1, Zenon DEF Redirects
<1>12. ASSUME ~d.failed PROVE Input(f[0], u, r.job, r.stage, ps) /\ Output(f[1], u1)
  <2>1. /\ Input(r.fd[0], t, r.job, r.stage, ps) /\ Output(r.fd[1], t1)
        /\ \A i \in {0, 1} : f[i] = IF i = to /\ x \in Files THEN <<"file", x>> ELSE r.fd[i]
    BY <1>1, <1>9, <1>12, Zenon DEF Redirects, InputOK, OutputOK
  <2>2. FileOf(<<"file", x>>, {x}) /\ {x} # {}
    BY DEF FileOf
  <2>3. CASE x \in Files /\ to = 0
    <3>1. l[q] = "<" /\ ~(l[q] = ">")
      BY <1>4, <2>3
    <3>2. Redirected(u, "<") = {x} /\ Redirected(u1, ">") = Redirected(t1, ">")
      BY <1>4, <1>8, <2>3, <3>1, Zenon DEF Lengthened
    <3>3. f[0] = <<"file", x>> /\ f[1] = r.fd[1]
      <4>1. 0 \in {0, 1} /\ 1 \in {0, 1} /\ 1 # to
        BY <2>3
      <4>2. QED
        BY <2>1, <2>3, <4>1, Zenon
    <3>4. QED
      BY <2>1, <2>2, <3>2, <3>3, Zenon DEF Input, Output
  <2>4. CASE x \in Files /\ to = 1
    <3>1. l[q] = ">" /\ ~(l[q] = "<")
      BY <1>4, <2>4
    <3>2. Redirected(u, "<") = Redirected(t, "<") /\ Redirected(u1, ">") = {x}
      BY <1>4, <1>8, <2>4, <3>1, Zenon DEF Lengthened
    <3>3. f[1] = <<"file", x>> /\ f[0] = r.fd[0]
      <4>1. 0 \in {0, 1} /\ 1 \in {0, 1} /\ 0 # to
        BY <2>4
      <4>2. QED
        BY <2>1, <2>4, <4>1, Zenon
    <3>4. QED
      BY <2>1, <2>2, <3>2, <3>3, Zenon DEF Input, Output
  <2>5. CASE x \notin Files
    <3>1. f[0] = r.fd[0] /\ f[1] = r.fd[1]
      <4>1. 0 \in {0, 1} /\ 1 \in {0, 1}
        OBVIOUS
      <4>2. QED
        BY <2>1, <2>5, <4>1, Zenon
    <3>2. Redirected(u, "<") = Redirected(t, "<") /\ Redirected(u1, ">") = Redirected(t1, ">")
      BY <1>8, <2>5, Zenon DEF Lengthened
    <3>3. QED
      BY <2>1, <3>1, <3>2, Zenon DEF Input, Output
  <2>6. to = 0 \/ to = 1
    OBVIOUS
  <2>7. QED
    BY <2>3, <2>4, <2>5, <2>6, Zenon
<1>13. InputOK(d, u, ps) /\ OutputOK(d, u1)
  BY <1>1, <1>12, Zenon DEF InputOK, OutputOK
<1>14. Shaped(d)
  BY <1>1, <1>11, Zenon DEF Shaped
<1>15. ReadTo(d, l, ps, a, q + 1)
  BY <1>1, <1>4, <1>5, <1>6, <1>9, <1>10, <1>13, Zenon DEF ReadTo
<1>16. Parsing(d, l, ps, a, q + 1)
  BY <1>1, <1>4, <1>5, <1>7, <1>11, <1>13, <1>15, Zenon DEF Parsing
<1>17. QED
  BY <1>1, <1>14, <1>16 DEF StepOK, CmdOK

-----------------------------------------------------------------------------
(* The pipe between two stages.                                            *)

(***************************************************************************)
(* pipe(): descriptors 2 and 3 become the ends of a new pipe.              *)
(***************************************************************************)
LEMMA PipeOK ==
  ASSUME NEW l, NEW ps, NEW r, Shaped(r), CmdOK(r, l, ps), r.pc = "pipe",
         NEW k \in DOMAIN ps, ps[k].job = r.job, ps[k].stage = r.stage,
         NEW a, NEW b, r.failed \/ (a = 2 /\ b = 3),
         NEW f, f = [r.fd EXCEPT ![a] = <<"read", k>>, ![b] = <<"write", k>>],
         NEW d, d = [r EXCEPT !.pc = "pfork", !.p = <<a, b>>, !.fd = f]
  PROVE  StepOK(d, r, l, ps)
<1>1. /\ DOMAIN d = Fields /\ d.st = r.st /\ d.job = r.job /\ d.pc = "pfork" /\ d.fd = f /\ d.stage = r.stage
      /\ d.toks = r.toks /\ d.argv = r.argv /\ d.p = <<a, b>> /\ d.failed = r.failed
  BY DEF Shaped, Fields
<1>2. PICK x, q : /\ AtBar(r, l, ps, x, q) /\ NoneBut(r.fd, {0, 1})
                  /\ OutputOK(r, SubSeq(l, 1, q))
  BY DEF CmdOK
<1>3. PICK g : g = r.fd /\ DOMAIN g = Fds
  BY DEF Shaped
<1>4. PICK v, w : v = <<"read", k>> /\ w = <<"write", k>>
  OBVIOUS
<1>5. PICK h : h = [g EXCEPT ![a] = v]
  OBVIOUS
<1>6. f = [h EXCEPT ![b] = w]
  BY <1>3, <1>4, <1>5, Zenon
<1>7. DOMAIN h = Fds /\ (a \in Fds => h[a] = v) /\ \A i \in Fds : i # a => h[i] = g[i]
  BY <1>3, <1>5
<1>8. DOMAIN f = Fds /\ (b \in Fds => f[b] = w) /\ \A i \in Fds : i # b => f[i] = h[i]
  BY <1>6, <1>7
<1>9. NoneBut(f, {0, 1, d.p[1], d.p[2]})
  <2>1. d.p[1] = a /\ d.p[2] = b
    BY <1>1
  <2>2. \A i \in Fds \ {0, 1, a, b} : f[i] = g[i] /\ g[i] = None
    BY <1>2, <1>3, <1>7, <1>8 DEF NoneBut
  <2>3. QED
    BY <2>1, <2>2 DEF NoneBut
<1>10. ASSUME ~r.failed
       PROVE  /\ Ends(d, d.stage, ps) /\ f[0] = g[0] /\ f[1] = g[1]
  <2>1. a = 2 /\ b = 3 /\ a # b /\ 0 # a /\ 0 # b /\ 1 # a /\ 1 # b
    BY <1>10
  <2>2. f[a] = v /\ f[b] = w /\ f[0] = g[0] /\ f[1] = g[1]
    BY <1>7, <1>8, <2>1, Sizes, Zenon
  <2>3. PipeEnd(f[a], "read", r.job, r.stage, ps) /\ PipeEnd(f[b], "write", r.job, r.stage, ps)
    BY <1>4, <2>2, Zenon DEF PipeEnd
  <2>4. QED
    BY <1>1, <2>1, <2>2, <2>3, Sizes, Zenon DEF Ends
<1>11. HasPipe(d, d.stage, ps)
  BY <1>1, <1>9, <1>10, Zenon DEF HasPipe
<1>12. AtBar(d, l, ps, x, q) /\ OutputOK(d, SubSeq(l, 1, q))
  BY <1>1, <1>2, <1>3, <1>10, Zenon DEF AtBar, ReadTo, InputOK, OutputOK
<1>13. QED
  BY <1>1, <1>8, <1>11, <1>12 DEF StepOK, CmdOK, Shaped

(***************************************************************************)
(* The child of the fork, which is about to parse the next stage.          *)
(***************************************************************************)
LEMMA NextStageOK ==
  ASSUME NEW T, NEW l \in Seq(T), NEW ps, NEW r, Shaped(r), CmdOK(r, l, ps), r.pc = "pfork",
         NEW d, d = [r EXCEPT !.pc = "right", !.argv = <<>>, !.stage = @ + 1]
  PROVE  StepOK(d, r, l, ps)
<1>1. /\ Shaped(d) /\ d.st = r.st /\ d.job = r.job /\ d.pc = "right" /\ d.fd = r.fd /\ d.stage = r.stage + 1
      /\ d.toks = r.toks /\ d.argv = <<>> /\ d.p = r.p /\ d.failed = r.failed
  BY DEF Shaped, Fields
<1>2. PICK a, q : AtBar(r, l, ps, a, q) /\ HasPipe(r, r.stage, ps) /\ OutputOK(r, SubSeq(l, 1, q))
  BY DEF CmdOK
<1>3. /\ a \in Nat /\ q \in Nat /\ a <= q /\ q < Len(l) /\ l[q + 1] = "|" /\ (q > 0 => l[q] \notin {"<", ">"})
      /\ Starts(l, a, r.stage) /\ NoBar(l, a, q) /\ r.toks = SubSeq(l, q + 2, Len(l))
  BY <1>2, Zenon DEF AtBar, ReadTo
<1>4. /\ q <= Len(l) /\ q + 1 \in Nat /\ q + 1 > 0 /\ q + 1 <= Len(l) /\ (q + 1) + 1 = q + 2
      /\ 0 \in Nat /\ 0 <= q /\ 0 + 1 = 1
  BY <1>3
<1>5. Starts(l, q + 1, r.stage + 1)
  BY <1>3, <1>4, StageIs
<1>6. r.stage \in Nat /\ r.stage > 0
  BY <1>3 DEF Starts
<1>7. d.stage > 1 /\ d.stage - 1 = r.stage
  BY <1>1, <1>6
<1>8. PICK t, u : t = SubSeq(l, 0 + 1, q) /\ u = SubSeq(l, 0 + 1, q + 1)
  OBVIOUS
<1>9. PICK x : x = l[q + 1]
  OBVIOUS
<1>10. Lengthened(l, 0, q, t, u, x)
  BY <1>3, <1>4, <1>8, <1>9, NextToken
<1>11. ~(q > 0 /\ l[q] = ">" /\ x \in Files)
  BY <1>3
<1>12. Redirected(SubSeq(l, 1, q + 1), ">") = Redirected(SubSeq(l, 1, q), ">")
  BY <1>4, <1>8, <1>10, <1>11, Zenon DEF Lengthened
<1>13. OutputOK(d, SubSeq(l, 1, q + 1))
  BY <1>1, <1>2, <1>12, Zenon DEF Output, OutputOK
<1>14. Begins(d, l, q + 1)
  BY <1>1, <1>3, <1>4, <1>5, <1>7, <1>13, Zenon DEF Begins
<1>15. HasPipe(d, d.stage - 1, ps)
  BY <1>1, <1>2, <1>7, Zenon DEF HasPipe, Ends
<1>16. QED
  BY <1>1, <1>14, <1>15 DEF StepOK, CmdOK

LEMMA PipeIsSomething ==
  \A k, end, job, made, ps : PipeEnd(k, end, job, made, ps) /\ end # "none" => k # None
BY DEF PipeEnd, None

(***************************************************************************)
(* The right side: its input is the pipe.                                  *)
(***************************************************************************)
LEMMA RightOK ==
  ASSUME NEW l, NEW ps, NEW r, Shaped(r), CmdOK(r, l, ps), r.pc = "right",
         NEW f \in dup(r.fd, r.p[1], 0), NEW g, g = close(f, r.p[1]), NEW b, b <=> r.failed \/ f[0] = None,
         NEW d, d = [r EXCEPT !.pc = "right_close", !.fd = g, !.failed = b]
  PROVE  StepOK(d, r, l, ps)
<1>1. /\ DOMAIN d = Fields /\ d.st = r.st /\ d.job = r.job /\ d.pc = "right_close" /\ d.fd = g /\ d.stage = r.stage
      /\ d.toks = r.toks /\ d.argv = r.argv /\ d.p = r.p /\ d.failed = b
  BY DEF Shaped, Fields
<1>2. PICK x : Begins(r, l, x)
  BY DEF CmdOK
<1>3. NoneBut(r.fd, {0, 1, r.p[1], r.p[2]}) /\ (r.failed \/ Ends(r, r.stage - 1, ps))
  BY DEF CmdOK, HasPipe
<1>4. PICK h, m, n : h = r.fd /\ DOMAIN h = Fds /\ m = r.p[1] /\ n = r.p[2]
  BY DEF Shaped
<1>5. DupFacts(h, f, g, m, 0)
  BY <1>4, DupClose, Sizes
<1>6. DOMAIN g = Fds /\ NoneBut(g, {0, 1, d.p[2]})
  <2>1. \A i \in Fds : (i = m => g[i] = None) /\ (i # m /\ i # 0 => g[i] = h[i])
    BY <1>5, Zenon DEF DupFacts
  <2>2. \A i \in Fds \ {0, 1, m, n} : h[i] = None
    BY <1>3, <1>4, Zenon DEF NoneBut
  <2>3. \A i \in Fds \ {0, 1, n} : g[i] = None
    BY <2>1, <2>2
  <2>4. DOMAIN g = Fds
    BY <1>5, Zenon DEF DupFacts
  <2>5. QED
    BY <1>1, <1>4, <2>3, <2>4, Zenon DEF NoneBut
<1>7. ASSUME ~b
      PROVE  ~r.failed /\ d.p[2] = 3 /\ g[1] = h[1] /\ PipeEnd(g[0], "read", r.job, r.stage - 1, ps)
  <2>1. Ends(r, r.stage - 1, ps) /\ ~r.failed /\ f[0] # None
    BY <1>3, <1>7, Zenon
  <2>2. r.p = <<2, 3>> /\ PipeEnd(h[2], "read", r.job, r.stage - 1, ps)
    BY <1>4, <2>1, Zenon DEF Ends
  <2>3. m = 2 /\ n = 3 /\ 1 # m /\ 1 # 0
    BY <1>4, <2>2
  <2>4. h[m] # None
    <3>1. "read" # "none"
      OBVIOUS
    <3>2. QED
      BY <2>2, <2>3, <3>1, PipeIsSomething, Zenon
  <2>5. g[0] = h[m] /\ g[1] = h[1]
    BY <1>5, <2>1, <2>3, <2>4, Sizes, Zenon DEF DupFacts
  <2>6. QED
    BY <1>1, <1>4, <2>1, <2>2, <2>3, <2>5, Zenon
<1>8. Begins(d, l, x)
  BY <1>1, <1>2, <1>4, <1>7, Zenon DEF Begins, OutputOK
<1>9. d.failed \/ (d.p[2] = 3 /\ PipeEnd(d.fd[0], "read", d.job, d.stage - 1, ps))
  BY <1>1, <1>7, Zenon
<1>10. QED
  BY <1>1, <1>6, <1>8, <1>9 DEF StepOK, CmdOK, Shaped

\* The last close() of a side.
LEMMA LastClose ==
  ASSUME NEW fd, DOMAIN fd = Fds, NEW n, NoneBut(fd, {0, 1, n}), NEW g, g = close(fd, n)
  PROVE  DOMAIN g = Fds /\ NoneBut(g, {0, 1}) /\ (n \notin {0, 1} => g[0] = fd[0] /\ g[1] = fd[1])
<1>1. CASE n \in Fds
  <2>1. g = [fd EXCEPT ![n] = None]
    BY <1>1, Zenon DEF close
  <2>2. QED
    BY <1>1, <2>1, Sizes DEF NoneBut
<1>2. CASE n \notin Fds
  <2>1. g = fd
    BY <1>2, Zenon DEF close
  <2>2. QED
    BY <1>2, <2>1 DEF NoneBut
<1>3. QED
  BY <1>1, <1>2

LEMMA RightCloseOK ==
  ASSUME NEW T, NEW l \in Seq(T), NEW ps, NEW r, Shaped(r), CmdOK(r, l, ps), r.pc = "right_close",
         NEW d, d = [r EXCEPT !.pc = "parse", !.fd = close(@, r.p[2])]
  PROVE  StepOK(d, r, l, ps)
<1>1. PICK a : Begins(r, l, a)
  BY DEF CmdOK
<1>2. PICK g, n, f : g = r.fd /\ DOMAIN g = Fds /\ n = r.p[2] /\ f = close(g, n)
  BY DEF Shaped
<1>3. NoneBut(g, {0, 1, n}) /\ (r.failed \/ (n = 3 /\ PipeEnd(g[0], "read", r.job, r.stage - 1, ps)))
  BY <1>2 DEF CmdOK
<1>4. d = [r EXCEPT !.pc = "parse", !.fd = f]
  BY <1>2, Zenon
<1>5. /\ DOMAIN d = Fields /\ d.st = r.st /\ d.job = r.job /\ d.pc = "parse" /\ d.fd = f /\ d.stage = r.stage
      /\ d.toks = r.toks /\ d.argv = r.argv /\ d.failed = r.failed
  BY <1>4 DEF Shaped, Fields
<1>6. DOMAIN f = Fds /\ NoneBut(f, {0, 1}) /\ (n \notin {0, 1} => f[0] = g[0] /\ f[1] = g[1])
  BY <1>2, <1>3, LastClose
<1>7. r.failed \/ (f[0] = g[0] /\ f[1] = g[1])
  <2>1. n = 3 => n \notin {0, 1}
    OBVIOUS
  <2>2. QED
    BY <1>3, <1>6, <2>1, Zenon
<1>8. /\ a \in Nat /\ a > 0 /\ a <= Len(l) /\ a <= a /\ NoBar(l, a, a) /\ l[a] = "|" /\ l[a] \notin {"<", ">"}
      /\ Starts(l, a, r.stage) /\ r.stage > 1 /\ r.argv = <<>> /\ r.toks = SubSeq(l, a + 1, Len(l))
      /\ OutputOK(r, SubSeq(l, 1, a))
  BY <1>1 DEF Begins, Starts, NoBar
<1>9. SubSeq(l, a + 1, a) = <<>>
  BY <1>8, PartOf
<1>10. InputOK(d, SubSeq(l, a + 1, a), ps) /\ OutputOK(d, SubSeq(l, 1, a))
  <2>1. Redirected(<<>>, "<") = {}
    BY NoFile, Zenon
  <2>2. QED
    BY <1>2, <1>3, <1>5, <1>7, <1>8, <1>9, <2>1, Zenon DEF Input, InputOK, OutputOK
<1>11. ReadTo(d, l, ps, a, a)
  BY <1>5, <1>8, <1>9, <1>10, NoWords, Zenon DEF ReadTo
<1>12. Parsing(d, l, ps, a, a)
  BY <1>5, <1>6, <1>8, <1>10, <1>11, Zenon DEF Parsing
<1>13. QED
  BY <1>5, <1>6, <1>12 DEF StepOK, CmdOK, Shaped

(***************************************************************************)
(* The left side: its output is the pipe.                                  *)
(***************************************************************************)
LEMMA LeftOK ==
  ASSUME NEW l, NEW ps, NEW r, Shaped(r), CmdOK(r, l, ps), r.pc = "left",
         NEW f \in dup(r.fd, r.p[2], 1), NEW g, g = close(f, r.p[2]), NEW b, b <=> r.failed \/ f[1] = None,
         NEW d, d = [r EXCEPT !.pc = "left_close", !.fd = g, !.failed = b]
  PROVE  StepOK(d, r, l, ps)
<1>1. /\ DOMAIN d = Fields /\ d.st = r.st /\ d.job = r.job /\ d.pc = "left_close" /\ d.fd = g /\ d.stage = r.stage
      /\ d.toks = r.toks /\ d.argv = r.argv /\ d.p = r.p /\ d.failed = b
  BY DEF Shaped, Fields
<1>2. PICK x, q : AtBar(r, l, ps, x, q)
  BY DEF CmdOK
<1>3. NoneBut(r.fd, {0, 1, r.p[1], r.p[2]}) /\ (r.failed \/ Ends(r, r.stage, ps))
  BY DEF CmdOK, HasPipe
<1>4. PICK h, m, n : h = r.fd /\ DOMAIN h = Fds /\ m = r.p[1] /\ n = r.p[2]
  BY DEF Shaped
<1>5. DupFacts(h, f, g, n, 1)
  BY <1>4, DupClose, Sizes
<1>6. DOMAIN g = Fds /\ NoneBut(g, {0, 1, d.p[1]})
  <2>1. \A i \in Fds : (i = n => g[i] = None) /\ (i # n /\ i # 1 => g[i] = h[i])
    BY <1>5, Zenon DEF DupFacts
  <2>2. \A i \in Fds \ {0, 1, m, n} : h[i] = None
    BY <1>3, <1>4, Zenon DEF NoneBut
  <2>3. \A i \in Fds \ {0, 1, m} : g[i] = None
    BY <2>1, <2>2
  <2>4. DOMAIN g = Fds
    BY <1>5, Zenon DEF DupFacts
  <2>5. QED
    BY <1>1, <1>4, <2>3, <2>4, Zenon DEF NoneBut
<1>7. ASSUME ~b
      PROVE  ~r.failed /\ d.p[1] = 2 /\ g[0] = h[0] /\ PipeEnd(g[1], "write", r.job, r.stage, ps)
  <2>1. Ends(r, r.stage, ps) /\ ~r.failed /\ f[1] # None
    BY <1>3, <1>7, Zenon
  <2>2. r.p = <<2, 3>> /\ PipeEnd(h[3], "write", r.job, r.stage, ps)
    BY <1>4, <2>1, Zenon DEF Ends
  <2>3. m = 2 /\ n = 3 /\ 0 # n /\ 0 # 1
    BY <1>4, <2>2
  <2>4. h[n] # None
    <3>1. "write" # "none"
      OBVIOUS
    <3>2. QED
      BY <2>2, <2>3, <3>1, PipeIsSomething, Zenon
  <2>5. g[1] = h[n] /\ g[0] = h[0]
    BY <1>5, <2>1, <2>3, <2>4, Sizes, Zenon DEF DupFacts
  <2>6. QED
    BY <1>1, <1>4, <2>1, <2>2, <2>3, <2>5, Zenon
<1>8. AtBar(d, l, ps, x, q)
  BY <1>1, <1>2, <1>4, <1>7, Zenon DEF AtBar, ReadTo, InputOK
<1>9. d.failed \/ (d.p[1] = 2 /\ PipeEnd(d.fd[1], "write", d.job, d.stage, ps))
  BY <1>1, <1>7, Zenon
<1>10. QED
  BY <1>1, <1>6, <1>8, <1>9 DEF StepOK, CmdOK, Shaped

LEMMA LeftCloseOK ==
  ASSUME NEW T, NEW l \in Seq(T), NEW ps, NEW r, Shaped(r), CmdOK(r, l, ps), r.pc = "left_close",
         NEW d, d = [r EXCEPT !.pc = "run", !.fd = close(@, r.p[1])]
  PROVE  StepOK(d, r, l, ps)
<1>1. PICK a, q : AtBar(r, l, ps, a, q)
  BY DEF CmdOK
<1>2. PICK g, n, f : g = r.fd /\ DOMAIN g = Fds /\ n = r.p[1] /\ f = close(g, n)
  BY DEF Shaped
<1>3. NoneBut(g, {0, 1, n}) /\ (r.failed \/ (n = 2 /\ PipeEnd(g[1], "write", r.job, r.stage, ps)))
  BY <1>2 DEF CmdOK
<1>4. d = [r EXCEPT !.pc = "run", !.fd = f]
  BY <1>2, Zenon
<1>5. /\ DOMAIN d = Fields /\ d.st = r.st /\ d.job = r.job /\ d.pc = "run" /\ d.fd = f /\ d.stage = r.stage
      /\ d.toks = r.toks /\ d.argv = r.argv /\ d.failed = r.failed
  BY <1>4 DEF Shaped, Fields
<1>6. DOMAIN f = Fds /\ NoneBut(f, {0, 1}) /\ (n \notin {0, 1} => f[0] = g[0] /\ f[1] = g[1])
  BY <1>2, <1>3, LastClose
<1>7. r.failed \/ (f[0] = g[0] /\ f[1] = g[1])
  <2>1. n = 2 => n \notin {0, 1}
    OBVIOUS
  <2>2. QED
    BY <1>3, <1>6, <2>1, Zenon
<1>8. /\ a \in Nat /\ q \in Nat /\ a <= q /\ q < Len(l) /\ q <= Len(l) /\ l[q + 1] = "|"
      /\ Starts(l, a, r.stage) /\ NoBar(l, a, q)
  BY <1>1, Zenon DEF AtBar, ReadTo
<1>9. r.stage < LastStage(l) /\ StageOf(l, r.stage) = SubSeq(l, a + 1, q)
  BY <1>8, StageIs
<1>10. InputOK(d, StageOf(l, d.stage), ps) /\ (d.failed \/ Out(d, l, ps))
  BY <1>1, <1>2, <1>3, <1>5, <1>7, <1>9, Zenon DEF AtBar, ReadTo, InputOK, Out
<1>11. Complete(d, l, ps)
  BY <1>1, <1>5, <1>6, <1>9, <1>10, Zenon DEF Complete, AtBar, ReadTo
<1>12. QED
  BY <1>5, <1>6, <1>11 DEF StepOK, CmdOK, Shaped

-----------------------------------------------------------------------------
(* Environments: new ones, and steps that do not concern the line.         *)

(***************************************************************************)
(* Generation, what is waited for and what is still to be written do not   *)
(* matter.                                                                 *)
(***************************************************************************)
Alike(d, r) ==
  /\ Shaped(d) /\ d.st = r.st /\ d.pc = r.pc /\ d.fd = r.fd /\ d.toks = r.toks /\ d.argv = r.argv
  /\ d.p = r.p /\ d.job = r.job /\ d.stage = r.stage /\ d.failed = r.failed

LEMMA AlikeComplete ==
  ASSUME NEW r, NEW d, NEW l, NEW ps, Complete(r, l, ps),
         d.fd = r.fd, d.argv = r.argv, d.job = r.job, d.stage = r.stage, d.failed = r.failed
  PROVE  Complete(d, l, ps)
BY Zenon DEF Complete, InputOK, Out

LEMMA AlikeOK ==
  ASSUME NEW r, NEW d, NEW sc, NEW ps, EnvOK(r, sc, ps), Alike(d, r)
  PROVE  EnvOK(d, sc, ps)
<1>1. /\ Shaped(d) /\ d.st = r.st /\ d.pc = r.pc /\ d.fd = r.fd /\ d.toks = r.toks /\ d.argv = r.argv
      /\ d.p = r.p /\ d.job = r.job /\ d.stage = r.stage /\ d.failed = r.failed
  BY DEF Alike
<1>2. \A l : Complete(r, l, ps) => Complete(d, l, ps)
  BY <1>1, AlikeComplete, Zenon
<1>3. \A l, a, q : ReadTo(r, l, ps, a, q) => ReadTo(d, l, ps, a, q)
  BY <1>1, Zenon DEF ReadTo, InputOK
<1>4. \A l, a, q : Parsing(r, l, ps, a, q) => Parsing(d, l, ps, a, q)
  BY <1>1, <1>3, Zenon DEF Parsing, OutputOK
<1>5. \A l, a, q : AtBar(r, l, ps, a, q) => AtBar(d, l, ps, a, q)
  BY <1>1, <1>3, Zenon DEF AtBar
<1>6. \A made : HasPipe(r, made, ps) => HasPipe(d, made, ps)
  BY <1>1, Zenon DEF HasPipe, Ends
<1>7. \A l, a : Begins(r, l, a) => Begins(d, l, a)
  BY <1>1, Zenon DEF Begins, OutputOK
<1>8. ASSUME NEW l, CmdOK(r, l, ps) PROVE CmdOK(d, l, ps)
  <2>1. d.pc \in {"parse", "<", ">"} => \E a, q : Parsing(d, l, ps, a, q)
    BY <1>1, <1>4, <1>8, Zenon DEF CmdOK
  <2>2. d.pc = "pipe" => \E a, q : /\ AtBar(d, l, ps, a, q) /\ NoneBut(d.fd, {0, 1})
                                   /\ OutputOK(d, SubSeq(l, 1, q))
    BY <1>1, <1>5, <1>8, Zenon DEF CmdOK, OutputOK
  <2>3. d.pc \in {"pfork", "left"} => \E a, q : /\ AtBar(d, l, ps, a, q) /\ HasPipe(d, d.stage, ps)
                                                /\ OutputOK(d, SubSeq(l, 1, q))
    BY <1>1, <1>5, <1>6, <1>8, Zenon DEF CmdOK, OutputOK
  <2>4. d.pc = "left_close" => /\ \E a, q : AtBar(d, l, ps, a, q)
                               /\ NoneBut(d.fd, {0, 1, d.p[1]})
                               /\ d.failed \/ (d.p[1] = 2 /\ PipeEnd(d.fd[1], "write", d.job, d.stage, ps))
    BY <1>1, <1>5, <1>8, Zenon DEF CmdOK
  <2>5. d.pc = "right" => (\E a : Begins(d, l, a)) /\ HasPipe(d, d.stage - 1, ps)
    BY <1>1, <1>6, <1>7, <1>8, Zenon DEF CmdOK
  <2>6. d.pc = "right_close" => /\ \E a : Begins(d, l, a)
                                /\ NoneBut(d.fd, {0, 1, d.p[2]})
                                /\ d.failed \/ (d.p[2] = 3 /\ PipeEnd(d.fd[0], "read", d.job, d.stage - 1, ps))
    BY <1>1, <1>7, <1>8, Zenon DEF CmdOK
  <2>7. d.pc = "run" => d.argv = <<>> \/ Complete(d, l, ps)
    BY <1>1, <1>2, <1>8, Zenon DEF CmdOK
  <2>8. QED
    BY <2>1, <2>2, <2>3, <2>4, <2>5, <2>6, <2>7, Zenon DEF CmdOK
<1>9. EnvOK(r, sc, ps) => (d.st = "shell" => MainOK(d, sc))
  BY <1>1, Zenon DEF EnvOK, MainOK
<1>10. QED
  BY <1>1, <1>2, <1>8, <1>9, Zenon DEF EnvOK

LEMMA FreeOK ==
  ASSUME NEW g, NEW d, d = Free(g)
  PROVE  Shaped(d) /\ d.st = "free" /\ \A sc, ps : EnvOK(d, sc, ps)
<1>1. PICK N, E, P, W, S : N = NoFds /\ E = <<>> /\ P = <<0, 0>> /\ W = <<1, -1>> /\ S = ""
  OBVIOUS
<1>2. d = [st |-> "free", gen |-> g, pc |-> S, fd |-> N, toks |-> E, argv |-> E,
           p |-> P, wait |-> W, out |-> 0, job |-> 0, stage |-> 1, failed |-> FALSE]
  BY <1>1, Zenon DEF Free
<1>3. DOMAIN d = Fields /\ d.st = "free" /\ d.fd = N
  BY <1>2 DEF Fields
<1>4. DOMAIN N = Fds
  BY <1>1 DEF NoFds
<1>5. Shaped(d)
  BY <1>3, <1>4 DEF Shaped
<1>6. QED
  BY <1>3, <1>5 DEF EnvOK

(***************************************************************************)
(* The child of main(): a shell at the start of a line.                    *)
(***************************************************************************)
LEMMA LineOK ==
  ASSUME NEW T, NEW sc \in Seq(Seq(T)), NEW ps, NEW r, EnvOK(r, sc, ps), r.st = "shell", r.pc = "fork",
         NEW d, d = [r EXCEPT !.st = "cmd", !.pc = "parse"]
  PROVE  EnvOK(d, sc, ps)
<1>1. /\ Shaped(d) /\ d.st = "cmd" /\ d.job = r.job /\ d.pc = "parse" /\ d.fd = r.fd /\ d.stage = r.stage
      /\ d.toks = r.toks /\ d.argv = r.argv /\ d.failed = r.failed
  BY DEF EnvOK, Shaped, Fields
<1>2. MainOK(r, sc)
  BY DEF EnvOK
<1>3. /\ r.job \in 1 .. Len(sc) /\ r.argv = <<>> /\ r.stage = 1 /\ r.toks = sc[r.job]
      /\ NoneBut(r.fd, {0, 1}) /\ r.fd[0] = Console /\ r.fd[1] = Console
  BY <1>2 DEF MainOK
<1>4. PICK l \in Seq(T) : l = sc[r.job]
  BY <1>3
<1>5. 0 \in Nat /\ 0 <= 0 /\ 0 <= Len(l) /\ Starts(l, 0, 1) /\ NoBar(l, 0, 0) /\ 0 + 1 = 1 /\ ~(0 > 0) /\ ~(1 > 1)
  BY FirstStage DEF NoBar
<1>6. SubSeq(l, 1, 0) = <<>> /\ SubSeq(l, 1, Len(l)) = l
  BY <1>5, PartOf, RestOf
<1>7. Input(Console, <<>>, r.job, 1, ps) /\ Output(Console, <<>>)
  <2>1. Redirected(<<>>, "<") = {} /\ Redirected(<<>>, ">") = {}
    BY NoFile, Zenon
  <2>2. QED
    BY <1>5, <2>1, Zenon DEF Input, Output
<1>8. ReadTo(d, l, ps, 0, 0)
  BY <1>1, <1>3, <1>5, <1>6, <1>7, NoWords, Zenon DEF ReadTo, InputOK
<1>9. Parsing(d, l, ps, 0, 0)
  BY <1>1, <1>3, <1>4, <1>5, <1>6, <1>7, <1>8, Zenon DEF Parsing, OutputOK
<1>10. CmdOK(d, l, ps)
  BY <1>1, <1>9 DEF CmdOK
<1>11. QED
  BY <1>1, <1>3, <1>4, <1>10 DEF EnvOK

(***************************************************************************)
(* The program that runcmd() starts.                                       *)
(***************************************************************************)
LEMMA ProgOK ==
  ASSUME NEW sc, NEW ps, NEW r, EnvOK(r, sc, ps), r.st = "cmd", r.pc = "run", r.argv # <<>>,
         NEW v, NEW d, d = [r EXCEPT !.st = "prog", !.pc = "run", !.toks = <<>>, !.p = <<0, 0>>, !.out = v]
  PROVE  EnvOK(d, sc, ps)
<1>1. PICK E, P : E = <<>> /\ P = <<0, 0>>
  OBVIOUS
<1>2. d = [r EXCEPT !.st = "prog", !.pc = "run", !.toks = E, !.p = P, !.out = v]
  BY <1>1, Zenon
<1>3. /\ Shaped(d) /\ d.st = "prog" /\ d.job = r.job /\ d.fd = r.fd /\ d.stage = r.stage /\ d.argv = r.argv
      /\ d.failed = r.failed
  BY <1>2 DEF EnvOK, Shaped, Fields
<1>4. Complete(r, sc[r.job], ps) /\ r.job \in 1 .. Len(sc)
  BY DEF EnvOK, CmdOK
<1>5. Complete(d, sc[r.job], ps)
  BY <1>3, <1>4, AlikeComplete, Zenon
<1>6. QED
  BY <1>3, <1>4, <1>5 DEF EnvOK

LEMMA WaitOK ==
  ASSUME NEW sc, NEW ps, NEW r, EnvOK(r, sc, ps), r.st = "cmd", NEW d, Shaped(d), d.st = "cmd", d.job = r.job,
         d.pc \in {"wait", "close_all"} \/ (d.pc = "run" /\ d.argv = <<>>)
  PROVE  EnvOK(d, sc, ps)
<1>1. \A l : CmdOK(d, l, ps)
  BY DEF CmdOK
<1>2. r.job \in 1 .. Len(sc)
  BY DEF EnvOK
<1>3. QED
  BY <1>1, <1>2 DEF EnvOK

-----------------------------------------------------------------------------
(* The invariant.                                                          *)

LEMMA BecomeInv ==
  ASSUME ShellInv, NEW e \in Envs, NEW d, EnvOK(d, script, pipes), Become(e, d)
  PROVE  ShellInv'
<1>1. env' = [env EXCEPT ![e] = d] /\ script' = script /\ pipes' = pipes
  BY DEF Become
<1>2. DOMAIN env = Envs /\ \A x \in Envs : EnvOK(env[x], script, pipes)
  BY DEF ShellInv
<1>3. DOMAIN env' = Envs /\ \A x \in Envs : env'[x] = d \/ env'[x] = env[x]
  BY <1>1, <1>2
<1>4. \A x \in Envs : EnvOK(env'[x], script, pipes)
  BY <1>2, <1>3, Zenon
<1>5. script' \in Scripts /\ Labels(pipes')
  BY <1>1, Zenon DEF ShellInv
<1>6. \A x \in Envs : EnvOK(env'[x], script', pipes')
  BY <1>1, <1>4, Zenon
<1>7. QED
  BY <1>3, <1>5, <1>6, Zenon DEF ShellInv, Envs

LEMMA ExitInv ==
  ASSUME ShellInv, NEW e \in Envs, exit(e)
  PROVE  ShellInv'
<1>1. PICK d : d = Free(env[e].gen)
  OBVIOUS
<1>2. EnvOK(d, script, pipes)
  BY <1>1, FreeOK
<1>3. Become(e, d)
  BY <1>1, Zenon DEF exit
<1>4. QED
  BY <1>2, <1>3, BecomeInv

LEMMA ForkInv ==
  ASSUME ShellInv, NEW e \in Envs, NEW parent, NEW child,
         EnvOK(parent, script, pipes), EnvOK(child, script, pipes), fork(e, parent, child)
  PROVE  ShellInv'
<1>1. CASE FreeEnvs = {} /\ exit(e)
  BY <1>1, ExitInv
<1>2. CASE FreeEnvs # {}
  <2>1. PICK n, g : n = NewEnv /\ g = env[NewEnv].gen + 1
    OBVIOUS
  <2>2. PICK w : w = IF parent.pc = "wait" THEN <<n, g>> ELSE parent.wait
    OBVIOUS
  <2>3. PICK c : c = [child EXCEPT !.gen = g]
    OBVIOUS
  <2>4. PICK p : p = [parent EXCEPT !.wait = w]
    OBVIOUS
  <2>5. /\ env' = [env EXCEPT ![n] = c, ![e] = p]
        /\ script' = script /\ pipes' = pipes
    BY <1>2, <2>1, <2>2, <2>3, <2>4, Zenon DEF fork, exit, Become
  <2>6. EnvOK(c, script, pipes) /\ EnvOK(p, script, pipes)
    <3>1. Shaped(child) /\ Shaped(parent)
      BY DEF EnvOK
    <3>2. Alike(c, child) /\ Alike(p, parent)
      BY <2>3, <2>4, <3>1 DEF Alike, Shaped, Fields
    <3>3. QED
      BY <3>2, AlikeOK
  <2>7. DOMAIN env = Envs /\ \A x \in Envs : EnvOK(env[x], script, pipes)
    BY DEF ShellInv
  <2>8. DOMAIN env' = Envs /\ \A x \in Envs : env'[x] = c \/ env'[x] = p \/ env'[x] = env[x]
    <3>1. PICK v : v = [env EXCEPT ![n] = c]
      OBVIOUS
    <3>2. DOMAIN v = Envs /\ \A x \in Envs : v[x] = c \/ v[x] = env[x]
      BY <2>7, <3>1
    <3>3. env' = [v EXCEPT ![e] = p]
      BY <2>5, <3>1, Zenon
    <3>4. DOMAIN env' = Envs /\ \A x \in Envs : env'[x] = p \/ env'[x] = v[x]
      BY <3>2, <3>3
    <3>5. QED
      BY <3>2, <3>4, Zenon
  <2>9. \A x \in Envs : EnvOK(env'[x], script, pipes)
    BY <2>6, <2>7, <2>8, Zenon
  <2>10. script' \in Scripts /\ Labels(pipes') /\ \A x \in Envs : EnvOK(env'[x], script', pipes')
    BY <2>5, <2>9, Zenon DEF ShellInv
  <2>11. QED
    BY <2>8, <2>10, Zenon DEF ShellInv, Envs
<1>3. QED
  BY <1>1, <1>2 DEF fork

(***************************************************************************)
(* A command that takes a step on its line.                                *)
(***************************************************************************)
LEMMA CmdInv ==
  ASSUME ShellInv, NEW e \in Envs, env[e].st = "cmd", NEW d, Become(e, d),
         StepOK(d, env[e], script[env[e].job], pipes)
  PROVE  ShellInv'
<1>1. EnvOK(env[e], script, pipes)
  BY DEF ShellInv
<1>2. env[e].job \in 1 .. Len(script)
  BY <1>1 DEF EnvOK
<1>3. EnvOK(d, script, pipes)
  BY <1>2 DEF EnvOK, StepOK
<1>4. QED
  BY <1>3, BecomeInv

LEMMA LineIs ==
  ASSUME ShellInv, NEW e \in Envs, env[e].st = "cmd"
  PROVE  /\ Shaped(env[e]) /\ env[e].job \in 1 .. Len(script) /\ script \in Seq(Seq(STRING))
         /\ script[env[e].job] \in Seq(STRING) /\ CmdOK(env[e], script[env[e].job], pipes)
<1>1. EnvOK(env[e], script, pipes) /\ script \in Seq(Seq(STRING))
  BY Sizes DEF ShellInv
<1>2. QED
  BY <1>1 DEF EnvOK

LEMMA TokenInv == ASSUME ShellInv, NEW e \in Envs, token(e) PROVE ShellInv'
<1>1. PICK r, l : r = env[e] /\ l = script[env[e].job]
  OBVIOUS
<1>2. r.st = "cmd" /\ r.pc = "parse"
  BY <1>1 DEF token, At
<1>3. Shaped(r) /\ l \in Seq(STRING) /\ CmdOK(r, l, pipes)
  BY <1>1, <1>2, LineIs
<1>4. CASE r.toks = <<>> /\ Become(e, [r EXCEPT !.pc = "run"])
  <2>1. PICK d : d = [r EXCEPT !.pc = "run"]
    OBVIOUS
  <2>2. StepOK(d, r, l, pipes)
    BY <1>2, <1>3, <1>4, <2>1, EndOK
  <2>3. QED
    BY <1>1, <1>2, <1>4, <2>1, <2>2, CmdInv
<1>5. CASE IsWord(r.toks) /\ Len(r.argv) < MAXARGS /\ Become(e, [r EXCEPT !.toks = Tail(@), !.argv = Append(@, Head(r.toks))])
  <2>1. PICK d : d = [r EXCEPT !.toks = Tail(@), !.argv = Append(@, Head(r.toks))]
    OBVIOUS
  <2>2. StepOK(d, r, l, pipes)
    BY <1>2, <1>3, <1>5, <2>1, WordOK, Zenon
  <2>3. QED
    BY <1>1, <1>2, <1>5, <2>1, <2>2, CmdInv
<1>6. CASE /\ r.toks # <<>> /\ Head(r.toks) \in Symbols
           /\ Become(e, [r EXCEPT !.toks = Tail(@),
                           !.pc = IF Head(r.toks) = "|" THEN "pipe"
                                  ELSE IF Head(r.toks) \in {"<", ">"} THEN Head(r.toks) ELSE "parse"])
  <2>1. PICK d : d = [r EXCEPT !.toks = Tail(@),
                        !.pc = IF Head(r.toks) = "|" THEN "pipe"
                               ELSE IF Head(r.toks) \in {"<", ">"} THEN Head(r.toks) ELSE "parse"]
    OBVIOUS
  <2>2. StepOK(d, r, l, pipes)
    BY <1>2, <1>3, <1>6, <2>1, SymbolOK, Zenon
  <2>3. QED
    BY <1>1, <1>2, <1>6, <2>1, <2>2, CmdInv
<1>7. CASE exit(e)
  BY <1>7, ExitInv
<1>8. QED
  BY <1>1, <1>4, <1>5, <1>6, <1>7, Zenon DEF token

\* The three ways of a redirection.
LEMMA OpenFailedOK ==
  ASSUME NEW r, Shaped(r), NoneBut(r.fd, {0, 1}), NEW x, NEW to, NEW b, b <=> r.failed \/ x \in Files,
         NEW d, d = [r EXCEPT !.pc = "parse", !.toks = Tail(@), !.fd = r.fd, !.failed = b]
  PROVE  Redirects(r, d, to, x)
<1>1. DOMAIN r.fd = Fds /\ d.fd = r.fd /\ d.failed = b
  BY DEF Shaped, Fields
<1>2. d.failed \/ (~r.failed /\ x \notin Files)
  BY <1>1
<1>3. ASSUME x \notin Files
      PROVE  \A i \in {0, 1} : d.fd[i] = IF i = to /\ x \in Files THEN <<"file", x>> ELSE r.fd[i]
  BY <1>1, <1>3
<1>4. QED
  BY <1>1, <1>2, <1>3, Zenon DEF Redirects

LEMMA DuppedOK ==
  ASSUME NEW r, Shaped(r), NoneBut(r.fd, {0, 1}), NEW x \in Files, NEW to \in {0, 1},
         ~r.failed => r.fd[0] # None /\ r.fd[1] # None,
         NEW m, m = Min(FreeFds(r.fd)), NEW h, h = [r.fd EXCEPT ![m] = <<"file", x>>],
         NEW f \in dup(h, m, to), NEW g, g = close(f, m), NEW b, b <=> r.failed \/ f[to] = None,
         NEW d, d = [r EXCEPT !.pc = "parse", !.toks = Tail(@), !.fd = g, !.failed = b]
  PROVE  Redirects(r, d, to, x)
<1>1. d.fd = g /\ d.failed = b
  BY DEF Shaped, Fields
<1>2. PICK z, v : z = r.fd /\ DOMAIN z = Fds /\ v = <<"file", x>>
  BY DEF Shaped
<1>3. DOMAIN h = Fds /\ (m \in Fds => h[m] = v) /\ \A i \in Fds : i # m => h[i] = z[i]
  BY <1>2
<1>4. DupFacts(h, f, g, m, to)
  BY <1>3, DupClose, Sizes
<1>5. DOMAIN g = Fds /\ NoneBut(g, {0, 1})
  <2>1. \A i \in Fds \ {0, 1} : i \in Fds /\ i # to
    OBVIOUS
  <2>2. \A i \in Fds \ {0, 1} : g[i] = None
    BY <1>2, <1>3, <1>4, <2>1, Zenon DEF DupFacts, NoneBut
  <2>3. QED
    BY <1>4, <2>2, Zenon DEF DupFacts, NoneBut
<1>6. ASSUME ~b PROVE ~r.failed /\ \A i \in {0, 1} : g[i] = IF i = to THEN v ELSE z[i]
  <2>1. ~r.failed /\ f[to] # None
    BY <1>6, Zenon
  <2>2. m = 2
    BY <2>1, Lowest, Zenon
  <2>3. h[m] = v /\ v # None
    BY <1>2, <1>3, <2>2, Sizes DEF None
  <2>4. g[to] = v
    BY <1>4, <2>1, <2>3, Zenon DEF DupFacts
  <2>5. \A i \in {0, 1} : i \in Fds /\ i # m
    BY <2>2, Sizes
  <2>6. \A i \in {0, 1} : i # to => g[i] = z[i]
    BY <1>3, <1>4, <2>5, Zenon DEF DupFacts
  <2>7. QED
    BY <2>1, <2>4, <2>6, Zenon
<1>7. QED
  BY <1>1, <1>2, <1>5, <1>6, Zenon DEF Redirects

LEMMA RedirectInv == ASSUME ShellInv, NEW e \in Envs, redirect(e) PROVE ShellInv'
<1>1. PICK r, l : r = env[e] /\ l = script[env[e].job]
  OBVIOUS
<1>2. PICK m : m = Min(FreeFds(r.fd))
  OBVIOUS
<1>3. PICK x : x = Head(r.toks)
  OBVIOUS
<1>4. PICK h : h = [r.fd EXCEPT ![m] = <<"file", x>>]
  OBVIOUS
<1>5. PICK to \in {0, 1} :
        /\ At(e, "cmd", IF to = 0 THEN "<" ELSE ">")
        /\ \/ ~IsWord(r.toks) /\ exit(e)
           \/ /\ IsWord(r.toks)
              /\ Become(e, [r EXCEPT !.pc = "parse", !.toks = Tail(@), !.failed = @ \/ x \in Files])
           \/ /\ IsWord(r.toks) /\ x \in Files
              /\ \E f \in dup(h, m, to) : Dupped(e, "parse", Tail(r.toks), f, to, m)
  BY <1>1, <1>2, <1>3, <1>4, Zenon DEF redirect
<1>6. r.st = "cmd" /\ r.pc = IF to = 0 THEN "<" ELSE ">"
  BY <1>1, <1>5, Zenon DEF At
<1>7. Shaped(r) /\ l \in Seq(STRING) /\ CmdOK(r, l, pipes)
  BY <1>1, <1>6, LineIs
<1>8. PICK a, q : Parsing(r, l, pipes, a, q)
  <2>1. r.pc \in {"parse", "<", ">"}
    BY <1>6
  <2>2. QED
    BY <1>7, <2>1, Zenon DEF CmdOK
<1>9. NoneBut(r.fd, {0, 1}) /\ (~r.failed => r.fd[0] # None /\ r.fd[1] # None)
  BY <1>8, SomethingThere, Zenon DEF Parsing, ReadTo, InputOK, OutputOK
<1>10. \A d : Become(e, d) /\ StepOK(d, r, l, pipes) => ShellInv'
  BY <1>1, <1>6, CmdInv
<1>11. CASE ~IsWord(r.toks) /\ exit(e)
  BY <1>11, ExitInv
<1>12. CASE /\ IsWord(r.toks)
            /\ Become(e, [r EXCEPT !.pc = "parse", !.toks = Tail(@), !.failed = @ \/ x \in Files])
  <2>1. PICK b : b = (r.failed \/ x \in Files)
    OBVIOUS
  <2>2. PICK d : d = [r EXCEPT !.pc = "parse", !.toks = Tail(@), !.fd = r.fd, !.failed = b]
    OBVIOUS
  <2>3. d = [r EXCEPT !.pc = "parse", !.toks = Tail(@), !.failed = b]
    BY <1>7, <2>2 DEF Shaped, Fields
  <2>4. Become(e, d)
    BY <1>12, <2>1, <2>3, Zenon
  <2>5. Redirects(r, d, to, x)
    <3>1. b <=> r.failed \/ x \in Files
      BY <2>1
    <3>2. QED
      BY <1>7, <1>9, <2>2, <3>1, OpenFailedOK
  <2>6. PICK f : f = r.fd
    OBVIOUS
  <2>7. d = [r EXCEPT !.pc = "parse", !.toks = Tail(@), !.fd = f, !.failed = b]
    BY <2>2, <2>6, Zenon
  <2>8. StepOK(d, r, l, pipes)
    BY <1>3, <1>6, <1>7, <1>12, <2>5, <2>7, RedirectOK, Zenon
  <2>9. QED
    BY <1>10, <2>4, <2>8
<1>13. CASE /\ IsWord(r.toks) /\ x \in Files
            /\ \E f \in dup(h, m, to) : Dupped(e, "parse", Tail(r.toks), f, to, m)
  <2>1. PICK f \in dup(h, m, to) : Dupped(e, "parse", Tail(r.toks), f, to, m)
    BY <1>13
  <2>2. PICK b, g : b = (r.failed \/ f[to] = None) /\ g = close(f, m)
    OBVIOUS
  <2>3. PICK d : d = [r EXCEPT !.pc = "parse", !.toks = Tail(@), !.fd = g, !.failed = b]
    OBVIOUS
  <2>4. Become(e, d)
    BY <1>1, <2>1, <2>2, <2>3, Zenon DEF Dupped
  <2>5. Redirects(r, d, to, x)
    <3>1. b <=> r.failed \/ f[to] = None
      BY <2>2
    <3>2. QED
      BY <1>2, <1>4, <1>7, <1>9, <1>13, <2>2, <2>3, <3>1, DuppedOK
  <2>6. StepOK(d, r, l, pipes)
    BY <1>3, <1>6, <1>7, <1>13, <2>3, <2>5, RedirectOK, Zenon
  <2>7. QED
    BY <1>10, <2>4, <2>6
<1>14. QED
  BY <1>5, <1>11, <1>12, <1>13, Zenon

Labelled(ps, ps2, k, j, s) ==
  Labels(ps2) /\ Grown(ps, ps2) /\ k \in DOMAIN ps2 /\ ps2[k].job = j /\ ps2[k].stage = s

LEMMA LabelAdded ==
  ASSUME NEW ps, Labels(ps), NEW j \in Nat, NEW s \in Nat, NEW k, k = Len(ps) + 1,
         NEW ps2, ps2 = Append(ps, [n |-> 0, job |-> j, stage |-> s])
  PROVE  Labelled(ps, ps2, k, j, s)
<1>1. PICK X : ps \in Seq([n : X, job : Nat, stage : Nat])
  BY DEF Labels
<1>2. PICK Y : Y = X \cup {0}
  OBVIOUS
<1>3. PICK R : R = [n : Y, job : Nat, stage : Nat]
  OBVIOUS
<1>4. PICK x : x = [n |-> 0, job |-> j, stage |-> s]
  OBVIOUS
<1>5. x \in R /\ x.job = j /\ x.stage = s
  BY <1>2, <1>3, <1>4
<1>6. ps \in Seq(R)
  <2>1. \A z \in [n : X, job : Nat, stage : Nat] : z \in R
    BY <1>2, <1>3
  <2>2. \A i \in 1 .. Len(ps) : ps[i] \in R
    <3>1. PICK Q : Q = [n : X, job : Nat, stage : Nat]
      OBVIOUS
    <3>2. ps \in Seq(Q)
      BY <1>1, <3>1, Zenon
    <3>3. \A i \in 1 .. Len(ps) : ps[i] \in Q
      BY <3>2
    <3>4. QED
      BY <2>1, <3>1, <3>3, Zenon
  <2>3. PICK m \in Nat : m = Len(ps)
    BY <1>1
  <2>4. ps \in [1 .. m -> R]
    BY <1>1, <2>2, <2>3
  <2>5. QED
    BY <2>3, <2>4
<1>7. ps2 = Append(ps, x)
  BY <1>4, Zenon
<1>8. ps2 \in Seq(R) /\ Len(ps2) = Len(ps) + 1 /\ ps2[Len(ps) + 1] = x /\ \A i \in 1 .. Len(ps) : ps2[i] = ps[i]
  BY <1>5, <1>6, <1>7
<1>9. DOMAIN ps = 1 .. Len(ps) /\ DOMAIN ps2 = 1 .. Len(ps) + 1 /\ Len(ps) \in Nat
  BY <1>6, <1>8
<1>10. Labels(ps2)
  BY <1>3, <1>8, Zenon DEF Labels
<1>11. Grown(ps, ps2)
  BY <1>8, <1>9 DEF Grown
<1>12. QED
  BY <1>5, <1>8, <1>9, <1>10, <1>11 DEF Labelled

(***************************************************************************)
(* A step that changes pipes as well.                                      *)
(***************************************************************************)
LEMMA PipeInv ==
  ASSUME ShellInv, NEW e \in Envs, NEW d, EnvOK(d, script, pipes'), env' = [env EXCEPT ![e] = d],
         script' = script, Labels(pipes'), Grown(pipes, pipes')
  PROVE  ShellInv'
<1>1. DOMAIN env = Envs /\ \A x \in Envs : EnvOK(env[x], script, pipes)
  BY DEF ShellInv
<1>2. \A x \in Envs : EnvOK(env[x], script, pipes')
  BY <1>1, StillOK, Zenon
<1>3. DOMAIN env' = Envs /\ \A x \in Envs : env'[x] = d \/ env'[x] = env[x]
  BY <1>1
<1>4. \A x \in Envs : EnvOK(env'[x], script', pipes')
  BY <1>2, <1>3, Zenon
<1>5. script' \in Scripts
  BY DEF ShellInv
<1>6. QED
  BY <1>3, <1>4, <1>5, Zenon DEF ShellInv, Envs

LEMMA MakePipeInv == ASSUME ShellInv, NEW e \in Envs, make_pipe(e) PROVE ShellInv'
<1>1. PICK r, l : r = env[e] /\ l = script[env[e].job]
  OBVIOUS
<1>2. PICK a : a = Min(FreeFds(r.fd))
  OBVIOUS
<1>3. PICK b : b = Min(FreeFds(r.fd) \ {a})
  OBVIOUS
<1>4. PICK k : k = Len(pipes) + 1
  OBVIOUS
<1>5. /\ r.st = "cmd" /\ r.pc = "pipe"
      /\ \/ Become(e, [r EXCEPT !.pc = "run", !.argv = <<>>])
         \/ /\ Cardinality(FreeFds(r.fd)) >= 2
            /\ env' = [env EXCEPT ![e] = [r EXCEPT !.pc = "pfork", !.p = <<a, b>>,
                                            !.fd = [@ EXCEPT ![a] = <<"read", k>>, ![b] = <<"write", k>>]]]
            /\ pipes' = Append(pipes, [n |-> 0, job |-> r.job, stage |-> r.stage])
            /\ script' = script
  <2>1. r.st = "cmd" /\ r.pc = "pipe"
    BY <1>1, Zenon DEF make_pipe, At
  <2>2. \/ Become(e, [r EXCEPT !.pc = "run", !.argv = <<>>])
        \/ /\ Cardinality(FreeFds(r.fd)) >= 2
           /\ env' = [env EXCEPT ![e] = [r EXCEPT !.pc = "pfork", !.p = <<a, b>>,
                                           !.fd = [@ EXCEPT ![a] = <<"read", k>>, ![b] = <<"write", k>>]]]
           /\ pipes' = Append(pipes, [n |-> 0, job |-> r.job, stage |-> r.stage])
           /\ UNCHANGED script
    BY <1>1, <1>2, <1>3, <1>4, Zenon DEF make_pipe
  <2>3. QED
    BY <2>1, <2>2, Zenon
<1>6. Shaped(r) /\ l \in Seq(STRING) /\ CmdOK(r, l, pipes) /\ r.job \in 1 .. Len(script) /\ script \in Seq(Seq(STRING))
  BY <1>1, <1>5, LineIs
<1>7. EnvOK(r, script, pipes)
  BY <1>1 DEF ShellInv
<1>8. CASE Become(e, [r EXCEPT !.pc = "run", !.argv = <<>>])
  <2>1. PICK d : d = [r EXCEPT !.pc = "run", !.argv = <<>>]
    OBVIOUS
  <2>2. Shaped(d) /\ d.st = r.st /\ d.job = r.job /\ d.pc = "run" /\ d.argv = <<>>
    BY <1>6, <2>1 DEF Shaped, Fields
  <2>3. EnvOK(d, script, pipes)
    BY <1>5, <1>7, <2>2, WaitOK
  <2>4. QED
    BY <1>8, <2>1, <2>3, BecomeInv
<1>9. CASE /\ Cardinality(FreeFds(r.fd)) >= 2
           /\ env' = [env EXCEPT ![e] = [r EXCEPT !.pc = "pfork", !.p = <<a, b>>,
                                           !.fd = [@ EXCEPT ![a] = <<"read", k>>, ![b] = <<"write", k>>]]]
           /\ pipes' = Append(pipes, [n |-> 0, job |-> r.job, stage |-> r.stage])
           /\ script' = script
  <2>1. PICK x, y : /\ AtBar(r, l, pipes, x, y) /\ NoneBut(r.fd, {0, 1})
                    /\ OutputOK(r, SubSeq(l, 1, y))
    BY <1>5, <1>6, Zenon DEF CmdOK
  <2>2. InputOK(r, SubSeq(l, x + 1, y), pipes) /\ Starts(l, x, r.stage)
    BY <2>1, Zenon DEF AtBar, ReadTo
  <2>3. ~r.failed => r.fd[0] # None /\ r.fd[1] # None
    BY <2>1, <2>2, SomethingThere, Zenon DEF InputOK, OutputOK
  <2>4. r.failed \/ (a = 2 /\ b = 3)
    BY <1>2, <1>3, <1>9, <2>1, <2>3, Lowest, Zenon
  <2>5. r.job \in Nat /\ r.stage \in Nat
    BY <1>6, <2>2 DEF Starts
  <2>6. Labels(pipes)
    BY DEF ShellInv
  <2>7. /\ Labels(pipes') /\ Grown(pipes, pipes') /\ k \in DOMAIN pipes'
        /\ pipes'[k].job = r.job /\ pipes'[k].stage = r.stage
    <3>1. PICK j \in Nat, s \in Nat : j = r.job /\ s = r.stage
      BY <2>5
    <3>2. Labelled(pipes, pipes', k, j, s)
      BY <1>4, <1>9, <2>6, <3>1, LabelAdded, Zenon
    <3>3. QED
      BY <3>1, <3>2, Zenon DEF Labelled
  <2>8. PICK f : f = [r.fd EXCEPT ![a] = <<"read", k>>, ![b] = <<"write", k>>]
    OBVIOUS
  <2>9. PICK d : d = [r EXCEPT !.pc = "pfork", !.p = <<a, b>>, !.fd = f]
    OBVIOUS
  <2>10. env' = [env EXCEPT ![e] = d]
    BY <1>9, <2>8, <2>9, Zenon
  <2>11. EnvOK(r, script, pipes')
    BY <1>7, <2>7, StillOK
  <2>12. CmdOK(r, l, pipes')
    BY <1>1, <1>5, <2>11 DEF EnvOK
  <2>13. StepOK(d, r, l, pipes')
    BY <1>5, <1>6, <2>4, <2>7, <2>8, <2>9, <2>12, PipeOK, Zenon
  <2>14. EnvOK(d, script, pipes')
    BY <1>1, <1>5, <1>6, <2>13 DEF EnvOK, StepOK
  <2>15. QED
    BY <1>9, <2>7, <2>10, <2>14, PipeInv
<1>10. QED
  BY <1>5, <1>8, <1>9, Zenon

(***************************************************************************)
(* The fork between two stages.                                            *)
(***************************************************************************)
LEMMA LeftSideOK ==
  ASSUME NEW l, NEW ps, NEW r, Shaped(r), CmdOK(r, l, ps), r.pc = "pfork",
         NEW d, d = [r EXCEPT !.pc = "left"]
  PROVE  StepOK(d, r, l, ps)
<1>1. /\ Shaped(d) /\ d.st = r.st /\ d.job = r.job /\ d.pc = "left" /\ d.fd = r.fd /\ d.stage = r.stage
      /\ d.toks = r.toks /\ d.argv = r.argv /\ d.p = r.p /\ d.failed = r.failed
  BY DEF Shaped, Fields
<1>2. PICK a, q : AtBar(r, l, ps, a, q) /\ HasPipe(r, r.stage, ps) /\ OutputOK(r, SubSeq(l, 1, q))
  BY DEF CmdOK
<1>3. AtBar(d, l, ps, a, q)
  BY <1>1, <1>2, Zenon DEF AtBar, ReadTo, InputOK
<1>4. HasPipe(d, d.stage, ps) /\ OutputOK(d, SubSeq(l, 1, q))
  BY <1>1, <1>2, Zenon DEF HasPipe, Ends, OutputOK
<1>5. QED
  BY <1>1, <1>3, <1>4 DEF StepOK, CmdOK

LEMMA StepIsOK ==
  ASSUME NEW sc, NEW ps, NEW r, NEW d, r.st = "cmd", r.job \in 1 .. Len(sc), StepOK(d, r, sc[r.job], ps)
  PROVE  EnvOK(d, sc, ps)
BY DEF EnvOK, StepOK

LEMMA PipeForkInv == ASSUME ShellInv, NEW e \in Envs, pipe_fork(e) PROVE ShellInv'
<1>1. PICK r, l : r = env[e] /\ l = script[env[e].job]
  OBVIOUS
<1>2. PICK p, c : p = [r EXCEPT !.pc = "left"] /\ c = [r EXCEPT !.pc = "right", !.argv = <<>>, !.stage = @ + 1]
  OBVIOUS
<1>3. r.st = "cmd" /\ r.pc = "pfork"
  BY <1>1 DEF pipe_fork, At
<1>4. fork(e, p, c)
  BY <1>1, <1>2, Zenon DEF pipe_fork
<1>5. Shaped(r) /\ l \in Seq(STRING) /\ CmdOK(r, l, pipes) /\ r.job \in 1 .. Len(script)
  BY <1>1, <1>3, LineIs
<1>6. StepOK(p, r, l, pipes)
  BY <1>2, <1>3, <1>5, LeftSideOK
<1>7. StepOK(c, r, l, pipes)
  BY <1>2, <1>3, <1>5, NextStageOK
<1>8. l = script[r.job]
  BY <1>1
<1>9. EnvOK(p, script, pipes) /\ EnvOK(c, script, pipes)
  BY <1>3, <1>5, <1>6, <1>7, <1>8, StepIsOK
<1>10. QED
  BY <1>4, <1>9, ForkInv

(***************************************************************************)
(* The steps on the two sides of the pipe.                                 *)
(***************************************************************************)
LEMMA SidesInv ==
  ASSUME ShellInv, NEW e \in Envs, right(e) \/ right_close(e) \/ left(e) \/ left_close(e)
  PROVE  ShellInv'
<1>1. PICK r, l : r = env[e] /\ l = script[env[e].job]
  OBVIOUS
<1>2. r.st = "cmd"
  BY <1>1 DEF right, right_close, left, left_close, At
<1>3. Shaped(r) /\ l \in Seq(STRING) /\ CmdOK(r, l, pipes)
  BY <1>1, <1>2, LineIs
<1>4. \A d : Become(e, d) /\ StepOK(d, r, l, pipes) => ShellInv'
  BY <1>1, <1>2, CmdInv
<1>5. CASE right(e)
  <2>1. r.pc = "right"
    BY <1>1, <1>5 DEF right, At
  <2>2. PICK f \in dup(r.fd, r.p[1], 0) : Dupped(e, "right_close", r.toks, f, 0, r.p[1])
    BY <1>1, <1>5, Zenon DEF right
  <2>3. PICK b, g : b = (r.failed \/ f[0] = None) /\ g = close(f, r.p[1])
    OBVIOUS
  <2>4. PICK d : d = [r EXCEPT !.pc = "right_close", !.fd = g, !.failed = b]
    OBVIOUS
  <2>5. d = [r EXCEPT !.pc = "right_close", !.toks = r.toks, !.fd = g, !.failed = b]
    BY <1>3, <2>4 DEF Shaped, Fields
  <2>6. Become(e, d)
    BY <1>1, <2>2, <2>3, <2>5, Zenon DEF Dupped
  <2>7. b <=> r.failed \/ f[0] = None
    BY <2>3
  <2>8. StepOK(d, r, l, pipes)
    BY <1>3, <2>1, <2>3, <2>4, <2>7, RightOK
  <2>9. QED
    BY <1>4, <2>6, <2>8
<1>6. CASE right_close(e)
  <2>1. PICK d : d = [r EXCEPT !.pc = "parse", !.fd = close(@, r.p[2])]
    OBVIOUS
  <2>2. r.pc = "right_close" /\ Become(e, d)
    BY <1>1, <1>6, <2>1, Zenon DEF right_close, At
  <2>3. StepOK(d, r, l, pipes)
    BY <1>3, <2>1, <2>2, RightCloseOK, Zenon
  <2>4. QED
    BY <1>4, <2>2, <2>3
<1>7. CASE left(e)
  <2>1. r.pc = "left"
    BY <1>1, <1>7 DEF left, At
  <2>2. PICK f \in dup(r.fd, r.p[2], 1) : Dupped(e, "left_close", r.toks, f, 1, r.p[2])
    BY <1>1, <1>7, Zenon DEF left
  <2>3. PICK b, g : b = (r.failed \/ f[1] = None) /\ g = close(f, r.p[2])
    OBVIOUS
  <2>4. PICK d : d = [r EXCEPT !.pc = "left_close", !.fd = g, !.failed = b]
    OBVIOUS
  <2>5. d = [r EXCEPT !.pc = "left_close", !.toks = r.toks, !.fd = g, !.failed = b]
    BY <1>3, <2>4 DEF Shaped, Fields
  <2>6. Become(e, d)
    BY <1>1, <2>2, <2>3, <2>5, Zenon DEF Dupped
  <2>7. b <=> r.failed \/ f[1] = None
    BY <2>3
  <2>8. StepOK(d, r, l, pipes)
    BY <1>3, <2>1, <2>3, <2>4, <2>7, LeftOK
  <2>9. QED
    BY <1>4, <2>6, <2>8
<1>8. CASE left_close(e)
  <2>1. PICK d : d = [r EXCEPT !.pc = "run", !.fd = close(@, r.p[1])]
    OBVIOUS
  <2>2. r.pc = "left_close" /\ Become(e, d)
    BY <1>1, <1>8, <2>1, Zenon DEF left_close, At
  <2>3. StepOK(d, r, l, pipes)
    BY <1>3, <2>1, <2>2, LeftCloseOK, Zenon
  <2>4. QED
    BY <1>4, <2>2, <2>3
<1>9. QED
  BY <1>5, <1>6, <1>7, <1>8

(***************************************************************************)
(* runcmd() after parsecmd(), close_all() and wait().                      *)
(***************************************************************************)
LEMMA RuncmdInv == ASSUME ShellInv, NEW e \in Envs, runcmd(e) PROVE ShellInv'
<1>1. PICK r : r = env[e]
  OBVIOUS
<1>2. r.st = "cmd" /\ r.pc = "run"
  BY <1>1 DEF runcmd, At
<1>3. EnvOK(r, script, pipes) /\ Shaped(r)
  BY <1>1 DEF ShellInv, EnvOK
<1>4. PICK v : v = IF r.argv[1] \in Sources THEN Bytes ELSE 0
  OBVIOUS
<1>5. \/ exit(e)
      \/ Become(e, [r EXCEPT !.pc = "close_all", !.wait = <<e, -1>>])
      \/ /\ r.argv # <<>>
         /\ fork(e, [r EXCEPT !.pc = "wait"],
                    [r EXCEPT !.st = "prog", !.pc = "run", !.toks = <<>>, !.p = <<0, 0>>, !.out = v])
  BY <1>1, <1>4, Zenon DEF runcmd
<1>6. CASE Become(e, [r EXCEPT !.pc = "close_all", !.wait = <<e, -1>>])
  <2>1. PICK d : d = [r EXCEPT !.pc = "close_all", !.wait = <<e, -1>>]
    OBVIOUS
  <2>2. Shaped(d) /\ d.st = "cmd" /\ d.job = r.job /\ d.pc = "close_all"
    BY <1>2, <1>3, <2>1 DEF Shaped, Fields
  <2>3. EnvOK(d, script, pipes)
    BY <1>2, <1>3, <2>2, WaitOK
  <2>4. QED
    BY <1>6, <2>1, <2>3, BecomeInv
<1>7. CASE /\ r.argv # <<>>
           /\ fork(e, [r EXCEPT !.pc = "wait"],
                      [r EXCEPT !.st = "prog", !.pc = "run", !.toks = <<>>, !.p = <<0, 0>>, !.out = v])
  <2>1. PICK p : p = [r EXCEPT !.pc = "wait"]
    OBVIOUS
  <2>2. PICK c : c = [r EXCEPT !.st = "prog", !.pc = "run", !.toks = <<>>, !.p = <<0, 0>>, !.out = v]
    OBVIOUS
  <2>3. Shaped(p) /\ p.st = "cmd" /\ p.job = r.job /\ p.pc = "wait"
    BY <1>2, <1>3, <2>1 DEF Shaped, Fields
  <2>4. EnvOK(p, script, pipes)
    BY <1>2, <1>3, <2>3, WaitOK
  <2>5. EnvOK(c, script, pipes)
    BY <1>2, <1>3, <1>7, <2>2, ProgOK, Zenon
  <2>6. QED
    BY <1>7, <2>1, <2>2, <2>4, <2>5, ForkInv
<1>8. QED
  BY <1>5, <1>6, <1>7, ExitInv

LEMMA CloseAllInv == ASSUME ShellInv, NEW e \in Envs, close_all(e) PROVE ShellInv'
<1>1. PICK r : r = env[e]
  OBVIOUS
<1>2. PICK N : N = NoFds
  OBVIOUS
<1>3. PICK d : d = [r EXCEPT !.pc = "wait", !.fd = N]
  OBVIOUS
<1>4. r.st = "cmd" /\ Become(e, d)
  BY <1>1, <1>2, <1>3, Zenon DEF close_all, At
<1>5. EnvOK(r, script, pipes) /\ Shaped(r)
  BY <1>1 DEF ShellInv, EnvOK
<1>6. DOMAIN N = Fds
  BY <1>2 DEF NoFds
<1>7. Shaped(d) /\ d.st = "cmd" /\ d.job = r.job /\ d.pc = "wait"
  BY <1>3, <1>4, <1>5, <1>6 DEF Shaped, Fields
<1>8. EnvOK(d, script, pipes)
  BY <1>4, <1>5, <1>7, WaitOK
<1>9. QED
  BY <1>4, <1>8, BecomeInv

-----------------------------------------------------------------------------
(* The main loop and the programs.                                         *)

LEMMA MainStays ==
  ASSUME NEW sc, NEW ps, NEW r, EnvOK(r, sc, ps), r.st = "shell", NEW d, Shaped(d), d.st = "shell",
         d.fd = r.fd, d.argv = r.argv, d.stage = r.stage, d.failed = r.failed, d.job \in 0 .. Len(sc),
         d.pc = "fork" => d.job > 0 /\ d.toks = sc[d.job]
  PROVE  EnvOK(d, sc, ps)
<1>1. MainOK(r, sc)
  BY DEF EnvOK
<1>2. MainOK(d, sc)
  BY <1>1 DEF MainOK
<1>3. QED
  BY <1>2 DEF EnvOK

LEMMA ShellLoopInv == ASSUME ShellInv, main \in Envs, shell PROVE ShellInv'
<1>1. PICK r : r = env[main]
  OBVIOUS
<1>2. r.st = "shell"
  BY <1>1 DEF shell, readline, main_fork, main_wait, At
<1>3. EnvOK(r, script, pipes) /\ Shaped(r) /\ script \in Seq(Seq(STRING))
  BY <1>1, Sizes DEF ShellInv, EnvOK
<1>4. r.job \in 0 .. Len(script) /\ MainOK(r, script)
  BY <1>2, <1>3 DEF EnvOK, MainOK
<1>5. CASE readline
  <2>1. CASE r.job = Len(script)
    <3>1. exit(main)
      BY <1>1, <1>5, <2>1, Zenon DEF readline
    <3>2. QED
      BY <3>1, ExitInv
  <2>2. CASE r.job # Len(script)
    <3>1. PICK l : l = script[r.job + 1]
      OBVIOUS
    <3>2. PICK pc : pc = IF l # <<>> /\ l[1] = "#" THEN "prompt" ELSE "fork"
      OBVIOUS
    <3>3. PICK d : d = [r EXCEPT !.job = @ + 1, !.toks = l, !.pc = pc]
      OBVIOUS
    <3>4. Become(main, d)
      BY <1>1, <1>5, <2>2, <3>1, <3>2, <3>3, Zenon DEF readline
    <3>5. /\ Shaped(d) /\ d.st = "shell" /\ d.fd = r.fd /\ d.argv = r.argv /\ d.stage = r.stage /\ d.failed = r.failed
          /\ d.job = r.job + 1 /\ d.toks = l
      BY <1>2, <1>3, <3>3 DEF Shaped, Fields
    <3>6. d.job \in 0 .. Len(script) /\ d.job > 0
      <4>1. PICK n : n = Len(script) /\ n \in Nat
        BY <1>3
      <4>2. QED
        BY <1>4, <2>2, <3>5, <4>1
    <3>7. d.toks = script[d.job]
      BY <3>1, <3>5, Zenon
    <3>8. EnvOK(d, script, pipes)
      BY <1>2, <1>3, <3>5, <3>6, <3>7, MainStays
    <3>9. QED
      BY <3>4, <3>8, BecomeInv
  <2>3. QED
    BY <2>1, <2>2
<1>6. CASE main_fork
  <2>1. PICK p : p = [r EXCEPT !.pc = "wait"]
    OBVIOUS
  <2>2. PICK c : c = [r EXCEPT !.st = "cmd", !.pc = "parse"]
    OBVIOUS
  <2>3. r.pc = "fork" /\ fork(main, p, c)
    BY <1>1, <1>6, <2>1, <2>2, Zenon DEF main_fork, At
  <2>4. EnvOK(c, script, pipes)
    BY <1>2, <1>3, <2>2, <2>3, LineOK
  <2>5. /\ Shaped(p) /\ p.st = "shell" /\ p.fd = r.fd /\ p.argv = r.argv /\ p.stage = r.stage /\ p.failed = r.failed
        /\ p.job = r.job /\ p.pc # "fork"
    BY <1>2, <1>3, <2>1 DEF Shaped, Fields
  <2>6. EnvOK(p, script, pipes)
    BY <1>2, <1>3, <1>4, <2>5, MainStays
  <2>7. QED
    BY <2>3, <2>4, <2>6, ForkInv
<1>7. CASE main_wait
  <2>1. PICK p : p = [r EXCEPT !.pc = "prompt"]
    OBVIOUS
  <2>2. Become(main, p)
    BY <1>1, <1>7, <2>1, Zenon DEF main_wait
  <2>3. /\ Shaped(p) /\ p.st = "shell" /\ p.fd = r.fd /\ p.argv = r.argv /\ p.stage = r.stage /\ p.failed = r.failed
        /\ p.job = r.job /\ p.pc # "fork"
    BY <1>2, <1>3, <2>1 DEF Shaped, Fields
  <2>4. EnvOK(p, script, pipes)
    BY <1>2, <1>3, <1>4, <2>3, MainStays
  <2>5. QED
    BY <2>2, <2>4, BecomeInv
<1>8. QED
  BY <1>5, <1>6, <1>7 DEF shell

(***************************************************************************)
(* Bytes come and go, and the pipe stays the pipe that was made.           *)
(***************************************************************************)
LEMMA BytesMoved ==
  ASSUME NEW ps, Labels(ps), NEW k, NEW v, NEW ps2, ps2 = [ps EXCEPT ![k].n = v]
  PROVE  Labels(ps2) /\ Grown(ps, ps2)
<1>1. PICK X : ps \in Seq([n : X, job : Nat, stage : Nat])
  BY DEF Labels
<1>2. PICK Y : Y = X \cup {v}
  OBVIOUS
<1>3. PICK R : R = [n : Y, job : Nat, stage : Nat]
  OBVIOUS
<1>4. PICK Q : Q = [n : X, job : Nat, stage : Nat]
  OBVIOUS
<1>5. PICK m \in Nat : ps \in [1 .. m -> Q] /\ DOMAIN ps = 1 .. m
  <2>1. ps \in Seq(Q)
    BY <1>1, <1>4, Zenon
  <2>2. QED
    BY <2>1
<1>6. \A z \in Q : z \in R /\ [z EXCEPT !.n = v] \in R /\ [z EXCEPT !.n = v].job = z.job
                   /\ [z EXCEPT !.n = v].stage = z.stage
  BY <1>2, <1>3, <1>4
<1>7. PICK w : w = [ps[k] EXCEPT !.n = v]
  OBVIOUS
<1>8. ps2 = [ps EXCEPT ![k] = w]
  BY <1>7, Zenon
<1>9. DOMAIN ps2 = 1 .. m /\ \A i \in 1 .. m : ps2[i] = IF i = k THEN w ELSE ps[i]
  BY <1>5, <1>8
<1>10. \A i \in 1 .. m : ps[i] \in Q
  BY <1>5
<1>11. ASSUME NEW i \in 1 .. m PROVE ps2[i] \in R /\ ps2[i].job = ps[i].job /\ ps2[i].stage = ps[i].stage
  <2>1. CASE i = k
    <3>1. ps2[i] = [ps[i] EXCEPT !.n = v]
      BY <1>7, <1>9, <2>1, Zenon
    <3>2. QED
      BY <1>6, <1>10, <3>1, Zenon
  <2>2. CASE i # k
    BY <1>6, <1>9, <1>10, <2>2, Zenon
  <2>3. QED
    BY <2>1, <2>2
<1>12. ps2 \in [1 .. m -> R]
  <2>1. ps2 = [i \in 1 .. m |-> ps2[i]]
    <3>1. ps2 = [i \in DOMAIN ps |-> IF i = k THEN w ELSE ps[i]]
      BY <1>8
    <3>2. QED
      BY <1>5, <1>9, <3>1
  <2>2. QED
    BY <1>11, <2>1
<1>13. ps2 \in Seq(R)
  BY <1>12, SeqDef, Zenon
<1>14. QED
  BY <1>3, <1>5, <1>9, <1>11, <1>13 DEF Labels, Grown

LEMMA ProgStays ==
  ASSUME NEW sc, NEW ps, NEW r, EnvOK(r, sc, ps), r.st = "prog",
         NEW d, Shaped(d), d.st = "prog", d.fd = r.fd, d.argv = r.argv, d.job = r.job, d.stage = r.stage, d.failed = r.failed
  PROVE  EnvOK(d, sc, ps)
<1>1. Complete(r, sc[r.job], ps) /\ r.job \in 1 .. Len(sc)
  BY DEF EnvOK
<1>2. Complete(d, sc[d.job], ps)
  BY <1>1, AlikeComplete, Zenon
<1>3. QED
  BY <1>1, <1>2 DEF EnvOK

LEMMA ProgReadInv == ASSUME ShellInv, NEW e \in Envs, prog_read(e) PROVE ShellInv'
<1>1. PICK r : r = env[e]
  OBVIOUS
<1>2. r.st = "prog"
  BY <1>1, Zenon DEF prog_read, At
<1>3. EnvOK(r, script, pipes) /\ Shaped(r) /\ Labels(pipes)
  BY <1>1 DEF ShellInv, EnvOK
<1>4. PICK k : k = r.fd[0][2]
  OBVIOUS
<1>5. \/ /\ pipes' = [pipes EXCEPT ![k].n = @ - 1] /\ env' = [env EXCEPT ![e].out = 1] /\ UNCHANGED script
      \/ exit(e)
      \/ Become(e, [r EXCEPT !.out = 1, !.pc = "last"])
  BY <1>1, <1>4, Zenon DEF prog_read
<1>6. CASE pipes' = [pipes EXCEPT ![k].n = @ - 1] /\ env' = [env EXCEPT ![e].out = 1] /\ UNCHANGED script
  <2>1. PICK d : d = [r EXCEPT !.out = 1]
    OBVIOUS
  <2>2. env' = [env EXCEPT ![e] = d]
    BY <1>1, <1>6, <2>1, Zenon
  <2>3. PICK v : v = pipes[k].n - 1
    OBVIOUS
  <2>4. pipes' = [pipes EXCEPT ![k].n = v]
    BY <1>6, <2>3, Zenon
  <2>5. Labels(pipes') /\ Grown(pipes, pipes')
    BY <1>3, <2>4, BytesMoved, Zenon
  <2>6. EnvOK(r, script, pipes')
    BY <1>3, <2>5, StillOK
  <2>7. /\ Shaped(d) /\ d.st = "prog" /\ d.fd = r.fd /\ d.argv = r.argv /\ d.job = r.job /\ d.stage = r.stage
        /\ d.failed = r.failed
    BY <1>2, <1>3, <2>1 DEF Shaped, Fields
  <2>8. EnvOK(d, script, pipes')
    BY <1>2, <2>6, <2>7, ProgStays
  <2>9. QED
    BY <1>6, <2>2, <2>5, <2>8, PipeInv
<1>7. CASE Become(e, [r EXCEPT !.out = 1, !.pc = "last"])
  <2>1. PICK d : d = [r EXCEPT !.out = 1, !.pc = "last"]
    OBVIOUS
  <2>2. /\ Shaped(d) /\ d.st = "prog" /\ d.fd = r.fd /\ d.argv = r.argv /\ d.job = r.job /\ d.stage = r.stage
        /\ d.failed = r.failed
    BY <1>2, <1>3, <2>1 DEF Shaped, Fields
  <2>3. EnvOK(d, script, pipes)
    BY <1>2, <1>3, <2>2, ProgStays
  <2>4. QED
    BY <1>7, <2>1, <2>3, BecomeInv
<1>8. QED
  BY <1>5, <1>6, <1>7, ExitInv

LEMMA ProgWriteInv == ASSUME ShellInv, NEW e \in Envs, prog_write(e) PROVE ShellInv'
<1>1. PICK r : r = env[e]
  OBVIOUS
<1>2. r.st = "prog"
  BY <1>1, Zenon DEF prog_write
<1>3. EnvOK(r, script, pipes) /\ Shaped(r) /\ Labels(pipes)
  BY <1>1 DEF ShellInv, EnvOK
<1>4. PICK k : k = r.fd[1][2]
  OBVIOUS
<1>5. \/ /\ pipes' = [pipes EXCEPT ![k].n = @ + 1] /\ env' = [env EXCEPT ![e].out = @ - 1] /\ UNCHANGED script
      \/ exit(e)
      \/ Become(e, [r EXCEPT !.out = @ - 1])
  BY <1>1, <1>4, Zenon DEF prog_write
<1>6. PICK u : u = r.out - 1
  OBVIOUS
<1>7. PICK d : d = [r EXCEPT !.out = u]
  OBVIOUS
<1>8. /\ Shaped(d) /\ d.st = "prog" /\ d.fd = r.fd /\ d.argv = r.argv /\ d.job = r.job /\ d.stage = r.stage
      /\ d.failed = r.failed
  BY <1>2, <1>3, <1>7 DEF Shaped, Fields
<1>9. CASE pipes' = [pipes EXCEPT ![k].n = @ + 1] /\ env' = [env EXCEPT ![e].out = @ - 1] /\ UNCHANGED script
  <2>1. env' = [env EXCEPT ![e] = d]
    BY <1>1, <1>6, <1>7, <1>9, Zenon
  <2>2. PICK v : v = pipes[k].n + 1
    OBVIOUS
  <2>3. pipes' = [pipes EXCEPT ![k].n = v]
    BY <1>9, <2>2, Zenon
  <2>4. Labels(pipes') /\ Grown(pipes, pipes')
    BY <1>3, <2>3, BytesMoved, Zenon
  <2>5. EnvOK(r, script, pipes')
    BY <1>3, <2>4, StillOK
  <2>6. EnvOK(d, script, pipes')
    BY <1>2, <1>8, <2>5, ProgStays
  <2>7. QED
    BY <1>9, <2>1, <2>4, <2>6, PipeInv
<1>10. CASE Become(e, [r EXCEPT !.out = @ - 1])
  <2>1. Become(e, d)
    BY <1>6, <1>7, <1>10, Zenon
  <2>2. EnvOK(d, script, pipes)
    BY <1>2, <1>3, <1>8, ProgStays
  <2>3. QED
    BY <2>1, <2>2, BecomeInv
<1>11. QED
  BY <1>5, <1>9, <1>10, ExitInv

-----------------------------------------------------------------------------
(* The theorem.                                                            *)

LEMMA ShellInit == Init => ShellInv
<1> SUFFICES ASSUME Init PROVE ShellInv
  OBVIOUS
<1>1. PICK n \in Avail :
        env = [e \in Envs |-> IF e > n THEN [Free(0) EXCEPT !.st = "other"]
                              ELSE IF e # main THEN Free(0)
                              ELSE [Free(0) EXCEPT !.st = "shell", !.pc = "prompt",
                                                   !.fd = [NoFds EXCEPT ![0] = Console, ![1] = Console]]]
  BY Zenon DEF Init
<1>2. PICK r : r = Free(0)
  OBVIOUS
<1>3. PICK f : f = [NoFds EXCEPT ![0] = Console, ![1] = Console]
  OBVIOUS
<1>4. PICK o : o = [r EXCEPT !.st = "other"]
  OBVIOUS
<1>5. PICK m : m = [r EXCEPT !.st = "shell", !.pc = "prompt", !.fd = f]
  OBVIOUS
<1>6. env = [e \in Envs |-> IF e > n THEN o ELSE IF e # main THEN r ELSE m]
  BY <1>1, <1>2, <1>3, <1>4, <1>5, Zenon
<1>7. DOMAIN env = Envs /\ \A e \in Envs : env[e] = o \/ env[e] = r \/ env[e] = m
  BY <1>6
<1>8. Shaped(r) /\ EnvOK(r, script, pipes)
  BY <1>2, FreeOK
<1>9. Shaped(o) /\ o.st = "other"
  BY <1>4, <1>8 DEF Shaped, Fields
<1>10. EnvOK(o, script, pipes)
  BY <1>9 DEF EnvOK
<1>11. DOMAIN f = Fds /\ f[0] = Console /\ f[1] = Console /\ NoneBut(f, {0, 1})
  BY <1>3, Sizes DEF NoFds, NoneBut
<1>12. r.job = 0 /\ r.argv = <<>> /\ r.stage = 1 /\ ~r.failed
  BY <1>2 DEF Free
<1>13. /\ Shaped(m) /\ m.st = "shell" /\ m.pc = "prompt" /\ m.fd = f /\ m.job = r.job
       /\ m.argv = r.argv /\ m.stage = r.stage /\ m.failed = r.failed
  BY <1>5, <1>8, <1>11 DEF Shaped, Fields
<1>14. script \in Scripts /\ script \in Seq(Seq(STRING)) /\ pipes = <<>>
  BY Sizes DEF Init
<1>15. m.job \in 0 .. Len(script)
  BY <1>12, <1>13, <1>14
<1>16. EnvOK(m, script, pipes)
  BY <1>11, <1>12, <1>13, <1>15 DEF EnvOK, MainOK
<1>17. Labels(pipes)
  BY <1>14 DEF Labels
<1>18. QED
  BY <1>7, <1>8, <1>10, <1>14, <1>16, <1>17, Zenon DEF ShellInv

LEMMA ShellStep == ShellInv /\ [Next]_vars => ShellInv'
<1> SUFFICES ASSUME ShellInv, [Next]_vars PROVE ShellInv'
  OBVIOUS
<1>1. ASSUME NEW e \in Envs, Step(e) PROVE ShellInv'
  <2>1. CASE e = main /\ shell
    BY <2>1, ShellLoopInv
  <2>2. CASE cmd(e)
    <3>1. CASE cmd_wait(e)
      BY <3>1, ExitInv DEF cmd_wait
    <3>2. QED
      BY <2>2, <3>1, TokenInv, RedirectInv, MakePipeInv, PipeForkInv, SidesInv, RuncmdInv, CloseAllInv DEF cmd
  <2>3. CASE prog(e)
    <3>1. CASE prog_exit(e)
      BY <3>1, ExitInv DEF prog_exit
    <3>2. QED
      BY <2>3, <3>1, ProgReadInv, ProgWriteInv DEF prog
  <2>4. QED
    BY <1>1, <2>1, <2>2, <2>3 DEF Step
<1>2. ASSUME UNCHANGED vars PROVE ShellInv'
  <2>1. script' = script /\ env' = env /\ pipes' = pipes
    BY <1>2 DEF vars
  <2>2. QED
    BY <2>1, Zenon DEF ShellInv, Envs
<1>3. QED
  BY <1>1, <1>2 DEF Next, Over

(***************************************************************************)
(* Every program of every command line, whatever its number of stages and  *)
(* redirections, gets the words of its stage as arguments and no end of a  *)
(* pipe beside its descriptors 0 and 1; these are what the line says,      *)
(* unless an open() or a dup() of the line failed, which parsecmd does not *)
(* look at (parsecmd, runcmd of user/sh.c).                                *)
(***************************************************************************)
THEOREM CommandsAreWired == Spec => []Wired
<1>1. ShellInv => Wired
  <2> SUFFICES ASSUME ShellInv, NEW e \in Envs, env[e].st = "prog"
               PROVE  LET l == script[env[e].job]
                          s == env[e].stage
                          t == StageOf(l, s)
                          Pipe(end, k, made) == /\ k[1] = end
                                                /\ pipes[k[2]].job = env[e].job /\ pipes[k[2]].stage = made
                      IN /\ env[e].argv = WordsOf(t)
                         /\ \A i \in Fds \ {0, 1} : env[e].fd[i] = None
                         /\ ~env[e].failed =>
                              /\ IF Redirected(t, "<") # {} THEN env[e].fd[0] \in {<<"file", f>> : f \in Redirected(t, "<")}
                                 ELSE IF s > 1 THEN Pipe("read", env[e].fd[0], s - 1) ELSE env[e].fd[0] = Console
                              /\ IF s < LastStage(l) THEN Pipe("write", env[e].fd[1], s)
                                 ELSE IF Redirected(l, ">") # {} THEN env[e].fd[1] \in {<<"file", f>> : f \in Redirected(l, ">")}
                                 ELSE env[e].fd[1] = Console
    BY Zenon DEF Wired
  <2>1. PICK r, l, s, t : r = env[e] /\ l = script[env[e].job] /\ s = env[e].stage /\ t = StageOf(l, s)
    OBVIOUS
  <2>2. Complete(r, l, pipes)
    BY <2>1 DEF ShellInv, EnvOK
  <2>3. \A k, F : FileOf(k, F) => k \in {<<"file", f>> : f \in F}
    BY DEF FileOf
  <2>4. \A k, end, made : PipeEnd(k, end, r.job, made, pipes) =>
                            k[1] = end /\ pipes[k[2]].job = r.job /\ pipes[k[2]].stage = made
    BY DEF PipeEnd
  <2>5. r.argv = WordsOf(t) /\ \A i \in Fds \ {0, 1} : r.fd[i] = None
    BY <2>1, <2>2, Zenon DEF Complete, NoneBut
  <2>6. ASSUME ~r.failed
        PROVE  IF Redirected(t, "<") # {} THEN r.fd[0] \in {<<"file", f>> : f \in Redirected(t, "<")}
               ELSE IF s > 1 THEN r.fd[0][1] = "read" /\ pipes[r.fd[0][2]].job = r.job /\ pipes[r.fd[0][2]].stage = s - 1
               ELSE r.fd[0] = Console
    <3>1. Input(r.fd[0], t, r.job, s, pipes)
      BY <2>1, <2>2, <2>6, Zenon DEF Complete, InputOK
    <3>2. PICK k, R : k = r.fd[0] /\ R = Redirected(t, "<")
      OBVIOUS
    <3>3. IF R # {} THEN FileOf(k, R)
          ELSE IF s > 1 THEN PipeEnd(k, "read", r.job, s - 1, pipes) ELSE k = Console
      BY <3>1, <3>2, Zenon DEF Input
    <3>4. QED
      BY <2>3, <2>4, <3>2, <3>3, Zenon
  <2>7. ASSUME ~r.failed
        PROVE  IF s < LastStage(l)
               THEN r.fd[1][1] = "write" /\ pipes[r.fd[1][2]].job = r.job /\ pipes[r.fd[1][2]].stage = s
               ELSE IF Redirected(l, ">") # {} THEN r.fd[1] \in {<<"file", f>> : f \in Redirected(l, ">")}
               ELSE r.fd[1] = Console
    <3>1. IF s < LastStage(l) THEN PipeEnd(r.fd[1], "write", r.job, s, pipes) ELSE Output(r.fd[1], l)
      BY <2>1, <2>2, <2>7, Zenon DEF Complete, Out
    <3>2. PICK k, R : k = r.fd[1] /\ R = Redirected(l, ">")
      OBVIOUS
    <3>3. Output(k, l) => IF R # {} THEN k \in {<<"file", f>> : f \in R} ELSE k = Console
      BY <2>3, <3>2, Zenon DEF Output
    <3>4. QED
      BY <2>4, <3>1, <3>2, <3>3, Zenon
  <2>8. QED
    BY <2>1, <2>5, <2>6, <2>7, Zenon
<1>2. QED
  BY <1>1, ShellInit, ShellStep, PTL DEF Spec
=============================================================================
