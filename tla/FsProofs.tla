------------------------------ MODULE FsProofs ------------------------------
(***************************************************************************)
(* Proofs about the file system (Fs) and about the server that gives it to *)
(* its clients (FsServ).                                                   *)
(*                                                                         *)
(* Fs, up to the first of its known defects: no block has two uses, no     *)
(* disk that a crash can leave has, and no request panics.  The invariant  *)
(* relates two views of the blocks.                                        *)
(* What the server sees (View) is well formed at the end of a request; the *)
(* disk lags behind it (Lower): it may lack pointers, never have others.   *)
(* Within a request blocks are given up (Pruned) or taken (Grown).         *)
(*                                                                         *)
(* FsServ: every reply goes to the client that waits for it, and an open   *)
(* descriptor goes on naming the file it was opened for.  These proofs use *)
(* nothing of the file system itself.                                      *)
(***************************************************************************)
EXTENDS Fs, FsServ, FiniteSetTheorems, WellFoundedInduction, TLAPS

-----------------------------------------------------------------------------
(* Numbers, and recursion on them.                                         *)

\* The sizes of the disk and of a struct File, as the assumptions give them.
LEMMA Dims == /\ NBlocks \in Nat /\ NBlocks > 3
              /\ NDIRECT \in Nat \ {0} /\ NINDIRECT \in Nat /\ NINDIRECT >= NDIRECT
              /\ FILE2BLK \in Nat \ {0} /\ BY2BLK \in Nat \ {0}
  BY FsAssumption

Under == {p \in Nat \X Nat : p[1] < p[2]}

\* A set of naturals that is not empty has a least element.
LEMMA LeastNat ==
  ASSUME NEW S, S \subseteq Nat, S # {}
  PROVE  \E x \in S : \A y \in S : x <= y
<1>1. IsWellFoundedOn(Under, Nat)
  BY NatLessThanWellFounded, Zenon DEF OpToRel, Under
<1>2. PICK x \in S : \A y \in S : ~(<<y, x>> \in Under)
  BY <1>1, WFMin
<1>3. ASSUME NEW y \in S PROVE x <= y
  <2>1. ~(<<y, x>> \in Under) /\ x \in Nat /\ y \in Nat
    BY <1>2
  <2>2. ~(y < x)
    BY <2>1 DEF Under
  <2>3. QED
    BY <2>1, <2>2
<1>4. QED
  BY <1>2, <1>3

\* The minimum of a set of block numbers or slots is one of them.
LEMMA MinIn ==
  ASSUME NEW S, S \subseteq Nat, S # {}
  PROVE  Min(S) \in S
<1>1. \E x \in S : \A y \in S : x <= y
  BY LeastNat
<1>2. QED
  BY <1>1, Zenon DEF Min

\* Induction up to N, for what a set B says.
LEMMA Upward ==
  ASSUME NEW N \in Nat, NEW B, 0 \in B, \A n \in 1 .. N : n - 1 \in B => n \in B
  PROVE  0 .. N \subseteq B
<1> DEFINE C == {n \in 0 .. N : n \notin B}
<1> SUFFICES ASSUME C # {} PROVE FALSE
  OBVIOUS
<1>1. C \subseteq Nat
  OBVIOUS
<1>2. PICK n \in C : \A y \in C : n <= y
  BY <1>1, LeastNat
<1>3. n \in 1 .. N
  BY <1>2
<1>4. n - 1 \in 0 .. N /\ n - 1 \notin C
  BY <1>2, <1>3
<1>5. n - 1 \in B
  BY <1>4
<1>6. QED
  BY <1>2, <1>3, <1>5

\* A function defined by recursion on 0 .. N exists: G[n] takes the value
\* before n to the value at n.
Recursive(h, N, S, a, G) ==
  h \in [0 .. N -> S] /\ h[0] = a /\ \A n \in 1 .. N : h[n] = G[n][h[n - 1]]

\* There is such a function, for any start and any steps.
LEMMA Recursion ==
  ASSUME NEW N \in Nat, NEW S, NEW a \in S, NEW G \in [1 .. N -> [S -> S]]
  PROVE  \E h : Recursive(h, N, S, a, G)
<1> DEFINE B == {m \in 0 .. N : \E h \in [0 .. m -> S] :
                    h[0] = a /\ \A n \in 1 .. m : h[n] = G[n][h[n - 1]]}
<1>1. 0 \in B
  <2>1. PICK h : h = [n \in 0 .. 0 |-> a]
    OBVIOUS
  <2>2. h \in [0 .. 0 -> S] /\ h[0] = a /\ 0 \in 0 .. N
    BY <2>1
  <2>3. \A n \in 1 .. 0 : h[n] = G[n][h[n - 1]]
    OBVIOUS
  <2>4. QED
    BY <2>2, <2>3
<1>2. ASSUME NEW m \in 1 .. N, m - 1 \in B PROVE m \in B
  <2>1. PICK h \in [0 .. m - 1 -> S] :
          h[0] = a /\ \A n \in 1 .. m - 1 : h[n] = G[n][h[n - 1]]
    BY <1>2
  <2>2. h[m - 1] \in S
    OBVIOUS
  <2>3. PICK v \in S : v = G[m][h[m - 1]]
    BY <2>2
  <2>4. PICK g : g = [n \in 0 .. m |-> IF n = m THEN v ELSE h[n]]
    OBVIOUS
  <2>5. g \in [0 .. m -> S]
    BY <2>4
  <2>6. g[0] = a
    BY <2>1, <2>4
  <2>7. ASSUME NEW n \in 1 .. m PROVE g[n] = G[n][g[n - 1]]
    <3>1. n - 1 \in 0 .. m - 1 /\ g[n - 1] = h[n - 1]
      BY <2>4
    <3>2. CASE n = m
      <4>1. g[m] = v /\ g[m - 1] = h[m - 1]
        BY <2>4, <3>1, <3>2
      <4>2. QED
        BY <2>3, <3>2, <4>1, Zenon
    <3>3. CASE n # m
      <4>1. n \in 1 .. m - 1
        BY <3>3
      <4>2. g[n] = h[n] /\ h[n] = G[n][h[n - 1]]
        BY <2>1, <2>4, <4>1
      <4>3. QED
        BY <3>1, <4>2
    <3>4. QED
      BY <3>2, <3>3
  <2>8. QED
    BY <2>5, <2>6, <2>7
<1>3. N \in B
  <2>1. 0 .. N \subseteq B
    BY <1>1, <1>2, Upward
  <2>2. QED
    BY <2>1
<1>4. ASSUME NEW m \in B, m = N
      PROVE  \E h : Recursive(h, N, S, a, G)
  <2>1. PICK h \in [0 .. m -> S] : h[0] = a /\ \A n \in 1 .. m : h[n] = G[n][h[n - 1]]
    BY <1>4, Zenon
  <2>2. h \in [0 .. N -> S] /\ h[0] = a /\ \A n \in 1 .. N : h[n] = G[n][h[n - 1]]
    BY <1>4, <2>1, Zenon
  <2>3. QED
    BY <2>2, Zenon DEF Recursive
<1>5. QED
  <2> HIDE DEF B
  <2>1. QED
    BY <1>3, <1>4, Zenon

-----------------------------------------------------------------------------
(* Contents of blocks.                                                     *)

Place == Block \X Slot
Cached == Content \cup {NoBlock}

\* Blocks 0, 1 and 2 and the places of the root and of no file.
LEMMA Numbers == /\ {0, 1, 2} \subseteq Block /\ Block \subseteq Nat /\ 0 \in Slot /\ Slot \subseteq Nat
                 /\ Root \in Place /\ NoPlace \in Place /\ Root # NoPlace /\ Root[1] = 1
  BY Dims DEF Block, Slot, Root, NoPlace, Place

\* An empty directory entry is a struct File.
LEMMA NoFileIs == NoFile \in FileType
<1>1. NoName \in Name
  BY Zenon DEF Name
<1>2. QED
  BY <1>1, Dims DEF NoFile, FileType

\* Any block read as a directory is an array of struct File.
LEMMA AsDirIs ==
  ASSUME NEW c \in Cached
  PROVE  AsDir(c) \in [Slot -> FileType]
  BY NoFileIs DEF Cached, Content, AsDir, NoBlock

\* Any block read as an indirect block is an array of pointers.
LEMMA AsIndexIs ==
  ASSUME NEW c \in Cached
  PROVE  AsIndex(c) \in [0 .. NINDIRECT - 1 -> Nat]
  BY DEF Cached, Content, AsIndex, NoBlock, NoPtrs

\* The fields of the superblock and of the bitmap.
LEMMA SuperIs ==
  ASSUME NEW c \in Cached
  PROVE  /\ c.t = "super" => c.root \in FileType /\ c = [t |-> "super", root |-> c.root]
         /\ c.t = "bitmap" => c.free \in SUBSET Block /\ c = [t |-> "bitmap", free |-> c.free]
  BY DEF Cached, Content, NoBlock

\* The fields of a struct File.
LEMMA FileFields ==
  ASSUME NEW x \in FileType
  PROVE  /\ x.f_size \in Nat /\ x.f_type \in {"reg", "dir"} /\ x.f_indirect \in Nat
         /\ x.f_direct \in [0 .. NDIRECT - 1 -> Nat] /\ x.f_name \in Name
         /\ DOMAIN x = {"f_name", "f_size", "f_type", "f_direct", "f_indirect"}
  BY DEF FileType

-----------------------------------------------------------------------------
(* The places of a file system.                                            *)

Step(d, F) == UNION {DirBlocks(d, f) \X Slot : f \in F}
Chain(u, d) ==
  /\ u \in [0 .. NBlocks -> SUBSET Place] /\ u[0] = {Root}
  /\ \A k \in 1 .. NBlocks : u[k] = Step(d, u[k - 1])
  /\ \A f : f \in Places(d) <=> \E k \in 0 .. NBlocks : f \in u[k]
  /\ Reach(d).new = u[NBlocks]

\* The entries of directories are at places of the disk.
LEMMA StepIn == ASSUME NEW d, NEW F PROVE Step(d, F) \in SUBSET Place
  BY DEF Step, DirBlocks, Place

\* One level of the directory tree after another.
LEMMA NextLevelIs ==
  ASSUME NEW d, NEW r
  PROVE  NextLevel(d, r) = [all |-> r.all \cup Step(d, r.new), new |-> Step(d, r.new)]
  BY Zenon DEF NextLevel, With, Step

\* The levels of the tree, for any blocks.
LEMMA ChainExists ==
  ASSUME NEW d
  PROVE  \E u : Chain(u, d)
<1>1. PICK S : S = [all : SUBSET Place, new : SUBSET Place]
  OBVIOUS
<1>2. PICK a : a = [all |-> {Root}, new |-> {Root}]
  OBVIOUS
<1>3. a \in S /\ a.all = {Root} /\ a.new = {Root}
  BY <1>1, <1>2, Numbers
<1>4. ASSUME NEW r \in S
      PROVE  /\ NextLevel(d, r) \in S
             /\ NextLevel(d, r).all = r.all \cup Step(d, r.new) /\ NextLevel(d, r).new = Step(d, r.new)
  <2>1. PICK F : F = Step(d, r.new)
    OBVIOUS
  <2>2. F \in SUBSET Place
    BY <2>1, StepIn
  <2>3. NextLevel(d, r) = [all |-> r.all \cup F, new |-> F]
    BY <2>1, NextLevelIs
  <2>4. r.all \in SUBSET Place
    BY <1>1
  <2>5. QED
    BY <1>1, <2>1, <2>2, <2>3, <2>4
<1>5. PICK N \in Nat : N = NBlocks
  BY Dims
<1>6. PICK G : G = [n \in 1 .. N |-> [r \in S |-> NextLevel(d, r)]]
  OBVIOUS
<1>7. G \in [1 .. N -> [S -> S]]
  BY <1>4, <1>6, Zenon
<1>8. PICK h : Recursive(h, N, S, a, G)
  BY <1>3, <1>7, Recursion, Zenon
<1>9. h \in [0 .. N -> S] /\ h[0] = a /\ \A n \in 1 .. N : h[n] = G[n][h[n - 1]]
  BY <1>8, Zenon DEF Recursive
<1>10. ASSUME NEW n \in 1 .. N PROVE h[n] = NextLevel(d, h[n - 1])
  <2>1. n - 1 \in 0 .. N
    OBVIOUS
  <2>2. h[n - 1] \in S
    BY <1>9, <2>1, Zenon
  <2>3. QED
    BY <1>6, <1>9, <2>2, Zenon
<1> DEFINE Body(f) == [n \in 0 .. N |-> IF n = 0 THEN [all |-> {Root}, new |-> {Root}]
                                        ELSE NextLevel(d, f[n - 1])]
<1>11. h = Body(h)
  <2>1. ASSUME NEW n \in 0 .. N PROVE h[n] = Body(h)[n]
    <3>1. CASE n = 0
      BY <1>2, <1>9, <3>1, Zenon
    <3>2. CASE n # 0
      <4>1. n \in 1 .. N
        BY <3>2
      <4>2. QED
        BY <1>10, <3>2, <4>1, Zenon
    <3>3. QED
      BY <3>1, <3>2
  <2>2. h = [n \in 0 .. N |-> h[n]]
    BY <1>9
  <2>3. QED
    BY <2>1, <2>2, Zenon
<1>12. PICK u : u = CHOOSE f : f = Body(f)
  OBVIOUS
<1>13. u = Body(u) /\ Reach(d) = u[N]
  BY <1>5, <1>11, <1>12, Zenon DEF Reach
<1>14. u[0] = a
  <2>1. 0 \in 0 .. N
    OBVIOUS
  <2>2. QED
    BY <1>2, <1>13, <2>1, Zenon
<1>15. ASSUME NEW n \in 1 .. N PROVE u[n] = NextLevel(d, u[n - 1])
  <2>1. n \in 0 .. N /\ n # 0
    OBVIOUS
  <2>2. QED
    BY <1>13, <2>1, Zenon
<1>16. ASSUME NEW n \in 0 .. N PROVE u[n] \in S
  <2> DEFINE B == {m \in 0 .. N : u[m] \in S}
  <2>1. 0 \in B
    BY <1>3, <1>14
  <2>2. ASSUME NEW m \in 1 .. N, m - 1 \in B PROVE m \in B
    <3>1. u[m - 1] \in S /\ m \in 0 .. N
      BY <2>2
    <3>2. u[m] \in S
      BY <1>4, <1>15, <3>1, Zenon
    <3>3. QED
      BY <3>1, <3>2
  <2>3. 0 .. N \subseteq B
    BY <2>1, <2>2, Upward
  <2>4. QED
    BY <2>3
<1>17. PICK w : w = [n \in 0 .. N |-> u[n].new]
  OBVIOUS
<1>18. w \in [0 .. N -> SUBSET Place]
  <2>1. ASSUME NEW n \in 0 .. N PROVE u[n].new \in SUBSET Place
    BY <1>1, <1>16
  <2>2. QED
    BY <1>17, <2>1, Zenon
<1>19. w[0] = {Root} /\ \A n \in 0 .. N : w[n] = u[n].new
  BY <1>3, <1>14, <1>17
<1>20. ASSUME NEW k \in 1 .. N
       PROVE  u[k].all = u[k - 1].all \cup w[k] /\ w[k] = Step(d, w[k - 1])
  <2>1. k - 1 \in 0 .. N /\ k \in 0 .. N
    OBVIOUS
  <2>2. u[k - 1] \in S
    BY <1>16, <2>1, Zenon
  <2>3. u[k].all = u[k - 1].all \cup Step(d, u[k - 1].new) /\ u[k].new = Step(d, u[k - 1].new)
    BY <1>4, <1>15, <2>2, Zenon
  <2>4. QED
    BY <1>19, <2>1, <2>3, Zenon
<1>21. ASSUME NEW k \in 0 .. N PROVE \A x : x \in u[k].all <=> \E j \in 0 .. k : x \in w[j]
  <2> DEFINE B == {m \in 0 .. N : \A x : x \in u[m].all <=> \E j \in 0 .. m : x \in w[j]}
  <2>1. 0 \in B
    <3>1. u[0].all = {Root} /\ w[0] = {Root}
      BY <1>3, <1>14, <1>19, Zenon
    <3>2. QED
      BY <3>1
  <2>2. ASSUME NEW m \in 1 .. N, m - 1 \in B PROVE m \in B
    <3>1. m \in 0 .. N /\ \A x : x \in u[m - 1].all <=> \E j \in 0 .. m - 1 : x \in w[j]
      BY <2>2
    <3>2. u[m].all = u[m - 1].all \cup w[m]
      BY <1>20, <2>2, Zenon
    <3>3. \A j : j \in 0 .. m <=> j \in 0 .. m - 1 \/ j = m
      BY <2>2
    <3>4. \A x : x \in u[m].all <=> \E j \in 0 .. m : x \in w[j]
      BY <3>1, <3>2, <3>3, Zenon
    <3>5. QED
      BY <3>1, <3>4, Zenon
  <2>3. 0 .. N \subseteq B
    BY <2>1, <2>2, Upward
  <2>4. QED
    BY <2>3
<1>22. (\A f : f \in Places(d) <=> \E k \in 0 .. N : f \in w[k]) /\ Reach(d).new = w[N]
  <2>1. N \in 0 .. N
    OBVIOUS
  <2>2. QED
    BY <1>13, <1>19, <1>21, <2>1, Zenon DEF Places
<1>23. QED
  BY <1>5, <1>18, <1>19, <1>20, <1>22, Zenon DEF Chain

\* A place is on some level, and what is on a level is a place.
LEMMA InChain ==
  ASSUME NEW d, NEW u, Chain(u, d)
  PROVE  /\ \A k \in 0 .. NBlocks : u[k] \subseteq Places(d)
         /\ \A f \in Places(d) : \E k \in 0 .. NBlocks : f \in u[k]
  BY Zenon DEF Chain

\* The root is a place, and the places are the least set closed under the
\* entries of directories.
LEMMA RootIs == ASSUME NEW d PROVE Root \in Places(d) /\ Places(d) \subseteq Place
<1>1. PICK u : Chain(u, d)
  BY ChainExists
<1>2. 0 \in 0 .. NBlocks
  BY Dims
<1>3. u[0] \subseteq Places(d) /\ u[0] = {Root}
  BY <1>1, <1>2, InChain, Zenon DEF Chain
<1>4. \A k \in 0 .. NBlocks : u[k] \subseteq Place
  BY <1>1, Zenon DEF Chain
<1>5. Places(d) \subseteq Place
  BY <1>1, <1>4, InChain, Zenon
<1>6. QED
  BY <1>3, <1>5

\* When the tree ends within the disk, the entries of a directory in it are in it.
LEMMA PlacesClosed ==
  ASSUME NEW d, Reach(d).new = {}, NEW f \in Places(d), NEW b \in DirBlocks(d, f), NEW k \in Slot
  PROVE  <<b, k>> \in Places(d)
<1>1. PICK u : Chain(u, d)
  BY ChainExists
<1>2. PICK j \in 0 .. NBlocks : f \in u[j]
  BY <1>1, InChain, Zenon
<1>3. u[NBlocks] = {}
  BY <1>1, Zenon DEF Chain
<1>4. j + 1 \in 1 .. NBlocks /\ j + 1 \in 0 .. NBlocks /\ (j + 1) - 1 = j
  BY <1>2, <1>3, Dims
<1>5. u[j + 1] = Step(d, u[j])
  BY <1>1, <1>4, Zenon DEF Chain
<1>6. <<b, k>> \in u[j + 1]
  BY <1>2, <1>5 DEF Step
<1>7. QED
  BY <1>1, <1>4, <1>6, InChain, Zenon

\* Nothing is in the tree but the root and the entries of its directories.
LEMMA PlacesLeast ==
  ASSUME NEW d, NEW S, Root \in S, \A f \in S \cap Places(d) : DirBlocks(d, f) \X Slot \subseteq S
  PROVE  Places(d) \subseteq S
<1>1. PICK u : Chain(u, d)
  BY ChainExists
<1> DEFINE B == {m \in 0 .. NBlocks : u[m] \subseteq S}
<1>2. 0 \in B
  BY <1>1, Dims DEF Chain
<1>3. ASSUME NEW m \in 1 .. NBlocks, m - 1 \in B PROVE m \in B
  <2>1. u[m - 1] \subseteq S /\ m \in 0 .. NBlocks /\ m - 1 \in 0 .. NBlocks
    BY <1>3
  <2>2. u[m] = Step(d, u[m - 1])
    BY <1>1, Zenon DEF Chain
  <2>3. u[m - 1] \subseteq Places(d)
    BY <1>1, <2>1, InChain, Zenon
  <2>4. u[m] \subseteq S
    BY <2>1, <2>2, <2>3 DEF Step
  <2>5. QED
    BY <2>1, <2>4
<1>4. 0 .. NBlocks \subseteq B
  BY <1>2, <1>3, Upward, Dims
<1>5. QED
  BY <1>1, <1>4, InChain

\* A file other than the root is an entry of a directory of the tree.
LEMMA Parent ==
  ASSUME NEW d, NEW f \in Places(d), f # Root
  PROVE  \E g \in Places(d) : f[1] \in DirBlocks(d, g) /\ f[2] \in Slot /\ f = <<f[1], f[2]>>
<1>1. PICK u : Chain(u, d)
  BY ChainExists
<1>2. PICK j \in 0 .. NBlocks : f \in u[j]
  BY <1>1, InChain, Zenon
<1>3. u[0] = {Root}
  BY <1>1, Zenon DEF Chain
<1>4. j \in 1 .. NBlocks /\ j - 1 \in 0 .. NBlocks
  BY <1>2, <1>3, Dims
<1>5. u[j] = Step(d, u[j - 1])
  BY <1>1, <1>4, Zenon DEF Chain
<1>6. PICK g \in u[j - 1] : f \in DirBlocks(d, g) \X Slot
  BY <1>2, <1>5 DEF Step
<1>7. g \in Places(d)
  BY <1>1, <1>4, InChain, Zenon
<1>8. QED
  BY <1>6, <1>7

\* With fewer entries there are fewer places, and none at a greater depth.
LEMMA PlacesShrink ==
  ASSUME NEW d, NEW v, Reach(v).new = {}, \A f \in Places(v) : DirBlocks(d, f) \subseteq DirBlocks(v, f)
  PROVE  Places(d) \subseteq Places(v) /\ Reach(d).new = {}
<1>1. PICK u : Chain(u, d)
  BY ChainExists
<1>2. PICK w : Chain(w, v)
  BY ChainExists
<1> DEFINE B == {m \in 0 .. NBlocks : u[m] \subseteq w[m]}
<1>3. 0 \in B
  BY <1>1, <1>2, Dims DEF Chain
<1>4. ASSUME NEW m \in 1 .. NBlocks, m - 1 \in B PROVE m \in B
  <2>1. u[m - 1] \subseteq w[m - 1] /\ m \in 0 .. NBlocks /\ m - 1 \in 0 .. NBlocks
    BY <1>4
  <2>2. u[m] = Step(d, u[m - 1]) /\ w[m] = Step(v, w[m - 1])
    BY <1>1, <1>2, Zenon DEF Chain
  <2>3. w[m - 1] \subseteq Places(v)
    BY <1>2, <2>1, InChain, Zenon
  <2>4. u[m] \subseteq w[m]
    BY <2>1, <2>2, <2>3 DEF Step
  <2>5. QED
    BY <2>1, <2>4
<1>5. 0 .. NBlocks \subseteq B
  BY <1>3, <1>4, Upward, Dims
<1>6. Places(d) \subseteq Places(v)
  <2>1. ASSUME NEW f \in Places(d) PROVE f \in Places(v)
    <3>1. PICK k \in 0 .. NBlocks : f \in u[k]
      BY <1>1, InChain, Zenon
    <3>2. u[k] \subseteq w[k]
      BY <1>5
    <3>3. QED
      BY <1>2, <3>1, <3>2, InChain
  <2>2. QED
    BY <2>1
<1>7. Reach(d).new = {}
  <2>1. NBlocks \in 0 .. NBlocks
    BY Dims
  <2>2. u[NBlocks] \subseteq w[NBlocks]
    BY <1>5, <2>1
  <2>3. QED
    BY <1>1, <1>2, <2>2 DEF Chain
<1>8. QED
  BY <1>6, <1>7

\* Blocks with the same directories have the same files.
LEMMA PlacesSame ==
  ASSUME NEW d, NEW v, Reach(v).new = {}, \A f \in Places(v) : DirBlocks(d, f) = DirBlocks(v, f)
  PROVE  Places(d) = Places(v) /\ Reach(d).new = {}
<1>1. Places(d) \subseteq Places(v) /\ Reach(d).new = {}
  BY PlacesShrink, Zenon
<1>2. PICK P : P = Places(d)
  OBVIOUS
<1>3. ASSUME NEW f \in P, NEW b \in DirBlocks(v, f), NEW k \in Slot PROVE <<b, k>> \in P
  <2>1. b \in DirBlocks(d, f)
    BY <1>1, <1>2, <1>3
  <2>2. QED
    BY <1>1, <1>2, <2>1, PlacesClosed, Zenon
<1>4. \A f \in P \cap Places(v) : DirBlocks(v, f) \X Slot \subseteq P
  BY <1>3
<1>5. Places(v) \subseteq P
  BY <1>2, <1>4, RootIs, PlacesLeast
<1>6. QED
  BY <1>1, <1>2, <1>5

-----------------------------------------------------------------------------
(* Files, their pointers and the blocks they depend on.                    *)

Readable(d) == d \in [Block -> Cached] /\ d[1].t = "super"
Pointers == -1 .. NINDIRECT - 1

\* A disk image can be read as a cache can.
LEMMA ImageReadable == ASSUME NEW d, Image(d) PROVE Readable(d)
  BY DEF Image, Readable, Cached

\* What is at a place is a struct File.
LEMMA FileInIs ==
  ASSUME NEW d, Readable(d), NEW f \in Place
  PROVE  FileIn(d, f) \in FileType
<1>1. f[1] \in Block /\ f[2] \in Slot /\ 1 \in Block
  BY Numbers DEF Place
<1>2. d[f[1]] \in Cached /\ d[1] \in Cached /\ d[1].t = "super"
  BY <1>1 DEF Readable
<1>3. AsDir(d[f[1]]) \in [Slot -> FileType] /\ d[1].root \in FileType
  BY <1>2, AsDirIs, SuperIs
<1>4. QED
  BY <1>1, <1>3 DEF FileIn

\* A file is in one block.
LEMMA FileFrame ==
  ASSUME NEW d, NEW v, NEW g \in Place, d[g[1]] = v[g[1]]
  PROVE  FileIn(d, g) = FileIn(v, g)
  BY Numbers DEF FileIn

\* A store of one leaves the others alone.
LEMMA PutFrame ==
  ASSUME NEW d, Readable(d), NEW f \in Place, f[1] = 1 => f = Root, NEW file \in FileType,
         NEW w, w = PutFile(d, f, file)
  PROVE  /\ Readable(w) /\ w[f[1]] \in Content
         /\ \A b \in Block : b # f[1] => w[b] = d[b]
         /\ FileIn(w, f) = file
         /\ \A g \in Place : g # f /\ (g[1] = 1 => g = Root) => FileIn(w, g) = FileIn(d, g)
<1>1. f[1] \in Block /\ f[2] \in Slot /\ 1 \in Block
  BY Numbers DEF Place
<1>2. d[f[1]] \in Cached /\ d[1] \in Cached /\ d[1].t = "super" /\ d \in [Block -> Cached]
  BY <1>1 DEF Readable
<1>3. CASE f = Root
  <2>1. d[1] = [t |-> "super", root |-> d[1].root]
    BY <1>2, SuperIs
  <2>2. PICK c : c = [t |-> "super", root |-> file]
    OBVIOUS
  <2>3. [d[1] EXCEPT !.root = file] = c
    BY <2>1, <2>2
  <2>4. w = [d EXCEPT ![1] = c]
    BY <1>3, <2>3, Zenon DEF PutFile
  <2>5. c \in Content /\ c.t = "super" /\ c.root = file
    BY <2>2 DEF Content
  <2>6. Root[1] = 1
    BY Numbers
  <2>7. w \in [Block -> Cached] /\ w[1] = c /\ \A b \in Block : b # 1 => w[b] = d[b]
    BY <1>1, <1>2, <2>4, <2>5 DEF Cached
  <2>8. Readable(w) /\ FileIn(w, f) = file
    BY <1>3, <2>5, <2>7 DEF Readable, FileIn
  <2>9. ASSUME NEW g \in Place, g # f, g[1] = 1 => g = Root PROVE FileIn(w, g) = FileIn(d, g)
    <3>1. g[1] \in Block /\ g[1] # 1
      BY <1>3, <2>9 DEF Place
    <3>2. QED
      BY <2>7, <3>1, FileFrame
  <2>10. QED
    BY <1>3, <2>5, <2>6, <2>7, <2>8, <2>9
<1>4. CASE f # Root
  <2>1. PICK e : e = AsDir(d[f[1]])
    OBVIOUS
  <2>2. e \in [Slot -> FileType]
    BY <1>2, <2>1, AsDirIs
  <2>3. PICK x : x = [e EXCEPT ![f[2]] = file]
    OBVIOUS
  <2>4. x \in [Slot -> FileType] /\ x[f[2]] = file /\ \A k \in Slot : k # f[2] => x[k] = e[k]
    BY <1>1, <2>2, <2>3
  <2>5. PICK c : c = [t |-> "dir", e |-> x]
    OBVIOUS
  <2>6. c \in Content /\ c.t = "dir" /\ AsDir(c) = x
    BY <2>4, <2>5 DEF Content, AsDir
  <2>7. w = [d EXCEPT ![f[1]] = c]
    BY <1>4, <2>1, <2>3, <2>5, Zenon DEF PutFile
  <2>8. w \in [Block -> Cached] /\ w[f[1]] = c /\ \A b \in Block : b # f[1] => w[b] = d[b]
    BY <1>1, <1>2, <2>6, <2>7 DEF Cached
  <2>9. Readable(w) /\ FileIn(w, f) = file
    BY <1>1, <1>2, <1>4, <2>4, <2>6, <2>8 DEF Readable, FileIn
  <2>10. ASSUME NEW g \in Place, g # f, g[1] = 1 => g = Root PROVE FileIn(w, g) = FileIn(d, g)
    <3>1. g[1] \in Block /\ g[2] \in Slot /\ g = <<g[1], g[2]>> /\ f = <<f[1], f[2]>>
      BY DEF Place
    <3>2. CASE g[1] # f[1]
      BY <2>8, <3>1, <3>2, FileFrame
    <3>3. CASE g[1] = f[1]
      <4>1. g[2] # f[2]
        BY <2>10, <3>1, <3>3, Zenon
      <4>2. g # Root
        <5>1. Root[1] = 1
          BY Numbers
        <5>2. QED
          BY <1>4, <3>3, <5>1
      <4>3. FileIn(w, g) = x[g[2]] /\ FileIn(d, g) = e[g[2]]
        BY <2>1, <2>6, <2>8, <3>3, <4>2, Zenon DEF FileIn
      <4>4. QED
        BY <2>4, <3>1, <4>1, <4>3, Zenon
    <3>4. QED
      BY <3>2, <3>3
  <2>11. QED
    BY <2>6, <2>8, <2>9, <2>10, Zenon
<1>5. QED
  BY <1>3, <1>4, Zenon

\* What UseOf is, by the kind of pointer.
LEMMA UseOfIs ==
  ASSUME NEW d, NEW f
  PROVE  /\ UseOf(d, f, -1) = FileIn(d, f).f_indirect
         /\ \A n \in 0 .. NDIRECT - 1 : UseOf(d, f, n) = FileIn(d, f).f_direct[n]
         /\ \A n \in NDIRECT .. NINDIRECT - 1 :
              /\ FileIn(d, f).f_indirect = 0 => UseOf(d, f, n) = 0
              /\ FileIn(d, f).f_indirect # 0 => UseOf(d, f, n) = AsIndex(d[FileIn(d, f).f_indirect])[n]
         /\ \A n \in 0 .. NINDIRECT - 1 : UseOf(d, f, n) = Ptr(d, f, n)
<1>1. \A n \in 0 .. NINDIRECT - 1 : UseOf(d, f, n) = Ptr(d, f, n)
  BY Dims DEF UseOf
<1>2. \A n \in 0 .. NDIRECT - 1 : Ptr(d, f, n) = FileIn(d, f).f_direct[n] /\ n \in 0 .. NINDIRECT - 1
  BY Dims DEF Ptr
<1>3. \A n \in NDIRECT .. NINDIRECT - 1 :
        /\ n \in 0 .. NINDIRECT - 1
        /\ FileIn(d, f).f_indirect = 0 => Ptr(d, f, n) = 0
        /\ FileIn(d, f).f_indirect # 0 => Ptr(d, f, n) = AsIndex(d[FileIn(d, f).f_indirect])[n]
  BY Dims DEF Ptr
<1>4. UseOf(d, f, -1) = FileIn(d, f).f_indirect
  BY DEF UseOf
<1>5. QED
  BY <1>1, <1>2, <1>3, <1>4, Zenon

\* A pointer is that to the indirect block, a direct one or one in the indirect block.
LEMMA PointersAre ==
  \A n \in Pointers : n = -1 \/ n \in 0 .. NDIRECT - 1 \/ n \in NDIRECT .. NINDIRECT - 1
  BY Dims DEF Pointers

\* The pointers of a file are in its struct and its indirect block, nowhere else.
LEMMA UseFrame ==
  ASSUME NEW d, NEW v, NEW f, FileIn(d, f) = FileIn(v, f),
         FileIn(v, f).f_indirect # 0 => AsIndex(d[FileIn(v, f).f_indirect]) = AsIndex(v[FileIn(v, f).f_indirect])
  PROVE  /\ \A n \in Pointers : UseOf(d, f, n) = UseOf(v, f, n)
         /\ DirBlocks(d, f) = DirBlocks(v, f)
<1>1. ASSUME NEW n \in Pointers PROVE UseOf(d, f, n) = UseOf(v, f, n)
  <2>1. CASE n = -1
    BY <2>1, UseOfIs
  <2>2. CASE n \in 0 .. NDIRECT - 1
    BY <2>2, UseOfIs
  <2>3. CASE n \in NDIRECT .. NINDIRECT - 1
    <3>1. PICK x : x = FileIn(v, f).f_indirect
      OBVIOUS
    <3>2. x = FileIn(d, f).f_indirect /\ (x # 0 => AsIndex(d[x]) = AsIndex(v[x]))
      BY <3>1
    <3>3. CASE x = 0
      <4>1. UseOf(d, f, n) = 0
        BY <2>3, <3>2, <3>3, UseOfIs, Zenon
      <4>2. UseOf(v, f, n) = 0
        BY <2>3, <3>1, <3>3, UseOfIs, Zenon
      <4>3. QED
        BY <4>1, <4>2
    <3>4. CASE x # 0
      <4>1. UseOf(d, f, n) = AsIndex(d[x])[n]
        BY <2>3, <3>2, <3>4, UseOfIs, Zenon
      <4>2. UseOf(v, f, n) = AsIndex(v[x])[n]
        BY <2>3, <3>1, <3>4, UseOfIs, Zenon
      <4>3. QED
        BY <3>2, <3>4, <4>1, <4>2, Zenon
    <3>5. QED
      BY <3>3, <3>4
  <2>4. QED
    BY <2>1, <2>2, <2>3, PointersAre
<1>2. \A n \in 0 .. NINDIRECT - 1 : Ptr(d, f, n) = Ptr(v, f, n) /\ n \in Pointers
  <2>1. \A n \in 0 .. NINDIRECT - 1 : n \in Pointers
    BY Dims DEF Pointers
  <2>2. ASSUME NEW n \in 0 .. NINDIRECT - 1 PROVE Ptr(d, f, n) = Ptr(v, f, n)
    <3>1. UseOf(d, f, n) = UseOf(v, f, n)
      BY <1>1, <2>1, Zenon
    <3>2. UseOf(d, f, n) = Ptr(d, f, n)
      BY UseOfIs
    <3>3. UseOf(v, f, n) = Ptr(v, f, n)
      BY UseOfIs
    <3>4. QED
      BY <3>1, <3>2, <3>3, Zenon
  <2>3. QED
    BY <2>1, <2>2, Zenon
<1>3. DirBlocks(d, f) = DirBlocks(v, f)
  BY <1>2 DEF DirBlocks, Blocks, FileBlocks
<1>4. QED
  BY <1>1, <1>3

-----------------------------------------------------------------------------
(* No block has two uses.                                                  *)

Owned(d, N) ==
  \A f \in Places(d), n \in -1 .. N - 1 : UseOf(d, f, n) # 0 =>
     /\ UseOf(d, f, n) \in Block /\ UseOf(d, f, n) \notin d[2].free /\ UseOf(d, f, n) >= 3
     /\ \A g \in Places(d), m \in -1 .. N - 1 : UseOf(d, g, m) = UseOf(d, f, n) => g = f /\ m = n

\* No block has two uses: as a set of uses (Sound), and pointer by pointer (Owned).
LEMMA SoundIs ==
  ASSUME NEW d
  PROVE  /\ Sound(d, TRUE) <=> Owned(d, NINDIRECT)
         /\ Sound(d, FALSE) <=> Owned(d, NDIRECT)
<1>1. ASSUME NEW deep \in BOOLEAN, NEW N, N = IF deep THEN NINDIRECT ELSE NDIRECT
      PROVE  Sound(d, deep) <=> Owned(d, N)
  <2>1. PICK P : P = Places(d)
    OBVIOUS
  <2>2. PICK M : M = -1 .. N - 1
    OBVIOUS
  <2>3. PICK U : U = Uses(d, deep)
    OBVIOUS
  <2>4. U = {u \in {[f |-> f, n |-> n, b |-> UseOf(d, f, n)] : f \in P, n \in M} : u.b # 0}
    BY <1>1, <2>1, <2>2, <2>3 DEF Uses
  <2>5. Sound(d, deep) <=> \A u \in U : /\ u.b \in Block \ d[2].free /\ u.b >= 3
                                        /\ \A w \in U : u.b = w.b => u = w
    BY <2>3, Zenon DEF Sound, With
  <2>6. ASSUME NEW f \in P, NEW n \in M, UseOf(d, f, n) # 0
        PROVE  \E u \in U : u.f = f /\ u.n = n /\ u.b = UseOf(d, f, n)
    <3>1. PICK u : u = [f |-> f, n |-> n, b |-> UseOf(d, f, n)]
      OBVIOUS
    <3>2. u.f = f /\ u.n = n /\ u.b = UseOf(d, f, n)
      BY <3>1
    <3>3. u \in U
      BY <2>4, <2>6, <3>1, <3>2
    <3>4. QED
      BY <3>2, <3>3
  <2>7. ASSUME NEW u \in U
        PROVE  /\ u.f \in P /\ u.n \in M /\ u.b = UseOf(d, u.f, u.n) /\ u.b # 0
               /\ u = [f |-> u.f, n |-> u.n, b |-> u.b]
    <3>1. PICK f \in P, n \in M : u = [f |-> f, n |-> n, b |-> UseOf(d, f, n)]
      BY <2>4
    <3>2. u.f = f /\ u.n = n /\ u.b = UseOf(d, f, n) /\ u = [f |-> u.f, n |-> u.n, b |-> u.b]
      BY <3>1
    <3>3. u.b # 0
      BY <2>4
    <3>4. QED
      BY <3>2, <3>3, Zenon
  <2> DEFINE Own == \A f \in P, n \in M : UseOf(d, f, n) # 0 =>
                      /\ UseOf(d, f, n) \in Block /\ UseOf(d, f, n) \notin d[2].free /\ UseOf(d, f, n) >= 3
                      /\ \A g \in P, m \in M : UseOf(d, g, m) = UseOf(d, f, n) => g = f /\ m = n
  <2>8. Owned(d, N) <=> Own
    BY <2>1, <2>2 DEF Owned
  <2>9. ASSUME Sound(d, deep), NEW f \in P, NEW n \in M, UseOf(d, f, n) # 0
        PROVE  /\ UseOf(d, f, n) \in Block /\ UseOf(d, f, n) \notin d[2].free /\ UseOf(d, f, n) >= 3
               /\ \A g \in P, m \in M : UseOf(d, g, m) = UseOf(d, f, n) => g = f /\ m = n
    <3>1. PICK u \in U : u.f = f /\ u.n = n /\ u.b = UseOf(d, f, n)
      BY <2>6, <2>9, Zenon
    <3>2. u.b \in Block \ d[2].free /\ u.b >= 3 /\ \A w \in U : u.b = w.b => u = w
      BY <2>5, <2>9, Zenon
    <3>3. ASSUME NEW g \in P, NEW m \in M, UseOf(d, g, m) = UseOf(d, f, n) PROVE g = f /\ m = n
      <4>1. PICK w \in U : w.f = g /\ w.n = m /\ w.b = UseOf(d, g, m)
        BY <2>6, <2>9, <3>3, Zenon
      <4>2. u = w
        BY <3>1, <3>2, <3>3, <4>1, Zenon
      <4>3. QED
        BY <3>1, <4>1, <4>2, Zenon
    <3>4. QED
      BY <3>1, <3>2, <3>3
  <2>10. ASSUME Owned(d, N), NEW u \in U
        PROVE  /\ u.b \in Block \ d[2].free /\ u.b >= 3 /\ \A w \in U : u.b = w.b => u = w
    <3>1. u.f \in P /\ u.n \in M /\ u.b = UseOf(d, u.f, u.n) /\ u.b # 0
      BY <2>7, Zenon
    <3>2. /\ u.b \in Block /\ u.b \notin d[2].free /\ u.b >= 3
          /\ \A g \in P, m \in M : UseOf(d, g, m) = u.b => g = u.f /\ m = u.n
      BY <2>10, <2>8, <3>1, ZenonT(40)
    <3>3. ASSUME NEW w \in U, u.b = w.b PROVE u = w
      <4>1. w.f \in P /\ w.n \in M /\ w.b = UseOf(d, w.f, w.n)
        BY <2>7, Zenon
      <4>2. w.f = u.f /\ w.n = u.n
        BY <3>2, <3>3, <4>1, Zenon
      <4>3. u = [f |-> u.f, n |-> u.n, b |-> u.b] /\ w = [f |-> w.f, n |-> w.n, b |-> w.b]
        BY <2>7, Zenon
      <4>4. QED
        BY <3>3, <4>2, <4>3, Zenon
    <3>4. QED
      BY <3>2, <3>3
  <2>11. QED
    <3>1. Sound(d, deep) => Own
      BY <2>9, Zenon
    <3>2. Owned(d, N) => Sound(d, deep)
      BY <2>5, <2>10, Zenon
    <3>3. QED
      BY <2>8, <3>1, <3>2, Zenon
<1>2. QED
  BY <1>1, Zenon

Full(d) ==
  \A f \in Places(d) : FileIn(d, f).f_type = "dir" =>
     \A n \in Blocks(FileIn(d, f).f_size) : Ptr(d, f, n) # 0

\* The conjuncts of WellFormed that the proofs use.
LEMMA WellFormedIs ==
  ASSUME NEW d
  PROVE  WellFormed(d) <=> Image(d) /\ Reach(d).new = {} /\ Full(d) /\ Owned(d, NINDIRECT)
  BY SoundIs, Zenon DEF WellFormed, Full

\* A block that a file points to is allocated, and nothing else points to it.
LEMMA OwnedIs ==
  ASSUME NEW v, WellFormed(v), NEW f \in Places(v), NEW n \in Pointers, UseOf(v, f, n) # 0
  PROVE  /\ UseOf(v, f, n) \in Block /\ UseOf(v, f, n) \notin v[2].free /\ UseOf(v, f, n) >= 3
         /\ \A g \in Places(v), m \in Pointers : UseOf(v, g, m) = UseOf(v, f, n) => g = f /\ m = n
<1>1. Owned(v, NINDIRECT)
  BY WellFormedIs
<1>2. QED
  BY <1>1, Zenon DEF Owned, Pointers

\* Block b is used as pointer n of file f, and not otherwise.
Sole(v, f, n, b) ==
  /\ b \in Block /\ b \notin v[2].free /\ b >= 3
  /\ \A g \in Places(v), m \in Pointers : UseOf(v, g, m) = b => g = f /\ m = n

\* The same, for a block that has a name.
LEMMA OwnedBy ==
  ASSUME NEW v, WellFormed(v), NEW f \in Places(v), NEW n \in Pointers, NEW b, UseOf(v, f, n) = b, b # 0
  PROVE  Sole(v, f, n, b)
  BY OwnedIs DEF Sole

\* The block of a file is a directory's, and has no other role.
Role(v, f) ==
  /\ f \in Place /\ f[1] \in Block \ {0, 2} /\ f[1] \notin v[2].free /\ f[2] \in Slot
  /\ f[1] = 1 => f = Root
  /\ f # Root => f[1] >= 3
  /\ \A g \in Places(v) : FileIn(v, g).f_indirect # f[1]

\* The blocks of a directory are behind its first pointers.
LEMMA DirBlockIs ==
  ASSUME NEW v, WellFormed(v), NEW g \in Places(v), NEW b \in DirBlocks(v, g)
  PROVE  /\ FileIn(v, g).f_type = "dir" /\ b \in Block /\ b >= 3 /\ b \notin v[2].free
         /\ \E n \in Blocks(FileIn(v, g).f_size) : n \in Pointers /\ n \in 0 .. NINDIRECT - 1 /\ UseOf(v, g, n) = b
<1>1. FileIn(v, g).f_type = "dir" /\ b # 0
  BY DEF DirBlocks
<1>2. PICK n \in Blocks(FileIn(v, g).f_size) : Ptr(v, g, n) = b
  BY DEF DirBlocks
<1>3. n \in 0 .. NINDIRECT - 1 /\ n \in Pointers
  BY Dims DEF Blocks, FileBlocks, Pointers
<1>4. UseOf(v, g, n) = b
  BY <1>2, <1>3, UseOfIs, Zenon
<1>5. b \in Block /\ b >= 3 /\ b \notin v[2].free
  BY <1>1, <1>3, <1>4, OwnedIs, Zenon
<1>6. QED
  BY <1>1, <1>3, <1>4, <1>5

\* The block of a struct File has that role only, in well formed blocks.
LEMMA RoleIs ==
  ASSUME NEW v, WellFormed(v), NEW f \in Places(v)
  PROVE  Role(v, f)
<1>1. Image(v) /\ f \in Place
  BY WellFormedIs, RootIs
<1>2. -1 \in Pointers /\ \A n \in 0 .. NINDIRECT - 1 : n \in Pointers /\ n # -1
  BY Dims DEF Pointers
<1>3. CASE f = Root
  <2>1. f[1] = 1 /\ f[2] \in Slot /\ 1 \in Block
    BY <1>3, Numbers, Dims DEF Root
  <2>2. 1 \notin v[2].free
    BY <1>1 DEF Image
  <2>3. ASSUME NEW g \in Places(v) PROVE FileIn(v, g).f_indirect # 1
    <3>1. UseOf(v, g, -1) = FileIn(v, g).f_indirect
      BY UseOfIs
    <3>2. UseOf(v, g, -1) # 0 => UseOf(v, g, -1) >= 3
      BY <1>2, OwnedIs, Zenon
    <3>3. QED
      BY <3>1, <3>2
  <2>4. QED
    BY <1>1, <1>3, <2>1, <2>2, <2>3 DEF Role
<1>4. CASE f # Root
  <2>1. PICK g \in Places(v) : f[1] \in DirBlocks(v, g) /\ f[2] \in Slot
    BY <1>4, Parent
  <2>2. f[1] \in Block /\ f[1] >= 3 /\ f[1] \notin v[2].free
    BY <2>1, DirBlockIs, Zenon
  <2>3. PICK n \in 0 .. NINDIRECT - 1 : UseOf(v, g, n) = f[1]
    <3>1. PICK b : b = f[1]
      OBVIOUS
    <3>2. b \in DirBlocks(v, g)
      BY <2>1, <3>1
    <3>3. PICK n \in Blocks(FileIn(v, g).f_size) : n \in Pointers /\ n \in 0 .. NINDIRECT - 1 /\ UseOf(v, g, n) = b
      BY <3>2, DirBlockIs, Zenon
    <3>4. QED
      BY <3>1, <3>3, Zenon
  <2>4. ASSUME NEW h \in Places(v), FileIn(v, h).f_indirect = f[1] PROVE FALSE
    <3>1. UseOf(v, h, -1) = f[1]
      BY <2>4, UseOfIs
    <3>2. f[1] # 0
      BY <2>2
    <3>3. UseOf(v, h, -1) # 0 /\ UseOf(v, g, n) = UseOf(v, h, -1) /\ n \in Pointers
      BY <1>2, <2>3, <3>1, <3>2, Zenon
    <3>4. n = -1
      BY <1>2, <3>3, OwnedIs, ZenonT(40)
    <3>5. QED
      BY <1>2, <3>4
  <2>5. QED
    BY <1>1, <1>4, <2>1, <2>2, <2>4 DEF Role
<1>5. QED
  BY <1>3, <1>4

-----------------------------------------------------------------------------
(* A disk that lags behind what the server sees.                           *)

\* File a of the disk may lack pointers that file b of the view has; a
\* directory is the same or empty.
FileLower(a, b) ==
  /\ a.f_type = b.f_type
  /\ \A n \in 0 .. NDIRECT - 1 : a.f_direct[n] \in {0, b.f_direct[n]}
  /\ a.f_indirect \in {0, b.f_indirect}
  /\ b.f_type = "dir" =>
       \/ a.f_size = 0
       \/ /\ a.f_size = b.f_size
          /\ \A n \in Blocks(b.f_size) : /\ n < NDIRECT => a.f_direct[n] = b.f_direct[n]
                                         /\ n >= NDIRECT => a.f_indirect = b.f_indirect

\* The indirect blocks of directories never change within the size.
DirIndexed(d, v) ==
  \A f \in Places(v) : FileIn(v, f).f_type = "dir" =>
     \A n \in Blocks(FileIn(v, f).f_size) : n >= NDIRECT =>
        AsIndex(d[FileIn(v, f).f_indirect])[n] = AsIndex(v[FileIn(v, f).f_indirect])[n]

\* Disk d lags behind the blocks v; if c, its indirect blocks do not.
Lower(d, v, c) ==
  /\ Image(d) /\ d[2].free \subseteq v[2].free
  /\ \A f \in Places(v) : FileLower(FileIn(d, f), FileIn(v, f))
  /\ DirIndexed(d, v)
  /\ c => Indexed(d, v)

\* The blocks of a file of a given size are numbered from 0.
LEMMA BlocksAre ==
  ASSUME NEW size \in Nat
  PROVE  /\ Blocks(0) = {} /\ Blocks(size) \subseteq 0 .. NINDIRECT - 1
         /\ \A n \in Blocks(size) : n \in Pointers /\ n \in Nat /\ n # -1
<1>1. ASSUME NEW n \in Nat PROVE ~(n * BY2BLK < 0)
  BY Dims
<1>2. Blocks(0) = {}
  BY <1>1, Dims DEF Blocks, FileBlocks
<1>3. QED
  BY <1>2, Dims DEF Blocks, FileBlocks, Pointers

\* A disk on which the struct File is up to date.
LEMMA FileLowerRefl == ASSUME NEW a PROVE FileLower(a, a)
  BY DEF FileLower

\* An indirect block that is saved.
LEMMA IndexedIs ==
  ASSUME NEW d, NEW v, Indexed(d, v), NEW f \in Places(v), FileIn(v, f).f_indirect # 0
  PROVE  AsIndex(d[FileIn(v, f).f_indirect]) = AsIndex(v[FileIn(v, f).f_indirect])
  BY Zenon DEF Indexed, With

\* A pointer of a disk that lags behind v is that of v, or 0.
LEMMA LowerUse ==
  ASSUME NEW d, NEW v, WellFormed(v), NEW c \in BOOLEAN, Lower(d, v, c), NEW f \in Places(v),
         NEW n \in Pointers, n < NDIRECT \/ c
  PROVE  UseOf(d, f, n) \in {0, UseOf(v, f, n)}
<1>1. PICK a : a = FileIn(d, f)
  OBVIOUS
<1>2. PICK b : b = FileIn(v, f)
  OBVIOUS
<1>3. FileLower(a, b)
  BY <1>1, <1>2, Zenon DEF Lower
<1>4. CASE n = -1
  BY <1>1, <1>2, <1>3, <1>4, UseOfIs DEF FileLower
<1>5. CASE n \in 0 .. NDIRECT - 1
  BY <1>1, <1>2, <1>3, <1>5, UseOfIs DEF FileLower
<1>6. CASE n \in NDIRECT .. NINDIRECT - 1
  <2>1. c
    BY <1>6, Dims
  <2>2. CASE a.f_indirect = 0
    BY <1>1, <1>6, <2>2, UseOfIs
  <2>3. CASE a.f_indirect # 0
    <3>1. a.f_indirect = b.f_indirect
      BY <1>3, <2>3 DEF FileLower
    <3>2. PICK x : x = b.f_indirect
      OBVIOUS
    <3>3. AsIndex(d[x]) = AsIndex(v[x])
      BY <1>2, <2>1, <2>3, <3>1, <3>2, IndexedIs, Zenon DEF Lower
    <3>4. UseOf(d, f, n) = AsIndex(d[x])[n]
      BY <1>1, <1>6, <2>3, <3>1, <3>2, UseOfIs, Zenon
    <3>5. UseOf(v, f, n) = AsIndex(v[x])[n]
      BY <1>2, <1>6, <2>3, <3>1, <3>2, UseOfIs, Zenon
    <3>6. QED
      BY <3>3, <3>4, <3>5
  <2>4. QED
    BY <2>2, <2>3
<1>7. QED
  BY <1>4, <1>5, <1>6, PointersAre

\* The blocks of a directory on such a disk are those it has in v.
LEMMA LowerDir ==
  ASSUME NEW d, NEW v, WellFormed(v), NEW c, Lower(d, v, c), NEW f \in Places(v),
         FileIn(d, f).f_type = "dir", NEW n \in Blocks(FileIn(d, f).f_size)
  PROVE  /\ FileIn(v, f).f_type = "dir" /\ n \in Blocks(FileIn(v, f).f_size)
         /\ Ptr(d, f, n) = Ptr(v, f, n) /\ Ptr(v, f, n) # 0
<1>1. PICK a : a = FileIn(d, f)
  OBVIOUS
<1>2. PICK b : b = FileIn(v, f)
  OBVIOUS
<1>3. FileLower(a, b) /\ Image(d) /\ Image(v)
  BY <1>1, <1>2, WellFormedIs, Zenon DEF Lower
<1>4. b.f_type = "dir"
  BY <1>1, <1>3 DEF FileLower
<1>5. a.f_size # 0
  BY <1>1, BlocksAre
<1>6. /\ a.f_size = b.f_size
      /\ n < NDIRECT => a.f_direct[n] = b.f_direct[n]
      /\ n >= NDIRECT => a.f_indirect = b.f_indirect
  BY <1>1, <1>3, <1>4, <1>5 DEF FileLower
<1>7. n \in 0 .. NINDIRECT - 1
  BY DEF Blocks, FileBlocks
<1>8. FileIn(d, f).f_size = FileIn(v, f).f_size
  BY <1>1, <1>2, <1>6
<1>9. n \in Blocks(FileIn(v, f).f_size) /\ FileIn(v, f).f_type = "dir"
  BY <1>2, <1>4, <1>8, Zenon
<1>10. Ptr(v, f, n) # 0
  BY <1>9, WellFormedIs, Zenon DEF Full
<1>11. Ptr(d, f, n) = Ptr(v, f, n)
  <2>1. CASE n < NDIRECT
    <3>1. Ptr(d, f, n) = a.f_direct[n] /\ Ptr(v, f, n) = b.f_direct[n]
      BY <1>1, <1>2, <2>1, Zenon DEF Ptr
    <3>2. QED
      BY <1>6, <2>1, <3>1
  <2>2. CASE ~(n < NDIRECT)
    <3>1. n >= NDIRECT
      BY <1>7, <2>2, Dims
    <3>2. PICK x : x = b.f_indirect
      OBVIOUS
    <3>3. a.f_indirect = x
      BY <1>6, <3>1, <3>2
    <3>4. x # 0
      BY <1>2, <1>10, <2>2, <3>2, Zenon DEF Ptr
    <3>5. AsIndex(d[x])[n] = AsIndex(v[x])[n]
      <4>1. DirIndexed(d, v)
        BY DEF Lower
      <4>2. QED
        BY <1>2, <1>9, <3>1, <3>2, <4>1, Zenon DEF DirIndexed
    <3>6. Ptr(d, f, n) = AsIndex(d[x])[n] /\ Ptr(v, f, n) = AsIndex(v[x])[n]
      BY <1>1, <1>2, <2>2, <3>2, <3>3, <3>4, Zenon DEF Ptr
    <3>7. QED
      BY <3>5, <3>6
  <2>3. QED
    BY <2>1, <2>2
<1>12. QED
  BY <1>10, <1>11, <1>9

\* Such a disk is sound, and as good an image if its indirect blocks are saved.
LEMMA LowerSound ==
  ASSUME NEW d, NEW v, WellFormed(v), NEW c \in BOOLEAN, Lower(d, v, c)
  PROVE  /\ Places(d) \subseteq Places(v)
         /\ Sound(d, FALSE)
         /\ c => WellFormed(d)
<1>1. ASSUME NEW f \in Places(v) PROVE DirBlocks(d, f) \subseteq DirBlocks(v, f)
  <2>1. ASSUME NEW b \in DirBlocks(d, f) PROVE b \in DirBlocks(v, f)
    <3>1. FileIn(d, f).f_type = "dir" /\ b \in Block \ {0}
      BY DEF DirBlocks
    <3>2. PICK n \in Blocks(FileIn(d, f).f_size) : Ptr(d, f, n) = b
      BY DEF DirBlocks
    <3>3. /\ FileIn(v, f).f_type = "dir" /\ n \in Blocks(FileIn(v, f).f_size)
          /\ Ptr(d, f, n) = Ptr(v, f, n)
      BY <3>1, LowerDir
    <3>4. QED
      BY <3>1, <3>2, <3>3, Zenon DEF DirBlocks
  <2>2. QED
    BY <2>1
<1>2. Reach(v).new = {}
  BY WellFormedIs
<1>3. Places(d) \subseteq Places(v) /\ Reach(d).new = {}
  BY <1>1, <1>2, PlacesShrink
<1>4. Full(d)
  BY <1>3, LowerDir DEF Full
<1>5. ASSUME NEW N \in {NDIRECT, NINDIRECT}, N = NDIRECT \/ c PROVE Owned(d, N)
  <2>1. ASSUME NEW n \in -1 .. N - 1 PROVE n \in Pointers /\ (n < NDIRECT \/ c)
    BY <1>5, Dims DEF Pointers
  <2>2. ASSUME NEW f \in Places(d), NEW n \in -1 .. N - 1 PROVE UseOf(d, f, n) \in {0, UseOf(v, f, n)}
    <3>1. f \in Places(v)
      BY <1>3
    <3>2. QED
      BY <2>1, <3>1, LowerUse
  <2>3. ASSUME NEW f \in Places(d), NEW n \in -1 .. N - 1, UseOf(d, f, n) # 0
        PROVE  /\ UseOf(d, f, n) \in Block /\ UseOf(d, f, n) \notin d[2].free /\ UseOf(d, f, n) >= 3
               /\ \A g \in Places(d), m \in -1 .. N - 1 : UseOf(d, g, m) = UseOf(d, f, n) => g = f /\ m = n
    <3>1. UseOf(d, f, n) = UseOf(v, f, n) /\ UseOf(v, f, n) # 0 /\ f \in Places(v) /\ n \in Pointers
      BY <1>3, <2>1, <2>2, <2>3
    <3>2. /\ UseOf(v, f, n) \in Block /\ UseOf(v, f, n) \notin v[2].free /\ UseOf(v, f, n) >= 3
          /\ \A g \in Places(v), m \in Pointers : UseOf(v, g, m) = UseOf(v, f, n) => g = f /\ m = n
      BY <3>1, OwnedIs
    <3>3. d[2].free \subseteq v[2].free
      BY DEF Lower
    <3>4. ASSUME NEW g \in Places(d), NEW m \in -1 .. N - 1, UseOf(d, g, m) = UseOf(d, f, n) PROVE g = f /\ m = n
      <4>1. UseOf(d, g, m) = UseOf(v, g, m) /\ g \in Places(v) /\ m \in Pointers
        BY <1>3, <2>1, <2>2, <2>3, <3>4
      <4>2. QED
        BY <3>1, <3>2, <3>4, <4>1, Zenon
    <3>5. QED
      BY <3>1, <3>2, <3>3, <3>4
  <2>4. QED
    BY <2>3, Zenon DEF Owned
<1>6. c => Owned(d, NINDIRECT)
  BY <1>5
<1>7. Owned(d, NDIRECT)
  BY <1>5
<1>8. QED
  BY <1>3, <1>4, <1>6, <1>7, SoundIs, WellFormedIs, Zenon DEF Lower

-----------------------------------------------------------------------------
(* Dropping pointers of one file.                                          *)

\* Blocks w are v with some pointers of file f dropped and their blocks freed.
Pruned(w, v, f) ==
  /\ Image(w) /\ v[2].free \subseteq w[2].free
  /\ \A b \in w[2].free \ v[2].free : \E n \in Pointers : UseOf(v, f, n) = b /\ UseOf(w, f, n) = 0
  /\ \A g \in Places(v) : g # f => FileIn(w, g) = FileIn(v, g)
  /\ FileIn(w, f).f_type = FileIn(v, f).f_type
  /\ \A n \in Pointers : UseOf(w, f, n) \in {0, UseOf(v, f, n)}
  /\ \A b \in Block : b \notin {f[1], FileIn(v, f).f_indirect, 2} => w[b] = v[b]

\* A file system that has no use of a block that v does not have.
Settled(w, v) ==
  /\ WellFormed(w) /\ Places(w) \subseteq Places(v)
  /\ \A g \in Places(v) : FileLower(FileIn(w, g), FileIn(v, g))
  /\ \A g \in Places(w), n \in Pointers : UseOf(w, g, n) \in {0, UseOf(v, g, n)}

\* Nothing is dropped yet.
LEMMA PrunedRefl == ASSUME NEW v, NEW f, Image(v) PROVE Pruned(v, v, f)
  BY DEF Pruned

\* Well formed blocks are settled.
LEMMA SettledRefl == ASSUME NEW v, WellFormed(v) PROVE Settled(v, v)
  BY FileLowerRefl DEF Settled

\* The indirect block of a file.
LEMMA IndirectIs ==
  ASSUME NEW v, WellFormed(v), NEW g \in Places(v), NEW x, x = FileIn(v, g).f_indirect
  PROVE  /\ x \in Block
         /\ x # 0 => /\ x >= 3 /\ x \notin v[2].free /\ UseOf(v, g, -1) = x
                     /\ \A f \in Places(v) : f # g => FileIn(v, f).f_indirect # x
<1>1. UseOf(v, g, -1) = x /\ -1 \in Pointers /\ 0 \in Block
  BY UseOfIs, Dims DEF Pointers, Block
<1>2. CASE x = 0
  BY <1>1, <1>2
<1>3. CASE x # 0
  <2>1. /\ x \in Block /\ x >= 3 /\ x \notin v[2].free
        /\ \A f \in Places(v), m \in Pointers : UseOf(v, f, m) = x => f = g
    <3>1. Sole(v, g, -1, x)
      BY <1>1, <1>3, OwnedBy
    <3>2. QED
      BY <3>1, Zenon DEF Sole
  <2>2. ASSUME NEW f \in Places(v), f # g, FileIn(v, f).f_indirect = x PROVE FALSE
    <3>1. UseOf(v, f, -1) = x
      BY <2>2, UseOfIs
    <3>2. QED
      BY <1>1, <2>1, <2>2, <3>1, Zenon
  <2>3. QED
    BY <1>1, <2>1, <2>2
<1>4. QED
  BY <1>2, <1>3

\* The files other than f keep what they have.
LEMMA PrunedOthers ==
  ASSUME NEW v, WellFormed(v), NEW f \in Places(v), NEW w, Pruned(w, v, f), NEW g \in Places(v), g # f
  PROVE  /\ FileIn(w, g) = FileIn(v, g) /\ DirBlocks(w, g) = DirBlocks(v, g)
         /\ \A n \in Pointers : UseOf(w, g, n) = UseOf(v, g, n)
         /\ FileIn(v, g).f_indirect # 0 => w[FileIn(v, g).f_indirect] = v[FileIn(v, g).f_indirect]
<1>1. PICK x : x = FileIn(v, g).f_indirect
  OBVIOUS
<1>2. PICK y : y = FileIn(v, f).f_indirect
  OBVIOUS
<1>3. FileIn(w, g) = FileIn(v, g)
  BY Zenon DEF Pruned
<1>4. ASSUME x # 0 PROVE w[x] = v[x]
  <2>1. x \in Block /\ x # 2 /\ x # y
    BY <1>1, <1>2, <1>4, IndirectIs
  <2>2. x # f[1]
    BY <1>1, RoleIs, Zenon DEF Role
  <2>3. QED
    BY <1>2, <2>1, <2>2 DEF Pruned
<1>5. (\A n \in Pointers : UseOf(w, g, n) = UseOf(v, g, n)) /\ DirBlocks(w, g) = DirBlocks(v, g)
  <2>1. x # 0 => AsIndex(w[x]) = AsIndex(v[x])
    BY <1>4, Zenon
  <2>2. QED
    BY <1>1, <1>3, <2>1, UseFrame, Zenon
<1>6. QED
  BY <1>1, <1>3, <1>4, <1>5, Zenon

\* What a file still points to when f is pruned is not free.
LEMMA PrunedOwned ==
  ASSUME NEW v, WellFormed(v), NEW f \in Places(v), NEW w, Pruned(w, v, f), NEW g \in Places(v),
         NEW n \in Pointers, UseOf(w, g, n) # 0
  PROVE  UseOf(w, g, n) = UseOf(v, g, n) /\ UseOf(w, g, n) \notin w[2].free
<1>1. UseOf(w, g, n) = UseOf(v, g, n)
  <2>1. CASE g = f
    BY <2>1 DEF Pruned
  <2>2. CASE g # f
    BY <2>2, PrunedOthers
  <2>3. QED
    BY <2>1, <2>2
<1>2. PICK b : b = UseOf(v, g, n)
  OBVIOUS
<1>3. b # 0
  BY <1>1, <1>2
<1>4. b \notin v[2].free /\ \A h \in Places(v), m \in Pointers : UseOf(v, h, m) = b => h = g /\ m = n
  <2>1. Sole(v, g, n, b)
    BY <1>2, <1>3, OwnedBy
  <2>2. QED
    BY <2>1, Zenon DEF Sole
<1>5. ASSUME b \in w[2].free PROVE FALSE
  <2>1. PICK m \in Pointers : UseOf(v, f, m) = b /\ UseOf(w, f, m) = 0
    BY <1>4, <1>5 DEF Pruned
  <2>2. f = g /\ m = n
    BY <1>4, <2>1, Zenon
  <2>3. QED
    BY <2>1, <2>2, Zenon
<1>6. QED
  BY <1>1, <1>2, <1>5

\* Once a directory that loses pointers is empty, all is well again.
LEMMA PrunedSettled ==
  ASSUME NEW v, WellFormed(v), NEW f \in Places(v), NEW w, Pruned(w, v, f),
         FileIn(v, f).f_type = "dir" => FileIn(w, f).f_size = 0
  PROVE  Settled(w, v)
<1>1. Image(w) /\ Image(v) /\ Readable(w) /\ Reach(v).new = {}
  BY WellFormedIs, ImageReadable DEF Pruned
<1>2. DirBlocks(w, f) = {}
  <2>1. CASE FileIn(v, f).f_type = "dir"
    <3>1. FileIn(w, f).f_size = 0
      BY <2>1
    <3>2. Blocks(FileIn(w, f).f_size) = {}
      BY <3>1, BlocksAre
    <3>3. QED
      BY <3>2 DEF DirBlocks
  <2>2. CASE FileIn(v, f).f_type # "dir"
    BY <2>2, Zenon DEF DirBlocks, Pruned
  <2>3. QED
    BY <2>1, <2>2
<1>3. ASSUME NEW g \in Places(v) PROVE DirBlocks(w, g) \subseteq DirBlocks(v, g)
  <2>1. CASE g = f
    BY <1>2, <2>1
  <2>2. CASE g # f
    BY <2>2, PrunedOthers
  <2>3. QED
    BY <2>1, <2>2
<1>4. Places(w) \subseteq Places(v) /\ Reach(w).new = {}
  BY <1>1, <1>3, PlacesShrink
<1>5. Full(w)
  <2>1. ASSUME NEW g \in Places(w), FileIn(w, g).f_type = "dir", NEW n \in Blocks(FileIn(w, g).f_size)
        PROVE  Ptr(w, g, n) # 0
    <3>1. CASE g = f
      <4>1. FileIn(w, f).f_size = 0
        BY <2>1, <3>1 DEF Pruned
      <4>2. Blocks(FileIn(w, f).f_size) = {}
        BY <4>1, BlocksAre
      <4>3. QED
        BY <2>1, <3>1, <4>2
    <3>2. CASE g # f
      <4>1. FileIn(w, g) = FileIn(v, g) /\ g \in Places(v)
        BY <1>4, <3>2, PrunedOthers
      <4>2. n \in Pointers /\ n \in 0 .. NINDIRECT - 1
        BY Dims DEF Blocks, FileBlocks, Pointers
      <4>3. UseOf(w, g, n) = UseOf(v, g, n)
        BY <3>2, <4>1, <4>2, PrunedOthers, Zenon
      <4>4. Ptr(v, g, n) # 0
        BY <2>1, <4>1, WellFormedIs, Zenon DEF Full
      <4>5. UseOf(w, g, n) = Ptr(w, g, n)
        BY <4>2, UseOfIs
      <4>6. UseOf(v, g, n) = Ptr(v, g, n)
        BY <4>2, UseOfIs
      <4>7. QED
        BY <4>3, <4>4, <4>5, <4>6
    <3>3. QED
      BY <3>1, <3>2
  <2>2. QED
    BY <2>1, Zenon DEF Full
<1>6. ASSUME NEW g \in Places(w), NEW n \in Pointers PROVE UseOf(w, g, n) \in {0, UseOf(v, g, n)}
  <2>1. g \in Places(v)
    BY <1>4
  <2>2. QED
    BY <2>1, PrunedOwned
<1>7. Owned(w, NINDIRECT)
  <2>1. ASSUME NEW g \in Places(w), NEW n \in Pointers, UseOf(w, g, n) # 0
        PROVE  /\ UseOf(w, g, n) \in Block /\ UseOf(w, g, n) \notin w[2].free /\ UseOf(w, g, n) >= 3
               /\ \A h \in Places(w), m \in Pointers : UseOf(w, h, m) = UseOf(w, g, n) => h = g /\ m = n
    <3>1. g \in Places(v)
      BY <1>4
    <3>2. UseOf(w, g, n) = UseOf(v, g, n) /\ UseOf(w, g, n) \notin w[2].free
      BY <2>1, <3>1, PrunedOwned
    <3>3. /\ UseOf(v, g, n) \in Block /\ UseOf(v, g, n) >= 3
          /\ \A h \in Places(v), m \in Pointers : UseOf(v, h, m) = UseOf(v, g, n) => h = g /\ m = n
      BY <2>1, <3>1, <3>2, OwnedIs
    <3>4. ASSUME NEW h \in Places(w), NEW m \in Pointers, UseOf(w, h, m) = UseOf(w, g, n) PROVE h = g /\ m = n
      <4>1. h \in Places(v)
        BY <1>4
      <4>2. UseOf(w, h, m) = UseOf(v, h, m)
        BY <2>1, <3>4, <4>1, PrunedOwned
      <4>3. QED
        BY <3>2, <3>3, <3>4, <4>1, <4>2, Zenon
    <3>5. QED
      BY <3>2, <3>3, <3>4
  <2>2. QED
    BY <2>1, Zenon DEF Owned, Pointers
<1>8. ASSUME NEW g \in Places(v) PROVE FileLower(FileIn(w, g), FileIn(v, g))
  <2>1. CASE g # f
    BY <2>1, PrunedOthers, FileLowerRefl
  <2>2. CASE g = f
    <3>1. \A n \in 0 .. NDIRECT - 1 : FileIn(w, f).f_direct[n] \in {0, FileIn(v, f).f_direct[n]}
      <4>1. ASSUME NEW n \in 0 .. NDIRECT - 1 PROVE FileIn(w, f).f_direct[n] \in {0, FileIn(v, f).f_direct[n]}
        <5>1. n \in Pointers
          BY Dims DEF Pointers
        <5>2. UseOf(w, f, n) \in {0, UseOf(v, f, n)}
          BY <5>1 DEF Pruned
        <5>3. UseOf(w, f, n) = FileIn(w, f).f_direct[n]
          BY UseOfIs
        <5>4. UseOf(v, f, n) = FileIn(v, f).f_direct[n]
          BY UseOfIs
        <5>5. QED
          BY <5>2, <5>3, <5>4
      <4>2. QED
        BY <4>1
    <3>2. FileIn(w, f).f_indirect \in {0, FileIn(v, f).f_indirect}
      <4>1. -1 \in Pointers
        BY Dims DEF Pointers
      <4>2. UseOf(w, f, -1) \in {0, UseOf(v, f, -1)}
        BY <4>1 DEF Pruned
      <4>3. UseOf(w, f, -1) = FileIn(w, f).f_indirect
        BY UseOfIs
      <4>4. UseOf(v, f, -1) = FileIn(v, f).f_indirect
        BY UseOfIs
      <4>5. QED
        BY <4>2, <4>3, <4>4
    <3>3. FileIn(w, f).f_type = FileIn(v, f).f_type
      BY DEF Pruned
    <3>4. QED
      BY <2>2, <3>1, <3>2, <3>3, Zenon DEF FileLower
  <2>3. QED
    BY <2>1, <2>2
<1>9. WellFormed(w)
  BY <1>1, <1>4, <1>5, <1>7, WellFormedIs
<1>10. QED
  BY <1>4, <1>6, <1>8, <1>9, Zenon DEF Settled

-----------------------------------------------------------------------------
(* Writing to a disk that lags.                                            *)

\* Block n of a file, from a settled view w.
LEMMA LowerWrite ==
  ASSUME NEW v, WellFormed(v), NEW w, Settled(w, v), NEW d, NEW c, Lower(d, v, c),
         NEW g \in Places(w), NEW n \in 0 .. NINDIRECT - 1, NEW b, b = UseOf(w, g, n), b # 0,
         NEW e, e = [d EXCEPT ![b] = w[b]]
  PROVE  Lower(e, v, c)
<1>1. n \in Pointers /\ -1 \in Pointers /\ n # -1
  BY Dims DEF Pointers
<1>2. b = UseOf(v, g, n) /\ g \in Places(v)
  BY <1>1 DEF Settled
<1>3. /\ b \in Block /\ b >= 3
      /\ \A h \in Places(v), m \in Pointers : UseOf(v, h, m) = b => h = g /\ m = n
  <2>1. Sole(v, g, n, b)
    BY <1>1, <1>2, OwnedBy
  <2>2. QED
    BY <2>1, Zenon DEF Sole
<1>4. Image(d) /\ Image(w) /\ Image(v)
  BY WellFormedIs DEF Lower, Settled
<1>5. w[b] \in Content
  BY <1>3, <1>4 DEF Image
<1>6. Image(e) /\ e[2] = d[2] /\ e[b] = w[b] /\ \A x \in Block : x # b => e[x] = d[x]
  BY <1>3, <1>4, <1>5, Numbers DEF Image
<1>7. ASSUME NEW h \in Places(v) PROVE FileLower(FileIn(e, h), FileIn(v, h))
  <2>1. h \in Place /\ h[1] \in Block
    BY RoleIs DEF Role
  <2>2. CASE h[1] = b
    <3>1. FileIn(e, h) = FileIn(w, h)
      <4>1. e[h[1]] = w[h[1]]
        BY <1>6, <2>2, Zenon
      <4>2. QED
        BY <2>1, <4>1, FileFrame
    <3>2. QED
      BY <3>1, Zenon DEF Settled
  <2>3. CASE h[1] # b
    <3>1. FileIn(e, h) = FileIn(d, h)
      <4>1. e[h[1]] = d[h[1]]
        BY <1>6, <2>1, <2>3, Zenon
      <4>2. QED
        BY <2>1, <4>1, FileFrame
    <3>2. QED
      BY <3>1, Zenon DEF Lower
  <2>4. QED
    BY <2>2, <2>3
<1>8. ASSUME NEW h \in Places(v) PROVE e[FileIn(v, h).f_indirect] = d[FileIn(v, h).f_indirect]
  <2>1. PICK x : x = FileIn(v, h).f_indirect
    OBVIOUS
  <2>2. x \in Block
    BY <2>1, IndirectIs
  <2>3. UseOf(v, h, -1) = x
    BY <2>1, UseOfIs
  <2>4. x # b
    BY <1>1, <1>3, <2>3, Zenon
  <2>5. QED
    BY <1>6, <2>1, <2>2, <2>4, Zenon
<1>9. DirIndexed(e, v)
  BY <1>8, Zenon DEF Lower, DirIndexed
<1>10. c => Indexed(e, v)
  BY <1>8, Zenon DEF Lower, Indexed, With
<1>11. e[2].free \subseteq v[2].free
  BY <1>6 DEF Lower
<1>12. QED
  BY <1>6, <1>7, <1>9, <1>10, <1>11, Zenon DEF Lower

\* Any blocks, from v itself.
LEMMA LowerMix ==
  ASSUME NEW v, WellFormed(v), NEW d, NEW c, Lower(d, v, c), NEW e \in [Block -> Content],
         \A b \in Block : e[b] \in {d[b], v[b]}
  PROVE  Lower(e, v, c)
<1>1. Image(d) /\ Image(v) /\ d[2].free \subseteq v[2].free
  BY WellFormedIs DEF Lower
<1>2. e[1] \in {d[1], v[1]} /\ e[2] \in {d[2], v[2]}
  BY Numbers
<1>3. Image(e) /\ e[2].free \subseteq v[2].free
  BY <1>1, <1>2 DEF Image
<1>4. ASSUME NEW h \in Places(v) PROVE FileLower(FileIn(e, h), FileIn(v, h))
  <2>1. h \in Place /\ h[1] \in Block
    BY RoleIs DEF Role
  <2>2. CASE e[h[1]] = v[h[1]]
    BY <2>1, <2>2, FileFrame, FileLowerRefl
  <2>3. CASE e[h[1]] = d[h[1]]
    <3>1. FileIn(e, h) = FileIn(d, h)
      BY <2>1, <2>3, FileFrame
    <3>2. QED
      BY <3>1, Zenon DEF Lower
  <2>4. QED
    BY <2>1, <2>2, <2>3
<1>5. ASSUME NEW h \in Places(v), NEW x, x = FileIn(v, h).f_indirect PROVE e[x] \in {d[x], v[x]}
  BY <1>5, IndirectIs
<1>6. DirIndexed(e, v)
  <2>1. DirIndexed(d, v)
    BY DEF Lower
  <2>2. ASSUME NEW h \in Places(v), FileIn(v, h).f_type = "dir", NEW n \in Blocks(FileIn(v, h).f_size), n >= NDIRECT
        PROVE  AsIndex(e[FileIn(v, h).f_indirect])[n] = AsIndex(v[FileIn(v, h).f_indirect])[n]
    <3>1. PICK x : x = FileIn(v, h).f_indirect
      OBVIOUS
    <3>2. AsIndex(d[x])[n] = AsIndex(v[x])[n]
      BY <2>1, <2>2, <3>1, Zenon DEF DirIndexed
    <3>3. e[x] = d[x] \/ e[x] = v[x]
      BY <1>5, <3>1
    <3>4. AsIndex(e[x])[n] = AsIndex(v[x])[n]
      BY <3>2, <3>3, Zenon
    <3>5. QED
      BY <3>1, <3>4, Zenon
  <2>3. QED
    BY <2>2, Zenon DEF DirIndexed
<1>7. c => Indexed(e, v)
  <2>1. ASSUME c, NEW h \in Places(v), NEW x, x = FileIn(v, h).f_indirect, x # 0
        PROVE  AsIndex(e[x]) = AsIndex(v[x])
    <3>1. AsIndex(d[x]) = AsIndex(v[x])
      BY <2>1, IndexedIs, Zenon DEF Lower
    <3>2. e[x] = d[x] \/ e[x] = v[x]
      BY <1>5, <2>1
    <3>3. QED
      BY <3>1, <3>2, Zenon
  <2>2. QED
    BY <2>1, Zenon DEF Indexed, With
<1>8. QED
  BY <1>3, <1>4, <1>6, <1>7, Zenon DEF Lower

\* The bitmap, with fewer free blocks.
LEMMA LowerBitmap ==
  ASSUME NEW v, WellFormed(v), NEW d, NEW c, Lower(d, v, c), NEW x \in Content, x.t = "bitmap",
         x.free \subseteq v[2].free, NEW e, e = [d EXCEPT ![2] = x]
  PROVE  Lower(e, v, c)
<1>1. Image(d) /\ Image(v)
  BY WellFormedIs DEF Lower
<1>2. e \in [Block -> Content] /\ e[2] = x /\ \A b \in Block : b # 2 => e[b] = d[b]
  BY <1>1, Numbers DEF Image
<1>3. Image(e) /\ e[2].free \subseteq v[2].free
  BY <1>1, <1>2, Numbers DEF Image
<1>4. ASSUME NEW h \in Places(v) PROVE FileIn(e, h) = FileIn(d, h)
  <2>1. h \in Place /\ h[1] \in Block /\ h[1] # 2
    BY RoleIs DEF Role
  <2>2. e[h[1]] = d[h[1]]
    BY <1>2, <2>1, Zenon
  <2>3. QED
    BY <2>1, <2>2, FileFrame
<1>5. ASSUME NEW h \in Places(v) PROVE e[FileIn(v, h).f_indirect] = d[FileIn(v, h).f_indirect]
  <2>1. PICK y : y = FileIn(v, h).f_indirect
    OBVIOUS
  <2>2. y \in Block /\ y # 2
    BY <2>1, IndirectIs
  <2>3. QED
    BY <1>2, <2>1, <2>2, Zenon
<1>6. DirIndexed(e, v)
  BY <1>5, Zenon DEF Lower, DirIndexed
<1>7. c => Indexed(e, v)
  BY <1>5, Zenon DEF Lower, Indexed, With
<1>8. QED
  BY <1>3, <1>4, <1>6, <1>7, Zenon DEF Lower

\* When the block of the pruned file has been written, the disk lags behind
\* the new view too.
LEMMA LowerPruned ==
  ASSUME NEW v, WellFormed(v), NEW f \in Places(v), NEW w, Pruned(w, v, f),
         FileIn(v, f).f_type = "dir" => FileIn(w, f).f_size = 0,
         NEW d, NEW c, Lower(d, v, c), d[f[1]] = w[f[1]]
  PROVE  Lower(d, w, FALSE)
<1>1. Settled(w, v)
  BY PrunedSettled
<1>2. d[2].free \subseteq w[2].free /\ Image(d)
  BY DEF Lower, Pruned
<1>3. f \in Place
  BY RoleIs DEF Role
<1>4. ASSUME NEW g \in Places(w) PROVE FileLower(FileIn(d, g), FileIn(w, g))
  <2>1. g \in Places(v)
    BY <1>1 DEF Settled
  <2>2. CASE g = f
    BY <1>3, <2>2, FileFrame, FileLowerRefl
  <2>3. CASE g # f
    <3>1. FileIn(w, g) = FileIn(v, g)
      BY <2>1, <2>3, PrunedOthers
    <3>2. QED
      BY <2>1, <3>1, Zenon DEF Lower
  <2>4. QED
    BY <2>2, <2>3
<1>5. ASSUME NEW g \in Places(w), FileIn(w, g).f_type = "dir", NEW n \in Blocks(FileIn(w, g).f_size), n >= NDIRECT
      PROVE  AsIndex(d[FileIn(w, g).f_indirect])[n] = AsIndex(w[FileIn(w, g).f_indirect])[n]
  <2>1. g \in Places(v)
    BY <1>1 DEF Settled
  <2>2. g # f
    <3>1. ASSUME g = f PROVE FALSE
      <4>1. FileIn(w, f).f_size = 0
        BY <1>5, <3>1 DEF Pruned
      <4>2. Blocks(FileIn(w, f).f_size) = {}
        BY <4>1, BlocksAre
      <4>3. QED
        BY <1>5, <3>1, <4>2
    <3>2. QED
      BY <3>1
  <2>3. FileIn(w, g) = FileIn(v, g)
    BY <2>1, <2>2, PrunedOthers
  <2>4. PICK x : x = FileIn(v, g).f_indirect
    OBVIOUS
  <2>5. x # 0
    <3>1. Ptr(v, g, n) # 0
      BY <1>5, <2>1, <2>3, WellFormedIs, Zenon DEF Full
    <3>2. ~(n < NDIRECT)
      BY <1>5, Dims DEF Blocks, FileBlocks
    <3>3. QED
      BY <2>4, <3>1, <3>2, Zenon DEF Ptr
  <2>6. w[x] = v[x]
    BY <2>1, <2>2, <2>4, <2>5, PrunedOthers, Zenon
  <2>7. AsIndex(d[x])[n] = AsIndex(v[x])[n]
    <3>1. DirIndexed(d, v)
      BY DEF Lower
    <3>2. QED
      BY <1>5, <2>1, <2>3, <2>4, <3>1, Zenon DEF DirIndexed
  <2>8. QED
    BY <2>3, <2>4, <2>6, <2>7, Zenon
<1>6. DirIndexed(d, w)
  BY <1>5, Zenon DEF DirIndexed
<1>7. QED
  BY <1>2, <1>4, <1>6, Zenon DEF Lower

-----------------------------------------------------------------------------
(* States of the server.                                                   *)

\* A disk as it may be between two writes; check_write_block smashes the superblock.
Stage == [Block -> Content \cup {Oops}]
FsState == [disk : [Block -> Content], cache : [Block -> Cached], dirty : SUBSET Block,
            hist : SUBSET Stage, pages : Nat, bad : SUBSET Faults]
Live(s) ==
  /\ s \in FsState
  /\ s.cache[1].t = "super" /\ s.cache[2].t = "bitmap" /\ s.cache[2].free \subseteq Block \ {0, 1, 2}

\* What is cached in s is cached in n, and what is dirty is dirty.
Keeps(n, s) ==
  /\ \A b \in Block : s.cache[b] # NoBlock => n.cache[b] # NoBlock
  /\ s.dirty \subseteq n.dirty

\* n is s after reads only.
Reads(n, s) ==
  /\ Live(n) /\ Keeps(n, s)
  /\ n.disk = s.disk /\ n.hist = s.hist /\ n.bad = s.bad /\ n.pages = s.pages
  /\ ViewOf(n) = ViewOf(s)

Held(s, f) == s.cache[f[1]] # NoBlock

\* The fields of the server's state.
LEMMA StateFields ==
  ASSUME NEW s \in FsState
  PROVE  /\ s.disk \in [Block -> Content] /\ s.cache \in [Block -> Cached] /\ s.dirty \in SUBSET Block
         /\ s.hist \in SUBSET Stage /\ s.pages \in Nat /\ s.bad \in SUBSET Faults
         /\ DOMAIN s = {"disk", "cache", "dirty", "hist", "pages", "bad"}
  BY DEF FsState

\* A disk at rest is one of them.
LEMMA Staged == [Block -> Content] \subseteq Stage
  BY DEF Stage

\* The content of a block is not the mark of a page that is not there.
LEMMA NotNoBlock == ASSUME NEW c \in Content PROVE c # NoBlock
  BY DEF Content, NoBlock

\* The server sees the cached block, and the disk where there is none.
LEMMA ViewIs ==
  ASSUME NEW s \in FsState
  PROVE  /\ ViewOf(s) \in [Block -> Content]
         /\ \A b \in Block : /\ s.cache[b] # NoBlock => ViewOf(s)[b] = s.cache[b]
                             /\ s.cache[b] = NoBlock => ViewOf(s)[b] = s.disk[b]
<1>1. \A b \in Block : s.cache[b] \in Cached /\ s.disk[b] \in Content
  BY StateFields
<1>2. ASSUME NEW b \in Block PROVE (IF block_is_mapped(s, b) THEN s.cache[b] ELSE s.disk[b]) \in Content
  BY <1>1 DEF block_is_mapped, Cached
<1>3. QED
  BY <1>2 DEF ViewOf, block_is_mapped

\* The blocks that a running server sees are an image, with its superblock and bitmap.
LEMMA LiveView ==
  ASSUME NEW s, Live(s)
  PROVE  /\ Image(ViewOf(s)) /\ Readable(s.cache)
         /\ s.cache[1] # NoBlock /\ s.cache[2] # NoBlock
         /\ ViewOf(s)[1] = s.cache[1] /\ ViewOf(s)[2] = s.cache[2]
         /\ ViewOf(s)[2].free = bitmap(s)
<1>1. s \in FsState /\ s.cache[1].t = "super" /\ s.cache[2].t = "bitmap"
      /\ s.cache[2].free \subseteq Block \ {0, 1, 2}
  BY DEF Live
<1>2. s.cache[1] # NoBlock /\ s.cache[2] # NoBlock
  BY <1>1 DEF NoBlock
<1>3. 1 \in Block /\ 2 \in Block
  BY Numbers
<1>4. ViewOf(s)[1] = s.cache[1] /\ ViewOf(s)[2] = s.cache[2] /\ ViewOf(s) \in [Block -> Content]
  BY <1>1, <1>2, <1>3, ViewIs
<1>5. Image(ViewOf(s))
  BY <1>1, <1>4 DEF Image
<1>6. Readable(s.cache)
  BY <1>1, StateFields DEF Readable
<1>7. QED
  BY <1>2, <1>4, <1>5, <1>6 DEF bitmap

\* A state keeps its own pages.
LEMMA KeepsRefl == ASSUME NEW s PROVE Keeps(s, s)
  BY DEF Keeps

\* Pages that are kept twice are kept.
LEMMA KeepsTrans ==
  ASSUME NEW m, NEW n, NEW s, Keeps(m, n), Keeps(n, s)
  PROVE  Keeps(m, s)
  BY DEF Keeps

\* Reading nothing.
LEMMA ReadsRefl == ASSUME NEW s, Live(s) PROVE Reads(s, s)
  BY KeepsRefl DEF Reads

\* Reading, then reading more.
LEMMA ReadsTrans ==
  ASSUME NEW m, NEW n, NEW s, Reads(m, n), Reads(n, s)
  PROVE  Reads(m, s)
  BY KeepsTrans DEF Reads

\* A struct File that is cached stays cached.
LEMMA ReadsHeld ==
  ASSUME NEW n, NEW s, Keeps(n, s), NEW f \in Place, Held(s, f)
  PROVE  Held(n, f)
  BY DEF Keeps, Held, Place

\* A file whose struct is cached, as the code sees it.
LEMMA FileHeld ==
  ASSUME NEW s, Live(s), NEW f \in Place, Held(s, f)
  PROVE  FileIn(s.cache, f) = FileIn(ViewOf(s), f) /\ FileIn(s.cache, f) \in FileType
<1>1. s \in FsState /\ f[1] \in Block
  BY DEF Live, Place
<1>2. s.cache[f[1]] = ViewOf(s)[f[1]]
  BY <1>1, ViewIs DEF Held
<1>3. FileIn(s.cache, f) = FileIn(ViewOf(s), f)
  BY <1>2, FileFrame
<1>4. QED
  BY <1>3, FileInIs, LiveView

-----------------------------------------------------------------------------
(* Reading.                                                                *)

\* A block that is loaded does not change what the server sees.
LEMMA LoadReads ==
  ASSUME NEW s, Live(s), NEW b \in Block, NEW n, n = LoadBlock(s, b)
  PROVE  Reads(n, s) /\ n.cache[b] # NoBlock
<1>1. s \in FsState
  BY DEF Live
<1>2. CASE s.cache[b] # NoBlock
  <2>1. n = s
    BY <1>2 DEF LoadBlock, block_is_mapped
  <2>2. QED
    BY <1>2, <2>1, ReadsRefl
<1>3. CASE s.cache[b] = NoBlock
  <2>1. n = [s EXCEPT !.cache[b] = s.disk[b], !.dirty = s.dirty \cup {b}]
    BY <1>3 DEF LoadBlock, block_is_mapped
  <2>2. /\ n.disk = s.disk /\ n.hist = s.hist /\ n.bad = s.bad /\ n.pages = s.pages
        /\ n.cache = [s.cache EXCEPT ![b] = s.disk[b]] /\ n.dirty = s.dirty \cup {b}
    BY <1>1, <2>1, StateFields
  <2>3. s.disk[b] \in Content /\ s.disk[b] # NoBlock
    BY <1>1, StateFields, NotNoBlock
  <2>4. n.cache \in [Block -> Cached] /\ n.cache[b] = s.disk[b]
    BY <1>1, <2>2, <2>3, StateFields DEF Cached
  <2>5. n \in FsState
    <3>1. DOMAIN s.cache = Block /\ s.disk[b] \in Cached
      BY <1>1, <2>3, StateFields DEF Cached
    <3>2. QED
      BY <1>1, <2>1, <2>4, <2>2 DEF FsState
  <2>6. b # 1 /\ b # 2
    BY <1>3, LiveView
  <2>7. n.cache[1] = s.cache[1] /\ n.cache[2] = s.cache[2]
    BY <1>1, <2>2, <2>6, Numbers, StateFields
  <2>8. Live(n)
    BY <2>5, <2>7 DEF Live
  <2>9. Keeps(n, s)
    <3>1. \A x \in Block : s.cache[x] # NoBlock => n.cache[x] # NoBlock
      BY <1>1, <1>3, <2>2, StateFields
    <3>2. QED
      BY <2>2, <3>1 DEF Keeps
  <2>10. ViewOf(n) = ViewOf(s)
    <3>1. ASSUME NEW x \in Block PROVE ViewOf(n)[x] = ViewOf(s)[x]
      <4>1. CASE x = b
        <5>1. ViewOf(n)[b] = n.cache[b] /\ ViewOf(s)[b] = s.disk[b]
          BY <1>1, <1>3, <2>3, <2>4, <2>5, ViewIs
        <5>2. QED
          BY <4>1, <5>1, <2>4
      <4>2. CASE x # b
        <5>1. n.cache[x] = s.cache[x]
          BY <4>2, <1>1, <2>2, StateFields
        <5>2. QED
          BY <5>1, <2>2 DEF ViewOf, block_is_mapped
      <4>3. QED
        BY <4>1, <4>2
    <3>2. QED
      BY <3>1, <1>1, <2>5, ViewIs
  <2>11. QED
    BY <2>2, <2>3, <2>4, <2>8, <2>9, <2>10 DEF Reads
<1>4. QED
  BY <1>2, <1>3

\* read_block of a block in use does not panic.
LEMMA ReadBlock ==
  ASSUME NEW s, Live(s), NEW b \in Block, b \notin bitmap(s), NEW n, n = read_block(s, b)
  PROVE  Reads(n, s) /\ n.cache[b] # NoBlock
<1>1. n = LoadBlock(s, b)
  BY DEF read_block, block_is_free
<1>2. QED
  BY <1>1, LoadReads

\* A file whose struct is cached and whose indirect block can be read.
Sane(s, f) ==
  /\ Live(s) /\ f \in Place /\ Held(s, f)
  /\ FileIn(ViewOf(s), f).f_indirect # 0 =>
       /\ FileIn(ViewOf(s), f).f_indirect \in Block /\ FileIn(ViewOf(s), f).f_indirect >= 3
       /\ FileIn(ViewOf(s), f).f_indirect \notin bitmap(s)

\* A file of well formed blocks, once its struct is cached, can be read.
LEMMA SaneIs ==
  ASSUME NEW s, Live(s), WellFormed(ViewOf(s)), NEW f \in Places(ViewOf(s)), Held(s, f)
  PROVE  Sane(s, f)
<1>1. f \in Place
  BY RootIs
<1>2. PICK x : x = FileIn(ViewOf(s), f).f_indirect
  OBVIOUS
<1>3. x \in Block /\ (x # 0 => x >= 3 /\ x \notin ViewOf(s)[2].free)
  BY <1>2, IndirectIs
<1>4. QED
  BY <1>1, <1>2, <1>3, LiveView DEF Sane

\* Reads do not change that.
LEMMA SaneReads ==
  ASSUME NEW s, NEW f, Sane(s, f), NEW n, Reads(n, s)
  PROVE  Sane(n, f)
<1>1. Live(n) /\ ViewOf(n) = ViewOf(s) /\ Live(s) /\ f \in Place
  BY DEF Reads, Sane
<1>2. bitmap(n) = bitmap(s)
  BY <1>1, LiveView
<1>3. Held(n, f)
  BY ReadsHeld DEF Reads, Sane
<1>4. QED
  BY <1>1, <1>2, <1>3 DEF Sane

\* file_block_walk where it need not allocate.
LEMMA WalkReads ==
  ASSUME NEW s, NEW f, Sane(s, f), NEW n \in Nat, NEW alloc \in BOOLEAN, NEW x,
         x = file_block_walk(s, f, n, alloc),
         ~alloc \/ n < NDIRECT \/ n >= NINDIRECT \/ FileIn(ViewOf(s), f).f_indirect # 0
  PROVE  /\ Reads(x.s, s) /\ x.r \in {0, E_INVAL, E_NOT_FOUND}
         /\ x.r >= 0 <=> n < NDIRECT \/ (n < NINDIRECT /\ FileIn(ViewOf(s), f).f_indirect # 0)
         /\ x.r >= 0 => /\ n \in 0 .. NINDIRECT - 1
                        /\ Ptr(x.s.cache, f, n) = Ptr(ViewOf(s), f, n)
                        /\ n >= NDIRECT => x.s.cache[FileIn(ViewOf(s), f).f_indirect] # NoBlock
<1>1. Live(s) /\ f \in Place /\ Held(s, f)
  BY DEF Sane
<1>2. PICK v : v = ViewOf(s)
  OBVIOUS
<1>3. PICK i : i = FileIn(v, f).f_indirect
  OBVIOUS
<1>4. FileIn(s.cache, f) = FileIn(v, f) /\ File(s, f).f_indirect = i /\ i \in Nat
  BY <1>1, <1>2, <1>3, FileHeld, FileFields DEF File
<1>5. CASE n < NDIRECT
  <2>1. x = Ok(s)
    BY <1>5 DEF file_block_walk
  <2>2. x.s = s /\ x.r = 0
    BY <2>1 DEF Ok
  <2>3. Ptr(s.cache, f, n) = Ptr(v, f, n)
    BY <1>4, <1>5 DEF Ptr
  <2>4. n \in 0 .. NINDIRECT - 1 /\ ~(n >= NDIRECT)
    BY <1>5, Dims
  <2>5. QED
    BY <1>1, <1>2, <1>5, <2>2, <2>3, <2>4, ReadsRefl
<1>6. CASE n >= NINDIRECT
  <2>1. ~(n < NDIRECT) /\ ~(n < NINDIRECT)
    BY <1>6, Dims
  <2>2. x = Ret(s, E_INVAL)
    BY <1>6, <2>1 DEF file_block_walk
  <2>3. x.s = s /\ x.r = E_INVAL /\ ~(x.r >= 0)
    BY <2>2 DEF Ret, E_INVAL
  <2>4. QED
    BY <1>1, <2>1, <2>3, ReadsRefl
<1>7. CASE ~(n < NDIRECT) /\ ~(n >= NINDIRECT) /\ i # 0
  <2>1. x = Ok(read_block(s, i))
    BY <1>4, <1>7 DEF file_block_walk
  <2>2. x.s = read_block(s, i) /\ x.r = 0
    BY <2>1 DEF Ok
  <2>3. i \in Block /\ i \notin bitmap(s)
    BY <1>2, <1>3, <1>7 DEF Sane
  <2>4. Reads(x.s, s) /\ x.s.cache[i] # NoBlock
    BY <1>1, <2>2, <2>3, ReadBlock
  <2>5. Live(x.s) /\ ViewOf(x.s) = v /\ Keeps(x.s, s)
    BY <2>4, <1>2 DEF Reads
  <2>6. FileIn(x.s.cache, f) = FileIn(v, f)
    BY <1>1, <2>5, ReadsHeld, FileHeld
  <2>7. x.s.cache[i] = v[i]
    BY <2>3, <2>4, <2>5, ViewIs DEF Live
  <2>8. Ptr(x.s.cache, f, n) = Ptr(v, f, n)
    BY <1>3, <2>6, <2>7 DEF Ptr
  <2>9. n \in 0 .. NINDIRECT - 1 /\ n < NINDIRECT
    BY <1>7, Dims
  <2>10. QED
    BY <1>2, <1>3, <1>7, <2>2, <2>4, <2>8, <2>9
<1>8. CASE ~(n < NDIRECT) /\ ~(n >= NINDIRECT) /\ i = 0
  <2>1. ~alloc
    BY <1>2, <1>3, <1>8
  <2>2. x = Ret(s, E_NOT_FOUND)
    BY <1>4, <1>8, <2>1 DEF file_block_walk
  <2>3. x.s = s /\ x.r = E_NOT_FOUND /\ ~(x.r >= 0)
    BY <2>2 DEF Ret, E_NOT_FOUND
  <2>4. QED
    BY <1>1, <1>2, <1>3, <1>8, <2>3, ReadsRefl
<1>9. QED
  BY <1>5, <1>6, <1>7, <1>8

\* A block pointer of such a file is a number.
LEMMA PtrIs ==
  ASSUME NEW s, NEW f, Sane(s, f), NEW n \in 0 .. NINDIRECT - 1
  PROVE  Ptr(ViewOf(s), f, n) \in Nat
<1>1. PICK v : v = ViewOf(s)
  OBVIOUS
<1>2. PICK x : x = FileIn(v, f)
  OBVIOUS
<1>3. Image(v) /\ Readable(v) /\ v \in [Block -> Content]
  BY <1>1, LiveView, ImageReadable DEF Sane, Image
<1>4. x \in FileType
  BY <1>2, <1>3, FileInIs DEF Sane
<1>5. x.f_direct \in [0 .. NDIRECT - 1 -> Nat] /\ x.f_indirect \in Nat
  BY <1>4, FileFields
<1>6. CASE n < NDIRECT
  <2>1. Ptr(v, f, n) = x.f_direct[n] /\ n \in 0 .. NDIRECT - 1
    BY <1>2, <1>6, Dims DEF Ptr
  <2>2. QED
    BY <1>1, <1>5, <2>1
<1>7. CASE ~(n < NDIRECT) /\ x.f_indirect = 0
  <2>1. Ptr(v, f, n) = 0
    BY <1>2, <1>7 DEF Ptr
  <2>2. QED
    BY <1>1, <2>1
<1>8. CASE ~(n < NDIRECT) /\ x.f_indirect # 0
  <2>1. x.f_indirect \in Block
    BY <1>1, <1>2, <1>8 DEF Sane
  <2>2. AsIndex(v[x.f_indirect]) \in [0 .. NINDIRECT - 1 -> Nat]
    BY <1>3, <2>1, AsIndexIs DEF Cached
  <2>3. Ptr(v, f, n) = AsIndex(v[x.f_indirect])[n]
    BY <1>2, <1>8 DEF Ptr
  <2>4. QED
    BY <1>1, <2>2, <2>3
<1>9. QED
  BY <1>6, <1>7, <1>8

\* file_map_block where it need not allocate.
LEMMA MapReads ==
  ASSUME NEW s, NEW f, Sane(s, f), NEW n \in Nat, NEW alloc \in BOOLEAN, NEW m,
         m = file_map_block(s, f, n, alloc),
         ~alloc \/ n >= NINDIRECT \/ Ptr(ViewOf(s), f, n) # 0
  PROVE  /\ Reads(m.s, s)
         /\ \/ m.r < 0 /\ m.r \in Int
            \/ n \in 0 .. NINDIRECT - 1 /\ m.r = Ptr(ViewOf(s), f, n) /\ m.r \in Nat \ {0}
         /\ n < NINDIRECT /\ Ptr(ViewOf(s), f, n) # 0 => m.r = Ptr(ViewOf(s), f, n)
<1>1. PICK x : x = file_block_walk(s, f, n, alloc)
  OBVIOUS
<1>2. PICK q : q = Ptr(ViewOf(s), f, n)
  OBVIOUS
<1>3. n < NDIRECT \/ n >= NINDIRECT \/ FileIn(ViewOf(s), f).f_indirect # 0 \/ q = 0
  BY <1>2 DEF Ptr
<1>4. ~alloc \/ n < NDIRECT \/ n >= NINDIRECT \/ FileIn(ViewOf(s), f).f_indirect # 0
  BY <1>2, <1>3
<1>5. /\ Reads(x.s, s) /\ x.r \in {0, E_INVAL, E_NOT_FOUND}
      /\ x.r >= 0 <=> n < NDIRECT \/ (n < NINDIRECT /\ FileIn(ViewOf(s), f).f_indirect # 0)
      /\ x.r >= 0 => n \in 0 .. NINDIRECT - 1 /\ Ptr(x.s.cache, f, n) = q
  BY <1>1, <1>2, <1>4, WalkReads
<1>6. x.r = 0 \/ (x.r < 0 /\ x.r \in Int)
  BY <1>5 DEF E_INVAL, E_NOT_FOUND
<1>7. CASE x.r < 0
  <2>1. m = x
    BY <1>1, <1>7 DEF file_map_block, Try
  <2>2. ~(x.r >= 0)
    BY <1>5, <1>7 DEF E_INVAL, E_NOT_FOUND
  <2>3. ~(n < NINDIRECT) \/ q = 0
    BY <1>2, <2>2, <1>5 DEF Ptr
  <2>4. QED
    BY <1>2, <1>5, <1>6, <1>7, <2>1, <2>3
<1>8. CASE x.r = 0
  <2>1. n \in 0 .. NINDIRECT - 1 /\ Ptr(x.s.cache, f, n) = q
    BY <1>5, <1>8
  <2>2. CASE q # 0
    <3>1. m = Ret(x.s, q)
      BY <1>1, <1>8, <2>1, <2>2 DEF file_map_block, Try
    <3>2. m.s = x.s /\ m.r = q
      BY <3>1 DEF Ret
    <3>3. q \in Nat
      BY <1>2, <2>1, PtrIs
    <3>4. QED
      BY <1>2, <1>5, <2>1, <2>2, <3>2, <3>3
  <2>3. CASE q = 0
    <3>1. ~alloc
      BY <1>2, <2>1, <2>3, Dims
    <3>2. m = Ret(x.s, E_NOT_FOUND)
      BY <1>1, <1>8, <2>1, <2>3, <3>1 DEF file_map_block, Try
    <3>3. m.s = x.s /\ m.r < 0 /\ m.r \in Int
      BY <3>2 DEF Ret, E_NOT_FOUND
    <3>4. QED
      BY <1>2, <1>5, <2>3, <3>3
  <2>4. QED
    BY <2>2, <2>3
<1>9. QED
  BY <1>6, <1>7, <1>8

\* file_get_block of a block that the file has.
LEMMA GetReads ==
  ASSUME NEW s, Live(s), WellFormed(ViewOf(s)), NEW f \in Places(ViewOf(s)), Held(s, f), NEW n \in Nat,
         n >= NINDIRECT \/ Ptr(ViewOf(s), f, n) # 0, NEW g, g = file_get_block(s, f, n)
  PROVE  /\ Reads(g.s, s)
         /\ \/ g.r < 0 /\ g.r \in Int
            \/ /\ n \in 0 .. NINDIRECT - 1 /\ g.r = Ptr(ViewOf(s), f, n) /\ g.r \in Block
               /\ g.r # 0 /\ g.s.cache[g.r] # NoBlock
<1>1. PICK m : m = file_map_block(s, f, n, TRUE)
  OBVIOUS
<1>2. Sane(s, f)
  BY SaneIs
<1>3. /\ Reads(m.s, s)
      /\ \/ m.r < 0 /\ m.r \in Int
         \/ n \in 0 .. NINDIRECT - 1 /\ m.r = Ptr(ViewOf(s), f, n) /\ m.r \in Nat \ {0}
  BY <1>1, <1>2, MapReads
<1>4. CASE m.r < 0
  <2>1. g = m
    BY <1>1, <1>4 DEF file_get_block, Try
  <2>2. QED
    BY <1>3, <1>4, <2>1
<1>5. CASE ~(m.r < 0)
  <2>1. n \in 0 .. NINDIRECT - 1 /\ m.r = Ptr(ViewOf(s), f, n) /\ m.r \in Nat \ {0}
    BY <1>3, <1>5
  <2>2. g = Ret(read_block(m.s, m.r), m.r)
    BY <1>1, <1>5 DEF file_get_block, Try
  <2>3. g.s = read_block(m.s, m.r) /\ g.r = m.r
    BY <2>2 DEF Ret
  <2>4. UseOf(ViewOf(s), f, n) = m.r /\ n \in Pointers
    <3>1. UseOf(ViewOf(s), f, n) = Ptr(ViewOf(s), f, n)
      BY <2>1, UseOfIs, Zenon
    <3>2. n \in Pointers
      BY <2>1 DEF Pointers
    <3>3. QED
      BY <2>1, <3>1, <3>2, Zenon
  <2>5. Sole(ViewOf(s), f, n, m.r)
    BY <2>1, <2>4, OwnedBy
  <2>6. Live(m.s) /\ ViewOf(m.s) = ViewOf(s)
    BY <1>3 DEF Reads
  <2>7. m.r \in Block /\ m.r \notin bitmap(m.s)
    BY <2>5, <2>6, LiveView DEF Sole
  <2>8. Reads(g.s, m.s) /\ g.s.cache[m.r] # NoBlock
    BY <2>3, <2>6, <2>7, ReadBlock
  <2>9. Reads(g.s, s)
    BY <1>3, <2>8, ReadsTrans
  <2>10. QED
    BY <2>1, <2>3, <2>7, <2>8, <2>9
<1>6. QED
  BY <1>4, <1>5

-----------------------------------------------------------------------------
(* Loops: W[k] says what holds of the k-th value.                          *)

Looped(h, N, W, a, G) ==
  /\ h = [n \in 0 .. N |-> h[n]] /\ h[0] = a
  /\ \A n \in 1 .. N : h[n] = G[n][h[n - 1]] /\ h[n - 1] \in W[n - 1]

\* A loop of N turns that keeps an invariant W[n] has a value after each turn.
LEMMA Loop ==
  ASSUME NEW N \in Nat, NEW W, NEW a \in W[0], NEW G,
         \A n \in 1 .. N : \A x \in W[n - 1] : G[n][x] \in W[n]
  PROVE  \E h : Looped(h, N, W, a, G)
<1> DEFINE S == UNION {W[n] : n \in 0 .. N}
<1> DEFINE H == [n \in 1 .. N |-> [x \in S |-> IF x \in W[n - 1] THEN G[n][x] ELSE a]]
<1>1. \A n \in 0 .. N : W[n] \subseteq S
  BY Zenon
<1>2. 0 \in 0 .. N
  OBVIOUS
<1>3. a \in S
  BY <1>1, <1>2, Zenon
<1>4. ASSUME NEW n \in 1 .. N, NEW x \in S PROVE (IF x \in W[n - 1] THEN G[n][x] ELSE a) \in S
  <2>1. n \in 0 .. N
    OBVIOUS
  <2>2. QED
    BY <1>1, <1>3, <2>1, Zenon
<1>5. H \in [1 .. N -> [S -> S]]
  BY <1>4, Zenon
<1> HIDE DEF S
<1>6. PICK h : Recursive(h, N, S, a, H)
  BY <1>3, <1>5, Recursion, Zenon
<1>7. h \in [0 .. N -> S] /\ h[0] = a /\ \A n \in 1 .. N : h[n] = H[n][h[n - 1]]
  BY <1>6, Zenon DEF Recursive
<1>8. ASSUME NEW n \in 1 .. N, h[n - 1] \in W[n - 1] PROVE h[n] = G[n][h[n - 1]] /\ h[n] \in W[n]
  <2>1. n - 1 \in 0 .. N
    OBVIOUS
  <2>2. h[n - 1] \in S
    BY <1>7, <2>1, Zenon
  <2>3. h[n] = IF h[n - 1] \in W[n - 1] THEN G[n][h[n - 1]] ELSE a
    BY <1>7, <2>2, Zenon
  <2>4. QED
    BY <1>8, <2>3, Zenon
<1>9. 0 .. N \subseteq {n \in 0 .. N : h[n] \in W[n]}
  <2> DEFINE B == {n \in 0 .. N : h[n] \in W[n]}
  <2>1. 0 \in B
    BY <1>2, <1>7, Zenon
  <2>2. ASSUME NEW n \in 1 .. N, n - 1 \in B PROVE n \in B
    <3>1. n \in 0 .. N
      OBVIOUS
    <3>2. QED
      BY <3>1, <2>2, <1>8, Zenon
  <2> HIDE DEF B
  <2>3. 0 .. N \subseteq B
    BY <2>1, <2>2, Upward
  <2>4. QED
    BY <2>3, Zenon DEF B
<1>10. ASSUME NEW n \in 1 .. N PROVE h[n] = G[n][h[n - 1]] /\ h[n - 1] \in W[n - 1]
  <2>1. n - 1 \in 0 .. N
    OBVIOUS
  <2>2. QED
    BY <1>8, <1>9, <2>1, Zenon
<1>11. h = [n \in 0 .. N |-> h[n]]
  BY <1>7
<1>12. QED
  BY <1>7, <1>10, <1>11, Zenon DEF Looped

\* The value after N turns of a loop that keeps W.
LEMMA LoopEnds ==
  ASSUME NEW N \in Nat, NEW W, NEW u, u[0] \in W[0],
         \A n \in 1 .. N : u[n - 1] \in W[n - 1] => u[n] \in W[n]
  PROVE  u[N] \in W[N]
<1> DEFINE B == {n \in 0 .. N : u[n] \in W[n]}
<1>1. 0 \in 0 .. N /\ N \in 0 .. N
  OBVIOUS
<1>2. 0 \in B
  BY <1>1, Zenon
<1>3. ASSUME NEW n \in 1 .. N, n - 1 \in B PROVE n \in B
  <2>1. n \in 0 .. N
    OBVIOUS
  <2>2. QED
    BY <2>1, <1>3, Zenon
<1> HIDE DEF B
<1>4. 0 .. N \subseteq B
  BY <1>2, <1>3, Upward
<1>5. QED
  BY <1>1, <1>4, Zenon DEF B

-----------------------------------------------------------------------------
(* Looking up a name in a directory of the blocks v, and a path.           *)

Found(l, s, v, dir) ==
  /\ Reads(l.s, s) /\ l.file \in Place /\ l.r \in Int
  /\ l.r < 0 \/ (l.r = 0 /\ l.file[1] \in DirBlocks(v, dir) /\ Held(l.s, l.file))

\* One block of the loop of dir_lookup.
LEMMA LookFinds ==
  ASSUME NEW s, Live(s), NEW v, v = ViewOf(s), WellFormed(v), NEW dir \in Places(v), Held(s, dir),
         FileIn(v, dir).f_type = "dir", NEW name, NEW acc, Found(acc, s, v, dir), NEW i \in Nat,
         i < FileIn(v, dir).f_size \div BY2BLK, NEW l, l = Look(acc, dir, name, i)
  PROVE  Found(l, s, v, dir) /\ (l = acc \/ l = [s |-> l.s, r |-> l.r, file |-> l.file])
<1>1. CASE acc.r # E_NOT_FOUND
  BY <1>1 DEF Look
<1>2. CASE acc.r = E_NOT_FOUND
  <2>1. PICK g : g = file_get_block(acc.s, dir, i)
    OBVIOUS
  <2>2. Live(acc.s) /\ ViewOf(acc.s) = v /\ Reads(acc.s, s) /\ Keeps(acc.s, s)
    BY DEF Found, Reads
  <2>3. dir \in Place /\ Held(acc.s, dir)
    BY <2>2, ReadsHeld, RootIs
  <2>4. i >= NINDIRECT \/ (i \in Blocks(FileIn(v, dir).f_size) /\ Ptr(v, dir, i) # 0)
    <3>1. PICK z \in Nat : z = FileIn(v, dir).f_size
      BY <2>2, <2>3, LiveView, ImageReadable, FileInIs, FileFields
    <3>2. i * BY2BLK < z
      BY <3>1, Dims
    <3>3. i >= NINDIRECT \/ i \in Blocks(z)
      BY <3>2, Dims DEF Blocks, FileBlocks
    <3>4. Full(v)
      BY WellFormedIs
    <3>5. QED
      BY <3>1, <3>3, <3>4 DEF Full
  <2>5. /\ Reads(g.s, acc.s)
        /\ \/ g.r < 0 /\ g.r \in Int
           \/ /\ i \in 0 .. NINDIRECT - 1 /\ g.r = Ptr(v, dir, i) /\ g.r \in Block
              /\ g.r # 0 /\ g.s.cache[g.r] # NoBlock
    BY <2>1, <2>2, <2>3, <2>4, GetReads
  <2>6. Reads(g.s, s)
    BY <2>2, <2>5, ReadsTrans
  <2>7. CASE g.r < 0
    <3>1. l = [s |-> g.s, r |-> g.r, file |-> NoPlace]
      BY <1>2, <2>1, <2>7 DEF Look, With
    <3>2. g.r \in Int
      BY <2>5, <2>7, Dims DEF Block
    <3>3. QED
      BY <2>6, <2>7, <3>1, <3>2, Numbers DEF Found
  <2>8. CASE ~(g.r < 0) /\ Hits(g, name) = {}
    <3>1. l = [s |-> g.s, r |-> E_NOT_FOUND, file |-> NoPlace]
      BY <1>2, <2>1, <2>8 DEF Look, With
    <3>2. QED
      BY <2>6, <3>1, Numbers DEF Found, E_NOT_FOUND
  <2>9. CASE ~(g.r < 0) /\ Hits(g, name) # {}
    <3>1. l = [s |-> g.s, r |-> 0, file |-> <<g.r, Min(Hits(g, name))>>]
      BY <1>2, <2>1, <2>9 DEF Look, With
    <3>2. Min(Hits(g, name)) \in Slot
      <4>1. Hits(g, name) \subseteq Slot
        BY DEF Hits
      <4>2. QED
        BY <2>9, <4>1, Numbers, MinIn
    <3>3. g.r \in Block /\ g.r # 0 /\ g.r = Ptr(v, dir, i) /\ g.s.cache[g.r] # NoBlock
      BY <2>5, <2>9
    <3>4. i \in Blocks(FileIn(v, dir).f_size)
      BY <2>4, <2>5, <2>9, Dims
    <3>5. g.r \in DirBlocks(v, dir)
      BY <3>3, <3>4 DEF DirBlocks
    <3>6. l.file \in Place /\ l.file[1] = g.r /\ l.r = 0 /\ l.s = g.s
      BY <3>1, <3>2, <3>3 DEF Place
    <3>7. QED
      BY <2>6, <3>1, <3>3, <3>5, <3>6 DEF Found, Held
  <2>10. QED
    BY <2>7, <2>8, <2>9
<1>3. QED
  BY <1>1, <1>2

\* dir_lookup ends with an entry of the directory, or an error.
LEMMA LookupFinds ==
  ASSUME NEW s, Live(s), NEW v, v = ViewOf(s), WellFormed(v), NEW dir \in Places(v), Held(s, dir),
         FileIn(v, dir).f_type = "dir", NEW name, NEW l, l = dir_lookup(s, dir, name)
  PROVE  Found(l, s, v, dir)
<1>1. PICK N : N = File(s, dir).f_size \div BY2BLK
  OBVIOUS
<1>2. dir \in Place
  BY RootIs
<1>3. N \in Nat /\ N = FileIn(v, dir).f_size \div BY2BLK
  <2>1. FileIn(s.cache, dir) = FileIn(v, dir) /\ FileIn(v, dir).f_size \in Nat
    BY <1>2, FileHeld, FileFields
  <2>2. QED
    BY <1>1, <2>1, Dims DEF File
<1>4. PICK a : a = [s |-> s, r |-> E_NOT_FOUND, file |-> NoPlace]
  OBVIOUS
<1>5. PICK S : S = {x \in [s : FsState, r : Int, file : Place] : Found(x, s, v, dir)}
  OBVIOUS
<1>6. a \in S
  <2>1. a.s = s /\ a.r = E_NOT_FOUND /\ a.file = NoPlace
    BY <1>4
  <2>2. Found(a, s, v, dir)
    BY <2>1, ReadsRefl, Numbers DEF Found, E_NOT_FOUND
  <2>3. s \in FsState
    BY DEF Live
  <2>4. QED
    BY <1>4, <1>5, <2>2, <2>3, Numbers DEF E_NOT_FOUND
<1>7. ASSUME NEW n \in 1 .. N, NEW x \in S PROVE Look(x, dir, name, n - 1) \in S
  <2>1. PICK y : y = Look(x, dir, name, n - 1)
    OBVIOUS
  <2>2. n - 1 \in Nat /\ n - 1 < FileIn(v, dir).f_size \div BY2BLK
    BY <1>3
  <2>3. Found(x, s, v, dir)
    BY <1>5
  <2>4. Found(y, s, v, dir) /\ (y = x \/ y = [s |-> y.s, r |-> y.r, file |-> y.file])
    BY <2>1, <2>2, <2>3, LookFinds
  <2>5. y.s \in FsState /\ y.r \in Int /\ y.file \in Place
    BY <2>4 DEF Found, Reads, Live
  <2>6. y \in [s : FsState, r : Int, file : Place]
    BY <2>4, <2>5, <1>5
  <2>7. QED
    BY <1>5, <2>1, <2>4, <2>6
<1>8. PICK W : W = [n \in 0 .. N |-> S]
  OBVIOUS
<1>9. PICK G : G = [n \in 1 .. N |-> [x \in S |-> Look(x, dir, name, n - 1)]]
  OBVIOUS
<1>10. a \in W[0] /\ \A n \in 1 .. N : W[n - 1] = S /\ W[n] = S
  <2>1. 0 \in 0 .. N /\ \A n \in 1 .. N : n \in 0 .. N /\ n - 1 \in 0 .. N
    BY <1>3
  <2>2. QED
    BY <1>6, <1>8, <2>1
<1>11. PICK h : Looped(h, N, W, a, G)
  <2>1. \A n \in 1 .. N : \A x \in W[n - 1] : G[n][x] \in W[n]
    BY <1>7, <1>9, <1>10, Zenon
  <2>2. QED
    BY <1>3, <1>10, <2>1, Loop, Zenon
<1> DEFINE Body(f) == [i \in 0 .. N |-> IF i = 0 THEN [s |-> s, r |-> E_NOT_FOUND, file |-> NoPlace]
                                        ELSE Look(f[i - 1], dir, name, i - 1)]
<1>12. h = Body(h)
  <2>1. ASSUME NEW n \in 0 .. N PROVE h[n] = Body(h)[n]
    <3>1. CASE n = 0
      BY <1>4, <1>11, <3>1, Zenon DEF Looped
    <3>2. CASE n # 0
      <4>1. n \in 1 .. N
        BY <3>2
      <4>2. h[n] = Look(h[n - 1], dir, name, n - 1)
        BY <1>9, <1>10, <1>11, <4>1, Zenon DEF Looped
      <4>3. QED
        BY <3>2, <4>2, Zenon
    <3>3. QED
      BY <3>1, <3>2
  <2>2. h = [n \in 0 .. N |-> h[n]]
    BY <1>11, Zenon DEF Looped
  <2>3. QED
    BY <2>1, <2>2, Zenon
<1>13. PICK u : u = CHOOSE f : f = Body(f)
  OBVIOUS
<1>14. u = Body(u) /\ l = u[N]
  BY <1>1, <1>12, <1>13, Zenon DEF dir_lookup
<1>15. u[0] \in W[0]
  <2>1. 0 \in 0 .. N
    BY <1>3
  <2>2. u[0] = a
    BY <1>4, <1>14, <2>1, Zenon
  <2>3. QED
    BY <1>10, <2>2
<1>16. ASSUME NEW n \in 1 .. N, u[n - 1] \in W[n - 1] PROVE u[n] \in W[n]
  <2>1. n \in 0 .. N /\ n # 0
    BY <1>3
  <2>2. u[n] = Look(u[n - 1], dir, name, n - 1)
    BY <1>14, <2>1, Zenon
  <2>3. QED
    BY <1>7, <1>10, <1>16, <2>2, Zenon
<1>17. u[N] \in W[N]
  BY <1>3, <1>15, <1>16, LoopEnds, Zenon
<1>18. l \in S
  <2>1. N \in 0 .. N
    BY <1>3
  <2>2. QED
    BY <1>8, <1>14, <1>17, <2>1, Zenon
<1>19. QED
  BY <1>5, <1>18, Zenon

\* After k names of a path: the file, its directory if k > 0, or an error.
Walked(w, s, v, k) ==
  /\ Reads(w.s, s) /\ w.file \in Place /\ w.dir \in Place /\ w.r \in Int
  /\ \/ w.r < 0
     \/ /\ w.r = 0 /\ w.file \in Places(v) /\ Held(w.s, w.file)
        /\ k > 0 => /\ w.dir \in Places(v) /\ Held(w.s, w.dir)
                    /\ w.file[1] \in DirBlocks(v, w.dir) /\ w.file # Root

\* One name of the path.
LEMMA WalkOn ==
  ASSUME NEW s, NEW v, v = ViewOf(s), WellFormed(v), NEW k \in Nat,
         NEW acc, "r" \in DOMAIN acc, Walked(acc, s, v, k), NEW name, NEW w, w = Walk(acc, name)
  PROVE  Walked(w, s, v, k + 1)
<1>1. Reads(acc.s, s) /\ acc.file \in Place /\ acc.dir \in Place /\ acc.r \in Int
  BY DEF Walked
<1>2. CASE acc.r < 0
  <2>1. w = acc
    BY <1>2 DEF Walk
  <2>2. QED
    BY <1>1, <1>2, <2>1 DEF Walked
<1>3. CASE ~(acc.r < 0)
  <2>1. acc.file \in Places(v) /\ Held(acc.s, acc.file)
    BY <1>3 DEF Walked
  <2>2. Live(acc.s) /\ ViewOf(acc.s) = v
    BY <1>1 DEF Reads
  <2>3. FileIn(acc.s.cache, acc.file) = FileIn(v, acc.file)
    BY <1>1, <2>1, <2>2, FileHeld
  <2>4. CASE FileIn(v, acc.file).f_type # "dir"
    <3>1. w = [acc EXCEPT !.r = E_NOT_FOUND]
      BY <1>3, <2>3, <2>4 DEF Walk, File
    <3>2. w.s = acc.s /\ w.file = acc.file /\ w.dir = acc.dir
      BY <3>1
    <3>3. w.r = E_NOT_FOUND
      BY <3>1
    <3>4. QED
      BY <3>2, <3>3, <1>1, <1>3 DEF Walked, E_NOT_FOUND
  <2>5. CASE FileIn(v, acc.file).f_type = "dir"
    <3>1. PICK l : l = dir_lookup(acc.s, acc.file, name)
      OBVIOUS
    <3>2. w = [s |-> l.s, r |-> l.r, file |-> l.file, dir |-> acc.file]
      BY <1>3, <2>3, <2>5, <3>1 DEF Walk, File, With
    <3>3. Found(l, acc.s, v, acc.file)
      BY <2>1, <2>2, <2>5, <3>1, LookupFinds
    <3>4. Reads(l.s, acc.s) /\ l.file \in Place /\ l.r \in Int
      BY <3>3 DEF Found
    <3>5. Reads(l.s, s)
      BY <1>1, <3>4, ReadsTrans
    <3>6. CASE l.r < 0
      BY <1>1, <3>2, <3>4, <3>5, <3>6 DEF Walked
    <3>7. CASE ~(l.r < 0)
      <4>1. l.r = 0 /\ l.file[1] \in DirBlocks(v, acc.file) /\ Held(l.s, l.file)
        BY <3>3, <3>7 DEF Found
      <4>2. l.file[2] \in Slot /\ l.file = <<l.file[1], l.file[2]>>
        BY <3>4 DEF Place
      <4>3. l.file \in Places(v)
        BY <2>1, <4>1, <4>2, WellFormedIs, PlacesClosed
      <4>4. l.file # Root
        <5>1. l.file[1] >= 3 /\ l.file[1] \in Nat
          BY <2>1, <4>1, DirBlockIs, Numbers
        <5>2. QED
          BY <5>1, Numbers
      <4>5. Held(l.s, acc.file)
        BY <1>1, <2>1, <3>4, ReadsHeld DEF Reads
      <4>6. w.s = l.s /\ w.r = l.r /\ w.file = l.file /\ w.dir = acc.file
        BY <3>2
      <4>7. QED
        BY <1>1, <2>1, <3>4, <3>5, <4>1, <4>3, <4>4, <4>5, <4>6 DEF Walked
    <3>8. QED
      BY <3>6, <3>7
  <2>6. QED
    BY <2>4, <2>5
<1>4. QED
  BY <1>2, <1>3

\* walk_path ends with a file of the tree and its directory, or an error.
LEMMA PathWalks ==
  ASSUME NEW s, Live(s), NEW v, v = ViewOf(s), WellFormed(v), NEW path, Len(path) \in Nat,
         NEW w, w = walk_path(s, path)
  PROVE  Walked(w, s, v, Len(path))
<1>1. PICK N \in Nat : N = Len(path)
  OBVIOUS
<1>2. PICK a : a = [s |-> s, r |-> 0, file |-> Root, dir |-> NoPlace]
  OBVIOUS
<1>3. PICK S : S = [s : FsState, r : Int, file : Place, dir : Place]
  OBVIOUS
<1>4. PICK W : W = [n \in 0 .. N |-> {x \in S : Walked(x, s, v, n)}]
  OBVIOUS
<1>5. \A n \in 0 .. N : W[n] = {x \in S : Walked(x, s, v, n)}
  BY <1>4
<1>6. a \in W[0]
  <2>1. a.s = s /\ a.r = 0 /\ a.file = Root /\ a.dir = NoPlace
    BY <1>2
  <2>2. Root \in Places(v) /\ s \in FsState /\ Held(s, Root)
    BY RootIs, LiveView, Numbers DEF Live, Held
  <2>3. Walked(a, s, v, 0)
    BY <2>1, <2>2, ReadsRefl, Numbers DEF Walked
  <2>4. a \in S
    BY <1>2, <1>3, <2>2, Numbers
  <2>5. 0 \in 0 .. N
    OBVIOUS
  <2>6. QED
    BY <1>5, <2>3, <2>4, <2>5
<1>7. ASSUME NEW n \in 1 .. N, NEW x \in W[n - 1] PROVE Walk(x, path[n]) \in W[n]
  <2>1. PICK y : y = Walk(x, path[n])
    OBVIOUS
  <2>2. n - 1 \in Nat /\ n - 1 \in 0 .. N /\ n \in 0 .. N /\ (n - 1) + 1 = n
    OBVIOUS
  <2>3. x \in S /\ Walked(x, s, v, n - 1) /\ "r" \in DOMAIN x
    BY <1>3, <1>5, <2>2
  <2>4. Walked(y, s, v, (n - 1) + 1)
    BY <2>1, <2>2, <2>3, WalkOn
  <2>5. Walked(y, s, v, n)
    BY <2>2, <2>4
  <2>6. y.s \in FsState /\ y.r \in Int /\ y.file \in Place /\ y.dir \in Place
    BY <2>5 DEF Walked, Reads, Live
  <2>7. y = x \/ y = [x EXCEPT !.r = E_NOT_FOUND] \/ \E l : y = [s |-> l.s, r |-> l.r, file |-> l.file, dir |-> x.file]
    BY <2>1 DEF Walk, With
  <2>8. y \in S
    <3>1. CASE y = x
      BY <2>3, <3>1
    <3>2. CASE y = [x EXCEPT !.r = E_NOT_FOUND]
      BY <1>3, <2>3, <3>2 DEF E_NOT_FOUND
    <3>3. CASE \E l : y = [s |-> l.s, r |-> l.r, file |-> l.file, dir |-> x.file]
      BY <1>3, <2>6, <3>3
    <3>4. QED
      BY <2>7, <3>1, <3>2, <3>3
  <2>9. QED
    BY <1>5, <2>1, <2>2, <2>5, <2>8
<1>8. PICK G : G = [n \in 1 .. N |-> [x \in W[n - 1] |-> Walk(x, path[n])]]
  OBVIOUS
<1>9. PICK h : Looped(h, N, W, a, G)
  <2>1. \A n \in 1 .. N : \A x \in W[n - 1] : G[n][x] \in W[n]
    BY <1>7, <1>8, Zenon
  <2>2. QED
    BY <1>1, <1>6, <2>1, Loop, Zenon
<1> DEFINE Body(f) == [i \in 0 .. N |-> IF i = 0 THEN [s |-> s, r |-> 0, file |-> Root, dir |-> NoPlace] ELSE Walk(f[i - 1], path[i])]
<1>10. h = Body(h)
  <2>1. ASSUME NEW n \in 0 .. N PROVE h[n] = Body(h)[n]
    <3>1. CASE n = 0
      BY <1>2, <1>9, <3>1, Zenon DEF Looped
    <3>2. CASE n # 0
      <4>1. n \in 1 .. N
        BY <3>2
      <4>2. h[n] = Walk(h[n - 1], path[n])
        BY <1>8, <1>9, <4>1, Zenon DEF Looped
      <4>3. QED
        BY <3>2, <4>2, Zenon
    <3>3. QED
      BY <3>1, <3>2
  <2>2. h = [n \in 0 .. N |-> h[n]]
    BY <1>9, Zenon DEF Looped
  <2>3. QED
    BY <2>1, <2>2, Zenon
<1>11. PICK u : u = CHOOSE f : f = Body(f)
  OBVIOUS
<1>12. u = Body(u) /\ w = u[N]
  BY <1>1, <1>10, <1>11, Zenon DEF walk_path
<1>13. u[0] \in W[0]
  <2>1. 0 \in 0 .. N
    BY <1>1
  <2>2. u[0] = a
    BY <1>2, <1>12, <2>1, Zenon
  <2>3. QED
    BY <1>6, <2>2
<1>14. ASSUME NEW n \in 1 .. N, u[n - 1] \in W[n - 1] PROVE u[n] \in W[n]
  <2>1. n \in 0 .. N /\ n # 0
    BY <1>1
  <2>2. u[n] = Walk(u[n - 1], path[n])
    BY <1>12, <2>1, Zenon
  <2>3. QED
    BY <1>7, <1>14, <2>2, Zenon
<1>15. w \in W[N]
  BY <1>1, <1>12, <1>13, <1>14, LoopEnds, Zenon
<1>16. N \in 0 .. N
  BY <1>1
<1>17. QED
  BY <1>1, <1>5, <1>15, <1>16, Zenon

-----------------------------------------------------------------------------
(* Marking blocks dirty and flushing them.                                 *)

\* file_map_block without alloc: the pointer of the file, or an error.
LEMMA MapIs ==
  ASSUME NEW s, Live(s), NEW v, v = ViewOf(s), WellFormed(v), NEW f \in Places(v), Held(s, f), NEW n \in Nat,
         NEW m, m = file_map_block(s, f, n, FALSE)
  PROVE  /\ Reads(m.s, s)
         /\ m.r < 0 \/ (n \in 0 .. NINDIRECT - 1 /\ m.r = UseOf(v, f, n) /\ m.r # 0 /\ m.r \in Block)
         /\ n < NINDIRECT /\ Ptr(v, f, n) # 0 => m.r = Ptr(v, f, n) /\ ~(m.r < 0)
<1>1. Sane(s, f)
  BY SaneIs
<1>2. /\ Reads(m.s, s)
      /\ \/ m.r < 0 /\ m.r \in Int
         \/ n \in 0 .. NINDIRECT - 1 /\ m.r = Ptr(v, f, n) /\ m.r \in Nat \ {0}
      /\ n < NINDIRECT /\ Ptr(v, f, n) # 0 => m.r = Ptr(v, f, n)
  BY <1>1, MapReads
<1>3. ASSUME n \in 0 .. NINDIRECT - 1, m.r = Ptr(v, f, n), m.r # 0
      PROVE  m.r = UseOf(v, f, n) /\ m.r \in Block
  <2>1. m.r = UseOf(v, f, n)
    BY <1>3, UseOfIs, Zenon
  <2>2. n \in Pointers
    BY <1>3 DEF Pointers
  <2>3. Sole(v, f, n, m.r)
    BY <1>3, <2>1, <2>2, OwnedBy
  <2>4. QED
    BY <2>1, <2>3 DEF Sole
<1>4. ASSUME n < NINDIRECT, Ptr(v, f, n) # 0 PROVE m.r = Ptr(v, f, n) /\ ~(m.r < 0)
  <2>1. m.r = Ptr(v, f, n)
    BY <1>2, <1>4, Zenon
  <2>2. n \in 0 .. NINDIRECT - 1
    BY <1>4, Dims
  <2>3. PICK q \in Nat : q = Ptr(v, f, n)
    BY <1>1, <2>2, PtrIs
  <2>4. ~(q < 0)
    OBVIOUS
  <2>5. QED
    BY <2>1, <2>3, <2>4, Zenon
<1>5. QED
  BY <1>2, <1>3, <1>4

\* file_dirty reads, and marks.
LEMMA DirtyReads ==
  ASSUME NEW s, Live(s), WellFormed(ViewOf(s)), NEW f \in Places(ViewOf(s)), Held(s, f), NEW offset \in Nat,
         NEW n, n = file_dirty(s, f, offset).s
  PROVE  Reads(n, s)
<1>1. PICK k \in Nat : k = offset \div BY2BLK
  BY Dims
<1>2. PICK m : m = file_map_block(s, f, k, FALSE)
  OBVIOUS
<1>3. Reads(m.s, s) /\ (m.r < 0 \/ m.r \in Block)
  BY <1>2, MapIs
<1>4. CASE m.r < 0
  <2>1. n = m.s
    BY <1>1, <1>2, <1>4 DEF file_dirty, Try
  <2>2. QED
    BY <1>3, <2>1
<1>5. CASE ~(m.r < 0)
  <2>1. n = dirty_block(m.s, m.r).s /\ m.r \in Block
    BY <1>1, <1>2, <1>3, <1>5 DEF file_dirty, Try
  <2>2. PICK z : z = m.s
    OBVIOUS
  <2>3. Live(z) /\ z \in FsState
    BY <1>3, <2>2 DEF Reads, Live
  <2>4. CASE n = z
    BY <1>3, <2>2, <2>4
  <2>5. CASE n = [z EXCEPT !.dirty = z.dirty \cup {m.r}]
    <3>1. /\ n.disk = z.disk /\ n.hist = z.hist /\ n.bad = z.bad /\ n.pages = z.pages
          /\ n.cache = z.cache /\ n.dirty = z.dirty \cup {m.r} /\ n \in FsState
      BY <2>1, <2>3, <2>5 DEF FsState
    <3>2. Live(n) /\ Keeps(n, z)
      BY <2>3, <3>1 DEF Live, Keeps
    <3>3. ViewOf(n) = ViewOf(z)
      BY <3>1 DEF ViewOf, block_is_mapped
    <3>4. Reads(n, z)
      BY <3>1, <3>2, <3>3 DEF Reads
    <3>5. QED
      BY <1>3, <2>2, <3>4, ReadsTrans
  <2>6. QED
    BY <2>1, <2>2, <2>4, <2>5 DEF dirty_block, Ok, Ret
<1>6. QED
  BY <1>4, <1>5

\* So does marking every block of a file.
LEMMA DirtyAllReads ==
  ASSUME NEW s, Live(s), WellFormed(ViewOf(s)), NEW f \in Places(ViewOf(s)), Held(s, f),
         NEW size, NEW t, t = DirtyAll(s, f, size)
  PROVE  Reads(t, s)
<1>1. PICK N : N = Cardinality(Blocks(size))
  OBVIOUS
<1>2. N \in Nat
  <2>1. IsFiniteSet(0 .. NINDIRECT - 1)
    BY Dims, FS_Interval
  <2>2. Blocks(size) \subseteq 0 .. NINDIRECT - 1
    BY DEF Blocks, FileBlocks
  <2>3. QED
    BY <1>1, <2>1, <2>2, FS_Subset, FS_CardinalityType
<1>3. PICK a : a = s
  OBVIOUS
<1>4. PICK W : W = [n \in 0 .. N |-> {x \in FsState : Reads(x, s)}]
  OBVIOUS
<1>5. \A n \in 0 .. N : W[n] = {x \in FsState : Reads(x, s)}
  BY <1>4
<1>6. a \in W[0]
  <2>1. 0 \in 0 .. N
    BY <1>2
  <2>2. QED
    BY <1>3, <1>5, <2>1, ReadsRefl DEF Live
<1>7. ASSUME NEW n \in 1 .. N, NEW x \in W[n - 1] PROVE file_dirty(x, f, (n - 1) * BY2BLK).s \in W[n]
  <2>1. n - 1 \in Nat /\ n - 1 \in 0 .. N /\ n \in 0 .. N
    BY <1>2
  <2>2. PICK o \in Nat : o = (n - 1) * BY2BLK
    BY <2>1, Dims
  <2>3. PICK y : y = file_dirty(x, f, o).s
    OBVIOUS
  <2>4. Reads(x, s)
    BY <1>5, <2>1
  <2>5. Live(x) /\ ViewOf(x) = ViewOf(s) /\ Held(x, f)
    BY <2>4, RootIs, ReadsHeld DEF Reads
  <2>6. Reads(y, x)
    BY <2>3, <2>5, DirtyReads
  <2>7. Reads(y, s) /\ y \in FsState
    BY <2>4, <2>6, ReadsTrans DEF Reads, Live
  <2>8. QED
    BY <1>5, <2>1, <2>2, <2>3, <2>7
<1>8. PICK G : G = [n \in 1 .. N |-> [x \in W[n - 1] |-> file_dirty(x, f, (n - 1) * BY2BLK).s]]
  OBVIOUS
<1>9. PICK h : Looped(h, N, W, a, G)
  <2>1. \A n \in 1 .. N : \A x \in W[n - 1] : G[n][x] \in W[n]
    BY <1>7, <1>8, Zenon
  <2>2. QED
    BY <1>2, <1>6, <2>1, Loop, Zenon
<1> DEFINE Body(q) == [i \in 0 .. N |-> IF i = 0 THEN s ELSE file_dirty(q[i - 1], f, (i - 1) * BY2BLK).s]
<1>10. h = Body(h)
  <2>1. ASSUME NEW n \in 0 .. N PROVE h[n] = Body(h)[n]
    <3>1. CASE n = 0
      BY <1>3, <1>9, <3>1, Zenon DEF Looped
    <3>2. CASE n # 0
      <4>1. n \in 1 .. N
        BY <3>2
      <4>2. h[n] = file_dirty(h[n - 1], f, (n - 1) * BY2BLK).s
        BY <1>8, <1>9, <4>1, Zenon DEF Looped
      <4>3. QED
        BY <3>2, <4>2, Zenon
    <3>3. QED
      BY <3>1, <3>2
  <2>2. h = [n \in 0 .. N |-> h[n]]
    BY <1>9, Zenon DEF Looped
  <2>3. QED
    BY <2>1, <2>2, Zenon
<1>11. PICK u : u = CHOOSE q : q = Body(q)
  OBVIOUS
<1>12. u = Body(u) /\ t = u[N]
  BY <1>1, <1>10, <1>11, Zenon DEF DirtyAll
<1>13. u[0] \in W[0]
  <2>1. 0 \in 0 .. N
    BY <1>2
  <2>2. u[0] = a
    BY <1>3, <1>12, <2>1, Zenon
  <2>3. QED
    BY <1>6, <2>2
<1>14. ASSUME NEW n \in 1 .. N, u[n - 1] \in W[n - 1] PROVE u[n] \in W[n]
  <2>1. n \in 0 .. N /\ n # 0
    BY <1>2
  <2>2. u[n] = file_dirty(u[n - 1], f, (n - 1) * BY2BLK).s
    BY <1>12, <2>1, Zenon
  <2>3. QED
    BY <1>7, <1>14, <2>2, Zenon
<1>15. t \in W[N]
  BY <1>2, <1>12, <1>13, <1>14, LoopEnds, Zenon
<1>16. N \in 0 .. N
  BY <1>2
<1>17. QED
  BY <1>5, <1>15, <1>16, Zenon

-----------------------------------------------------------------------------

Wrote(t, s, b) ==
  /\ Live(t) /\ t.cache = s.cache /\ t.dirty = s.dirty /\ t.bad = s.bad /\ t.pages = s.pages
  /\ ViewOf(t) = ViewOf(s)
  /\ t.disk = [s.disk EXCEPT ![b] = ViewOf(s)[b]]
  /\ Disks(t) = Disks(s) \cup {t.disk}

\* write_block puts the cached block on the disk, and nothing else.
LEMMA WriteIs ==
  ASSUME NEW s, Live(s), NEW b \in Block, s.cache[b] # NoBlock, NEW t, t = write_block(s, b)
  PROVE  Wrote(t, s, b)
<1>1. s \in FsState
  BY DEF Live
<1>2. t = [s EXCEPT !.disk[b] = s.cache[b], !.hist = s.hist \cup {s.disk}]
  BY DEF write_block, block_is_mapped
<1>3. s.cache[b] = ViewOf(s)[b] /\ s.cache[b] \in Content /\ ViewOf(s) \in [Block -> Content]
  BY <1>1, ViewIs
<1>4. /\ t.cache = s.cache /\ t.dirty = s.dirty /\ t.bad = s.bad /\ t.pages = s.pages
      /\ t.disk = [s.disk EXCEPT ![b] = s.cache[b]] /\ t.hist = s.hist \cup {s.disk}
  BY <1>1, <1>2, StateFields
<1>5. t.disk \in [Block -> Content] /\ t.hist \in SUBSET Stage
  BY <1>1, <1>3, <1>4, StateFields, Staged
<1>6. t \in FsState
  BY <1>1, <1>2, <1>4, <1>5 DEF FsState
<1>7. Live(t)
  BY <1>4, <1>6 DEF Live
<1>8. ViewOf(t) = ViewOf(s)
  <2>1. ASSUME NEW x \in Block PROVE ViewOf(t)[x] = ViewOf(s)[x]
    <3>1. CASE s.cache[x] # NoBlock
      <4>1. ViewOf(t)[x] = t.cache[x] /\ ViewOf(s)[x] = s.cache[x]
        BY <1>1, <1>4, <1>6, <3>1, ViewIs
      <4>2. QED
        BY <1>4, <4>1
    <3>2. CASE s.cache[x] = NoBlock
      <4>1. x # b /\ t.disk[x] = s.disk[x]
        BY <1>1, <1>4, <3>2, StateFields
      <4>2. ViewOf(t)[x] = t.disk[x] /\ ViewOf(s)[x] = s.disk[x]
        BY <1>1, <1>4, <1>6, <3>2, ViewIs
      <4>3. QED
        BY <4>1, <4>2
    <3>3. QED
      BY <3>1, <3>2
  <2>2. QED
    BY <1>1, <1>6, <2>1, ViewIs
<1>9. Disks(t) = Disks(s) \cup {t.disk}
  BY <1>4 DEF Disks
<1>10. QED
  BY <1>3, <1>4, <1>7, <1>8, <1>9 DEF Wrote

\* t is s after flushes of an operation that started with the blocks v.
Flushed(t, s, v, c) ==
  /\ Live(t) /\ Keeps(t, s) /\ t.bad = s.bad /\ t.pages = s.pages /\ ViewOf(t) = ViewOf(s)
  /\ \A d \in Disks(t) : Lower(d, v, c)
  /\ \A b \in Block : s.disk[b] = ViewOf(s)[b] => t.disk[b] = ViewOf(s)[b]

\* Nothing is flushed.
LEMMA FlushedRefl ==
  ASSUME NEW s, Live(s), NEW v, NEW c, \A d \in Disks(s) : Lower(d, v, c)
  PROVE  Flushed(s, s, v, c)
  BY KeepsRefl DEF Flushed

\* Flushes one after the other.
LEMMA FlushedTrans ==
  ASSUME NEW t, NEW s, NEW r, NEW v, NEW c, Flushed(t, s, v, c), Flushed(s, r, v, c)
  PROVE  Flushed(t, r, v, c)
  BY KeepsTrans DEF Flushed

\* One turn of file_flush: the disks lag behind v still, and block n is saved if it was dirty.
LEMMA FlushOne ==
  ASSUME NEW s, Live(s), NEW w, w = ViewOf(s), NEW v, WellFormed(v), Settled(w, v), NEW c,
         \A d \in Disks(s) : Lower(d, v, c), NEW g \in Places(w), Held(s, g), NEW n \in Nat,
         NEW t, t = FlushBlock(s, g, n)
  PROVE  /\ Flushed(t, s, v, c)
         /\ n < NINDIRECT => \A b \in s.dirty : b = Ptr(w, g, n) /\ b # 0 /\ s.cache[b] # NoBlock => t.disk[b] = w[b]
<1>1. PICK m : m = file_map_block(s, g, n, FALSE)
  OBVIOUS
<1>2. WellFormed(w)
  BY DEF Settled
<1>3. /\ Reads(m.s, s)
      /\ m.r < 0 \/ (n \in 0 .. NINDIRECT - 1 /\ m.r = UseOf(w, g, n) /\ m.r # 0 /\ m.r \in Block)
      /\ n < NINDIRECT /\ Ptr(w, g, n) # 0 => m.r = Ptr(w, g, n) /\ ~(m.r < 0)
  BY <1>1, <1>2, MapIs, ZenonT(60)
<1>4. /\ Live(m.s) /\ Keeps(m.s, s) /\ m.s.disk = s.disk /\ m.s.hist = s.hist /\ m.s.bad = s.bad
      /\ m.s.pages = s.pages /\ ViewOf(m.s) = w
  BY <1>3 DEF Reads
<1>5. Flushed(m.s, s, v, c)
  BY <1>4 DEF Flushed, Disks
<1>6. CASE m.r < 0 \/ ~block_is_dirty(m.s, m.r)
  <2>1. t = m.s
    BY <1>1, <1>6 DEF FlushBlock, With
  <2>2. ASSUME n < NINDIRECT, NEW b \in s.dirty, b = Ptr(w, g, n), b # 0, s.cache[b] # NoBlock PROVE FALSE
    <3>1. m.r = b /\ ~(m.r < 0) /\ b \in Block
      BY <1>3, <2>2
    <3>2. block_is_dirty(m.s, b)
      BY <1>4, <2>2, <3>1 DEF block_is_dirty, block_is_mapped, Keeps
    <3>3. QED
      BY <1>6, <3>1, <3>2
  <2>3. QED
    BY <1>5, <2>1, <2>2
<1>7. CASE ~(m.r < 0) /\ block_is_dirty(m.s, m.r)
  <2>1. t = write_block(m.s, m.r)
    BY <1>1, <1>7 DEF FlushBlock, With
  <2>2. PICK b : b = m.r
    OBVIOUS
  <2>3. n \in 0 .. NINDIRECT - 1 /\ b = UseOf(w, g, n) /\ b # 0 /\ b \in Block /\ m.s.cache[b] # NoBlock
    BY <1>3, <1>7, <2>2 DEF block_is_dirty, block_is_mapped
  <2>4. /\ Live(t) /\ t.cache = m.s.cache /\ t.dirty = m.s.dirty /\ t.bad = m.s.bad /\ t.pages = m.s.pages
        /\ ViewOf(t) = w /\ t.disk = [s.disk EXCEPT ![b] = w[b]]
        /\ Disks(t) = Disks(m.s) \cup {t.disk}
    <3>1. Wrote(t, m.s, b)
      BY <1>4, <2>1, <2>2, <2>3, WriteIs
    <3>2. QED
      BY <1>4, <3>1 DEF Wrote
  <2>5. Lower(s.disk, v, c)
    BY DEF Disks
  <2>6. Lower(t.disk, v, c)
    BY <2>3, <2>4, <2>5, LowerWrite
  <2>7. \A d \in Disks(t) : Lower(d, v, c)
    BY <2>4, <2>6, <1>4 DEF Disks
  <2>8. DOMAIN s.disk = Block
    BY StateFields DEF Live
  <2>9. \A x \in Block : s.disk[x] = w[x] => t.disk[x] = w[x]
    BY <2>3, <2>4, <2>8
  <2>10. Flushed(t, s, v, c)
    <3>1. Keeps(t, s)
      BY <1>4, <2>4 DEF Keeps
    <3>2. QED
      BY <1>4, <2>4, <2>7, <2>9, <3>1 DEF Flushed
  <2>11. t.disk[b] = w[b]
    BY <2>3, <2>4, <2>8
  <2>12. UseOf(w, g, n) = Ptr(w, g, n)
    BY <2>3, UseOfIs, Zenon
  <2>13. QED
    BY <2>3, <2>10, <2>11, <2>12
<1>8. QED
  BY <1>6, <1>7

\* The blocks of g below k that were dirty are on the disk as s has them.
Through(t, s, g, k) ==
  \A n \in 0 .. k - 1, b \in s.dirty :
     n < NINDIRECT /\ b = Ptr(ViewOf(s), g, n) /\ b # 0 /\ s.cache[b] # NoBlock => t.disk[b] = ViewOf(s)[b]

\* N turns of file_flush: the disks lag behind v still, and all the dirty blocks are saved.
LEMMA FlushAll ==
  ASSUME NEW s, Live(s), NEW w, w = ViewOf(s), NEW v, WellFormed(v), Settled(w, v), NEW c,
         \A d \in Disks(s) : Lower(d, v, c), NEW g \in Places(w), Held(s, g), NEW N \in Nat,
         NEW t, t = FlushBlocks(s, g, N)
  PROVE  Flushed(t, s, v, c) /\ Through(t, s, g, N)
<1>1. g \in Place
  BY RootIs
<1>2. PICK a : a = s
  OBVIOUS
<1>3. PICK W : W = [n \in 0 .. N |-> {x \in FsState : Flushed(x, s, v, c) /\ Through(x, s, g, n)}]
  OBVIOUS
<1>4. \A n \in 0 .. N : W[n] = {x \in FsState : Flushed(x, s, v, c) /\ Through(x, s, g, n)}
  BY <1>3
<1>5. a \in W[0]
  <2>1. 0 \in 0 .. N
    OBVIOUS
  <2>2. Flushed(s, s, v, c) /\ s \in FsState
    BY FlushedRefl DEF Live
  <2>3. Through(s, s, g, 0)
    BY DEF Through
  <2>4. QED
    BY <1>2, <1>4, <2>1, <2>2, <2>3
<1>6. ASSUME NEW n \in 1 .. N, NEW x \in W[n - 1] PROVE FlushBlock(x, g, n - 1) \in W[n]
  <2>1. n - 1 \in Nat /\ n - 1 \in 0 .. N /\ n \in 0 .. N
    OBVIOUS
  <2>2. PICK y : y = FlushBlock(x, g, n - 1)
    OBVIOUS
  <2>3. Flushed(x, s, v, c) /\ Through(x, s, g, n - 1)
    BY <1>4, <2>1
  <2>4. Live(x) /\ ViewOf(x) = w /\ Keeps(x, s) /\ \A d \in Disks(x) : Lower(d, v, c)
    BY <2>3 DEF Flushed
  <2>5. Held(x, g)
    BY <1>1, <2>4, ReadsHeld
  <2>6. /\ Flushed(y, x, v, c)
        /\ n - 1 < NINDIRECT => \A b \in x.dirty : b = Ptr(w, g, n - 1) /\ b # 0 /\ x.cache[b] # NoBlock => y.disk[b] = w[b]
    BY <2>1, <2>2, <2>4, <2>5, FlushOne
  <2>7. Flushed(y, s, v, c) /\ y \in FsState
    BY <2>3, <2>6, FlushedTrans DEF Flushed, Live
  <2>8. Through(y, s, g, n)
    <3>1. SUFFICES ASSUME NEW k \in 0 .. n - 1, NEW b \in s.dirty, k < NINDIRECT, b = Ptr(w, g, k), b # 0,
                          s.cache[b] # NoBlock
                   PROVE  y.disk[b] = w[b]
      BY DEF Through
    <3>2. b \in Block /\ b \in x.dirty /\ x.cache[b] # NoBlock
      <4>1. b \in Block
        BY StateFields DEF Live
      <4>2. QED
        BY <2>4, <3>1, <4>1 DEF Keeps
    <3>3. CASE k = n - 1
      BY <2>6, <3>1, <3>2, <3>3
    <3>4. CASE k # n - 1
      <4>1. k \in 0 .. (n - 1) - 1
        BY <3>4
      <4>2. x.disk[b] = w[b]
        BY <2>3, <3>1, <4>1 DEF Through
      <4>3. QED
        BY <2>4, <2>6, <3>2, <4>2 DEF Flushed
    <3>5. QED
      BY <3>3, <3>4
  <2>9. QED
    BY <1>4, <2>1, <2>2, <2>7, <2>8
<1>7. PICK G : G = [n \in 1 .. N |-> [x \in W[n - 1] |-> FlushBlock(x, g, n - 1)]]
  OBVIOUS
<1>8. PICK h : Looped(h, N, W, a, G)
  <2>1. \A n \in 1 .. N : \A x \in W[n - 1] : G[n][x] \in W[n]
    BY <1>6, <1>7, Zenon
  <2>2. QED
    BY <1>5, <2>1, Loop, Zenon
<1> DEFINE Body(f) == [i \in 0 .. N |-> IF i = 0 THEN s ELSE FlushBlock(f[i - 1], g, i - 1)]
<1>9. h = Body(h)
  <2>1. ASSUME NEW n \in 0 .. N PROVE h[n] = Body(h)[n]
    <3>1. CASE n = 0
      BY <1>2, <1>8, <3>1, Zenon DEF Looped
    <3>2. CASE n # 0
      <4>1. n \in 1 .. N
        BY <3>2
      <4>2. h[n] = FlushBlock(h[n - 1], g, n - 1)
        BY <1>7, <1>8, <4>1, Zenon DEF Looped
      <4>3. QED
        BY <3>2, <4>2, Zenon
    <3>3. QED
      BY <3>1, <3>2
  <2>2. h = [n \in 0 .. N |-> h[n]]
    BY <1>8, Zenon DEF Looped
  <2>3. QED
    BY <2>1, <2>2, Zenon
<1>10. PICK u : u = CHOOSE q : q = Body(q)
  OBVIOUS
<1>11. u = Body(u) /\ t = u[N]
  BY <1>9, <1>10, Zenon DEF FlushBlocks
<1>12. u[0] \in W[0]
  <2>1. 0 \in 0 .. N
    OBVIOUS
  <2>2. u[0] = a
    BY <1>2, <1>11, <2>1, Zenon
  <2>3. QED
    BY <1>5, <2>2
<1>13. ASSUME NEW n \in 1 .. N, u[n - 1] \in W[n - 1] PROVE u[n] \in W[n]
  <2>1. n \in 0 .. N /\ n # 0
    OBVIOUS
  <2>2. u[n] = FlushBlock(u[n - 1], g, n - 1)
    BY <1>11, <2>1, Zenon
  <2>3. QED
    BY <1>6, <1>13, <2>2, Zenon
<1>14. t \in W[N]
  BY <1>11, <1>12, <1>13, LoopEnds, Zenon
<1>15. N \in 0 .. N
  OBVIOUS
<1>16. QED
  BY <1>4, <1>14, <1>15, Zenon

-----------------------------------------------------------------------------
(* Stores of the server into the cache.                                    *)

Edits(t, s) ==
  /\ Live(t) /\ Keeps(t, s)
  /\ t.disk = s.disk /\ t.hist = s.hist /\ t.bad = s.bad /\ t.pages = s.pages

\* Stores one after the other.
LEMMA EditsTrans ==
  ASSUME NEW t, NEW s, NEW r, Edits(t, s), Edits(s, r)
  PROVE  Edits(t, r)
  BY KeepsTrans DEF Edits

\* Reads store nothing.
LEMMA ReadsEdits == ASSUME NEW t, NEW s, Reads(t, s) PROVE Edits(t, s)
  BY DEF Reads, Edits

\* A store into one cached block, which leaves superblock and bitmap ones.
Storable(s, b, x) ==
  /\ Live(s) /\ b \in Block /\ s.cache[b] # NoBlock /\ x \in Content
  /\ b = 1 => x.t = "super"
  /\ b = 2 => x.t = "bitmap" /\ x.free \subseteq Block \ {0, 1, 2}
Store1(s, b, x) == [s EXCEPT !.cache = [s.cache EXCEPT ![b] = x], !.dirty = s.dirty \cup {b}]
Stored(t, s, b, x) ==
  /\ Edits(t, s) /\ t.cache = [s.cache EXCEPT ![b] = x] /\ b \in t.dirty
  /\ ViewOf(t) = [ViewOf(s) EXCEPT ![b] = x]

\* What a store into a cached block does to the view.
LEMMA StoreIs ==
  ASSUME NEW s, NEW b, NEW x, Storable(s, b, x), NEW t, t = Store1(s, b, x)
  PROVE  Stored(t, s, b, x)
<1>1. /\ Live(s) /\ b \in Block /\ s.cache[b] # NoBlock /\ x \in Content
      /\ b = 1 => x.t = "super"
      /\ b = 2 => x.t = "bitmap" /\ x.free \subseteq Block \ {0, 1, 2}
      /\ t = [s EXCEPT !.cache = [s.cache EXCEPT ![b] = x], !.dirty = s.dirty \cup {b}]
  BY DEF Storable, Store1
<1>2. s \in FsState /\ s.cache \in [Block -> Cached] /\ DOMAIN s.cache = Block
  BY <1>1, StateFields DEF Live
<1>3. /\ t.disk = s.disk /\ t.hist = s.hist /\ t.bad = s.bad /\ t.pages = s.pages
      /\ t.cache = [s.cache EXCEPT ![b] = x] /\ t.dirty = s.dirty \cup {b}
  BY <1>1, <1>2, StateFields
<1>4. t.cache \in [Block -> Cached]
  BY <1>1, <1>2, <1>3 DEF Cached
<1>5. t \in FsState
  <2>1. s.dirty \cup {b} \in SUBSET Block
    BY <1>1, <1>2, StateFields
  <2>2. QED
    BY <1>1, <1>2, <1>3, <1>4, <2>1 DEF FsState
<1>6. x # NoBlock
  BY <1>1, NotNoBlock
<1>7. Live(t)
  <2>1. t.cache[1].t = "super"
    BY <1>1, <1>2, <1>3, Numbers DEF Live
  <2>2. t.cache[2].t = "bitmap" /\ t.cache[2].free \subseteq Block \ {0, 1, 2}
    BY <1>1, <1>2, <1>3, Numbers DEF Live
  <2>3. QED
    BY <1>1, <1>5, <2>1, <2>2 DEF Live
<1>8. Keeps(t, s)
  BY <1>1, <1>2, <1>3, <1>6 DEF Keeps
<1>9. ViewOf(t) = [ViewOf(s) EXCEPT ![b] = x]
  <2>1. ViewOf(s) \in [Block -> Content] /\ ViewOf(t) \in [Block -> Content]
    BY <1>1, <1>2, <1>5, ViewIs
  <2>2. ASSUME NEW y \in Block PROVE ViewOf(t)[y] = [ViewOf(s) EXCEPT ![b] = x][y]
    <3>1. CASE y = b
      <4>1. t.cache[b] = x
        BY <1>1, <1>2, <1>3
      <4>2. ViewOf(t)[b] = x
        BY <1>1, <1>5, <1>6, <4>1, ViewIs
      <4>3. QED
        BY <1>1, <2>1, <3>1, <4>2
    <3>2. CASE y # b
      <4>1. t.cache[y] = s.cache[y]
        BY <1>1, <1>2, <1>3, <3>2
      <4>2. ViewOf(t)[y] = ViewOf(s)[y]
        BY <1>1, <1>3, <4>1 DEF ViewOf, block_is_mapped
      <4>3. QED
        BY <1>1, <2>1, <3>2, <4>2
    <3>3. QED
      BY <1>1, <3>1, <3>2
  <2>3. QED
    BY <1>1, <2>1, <2>2
<1>10. QED
  BY <1>1, <1>3, <1>7, <1>8, <1>9 DEF Edits, Stored

BitmapSet(t, s, free) ==
  /\ Edits(t, s) /\ bitmap(t) = free
  /\ ViewOf(t) = [ViewOf(s) EXCEPT ![2] = [t |-> "bitmap", free |-> free]]
  /\ t.cache = [s.cache EXCEPT ![2] = [t |-> "bitmap", free |-> free]]

\* What a store into the bitmap does to the view.
LEMMA BitmapIs ==
  ASSUME NEW s, Live(s), NEW free, free \subseteq Block \ {0, 1, 2}, NEW t, t = SetBitmap(s, free)
  PROVE  BitmapSet(t, s, free)
<1>1. s \in FsState /\ s.cache \in [Block -> Cached] /\ 2 \in Block
  BY StateFields, Numbers DEF Live
<1>2. s.cache[2] = [t |-> "bitmap", free |-> s.cache[2].free]
  BY <1>1, SuperIs DEF Live
<1>3. [s.cache[2] EXCEPT !.free = free] = [t |-> "bitmap", free |-> free]
  BY <1>2
<1>4. t = [s EXCEPT !.cache = [s.cache EXCEPT ![2] = [t |-> "bitmap", free |-> free]],
                    !.dirty = s.dirty \cup {2}]
  BY <1>1, <1>3, StateFields DEF SetBitmap
<1>5. PICK x : x = [t |-> "bitmap", free |-> free]
  OBVIOUS
<1>6. x.t = "bitmap" /\ x.free = free /\ x \in Content
  BY <1>5 DEF Content
<1>7. /\ Edits(t, s) /\ t.cache = [s.cache EXCEPT ![2] = x]
      /\ ViewOf(t) = [ViewOf(s) EXCEPT ![2] = x]
  <2>1. t = [s EXCEPT !.cache = [s.cache EXCEPT ![2] = x], !.dirty = s.dirty \cup {2}]
    BY <1>4, <1>5
  <2>2. Storable(s, 2, x)
    BY <1>1, <1>6, LiveView DEF Storable
  <2>3. Stored(t, s, 2, x)
    BY <2>1, <2>2, StoreIs DEF Store1
  <2>4. QED
    BY <2>3 DEF Stored
<1>8. t.cache[2] = x
  BY <1>1, <1>7
<1>9. QED
  BY <1>5, <1>6, <1>7, <1>8 DEF bitmap, BitmapSet

\* A struct File stored at the place f of a cached block.
FileStored(w, v, f, file) ==
  /\ FileIn(w, f) = file
  /\ \A b \in Block : b # f[1] => w[b] = v[b]
  /\ \A g \in Place : g # f /\ (g[1] = 1 => g = Root) => FileIn(w, g) = FileIn(v, g)

\* What a store of a struct File does to the view.
LEMMA StoreFileIs ==
  ASSUME NEW s, Live(s), NEW f \in Place, f[1] = 1 => f = Root, f[1] # 2, Held(s, f), NEW file \in FileType,
         NEW t, t = StoreFile(s, f, file)
  PROVE  Edits(t, s) /\ f[1] \in t.dirty /\ FileStored(ViewOf(t), ViewOf(s), f, file)
<1>1. s \in FsState /\ s.cache \in [Block -> Cached] /\ f[1] \in Block /\ Readable(s.cache)
  BY StateFields, LiveView DEF Live, Place
<1>2. PICK e : e = PutFile(s.cache, f, file)
  OBVIOUS
<1>3. /\ Readable(e) /\ e[f[1]] \in Content
      /\ \A b \in Block : b # f[1] => e[b] = s.cache[b]
      /\ FileIn(e, f) = file
      /\ \A g \in Place : g # f /\ (g[1] = 1 => g = Root) => FileIn(e, g) = FileIn(s.cache, g)
  BY <1>1, <1>2, PutFrame
<1>4. PICK x \in Content : x = e[f[1]]
  BY <1>3
<1>5. e = [s.cache EXCEPT ![f[1]] = x]
  <2>1. e \in [Block -> Cached]
    BY <1>3 DEF Readable
  <2>2. ASSUME NEW b \in Block PROVE e[b] = [s.cache EXCEPT ![f[1]] = x][b]
    BY <1>1, <1>3, <1>4
  <2>3. QED
    BY <1>1, <2>1, <2>2
<1>6. t = [s EXCEPT !.cache = [s.cache EXCEPT ![f[1]] = x], !.dirty = s.dirty \cup {f[1]}]
  BY <1>2, <1>5 DEF StoreFile
<1>7. f[1] = 1 => x.t = "super"
  BY <1>3, <1>4 DEF Readable
<1>8. /\ Edits(t, s) /\ t.cache = [s.cache EXCEPT ![f[1]] = x] /\ f[1] \in t.dirty
      /\ ViewOf(t) = [ViewOf(s) EXCEPT ![f[1]] = x]
  <2>1. Storable(s, f[1], x)
    BY <1>1, <1>7 DEF Held, Storable
  <2>2. Stored(t, s, f[1], x)
    BY <1>6, <2>1, StoreIs DEF Store1
  <2>3. QED
    BY <2>2 DEF Stored
<1>9. ViewOf(s) \in [Block -> Content]
  BY <1>1, ViewIs
<1>10. \A b \in Block : b # f[1] => ViewOf(t)[b] = ViewOf(s)[b]
  BY <1>8, <1>9
<1>11. ViewOf(t)[f[1]] = e[f[1]]
  BY <1>1, <1>4, <1>8, <1>9
<1>12. FileIn(ViewOf(t), f) = file
  BY <1>3, <1>11, FileFrame
<1>13. ASSUME NEW g \in Place, g # f, g[1] = 1 => g = Root PROVE FileIn(ViewOf(t), g) = FileIn(ViewOf(s), g)
  <2>1. g[1] \in Block
    BY DEF Place
  <2>2. CASE g[1] = f[1]
    <3>1. ViewOf(t)[g[1]] = e[g[1]] /\ ViewOf(s)[g[1]] = s.cache[g[1]]
      BY <1>1, <1>11, <2>2, ViewIs DEF Held
    <3>2. FileIn(ViewOf(t), g) = FileIn(e, g)
      BY <3>1, FileFrame
    <3>3. FileIn(ViewOf(s), g) = FileIn(s.cache, g)
      BY <3>1, FileFrame
    <3>4. QED
      BY <1>3, <1>13, <3>2, <3>3
  <2>3. CASE g[1] # f[1]
    <3>1. ViewOf(t)[g[1]] = ViewOf(s)[g[1]]
      BY <1>10, <2>1, <2>3
    <3>2. QED
      BY <3>1, FileFrame
  <2>4. QED
    BY <2>2, <2>3
<1>14. QED
  BY <1>8, <1>10, <1>12, <1>13 DEF FileStored

\* The indirect block of file f is not the block its struct is in.
Apart(v, f) ==
  /\ f \in Place /\ f[1] \in Block \ {0, 2} /\ (f[1] = 1 => f = Root)
  /\ FileIn(v, f).f_indirect # 0 =>
       /\ FileIn(v, f).f_indirect \in Block /\ FileIn(v, f).f_indirect >= 3
       /\ FileIn(v, f).f_indirect # f[1]

\* In well formed blocks a file's indirect block is not where its struct is.
LEMMA ApartIs ==
  ASSUME NEW v, WellFormed(v), NEW f \in Places(v)
  PROVE  Apart(v, f)
<1>1. Role(v, f)
  BY RoleIs
<1>2. PICK x : x = FileIn(v, f).f_indirect
  OBVIOUS
<1>3. x \in Block /\ (x # 0 => x >= 3)
  BY <1>2, IndirectIs
<1>4. QED
  BY <1>1, <1>2, <1>3 DEF Role, Apart

PtrsFrom(w, v, f, file) ==
  /\ UseOf(w, f, -1) = UseOf(v, f, -1)
  /\ \A m \in 0 .. NDIRECT - 1 : UseOf(w, f, m) = file.f_direct[m]
  /\ \A m \in NDIRECT .. NINDIRECT - 1 : UseOf(w, f, m) = UseOf(v, f, m)

\* A struct File that is stored brings its own direct pointers.
LEMMA StoredUses ==
  ASSUME NEW v, NEW f, Apart(v, f), NEW file, NEW w, FileStored(w, v, f, file),
         file.f_indirect = FileIn(v, f).f_indirect
  PROVE  PtrsFrom(w, v, f, file)
<1>1. FileIn(w, f) = file
  BY DEF FileStored
<1>2. PICK i : i = FileIn(v, f).f_indirect
  OBVIOUS
<1>3. UseOf(w, f, -1) = i /\ UseOf(v, f, -1) = i
  BY <1>1, <1>2, UseOfIs
<1>4. ASSUME NEW m \in 0 .. NDIRECT - 1 PROVE UseOf(w, f, m) = file.f_direct[m]
  BY <1>1, UseOfIs
<1>5. ASSUME NEW m \in NDIRECT .. NINDIRECT - 1 PROVE UseOf(w, f, m) = UseOf(v, f, m)
  <2>1. CASE i = 0
    <3>1. FileIn(w, f).f_indirect = 0 /\ FileIn(v, f).f_indirect = 0
      BY <1>1, <1>2, <2>1
    <3>2. UseOf(w, f, m) = 0 /\ UseOf(v, f, m) = 0
      BY <3>1, UseOfIs
    <3>3. QED
      BY <3>2
  <2>2. CASE i # 0
    <3>1. i \in Block /\ i # f[1]
      BY <1>2, <2>2 DEF Apart
    <3>2. w[i] = v[i]
      BY <3>1 DEF FileStored
    <3>3. UseOf(w, f, m) = AsIndex(w[i])[m] /\ UseOf(v, f, m) = AsIndex(v[i])[m]
      BY <1>1, <1>2, <2>2, UseOfIs
    <3>4. QED
      BY <3>2, <3>3
  <2>3. QED
    BY <2>1, <2>2
<1>6. QED
  BY <1>3, <1>4, <1>5 DEF PtrsFrom

\* Pointer n of file f set to b.
PtrSet(w, v, f, n, b) ==
  /\ FileIn(w, f).f_type = FileIn(v, f).f_type /\ FileIn(w, f).f_size = FileIn(v, f).f_size
  /\ FileIn(w, f).f_indirect = FileIn(v, f).f_indirect
  /\ UseOf(w, f, n) = b
  /\ \A m \in Pointers : m # n => UseOf(w, f, m) = UseOf(v, f, m)
  /\ \A g \in Place : g # f /\ (g[1] = 1 => g = Root) /\ g[1] # FileIn(v, f).f_indirect
                         => FileIn(w, g) = FileIn(v, g)
  /\ n < NDIRECT => \A x \in Block : x # f[1] => w[x] = v[x]
  /\ n >= NDIRECT => \A x \in Block : x # FileIn(v, f).f_indirect => w[x] = v[x]

\* What a store of a pointer does to the view, in the struct or in the indirect block.
LEMMA StorePtrIs ==
  ASSUME NEW s, Live(s), NEW v, v = ViewOf(s), NEW f, Apart(v, f), Held(s, f), NEW n \in 0 .. NINDIRECT - 1,
         NEW b \in Nat,
         n >= NDIRECT => FileIn(v, f).f_indirect # 0 /\ s.cache[FileIn(v, f).f_indirect] # NoBlock,
         NEW t, t = StorePtr(s, f, n, b)
  PROVE  Edits(t, s) /\ PtrSet(ViewOf(t), v, f, n, b)
<1>1. f \in Place /\ f[1] \in Block \ {0, 2} /\ (f[1] = 1 => f = Root)
  BY DEF Apart
<1>2. PICK x \in FileType : x = FileIn(v, f) /\ File(s, f) = x
  BY <1>1, FileHeld DEF File
<1>3. PICK w : w = ViewOf(t)
  OBVIOUS
<1>4. CASE n < NDIRECT
  <2>1. PICK y : y = [x EXCEPT !.f_direct[n] = b]
    OBVIOUS
  <2>2. n \in 0 .. NDIRECT - 1
    BY <1>4, Dims
  <2>3. /\ y \in FileType /\ y.f_type = x.f_type /\ y.f_size = x.f_size /\ y.f_indirect = x.f_indirect
        /\ y.f_direct = [x.f_direct EXCEPT ![n] = b]
    BY <2>1, <2>2 DEF FileType
  <2>4. t = StoreFile(s, f, y)
    BY <1>2, <1>4, <2>1 DEF StorePtr
  <2>5. Edits(t, s) /\ FileStored(w, v, f, y)
    BY <1>1, <1>3, <2>3, <2>4, StoreFileIs
  <2>6. FileIn(w, f) = y /\ \A c \in Block : c # f[1] => w[c] = v[c]
    BY <2>5 DEF FileStored
  <2>7. \A g \in Place : g # f /\ (g[1] = 1 => g = Root) => FileIn(w, g) = FileIn(v, g)
    BY <2>5 DEF FileStored
  <2>8. /\ UseOf(w, f, -1) = UseOf(v, f, -1)
        /\ \A m \in 0 .. NDIRECT - 1 : UseOf(w, f, m) = y.f_direct[m]
        /\ \A m \in NDIRECT .. NINDIRECT - 1 : UseOf(w, f, m) = UseOf(v, f, m)
    <3>1. y.f_indirect = FileIn(v, f).f_indirect
      BY <1>2, <2>3
    <3>2. PtrsFrom(w, v, f, y)
      BY <2>5, <3>1, StoredUses
    <3>3. QED
      BY <3>2 DEF PtrsFrom
  <2>9. ASSUME NEW m \in 0 .. NDIRECT - 1 PROVE UseOf(w, f, m) = IF m = n THEN b ELSE UseOf(v, f, m)
    <3>1. UseOf(v, f, m) = x.f_direct[m]
      BY <1>2, UseOfIs
    <3>2. y.f_direct[m] = IF m = n THEN b ELSE x.f_direct[m]
      BY <2>3, FileFields
    <3>3. QED
      BY <2>8, <3>1, <3>2
  <2>10. UseOf(w, f, n) = b
    BY <2>2, <2>9
  <2>11. \A m \in Pointers : m # n => UseOf(w, f, m) = UseOf(v, f, m)
    BY <2>8, <2>9, PointersAre
  <2>12. ~(n >= NDIRECT)
    BY <1>4, Dims
  <2>13. FileIn(w, f).f_type = FileIn(v, f).f_type /\ FileIn(w, f).f_size = FileIn(v, f).f_size
         /\ FileIn(w, f).f_indirect = FileIn(v, f).f_indirect
    BY <1>2, <2>3, <2>6
  <2>14. PtrSet(w, v, f, n, b)
    BY <2>6, <2>7, <2>10, <2>11, <2>12, <2>13 DEF PtrSet
  <2>15. QED
    BY <1>3, <2>5, <2>14
<1>5. CASE ~(n < NDIRECT)
  <2>1. n >= NDIRECT /\ n \in NDIRECT .. NINDIRECT - 1
    BY <1>5, Dims
  <2>2. PICK i : i = x.f_indirect
    OBVIOUS
  <2>3. i \in Block /\ i >= 3 /\ i # f[1] /\ s.cache[i] # NoBlock
    BY <1>2, <2>1, <2>2 DEF Apart
  <2>4. s \in FsState /\ s.cache \in [Block -> Cached] /\ v \in [Block -> Content] /\ s.cache[i] = v[i]
    BY <2>3, StateFields, ViewIs DEF Live
  <2>5. AsIndex(v[i]) \in [0 .. NINDIRECT - 1 -> Nat]
    BY <2>3, <2>4, AsIndexIs DEF Cached
  <2>6. PICK p : p = [AsIndex(v[i]) EXCEPT ![n] = b]
    OBVIOUS
  <2>7. p \in [0 .. NINDIRECT - 1 -> Nat]
    BY <2>5, <2>6
  <2>8. PICK y : y = [t |-> "index", p |-> p]
    OBVIOUS
  <2>9. y \in Content /\ AsIndex(y) = p
    BY <2>7, <2>8 DEF Content, AsIndex
  <2>10. t = Store1(s, i, y)
    BY <1>2, <1>5, <2>2, <2>4, <2>6, <2>8, StateFields DEF StorePtr, Store1
  <2>11. Storable(s, i, y)
    BY <2>3, <2>9 DEF Storable
  <2>12. Stored(t, s, i, y)
    BY <2>10, <2>11, StoreIs
  <2>13. Edits(t, s) /\ w = [v EXCEPT ![i] = y]
    BY <1>3, <2>12 DEF Stored
  <2>14. w[i] = y /\ \A c \in Block : c # i => w[c] = v[c]
    BY <2>3, <2>4, <2>13
  <2>15. ASSUME NEW g \in Place, g[1] # i PROVE FileIn(w, g) = FileIn(v, g)
    <3>1. w[g[1]] = v[g[1]]
      BY <2>14, <2>15 DEF Place
    <3>2. QED
      BY <3>1, FileFrame
  <2>16. FileIn(w, f) = x
    BY <1>1, <1>2, <2>3, <2>15
  <2>17. ASSUME NEW m \in Pointers PROVE UseOf(w, f, m) = IF m = n THEN b ELSE UseOf(v, f, m)
    <3>1. CASE m = -1
      BY <1>2, <2>1, <2>16, <3>1, Dims, UseOfIs
    <3>2. CASE m \in 0 .. NDIRECT - 1
      <4>1. m # n
        BY <2>1, <3>2, Dims
      <4>2. UseOf(w, f, m) = x.f_direct[m] /\ UseOf(v, f, m) = x.f_direct[m]
        BY <1>2, <2>16, <3>2, UseOfIs
      <4>3. QED
        BY <4>1, <4>2
    <3>3. CASE m \in NDIRECT .. NINDIRECT - 1
      <4>1. UseOf(w, f, m) = AsIndex(w[i])[m] /\ UseOf(v, f, m) = AsIndex(v[i])[m]
        <5>1. FileIn(w, f).f_indirect = i /\ FileIn(v, f).f_indirect = i /\ i # 0
          BY <1>2, <2>2, <2>3, <2>16
        <5>2. QED
          BY <3>3, <5>1, UseOfIs
      <4>2. AsIndex(w[i]) = p
        BY <2>9, <2>14
      <4>3. p[m] = IF m = n THEN b ELSE AsIndex(v[i])[m]
        <5>1. m \in 0 .. NINDIRECT - 1
          BY <3>3, Dims
        <5>2. QED
          BY <2>5, <2>6, <5>1
      <4>4. QED
        BY <4>1, <4>2, <4>3
    <3>4. QED
      BY <3>1, <3>2, <3>3, PointersAre
  <2>18. n \in Pointers /\ UseOf(w, f, n) = b
    <3>1. n \in Pointers
      BY DEF Pointers
    <3>2. QED
      BY <2>17, <3>1
  <2>19. \A m \in Pointers : m # n => UseOf(w, f, m) = UseOf(v, f, m)
    BY <2>17
  <2>20. PtrSet(w, v, f, n, b)
    BY <1>2, <1>5, <2>2, <2>14, <2>15, <2>16, <2>18, <2>19 DEF PtrSet
  <2>21. QED
    BY <1>3, <2>13, <2>20
<1>6. QED
  BY <1>4, <1>5

-----------------------------------------------------------------------------
(* Truncating a file f of the blocks v.                                    *)

\* Blocks that differ in the bitmap only.
Alike(x, w, f) == FileIn(x, f) = FileIn(w, f) /\ \A m \in Pointers : UseOf(x, f, m) = UseOf(w, f, m)

\* The bitmap is not where the pointers of a file are.
LEMMA BitmapFrame ==
  ASSUME NEW w, NEW x, NEW u, \A c \in Block : c # 2 => x[c] = w[c],
         NEW f, f \in Place, f[1] # 2, u = FileIn(w, f).f_indirect, u # 0 => u \in Block /\ u # 2
  PROVE  Alike(x, w, f)
<1>1. f[1] \in Block
  BY DEF Place
<1>2. x[f[1]] = w[f[1]]
  BY <1>1
<1>3. FileIn(x, f) = FileIn(w, f)
  BY <1>2, FileFrame
<1>4. FileIn(w, f).f_indirect # 0 => AsIndex(x[FileIn(w, f).f_indirect]) = AsIndex(w[FileIn(w, f).f_indirect])
  OBVIOUS
<1>5. QED
  BY <1>3, <1>4, UseFrame DEF Alike

Pruning(s, s0, v, f) ==
  /\ Edits(s, s0) /\ Pruned(ViewOf(s), v, f)
  /\ WellFormed(v) /\ f \in Places(v) /\ Held(s0, f)

\* A file that loses blocks can be read all the time.
LEMMA PruningSane ==
  ASSUME NEW s, NEW s0, NEW v, NEW f, Pruning(s, s0, v, f)
  PROVE  Sane(s, f) /\ Apart(ViewOf(s), f) /\ Role(v, f)
<1>1. /\ Live(s) /\ Keeps(s, s0) /\ Pruned(ViewOf(s), v, f)
      /\ WellFormed(v) /\ f \in Places(v) /\ Held(s0, f)
  BY DEF Pruning, Edits
<1>2. Role(v, f)
  BY <1>1, RoleIs
<1>3. f \in Place /\ f[1] \in Block \ {0, 2} /\ (f[1] = 1 => f = Root) /\ Held(s, f)
  BY <1>1, <1>2, ReadsHeld DEF Role
<1>4. PICK w : w = ViewOf(s)
  OBVIOUS
<1>5. PICK x : x = FileIn(w, f).f_indirect
  OBVIOUS
<1>6. UseOf(w, f, -1) = x /\ -1 \in Pointers
  BY <1>5, UseOfIs, Dims DEF Pointers
<1>7. x # 0 => x \in Block /\ x >= 3 /\ x # f[1] /\ x \notin w[2].free
  <2>1. SUFFICES ASSUME x # 0 PROVE x \in Block /\ x >= 3 /\ x # f[1] /\ x \notin w[2].free
    OBVIOUS
  <2>2. UseOf(w, f, -1) = UseOf(v, f, -1) /\ x \notin w[2].free
    BY <1>1, <1>4, <1>6, <2>1, PrunedOwned
  <2>3. FileIn(v, f).f_indirect = x
    BY <1>6, <2>2, UseOfIs
  <2>4. x \in Block /\ x >= 3
    BY <1>1, <2>1, <2>3, IndirectIs
  <2>5. x # f[1]
    BY <1>1, <1>2, <2>3 DEF Role
  <2>6. QED
    BY <2>2, <2>4, <2>5
<1>8. w[2].free = bitmap(s)
  BY <1>1, <1>4, LiveView
<1>9. QED
  BY <1>1, <1>2, <1>3, <1>4, <1>5, <1>7, <1>8 DEF Sane, Apart

\* Reads while a file loses blocks.
LEMMA PruningReads ==
  ASSUME NEW s, NEW s0, NEW v, NEW f, Pruning(s, s0, v, f), NEW t, Reads(t, s)
  PROVE  Pruning(t, s0, v, f)
<1>1. Edits(t, s0)
  BY ReadsEdits, EditsTrans DEF Pruning
<1>2. ViewOf(t) = ViewOf(s)
  BY DEF Reads
<1>3. QED
  BY <1>1, <1>2 DEF Pruning

\* free_block of a block that a pointer of f had.
LEMMA FreeIs ==
  ASSUME NEW s, Live(s), NEW w, w = ViewOf(s), NEW b \in Block, b >= 3, NEW t, t = free_block(s, b)
  PROVE  /\ Edits(t, s) /\ ViewOf(t)[2].free = w[2].free \cup {b} /\ bitmap(t) = bitmap(s) \cup {b}
         /\ \A c \in Block : c # 2 => ViewOf(t)[c] = w[c]
         /\ \A c \in Block : c # 2 => t.cache[c] = s.cache[c]
<1>1. b # 0 /\ b # 1 /\ b # 2
  OBVIOUS
<1>2. t = SetBitmap(s, bitmap(s) \cup {b})
  BY <1>1 DEF free_block
<1>3. PICK x : x = bitmap(s) \cup {b}
  OBVIOUS
<1>4. x \subseteq Block \ {0, 1, 2} /\ w[2].free = bitmap(s)
  BY <1>1, <1>3, LiveView DEF Live, bitmap
<1>5. /\ Edits(t, s) /\ bitmap(t) = x
      /\ ViewOf(t) = [w EXCEPT ![2] = [t |-> "bitmap", free |-> x]]
      /\ t.cache = [s.cache EXCEPT ![2] = [t |-> "bitmap", free |-> x]]
  <2>1. t = SetBitmap(s, x)
    BY <1>2, <1>3
  <2>2. BitmapSet(t, s, x)
    BY <1>4, <2>1, BitmapIs
  <2>3. QED
    BY <2>2 DEF BitmapSet
<1>6. DOMAIN w = Block /\ DOMAIN s.cache = Block /\ 2 \in Block
  BY ViewIs, StateFields, Numbers DEF Live
<1>7. ViewOf(t)[2].free = x
  BY <1>5, <1>6
<1>8. QED
  BY <1>3, <1>4, <1>5, <1>6, <1>7

\* What file_clear_block leaves alone.
Cleared(w, v, f, n) ==
  /\ FileIn(w, f).f_indirect = FileIn(v, f).f_indirect /\ FileIn(w, f).f_size = FileIn(v, f).f_size
  /\ \A m \in Pointers : m # n => UseOf(w, f, m) = UseOf(v, f, m)

\* file_clear_block takes one more pointer from f.
LEMMA ClearOne ==
  ASSUME NEW s, NEW s0, NEW v, NEW f, Pruning(s, s0, v, f), NEW n \in Nat, NEW t, t = file_clear_block(s, f, n)
  PROVE  Pruning(t, s0, v, f) /\ Cleared(ViewOf(t), ViewOf(s), f, n)
<1>1. Sane(s, f) /\ Apart(ViewOf(s), f) /\ Role(v, f)
  BY PruningSane
<1>2. PICK w : w = ViewOf(s)
  OBVIOUS
<1>3. PICK x : x = file_block_walk(s, f, n, FALSE)
  OBVIOUS
<1>4. /\ Reads(x.s, s) /\ x.r \in {0, E_INVAL, E_NOT_FOUND}
      /\ x.r >= 0 <=> n < NDIRECT \/ (n < NINDIRECT /\ FileIn(w, f).f_indirect # 0)
      /\ x.r >= 0 => /\ n \in 0 .. NINDIRECT - 1 /\ Ptr(x.s.cache, f, n) = Ptr(w, f, n)
                     /\ n >= NDIRECT => x.s.cache[FileIn(w, f).f_indirect] # NoBlock
  BY <1>1, <1>2, <1>3, WalkReads
<1>5. PICK q : q = Ptr(x.s.cache, f, n)
  OBVIOUS
<1>6. CASE x.r < 0 \/ q = 0
  <2>1. t = x.s
    BY <1>3, <1>5, <1>6 DEF file_clear_block, With
  <2>2. ViewOf(t) = w
    BY <1>2, <1>4, <2>1 DEF Reads
  <2>3. Cleared(w, w, f, n)
    BY DEF Cleared
  <2>4. QED
    BY <1>2, <1>4, <2>1, <2>2, <2>3, PruningReads
<1>7. CASE ~(x.r < 0) /\ q # 0
  <2>1. t = StorePtr(free_block(x.s, q), f, n, 0)
    BY <1>3, <1>5, <1>7 DEF file_clear_block, With
  <2>2. x.r >= 0
    BY <1>4, <1>7 DEF E_INVAL, E_NOT_FOUND
  <2>3. n \in 0 .. NINDIRECT - 1 /\ n \in Pointers /\ q = UseOf(w, f, n)
    <3>1. n \in 0 .. NINDIRECT - 1 /\ q = Ptr(w, f, n)
      BY <1>4, <1>5, <2>2
    <3>2. UseOf(w, f, n) = Ptr(w, f, n)
      BY <3>1, UseOfIs, Zenon
    <3>3. QED
      BY <3>1, <3>2 DEF Pointers
  <2>4. n >= NDIRECT => FileIn(w, f).f_indirect # 0 /\ x.s.cache[FileIn(w, f).f_indirect] # NoBlock
    BY <1>4, <2>2, Dims
  <2>5. Pruned(w, v, f) /\ WellFormed(v) /\ f \in Places(v)
    BY <1>2 DEF Pruning
  <2>6. q = UseOf(v, f, n)
    BY <1>7, <2>3, <2>5 DEF Pruned
  <2>7. Sole(v, f, n, q)
    BY <1>7, <2>3, <2>5, <2>6, OwnedBy
  <2>8. q \in Block /\ q >= 3
    BY <2>7 DEF Sole
  <2>9. Pruning(x.s, s0, v, f) /\ Live(x.s) /\ ViewOf(x.s) = w
    BY <1>2, <1>4, PruningReads DEF Reads
  <2>10. PICK y : y = free_block(x.s, q)
    OBVIOUS
  <2>11. PICK w1 : w1 = ViewOf(y)
    OBVIOUS
  <2>12. /\ Edits(y, x.s) /\ w1[2].free = w[2].free \cup {q}
         /\ \A c \in Block : c # 2 => w1[c] = w[c]
         /\ \A c \in Block : c # 2 => y.cache[c] = x.s.cache[c]
    BY <2>8, <2>9, <2>10, <2>11, FreeIs
  <2>13. PICK i : i = FileIn(w, f).f_indirect
    OBVIOUS
  <2>14. f \in Place /\ f[1] \in Block \ {0, 2} /\ (i # 0 => i \in Block /\ i >= 3 /\ i # 2 /\ i # f[1])
    BY <1>1, <1>2, <2>13 DEF Apart
  <2>15. FileIn(w1, f) = FileIn(w, f) /\ \A m \in Pointers : UseOf(w1, f, m) = UseOf(w, f, m)
    <3>1. f[1] # 2 /\ (i # 0 => i \in Block /\ i # 2)
      BY <2>14
    <3>2. Alike(w1, w, f)
      BY <2>12, <2>13, <2>14, <3>1, BitmapFrame
    <3>3. QED
      BY <3>2 DEF Alike
  <2>16. Apart(w1, f)
    BY <1>1, <1>2, <2>15 DEF Apart
  <2>17. Live(y) /\ Held(y, f)
    BY <1>1, <2>12, <2>14, SaneReads, <1>4 DEF Edits, Held, Sane
  <2>18. n >= NDIRECT => FileIn(w1, f).f_indirect # 0 /\ y.cache[FileIn(w1, f).f_indirect] # NoBlock
    <3>1. SUFFICES ASSUME n >= NDIRECT PROVE i # 0 /\ y.cache[i] # NoBlock
      BY <2>13, <2>15
    <3>2. i # 0 /\ x.s.cache[i] # NoBlock
      BY <2>4, <2>13, <3>1
    <3>3. QED
      BY <2>12, <2>14, <3>2
  <2>19. PICK w2 : w2 = ViewOf(t)
    OBVIOUS
  <2>20. Edits(t, y) /\ PtrSet(w2, w1, f, n, 0)
    BY <2>1, <2>3, <2>10, <2>11, <2>16, <2>17, <2>18, <2>19, StorePtrIs
  <2>21. Edits(t, s0) /\ Live(t)
    BY <2>9, <2>12, <2>20, EditsTrans DEF Pruning, Edits
  <2>22. /\ FileIn(w2, f).f_type = FileIn(w, f).f_type /\ FileIn(w2, f).f_size = FileIn(w, f).f_size
         /\ FileIn(w2, f).f_indirect = i /\ UseOf(w2, f, n) = 0
         /\ \A m \in Pointers : m # n => UseOf(w2, f, m) = UseOf(w, f, m)
    BY <2>13, <2>15, <2>20 DEF PtrSet
  <2>23. \A c \in Block : c # f[1] /\ c # i => w2[c] = w1[c]
    <3>1. n < NDIRECT \/ n >= NDIRECT
      BY Dims
    <3>2. QED
      BY <2>13, <2>15, <2>20, <3>1 DEF PtrSet
  <2>24. 2 \in Block /\ 2 # f[1] /\ 2 # i
    BY <2>14, Numbers
  <2>25. w2[2] = w1[2]
    BY <2>23, <2>24
  <2>26. Pruned(w2, v, f)
    <3>1. Image(w2)
      BY <2>19, <2>21, LiveView
    <3>2. v[2].free \subseteq w2[2].free
      BY <2>5, <2>12, <2>25 DEF Pruned
    <3>3. ASSUME NEW c \in w2[2].free \ v[2].free PROVE \E m \in Pointers : UseOf(v, f, m) = c /\ UseOf(w2, f, m) = 0
      <4>1. CASE c = q
        BY <2>3, <2>6, <2>22, <4>1
      <4>2. CASE c # q
        <5>1. c \in w[2].free \ v[2].free
          BY <2>12, <2>25, <3>3, <4>2
        <5>2. PICK m \in Pointers : UseOf(v, f, m) = c /\ UseOf(w, f, m) = 0
          BY <2>5, <5>1 DEF Pruned
        <5>3. UseOf(w2, f, m) = 0
          BY <2>22, <5>2
        <5>4. QED
          BY <5>2, <5>3
      <4>3. QED
        BY <4>1, <4>2
    <3>4. ASSUME NEW g \in Places(v), g # f PROVE FileIn(w2, g) = FileIn(v, g)
      <4>1. Role(v, g)
        BY <2>5, RoleIs
      <4>2. g \in Place /\ g[1] \in Block \ {0, 2} /\ (g[1] = 1 => g = Root) /\ g[1] # i
        <5>1. i = 0 \/ i = FileIn(v, f).f_indirect
          <6>1. UseOf(w, f, -1) = i /\ UseOf(v, f, -1) = FileIn(v, f).f_indirect /\ -1 \in Pointers
            BY <2>13, UseOfIs, Dims DEF Pointers
          <6>2. QED
            BY <2>5, <6>1 DEF Pruned
        <5>2. QED
          BY <2>5, <4>1, <5>1 DEF Role
      <4>3. w1[g[1]] = w[g[1]]
        BY <2>12, <4>2
      <4>4. FileIn(w1, g) = FileIn(w, g)
        BY <4>2, <4>3, FileFrame
      <4>5. FileIn(w2, g) = FileIn(w1, g)
        BY <2>13, <2>15, <2>20, <3>4, <4>2 DEF PtrSet
      <4>6. QED
        BY <2>5, <3>4, <4>4, <4>5 DEF Pruned
    <3>5. FileIn(w2, f).f_type = FileIn(v, f).f_type
      BY <2>5, <2>22 DEF Pruned
    <3>6. ASSUME NEW m \in Pointers PROVE UseOf(w2, f, m) \in {0, UseOf(v, f, m)}
      BY <2>5, <2>22 DEF Pruned
    <3>7. ASSUME NEW c \in Block, c \notin {f[1], FileIn(v, f).f_indirect, 2} PROVE w2[c] = v[c]
      <4>1. w[c] = v[c] /\ w1[c] = w[c]
        BY <2>5, <2>12, <3>7 DEF Pruned
      <4>2. CASE n < NDIRECT
        BY <2>20, <3>7, <4>1, <4>2 DEF PtrSet
      <4>3. CASE ~(n < NDIRECT)
        <5>1. i # 0
          BY <2>4, <2>13, <4>3, Dims
        <5>2. i = FileIn(v, f).f_indirect
          <6>1. UseOf(w, f, -1) = i /\ UseOf(v, f, -1) = FileIn(v, f).f_indirect /\ -1 \in Pointers
            BY <2>13, UseOfIs, Dims DEF Pointers
          <6>2. QED
            BY <2>5, <5>1, <6>1 DEF Pruned
        <5>3. QED
          BY <2>23, <3>7, <4>1, <5>2
      <4>4. QED
        BY <4>2, <4>3
    <3>8. QED
      BY <3>1, <3>2, <3>3, <3>4, <3>5, <3>6, <3>7 DEF Pruned
  <2>27. Cleared(w2, w, f, n)
    BY <2>13, <2>22 DEF Cleared
  <2>28. QED
    BY <1>2, <2>5, <2>19, <2>21, <2>26, <2>27 DEF Pruning
<1>8. QED
  BY <1>6, <1>7

\* The pointers of f below lo, its size and its indirect block are as in v.
Trimmed(s, s0, v, f, lo) ==
  /\ Pruning(s, s0, v, f)
  /\ FileIn(ViewOf(s), f).f_indirect = FileIn(v, f).f_indirect /\ FileIn(ViewOf(s), f).f_size = FileIn(v, f).f_size
  /\ \A m \in Pointers : m < lo => UseOf(ViewOf(s), f, m) = UseOf(v, f, m)

\* The loop of file_truncate takes the pointers from lo on.
LEMMA ClearAll ==
  ASSUME NEW s, Live(s), NEW v, v = ViewOf(s), WellFormed(v), NEW f \in Places(v), Held(s, f), NEW lo \in Nat,
         NEW N \in Nat, NEW t, t = ClearBlocks(s, f, lo, N)
  PROVE  Trimmed(t, s, v, f, lo)
<1>1. PICK a : a = s
  OBVIOUS
<1>2. PICK W : W = [n \in 0 .. N |-> {x \in FsState : Trimmed(x, s, v, f, lo)}]
  OBVIOUS
<1>3. \A n \in 0 .. N : W[n] = {x \in FsState : Trimmed(x, s, v, f, lo)}
  BY <1>2
<1>4. a \in W[0]
  <2>1. 0 \in 0 .. N
    OBVIOUS
  <2>2. Pruned(v, v, f)
    BY LiveView, PrunedRefl
  <2>3. Edits(s, s)
    BY KeepsRefl DEF Edits
  <2>4. Trimmed(s, s, v, f, lo) /\ s \in FsState
    BY <2>2, <2>3 DEF Trimmed, Pruning, Live
  <2>5. QED
    BY <1>1, <1>3, <2>1, <2>4
<1>5. ASSUME NEW n \in 1 .. N, NEW x \in W[n - 1]
      PROVE  (IF n <= lo THEN x ELSE file_clear_block(x, f, n - 1)) \in W[n]
  <2>1. n - 1 \in Nat /\ n - 1 \in 0 .. N /\ n \in 0 .. N
    OBVIOUS
  <2>2. Trimmed(x, s, v, f, lo) /\ x \in FsState
    BY <1>3, <2>1
  <2>3. CASE n <= lo
    BY <1>3, <2>1, <2>2, <2>3
  <2>4. CASE ~(n <= lo)
    <3>1. PICK y : y = file_clear_block(x, f, n - 1)
      OBVIOUS
    <3>2. Pruning(x, s, v, f)
      BY <2>2 DEF Trimmed
    <3>3. Pruning(y, s, v, f) /\ Cleared(ViewOf(y), ViewOf(x), f, n - 1)
      BY <2>1, <3>1, <3>2, ClearOne
    <3>4. y \in FsState
      BY <3>3 DEF Pruning, Edits, Live
    <3>5. \A m \in Pointers : m < lo => m # n - 1
      BY <2>4, Dims DEF Pointers
    <3>6. Trimmed(y, s, v, f, lo)
      BY <2>2, <3>3, <3>5 DEF Trimmed, Cleared
    <3>7. QED
      BY <1>3, <2>1, <2>4, <3>1, <3>4, <3>6
  <2>5. QED
    BY <2>3, <2>4
<1>6. PICK G : G = [n \in 1 .. N |-> [x \in W[n - 1] |-> (IF n <= lo THEN x ELSE file_clear_block(x, f, n - 1))]]
  OBVIOUS
<1>7. PICK h : Looped(h, N, W, a, G)
  <2>1. \A n \in 1 .. N : \A x \in W[n - 1] : G[n][x] \in W[n]
    BY <1>5, <1>6, Zenon
  <2>2. QED
    BY <1>4, <2>1, Loop, Zenon
<1> DEFINE Body(q) == [i \in 0 .. N |-> IF i = 0 THEN s ELSE (IF i <= lo THEN q[i - 1] ELSE file_clear_block(q[i - 1], f, i - 1))]
<1>8. h = Body(h)
  <2>1. ASSUME NEW n \in 0 .. N PROVE h[n] = Body(h)[n]
    <3>1. CASE n = 0
      BY <1>1, <1>7, <3>1, Zenon DEF Looped
    <3>2. CASE n # 0
      <4>1. n \in 1 .. N
        BY <3>2
      <4>2. h[n] = (IF n <= lo THEN h[n - 1] ELSE file_clear_block(h[n - 1], f, n - 1))
        BY <1>6, <1>7, <4>1, Zenon DEF Looped
      <4>3. QED
        BY <3>2, <4>2, Zenon
    <3>3. QED
      BY <3>1, <3>2
  <2>2. h = [n \in 0 .. N |-> h[n]]
    BY <1>7, Zenon DEF Looped
  <2>3. QED
    BY <2>1, <2>2, Zenon
<1>9. PICK u : u = CHOOSE q : q = Body(q)
  OBVIOUS
<1>10. u = Body(u) /\ t = u[N]
  BY <1>8, <1>9, Zenon DEF ClearBlocks
<1>11. u[0] \in W[0]
  <2>1. 0 \in 0 .. N
    OBVIOUS
  <2>2. u[0] = a
    BY <1>1, <1>10, <2>1, Zenon
  <2>3. QED
    BY <1>4, <2>2
<1>12. ASSUME NEW n \in 1 .. N, u[n - 1] \in W[n - 1] PROVE u[n] \in W[n]
  <2>1. n \in 0 .. N /\ n # 0
    OBVIOUS
  <2>2. u[n] = (IF n <= lo THEN u[n - 1] ELSE file_clear_block(u[n - 1], f, n - 1))
    BY <1>10, <2>1, Zenon
  <2>3. QED
    BY <1>5, <1>12, <2>2, Zenon
<1>13. t \in W[N]
  BY <1>10, <1>11, <1>12, LoopEnds, Zenon
<1>14. N \in 0 .. N
  OBVIOUS
<1>15. QED
  BY <1>3, <1>13, <1>14, Zenon

\* What one more store has to do for the blocks to stay v with f pruned.
LEMMA PrunedStep ==
  ASSUME NEW v, NEW f, NEW w, Pruned(w, v, f), NEW x, Image(x), NEW F, x[2].free = w[2].free \cup F,
         \A q \in F : \E n \in Pointers : UseOf(v, f, n) = q /\ UseOf(x, f, n) = 0,
         \A g \in Places(v) : g # f => FileIn(x, g) = FileIn(w, g),
         FileIn(x, f).f_type = FileIn(w, f).f_type,
         \A m \in Pointers : UseOf(x, f, m) \in {0, UseOf(w, f, m)},
         \A c \in Block : c \notin {f[1], FileIn(v, f).f_indirect, 2} => x[c] = w[c]
  PROVE  Pruned(x, v, f)
<1>1. v[2].free \subseteq x[2].free
  BY DEF Pruned
<1>2. ASSUME NEW c \in x[2].free \ v[2].free PROVE \E n \in Pointers : UseOf(v, f, n) = c /\ UseOf(x, f, n) = 0
  <2>1. CASE c \in F
    BY <2>1
  <2>2. CASE c \notin F
    <3>1. c \in w[2].free \ v[2].free
      BY <2>2
    <3>2. PICK n \in Pointers : UseOf(v, f, n) = c /\ UseOf(w, f, n) = 0
      BY <3>1 DEF Pruned
    <3>3. UseOf(x, f, n) = 0
      BY <3>2
    <3>4. QED
      BY <3>2, <3>3
  <2>3. QED
    BY <2>1, <2>2
<1>3. \A g \in Places(v) : g # f => FileIn(x, g) = FileIn(v, g)
  BY DEF Pruned
<1>4. FileIn(x, f).f_type = FileIn(v, f).f_type
  BY DEF Pruned
<1>5. ASSUME NEW m \in Pointers PROVE UseOf(x, f, m) \in {0, UseOf(v, f, m)}
  <2>1. UseOf(x, f, m) \in {0, UseOf(w, f, m)} /\ UseOf(w, f, m) \in {0, UseOf(v, f, m)}
    BY DEF Pruned
  <2>2. QED
    BY <2>1
<1>6. \A c \in Block : c \notin {f[1], FileIn(v, f).f_indirect, 2} => x[c] = v[c]
  BY DEF Pruned
<1>7. QED
  BY <1>1, <1>2, <1>3, <1>4, <1>5, <1>6 DEF Pruned

\* A store that leaves the pointers of f: its size, its name.
LEMMA FieldPrunes ==
  ASSUME NEW s, NEW s0, NEW v, NEW f, Pruning(s, s0, v, f), NEW old, old = FileIn(ViewOf(s), f),
         NEW file \in FileType, file.f_type = old.f_type, file.f_direct = old.f_direct,
         file.f_indirect = old.f_indirect, NEW t, t = StoreFile(s, f, file)
  PROVE  /\ Pruning(t, s0, v, f) /\ f[1] \in t.dirty /\ FileIn(ViewOf(t), f) = file
         /\ \A m \in Pointers : UseOf(ViewOf(t), f, m) = UseOf(ViewOf(s), f, m)
<1>1. Sane(s, f) /\ Apart(ViewOf(s), f) /\ Role(v, f)
  BY PruningSane
<1>2. Live(s) /\ Held(s, f) /\ f \in Place /\ f[1] \in Block \ {0, 2} /\ (f[1] = 1 => f = Root)
  BY <1>1 DEF Sane, Apart
<1>3. PICK w : w = ViewOf(s)
  OBVIOUS
<1>4. PICK x : x = ViewOf(t)
  OBVIOUS
<1>5. Edits(t, s) /\ f[1] \in t.dirty /\ FileStored(x, w, f, file)
  BY <1>2, <1>3, <1>4, StoreFileIs
<1>6. PtrsFrom(x, w, f, file)
  BY <1>1, <1>3, <1>5, StoredUses
<1>7. \A m \in 0 .. NDIRECT - 1 : UseOf(w, f, m) = file.f_direct[m]
  BY <1>3, UseOfIs
<1>8. \A m \in Pointers : UseOf(x, f, m) = UseOf(w, f, m)
  BY <1>6, <1>7, PointersAre DEF PtrsFrom
<1>9. FileIn(x, f) = file /\ \A c \in Block : c # f[1] => x[c] = w[c]
  BY <1>5 DEF FileStored
<1>10. ASSUME NEW g \in Places(v), g # f PROVE FileIn(x, g) = FileIn(w, g)
  <2>1. Role(v, g)
    BY RoleIs DEF Pruning
  <2>2. g \in Place /\ (g[1] = 1 => g = Root)
    BY <2>1 DEF Role
  <2>3. QED
    BY <1>5, <1>10, <2>2 DEF FileStored
<1>11. Pruned(w, v, f) /\ Image(x) /\ Live(t)
  BY <1>3, <1>4, <1>5, LiveView DEF Pruning, Edits
<1>12. PICK F : F = {} /\ x[2].free = w[2].free \cup F
  <2>1. x[2] = w[2]
    BY <1>2, <1>9, Numbers
  <2>2. PICK F : F = {}
    OBVIOUS
  <2>3. x[2].free = w[2].free \cup F
    BY <2>1, <2>2
  <2>4. QED
    BY <2>2, <2>3, Zenon
<1>13. Pruned(x, v, f)
  <2>1. \A q \in F : \E n \in Pointers : UseOf(v, f, n) = q /\ UseOf(x, f, n) = 0
    BY <1>12
  <2>2. FileIn(x, f).f_type = FileIn(w, f).f_type
    BY <1>3, <1>9
  <2>3. \A m \in Pointers : UseOf(x, f, m) \in {0, UseOf(w, f, m)}
    BY <1>8
  <2>4. \A c \in Block : c \notin {f[1], FileIn(v, f).f_indirect, 2} => x[c] = w[c]
    BY <1>9
  <2>5. QED
    BY <1>10, <1>11, <1>12, <2>1, <2>2, <2>3, <2>4, PrunedStep
<1>14. Edits(t, s0)
  BY <1>5, EditsTrans DEF Pruning
<1>15. QED
  BY <1>3, <1>4, <1>5, <1>8, <1>9, <1>13, <1>14 DEF Pruning

\* file_truncate gives up the indirect block.
LEMMA DropPrunes ==
  ASSUME NEW s, NEW s0, NEW v, NEW f, Pruning(s, s0, v, f), NEW t, t = DropIndirect(s, f)
  PROVE  /\ Pruning(t, s0, v, f) /\ FileIn(ViewOf(t), f).f_size = FileIn(ViewOf(s), f).f_size
         /\ \A m \in 0 .. NDIRECT - 1 : UseOf(ViewOf(t), f, m) = UseOf(ViewOf(s), f, m)
<1>1. Sane(s, f) /\ Apart(ViewOf(s), f) /\ Role(v, f)
  BY PruningSane
<1>2. Live(s) /\ Held(s, f) /\ f \in Place /\ f[1] \in Block \ {0, 2} /\ (f[1] = 1 => f = Root)
  BY <1>1 DEF Sane, Apart
<1>3. PICK w : w = ViewOf(s)
  OBVIOUS
<1>4. PICK old \in FileType : old = FileIn(w, f) /\ File(s, f) = old
  BY <1>2, <1>3, FileHeld DEF File
<1>5. CASE old.f_indirect = 0
  <2>1. t = s
    BY <1>4, <1>5 DEF DropIndirect
  <2>2. QED
    BY <2>1
<1>6. CASE old.f_indirect # 0
  <2>1. PICK i : i = old.f_indirect
    OBVIOUS
  <2>2. PICK y : y = free_block(s, i)
    OBVIOUS
  <2>3. PICK file : file = [old EXCEPT !.f_indirect = 0]
    OBVIOUS
  <2>4. t = StoreFile(y, f, file)
    BY <1>4, <1>6, <2>1, <2>2, <2>3 DEF DropIndirect
  <2>5. /\ file \in FileType /\ file.f_indirect = 0 /\ file.f_type = old.f_type /\ file.f_size = old.f_size
        /\ file.f_direct = old.f_direct
    BY <2>3 DEF FileType
  <2>6. i \in Block /\ i >= 3 /\ i # f[1] /\ i # 0
    BY <1>1, <1>3, <1>4, <1>6, <2>1 DEF Apart
  <2>7. PICK w1 : w1 = ViewOf(y)
    OBVIOUS
  <2>8. /\ Edits(y, s) /\ w1[2].free = w[2].free \cup {i}
        /\ \A c \in Block : c # 2 => w1[c] = w[c]
        /\ \A c \in Block : c # 2 => y.cache[c] = s.cache[c]
    BY <1>2, <1>3, <2>2, <2>6, <2>7, FreeIs
  <2>9. Live(y) /\ Held(y, f)
    BY <1>2, <2>8 DEF Edits, Held
  <2>10. PICK x : x = ViewOf(t)
    OBVIOUS
  <2>11. Edits(t, y) /\ FileStored(x, w1, f, file)
    BY <1>2, <2>4, <2>5, <2>7, <2>9, <2>10, StoreFileIs
  <2>12. FileIn(x, f) = file /\ \A c \in Block : c # f[1] => x[c] = w1[c]
    BY <2>11 DEF FileStored
  <2>13. Edits(t, s0) /\ Live(t)
    BY <2>8, <2>11, EditsTrans DEF Pruning, Edits
  <2>14. \A m \in 0 .. NDIRECT - 1 : UseOf(x, f, m) = UseOf(w, f, m)
    <3>1. \A m \in 0 .. NDIRECT - 1 : UseOf(x, f, m) = old.f_direct[m]
      BY <2>5, <2>12, UseOfIs
    <3>2. \A m \in 0 .. NDIRECT - 1 : UseOf(w, f, m) = old.f_direct[m]
      BY <1>4, UseOfIs
    <3>3. QED
      BY <3>1, <3>2
  <2>15. UseOf(x, f, -1) = 0 /\ \A m \in NDIRECT .. NINDIRECT - 1 : UseOf(x, f, m) = 0
    <3>1. FileIn(x, f).f_indirect = 0
      BY <2>5, <2>12
    <3>2. QED
      BY <3>1, UseOfIs
  <2>16. \A m \in Pointers : UseOf(x, f, m) \in {0, UseOf(w, f, m)}
    BY <2>14, <2>15, PointersAre
  <2>17. UseOf(v, f, -1) = i /\ -1 \in Pointers
    <3>1. UseOf(w, f, -1) = i /\ -1 \in Pointers
      BY <1>4, <2>1, UseOfIs, Dims DEF Pointers
    <3>2. QED
      BY <1>3, <2>6, <3>1 DEF Pruning, Pruned
  <2>18. FileIn(v, f).f_indirect = i
    BY <2>17, UseOfIs
  <2>19. ASSUME NEW g \in Places(v), g # f PROVE FileIn(x, g) = FileIn(w, g)
    <3>1. Role(v, g)
      BY RoleIs DEF Pruning
    <3>2. g \in Place /\ (g[1] = 1 => g = Root) /\ g[1] \in Block \ {0, 2}
      BY <3>1 DEF Role
    <3>3. FileIn(x, g) = FileIn(w1, g)
      BY <2>11, <2>19, <3>2 DEF FileStored
    <3>4. w1[g[1]] = w[g[1]]
      BY <2>8, <3>2
    <3>5. FileIn(w1, g) = FileIn(w, g)
      BY <3>2, <3>4, FileFrame
    <3>6. QED
      BY <3>3, <3>5
  <2>20. Pruned(w, v, f) /\ Image(x)
    BY <1>3, <2>10, <2>13, LiveView DEF Pruning
  <2>21. x[2].free = w[2].free \cup {i}
    BY <1>2, <2>8, <2>12, Numbers
  <2>22. \A c \in Block : c \notin {f[1], FileIn(v, f).f_indirect, 2} => x[c] = w[c]
    BY <2>8, <2>12
  <2>23. FileIn(x, f).f_type = FileIn(w, f).f_type
    BY <1>4, <2>5, <2>12
  <2>24. \A q \in {i} : \E n \in Pointers : UseOf(v, f, n) = q /\ UseOf(x, f, n) = 0
    BY <2>15, <2>17
  <2>25. Pruned(x, v, f)
    BY <2>16, <2>19, <2>20, <2>21, <2>22, <2>23, <2>24, PrunedStep
  <2>26. FileIn(x, f).f_size = FileIn(w, f).f_size
    BY <1>4, <2>5, <2>12
  <2>27. QED
    BY <1>3, <2>10, <2>13, <2>14, <2>25, <2>26 DEF Pruning
<1>7. QED
  BY <1>5, <1>6

\* f after file_truncate or file_set_size, before anything is flushed.
Shortened(t, s, v, f, size) ==
  /\ Pruning(t, s, v, f) /\ f[1] \in t.dirty /\ FileIn(ViewOf(t), f).f_size = size
  /\ \A m \in Blocks(size) : UseOf(ViewOf(t), f, m) = UseOf(v, f, m)

\* The blocks below a size are those that file_truncate keeps.
LEMMA KeptBlocks ==
  ASSUME NEW size \in Nat
  PROVE  /\ BlocksFor(size) \in Nat
         /\ \A m \in Blocks(size) : m \in 0 .. NINDIRECT - 1 /\ m < BlocksFor(size)
<1>1. size \div BY2BLK \in Nat
  BY Dims
<1>2. ASSUME NEW m \in Blocks(size) PROVE m \in 0 .. NINDIRECT - 1 /\ m < BlocksFor(size)
  <2>1. m \in 0 .. NINDIRECT - 1 /\ m * BY2BLK < size
    BY DEF Blocks, FileBlocks
  <2>2. size # 0
    BY <2>1, Dims
  <2>3. m <= size \div BY2BLK
    BY <2>1, Dims
  <2>4. m < size \div BY2BLK + 1
    BY <1>1, <2>1, <2>3, Dims
  <2>5. QED
    BY <2>1, <2>2, <2>4 DEF BlocksFor
<1>3. QED
  BY <1>1, <1>2 DEF BlocksFor

\* The new size, when the pointers below it are as they were.
LEMMA StoreSizeCuts ==
  ASSUME NEW s, NEW s0, NEW v, NEW f, Pruning(s, s0, v, f), NEW size \in Nat,
         \A m \in Blocks(size) : UseOf(ViewOf(s), f, m) = UseOf(v, f, m), NEW t, t = StoreSize(s, f, size)
  PROVE  Shortened(t, s0, v, f, size)
<1>1. Sane(s, f) /\ Live(s) /\ Held(s, f) /\ f \in Place
  BY PruningSane DEF Sane
<1>2. PICK old \in FileType : old = FileIn(ViewOf(s), f) /\ File(s, f) = old
  BY <1>1, FileHeld DEF File
<1>3. PICK file : file = [old EXCEPT !.f_size = size]
  OBVIOUS
<1>4. /\ file \in FileType /\ file.f_indirect = old.f_indirect /\ file.f_type = old.f_type
      /\ file.f_direct = old.f_direct /\ file.f_size = size
  BY <1>3 DEF FileType
<1>5. t = StoreFile(s, f, file)
  BY <1>2, <1>3 DEF StoreSize
<1>6. /\ Pruning(t, s0, v, f) /\ f[1] \in t.dirty /\ FileIn(ViewOf(t), f) = file
      /\ \A m \in Pointers : UseOf(ViewOf(t), f, m) = UseOf(ViewOf(s), f, m)
  BY <1>2, <1>4, <1>5, FieldPrunes
<1>7. \A m \in Blocks(size) : m \in Pointers
  BY BlocksAre
<1>8. QED
  BY <1>4, <1>6, <1>7 DEF Shortened

\* file_truncate leaves the blocks below the size, and frees the others.
LEMMA TruncateCuts ==
  ASSUME NEW s, Live(s), NEW v, v = ViewOf(s), WellFormed(v), NEW f \in Places(v), Held(s, f), NEW size \in Nat,
         NEW t, t = file_truncate(s, f, size)
  PROVE  Shortened(t, s, v, f, size)
<1>1. PICK lo \in Nat : lo = BlocksFor(size)
  BY KeptBlocks
<1>2. PICK hi : hi = File(s, f).f_size \div BY2BLK + 1
  OBVIOUS
<1>3. hi \in Nat
  <2>1. f \in Place
    BY RootIs
  <2>2. PICK z \in Nat : z = File(s, f).f_size
    BY <2>1, FileHeld, FileFields DEF File
  <2>3. z \div BY2BLK \in Nat
    BY Dims
  <2>4. QED
    BY <1>2, <2>2, <2>3
<1>4. PICK x : x = ClearBlocks(s, f, lo, hi)
  OBVIOUS
<1>5. Trimmed(x, s, v, f, lo)
  BY <1>3, <1>4, ClearAll
<1>6. Pruning(x, s, v, f) /\ \A m \in Pointers : m < lo => UseOf(ViewOf(x), f, m) = UseOf(v, f, m)
  BY <1>5 DEF Trimmed
<1>7. \A m \in Blocks(size) : m \in 0 .. NINDIRECT - 1 /\ m < lo /\ m \in Pointers
  <2>1. \A m \in Blocks(size) : m \in 0 .. NINDIRECT - 1 /\ m < lo
    BY <1>1, KeptBlocks
  <2>2. QED
    BY <2>1, BlocksAre
<1>8. PICK y : y = IF lo <= NDIRECT THEN DropIndirect(x, f) ELSE x
  OBVIOUS
<1>9. t = StoreSize(y, f, size)
  BY <1>1, <1>2, <1>4, <1>8 DEF file_truncate, With
<1>10. Pruning(y, s, v, f) /\ \A m \in Blocks(size) : UseOf(ViewOf(y), f, m) = UseOf(v, f, m)
  <2>1. CASE lo <= NDIRECT
    <3>1. y = DropIndirect(x, f)
      BY <1>8, <2>1
    <3>2. Pruning(y, s, v, f) /\ \A m \in 0 .. NDIRECT - 1 : UseOf(ViewOf(y), f, m) = UseOf(ViewOf(x), f, m)
      BY <1>6, <3>1, DropPrunes
    <3>3. \A m \in Blocks(size) : m \in 0 .. NDIRECT - 1
      BY <1>7, <2>1, Dims
    <3>4. QED
      BY <1>6, <1>7, <3>2, <3>3
  <2>2. CASE ~(lo <= NDIRECT)
    BY <1>6, <1>7, <1>8, <2>2
  <2>3. QED
    BY <2>1, <2>2
<1>11. QED
  BY <1>9, <1>10, StoreSizeCuts

\* So does file_set_size, which may make the file larger too.
LEMMA ResizedCuts ==
  ASSUME NEW s, Live(s), NEW v, v = ViewOf(s), WellFormed(v), NEW f \in Places(v), Held(s, f), NEW size \in Nat,
         NEW t, t = Resized(s, f, size)
  PROVE  Shortened(t, s, v, f, size)
<1>1. PICK x : x = IF File(s, f).f_size > size THEN file_truncate(s, f, size) ELSE s
  OBVIOUS
<1>2. t = StoreSize(x, f, size)
  BY <1>1 DEF Resized, With
<1>3. Pruning(x, s, v, f) /\ \A m \in Blocks(size) : UseOf(ViewOf(x), f, m) = UseOf(v, f, m)
  <2>1. CASE File(s, f).f_size > size
    <3>1. Shortened(x, s, v, f, size)
      BY <1>1, <2>1, TruncateCuts
    <3>2. QED
      BY <3>1 DEF Shortened
  <2>2. CASE ~(File(s, f).f_size > size)
    <3>1. x = s
      BY <1>1, <2>2
    <3>2. Pruned(v, v, f) /\ Edits(s, s)
      BY LiveView, PrunedRefl, KeepsRefl DEF Edits
    <3>3. QED
      BY <3>1, <3>2 DEF Pruning
  <2>3. QED
    BY <2>1, <2>2
<1>4. QED
  BY <1>2, <1>3, StoreSizeCuts

-----------------------------------------------------------------------------
(* Whole operations, from the blocks v on.                                 *)

\* A file that is truncated stays where it is, and so does its directory.
LEMMA PrunedPlace ==
  ASSUME NEW v, WellFormed(v), NEW f \in Places(v), NEW w, Pruned(w, v, f), Settled(w, v)
  PROVE  f \in Places(w)
<1>1. PICK u : Chain(u, v)
  BY ChainExists
<1>2. u[0] = {Root} /\ \A k \in 1 .. NBlocks : u[k] = Step(v, u[k - 1])
  BY <1>1, Zenon DEF Chain
<1>3. /\ \A k \in 0 .. NBlocks : u[k] \subseteq Places(v)
      /\ \A g \in Places(v) : \E k \in 0 .. NBlocks : g \in u[k]
  BY <1>1, InChain
<1>4. PICK K : K = {k \in 0 .. NBlocks : f \in u[k]}
  OBVIOUS
<1>5. K \subseteq Nat /\ K # {}
  BY <1>3, <1>4, Dims
<1>6. PICK k \in K : \A j \in K : k <= j
  BY <1>5, LeastNat
<1>7. k \in 0 .. NBlocks /\ k \in Nat /\ f \in u[k]
  BY <1>4, <1>6, Dims
<1>8. Reach(w).new = {} /\ Root \in Places(w)
  BY WellFormedIs, RootIs DEF Settled
<1> DEFINE B == {j \in 0 .. k : u[j] \subseteq Places(w)}
<1>9. 0 \in B
  BY <1>2, <1>7, <1>8
<1>10. ASSUME NEW j \in 1 .. k, j - 1 \in B PROVE j \in B
  <2>1. j \in 1 .. NBlocks /\ j - 1 \in 0 .. NBlocks /\ j - 1 < k /\ j \in 0 .. k
    BY <1>7, Dims
  <2>2. f \notin u[j - 1]
    BY <1>4, <1>6, <1>7, <2>1
  <2>3. ASSUME NEW p \in u[j] PROVE p \in Places(w)
    <3>1. PICK g \in u[j - 1] : p \in DirBlocks(v, g) \X Slot
      BY <1>2, <2>1, <2>3 DEF Step
    <3>2. g \in Places(v) /\ g \in Places(w) /\ g # f
      BY <1>3, <1>10, <2>1, <2>2, <3>1
    <3>3. DirBlocks(w, g) = DirBlocks(v, g)
      BY <3>2, PrunedOthers
    <3>4. p[1] \in DirBlocks(w, g) /\ p[2] \in Slot /\ p = <<p[1], p[2]>>
      BY <3>1, <3>3
    <3>5. QED
      BY <1>8, <3>2, <3>4, PlacesClosed
  <2>4. QED
    BY <2>1, <2>3
<1>11. 0 .. k \subseteq B
  <2> HIDE DEF B
  <2>1. QED
    BY <1>7, <1>9, <1>10, Upward
<1>12. k \in B
  BY <1>7, <1>11
<1>13. QED
  BY <1>7, <1>12

\* A place of w in a block that directory dir of v has: dir has it still.
LEMMA SettledDir ==
  ASSUME NEW v, WellFormed(v), NEW w, Settled(w, v), NEW f \in Places(w), f # Root,
         NEW dir \in Places(v), f[1] \in DirBlocks(v, dir)
  PROVE  dir \in Places(w) /\ f[1] \in DirBlocks(w, dir)
<1>1. WellFormed(w) /\ Places(w) \subseteq Places(v)
      /\ \A g \in Places(w), n \in Pointers : UseOf(w, g, n) \in {0, UseOf(v, g, n)}
  BY DEF Settled
<1>2. PICK g \in Places(w) : f[1] \in DirBlocks(w, g)
  BY Parent
<1>3. PICK b : b = f[1]
  OBVIOUS
<1>4. PICK n \in Pointers : UseOf(w, g, n) = b
  BY <1>1, <1>2, <1>3, DirBlockIs
<1>5. b \in Block /\ b >= 3
  BY <1>1, <1>2, <1>3, DirBlockIs
<1>6. UseOf(v, g, n) = b /\ g \in Places(v) /\ b # 0
  <2>1. UseOf(w, g, n) \in {0, UseOf(v, g, n)}
    BY <1>1
  <2>2. QED
    BY <1>1, <1>4, <1>5, <2>1
<1>7. PICK m \in Pointers : UseOf(v, dir, m) = b
  BY <1>3, DirBlockIs
<1>8. Sole(v, dir, m, b)
  BY <1>6, <1>7, OwnedBy
<1>9. g = dir
  BY <1>6, <1>8 DEF Sole
<1>10. QED
  BY <1>2, <1>9

\* A disk whose indirect blocks are saved lags behind v as any other.
LEMMA LowerWeak ==
  ASSUME NEW d, NEW v, NEW c, Lower(d, v, c)
  PROVE  Lower(d, v, FALSE)
  BY DEF Lower

\* The disks a crash can leave, but for those that check_write_block has smashed.
DisksOK(t, c) ==
  \A d \in Disks(t) : d[1] # Oops => Image(d) /\ Sound(d, FALSE) /\ (c => WellFormed(d))

\* What an operation starts from, and what it ends in.
Ready(s, v, c) ==
  /\ Live(s) /\ s.bad = {} /\ v = ViewOf(s) /\ WellFormed(v) /\ c \in BOOLEAN
  /\ \A d \in Disks(s) : Lower(d, v, c)
Ended(t, c) ==
  /\ Live(t) /\ t.bad = {} /\ WellFormed(ViewOf(t)) /\ Lower(t.disk, ViewOf(t), FALSE)
  /\ DisksOK(t, c)

\* Disks that lag behind well formed blocks are sound.
LEMMA DisksAre ==
  ASSUME NEW t, NEW v, WellFormed(v), NEW c \in BOOLEAN, \A d \in Disks(t) : Lower(d, v, c)
  PROVE  DisksOK(t, c)
<1>1. ASSUME NEW d \in Disks(t) PROVE Image(d) /\ Sound(d, FALSE) /\ (c => WellFormed(d))
  <2>1. Lower(d, v, c)
    OBVIOUS
  <2>2. Image(d)
    BY <2>1 DEF Lower
  <2>3. Sound(d, FALSE) /\ (c => WellFormed(d))
    BY <2>1, LowerSound
  <2>4. QED
    BY <2>2, <2>3
<1>2. QED
  BY <1>1 DEF DisksOK

\* An operation that only reads ends well.
LEMMA ReadsEnd ==
  ASSUME NEW s, NEW v, NEW c, Ready(s, v, c), NEW t, Reads(t, s)
  PROVE  Ready(t, v, c) /\ Ended(t, c) /\ Keeps(t, s)
<1>1. Live(t) /\ t.bad = {} /\ ViewOf(t) = v /\ Disks(t) = Disks(s) /\ Keeps(t, s)
  BY DEF Reads, Ready, Disks
<1>2. Ready(t, v, c)
  BY <1>1 DEF Ready
<1>3. DisksOK(t, c)
  BY <1>2, DisksAre DEF Ready
<1>4. t.disk \in Disks(t)
  BY DEF Disks
<1>5. Lower(t.disk, v, FALSE)
  BY <1>2, <1>4, LowerWeak DEF Ready
<1>6. QED
  BY <1>1, <1>2, <1>3, <1>5 DEF Ready, Ended

\* So does one that only flushes.
LEMMA FlushedEnd ==
  ASSUME NEW s, NEW v, NEW c, Ready(s, v, c), NEW t, Flushed(t, s, v, c)
  PROVE  Ended(t, c) /\ Keeps(t, s) /\ ViewOf(t) = v
<1>1. Live(t) /\ t.bad = {} /\ ViewOf(t) = v /\ (\A d \in Disks(t) : Lower(d, v, c)) /\ Keeps(t, s)
  BY DEF Flushed, Ready
<1>2. DisksOK(t, c)
  BY <1>1, DisksAre DEF Ready
<1>3. t.disk \in Disks(t)
  BY DEF Disks
<1>4. Lower(t.disk, v, FALSE)
  BY <1>1, <1>3, LowerWeak
<1>5. QED
  BY <1>1, <1>2, <1>4 DEF Ready, Ended

\* file_flush of g.
LEMMA FileFlushed ==
  ASSUME NEW s, Live(s), NEW w, w = ViewOf(s), NEW v, WellFormed(v), Settled(w, v), NEW c,
         \A d \in Disks(s) : Lower(d, v, c), NEW g \in Places(w), Held(s, g),
         NEW t, t = file_flush(s, g)
  PROVE  /\ Flushed(t, s, v, c)
         /\ \A b \in s.dirty : b \in DirBlocks(w, g) /\ s.cache[b] # NoBlock => t.disk[b] = w[b]
<1>1. g \in Place
  BY RootIs
<1>2. PICK z \in Nat : z = FileIn(w, g).f_size /\ z = File(s, g).f_size
  BY <1>1, FileHeld, FileFields DEF File
<1>3. PICK N : N = z \div BY2BLK + 1
  OBVIOUS
<1>4. N \in Nat
  BY <1>3, Dims
<1>5. t = FlushBlocks(s, g, N)
  BY <1>2, <1>3 DEF file_flush
<1>6. Flushed(t, s, v, c) /\ Through(t, s, g, N)
  BY <1>4, <1>5, FlushAll
<1>7. ASSUME NEW b \in s.dirty, b \in DirBlocks(w, g), s.cache[b] # NoBlock PROVE t.disk[b] = w[b]
  <2>1. WellFormed(w)
    BY DEF Settled
  <2>2. b \in Block \ {0} /\ \E n \in Blocks(z) : Ptr(w, g, n) = b
    BY <1>2, <1>7 DEF DirBlocks
  <2>3. PICK n \in Blocks(z) : Ptr(w, g, n) = b
    BY <2>2
  <2>4. n \in 0 .. NINDIRECT - 1 /\ n < BlocksFor(z)
    BY KeptBlocks
  <2>5. n \in 0 .. N - 1 /\ n < NINDIRECT
    <3>1. z # 0
      BY <2>4 DEF BlocksFor
    <3>2. n < N
      BY <1>3, <2>4, <3>1 DEF BlocksFor
    <3>3. QED
      BY <1>4, <2>4, <3>2, Dims
  <2>6. QED
    BY <1>6, <1>7, <2>2, <2>3, <2>5 DEF Through
<1>8. QED
  BY <1>6, <1>7

\* What every operation that shortens f comes down to: x has f as it will be,
\* y has flushed some of it, and then dir, which has f, is flushed.
LEMMA ShortenedEnds ==
  ASSUME NEW s, NEW v, NEW c, Ready(s, v, c), NEW f, NEW x, Pruning(x, s, v, f), f[1] \in x.dirty, f # Root,
         NEW w, w = ViewOf(x), FileIn(v, f).f_type = "dir" => FileIn(w, f).f_size = 0,
         NEW dir \in Places(v), Held(s, dir), f[1] \in DirBlocks(v, dir),
         NEW y, Flushed(y, x, v, c), NEW t, t = FlushDir(y, dir)
  PROVE  Ended(t, c) /\ Keeps(t, s) /\ ViewOf(t) = w
<1>1. WellFormed(v) /\ c \in BOOLEAN /\ \A d \in Disks(s) : Lower(d, v, c)
  BY DEF Ready
<1>2. Pruned(w, v, f) /\ f \in Places(v) /\ Edits(x, s)
  BY DEF Pruning
<1>3. Settled(w, v)
  BY <1>1, <1>2, PrunedSettled
<1>4. f \in Places(w)
  BY <1>1, <1>2, <1>3, PrunedPlace
<1>5. dir \in Places(w) /\ f[1] \in DirBlocks(w, dir)
  BY <1>1, <1>3, <1>4, SettledDir
<1>6. /\ Live(y) /\ ViewOf(y) = w /\ Keeps(y, x) /\ Keeps(x, s) /\ y.bad = x.bad /\ x.bad = s.bad
      /\ \A d \in Disks(y) : Lower(d, v, c)
  BY <1>2 DEF Flushed, Edits
<1>7. Held(y, dir) /\ Held(y, f) /\ f[1] \in y.dirty
  <2>1. dir \in Place /\ f \in Place
    BY <1>4, <1>5, RootIs
  <2>2. Keeps(y, s) /\ Held(s, f)
    BY <1>6, KeepsTrans DEF Pruning
  <2>3. QED
    BY <1>6, <2>1, <2>2, ReadsHeld DEF Keeps
<1>8. dir # NoPlace
  <2>1. Role(v, dir)
    BY <1>1, RoleIs
  <2>2. QED
    BY <2>1 DEF Role, NoPlace
<1>9. t = file_flush(y, dir)
  BY <1>8 DEF FlushDir
<1>10. /\ Flushed(t, y, v, c)
       /\ \A b \in y.dirty : b \in DirBlocks(w, dir) /\ y.cache[b] # NoBlock => t.disk[b] = w[b]
  BY <1>1, <1>3, <1>5, <1>6, <1>7, <1>9, FileFlushed
<1>11. t.disk[f[1]] = w[f[1]]
  BY <1>5, <1>7, <1>10 DEF Held
<1>12. Live(t) /\ t.bad = {} /\ ViewOf(t) = w /\ Keeps(t, y) /\ \A d \in Disks(t) : Lower(d, v, c)
  BY <1>6, <1>10 DEF Flushed, Ready
<1>13. Lower(t.disk, v, c)
  BY <1>12 DEF Disks
<1>14. Lower(t.disk, w, FALSE)
  BY <1>1, <1>2, <1>11, <1>13, LowerPruned
<1>15. DisksOK(t, c)
  BY <1>1, <1>12, DisksAre
<1>16. Keeps(t, s)
  BY <1>6, <1>12, KeepsTrans
<1>17. QED
  BY <1>3, <1>12, <1>14, <1>15, <1>16 DEF Ended, Settled

-----------------------------------------------------------------------------
(* Blocks w in which files have got blocks they did not have in v.         *)

Grown(w, v) ==
  /\ Image(w) /\ w[2].free \subseteq v[2].free
  /\ \A g \in Places(v) : /\ FileIn(w, g).f_type = FileIn(v, g).f_type
                           /\ FileIn(w, g).f_size = FileIn(v, g).f_size
  /\ \A g \in Places(v), m \in Pointers : UseOf(v, g, m) \in {0, UseOf(w, g, m)}

\* Nothing is taken yet.
LEMMA GrownRefl == ASSUME NEW v, Image(v) PROVE Grown(v, v)
  BY DEF Grown

\* The size of a file is a number.
LEMMA SizeIs ==
  ASSUME NEW v, Image(v), NEW g \in Places(v)
  PROVE  FileIn(v, g).f_size \in Nat
<1>1. g \in Place
  BY RootIs
<1>2. FileIn(v, g) \in FileType
  BY <1>1, ImageReadable, FileInIs
<1>3. QED
  BY <1>2, FileFields

\* The blocks of a directory stay while files grow.
LEMMA GrownDir ==
  ASSUME NEW v, WellFormed(v), NEW w, Grown(w, v), NEW g \in Places(v), FileIn(v, g).f_type = "dir",
         NEW n \in Blocks(FileIn(v, g).f_size)
  PROVE  Ptr(w, g, n) = Ptr(v, g, n) /\ Ptr(v, g, n) # 0 /\ n \in Pointers /\ n \in 0 .. NINDIRECT - 1
<1>1. Image(v) /\ Full(v)
  BY WellFormedIs
<1>2. PICK z \in Nat : z = FileIn(v, g).f_size
  BY <1>1, SizeIs
<1>3. n \in Pointers /\ n \in 0 .. NINDIRECT - 1
  BY <1>2, BlocksAre
<1>4. Ptr(v, g, n) # 0
  BY <1>1 DEF Full
<1>5. UseOf(v, g, n) = Ptr(v, g, n) /\ UseOf(w, g, n) = Ptr(w, g, n)
  BY <1>3, UseOfIs, Zenon
<1>6. UseOf(v, g, n) \in {0, UseOf(w, g, n)}
  BY <1>3 DEF Grown
<1>7. QED
  BY <1>3, <1>4, <1>5, <1>6

\* And so does the tree.
LEMMA GrownPlaces ==
  ASSUME NEW v, WellFormed(v), NEW w, Grown(w, v)
  PROVE  Places(w) = Places(v) /\ Reach(w).new = {} /\ Full(w)
         /\ \A g \in Places(v) : DirBlocks(w, g) = DirBlocks(v, g)
<1>1. Reach(v).new = {}
  BY WellFormedIs
<1>2. ASSUME NEW g \in Places(v) PROVE DirBlocks(w, g) = DirBlocks(v, g)
  <2>1. FileIn(w, g).f_type = FileIn(v, g).f_type /\ FileIn(w, g).f_size = FileIn(v, g).f_size
    BY DEF Grown
  <2>2. CASE FileIn(v, g).f_type # "dir"
    BY <2>1, <2>2 DEF DirBlocks
  <2>3. CASE FileIn(v, g).f_type = "dir"
    <3>1. PICK N : N = Blocks(FileIn(v, g).f_size)
      OBVIOUS
    <3>2. \A n \in N : Ptr(w, g, n) = Ptr(v, g, n)
      BY <2>3, <3>1, GrownDir
    <3>3. DirBlocks(w, g) = {b \in Block \ {0} : \E n \in N : Ptr(w, g, n) = b}
      BY <2>1, <2>3, <3>1 DEF DirBlocks
    <3>4. DirBlocks(v, g) = {b \in Block \ {0} : \E n \in N : Ptr(v, g, n) = b}
      BY <2>3, <3>1 DEF DirBlocks
    <3>5. QED
      BY <3>2, <3>3, <3>4
  <2>4. QED
    BY <2>2, <2>3
<1>3. Places(w) = Places(v) /\ Reach(w).new = {}
  BY <1>1, <1>2, PlacesSame
<1>4. Full(w)
  <2>1. SUFFICES ASSUME NEW g \in Places(v), FileIn(w, g).f_type = "dir", NEW n \in Blocks(FileIn(w, g).f_size)
                 PROVE  Ptr(w, g, n) # 0
    BY <1>3 DEF Full
  <2>2. FileIn(w, g).f_type = FileIn(v, g).f_type /\ FileIn(w, g).f_size = FileIn(v, g).f_size
    BY DEF Grown
  <2>3. FileIn(v, g).f_type = "dir" /\ n \in Blocks(FileIn(v, g).f_size)
    BY <2>1, <2>2
  <2>4. QED
    BY <2>3, GrownDir
<1>5. QED
  BY <1>2, <1>3, <1>4

\* Files grow, and then grow more.
LEMMA GrownTrans ==
  ASSUME NEW v, WellFormed(v), NEW w, Grown(w, v), NEW x, Grown(x, w)
  PROVE  Grown(x, v)
<1>1. Places(w) = Places(v)
  BY GrownPlaces
<1>2. ASSUME NEW g \in Places(v), NEW m \in Pointers PROVE UseOf(v, g, m) \in {0, UseOf(x, g, m)}
  <2>1. UseOf(v, g, m) \in {0, UseOf(w, g, m)} /\ UseOf(w, g, m) \in {0, UseOf(x, g, m)}
    BY <1>1 DEF Grown
  <2>2. QED
    BY <2>1
<1>3. QED
  BY <1>1, <1>2 DEF Grown

\* A block that is allocated and that nobody uses yet.
Spare(v, b) ==
  /\ b \in Block /\ b >= 3 /\ b \notin v[2].free
  /\ \A g \in Places(v), m \in Pointers : UseOf(v, g, m) # b

\* At most pointer n of f differs, and now is b.
LEMMA GrownWellFormed ==
  ASSUME NEW v, WellFormed(v), NEW w, Grown(w, v), NEW f, NEW n, NEW b,
         \A g \in Places(v), m \in Pointers :
            UseOf(w, g, m) = UseOf(v, g, m) \/ (g = f /\ m = n /\ UseOf(w, g, m) = b /\ Spare(v, b))
  PROVE  WellFormed(w)
<1>1. Places(w) = Places(v) /\ Reach(w).new = {} /\ Full(w)
  BY GrownPlaces
<1>2. Image(w) /\ w[2].free \subseteq v[2].free
  BY DEF Grown
<1>3. ASSUME NEW g \in Places(v), NEW m \in Pointers, NEW x, x = UseOf(w, g, m), x # 0
      PROVE  /\ x \in Block /\ x \notin w[2].free /\ x >= 3
             /\ \A h \in Places(v), k \in Pointers : UseOf(w, h, k) = x => h = g /\ k = m
  <2>1. CASE x = UseOf(v, g, m)
    <3>1. Sole(v, g, m, x)
      BY <1>3, <2>1, OwnedBy
    <3>2. x \in Block /\ x \notin v[2].free /\ x >= 3
      BY <3>1 DEF Sole
    <3>3. ASSUME NEW h \in Places(v), NEW k \in Pointers, UseOf(w, h, k) = x PROVE h = g /\ k = m
      <4>1. CASE UseOf(v, h, k) = x
        BY <3>1, <4>1 DEF Sole
      <4>2. CASE UseOf(v, h, k) # x
        <5>1. x = b /\ Spare(v, b)
          BY <3>3, <4>2
        <5>2. QED
          BY <2>1, <5>1 DEF Spare
      <4>3. QED
        BY <4>1, <4>2
    <3>4. QED
      BY <1>2, <3>2, <3>3
  <2>2. CASE x # UseOf(v, g, m)
    <3>1. g = f /\ m = n /\ x = b /\ Spare(v, b)
      BY <1>3, <2>2
    <3>2. x \in Block /\ x \notin v[2].free /\ x >= 3
      BY <3>1 DEF Spare
    <3>3. ASSUME NEW h \in Places(v), NEW k \in Pointers, UseOf(w, h, k) = x PROVE h = g /\ k = m
      <4>1. UseOf(v, h, k) # x
        BY <3>1 DEF Spare
      <4>2. QED
        BY <3>1, <3>3, <4>1
    <3>4. QED
      BY <1>2, <3>2, <3>3
  <2>3. QED
    BY <2>1, <2>2
<1>4. Owned(w, NINDIRECT)
  BY <1>1, <1>3 DEF Owned, Pointers
<1>5. QED
  BY <1>1, <1>2, <1>4, WellFormedIs

\* A disk that lags behind v lags behind w.
LEMMA LowerGrow ==
  ASSUME NEW v, WellFormed(v), NEW w, Grown(w, v), NEW d, NEW c, Lower(d, v, c), d[2].free \subseteq w[2].free
  PROVE  Lower(d, w, FALSE)
<1>1. Places(w) = Places(v)
  BY GrownPlaces
<1>2. Image(d) /\ Image(v) /\ Image(w)
  BY WellFormedIs DEF Lower, Grown
<1>3. ASSUME NEW g \in Places(v) PROVE FileLower(FileIn(d, g), FileIn(w, g))
  <2>1. PICK a : a = FileIn(d, g)
    OBVIOUS
  <2>2. PICK x : x = FileIn(v, g)
    OBVIOUS
  <2>3. PICK y : y = FileIn(w, g)
    OBVIOUS
  <2>4. FileLower(a, x)
    BY <2>1, <2>2 DEF Lower
  <2>5. y.f_type = x.f_type /\ y.f_size = x.f_size
    BY <2>2, <2>3 DEF Grown
  <2>6. ASSUME NEW n \in 0 .. NDIRECT - 1 PROVE x.f_direct[n] \in {0, y.f_direct[n]}
    <3>1. UseOf(v, g, n) = x.f_direct[n] /\ UseOf(w, g, n) = y.f_direct[n]
      BY <2>2, <2>3, UseOfIs
    <3>2. n \in Pointers
      BY Dims DEF Pointers
    <3>3. UseOf(v, g, n) \in {0, UseOf(w, g, n)}
      BY <3>2 DEF Grown
    <3>4. QED
      BY <3>1, <3>3
  <2>7. x.f_indirect \in {0, y.f_indirect}
    <3>1. UseOf(v, g, -1) = x.f_indirect /\ UseOf(w, g, -1) = y.f_indirect
      BY <2>2, <2>3, UseOfIs
    <3>2. -1 \in Pointers
      BY Dims DEF Pointers
    <3>3. UseOf(v, g, -1) \in {0, UseOf(w, g, -1)}
      BY <3>2 DEF Grown
    <3>4. QED
      BY <3>1, <3>3
  <2>8. ASSUME x.f_type = "dir", NEW n \in Blocks(x.f_size)
        PROVE  /\ n < NDIRECT => x.f_direct[n] = y.f_direct[n]
               /\ n >= NDIRECT => x.f_indirect = y.f_indirect
    <3>1. Ptr(v, g, n) # 0 /\ n \in 0 .. NINDIRECT - 1
      BY <2>2, <2>8, GrownDir
    <3>2. ASSUME n < NDIRECT PROVE x.f_direct[n] = y.f_direct[n]
      <4>1. n \in 0 .. NDIRECT - 1 /\ x.f_direct[n] # 0
        BY <2>2, <3>1, <3>2, Dims DEF Ptr
      <4>2. QED
        BY <2>6, <4>1
    <3>3. ASSUME n >= NDIRECT PROVE x.f_indirect = y.f_indirect
      <4>1. ~(n < NDIRECT)
        BY <3>1, <3>3, Dims
      <4>2. x.f_indirect # 0
        BY <2>2, <3>1, <4>1 DEF Ptr
      <4>3. QED
        BY <2>7, <4>2
    <3>4. QED
      BY <3>2, <3>3
  <2>9. a.f_type = y.f_type /\ a.f_indirect \in {0, y.f_indirect}
    BY <2>4, <2>5, <2>7 DEF FileLower
  <2>10. \A n \in 0 .. NDIRECT - 1 : a.f_direct[n] \in {0, y.f_direct[n]}
    BY <2>4, <2>6 DEF FileLower
  <2>11. ASSUME y.f_type = "dir", a.f_size # 0
         PROVE  /\ a.f_size = y.f_size
                /\ \A n \in Blocks(y.f_size) : /\ n < NDIRECT => a.f_direct[n] = y.f_direct[n]
                                               /\ n >= NDIRECT => a.f_indirect = y.f_indirect
    <3>1. /\ a.f_size = x.f_size
          /\ \A n \in Blocks(x.f_size) : /\ n < NDIRECT => a.f_direct[n] = x.f_direct[n]
                                         /\ n >= NDIRECT => a.f_indirect = x.f_indirect
      BY <2>4, <2>5, <2>11 DEF FileLower
    <3>2. Blocks(y.f_size) = Blocks(x.f_size)
      BY <2>5
    <3>3. QED
      BY <2>5, <2>8, <2>11, <3>1, <3>2
  <2>12. QED
    BY <2>1, <2>3, <2>9, <2>10, <2>11 DEF FileLower
<1>4. DirIndexed(d, w)
  <2>1. SUFFICES ASSUME NEW g \in Places(v), FileIn(w, g).f_type = "dir", NEW n \in Blocks(FileIn(w, g).f_size),
                        n >= NDIRECT
                 PROVE  AsIndex(d[FileIn(w, g).f_indirect])[n] = AsIndex(w[FileIn(w, g).f_indirect])[n]
    BY <1>1 DEF DirIndexed
  <2>2. FileIn(v, g).f_type = "dir" /\ n \in Blocks(FileIn(v, g).f_size)
    <3>1. FileIn(w, g).f_type = FileIn(v, g).f_type /\ FileIn(w, g).f_size = FileIn(v, g).f_size
      BY DEF Grown
    <3>2. QED
      BY <2>1, <3>1
  <2>3. Ptr(w, g, n) = Ptr(v, g, n) /\ Ptr(v, g, n) # 0 /\ n \in Pointers /\ n \in 0 .. NINDIRECT - 1
    BY <2>2, GrownDir
  <2>4. ~(n < NDIRECT)
    BY <2>1, <2>3, Dims
  <2>5. PICK i : i = FileIn(v, g).f_indirect
    OBVIOUS
  <2>6. i # 0 /\ Ptr(v, g, n) = AsIndex(v[i])[n]
    BY <2>3, <2>4, <2>5 DEF Ptr
  <2>7. FileIn(w, g).f_indirect = i
    <3>1. UseOf(v, g, -1) = i /\ UseOf(w, g, -1) = FileIn(w, g).f_indirect
      BY <2>5, UseOfIs
    <3>2. -1 \in Pointers
      BY Dims DEF Pointers
    <3>3. UseOf(v, g, -1) \in {0, UseOf(w, g, -1)}
      BY <3>2 DEF Grown
    <3>4. QED
      BY <2>6, <3>1, <3>3
  <2>8. Ptr(w, g, n) = AsIndex(w[i])[n]
    BY <2>4, <2>6, <2>7 DEF Ptr
  <2>9. AsIndex(d[i])[n] = AsIndex(v[i])[n]
    BY <2>1, <2>2, <2>5 DEF Lower, DirIndexed
  <2>10. QED
    BY <2>3, <2>6, <2>7, <2>8, <2>9
<1>5. QED
  BY <1>1, <1>2, <1>3, <1>4 DEF Lower

-----------------------------------------------------------------------------
(* alloc_block.                                                            *)

\* The disks of t are those of s, or the last one with a smaller bitmap.
Rebitted(d, s) ==
  \E x \in Content : x.t = "bitmap" /\ x.free \subseteq bitmap(s) /\ d = [s.disk EXCEPT ![2] = x]
Allocs(t, s) ==
  /\ Live(t) /\ Keeps(t, s) /\ t.bad = s.bad
  /\ \A d \in Disks(t) : d \in Disks(s) \/ Rebitted(d, s)
Alloced(a, s) ==
  /\ a.r \in bitmap(s) /\ a.r \in Block /\ a.r >= 3 /\ a.s.cache[a.r] # NoBlock
  /\ bitmap(a.s) = bitmap(s) \ {a.r} /\ a.s.disk[2].free \subseteq bitmap(a.s)
  /\ \A c \in Block : c # 2 /\ c # a.r => ViewOf(a.s)[c] = ViewOf(s)[c]
Refused(a, s) ==
  /\ a.r < 0 /\ a.r \in Int /\ ViewOf(a.s) = ViewOf(s)
  /\ a.s.disk = s.disk \/ a.s.disk[2].free \subseteq bitmap(a.s)

\* alloc_block_num takes b: the bitmap without b goes to the disk.
LEMMA TakeIs ==
  ASSUME NEW s, Live(s), NEW b \in bitmap(s), b >= 3, NEW t, t = write_block(SetBitmap(s, bitmap(s) \ {b}), 2)
  PROVE  /\ Allocs(t, s) /\ bitmap(t) = bitmap(s) \ {b} /\ t.pages = s.pages
         /\ t.disk[2].free = bitmap(t)
         /\ \A c \in Block : c # 2 => ViewOf(t)[c] = ViewOf(s)[c]
         /\ \A c \in Block : c # 2 => t.cache[c] = s.cache[c]
<1>1. PICK F : F = bitmap(s) \ {b}
  OBVIOUS
<1>2. F \subseteq Block \ {0, 1, 2} /\ F \subseteq bitmap(s)
  BY <1>1 DEF Live, bitmap
<1>3. PICK y : y = SetBitmap(s, F)
  OBVIOUS
<1>4. PICK x : x = [t |-> "bitmap", free |-> F]
  OBVIOUS
<1>5. x \in Content /\ x.t = "bitmap" /\ x.free = F
  BY <1>2, <1>4 DEF Content
<1>6. BitmapSet(y, s, F)
  BY <1>2, <1>3, BitmapIs
<1>7. /\ Edits(y, s) /\ bitmap(y) = F /\ ViewOf(y) = [ViewOf(s) EXCEPT ![2] = x]
      /\ y.cache = [s.cache EXCEPT ![2] = x]
  BY <1>4, <1>6 DEF BitmapSet
<1>8. Live(y) /\ Keeps(y, s) /\ y.disk = s.disk /\ y.hist = s.hist /\ y.bad = s.bad /\ y.pages = s.pages
  BY <1>7 DEF Edits
<1>9. /\ DOMAIN ViewOf(s) = Block /\ DOMAIN s.cache = Block /\ DOMAIN s.disk = Block /\ 2 \in Block
      /\ y.cache[2] # NoBlock
  BY <1>8, ViewIs, StateFields, Numbers, LiveView DEF Live
<1>10. t = write_block(y, 2)
  BY <1>1, <1>3
<1>11. /\ Live(t) /\ t.cache = y.cache /\ t.dirty = y.dirty /\ t.bad = y.bad /\ t.pages = y.pages
       /\ ViewOf(t) = ViewOf(y) /\ t.disk = [y.disk EXCEPT ![2] = ViewOf(y)[2]]
       /\ Disks(t) = Disks(y) \cup {t.disk}
  <2>1. Wrote(t, y, 2)
    BY <1>8, <1>9, <1>10, WriteIs
  <2>2. QED
    BY <2>1 DEF Wrote
<1>12. ViewOf(y)[2] = x
  BY <1>7, <1>9
<1>13. t.disk = [s.disk EXCEPT ![2] = x]
  BY <1>8, <1>11, <1>12
<1>14. t.disk[2].free = F /\ bitmap(t) = F
  BY <1>5, <1>7, <1>9, <1>11, <1>13 DEF bitmap
<1>15. Rebitted(t.disk, s)
  BY <1>2, <1>5, <1>13 DEF Rebitted
<1>16. Disks(y) = Disks(s)
  BY <1>8 DEF Disks
<1>17. Keeps(t, s)
  BY <1>8, <1>11 DEF Keeps
<1>18. Allocs(t, s)
  BY <1>8, <1>11, <1>15, <1>16, <1>17 DEF Allocs
<1>19. \A c \in Block : c # 2 => ViewOf(t)[c] = ViewOf(s)[c] /\ t.cache[c] = s.cache[c]
  BY <1>7, <1>9, <1>11, ZenonT(60)
<1>20. QED
  BY <1>1, <1>8, <1>11, <1>14, <1>18, <1>19

\* A page for the block b, zeroed.
Zeroed(t, s, b) ==
  /\ Live(t) /\ Keeps(t, s) /\ t.bad = s.bad /\ t.disk = s.disk /\ t.hist = s.hist
  /\ t.cache[b] # NoBlock /\ bitmap(t) = bitmap(s)
  /\ \A c \in Block : c # b => ViewOf(t)[c] = ViewOf(s)[c]

\* map_block gives a zeroed page to a block.
LEMMA MapZero ==
  ASSUME NEW s, Live(s), NEW b \in Block, b >= 3, s.cache[b] = NoBlock, s.pages # 0,
         NEW t, t = [s EXCEPT !.cache[b] = ZeroBlock, !.pages = s.pages - 1]
  PROVE  Zeroed(t, s, b)
<1>1. s \in FsState /\ DOMAIN s.cache = Block /\ s.pages - 1 \in Nat
  BY StateFields DEF Live
<1>2. ZeroBlock \in Cached /\ ZeroBlock # NoBlock
  BY DEF ZeroBlock, NoBlock, Cached, Content
<1>3. /\ t.disk = s.disk /\ t.hist = s.hist /\ t.bad = s.bad /\ t.dirty = s.dirty /\ t.pages = s.pages - 1
      /\ t.cache = [s.cache EXCEPT ![b] = ZeroBlock]
  BY <1>1, StateFields
<1>4. t.cache \in [Block -> Cached]
  BY <1>1, <1>2, <1>3, StateFields
<1>5. t \in FsState
  BY <1>1, <1>3, <1>4 DEF FsState
<1>6. t.cache[1] = s.cache[1] /\ t.cache[2] = s.cache[2] /\ t.cache[b] = ZeroBlock
  BY <1>1, <1>3, Numbers
<1>7. Live(t) /\ bitmap(t) = bitmap(s)
  BY <1>5, <1>6 DEF Live, bitmap
<1>8. Keeps(t, s)
  BY <1>1, <1>2, <1>3 DEF Keeps
<1>9. ASSUME NEW c \in Block, c # b PROVE ViewOf(t)[c] = ViewOf(s)[c]
  <2>1. t.cache[c] = s.cache[c]
    BY <1>1, <1>3, <1>9
  <2>2. QED
    BY <1>3, <2>1 DEF ViewOf, block_is_mapped
<1>10. QED
  BY <1>2, <1>3, <1>6, <1>7, <1>8, <1>9 DEF Zeroed

\* A step that leaves disks and faults alone, after an allocation.
LEMMA AllocsOn ==
  ASSUME NEW t, NEW s, NEW r, Allocs(s, r), Live(t), Keeps(t, s), t.bad = s.bad, Disks(t) = Disks(s)
  PROVE  Allocs(t, r)
  BY KeepsTrans DEF Allocs

\* alloc_block takes a free block and clears it, or takes nothing.
LEMMA AllocIs ==
  ASSUME NEW s, Live(s), NEW a, a = alloc_block(s)
  PROVE  Allocs(a.s, s) /\ (Refused(a, s) \/ Alloced(a, s))
<1>1. CASE Usable(s) = {}
  <2>1. alloc_block_num(s) = Ret(s, E_NO_DISK)
    BY <1>1 DEF alloc_block_num
  <2>2. a = Ret(s, E_NO_DISK)
    <3>1. Ret(s, E_NO_DISK).r < 0
      BY DEF Ret, E_NO_DISK
    <3>2. QED
      BY <2>1, <3>1 DEF alloc_block, Try
  <2>3. a.s = s /\ a.r = E_NO_DISK
    BY <2>2 DEF Ret
  <2>4. Allocs(s, s)
    BY KeepsRefl DEF Allocs
  <2>5. QED
    BY <2>3, <2>4 DEF Refused, E_NO_DISK
<1>2. CASE Usable(s) # {}
  <2>1. PICK b : b = Min(Usable(s))
    OBVIOUS
  <2>2. b \in bitmap(s) /\ b >= 3 /\ b \in Block /\ b \in Nat
    <3>1. bitmap(s) \subseteq Block /\ bitmap(s) \subseteq Nat
      BY Numbers DEF Live, bitmap
    <3>2. Usable(s) \subseteq Nat
      BY <3>1 DEF Usable
    <3>3. b \in Usable(s)
      BY <1>2, <2>1, <3>2, MinIn
    <3>4. QED
      BY <3>1, <3>3 DEF Usable
  <2>3. PICK t : t = write_block(SetBitmap(s, bitmap(s) \ {b}), 2)
    OBVIOUS
  <2>4. alloc_block_num(s) = Ret(t, b)
    BY <1>2, <2>1, <2>3 DEF alloc_block_num, With
  <2>5. /\ Allocs(t, s) /\ bitmap(t) = bitmap(s) \ {b} /\ t.pages = s.pages
        /\ t.disk[2].free = bitmap(t)
        /\ \A c \in Block : c # 2 => ViewOf(t)[c] = ViewOf(s)[c]
        /\ \A c \in Block : c # 2 => t.cache[c] = s.cache[c]
    BY <2>2, <2>3, TakeIs
  <2>6. Live(t)
    BY <2>5 DEF Allocs
  <2>7. PICK m : m = map_block(t, b)
    OBVIOUS
  <2>8. a = IF m.r < 0 THEN Ret(free_block(m.s, b), m.r) ELSE Ret(m.s, b)
    <3>1. Ret(t, b).s = t /\ Ret(t, b).r = b /\ ~(b < 0)
      BY <2>2 DEF Ret
    <3>2. QED
      BY <2>4, <2>7, <3>1 DEF alloc_block, Try, With
  <2>9. CASE t.cache[b] # NoBlock
    <3>1. m = Ok(t)
      BY <2>7, <2>9 DEF map_block, block_is_mapped
    <3>2. m.s = t /\ ~(m.r < 0)
      BY <3>1 DEF Ok
    <3>3. a.s = t /\ a.r = b
      BY <2>8, <3>2 DEF Ret
    <3>4. Alloced(a, s)
      BY <2>2, <2>5, <2>9, <3>3 DEF Alloced
    <3>5. QED
      BY <2>5, <3>3, <3>4
  <2>10. CASE t.cache[b] = NoBlock /\ t.pages = 0
    <3>1. m = Ret(t, E_NO_MEM)
      BY <2>7, <2>10 DEF map_block, block_is_mapped
    <3>2. m.s = t /\ m.r = E_NO_MEM /\ m.r < 0
      BY <3>1 DEF Ret, E_NO_MEM
    <3>3. a.s = free_block(t, b) /\ a.r = E_NO_MEM
      BY <2>8, <3>2 DEF Ret
    <3>4. PICK z : z = a.s
      OBVIOUS
    <3>5. /\ Edits(z, t) /\ ViewOf(z)[2].free = ViewOf(t)[2].free \cup {b} /\ bitmap(z) = bitmap(t) \cup {b}
          /\ \A c \in Block : c # 2 => ViewOf(z)[c] = ViewOf(t)[c]
      BY <2>2, <2>6, <3>3, <3>4, FreeIs
    <3>6. Live(z) /\ Keeps(z, t) /\ z.disk = t.disk /\ z.bad = t.bad /\ Disks(z) = Disks(t)
      BY <3>5 DEF Edits, Disks
    <3>7. Allocs(z, s)
      BY <2>5, <3>6, AllocsOn
    <3>8. bitmap(z) = bitmap(s)
      BY <2>2, <2>5, <3>5
    <3>9. ViewOf(z) = ViewOf(s)
      <4>1. ViewOf(z)[2] = ViewOf(s)[2]
        <5>1. z.cache[2] = [t |-> "bitmap", free |-> bitmap(z)] /\ s.cache[2] = [t |-> "bitmap", free |-> bitmap(s)]
          <6>1. z.cache[2] \in Cached /\ s.cache[2] \in Cached
            BY <3>6, StateFields, Numbers DEF Live
          <6>2. QED
            BY <3>6, <6>1, SuperIs DEF Live, bitmap
        <5>2. QED
          BY <3>6, <3>8, <5>1, LiveView
      <4>2. \A c \in Block : ViewOf(z)[c] = ViewOf(s)[c]
        BY <2>5, <3>5, <4>1
      <4>3. ViewOf(z) \in [Block -> Content] /\ ViewOf(s) \in [Block -> Content]
        BY <3>6, ViewIs DEF Live
      <4>4. QED
        BY <4>2, <4>3
    <3>10. z.disk[2].free \subseteq bitmap(z)
      BY <2>5, <3>5, <3>6
    <3>11. Refused(a, s)
      BY <3>3, <3>4, <3>9, <3>10 DEF Refused, E_NO_MEM
    <3>12. QED
      BY <3>4, <3>7, <3>11
  <2>11. CASE t.cache[b] = NoBlock /\ t.pages # 0
    <3>1. PICK z : z = [t EXCEPT !.cache[b] = ZeroBlock, !.pages = t.pages - 1]
      OBVIOUS
    <3>2. m = Ok(z)
      BY <2>7, <2>11, <3>1 DEF map_block, block_is_mapped
    <3>3. m.s = z /\ ~(m.r < 0)
      BY <3>2 DEF Ok
    <3>4. a.s = z /\ a.r = b
      BY <2>8, <3>3 DEF Ret
    <3>5. /\ Live(z) /\ Keeps(z, t) /\ z.bad = t.bad /\ z.disk = t.disk /\ z.hist = t.hist
          /\ z.cache[b] # NoBlock /\ bitmap(z) = bitmap(t)
          /\ \A c \in Block : c # b => ViewOf(z)[c] = ViewOf(t)[c]
      <4>1. Zeroed(z, t, b)
        BY <2>2, <2>6, <2>11, <3>1, MapZero
      <4>2. QED
        BY <4>1 DEF Zeroed
    <3>6. Disks(z) = Disks(t)
      BY <3>5 DEF Disks
    <3>7. Allocs(z, s)
      BY <2>5, <3>5, <3>6, AllocsOn
    <3>8. Alloced(a, s)
      BY <2>2, <2>5, <3>4, <3>5 DEF Alloced
    <3>9. QED
      BY <3>4, <3>7, <3>8
  <2>12. QED
    BY <2>9, <2>10, <2>11
<1>3. QED
  BY <1>1, <1>2

-----------------------------------------------------------------------------
(* An operation that allocates, from the blocks v on.                      *)

Growing(s, v, c) ==
  /\ Live(s) /\ s.bad = {} /\ WellFormed(v) /\ WellFormed(ViewOf(s)) /\ Grown(ViewOf(s), v)
  /\ \A d \in Disks(s) : Lower(d, v, c)
  /\ s.disk[2].free \subseteq bitmap(s)

\* An operation that may take blocks starts.
LEMMA GrowingStarts ==
  ASSUME NEW s, NEW v, NEW c, Ready(s, v, c)
  PROVE  Growing(s, v, c)
<1>1. /\ Live(s) /\ s.bad = {} /\ v = ViewOf(s) /\ WellFormed(v)
      /\ \A d \in Disks(s) : Lower(d, v, c)
  BY DEF Ready
<1>2. Image(v) /\ v[2].free = bitmap(s)
  BY <1>1, LiveView
<1>3. Grown(v, v)
  BY <1>2, GrownRefl
<1>4. s.disk[2].free \subseteq bitmap(s)
  BY <1>1, <1>2 DEF Lower, Disks
<1>5. QED
  BY <1>1, <1>3, <1>4 DEF Growing

\* And may end at any moment.
LEMMA GrowingEnds ==
  ASSUME NEW s, NEW v, NEW c \in BOOLEAN, Growing(s, v, c)
  PROVE  Ended(s, c)
<1>1. s.disk \in Disks(s)
  BY DEF Disks
<1>2. ViewOf(s)[2].free = bitmap(s)
  BY LiveView DEF Growing
<1>3. Lower(s.disk, ViewOf(s), FALSE)
  <2>1. PICK w : w = ViewOf(s)
    OBVIOUS
  <2>2. WellFormed(v) /\ Grown(w, v)
    BY <2>1 DEF Growing
  <2>3. Lower(s.disk, v, c)
    BY <1>1 DEF Growing
  <2>4. s.disk[2].free \subseteq w[2].free
    BY <1>2, <2>1 DEF Growing
  <2>5. Lower(s.disk, w, FALSE)
    BY <2>2, <2>3, <2>4, LowerGrow
  <2>6. QED
    BY <2>1, <2>5
<1>4. DisksOK(s, c)
  BY DisksAre DEF Growing
<1>5. QED
  BY <1>3, <1>4 DEF Growing, Ended

\* The blocks x differ from w at most in pointer n of f, which was 0 and is b.
Adopts(x, w, f, n, b) ==
  /\ \A g \in Places(w) : /\ FileIn(x, g).f_type = FileIn(w, g).f_type
                           /\ FileIn(x, g).f_size = FileIn(w, g).f_size
  /\ \A g \in Places(w), m \in Pointers :
       \/ UseOf(x, g, m) = UseOf(w, g, m)
       \/ g = f /\ m = n /\ UseOf(x, g, m) = b /\ UseOf(w, g, m) = 0 /\ Spare(w, b)

\* A file that takes a block nobody uses: the blocks stay well formed.
LEMMA AdoptsGrown ==
  ASSUME NEW w, WellFormed(w), NEW x, Image(x), x[2].free \subseteq w[2].free, NEW f, NEW n, NEW b,
         Adopts(x, w, f, n, b)
  PROVE  Grown(x, w) /\ WellFormed(x) /\ Places(x) = Places(w)
<1>1. ASSUME NEW g \in Places(w), NEW m \in Pointers PROVE UseOf(w, g, m) \in {0, UseOf(x, g, m)}
  <2>1. UseOf(x, g, m) = UseOf(w, g, m) \/ UseOf(w, g, m) = 0
    BY DEF Adopts
  <2>2. QED
    BY <2>1
<1>2. Grown(x, w)
  BY <1>1 DEF Grown, Adopts
<1>3. \A g \in Places(w), m \in Pointers :
         UseOf(x, g, m) = UseOf(w, g, m) \/ (g = f /\ m = n /\ UseOf(x, g, m) = b /\ Spare(w, b))
  BY DEF Adopts
<1>4. WellFormed(x)
  BY <1>2, <1>3, GrownWellFormed
<1>5. QED
  BY <1>2, <1>4, GrownPlaces

\* A step of the server that has this effect.
LEMMA GrowStep ==
  ASSUME NEW s, NEW v, NEW c, Growing(s, v, c), NEW w, w = ViewOf(s), NEW t, Live(t), t.bad = {},
         \A d \in Disks(t) : d \in Disks(s) \/ Rebitted(d, s), t.disk[2].free \subseteq bitmap(t),
         NEW x, x = ViewOf(t), x[2].free \subseteq w[2].free, NEW f, NEW n, NEW b, Adopts(x, w, f, n, b)
  PROVE  Growing(t, v, c)
<1>1. WellFormed(v) /\ WellFormed(w) /\ Grown(w, v) /\ Live(s)
  BY DEF Growing
<1>2. Image(x)
  BY LiveView
<1>3. Grown(x, w) /\ WellFormed(x)
  BY <1>1, <1>2, AdoptsGrown
<1>4. Grown(x, v)
  BY <1>1, <1>3, GrownTrans
<1>5. ASSUME NEW d \in Disks(t) PROVE Lower(d, v, c)
  <2>1. CASE d \in Disks(s)
    BY <2>1 DEF Growing
  <2>2. CASE Rebitted(d, s)
    <3>1. PICK y \in Content : y.t = "bitmap" /\ y.free \subseteq bitmap(s) /\ d = [s.disk EXCEPT ![2] = y]
      BY <2>2 DEF Rebitted
    <3>2. bitmap(s) = w[2].free
      BY <1>1, LiveView
    <3>3. y.free \subseteq v[2].free
      BY <1>1, <3>1, <3>2 DEF Grown
    <3>4. Lower(s.disk, v, c)
      BY DEF Growing, Disks
    <3>5. QED
      BY <1>1, <3>1, <3>3, <3>4, LowerBitmap
  <2>3. QED
    BY <2>1, <2>2
<1>6. QED
  BY <1>1, <1>3, <1>4, <1>5 DEF Growing

\* What alloc_block gives for s, when it does: a block that is not used.
Fresh(a, s) ==
  /\ a.r \in bitmap(s) /\ a.r \in Block /\ a.r >= 3 /\ a.s.cache[a.r] # NoBlock
  /\ Spare(ViewOf(a.s), a.r) /\ Places(ViewOf(a.s)) = Places(ViewOf(s))
  /\ \A g \in Places(ViewOf(s)) : Alike(ViewOf(a.s), ViewOf(s), g) /\ g[1] # a.r

\* alloc_block, when files may grow.
LEMMA AllocGrows ==
  ASSUME NEW s, NEW v, NEW c, Growing(s, v, c), NEW a, a = alloc_block(s)
  PROVE  /\ Growing(a.s, v, c) /\ Keeps(a.s, s)
         /\ (a.r < 0 /\ a.r \in Int /\ ViewOf(a.s) = ViewOf(s)) \/ Fresh(a, s)
<1>1. PICK w : w = ViewOf(s)
  OBVIOUS
<1>2. Live(s) /\ s.bad = {} /\ WellFormed(w) /\ w[2].free = bitmap(s)
  BY <1>1, LiveView DEF Growing
<1>3. Allocs(a.s, s) /\ (Refused(a, s) \/ Alloced(a, s))
  BY <1>2, AllocIs
<1>4. /\ Live(a.s) /\ Keeps(a.s, s) /\ a.s.bad = {}
      /\ \A d \in Disks(a.s) : d \in Disks(s) \/ Rebitted(d, s)
  BY <1>2, <1>3 DEF Allocs
<1>5. PICK x : x = ViewOf(a.s)
  OBVIOUS
<1>6. x[2].free = bitmap(a.s)
  BY <1>4, <1>5, LiveView
<1>7. CASE Refused(a, s)
  <2>1. x = w /\ a.r < 0 /\ a.r \in Int
    BY <1>1, <1>5, <1>7 DEF Refused
  <2>2. a.s.disk[2].free \subseteq bitmap(a.s)
    BY <1>2, <1>6, <1>7, <2>1 DEF Refused, Growing
  <2>3. Adopts(w, w, 0, 0, 0)
    BY DEF Adopts
  <2>4. Growing(a.s, v, c)
    BY <1>1, <1>4, <1>5, <2>1, <2>2, <2>3, GrowStep
  <2>5. QED
    BY <1>1, <1>4, <1>5, <2>1, <2>4
<1>8. CASE Alloced(a, s)
  <2>1. PICK b : b = a.r
    OBVIOUS
  <2>2. /\ b \in bitmap(s) /\ b \in Block /\ b >= 3 /\ a.s.cache[b] # NoBlock
        /\ x[2].free = w[2].free \ {b} /\ a.s.disk[2].free \subseteq bitmap(a.s)
        /\ \A e \in Block : e # 2 /\ e # b => x[e] = w[e]
    BY <1>1, <1>2, <1>5, <1>6, <1>8, <2>1 DEF Alloced
  <2>3. ASSUME NEW g \in Places(w) PROVE Alike(x, w, g) /\ g[1] # b
    <3>1. Role(w, g)
      BY <1>2, RoleIs
    <3>2. g \in Place /\ g[1] \in Block \ {0, 2} /\ g[1] # b
      BY <1>2, <2>2, <3>1 DEF Role
    <3>3. x[g[1]] = w[g[1]]
      BY <2>2, <3>2
    <3>4. FileIn(x, g) = FileIn(w, g)
      BY <3>2, <3>3, FileFrame
    <3>5. PICK i : i = FileIn(w, g).f_indirect
      OBVIOUS
    <3>6. i # 0 => i \in Block /\ i # 2 /\ i # b
      BY <1>2, <2>2, <3>5, IndirectIs
    <3>7. i # 0 => AsIndex(x[i]) = AsIndex(w[i])
      BY <2>2, <3>6
    <3>8. \A m \in Pointers : UseOf(x, g, m) = UseOf(w, g, m)
      BY <3>4, <3>5, <3>7, UseFrame
    <3>9. QED
      BY <3>2, <3>4, <3>8 DEF Alike
  <2>4. Adopts(x, w, 0, 0, 0)
    BY <2>3 DEF Adopts, Alike
  <2>5. x[2].free \subseteq w[2].free
    BY <2>2
  <2>6. Growing(a.s, v, c)
    BY <1>1, <1>4, <1>5, <2>2, <2>4, <2>5, GrowStep
  <2>7. Image(x)
    BY <1>4, <1>5, LiveView
  <2>8. Places(x) = Places(w)
    BY <1>2, <2>4, <2>5, <2>7, AdoptsGrown
  <2>9. Spare(x, b)
    <3>1. ASSUME NEW g \in Places(w), NEW m \in Pointers PROVE UseOf(x, g, m) # b
      <4>1. UseOf(x, g, m) = UseOf(w, g, m)
        BY <2>3 DEF Alike
      <4>2. CASE UseOf(w, g, m) = 0
        BY <2>2, <4>1, <4>2
      <4>3. CASE UseOf(w, g, m) # 0
        <5>1. UseOf(w, g, m) \notin w[2].free
          BY <1>2, <4>3, OwnedIs
        <5>2. QED
          BY <1>2, <2>2, <4>1, <5>1
      <4>4. QED
        BY <4>2, <4>3
    <3>2. QED
      BY <2>2, <2>8, <3>1 DEF Spare
  <2>10. Fresh(a, s)
    BY <1>1, <1>5, <2>1, <2>2, <2>3, <2>8, <2>9 DEF Fresh
  <2>11. QED
    BY <1>4, <2>6, <2>10
<1>9. QED
  BY <1>3, <1>7, <1>8

\* Reads, when files may grow.
LEMMA GrowingReads ==
  ASSUME NEW s, NEW v, NEW c, Growing(s, v, c), NEW t, Reads(t, s)
  PROVE  Growing(t, v, c)
<1>1. Live(t) /\ t.disk = s.disk /\ t.hist = s.hist /\ t.bad = s.bad /\ ViewOf(t) = ViewOf(s)
  BY DEF Reads
<1>2. bitmap(t) = bitmap(s)
  BY <1>1, LiveView DEF Growing
<1>3. Disks(t) = Disks(s)
  BY <1>1 DEF Disks
<1>4. QED
  BY <1>1, <1>2, <1>3 DEF Growing

\* What a store to one pointer does to the other files.
LEMMA OthersAlike ==
  ASSUME NEW w, WellFormed(w), NEW f \in Places(w), NEW x, NEW g \in Places(w), g # f,
         FileIn(x, g) = FileIn(w, g),
         \A e \in Block : e # f[1] /\ e # FileIn(w, f).f_indirect => x[e] = w[e]
  PROVE  Alike(x, w, g)
<1>1. PICK i : i = FileIn(w, g).f_indirect
  OBVIOUS
<1>2. Role(w, f)
  BY RoleIs
<1>3. i # f[1]
  BY <1>1, <1>2 DEF Role
<1>4. i \in Block /\ (i # 0 => FileIn(w, f).f_indirect # i)
  BY <1>1, IndirectIs
<1>5. i # 0 => AsIndex(x[i]) = AsIndex(w[i])
  BY <1>3, <1>4
<1>6. \A m \in Pointers : UseOf(x, g, m) = UseOf(w, g, m)
  BY <1>1, <1>5, UseFrame
<1>7. QED
  BY <1>6 DEF Alike

\* Stores that give at most one pointer to a file.
LEMMA StoredGrows ==
  ASSUME NEW s, NEW v, NEW c, Growing(s, v, c), NEW w, w = ViewOf(s), NEW t, Edits(t, s),
         NEW x, x = ViewOf(t), x[2] = w[2], NEW f, NEW n, NEW b, Adopts(x, w, f, n, b)
  PROVE  Growing(t, v, c) /\ Places(x) = Places(w)
<1>1. Live(t) /\ t.disk = s.disk /\ t.hist = s.hist /\ t.bad = s.bad
  BY DEF Edits
<1>2. x[2].free = bitmap(t) /\ w[2].free = bitmap(s) /\ Image(x) /\ s.bad = {} /\ WellFormed(w)
  BY <1>1, LiveView DEF Growing
<1>3. Disks(t) = Disks(s)
  BY <1>1 DEF Disks
<1>4. t.disk[2].free \subseteq bitmap(t)
  BY <1>1, <1>2 DEF Growing
<1>5. x[2].free \subseteq w[2].free
  OBVIOUS
<1>6. \A d \in Disks(t) : d \in Disks(s) \/ Rebitted(d, s)
  BY <1>3
<1>7. Growing(t, v, c)
  BY <1>1, <1>2, <1>4, <1>5, <1>6, GrowStep
<1>8. Places(x) = Places(w)
  BY <1>2, <1>5, AdoptsGrown
<1>9. QED
  BY <1>7, <1>8

\* A pointer that was 0 is set to a block that nobody uses.
LEMMA StorePtrGrows ==
  ASSUME NEW s, NEW v, NEW c, Growing(s, v, c), NEW w, w = ViewOf(s), NEW f \in Places(w), Held(s, f),
         NEW n \in 0 .. NINDIRECT - 1, NEW b, Spare(w, b), UseOf(w, f, n) = 0,
         n >= NDIRECT => FileIn(w, f).f_indirect # 0 /\ s.cache[FileIn(w, f).f_indirect] # NoBlock,
         NEW t, t = StorePtr(s, f, n, b), NEW x, x = ViewOf(t)
  PROVE  Growing(t, v, c) /\ Keeps(t, s) /\ Places(x) = Places(w) /\ UseOf(x, f, n) = b
<1>1. Live(s) /\ WellFormed(w)
  BY DEF Growing
<1>2. Apart(w, f) /\ Role(w, f)
  BY <1>1, ApartIs, RoleIs
<1>3. b \in Nat
  BY Numbers DEF Spare
<1>4. Edits(t, s) /\ PtrSet(x, w, f, n, b)
  BY <1>1, <1>2, <1>3, StorePtrIs
<1>5. PICK i : i = FileIn(w, f).f_indirect
  OBVIOUS
<1>6. \A e \in Block : e # f[1] /\ e # i => x[e] = w[e]
  <2>1. n < NDIRECT \/ n >= NDIRECT
    BY Dims
  <2>2. QED
    BY <1>4, <1>5, <2>1 DEF PtrSet
<1>7. ASSUME NEW g \in Places(w), g # f PROVE Alike(x, w, g)
  <2>1. Role(w, g)
    BY <1>1, RoleIs
  <2>2. g \in Place /\ (g[1] = 1 => g = Root) /\ g[1] # FileIn(w, f).f_indirect
    BY <2>1 DEF Role
  <2>3. FileIn(x, g) = FileIn(w, g)
    BY <1>4, <1>7, <2>2 DEF PtrSet
  <2>4. QED
    BY <1>1, <1>5, <1>6, <1>7, <2>3, OthersAlike
<1>8. x[2] = w[2]
  <2>1. CASE n < NDIRECT
    <3>1. f[1] # 2 /\ 2 \in Block
      BY <1>2, Numbers DEF Role
    <3>2. QED
      BY <1>4, <2>1, <3>1 DEF PtrSet
  <2>2. CASE n >= NDIRECT
    <3>1. i # 0 /\ i >= 3 /\ 2 \in Block
      BY <1>1, <1>5, <2>2, IndirectIs, Numbers
    <3>2. i # 2
      BY <3>1
    <3>3. QED
      BY <1>4, <1>5, <2>2, <3>1, <3>2 DEF PtrSet
  <2>3. QED
    BY <2>1, <2>2, Dims
<1>9. Adopts(x, w, f, n, b)
  <2>1. ASSUME NEW g \in Places(w)
        PROVE  FileIn(x, g).f_type = FileIn(w, g).f_type /\ FileIn(x, g).f_size = FileIn(w, g).f_size
    BY <1>4, <1>7 DEF PtrSet, Alike
  <2>2. ASSUME NEW g \in Places(w), NEW m \in Pointers
        PROVE  \/ UseOf(x, g, m) = UseOf(w, g, m)
               \/ g = f /\ m = n /\ UseOf(x, g, m) = b /\ UseOf(w, g, m) = 0 /\ Spare(w, b)
    BY <1>4, <1>7 DEF PtrSet, Alike
  <2>3. QED
    BY <2>1, <2>2 DEF Adopts
<1>10. QED
  BY <1>4, <1>8, <1>9, StoredGrows DEF Edits, PtrSet

\* A new indirect block for f, on an empty page.
LEMMA IndirectGrows ==
  ASSUME NEW s, NEW v, NEW c, Growing(s, v, c), NEW w, w = ViewOf(s), NEW f \in Places(w), Held(s, f),
         NEW b, Spare(w, b), f[1] # b, FileIn(w, f).f_indirect = 0, s.cache[b] = ZeroBlock,
         NEW t, t = StoreFile(s, f, [FileIn(w, f) EXCEPT !.f_indirect = b]), NEW x, x = ViewOf(t)
  PROVE  Growing(t, v, c) /\ Keeps(t, s) /\ Places(x) = Places(w) /\ FileIn(x, f).f_indirect = b
<1>1. Live(s) /\ WellFormed(w) /\ Image(w)
  BY LiveView DEF Growing
<1>2. Role(w, f)
  BY <1>1, RoleIs
<1>3. f \in Place /\ f[1] \in Block /\ f[1] # 2 /\ (f[1] = 1 => f = Root)
  BY <1>2 DEF Role
<1>4. PICK old : old = FileIn(w, f)
  OBVIOUS
<1>5. old \in FileType
  BY <1>1, <1>3, <1>4, ImageReadable, FileInIs
<1>6. b \in Nat /\ b \in Block /\ b >= 3
  BY Numbers DEF Spare
<1>7. PICK file : file = [old EXCEPT !.f_indirect = b]
  OBVIOUS
<1>8. /\ file \in FileType /\ file.f_indirect = b /\ file.f_direct = old.f_direct
      /\ file.f_type = old.f_type /\ file.f_size = old.f_size
  BY <1>5, <1>6, <1>7 DEF FileType
<1>9. t = StoreFile(s, f, file)
  BY <1>4, <1>7
<1>10. Edits(t, s) /\ FileStored(x, w, f, file)
  BY <1>1, <1>3, <1>8, <1>9, StoreFileIs
<1>11. FileIn(x, f) = file /\ \A e \in Block : e # f[1] => x[e] = w[e]
  BY <1>10 DEF FileStored
<1>12. ASSUME NEW g \in Places(w), g # f PROVE Alike(x, w, g)
  <2>1. Role(w, g)
    BY <1>1, RoleIs
  <2>2. g \in Place /\ (g[1] = 1 => g = Root)
    BY <2>1 DEF Role
  <2>3. FileIn(x, g) = FileIn(w, g)
    BY <1>10, <1>12, <2>2 DEF FileStored
  <2>4. QED
    BY <1>1, <1>11, <1>12, <2>3, OthersAlike
<1>13. x[2] = w[2]
  BY <1>3, <1>11, Numbers
<1>14. x[b] = ZeroBlock
  <2>1. w[b] = s.cache[b]
    <3>1. s \in FsState /\ s.cache[b] # NoBlock
      BY <1>1 DEF Live, ZeroBlock, NoBlock
    <3>2. QED
      BY <1>6, <3>1, ViewIs
  <2>2. QED
    BY <1>6, <1>11, <2>1
<1>15. ASSUME NEW m \in Pointers, m # -1 PROVE UseOf(x, f, m) = UseOf(w, f, m)
  <2>1. CASE m \in 0 .. NDIRECT - 1
    <3>1. UseOf(x, f, m) = FileIn(x, f).f_direct[m]
      BY <2>1, UseOfIs
    <3>2. UseOf(w, f, m) = FileIn(w, f).f_direct[m]
      BY <2>1, UseOfIs
    <3>3. QED
      BY <1>4, <1>8, <1>11, <3>1, <3>2
  <2>2. CASE m \in NDIRECT .. NINDIRECT - 1
    <3>1. UseOf(w, f, m) = 0
      BY <2>2, UseOfIs, Zenon
    <3>2. FileIn(x, f).f_indirect = b /\ FileIn(x, f).f_indirect # 0
      BY <1>6, <1>8, <1>11
    <3>3. UseOf(x, f, m) = AsIndex(x[FileIn(x, f).f_indirect])[m]
      BY <2>2, <3>2, UseOfIs
    <3>4. UseOf(x, f, m) = AsIndex(ZeroBlock)[m]
      BY <1>14, <3>2, <3>3
    <3>5. AsIndex(ZeroBlock) = NoPtrs
      BY DEF AsIndex, ZeroBlock
    <3>6. NoPtrs[m] = 0
      BY <2>2, Dims DEF NoPtrs
    <3>7. QED
      BY <3>1, <3>4, <3>5, <3>6
  <2>3. QED
    BY <1>15, <2>1, <2>2, PointersAre
<1>16. UseOf(x, f, -1) = b /\ UseOf(w, f, -1) = 0
  <2>1. UseOf(x, f, -1) = FileIn(x, f).f_indirect /\ UseOf(w, f, -1) = FileIn(w, f).f_indirect
    BY UseOfIs, ZenonT(40)
  <2>2. QED
    BY <1>8, <1>11, <2>1
<1>17. Adopts(x, w, f, -1, b)
  <2>1. ASSUME NEW g \in Places(w)
        PROVE  FileIn(x, g).f_type = FileIn(w, g).f_type /\ FileIn(x, g).f_size = FileIn(w, g).f_size
    BY <1>4, <1>8, <1>11, <1>12 DEF Alike
  <2>2. ASSUME NEW g \in Places(w), NEW m \in Pointers
        PROVE  \/ UseOf(x, g, m) = UseOf(w, g, m)
               \/ g = f /\ m = -1 /\ UseOf(x, g, m) = b /\ UseOf(w, g, m) = 0 /\ Spare(w, b)
    BY <1>12, <1>15, <1>16 DEF Alike
  <2>3. QED
    BY <2>1, <2>2 DEF Adopts
<1>18. QED
  BY <1>8, <1>10, <1>11, <1>13, <1>17, StoredGrows DEF Edits

\* A pointer is read from the cache, which is what the server sees.
LEMMA PtrCached ==
  ASSUME NEW s, Live(s), NEW f \in Place, Held(s, f), NEW n \in 0 .. NINDIRECT - 1, NEW i,
         i = FileIn(ViewOf(s), f).f_indirect, n >= NDIRECT => i \in Block /\ s.cache[i] # NoBlock
  PROVE  Ptr(s.cache, f, n) = Ptr(ViewOf(s), f, n)
<1>1. FileIn(s.cache, f) = FileIn(ViewOf(s), f)
  BY FileHeld
<1>2. CASE n < NDIRECT
  BY <1>1, <1>2 DEF Ptr
<1>3. CASE n >= NDIRECT
  <2>1. ViewOf(s)[i] = s.cache[i]
    BY <1>3, ViewIs DEF Live
  <2>2. ~(n < NDIRECT)
    BY <1>3, Dims
  <2>3. QED
    BY <1>1, <2>1, <2>2 DEF Ptr
<1>4. QED
  BY <1>2, <1>3, Dims

-----------------------------------------------------------------------------
(* The slot for block n of file f, and the block.                          *)

\* An indirect block of f that did not start empty; the behaviour ends.
Odd(s, f) ==
  /\ Live(s) /\ "stale_indirect" \in s.bad /\ Apart(ViewOf(s), f) /\ Held(s, f) /\ f[1] \notin bitmap(s)
  /\ FileIn(ViewOf(s), f).f_indirect # 0 /\ FileIn(ViewOf(s), f).f_indirect \notin bitmap(s)
  /\ s.cache[FileIn(ViewOf(s), f).f_indirect] # NoBlock

Slotted(x, f, n) ==
  /\ n \in 0 .. NINDIRECT - 1
  /\ n >= NDIRECT => /\ FileIn(ViewOf(x), f).f_indirect # 0
                     /\ x.cache[FileIn(ViewOf(x), f).f_indirect] # NoBlock

\* What file_block_walk leaves: no slot, one that may be used, or an odd one.
WalkEnds(t, r, s, v, c, f, n) ==
  /\ Live(t) /\ Keeps(t, s) /\ r \in Int
  /\ \/ Growing(t, v, c) /\ Places(ViewOf(t)) = Places(ViewOf(s)) /\ (r < 0 \/ (r = 0 /\ Slotted(t, f, n)))
     \/ r = 0 /\ Odd(t, f) /\ Slotted(t, f, n)

\* file_block_walk where the indirect block is there, or not needed.
LEMMA NoAllocEnds ==
  ASSUME NEW s, NEW v, NEW c, Growing(s, v, c), NEW f \in Places(ViewOf(s)), Held(s, f), NEW n \in Nat,
         n < NDIRECT \/ n >= NINDIRECT \/ FileIn(ViewOf(s), f).f_indirect # 0,
         NEW x, x = file_block_walk(s, f, n, TRUE)
  PROVE  WalkEnds(x.s, x.r, s, v, c, f, n)
<1>1. Sane(s, f)
  BY SaneIs DEF Growing
<1>2. /\ Reads(x.s, s) /\ x.r \in {0, E_INVAL, E_NOT_FOUND}
      /\ x.r >= 0 <=> n < NDIRECT \/ (n < NINDIRECT /\ FileIn(ViewOf(s), f).f_indirect # 0)
      /\ x.r >= 0 => /\ n \in 0 .. NINDIRECT - 1
                     /\ n >= NDIRECT => x.s.cache[FileIn(ViewOf(s), f).f_indirect] # NoBlock
  <2>1. PICK al \in BOOLEAN : al = TRUE
    OBVIOUS
  <2>2. x = file_block_walk(s, f, n, al)
    BY <2>1
  <2>3. ~al \/ n < NDIRECT \/ n >= NINDIRECT \/ FileIn(ViewOf(s), f).f_indirect # 0
    OBVIOUS
  <2>4. QED
    BY <1>1, <2>2, <2>3, WalkReads
<1>3. Growing(x.s, v, c)
  BY <1>2, GrowingReads
<1>4. ViewOf(x.s) = ViewOf(s) /\ Live(x.s) /\ Keeps(x.s, s)
  BY <1>2 DEF Reads
<1>5. x.r \in Int
  <2>1. {0, E_INVAL, E_NOT_FOUND} \subseteq Int
    BY DEF E_INVAL, E_NOT_FOUND
  <2>2. QED
    BY <1>2, <2>1, Zenon
<1>6. x.r < 0 \/ (x.r = 0 /\ Slotted(x.s, f, n))
  <2>1. CASE x.r >= 0
    <3>1. x.r = 0
      <4>1. ~(E_INVAL >= 0) /\ ~(E_NOT_FOUND >= 0)
        BY DEF E_INVAL, E_NOT_FOUND
      <4>2. QED
        BY <1>2, <2>1, <4>1
    <3>2. n >= NDIRECT => ~(n < NDIRECT)
      BY Dims
    <3>3. QED
      BY <1>2, <1>4, <2>1, <3>1, <3>2 DEF Slotted
  <2>2. \A r \in Int : r >= 0 \/ r < 0
    OBVIOUS
  <2>3. QED
    BY <1>5, <2>1, <2>2, Zenon
<1>7. QED
  BY <1>3, <1>4, <1>5, <1>6 DEF WalkEnds

\* A state that is marked: the mark is all that changes.
LEMMA BlameIs ==
  ASSUME NEW s, Live(s), NEW what \in Faults, NEW t, t = Blame(s, what)
  PROVE  /\ Live(t) /\ Keeps(t, s) /\ t.bad = s.bad \cup {what}
         /\ t.cache = s.cache /\ t.disk = s.disk /\ t.hist = s.hist /\ ViewOf(t) = ViewOf(s)
<1>1. PICK B : B = s.bad \cup {what}
  OBVIOUS
<1>2. t = [s EXCEPT !.bad = B]
  BY <1>1 DEF Blame
<1>3. s \in FsState
  BY DEF Live
<1>4. DOMAIN s = {"disk", "cache", "dirty", "hist", "pages", "bad"}
  BY <1>3, StateFields
<1>5. t.bad = B /\ t.cache = s.cache /\ t.disk = s.disk /\ t.dirty = s.dirty /\ t.hist = s.hist
  BY <1>2, <1>4
<1>6. t \in FsState
  <2>1. B \in SUBSET Faults
    BY <1>1, <1>3, StateFields
  <2>2. QED
    BY <1>2, <1>3, <2>1 DEF FsState
<1>7. ViewOf(t) = ViewOf(s)
  BY <1>5 DEF ViewOf, block_is_mapped
<1>8. QED
  BY <1>1, <1>5, <1>6, <1>7 DEF Live, Keeps

\* A block that alloc_block has given is not one that files use or are in.
LEMMA FreshSpare ==
  ASSUME NEW a, NEW s, Fresh(a, s), NEW f \in Places(ViewOf(s))
  PROVE  /\ a.r \in Block /\ a.r >= 3 /\ a.s.cache[a.r] # NoBlock /\ Spare(ViewOf(a.s), a.r)
         /\ a.r \notin ViewOf(a.s)[2].free /\ f[1] # a.r /\ Alike(ViewOf(a.s), ViewOf(s), f)
         /\ Places(ViewOf(a.s)) = Places(ViewOf(s)) /\ ~(a.r < 0)
<1>1. /\ a.r \in Block /\ a.r >= 3 /\ a.s.cache[a.r] # NoBlock /\ Spare(ViewOf(a.s), a.r)
      /\ f[1] # a.r /\ Alike(ViewOf(a.s), ViewOf(s), f) /\ Places(ViewOf(a.s)) = Places(ViewOf(s))
  BY DEF Fresh
<1>2. a.r \notin ViewOf(a.s)[2].free
  BY <1>1 DEF Spare
<1>3. ~(a.r < 0)
  <2>1. \A q \in Block : ~(q < 0)
    BY Numbers
  <2>2. QED
    BY <1>1, <2>1, Zenon
<1>4. QED
  BY <1>1, <1>2, <1>3

\* file_block_walk with a new indirect block.
LEMMA NewSlotEnds ==
  ASSUME NEW s, NEW v, NEW c, Growing(s, v, c), NEW f \in Places(ViewOf(s)), Held(s, f),
         NEW n \in NDIRECT .. NINDIRECT - 1, FileIn(ViewOf(s), f).f_indirect = 0,
         NEW x, x = file_block_walk(s, f, n, TRUE)
  PROVE  WalkEnds(x.s, x.r, s, v, c, f, n)
<1>1. Live(s) /\ WellFormed(ViewOf(s))
  BY DEF Growing
<1>2. Role(ViewOf(s), f)
  BY <1>1, RoleIs
<1>3. f \in Place /\ f[1] # 2 /\ f[1] \in Block \ {0, 2} /\ (f[1] = 1 => f = Root) /\ f[1] \notin ViewOf(s)[2].free
  BY <1>2 DEF Role
<1>4. File(s, f).f_indirect = 0
  BY <1>1, <1>3, FileHeld DEF File
<1>5. PICK a : a = alloc_block(s)
  OBVIOUS
<1>6. x = Try(a, LAMBDA y : Ok(read_block(NewIndirect(y, f), y.r)))
  <2>1. ~(n < NDIRECT) /\ ~(n >= NINDIRECT)
    BY Dims
  <2>2. QED
    BY <1>4, <1>5, <2>1 DEF file_block_walk
<1>7. /\ Growing(a.s, v, c) /\ Keeps(a.s, s)
      /\ (a.r < 0 /\ a.r \in Int /\ ViewOf(a.s) = ViewOf(s)) \/ Fresh(a, s)
  BY <1>5, AllocGrows
<1>8. Live(a.s) /\ a.s.bad = {}
  BY <1>7 DEF Growing
<1>9. CASE a.r < 0 /\ a.r \in Int /\ ViewOf(a.s) = ViewOf(s)
  <2>1. x = a
    BY <1>6, <1>9 DEF Try
  <2>2. QED
    BY <1>7, <1>8, <1>9, <2>1 DEF WalkEnds
<1>10. CASE Fresh(a, s)
  <2>1. PICK w : w = ViewOf(a.s)
    OBVIOUS
  <2>2. PICK b : b = a.r
    OBVIOUS
  <2>3. /\ b \in Block /\ b >= 3 /\ a.s.cache[b] # NoBlock /\ Spare(w, b)
        /\ b \notin w[2].free /\ f[1] # b /\ Alike(w, ViewOf(s), f)
        /\ Places(w) = Places(ViewOf(s)) /\ ~(b < 0)
    BY <1>10, <2>1, <2>2, FreshSpare
  <2>4. PICK t : t = NewIndirect(a, f)
    OBVIOUS
  <2>5. x = Ok(read_block(t, b))
    BY <1>6, <2>2, <2>3, <2>4 DEF Try
  <2>6. PICK u : u = read_block(t, b)
    OBVIOUS
  <2>7. Held(a.s, f)
    BY <1>3, <1>7, ReadsHeld
  <2>8. FileIn(w, f).f_indirect = 0 /\ f \in Places(w)
    BY <2>3 DEF Alike
  <2>9. File(a.s, f) = FileIn(w, f) /\ FileIn(w, f) \in FileType
    BY <1>3, <1>8, <2>1, <2>7, FileHeld DEF File
  <2>10. n \in 0 .. NINDIRECT - 1
    BY Dims
  <2>11. ASSUME a.s.cache[b] = ZeroBlock PROVE WalkEnds(u, 0, s, v, c, f, n)
    <3>1. t = StoreFile(a.s, f, [FileIn(w, f) EXCEPT !.f_indirect = b])
      BY <2>2, <2>4, <2>9, <2>11 DEF NewIndirect
    <3>2. PICK y : y = ViewOf(t)
      OBVIOUS
    <3>3. Growing(t, v, c) /\ Keeps(t, a.s) /\ Places(y) = Places(w) /\ FileIn(y, f).f_indirect = b
      BY <1>7, <2>1, <2>3, <2>7, <2>8, <2>11, <3>1, <3>2, IndirectGrows
    <3>4. Live(t) /\ WellFormed(y)
      BY <3>2, <3>3 DEF Growing
    <3>5. b \notin y[2].free
      <4>1. b # 0
        BY <2>3
      <4>2. f \in Places(y)
        BY <2>8, <3>3
      <4>3. QED
        BY <3>3, <3>4, <4>1, <4>2, IndirectIs
    <3>6. b \notin bitmap(t)
      BY <3>2, <3>4, <3>5, LiveView
    <3>7. Reads(u, t) /\ u.cache[b] # NoBlock
      BY <2>3, <2>6, <3>4, <3>6, ReadBlock
    <3>8. Growing(u, v, c)
      BY <3>3, <3>7, GrowingReads
    <3>9. ViewOf(u) = y /\ Live(u) /\ Keeps(u, t)
      BY <3>2, <3>7 DEF Reads
    <3>10. Keeps(u, s)
      BY <1>7, <3>3, <3>9, KeepsTrans
    <3>11. Slotted(u, f, n)
      BY <2>3, <2>10, <3>3, <3>7, <3>9 DEF Slotted
    <3>12. QED
      BY <2>3, <3>3, <3>8, <3>9, <3>10, <3>11 DEF WalkEnds
  <2>12. ASSUME a.s.cache[b] # ZeroBlock PROVE WalkEnds(u, 0, s, v, c, f, n)
    <3>1. PICK file : file = [FileIn(w, f) EXCEPT !.f_indirect = b]
      OBVIOUS
    <3>2. file \in FileType /\ file.f_indirect = b
      <4>1. b \in Nat
        BY <2>3, Numbers
      <4>2. QED
        BY <2>9, <3>1, <4>1 DEF FileType
    <3>3. PICK z : z = Blame(a.s, "stale_indirect")
      OBVIOUS
    <3>4. t = StoreFile(z, f, file)
      BY <2>2, <2>4, <2>9, <2>12, <3>1, <3>3 DEF NewIndirect
    <3>5. /\ Live(z) /\ Keeps(z, a.s) /\ "stale_indirect" \in z.bad /\ z.cache = a.s.cache
          /\ ViewOf(z) = w
      <4>1. "stale_indirect" \in Faults
        BY DEF Faults
      <4>2. QED
        BY <1>8, <2>1, <3>3, <4>1, BlameIs
    <3>6. Held(z, f)
      BY <2>7, <3>5 DEF Held
    <3>7. Edits(t, z) /\ FileStored(ViewOf(t), ViewOf(z), f, file)
      BY <1>3, <3>2, <3>4, <3>5, <3>6, StoreFileIs
    <3>8. PICK y : y = ViewOf(t)
      OBVIOUS
    <3>9. FileIn(y, f).f_indirect = b /\ y[2] = w[2] /\ Live(t) /\ Keeps(t, z) /\ "stale_indirect" \in t.bad
      BY <1>3, <3>2, <3>5, <3>7, <3>8, Numbers DEF Edits, FileStored
    <3>10. b \notin bitmap(t) /\ bitmap(t) = w[2].free
      BY <2>3, <3>8, <3>9, LiveView
    <3>11. Reads(u, t) /\ u.cache[b] # NoBlock
      BY <2>3, <2>6, <3>9, <3>10, ReadBlock
    <3>12. ViewOf(u) = y /\ Live(u) /\ Keeps(u, t) /\ "stale_indirect" \in u.bad
      BY <3>8, <3>9, <3>11 DEF Reads
    <3>13. Keeps(u, s) /\ Keeps(u, a.s)
      BY <1>7, <3>5, <3>9, <3>12, KeepsTrans
    <3>14. bitmap(u) = bitmap(t)
      BY <3>8, <3>9, <3>12, LiveView
    <3>15. Slotted(u, f, n)
      BY <2>3, <2>10, <3>9, <3>11, <3>12 DEF Slotted
    <3>16. f[1] \notin bitmap(u)
      <4>1. f[1] \notin w[2].free
        <5>1. WellFormed(w)
          BY <1>7, <2>1 DEF Growing
        <5>2. Role(w, f)
          BY <2>8, <5>1, RoleIs
        <5>3. QED
          BY <5>2 DEF Role
      <4>2. QED
        BY <3>10, <3>14, <4>1
    <3>17. Held(u, f)
      BY <1>3, <2>7, <3>13, ReadsHeld
    <3>18. Apart(y, f)
      BY <1>3, <2>3, <3>9 DEF Apart
    <3>19. b # 0
      BY <2>3
    <3>20. Odd(u, f)
      BY <3>9, <3>10, <3>11, <3>12, <3>14, <3>16, <3>17, <3>18, <3>19 DEF Odd
    <3>21. QED
      BY <3>12, <3>13, <3>15, <3>20 DEF WalkEnds
  <2>13. WalkEnds(u, 0, s, v, c, f, n)
    BY <2>11, <2>12
  <2>14. x.s = u /\ x.r = 0
    <3>1. x = Ok(u)
      BY <2>5, <2>6
    <3>2. Ok(u).s = u /\ Ok(u).r = 0
      BY DEF Ok
    <3>3. QED
      BY <3>1, <3>2, Zenon
  <2>15. QED
    BY <2>13, <2>14
<1>11. QED
  BY <1>7, <1>9, <1>10

\* file_block_walk with alloc.
LEMMA WalkGrows ==
  ASSUME NEW s, NEW v, NEW c, Growing(s, v, c), NEW f \in Places(ViewOf(s)), Held(s, f), NEW n \in Nat,
         NEW x, x = file_block_walk(s, f, n, TRUE)
  PROVE  WalkEnds(x.s, x.r, s, v, c, f, n)
<1>1. CASE n < NDIRECT \/ n >= NINDIRECT \/ FileIn(ViewOf(s), f).f_indirect # 0
  BY <1>1, NoAllocEnds
<1>2. CASE ~(n < NDIRECT \/ n >= NINDIRECT \/ FileIn(ViewOf(s), f).f_indirect # 0)
  <2>1. n \in NDIRECT .. NINDIRECT - 1 /\ FileIn(ViewOf(s), f).f_indirect = 0
    BY <1>2, Dims
  <2>2. QED
    BY <2>1, NewSlotEnds
<1>3. QED
  BY <1>1, <1>2

\* What file_map_block leaves: an error, the block, or the end of the behaviour.
MapEnds(t, r, s, v, c, f, n) ==
  /\ Live(t) /\ Keeps(t, s) /\ r \in Int
  /\ \/ /\ Growing(t, v, c) /\ Places(ViewOf(t)) = Places(ViewOf(s))
        /\ r < 0 \/ (n \in 0 .. NINDIRECT - 1 /\ r = UseOf(ViewOf(t), f, n) /\ r # 0)
     \/ "stale_indirect" \in t.bad

\* The two parts of a result.
LEMMA RetIs == ASSUME NEW s, NEW r PROVE Ret(s, r).s = s /\ Ret(s, r).r = r
  BY DEF Ret

\* In a state that has ended only the types matter.
LEMMA OddMaps ==
  ASSUME NEW s, NEW f, Odd(s, f), NEW n, Slotted(s, f, n), NEW a, a = alloc_block(s)
  PROVE  /\ Allocs(a.s, s) /\ a.r \in Int
         /\ a.r < 0 \/ Edits(StorePtr(a.s, f, n, a.r), a.s)
<1>1. PICK w : w = ViewOf(s)
  OBVIOUS
<1>2. PICK i : i = FileIn(w, f).f_indirect
  OBVIOUS
<1>3. /\ Live(s) /\ Apart(w, f) /\ Held(s, f) /\ f[1] \notin bitmap(s) /\ i # 0 /\ i \notin bitmap(s)
      /\ s.cache[i] # NoBlock
  BY <1>1, <1>2 DEF Odd
<1>4. /\ f \in Place /\ f[1] \in Block \ {0, 2} /\ (f[1] = 1 => f = Root) /\ i \in Block /\ i >= 3 /\ i # f[1]
  BY <1>2, <1>3 DEF Apart
<1>5. Allocs(a.s, s) /\ (Refused(a, s) \/ Alloced(a, s))
  BY <1>3, AllocIs
<1>6. Live(a.s) /\ Keeps(a.s, s)
  BY <1>5 DEF Allocs
<1>7. CASE Refused(a, s)
  BY <1>5, <1>7 DEF Refused
<1>8. CASE Alloced(a, s)
  <2>1. PICK b : b = a.r
    OBVIOUS
  <2>2. b \in bitmap(s) /\ b \in Block /\ \A e \in Block : e # 2 /\ e # b => ViewOf(a.s)[e] = w[e]
    BY <1>1, <1>8, <2>1 DEF Alloced
  <2>3. b \in Nat /\ b \in Int
    BY <2>2, Numbers
  <2>4. PICK y : y = ViewOf(a.s)
    OBVIOUS
  <2>5. y[f[1]] = w[f[1]]
    BY <1>3, <1>4, <2>2, <2>4
  <2>6. FileIn(y, f) = FileIn(w, f)
    BY <1>4, <2>5, FileFrame
  <2>7. Apart(y, f)
    BY <1>3, <2>6 DEF Apart
  <2>8. Held(a.s, f) /\ a.s.cache[i] # NoBlock
    BY <1>3, <1>4, <1>6 DEF Keeps, Held
  <2>9. n \in 0 .. NINDIRECT - 1
    BY DEF Slotted
  <2>10. n >= NDIRECT => FileIn(y, f).f_indirect # 0 /\ a.s.cache[FileIn(y, f).f_indirect] # NoBlock
    BY <1>2, <1>3, <2>6, <2>8
  <2>11. PICK t : t = StorePtr(a.s, f, n, b)
    OBVIOUS
  <2>12. Edits(t, a.s)
    BY <1>6, <2>3, <2>4, <2>7, <2>8, <2>9, <2>10, <2>11, StorePtrIs
  <2>13. QED
    BY <1>5, <2>1, <2>3, <2>11, <2>12
<1>9. QED
  BY <1>5, <1>7, <1>8

\* file_map_block with alloc gives a block that is the file's alone.
LEMMA MapGrows ==
  ASSUME NEW s, NEW v, NEW c, Growing(s, v, c), NEW f \in Places(ViewOf(s)), Held(s, f), NEW n \in Nat,
         NEW m, m = file_map_block(s, f, n, TRUE)
  PROVE  MapEnds(m.s, m.r, s, v, c, f, n)
<1>1. PICK x : x = file_block_walk(s, f, n, TRUE)
  OBVIOUS
<1>2. PICK y : y = x.s
  OBVIOUS
<1>3. WalkEnds(y, x.r, s, v, c, f, n)
  BY <1>1, <1>2, WalkGrows
<1>4. Live(y) /\ Keeps(y, s) /\ x.r \in Int
  BY <1>3 DEF WalkEnds
<1>5. PICK w : w = ViewOf(y)
  OBVIOUS
<1>6. f \in Place
  <2>1. Role(ViewOf(s), f)
    BY RoleIs DEF Growing
  <2>2. QED
    BY <2>1 DEF Role
<1>7. Held(y, f)
  BY <1>4, <1>6, ReadsHeld
<1>8. CASE x.r < 0
  <2>1. m = x
    BY <1>1, <1>8 DEF file_map_block, Try
  <2>2. ~(x.r = 0)
    BY <1>8
  <2>3. QED
    BY <1>2, <1>3, <1>8, <2>1, <2>2 DEF WalkEnds, MapEnds
<1>9. CASE ~(x.r < 0)
  <2>1. PICK q : q = Ptr(w, f, n)
    OBVIOUS
  <2>2. Slotted(y, f, n)
    BY <1>3, <1>9 DEF WalkEnds
  <2>3. n \in 0 .. NINDIRECT - 1
    BY <2>2 DEF Slotted
  <2>4. CASE Growing(y, v, c) /\ Places(w) = Places(ViewOf(s))
    <3>1. WellFormed(w) /\ f \in Places(w)
      BY <1>5, <2>4 DEF Growing
    <3>2. PICK i : i = FileIn(w, f).f_indirect
      OBVIOUS
    <3>3. i \in Block
      BY <3>1, <3>2, IndirectIs
    <3>4. Ptr(y.cache, f, n) = q
      <4>1. n >= NDIRECT => i \in Block /\ y.cache[i] # NoBlock
        BY <1>5, <2>2, <3>2, <3>3 DEF Slotted
      <4>2. QED
        BY <1>4, <1>5, <1>6, <1>7, <2>1, <2>3, <3>2, <4>1, PtrCached
    <3>5. UseOf(w, f, n) = q
      <4>1. UseOf(w, f, n) = Ptr(w, f, n)
        BY <2>3, UseOfIs, Zenon
      <4>2. QED
        BY <2>1, <4>1
    <3>6. q \in Nat
      <4>1. Sane(y, f)
        BY <1>4, <1>5, <1>7, <3>1, SaneIs
      <4>2. QED
        BY <1>5, <2>1, <2>3, <4>1, PtrIs
    <3>7. CASE q # 0
      <4>1. m = Ret(y, q)
        BY <1>1, <1>2, <1>9, <3>4, <3>7 DEF file_map_block, Try
      <4>2. m.s = y /\ m.r = q
        BY <4>1, RetIs, Zenon
      <4>3. MapEnds(y, q, s, v, c, f, n)
        BY <1>4, <1>5, <2>3, <2>4, <3>5, <3>6, <3>7 DEF MapEnds
      <4>4. QED
        BY <4>2, <4>3
    <3>8. CASE q = 0
      <4>1. PICK a : a = alloc_block(y)
        OBVIOUS
      <4>2. m = Try(a, LAMBDA z : Ret(StorePtr(z.s, f, n, z.r), z.r))
        BY <1>1, <1>2, <1>9, <3>4, <3>8, <4>1 DEF file_map_block, Try
      <4>3. /\ Growing(a.s, v, c) /\ Keeps(a.s, y)
            /\ (a.r < 0 /\ a.r \in Int /\ ViewOf(a.s) = ViewOf(y)) \/ Fresh(a, y)
        BY <2>4, <4>1, AllocGrows
      <4>4. Keeps(a.s, s) /\ Live(a.s)
        BY <1>4, <4>3, KeepsTrans DEF Growing
      <4>5. CASE a.r < 0 /\ a.r \in Int /\ ViewOf(a.s) = ViewOf(y)
        <5>1. m = a
          BY <4>2, <4>5 DEF Try
        <5>2. QED
          BY <1>5, <2>4, <4>3, <4>4, <4>5, <5>1 DEF MapEnds
      <4>6. CASE Fresh(a, y)
        <5>1. PICK b : b = a.r
          OBVIOUS
        <5>2. PICK k : k = ViewOf(a.s)
          OBVIOUS
        <5>3. f \in Places(ViewOf(y))
          BY <1>5, <3>1
        <5>4. /\ b \in Block /\ b >= 3 /\ Spare(k, b)
              /\ Alike(k, w, f) /\ Places(k) = Places(w) /\ ~(b < 0)
          BY <1>5, <4>6, <5>1, <5>2, <5>3, FreshSpare
        <5>5. PICK t : t = StorePtr(a.s, f, n, b)
          OBVIOUS
        <5>6. m = Ret(t, b)
          BY <4>2, <5>1, <5>4, <5>5 DEF Try
        <5>7. m.s = t /\ m.r = b
          BY <5>6, RetIs, Zenon
        <5>8. Held(a.s, f)
          BY <1>6, <1>7, <4>3, ReadsHeld
        <5>9. n \in Pointers
          BY <2>3 DEF Pointers
        <5>10. UseOf(k, f, n) = 0 /\ FileIn(k, f) = FileIn(w, f)
          BY <3>5, <3>8, <5>4, <5>9 DEF Alike
        <5>11. n >= NDIRECT => FileIn(k, f).f_indirect # 0 /\ a.s.cache[FileIn(k, f).f_indirect] # NoBlock
          BY <1>5, <2>2, <3>2, <3>3, <4>3, <5>10 DEF Slotted, Keeps
        <5>12. f \in Places(k)
          BY <3>1, <5>4
        <5>13. PICK z : z = ViewOf(t)
          OBVIOUS
        <5>14. Growing(t, v, c) /\ Keeps(t, a.s) /\ Places(z) = Places(k) /\ UseOf(z, f, n) = b
          BY <2>3, <4>3, <5>2, <5>4, <5>5, <5>8, <5>10, <5>11, <5>12, <5>13, StorePtrGrows
        <5>15. Keeps(t, s) /\ Live(t)
          BY <4>4, <5>14, KeepsTrans DEF Growing
        <5>16. b \in Int /\ b # 0
          BY <5>4, Numbers
        <5>17. MapEnds(t, b, s, v, c, f, n)
          BY <2>3, <2>4, <5>4, <5>13, <5>14, <5>15, <5>16 DEF MapEnds
        <5>18. QED
          BY <5>7, <5>17
      <4>7. QED
        BY <4>3, <4>5, <4>6
    <3>9. QED
      BY <3>7, <3>8
  <2>5. CASE Odd(y, f)
    <3>1. PICK p : p = Ptr(y.cache, f, n)
      OBVIOUS
    <3>2. p \in Nat
      <4>1. PICK i : i = FileIn(w, f).f_indirect
        OBVIOUS
      <4>2. Apart(w, f) /\ i # 0 /\ i \notin bitmap(y) /\ y.cache[i] # NoBlock
        BY <1>5, <2>5, <4>1 DEF Odd
      <4>3. i \in Block /\ i >= 3
        BY <4>1, <4>2 DEF Apart
      <4>4. Sane(y, f)
        BY <1>4, <1>5, <1>6, <1>7, <4>1, <4>2, <4>3 DEF Sane
      <4>5. Ptr(y.cache, f, n) = Ptr(w, f, n)
        BY <1>4, <1>5, <1>6, <1>7, <2>3, <4>1, <4>2, <4>3, PtrCached
      <4>6. QED
        BY <1>5, <2>3, <3>1, <4>4, <4>5, PtrIs
    <3>3. "stale_indirect" \in y.bad
      BY <2>5 DEF Odd
    <3>4. CASE p # 0
      <4>1. m = Ret(y, p)
        BY <1>1, <1>2, <1>9, <3>1, <3>4 DEF file_map_block, Try
      <4>2. m.s = y /\ m.r = p
        BY <4>1, RetIs, Zenon
      <4>3. MapEnds(y, p, s, v, c, f, n)
        BY <1>4, <3>2, <3>3 DEF MapEnds
      <4>4. QED
        BY <4>2, <4>3
    <3>5. CASE p = 0
      <4>1. PICK a : a = alloc_block(y)
        OBVIOUS
      <4>2. m = Try(a, LAMBDA z : Ret(StorePtr(z.s, f, n, z.r), z.r))
        BY <1>1, <1>2, <1>9, <3>1, <3>5, <4>1 DEF file_map_block, Try
      <4>3. /\ Allocs(a.s, y) /\ a.r \in Int
            /\ a.r < 0 \/ Edits(StorePtr(a.s, f, n, a.r), a.s)
        BY <2>2, <2>5, <4>1, OddMaps
      <4>4. Live(a.s) /\ Keeps(a.s, y) /\ "stale_indirect" \in a.s.bad
        BY <3>3, <4>3 DEF Allocs
      <4>5. Keeps(a.s, s)
        BY <1>4, <4>4, KeepsTrans
      <4>6. CASE a.r < 0
        <5>1. m = a
          BY <4>2, <4>6 DEF Try
        <5>2. QED
          BY <4>3, <4>4, <4>5, <5>1 DEF MapEnds
      <4>7. CASE ~(a.r < 0)
        <5>1. PICK t, e : e = a.r /\ t = StorePtr(a.s, f, n, e)
          OBVIOUS
        <5>2. m = Ret(t, e)
          BY <4>2, <4>7, <5>1 DEF Try
        <5>3. m.s = t /\ m.r = e
          BY <5>2, RetIs, Zenon
        <5>4. Live(t) /\ Keeps(t, a.s) /\ "stale_indirect" \in t.bad
          BY <4>3, <4>4, <4>7, <5>1 DEF Edits
        <5>5. Keeps(t, s)
          BY <4>5, <5>4, KeepsTrans
        <5>6. QED
          BY <4>3, <5>1, <5>3, <5>4, <5>5 DEF MapEnds
      <4>8. QED
        BY <4>6, <4>7
    <3>6. QED
      BY <3>4, <3>5
  <2>6. QED
    BY <1>3, <1>5, <1>9, <2>4, <2>5 DEF WalkEnds
<1>10. QED
  BY <1>8, <1>9

\* What file_get_block leaves.
GetEnds(t, r, s, v, c, f, n) ==
  /\ MapEnds(t, r, s, v, c, f, n)
  /\ t.bad = {} /\ ~(r < 0) => r \in Block /\ t.cache[r] # NoBlock

\* file_get_block reads or takes one block of the file.
LEMMA GetGrows ==
  ASSUME NEW s, NEW v, NEW c, Growing(s, v, c), NEW f \in Places(ViewOf(s)), Held(s, f), NEW n \in Nat,
         NEW g, g = file_get_block(s, f, n)
  PROVE  GetEnds(g.s, g.r, s, v, c, f, n)
<1>1. PICK m : m = file_map_block(s, f, n, TRUE)
  OBVIOUS
<1>2. PICK y : y = m.s
  OBVIOUS
<1>3. PICK b : b = m.r
  OBVIOUS
<1>4. MapEnds(y, b, s, v, c, f, n)
  BY <1>1, <1>2, <1>3, MapGrows
<1>5. Live(y) /\ Keeps(y, s) /\ b \in Int
  BY <1>4 DEF MapEnds
<1>6. CASE b < 0
  <2>1. g = m
    BY <1>1, <1>3, <1>6 DEF file_get_block, Try
  <2>2. QED
    BY <1>2, <1>3, <1>4, <1>6, <2>1 DEF GetEnds
<1>7. CASE ~(b < 0)
  <2>1. PICK t : t = read_block(y, b)
    OBVIOUS
  <2>2. g = Ret(t, b)
    BY <1>1, <1>2, <1>3, <1>7, <2>1 DEF file_get_block, Try
  <2>3. g.s = t /\ g.r = b
    BY <2>2, RetIs, Zenon
  <2>4. ASSUME Growing(y, v, c), Places(ViewOf(y)) = Places(ViewOf(s)), n \in 0 .. NINDIRECT - 1,
               b = UseOf(ViewOf(y), f, n), b # 0
        PROVE  GetEnds(t, b, s, v, c, f, n)
    <3>1. PICK w : w = ViewOf(y)
      OBVIOUS
    <3>2. WellFormed(w) /\ f \in Places(w) /\ n \in Pointers /\ w[2].free = bitmap(y)
      BY <1>5, <2>4, <3>1, LiveView DEF Growing, Pointers
    <3>3. Sole(w, f, n, b)
      BY <2>4, <3>1, <3>2, OwnedBy
    <3>4. b \in Block /\ b \notin bitmap(y)
      BY <3>2, <3>3 DEF Sole
    <3>5. Reads(t, y) /\ t.cache[b] # NoBlock
      BY <1>5, <2>1, <3>4, ReadBlock
    <3>6. Growing(t, v, c)
      BY <2>4, <3>5, GrowingReads
    <3>7. Live(t) /\ Keeps(t, s) /\ ViewOf(t) = w
      BY <1>5, <3>1, <3>5, KeepsTrans DEF Reads
    <3>8. MapEnds(t, b, s, v, c, f, n)
      BY <1>5, <2>4, <3>1, <3>6, <3>7 DEF MapEnds
    <3>9. QED
      BY <3>4, <3>5, <3>8 DEF GetEnds
  <2>5. ASSUME "stale_indirect" \in y.bad PROVE GetEnds(t, b, s, v, c, f, n)
    <3>1. Live(t) /\ Keeps(t, y) /\ "stale_indirect" \in t.bad
      <4>1. CASE b \notin Block \/ block_is_free(y, b)
        <5>1. t = Blame(y, "panic")
          BY <2>1, <4>1 DEF read_block
        <5>2. "panic" \in Faults
          BY DEF Faults
        <5>3. Live(t) /\ Keeps(t, y) /\ t.bad = y.bad \cup {"panic"}
          BY <1>5, <5>1, <5>2, BlameIs
        <5>4. QED
          BY <2>5, <5>3
      <4>2. CASE ~(b \notin Block \/ block_is_free(y, b))
        <5>1. b \in Block /\ t = LoadBlock(y, b)
          BY <2>1, <4>2 DEF read_block
        <5>2. Reads(t, y)
          BY <1>5, <5>1, LoadReads
        <5>3. QED
          BY <2>5, <5>2 DEF Reads
      <4>3. QED
        BY <4>1, <4>2
    <3>2. Keeps(t, s)
      BY <1>5, <3>1, KeepsTrans
    <3>3. QED
      BY <1>5, <3>1, <3>2 DEF GetEnds, MapEnds
  <2>6. GetEnds(t, b, s, v, c, f, n)
    BY <1>4, <1>7, <2>4, <2>5 DEF MapEnds
  <2>7. QED
    BY <2>3, <2>6
<1>8. QED
  BY <1>6, <1>7

-----------------------------------------------------------------------------
(* fs_sync.                                                                *)

\* The disk once fs_sync has come to block n.
Synced(s, n) == [b \in Block |-> IF b < n /\ block_is_dirty(s, b) THEN s.cache[b] ELSE s.disk[b]]

\* fs_sync writes every dirty block, and the disks in between lag behind v still.
LEMMA SyncFlushes ==
  ASSUME NEW s, NEW v, NEW c, Ready(s, v, c), NEW t, t = fs_sync(s)
  PROVE  Flushed(t, s, v, c)
<1>1. /\ Live(s) /\ v = ViewOf(s) /\ WellFormed(v) /\ s \in FsState
      /\ \A d \in Disks(s) : Lower(d, v, c)
  BY DEF Ready, Live
<1>2. /\ s.disk \in [Block -> Content] /\ s.cache \in [Block -> Cached] /\ s.hist \in SUBSET Stage
      /\ DOMAIN s = {"disk", "cache", "dirty", "hist", "pages", "bad"}
  BY <1>1, StateFields
<1>3. PICK H : H = {Synced(s, n) : n \in Block}
  OBVIOUS
<1>4. t = [s EXCEPT !.disk = Synced(s, NBlocks), !.hist = s.hist \cup H]
  BY <1>3 DEF fs_sync, Synced
<1>5. ASSUME NEW n
      PROVE  /\ Synced(s, n) \in [Block -> Content]
             /\ \A b \in Block : Synced(s, n)[b] \in {s.disk[b], v[b]}
             /\ \A b \in Block : s.cache[b] = NoBlock => Synced(s, n)[b] = s.disk[b]
  <2>1. ASSUME NEW b \in Block
        PROVE  /\ Synced(s, n)[b] \in Content /\ Synced(s, n)[b] \in {s.disk[b], v[b]}
               /\ s.cache[b] = NoBlock => Synced(s, n)[b] = s.disk[b]
    <3>1. Synced(s, n)[b] = IF b < n /\ block_is_dirty(s, b) THEN s.cache[b] ELSE s.disk[b]
      BY DEF Synced
    <3>2. block_is_dirty(s, b) => s.cache[b] # NoBlock
      BY DEF block_is_dirty, block_is_mapped
    <3>3. s.cache[b] # NoBlock => v[b] = s.cache[b] /\ s.cache[b] \in Content
      BY <1>1, <1>2, ViewIs DEF Cached
    <3>4. s.disk[b] \in Content
      BY <1>2
    <3>5. CASE b < n /\ block_is_dirty(s, b)
      BY <3>1, <3>2, <3>3, <3>5
    <3>6. CASE ~(b < n /\ block_is_dirty(s, b))
      BY <3>1, <3>4, <3>6
    <3>7. QED
      BY <3>5, <3>6
  <2>2. Synced(s, n) = [b \in Block |-> Synced(s, n)[b]]
    BY DEF Synced
  <2>3. QED
    BY <2>1, <2>2
<1>6. ASSUME NEW n PROVE Lower(Synced(s, n), v, c)
  <2>1. Lower(s.disk, v, c)
    BY <1>1 DEF Disks
  <2>2. PICK e : e = Synced(s, n)
    OBVIOUS
  <2>3. e \in [Block -> Content] /\ \A b \in Block : e[b] \in {s.disk[b], v[b]}
    BY <1>5, <2>2
  <2>4. Lower(e, v, c)
    BY <1>1, <2>1, <2>3, LowerMix
  <2>5. QED
    BY <2>2, <2>4
<1>7. /\ t.disk = Synced(s, NBlocks) /\ t.hist = s.hist \cup H /\ t.cache = s.cache /\ t.dirty = s.dirty
      /\ t.bad = s.bad /\ t.pages = s.pages
  BY <1>2, <1>4
<1>8. H \in SUBSET Stage
  BY <1>3, <1>5, Staged
<1>9. t \in FsState
  <2>1. Synced(s, NBlocks) \in [Block -> Content] /\ s.hist \cup H \in SUBSET Stage
    BY <1>2, <1>5, <1>8
  <2>2. PICK D, E : D = Synced(s, NBlocks) /\ E = s.hist \cup H
    OBVIOUS
  <2>3. t = [s EXCEPT !.disk = D, !.hist = E] /\ D \in [Block -> Content] /\ E \in SUBSET Stage
    BY <1>4, <2>1, <2>2
  <2>4. QED
    BY <1>1, <2>3 DEF FsState
<1>10. Live(t)
  BY <1>1, <1>7, <1>9 DEF Live
<1>11. ViewOf(t) = v
  <2>1. ASSUME NEW b \in Block PROVE (IF t.cache[b] # NoBlock THEN t.cache[b] ELSE t.disk[b])
                                     = (IF s.cache[b] # NoBlock THEN s.cache[b] ELSE s.disk[b])
    BY <1>5, <1>7
  <2>2. ViewOf(t) = ViewOf(s)
    BY <2>1 DEF ViewOf, block_is_mapped
  <2>3. QED
    BY <1>1, <2>2
<1>12. \A d \in Disks(t) : Lower(d, v, c)
  <2>1. ASSUME NEW d \in Disks(t) PROVE Lower(d, v, c)
    <3>1. d \in s.hist \/ d \in H \/ d = Synced(s, NBlocks)
      BY <1>7 DEF Disks
    <3>2. CASE d \in s.hist
      BY <1>1, <3>2 DEF Disks
    <3>3. CASE d \in H
      <4>1. PICK n \in Block : d = Synced(s, n)
        BY <1>3, <3>3
      <4>2. QED
        BY <1>6, <4>1
    <3>4. CASE d = Synced(s, NBlocks)
      BY <1>6, <3>4
    <3>5. QED
      BY <3>1, <3>2, <3>3, <3>4
  <2>2. QED
    BY <2>1
<1>13. ASSUME NEW b \in Block, s.disk[b] = v[b] PROVE t.disk[b] = v[b]
  <2>1. Synced(s, NBlocks)[b] \in {s.disk[b], v[b]}
    BY <1>5
  <2>2. QED
    BY <1>7, <1>13, <2>1
<1>14. Keeps(t, s)
  BY <1>7 DEF Keeps
<1>15. QED
  BY <1>1, <1>7, <1>10, <1>11, <1>12, <1>13, <1>14 DEF Flushed

-----------------------------------------------------------------------------
(* fs_init on a disk d.                                                    *)

Server(k, e, u, h) == [disk |-> k, cache |-> e, dirty |-> u, hist |-> h, pages |-> 0, bad |-> {}]

\* The fields of a server that has just started.
LEMMA ServerIs ==
  ASSUME NEW k, NEW e, NEW u, NEW h, NEW s, s = Server(k, e, u, h)
  PROVE  s.disk = k /\ s.cache = e /\ s.dirty = u /\ s.hist = h /\ s.pages = 0 /\ s.bad = {}
  BY DEF Server

Puts(t, s, c, w) == t = [s EXCEPT !.cache = c, !.dirty = w]

\* A server that differs in its cache.
LEMMA ServerPuts ==
  ASSUME NEW k, NEW e, NEW u, NEW h, NEW c, NEW w, NEW s, s = Server(k, e, u, h),
         NEW t, Puts(t, s, c, w)
  PROVE  t = Server(k, c, w, h)
<1>1. PICK F : F = {"disk", "cache", "dirty", "hist", "pages", "bad"}
  OBVIOUS
<1>2. DOMAIN s = F
  BY <1>1 DEF Server
<1>3. t.disk = k /\ t.cache = c /\ t.dirty = w /\ t.hist = h /\ t.pages = 0 /\ t.bad = {}
  BY <1>1, <1>2, ServerIs DEF Puts
<1>4. t = [x \in F |-> t[x]]
  BY <1>2 DEF Puts
<1>5. QED
  BY <1>1, <1>3, <1>4 DEF Server

\* c and w are the cache e and the dirty blocks u with block b of the disk k.
Loads(c, w, k, e, u, b) == e[b] = NoBlock /\ c = [e EXCEPT ![b] = k[b]] /\ w = u \cup {b}

\* A block is loaded by such a server.
LEMMA ServerLoads ==
  ASSUME NEW k, NEW e, NEW u, NEW h, NEW b, NEW c, NEW w, Loads(c, w, k, e, u, b),
         NEW s, s = Server(k, e, u, h)
  PROVE  LoadBlock(s, b) = Server(k, c, w, h)
<1>1. s = Server(k, e, u, h)
  OBVIOUS
<1>2. s.disk = k /\ s.cache = e /\ s.dirty = u /\ s.hist = h /\ s.pages = 0 /\ s.bad = {}
  BY <1>1, ServerIs
<1>3. LoadBlock(s, b) = [s EXCEPT !.cache[b] = s.disk[b], !.dirty = @ \cup {b}]
  BY <1>2 DEF LoadBlock, block_is_mapped, Loads
<1>4. LoadBlock(s, b) = [s EXCEPT !.cache = [e EXCEPT ![b] = k[b]], !.dirty = u \cup {b}]
  BY <1>2, <1>3
<1>5. c = [e EXCEPT ![b] = k[b]] /\ w = u \cup {b}
  BY DEF Loads
<1>6. LoadBlock(s, b) = [s EXCEPT !.cache = c, !.dirty = w]
  BY <1>4, <1>5
<1>7. PICK t : t = LoadBlock(s, b)
  OBVIOUS
<1>8. Puts(t, s, c, w)
  BY <1>6, <1>7 DEF Puts
<1>9. t = Server(k, c, w, h)
  BY <1>1, <1>8, ServerPuts
<1>10. QED
  BY <1>7, <1>9

\* A block is written by such a server.
LEMMA ServerWrites ==
  ASSUME NEW k, NEW e, NEW u, NEW h, NEW b, e[b] # NoBlock
  PROVE  write_block(Server(k, e, u, h), b) = Server([k EXCEPT ![b] = e[b]], e, u, h \cup {k})
<1>1. PICK s : s = Server(k, e, u, h)
  OBVIOUS
<1>2. s.disk = k /\ s.cache = e /\ s.dirty = u /\ s.hist = h /\ s.pages = 0 /\ s.bad = {}
  BY <1>1, ServerIs
<1>3. write_block(s, b) = [s EXCEPT !.disk[b] = s.cache[b], !.hist = @ \cup {s.disk}]
  BY <1>2 DEF write_block, block_is_mapped
<1>4. write_block(s, b) = [s EXCEPT !.disk = [k EXCEPT ![b] = e[b]], !.hist = h \cup {k}]
  BY <1>2, <1>3
<1>5. QED
  BY <1>1, <1>4 DEF Server

\* The string that check_write_block writes is not the mark of a missing page.
LEMMA OopsIs == Oops # NoBlock
  BY DEF Oops, NoBlock

\* check_write_block, one step after the other, when the block comes back smashed.
Smashed(y, x) == y = [x EXCEPT !.cache[0] = x.cache[1], !.cache[1] = Oops]
Dropped(y, x) == y = [x EXCEPT !.cache[1] = NoBlock]
Restored(y, x) == y = [x EXCEPT !.cache[1] = x.cache[0]]

\* Then the superblock is written back.
LEMMA CheckIs ==
  ASSUME NEW s, NEW x1, x1 = LoadBlock(s, 0), NEW y1, Smashed(y1, x1), NEW x2, x2 = write_block(y1, 1),
         NEW y2, Dropped(y2, x2), NEW x3, x3 = LoadBlock(y2, 1), x3.cache[1] = Oops, NEW y3, Restored(y3, x3)
  PROVE  check_write_block(s) = write_block(y3, 1)
  BY ZenonT(60) DEF check_write_block, With, Smashed, Dropped, Restored

\* The superblock is read, smashed and restored; a copy stays in block 0.
LEMMA SuperChecked ==
  ASSUME NEW d, Image(d), NEW e, e = [b \in Block |-> NoBlock], NEW s, s = read_super(Server(d, e, {}, {})),
         NEW t, t = check_write_block(s)
  PROVE  /\ s.bad = {}
         /\ \E c, u, h : /\ t = Server(d, c, u, h) /\ u \subseteq Block
                         /\ h = {d, [d EXCEPT ![1] = Oops]}
                         /\ c = [[e EXCEPT ![0] = d[1]] EXCEPT ![1] = d[1]]
<1>1. /\ {0, 1, 2} \subseteq Block /\ d \in [Block -> Content] /\ d[1].t = "super" /\ d[1] # NoBlock
  BY Numbers, NotNoBlock DEF Image
<1>2. PICK e1 : e1 = [e EXCEPT ![1] = d[1]]
  OBVIOUS
<1>3. e1[1] = d[1] /\ e1[0] = NoBlock /\ e1 \in [Block -> Cached]
  BY <1>1, <1>2 DEF Cached
<1>4. LoadBlock(Server(d, e, {}, {}), 1) = Server(d, e1, {1}, {})
  <2>1. {1} = {} \cup {1} /\ e[1] = NoBlock
    BY <1>1
  <2>2. PICK x : x = Server(d, e, {}, {})
    OBVIOUS
  <2>3. Loads(e1, {1}, d, e, {}, 1)
    BY <1>2, <2>1 DEF Loads
  <2>4. LoadBlock(x, 1) = Server(d, e1, {1}, {})
    BY <2>2, <2>3, ServerLoads
  <2>5. QED
    BY <2>2, <2>4
<1>5. s = Server(d, e1, {1}, {})
  <2>1. PICK x : x = Server(d, e1, {1}, {})
    OBVIOUS
  <2>2. x.cache[1].t = "super"
    BY <1>1, <1>3, <2>1, ServerIs
  <2>3. QED
    BY <1>4, <2>1, <2>2 DEF read_super, With
<1>6. s.bad = {}
  BY <1>5, ServerIs
<1>7. PICK e2 : e2 = [e1 EXCEPT ![0] = d[0]]
  OBVIOUS
<1>8. PICK U : U = {1} \cup {0}
  OBVIOUS
<1>9. LoadBlock(s, 0) = Server(d, e2, U, {})
  <2>1. Loads(e2, U, d, e1, {1}, 0)
    BY <1>3, <1>7, <1>8 DEF Loads
  <2>2. QED
    BY <1>5, <2>1, ServerLoads
<1>10. PICK e3 : e3 = [[e2 EXCEPT ![0] = d[1]] EXCEPT ![1] = Oops]
  OBVIOUS
<1>11. e2[1] = d[1] /\ e3[1] = Oops /\ e3[0] = d[1] /\ e3[1] # NoBlock
  BY <1>1, <1>3, <1>7, <1>10, OopsIs
<1>12. PICK d1 : d1 = [d EXCEPT ![1] = Oops]
  OBVIOUS
<1>13. PICK H : H = {} \cup {d}
  OBVIOUS
<1>14. PICK x1 : x1 = LoadBlock(s, 0)
  OBVIOUS
<1>15. [x1 EXCEPT !.cache[0] = x1.cache[1], !.cache[1] = Oops] = Server(d, e3, U, {})
  <2>1. x1 = Server(d, e2, U, {}) /\ x1.cache = e2
    BY <1>9, <1>14, ServerIs
  <2>2. [x1 EXCEPT !.cache[0] = x1.cache[1], !.cache[1] = Oops] = [x1 EXCEPT !.cache = e3]
    BY <1>10, <1>11, <2>1 DEF Server
  <2>3. QED
    BY <2>1, <2>2 DEF Server
<1>16. write_block(Server(d, e3, U, {}), 1) = Server(d1, e3, U, H)
  <2>1. e3[1] # NoBlock
    BY <1>11
  <2>2. write_block(Server(d, e3, U, {}), 1) = Server([d EXCEPT ![1] = e3[1]], e3, U, {} \cup {d})
    BY <2>1, ServerWrites
  <2>3. QED
    BY <1>11, <1>12, <1>13, <2>2
<1>17. PICK x2 : x2 = Server(d1, e3, U, H)
  OBVIOUS
<1>18. PICK e4 : e4 = [e3 EXCEPT ![1] = NoBlock]
  OBVIOUS
<1>19. [x2 EXCEPT !.cache[1] = NoBlock] = Server(d1, e4, U, H)
  <2>1. x2.cache = e3
    BY <1>17, ServerIs
  <2>2. [x2 EXCEPT !.cache[1] = NoBlock] = [x2 EXCEPT !.cache = e4]
    BY <1>18, <2>1
  <2>3. QED
    BY <1>17, <2>2 DEF Server
<1>20. PICK W : W = U \cup {1}
  OBVIOUS
<1>21. PICK e5 : e5 = [e4 EXCEPT ![1] = d1[1]]
  OBVIOUS
<1>22. DOMAIN e = Block /\ DOMAIN e1 = Block /\ DOMAIN e2 = Block /\ DOMAIN e3 = Block /\ DOMAIN e4 = Block
       /\ DOMAIN e5 = Block
  BY <1>2, <1>7, <1>10, <1>18, <1>21
<1>23. e4[1] = NoBlock /\ d1[1] = Oops /\ e5[1] = Oops /\ e5[0] = d[1]
  BY <1>1, <1>11, <1>12, <1>18, <1>21, <1>22
<1>24. LoadBlock(Server(d1, e4, U, H), 1) = Server(d1, e5, W, H)
  <2>1. PICK x : x = Server(d1, e4, U, H)
    OBVIOUS
  <2>2. Loads(e5, W, d1, e4, U, 1)
    BY <1>20, <1>21, <1>23 DEF Loads
  <2>3. LoadBlock(x, 1) = Server(d1, e5, W, H)
    BY <2>1, <2>2, ServerLoads
  <2>4. QED
    BY <2>1, <2>3
<1>25. PICK x3 : x3 = Server(d1, e5, W, H)
  OBVIOUS
<1>26. PICK e6 : e6 = [e5 EXCEPT ![1] = d[1]]
  OBVIOUS
<1>27. [x3 EXCEPT !.cache[1] = x3.cache[0]] = Server(d1, e6, W, H)
  <2>1. x3.cache = e5
    BY <1>25, ServerIs
  <2>2. [x3 EXCEPT !.cache[1] = x3.cache[0]] = [x3 EXCEPT !.cache = e6]
    BY <1>23, <1>26, <2>1
  <2>3. QED
    BY <1>25, <2>2 DEF Server
<1>28. e6[1] = d[1] /\ e6[1] # NoBlock
  BY <1>1, <1>22, <1>26
<1>29. PICK G : G = H \cup {d1}
  OBVIOUS
<1>30. [d1 EXCEPT ![1] = d[1]] = d
  BY <1>1, <1>12
<1>31. write_block(Server(d1, e6, W, H), 1) = Server(d, e6, W, G)
  <2>1. write_block(Server(d1, e6, W, H), 1) = Server([d1 EXCEPT ![1] = e6[1]], e6, W, H \cup {d1})
    BY <1>28, ServerWrites
  <2>2. QED
    BY <1>28, <1>29, <1>30, <2>1
<1>32. t = Server(d, e6, W, G)
  <2>1. x3.cache[1] = Oops
    BY <1>23, <1>25, ServerIs
  <2>2. PICK y1 : y1 = [x1 EXCEPT !.cache[0] = x1.cache[1], !.cache[1] = Oops]
    OBVIOUS
  <2>3. PICK y2 : y2 = [x2 EXCEPT !.cache[1] = NoBlock]
    OBVIOUS
  <2>4. PICK y3 : y3 = [x3 EXCEPT !.cache[1] = x3.cache[0]]
    OBVIOUS
  <2>5. Smashed(y1, x1) /\ Dropped(y2, x2) /\ Restored(y3, x3)
    BY <2>2, <2>3, <2>4, Zenon DEF Smashed, Dropped, Restored
  <2>6. x2 = write_block(y1, 1)
    BY <1>15, <1>16, <1>17, <2>2, Zenon
  <2>7. x3 = LoadBlock(y2, 1)
    BY <1>19, <1>24, <1>25, <2>3, Zenon
  <2>8. check_write_block(s) = write_block(y3, 1)
    BY <1>14, <2>1, <2>5, <2>6, <2>7, CheckIs
  <2>9. QED
    BY <1>27, <1>31, <2>4, <2>8, Zenon
<1>33. e6 = [[e EXCEPT ![0] = d[1]] EXCEPT ![1] = d[1]]
  BY <1>1, <1>2, <1>7, <1>10, <1>18, <1>21, <1>26
<1>34. W \subseteq Block
  BY <1>1, <1>8, <1>20
<1>35. G = {d, [d EXCEPT ![1] = Oops]}
  BY <1>12, <1>13, <1>29
<1>36. QED
  BY <1>6, <1>32, <1>33, <1>34, <1>35

\* The server that has panicked at its start, for want of a superblock.
Wrecked(t) ==
  /\ t.bad = {"panic", "smashed"} /\ DOMAIN t.disk = Block /\ DOMAIN t.cache = Block
  /\ t.dirty \subseteq Block

\* The server as it starts with the disk d.
Starts(t, d) ==
  /\ Live(t) /\ t.bad = {} /\ t.disk = d /\ \A e \in Disks(t) : e = d \/ e[1] = Oops
  /\ \A b \in Block \ {0} : ViewOf(t)[b] = d[b]

\* fs_init on a disk image: superblock and bitmap are cached and the disk is as it was.
LEMMA StartedIs ==
  ASSUME NEW d, Image(d), NEW t, t = fs_init(d)
  PROVE  Starts(t, d)
<1>1. PICK e : e = [b \in Block |-> NoBlock]
  OBVIOUS
<1>2. PICK s : s = read_super(Server(d, e, {}, {}))
  OBVIOUS
<1>3. PICK x : x = check_write_block(s)
  OBVIOUS
<1>4. /\ s.bad = {}
      /\ \E c, u, h : /\ x = Server(d, c, u, h) /\ u \subseteq Block
                      /\ h = {d, [d EXCEPT ![1] = Oops]}
                      /\ c = [[e EXCEPT ![0] = d[1]] EXCEPT ![1] = d[1]]
  BY <1>1, <1>2, <1>3, SuperChecked
<1>5. PICK c, u, h : /\ x = Server(d, c, u, h) /\ u \subseteq Block
                     /\ h = {d, [d EXCEPT ![1] = Oops]}
                     /\ c = [[e EXCEPT ![0] = d[1]] EXCEPT ![1] = d[1]]
  BY <1>4
<1>6. fs_init(d) = read_bitmap(x)
  BY <1>1, <1>2, <1>3, <1>4 DEF fs_init, With, Server
<1>7. /\ {0, 1, 2} \subseteq Block /\ d \in [Block -> Content] /\ d[1].t = "super" /\ d[2].t = "bitmap"
      /\ d[2].free \subseteq Block \ {0, 1, 2} /\ d[1] # NoBlock /\ d[2] # NoBlock
  BY Numbers, NotNoBlock DEF Image
<1>8. c[2] = NoBlock /\ c[0] = d[1] /\ c[1] = d[1] /\ DOMAIN c = Block
      /\ \A b \in Block : b # 0 /\ b # 1 => c[b] = NoBlock
  BY <1>1, <1>5, <1>7
<1>9. PICK c2, u2 : c2 = [c EXCEPT ![2] = d[2]] /\ u2 = u \cup {2}
  OBVIOUS
<1>10. c2[2] = d[2] /\ c2[0] = d[1] /\ c2[1] = d[1] /\ DOMAIN c2 = Block
      /\ \A b \in Block : b # 0 /\ b # 1 /\ b # 2 => c2[b] = NoBlock
  BY <1>7, <1>8, <1>9
<1>11. PICK y : y = Server(d, c2, u2, h)
  OBVIOUS
<1>12. read_bitmap(x) = y
  <2>1. Loads(c2, u2, d, c, u, 2)
    BY <1>8, <1>9 DEF Loads
  <2>2. LoadBlock(x, 2) = y
    BY <1>5, <1>11, <2>1, ServerLoads
  <2>3. {0, 1, 2} \cap bitmap(y) = {}
    BY <1>7, <1>10, <1>11, ServerIs DEF bitmap
  <2>4. QED
    BY <2>2, <2>3 DEF read_bitmap, With
<1>13. t = y
  BY <1>6, <1>12
<1>14. h \in SUBSET Stage /\ \A k \in h : k = d \/ k[1] = Oops
  <2>1. PICK k : k = [d EXCEPT ![1] = Oops]
    OBVIOUS
  <2>2. k \in Stage /\ k[1] = Oops
    BY <1>7, <2>1 DEF Stage
  <2>3. d \in Stage
    BY <1>7, Staged
  <2>4. h = {d, k}
    BY <1>5, <2>1
  <2>5. QED
    BY <2>2, <2>3, <2>4
<1>15. t.disk = d /\ t.cache = c2 /\ t.dirty = u2 /\ t.hist = h /\ t.pages = 0 /\ t.bad = {}
  BY <1>11, <1>13, ServerIs
<1>16. c2 \in [Block -> Cached] /\ u2 \subseteq Block
  <2>1. \A b \in Block : c2[b] \in Cached
    BY <1>7, <1>10 DEF Cached
  <2>2. c2 = [b \in Block |-> c2[b]]
    BY <1>9, <1>5, <1>1
  <2>3. QED
    BY <1>5, <1>7, <1>9, <2>1, <2>2
<1>17. t \in FsState
  <2>1. {} \in SUBSET Faults /\ 0 \in Nat
    OBVIOUS
  <2>2. QED
    BY <1>7, <1>11, <1>13, <1>14, <1>16, <2>1 DEF FsState, Server
<1>18. Live(t)
  BY <1>7, <1>10, <1>15, <1>17 DEF Live
<1>19. ASSUME NEW b \in Block \ {0} PROVE ViewOf(t)[b] = d[b]
  <2>1. CASE b = 1 \/ b = 2
    BY <1>7, <1>10, <1>15, <1>17, <2>1, ViewIs
  <2>2. CASE ~(b = 1 \/ b = 2)
    BY <1>10, <1>15, <1>17, <2>2, ViewIs
  <2>3. QED
    BY <2>1, <2>2
<1>20. \A k \in Disks(t) : k = d \/ k[1] = Oops
  BY <1>14, <1>15 DEF Disks
<1>21. QED
  BY <1>15, <1>18, <1>19, <1>20 DEF Starts

\* fs_init on a disk whose superblock is smashed: read_super panics.
LEMMA SmashedIs ==
  ASSUME NEW d \in Stage, d[1] = Oops, NEW t, t = Blame(fs_init(d), "smashed")
  PROVE  Wrecked(t)
<1>1. PICK e : e = [b \in Block |-> NoBlock]
  OBVIOUS
<1>2. PICK x : x = Server(d, e, {}, {})
  OBVIOUS
<1>3. PICK e1, u1 : e1 = [e EXCEPT ![1] = d[1]] /\ u1 = {} \cup {1}
  OBVIOUS
<1>4. 1 \in Block
  BY Numbers
<1>5. Loads(e1, u1, d, e, {}, 1)
  BY <1>1, <1>3, <1>4 DEF Loads
<1>6. PICK y : y = Server(d, e1, u1, {})
  OBVIOUS
<1>7. LoadBlock(x, 1) = y
  BY <1>2, <1>5, <1>6, ServerLoads
<1>8. y.disk = d /\ y.cache = e1 /\ y.dirty = u1 /\ y.bad = {}
  BY <1>6, ServerIs
<1>9. e1[1] = Oops /\ DOMAIN e1 = Block /\ DOMAIN d = Block /\ u1 \subseteq Block
  BY <1>1, <1>3, <1>4 DEF Stage
<1>10. PICK s : s = Blame(y, "panic")
  OBVIOUS
<1>11. read_super(x) = s
  <2>1. y.cache[1].t # "super"
    BY <1>8, <1>9 DEF Oops
  <2>2. QED
    BY <1>7, <1>10, <2>1 DEF read_super, With
<1>12. s = [y EXCEPT !.bad = {"panic"}]
  BY <1>8, <1>10 DEF Blame
<1>13. DOMAIN y = {"disk", "cache", "dirty", "hist", "pages", "bad"}
  BY <1>6 DEF Server
<1>14. s.disk = d /\ s.cache = e1 /\ s.dirty = u1 /\ s.bad = {"panic"} /\ DOMAIN s = DOMAIN y
  BY <1>8, <1>12, <1>13
<1>15. fs_init(d) = s
  <2>1. s.bad # {}
    BY <1>14
  <2>2. QED
    BY <1>1, <1>2, <1>11, <2>1 DEF fs_init, With, Server
<1>16. t = [s EXCEPT !.bad = {"panic", "smashed"}]
  <2>1. s.bad \cup {"smashed"} = {"panic", "smashed"}
    BY <1>14
  <2>2. QED
    BY <1>15, <2>1 DEF Blame
<1>17. t.disk = d /\ t.cache = e1 /\ t.dirty = u1 /\ t.bad = {"panic", "smashed"}
  BY <1>13, <1>14, <1>16
<1>18. QED
  BY <1>9, <1>17 DEF Wrecked

\* fs_init does not panic on well formed blocks, and leaves them well formed.
LEMMA StartEnds ==
  ASSUME NEW d, WellFormed(d), NEW t, t = fs_init(d), NEW c
  PROVE  Ended(t, c)
<1>1. Image(d)
  BY DEF WellFormed
<1>2. Starts(t, d)
  BY <1>1, StartedIs
<1>3. PICK w : w = ViewOf(t)
  OBVIOUS
<1>4. /\ Live(t) /\ t.bad = {} /\ t.disk = d /\ (\A e \in Disks(t) : e = d \/ e[1] = Oops)
      /\ \A b \in Block \ {0} : w[b] = d[b]
  BY <1>2, <1>3 DEF Starts
<1>5. ASSUME NEW g \in Places(d) PROVE Alike(w, d, g)
  <2>1. Role(d, g)
    BY RoleIs
  <2>2. g \in Place /\ g[1] \in Block \ {0}
    BY <2>1 DEF Role
  <2>3. w[g[1]] = d[g[1]]
    BY <1>4, <2>2
  <2>4. FileIn(w, g) = FileIn(d, g)
    BY <2>2, <2>3, FileFrame
  <2>5. PICK i : i = FileIn(d, g).f_indirect
    OBVIOUS
  <2>6. i \in Block
    BY <2>5, IndirectIs
  <2>7. i # 0 => AsIndex(w[i]) = AsIndex(d[i])
    BY <1>4, <2>6
  <2>8. \A m \in Pointers : UseOf(w, g, m) = UseOf(d, g, m)
    BY <2>4, <2>5, <2>7, UseFrame
  <2>9. QED
    BY <2>4, <2>8 DEF Alike
<1>6. Adopts(w, d, 0, 0, 0)
  BY <1>5 DEF Adopts, Alike
<1>7. Image(w)
  BY <1>3, <1>4, LiveView
<1>8. w[2].free = d[2].free
  BY <1>4, Numbers
<1>9. w[2].free \subseteq d[2].free
  BY <1>8
<1>10. Grown(w, d) /\ WellFormed(w)
  BY <1>6, <1>7, <1>9, AdoptsGrown
<1>11. Lower(d, d, TRUE)
  <2>1. \A f \in Places(d) : FileLower(FileIn(d, f), FileIn(d, f))
    BY FileLowerRefl
  <2>2. DirIndexed(d, d)
    BY DEF DirIndexed
  <2>3. Indexed(d, d)
    BY DEF Indexed, With
  <2>4. QED
    BY <1>1, <2>1, <2>2, <2>3 DEF Lower
<1>12. d[2].free \subseteq w[2].free
  BY <1>8
<1>13. Lower(d, w, FALSE)
  BY <1>10, <1>11, <1>12, LowerGrow
<1>14. Sound(d, FALSE)
  <2>1. PICK k \in BOOLEAN : k = TRUE
    OBVIOUS
  <2>2. Lower(d, d, k)
    BY <1>11, <2>1
  <2>3. QED
    BY <2>2, LowerSound
<1>15. DisksOK(t, c)
  BY <1>1, <1>4, <1>14 DEF DisksOK
<1>16. QED
  BY <1>3, <1>4, <1>10, <1>13, <1>15 DEF Ended

-----------------------------------------------------------------------------
(* The inductive invariant.                                                *)

\* An open file has its struct, and that of its directory, in cached blocks.
OpenIn(s, o) ==
  /\ o.file \in Places(ViewOf(s)) /\ o.dir \in Places(ViewOf(s)) /\ Held(s, o.file) /\ Held(s, o.dir)
  /\ o.file[1] \in DirBlocks(ViewOf(s), o.dir) /\ o.file # Root /\ {"file", "dir"} \subseteq DOMAIN o

\* No struct File is in a block whose page a client has in its window: what was
\* freed may come back as data or as an indirect block, never in a directory.
MapIn(s, m) == m.b \in Block /\ m.b >= 3 /\ \A g \in Places(ViewOf(s)) : g[1] # m.b

Kept(s, O, M, c) ==
  /\ Live(s) /\ ("panic" \in s.bad => "stale_indirect" \in s.bad)
  /\ \A o \in O : o.file \in Place /\ Held(s, o.file)
  /\ s.bad = {} => Ended(s, c) /\ (\A o \in O : OpenIn(s, o)) /\ (\A m \in M : MapIn(s, m))

\* The server goes on, or has not come up again.
FsInv ==
  /\ Kept(fs, opened, mapped, calm) \/ (Wrecked(fs) /\ opened = {})
  /\ host \in Hosts /\ nops \in 0 .. MaxOps /\ calm \in BOOLEAN

\* The invariant, put together from its parts.
LEMMA EndedKept ==
  ASSUME NEW t, NEW c, Ended(t, c), NEW O, \A o \in O : OpenIn(t, o), NEW M, \A m \in M : MapIn(t, m)
  PROVE  Kept(t, O, M, c)
<1>1. Live(t) /\ t.bad = {}
  BY DEF Ended
<1>2. ASSUME NEW o \in O PROVE o.file \in Place /\ Held(t, o.file)
  BY RootIs DEF OpenIn
<1>3. QED
  BY <1>1, <1>2 DEF Kept

\* What a step that leaves the blocks alone does to open files and pages.
LEMMA SameKept ==
  ASSUME NEW s, NEW t, Keeps(t, s), ViewOf(t) = ViewOf(s)
  PROVE  /\ \A o : OpenIn(s, o) => OpenIn(t, o)
         /\ \A m : MapIn(s, m) => MapIn(t, m)
<1>1. ASSUME NEW f \in Places(ViewOf(s)), Held(s, f) PROVE Held(t, f)
  BY <1>1, RootIs, ReadsHeld
<1>2. QED
  BY <1>1 DEF OpenIn, MapIn

\* A running server is not one that has not come up.
LEMMA Going ==
  ASSUME FsInv, fs.bad = {}
  PROVE  Kept(fs, opened, mapped, calm)
  BY DEF FsInv, Wrecked

\* Open files stay open, and no struct gets into a shared page, while files grow.
LEMMA GrownKept ==
  ASSUME NEW s, NEW t, Keeps(t, s), WellFormed(ViewOf(s)), Grown(ViewOf(t), ViewOf(s))
  PROVE  /\ \A o : OpenIn(s, o) => OpenIn(t, o)
         /\ \A m : MapIn(s, m) => MapIn(t, m)
<1>1. PICK v, w : v = ViewOf(s) /\ w = ViewOf(t)
  OBVIOUS
<1>2. Places(w) = Places(v) /\ \A g \in Places(v) : DirBlocks(w, g) = DirBlocks(v, g)
  BY <1>1, GrownPlaces
<1>3. ASSUME NEW f \in Places(v), Held(s, f) PROVE Held(t, f)
  BY <1>3, RootIs, ReadsHeld
<1>4. ASSUME NEW o, OpenIn(s, o) PROVE OpenIn(t, o)
  BY <1>1, <1>2, <1>3, <1>4 DEF OpenIn
<1>5. ASSUME NEW m, MapIn(s, m) PROVE MapIn(t, m)
  BY <1>1, <1>2, <1>5 DEF MapIn
<1>6. QED
  BY <1>4, <1>5

\* A request starts.
Begun(s, v, c) ==
  /\ Ready(s, v, c)
  /\ \A o \in opened : OpenIn(s, o)
  /\ \A m \in mapped : MapIn(s, m)

\* A request starts on the state the last one left, with as many pages as there are.
LEMMA NowIs ==
  ASSUME Live(fs), NEW p \in Nat, NEW s, s = Now(p)
  PROVE  /\ Live(s) /\ Keeps(s, fs) /\ ViewOf(s) = View /\ Disks(s) = {fs.disk} /\ s.bad = fs.bad
         /\ s.cache = fs.cache /\ s.disk = fs.disk /\ s.hist = {}
<1>1. s = [fs EXCEPT !.hist = {}, !.pages = p]
  BY DEF Now
<1>2. fs \in FsState
  BY DEF Live
<1>3. DOMAIN fs = {"disk", "cache", "dirty", "hist", "pages", "bad"}
  BY <1>2, StateFields
<1>4. s.hist = {} /\ s.disk = fs.disk /\ s.cache = fs.cache /\ s.dirty = fs.dirty /\ s.bad = fs.bad
  BY <1>1, <1>3
<1>5. s \in FsState
  <2>1. PICK H : H = {}
    OBVIOUS
  <2>2. H \in SUBSET Stage /\ s = [fs EXCEPT !.hist = H, !.pages = p]
    BY <1>1, <2>1
  <2>3. QED
    BY <1>2, <2>2 DEF FsState
<1>6. Live(s)
  BY <1>4, <1>5 DEF Live
<1>7. ViewOf(s) = ViewOf(fs)
  BY <1>4 DEF ViewOf, block_is_mapped
<1>8. QED
  BY <1>4, <1>6, <1>7 DEF View, Disks, Keeps

\* The invariant at the start of a request.
LEMMA Begins ==
  ASSUME FsInv, NEW i, Common(i), NEW p \in Nat, NEW s, s = Now(p)
  PROVE  Begun(s, View, calm')
<1>1. fs.bad = {} /\ Kept(fs, opened, mapped, calm)
  BY Going DEF Common
<1>2. fs.bad = {} /\ Live(fs) /\ Ended(fs, calm)
  BY <1>1 DEF Kept
<1>3. /\ \A o \in opened : OpenIn(fs, o)
      /\ \A m \in mapped : MapIn(fs, m)
  BY <1>1 DEF Kept
<1>4. /\ Live(s) /\ Keeps(s, fs) /\ ViewOf(s) = View /\ Disks(s) = {fs.disk} /\ s.bad = fs.bad
  BY <1>2, NowIs
<1>5. WellFormed(View) /\ Lower(fs.disk, View, FALSE)
  BY <1>2 DEF Ended, View
<1>6. calm' = Indexed(fs.disk, View)
  BY DEF Common, IndexSaved, With
<1>7. calm' \in BOOLEAN
  BY <1>6 DEF Indexed
<1>8. Lower(fs.disk, View, calm')
  BY <1>5, <1>6 DEF Lower
<1>9. Ready(s, View, calm')
  BY <1>2, <1>4, <1>5, <1>7, <1>8 DEF Ready
<1>10. ViewOf(s) = ViewOf(fs)
  BY <1>4 DEF View
<1>11. /\ \A o \in opened : OpenIn(s, o)
       /\ \A m \in mapped : MapIn(s, m)
  BY <1>3, <1>4, <1>10, SameKept
<1>12. QED
  BY <1>9, <1>11 DEF Begun

\* What is left to show of a request, and of a step that no bound is on.
LEMMA CommonKeeps ==
  ASSUME FsInv, NEW i, Common(i), nops' \in 0 .. MaxOps,
         Kept(fs', opened', mapped', calm') \/ (Wrecked(fs') /\ opened' = {})
  PROVE  FsInv'
<1>1. host' \in Hosts
  BY DEF FsInv, Common
<1>2. calm' = Indexed(fs.disk, View)
  BY DEF Common, IndexSaved, With
<1>3. calm' \in BOOLEAN
  BY <1>2 DEF Indexed
<1>4. QED
  BY <1>1, <1>3 DEF FsInv

\* The same of a request.
LEMMA RequestKeeps ==
  ASSUME FsInv, NEW i, Request(i),
         Kept(fs', opened', mapped', calm') \/ (Wrecked(fs') /\ opened' = {})
  PROVE  FsInv'
<1>1. Common(i) /\ nops' \in 0 .. MaxOps
  BY HostsAssumption DEF FsInv, Request
<1>2. QED
  BY <1>1, CommonKeeps

\* And of a step without a bound.
LEMMA UnboundedKeeps ==
  ASSUME FsInv, Unbounded, Kept(fs', opened', mapped', calm')
  PROVE  FsInv'
<1>1. PICK i : i = 0
  OBVIOUS
<1>2. Common(i) /\ nops' \in 0 .. MaxOps
  BY <1>1 DEF FsInv, Unbounded
<1>3. QED
  BY <1>2, CommonKeeps

-----------------------------------------------------------------------------
(* The requests.                                                           *)

\* The paths that clients open have a name: walk_path never gives them the root.
LEMMA PathIs ==
  ASSUME host \in Hosts, NEW i \in Entries
  PROVE  Len(Path(i)) \in Nat /\ Len(Path(i)) > 0
<1>1. Len(HostPath(host)[i]) \in Nat \ {0}
  BY HostsAssumption DEF Entries
<1>2. PICK k : k = Len(Path(i))
  OBVIOUS
<1>3. k \in Nat \ {0}
  BY <1>1, <1>2 DEF Path
<1>4. QED
  BY <1>2, <1>3

\* serve_open, with walk_path and file_dirty, keeps the invariant.
LEMMA OpenKeeps ==
  ASSUME FsInv, NEW i \in Entries, Open(i)
  PROVE  FsInv'
<1>1. PICK s : s = Now(0)
  OBVIOUS
<1>2. PICK w : w = walk_path(s, Path(i))
  OBVIOUS
<1>3. /\ Unbounded /\ Common(0) /\ fs' = w.s /\ mapped' = mapped
      /\ opened' = IF w.r < 0 THEN opened
                   ELSE opened \cup {[c |-> Min(Closed), i |-> i, file |-> w.file, dir |-> w.dir,
                                      size |-> File(w.s, w.file).f_size]}
  BY <1>1, <1>2 DEF Open, file_open, Unbounded
<1>4. PICK v, c : v = View /\ c = calm'
  OBVIOUS
<1>5. Begun(s, v, c)
  BY <1>1, <1>3, <1>4, Begins
<1>6. /\ Ready(s, v, c) /\ Live(s) /\ v = ViewOf(s) /\ WellFormed(v)
      /\ \A o \in opened : OpenIn(s, o)
      /\ \A m \in mapped : MapIn(s, m)
  BY <1>5 DEF Begun, Ready
<1>7. Len(Path(i)) \in Nat /\ Len(Path(i)) > 0
  BY PathIs DEF FsInv
<1>8. PICK t, k : t = w.s /\ k = Len(Path(i))
  OBVIOUS
<1>9. Walked(w, s, v, k)
  BY <1>2, <1>6, <1>7, <1>8, PathWalks
<1>10. Reads(t, s) /\ ViewOf(t) = ViewOf(s) /\ Keeps(t, s)
  BY <1>8, <1>9 DEF Walked, Reads
<1>11. Ended(t, c)
  BY <1>6, <1>10, ReadsEnd
<1>12. \A m \in mapped : MapIn(t, m)
  BY <1>6, <1>10, SameKept
<1>13. \A o \in opened : OpenIn(t, o)
  BY <1>6, <1>10, SameKept
<1>14. ASSUME NEW o \in opened' PROVE OpenIn(t, o)
  <2>1. CASE o \in opened
    BY <1>13, <2>1
  <2>2. CASE o \notin opened
    <3>1. ~(w.r < 0) /\ o.file = w.file /\ o.dir = w.dir /\ {"file", "dir"} \subseteq DOMAIN o
      BY <1>3, <1>14, <2>2
    <3>2. /\ w.file \in Places(v) /\ Held(w.s, w.file) /\ w.dir \in Places(v) /\ Held(w.s, w.dir)
          /\ w.file[1] \in DirBlocks(v, w.dir) /\ w.file # Root
      BY <1>7, <1>8, <1>9, <3>1 DEF Walked
    <3>3. QED
      BY <1>6, <1>8, <1>10, <3>1, <3>2 DEF OpenIn
  <2>3. QED
    BY <2>1, <2>2
<1>15. Kept(t, opened', mapped', c)
  BY <1>3, <1>11, <1>12, <1>14, EndedKept
<1>16. QED
  BY <1>3, <1>4, <1>8, <1>15, UnboundedKeeps

\* The parts of what a request starts from.
LEMMA BegunIs ==
  ASSUME NEW s, NEW v, NEW c, Begun(s, v, c)
  PROVE  /\ Ready(s, v, c) /\ Live(s) /\ s.bad = {} /\ v = ViewOf(s) /\ WellFormed(v) /\ c \in BOOLEAN
         /\ \A d \in Disks(s) : Lower(d, v, c)
         /\ \A o \in opened : OpenIn(s, o)
         /\ \A m \in mapped : MapIn(s, m)
  BY DEF Begun, Ready

\* The pages left do not matter.
LEMMA PagesKept ==
  ASSUME NEW s, NEW O, NEW M, NEW c, Kept(s, O, M, c), NEW t, t = [s EXCEPT !.pages = 0]
  PROVE  Kept(t, O, M, c)
<1>1. s \in FsState /\ Live(s)
  BY DEF Kept, Live
<1>2. DOMAIN s = {"disk", "cache", "dirty", "hist", "pages", "bad"}
  BY <1>1, StateFields
<1>3. t.hist = s.hist /\ t.disk = s.disk /\ t.cache = s.cache /\ t.dirty = s.dirty /\ t.bad = s.bad
  BY <1>2
<1>4. t \in FsState
  BY <1>1 DEF FsState
<1>5. Live(t)
  BY <1>1, <1>3, <1>4 DEF Live
<1>6. ViewOf(t) = ViewOf(s) /\ Disks(t) = Disks(s) /\ Keeps(t, s)
  BY <1>3 DEF ViewOf, block_is_mapped, Disks, Keeps
<1>7. Ended(s, c) => Ended(t, c)
  BY <1>3, <1>5, <1>6 DEF Ended, DisksOK
<1>8. \A o : OpenIn(s, o) => OpenIn(t, o)
  BY <1>6, SameKept
<1>9. \A m : MapIn(s, m) => MapIn(t, m)
  BY <1>6, SameKept
<1>10. \A o \in O : o.file \in Place /\ Held(t, o.file)
  BY <1>3 DEF Kept, Held
<1>11. QED
  BY <1>3, <1>5, <1>7, <1>8, <1>9, <1>10 DEF Kept

\* The blocks of a regular file hold no struct File.
LEMMA DataApart ==
  ASSUME NEW w, WellFormed(w), NEW f \in Places(w), FileIn(w, f).f_type = "reg", NEW n \in Pointers, n # -1,
         NEW b, b = UseOf(w, f, n), b # 0
  PROVE  b \in Block /\ b >= 3 /\ \A g \in Places(w) : g[1] # b
<1>1. Sole(w, f, n, b)
  BY OwnedBy
<1>2. b \in Block /\ b >= 3 /\ \A h \in Places(w), m \in Pointers : UseOf(w, h, m) = b => h = f /\ m = n
  BY <1>1 DEF Sole
<1>3. ASSUME NEW g \in Places(w) PROVE g[1] # b
  <2>1. CASE g = Root
    <3>1. g[1] = 1
      BY <2>1 DEF Root
    <3>2. QED
      BY <1>2, <3>1
  <2>2. CASE g # Root
    <3>1. PICK h \in Places(w) : g[1] \in DirBlocks(w, h)
      BY <2>2, Parent
    <3>2. FileIn(w, h).f_type = "dir" /\ \E m \in Pointers : UseOf(w, h, m) = g[1]
      BY <3>1, DirBlockIs
    <3>3. h # f
      BY <3>2
    <3>4. QED
      BY <1>2, <3>2, <3>3
  <2>3. QED
    BY <2>1, <2>2
<1>4. QED
  BY <1>2, <1>3

\* serve_map: the client gets a block that is the file's alone.
LEMMA GetBlockKeeps ==
  ASSUME FsInv, NEW o \in opened, NEW n \in 0 .. NINDIRECT, NEW p \in 0 .. 2, GetBlock(o, n, p)
  PROVE  FsInv'
<1>1. PICK s : s = Now(p)
  OBVIOUS
<1>2. PICK g : g = file_get_block(s, o.file, n)
  OBVIOUS
<1>3. PICK t : t = g.s
  OBVIOUS
<1>4. PICK b : b = g.r
  OBVIOUS
<1>5. /\ Request(o.i) /\ Common(o.i) /\ fs' = [t EXCEPT !.pages = 0] /\ opened' = opened
      /\ mapped' = IF b < 0 \/ File(fs, o.file).f_type # "reg" THEN mapped
                   ELSE {m \in mapped : m.c # o.c \/ m.n # n}
                        \cup {[c |-> o.c, i |-> o.i, n |-> n, b |-> b]}
  BY <1>1, <1>2, <1>3, <1>4 DEF GetBlock, Request
<1>6. PICK v, c : v = View /\ c = calm'
  OBVIOUS
<1>7. Begun(s, v, c)
  BY <1>1, <1>5, <1>6, Begins
<1>8. /\ Ready(s, v, c) /\ v = ViewOf(s) /\ WellFormed(v) /\ c \in BOOLEAN
      /\ \A q \in opened : OpenIn(s, q)
      /\ \A m \in mapped : MapIn(s, m)
  BY <1>7, BegunIs
<1>9. Growing(s, v, c)
  BY <1>8, GrowingStarts
<1>10. PICK f : f = o.file
  OBVIOUS
<1>11. f \in Places(ViewOf(s)) /\ Held(s, f) /\ n \in Nat
  BY <1>8, <1>10, Dims DEF OpenIn
<1>12. GetEnds(t, b, s, v, c, f, n)
  BY <1>2, <1>3, <1>4, <1>9, <1>10, <1>11, GetGrows
<1>13. MapEnds(t, b, s, v, c, f, n) /\ (t.bad = {} /\ ~(b < 0) => b \in Block /\ t.cache[b] # NoBlock)
  BY <1>12 DEF GetEnds
<1>14. Live(t) /\ Keeps(t, s) /\ b \in Int
  BY <1>13 DEF MapEnds
<1>15. Kept(t, opened', mapped', c)
  <2>1. CASE "stale_indirect" \in t.bad
    <3>1. ASSUME NEW q \in opened PROVE q.file \in Place /\ Held(t, q.file)
      <4>1. q.file \in Place /\ Held(s, q.file)
        BY <1>8, RootIs DEF OpenIn
      <4>2. QED
        BY <1>14, <4>1, ReadsHeld
    <3>2. QED
      BY <1>5, <1>14, <2>1, <3>1 DEF Kept
  <2>2. CASE "stale_indirect" \notin t.bad
    <3>1. /\ Growing(t, v, c)
          /\ b < 0 \/ (n \in 0 .. NINDIRECT - 1 /\ b = UseOf(ViewOf(t), f, n) /\ b # 0)
      BY <1>13, <2>2 DEF MapEnds
    <3>2. Ended(t, c)
      BY <1>8, <3>1, GrowingEnds
    <3>3. Grown(ViewOf(t), ViewOf(s)) /\ WellFormed(ViewOf(s))
      BY <1>8, <3>1 DEF Growing
    <3>4. /\ \A q \in opened : OpenIn(t, q)
          /\ \A m \in mapped : MapIn(t, m)
      BY <1>8, <1>14, <3>3, GrownKept
    <3>5. ASSUME NEW m \in mapped' PROVE MapIn(t, m)
      <4>1. CASE m \in mapped
        BY <3>4, <4>1
      <4>2. CASE m \notin mapped
        <5>1. ~(b < 0) /\ m.b = b /\ File(fs, f).f_type = "reg"
          BY <1>5, <1>10, <3>5, <4>2
        <5>2. n \in Pointers /\ n # -1 /\ b = UseOf(ViewOf(t), f, n) /\ b # 0
          BY <3>1, <5>1 DEF Pointers
        <5>3. PICK w : w = ViewOf(t)
          OBVIOUS
        <5>4. WellFormed(w) /\ f \in Places(w)
          <6>1. OpenIn(t, o)
            BY <3>4
          <6>2. QED
            BY <1>10, <3>1, <5>3, <6>1 DEF OpenIn, Growing
        <5>5. FileIn(w, f).f_type = "reg"
          <6>1. s.cache = fs.cache
            <7>1. fs.bad = {} /\ p \in Nat
              BY <1>5 DEF Common
            <7>2. Live(fs)
              BY <7>1, Going DEF Kept
            <7>3. QED
              BY <1>1, <7>1, <7>2, NowIs
          <6>2. f \in Place /\ Live(s)
            BY <1>8, <1>11, RootIs DEF Ready
          <6>3. FileIn(s.cache, f) = FileIn(v, f)
            BY <1>8, <1>11, <6>2, FileHeld
          <6>4. FileIn(v, f).f_type = "reg"
            BY <5>1, <6>1, <6>3 DEF File
          <6>5. QED
            BY <1>8, <1>11, <3>3, <5>3, <6>4 DEF Grown
        <5>6. b \in Block /\ b >= 3 /\ \A h \in Places(w) : h[1] # b
          BY <5>2, <5>3, <5>4, <5>5, DataApart
        <5>7. QED
          BY <5>1, <5>3, <5>6 DEF MapIn
      <4>3. QED
        BY <4>1, <4>2
    <3>6. QED
      BY <1>5, <3>2, <3>4, <3>5, EndedKept
  <2>3. QED
    BY <2>1, <2>2
<1>16. Kept(fs', opened', mapped', c)
  BY <1>5, <1>15, PagesKept
<1>17. QED
  BY <1>5, <1>6, <1>16, RequestKeeps

\* A store to a block that holds no struct and is no indirect block changes no file.
LEMMA DataAlike ==
  ASSUME NEW w, WellFormed(w), NEW b, \A h \in Places(w) : h[1] # b, b \notin IndexBlocks(w),
         NEW x, \A e \in Block : e # b => x[e] = w[e], NEW g \in Places(w)
  PROVE  Alike(x, w, g)
<1>1. Role(w, g)
  BY RoleIs
<1>2. g \in Place /\ g[1] \in Block /\ g[1] # b
  BY <1>1 DEF Role
<1>3. x[g[1]] = w[g[1]]
  BY <1>2
<1>4. FileIn(x, g) = FileIn(w, g)
  BY <1>2, <1>3, FileFrame
<1>5. PICK i : i = FileIn(w, g).f_indirect
  OBVIOUS
<1>6. i \in Block /\ i # b
  BY <1>5, IndirectIs DEF IndexBlocks
<1>7. i # 0 => AsIndex(x[i]) = AsIndex(w[i])
  BY <1>6
<1>8. \A m \in Pointers : UseOf(x, g, m) = UseOf(w, g, m)
  BY <1>4, <1>5, <1>7, UseFrame
<1>9. QED
  BY <1>4, <1>8 DEF Alike

\* A store into a page that a client shares changes one block of the view.
LEMMA ClientStore ==
  ASSUME NEW s, Live(s), NEW b \in Block, b >= 3, NEW x \in Content, NEW t, t = [s EXCEPT !.cache[b] = x]
  PROVE  /\ Live(t) /\ Keeps(t, s) /\ t.bad = s.bad /\ t.disk = s.disk /\ Disks(t) = Disks(s)
         /\ \A e \in Block : e # b => ViewOf(t)[e] = ViewOf(s)[e]
<1>1. s \in FsState
  BY DEF Live
<1>2. DOMAIN s = {"disk", "cache", "dirty", "hist", "pages", "bad"} /\ s.cache \in [Block -> Cached]
  BY <1>1, StateFields
<1>3. PICK C : C = [s.cache EXCEPT ![b] = x]
  OBVIOUS
<1>4. t = [s EXCEPT !.cache = C]
  BY <1>3
<1>5. t.hist = s.hist /\ t.disk = s.disk /\ t.cache = C /\ t.dirty = s.dirty /\ t.bad = s.bad
  BY <1>2, <1>4
<1>6. C \in [Block -> Cached] /\ x # NoBlock
  BY <1>2, <1>3, NotNoBlock DEF Cached
<1>7. t \in FsState
  BY <1>1, <1>4, <1>6 DEF FsState
<1>8. C[b] = x /\ \A e \in Block : e # b => C[e] = s.cache[e]
  BY <1>2, <1>3
<1>9. b # 1 /\ b # 2 /\ 1 \in Block /\ 2 \in Block
  BY Numbers
<1>10. Live(t)
  BY <1>5, <1>7, <1>8, <1>9 DEF Live
<1>11. Keeps(t, s)
  BY <1>5, <1>6, <1>8 DEF Keeps
<1>12. ASSUME NEW e \in Block, e # b PROVE ViewOf(t)[e] = ViewOf(s)[e]
  BY <1>5, <1>8, <1>12 DEF ViewOf, block_is_mapped
<1>13. QED
  BY <1>5, <1>10, <1>11, <1>12 DEF Disks

\* A client's store keeps the invariant: its page holds no struct, and the behaviour ends if it
\* holds the pointers of an indirect block.
LEMMA StoreKeeps ==
  ASSUME FsInv, NEW m \in mapped, NEW x \in Words, Store(m, x)
  PROVE  FsInv'
<1>1. PICK s : s = Now(0)
  OBVIOUS
<1>2. PICK b, t : b = m.b /\ t = [s EXCEPT !.cache[b] = DataBlock(x)]
  OBVIOUS
<1>3. /\ Unbounded /\ Common(0) /\ opened' = opened /\ mapped' = mapped
      /\ fs' = IF b \in IndexBlocks(View) THEN Blame(t, "stale_window") ELSE t
  BY <1>1, <1>2 DEF Store, Unbounded
<1>4. PICK v, c : v = View /\ c = calm'
  OBVIOUS
<1>5. Begun(s, v, c)
  BY <1>1, <1>3, <1>4, Begins
<1>6. /\ Live(s) /\ s.bad = {} /\ v = ViewOf(s) /\ WellFormed(v) /\ c \in BOOLEAN
      /\ \A d \in Disks(s) : Lower(d, v, c)
      /\ \A o \in opened : OpenIn(s, o)
      /\ \A q \in mapped : MapIn(s, q)
  BY <1>5, BegunIs
<1>7. b \in Block /\ b >= 3 /\ \A g \in Places(v) : g[1] # b
  BY <1>2, <1>6 DEF MapIn
<1>8. DataBlock(x) \in Content
  <2>1. x \in Nat
    BY HostsAssumption
  <2>2. QED
    BY <2>1 DEF DataBlock, Content
<1>9. PICK y : y = DataBlock(x)
  OBVIOUS
<1>10. t = [s EXCEPT !.cache[b] = y] /\ y \in Content
  BY <1>2, <1>8, <1>9
<1>11. PICK w : w = ViewOf(t)
  OBVIOUS
<1>12. /\ Live(t) /\ Keeps(t, s) /\ t.bad = s.bad /\ t.disk = s.disk /\ Disks(t) = Disks(s)
       /\ \A e \in Block : e # b => w[e] = v[e]
  BY <1>6, <1>7, <1>10, <1>11, ClientStore
<1>13. CASE b \notin IndexBlocks(v)
  <2>1. ASSUME NEW g \in Places(v) PROVE Alike(w, v, g)
    BY <1>6, <1>7, <1>12, <1>13, DataAlike
  <2>2. Adopts(w, v, 0, 0, 0)
    BY <2>1 DEF Adopts, Alike
  <2>3. Image(w)
    BY <1>11, <1>12, LiveView
  <2>4. b # 2 /\ 2 \in Block
    BY <1>7, Numbers
  <2>5. w[2].free = v[2].free
    BY <1>12, <2>4
  <2>6. w[2].free \subseteq v[2].free /\ v[2].free \subseteq w[2].free
    BY <2>5
  <2>7. Grown(w, v) /\ WellFormed(w)
    BY <1>6, <2>2, <2>3, <2>6, AdoptsGrown
  <2>8. Lower(s.disk, v, c)
    BY <1>6 DEF Disks
  <2>9. s.disk[2].free \subseteq w[2].free
    BY <2>6, <2>8 DEF Lower
  <2>10. Lower(s.disk, w, FALSE)
    BY <1>6, <2>7, <2>8, <2>9, LowerGrow
  <2>11. DisksOK(t, c)
    BY <1>6, <1>12, DisksAre
  <2>12. Ended(t, c)
    BY <1>6, <1>11, <1>12, <2>7, <2>10, <2>11 DEF Ended
  <2>13. /\ \A o \in opened : OpenIn(t, o)
         /\ \A q \in mapped : MapIn(t, q)
    BY <1>6, <1>11, <1>12, <2>7, GrownKept
  <2>14. Kept(t, opened', mapped', c)
    BY <1>3, <2>12, <2>13, EndedKept
  <2>15. QED
    BY <1>3, <1>4, <1>13, <2>14, UnboundedKeeps
<1>14. CASE b \in IndexBlocks(v)
  <2>1. PICK z : z = Blame(t, "stale_window")
    OBVIOUS
  <2>2. "stale_window" \in Faults
    BY DEF Faults
  <2>3. Live(z) /\ Keeps(z, t) /\ z.bad = t.bad \cup {"stale_window"}
    BY <1>12, <2>1, <2>2, BlameIs
  <2>4. z.bad = {"stale_window"}
    BY <1>6, <1>12, <2>3
  <2>5. ASSUME NEW o \in opened PROVE o.file \in Place /\ Held(z, o.file)
    <3>1. o.file \in Place /\ Held(s, o.file)
      BY <1>6, RootIs DEF OpenIn
    <3>2. Held(t, o.file)
      BY <1>12, <3>1, ReadsHeld
    <3>3. QED
      BY <2>3, <3>1, <3>2, ReadsHeld
  <2>6. "panic" \notin z.bad /\ z.bad # {}
    BY <2>4
  <2>7. Kept(z, opened', mapped', c)
    BY <1>3, <2>3, <2>5, <2>6 DEF Kept
  <2>8. QED
    BY <1>3, <1>4, <1>14, <2>1, <2>7, UnboundedKeeps
<1>15. QED
  BY <1>13, <1>14

\* What a file that loses blocks does to the other open files and pages.
LEMMA PrunedKept ==
  ASSUME NEW s, NEW t, Keeps(t, s), NEW v, v = ViewOf(s), WellFormed(v), NEW w, w = ViewOf(t),
         NEW f \in Places(v), Pruned(w, v, f), Settled(w, v)
  PROVE  /\ \A o : OpenIn(s, o) /\ o.file \in Places(w) => OpenIn(t, o)
         /\ \A m : MapIn(s, m) => MapIn(t, m)
<1>1. ASSUME NEW g \in Places(v), Held(s, g) PROVE Held(t, g)
  BY <1>1, RootIs, ReadsHeld
<1>2. ASSUME NEW o, OpenIn(s, o), o.file \in Places(w) PROVE OpenIn(t, o)
  <2>1. /\ o.file \in Places(v) /\ o.dir \in Places(v) /\ Held(s, o.file) /\ Held(s, o.dir)
        /\ o.file[1] \in DirBlocks(v, o.dir) /\ o.file # Root
    BY <1>2 DEF OpenIn
  <2>2. PICK h, e : h = o.file /\ e = o.dir
    OBVIOUS
  <2>3. e \in Places(w) /\ h[1] \in DirBlocks(w, e)
    BY <1>2, <2>1, <2>2, SettledDir
  <2>4. QED
    BY <1>1, <1>2, <2>1, <2>2, <2>3 DEF OpenIn
<1>3. ASSUME NEW m, MapIn(s, m) PROVE MapIn(t, m)
  <2>1. Places(w) \subseteq Places(v)
    BY DEF Settled
  <2>2. QED
    BY <1>3, <2>1 DEF MapIn
<1>4. QED
  BY <1>2, <1>3

\* serve_set_size: blocks are freed and the struct is flushed, in the order of the code.
LEMMA SetSizeKeeps ==
  ASSUME FsInv, NEW o \in opened, NEW size \in Sizes, SetSize(o, size)
  PROVE  FsInv'
<1>1. PICK s : s = Now(0)
  OBVIOUS
<1>2. PICK f, dir : f = o.file /\ dir = o.dir
  OBVIOUS
<1>3. PICK x : x = Resized(s, f, size)
  OBVIOUS
<1>4. PICK t : t = FlushDir(x, dir)
  OBVIOUS
<1>5. /\ Request(o.i) /\ Common(o.i) /\ fs' = t /\ File(fs, f).f_type = "reg"
      /\ opened' = (opened \ {o}) \cup {[o EXCEPT !.size = size]} /\ mapped' \subseteq mapped
  BY <1>1, <1>2, <1>3, <1>4 DEF SetSize, file_set_size, Request
<1>6. PICK v, c : v = View /\ c = calm'
  OBVIOUS
<1>7. Begun(s, v, c)
  BY <1>1, <1>5, <1>6, Begins
<1>8. /\ Ready(s, v, c) /\ Live(s) /\ v = ViewOf(s) /\ WellFormed(v)
      /\ \A d \in Disks(s) : Lower(d, v, c)
      /\ \A q \in opened : OpenIn(s, q)
      /\ \A m \in mapped : MapIn(s, m)
  BY <1>7, BegunIs
<1>9. /\ f \in Places(v) /\ dir \in Places(v) /\ Held(s, f) /\ Held(s, dir)
      /\ f[1] \in DirBlocks(v, dir) /\ f # Root
  BY <1>2, <1>8 DEF OpenIn
<1>10. FileIn(v, f).f_type = "reg"
  <2>1. s.cache = fs.cache
    <3>1. fs.bad = {}
      BY <1>5 DEF Common
    <3>2. Live(fs)
      BY <3>1, Going DEF Kept
    <3>3. QED
      BY <1>1, <3>2, NowIs
  <2>2. f \in Place
    BY <1>9, RootIs
  <2>3. FileIn(s.cache, f) = FileIn(v, f)
    BY <1>8, <1>9, <2>2, FileHeld
  <2>4. QED
    BY <1>5, <2>1, <2>3 DEF File
<1>11. size \in Nat
  BY HostsAssumption
<1>12. Shortened(x, s, v, f, size)
  BY <1>3, <1>8, <1>9, <1>11, ResizedCuts
<1>13. PICK w : w = ViewOf(x)
  OBVIOUS
<1>14. /\ Pruning(x, s, v, f) /\ f[1] \in x.dirty
       /\ \A m \in Blocks(size) : UseOf(w, f, m) = UseOf(v, f, m)
  BY <1>12, <1>13 DEF Shortened
<1>15. Edits(x, s) /\ Pruned(w, v, f)
  BY <1>13, <1>14 DEF Pruning
<1>16. Live(x) /\ Disks(x) = Disks(s)
  BY <1>15 DEF Edits, Disks
<1>17. Flushed(x, x, v, c)
  BY <1>8, <1>16, FlushedRefl
<1>18. FileIn(v, f).f_type = "dir" => FileIn(w, f).f_size = 0
  BY <1>10
<1>19. Ended(t, c) /\ Keeps(t, s) /\ ViewOf(t) = w
  BY <1>4, <1>8, <1>9, <1>13, <1>14, <1>17, <1>18, ShortenedEnds
<1>20. Settled(w, v)
  BY <1>8, <1>9, <1>15, <1>18, PrunedSettled
<1>21. Places(w) = Places(v)
  <2>1. ASSUME NEW g \in Places(v) PROVE DirBlocks(w, g) = DirBlocks(v, g)
    <3>1. CASE g = f
      <4>1. FileIn(w, f).f_type = "reg"
        BY <1>10, <1>15 DEF Pruned
      <4>2. QED
        BY <1>10, <3>1, <4>1 DEF DirBlocks
    <3>2. CASE g # f
      BY <1>8, <1>9, <1>15, <3>2, PrunedOthers
    <3>3. QED
      BY <3>1, <3>2
  <2>2. Reach(v).new = {}
    BY <1>8 DEF WellFormed
  <2>3. QED
    BY <2>1, <2>2, PlacesSame
<1>22. ASSUME NEW q \in opened' PROVE OpenIn(t, q)
  <2>1. PICK z \in opened : q.file = z.file /\ q.dir = z.dir /\ DOMAIN q = DOMAIN z
    <3>1. CASE q \in opened
      BY <3>1
    <3>2. CASE q = [o EXCEPT !.size = size]
      <4>1. {"file", "dir"} \subseteq DOMAIN o
        BY <1>8 DEF OpenIn
      <4>2. q.file = o.file /\ q.dir = o.dir /\ DOMAIN q = DOMAIN o
        BY <3>2, <4>1
      <4>3. QED
        BY <4>2
    <3>3. QED
      BY <1>5, <3>1, <3>2
  <2>2. OpenIn(s, z) /\ z.file \in Places(w)
    BY <1>8, <1>21 DEF OpenIn
  <2>3. OpenIn(t, z)
    BY <1>8, <1>9, <1>15, <1>19, <1>20, <2>2, PrunedKept
  <2>4. QED
    BY <2>1, <2>3 DEF OpenIn
<1>23. ASSUME NEW m \in mapped' PROVE MapIn(t, m)
  <2>1. MapIn(s, m)
    BY <1>5, <1>8
  <2>2. QED
    BY <1>8, <1>9, <1>15, <1>19, <1>20, <2>1, PrunedKept
<1>24. Kept(t, opened', mapped', c)
  BY <1>5, <1>19, <1>22, <1>23, EndedKept
<1>25. QED
  BY <1>5, <1>6, <1>24, RequestKeeps

\* serve_close: the file is flushed, and its directory.
LEMMA CloseKeeps ==
  ASSUME FsInv, NEW o \in opened, Close(o)
  PROVE  FsInv'
<1>1. PICK s : s = Now(0)
  OBVIOUS
<1>2. PICK f, dir : f = o.file /\ dir = o.dir
  OBVIOUS
<1>3. PICK x : x = DirtyAll(s, f, o.size)
  OBVIOUS
<1>4. PICK y : y = file_flush(x, f)
  OBVIOUS
<1>5. PICK t : t = FlushDir(y, dir)
  OBVIOUS
<1>6. /\ Request(o.i) /\ Common(o.i) /\ fs' = t /\ opened' = opened \ {o} /\ mapped' \subseteq mapped
  BY <1>1, <1>2, <1>3, <1>4, <1>5 DEF Close, file_close, Request
<1>7. PICK v, c : v = View /\ c = calm'
  OBVIOUS
<1>8. Begun(s, v, c)
  BY <1>1, <1>6, <1>7, Begins
<1>9. /\ Ready(s, v, c) /\ Live(s) /\ v = ViewOf(s) /\ WellFormed(v)
      /\ \A d \in Disks(s) : Lower(d, v, c)
      /\ \A q \in opened : OpenIn(s, q)
      /\ \A m \in mapped : MapIn(s, m)
  BY <1>8, BegunIs
<1>10. f \in Places(v) /\ dir \in Places(v) /\ Held(s, f) /\ Held(s, dir)
  BY <1>2, <1>9 DEF OpenIn
<1>11. Reads(x, s)
  BY <1>3, <1>9, <1>10, DirtyAllReads
<1>12. Ready(x, v, c) /\ Keeps(x, s)
  BY <1>9, <1>11, ReadsEnd
<1>13. Live(x) /\ ViewOf(x) = v /\ \A d \in Disks(x) : Lower(d, v, c)
  BY <1>12 DEF Ready
<1>14. Settled(v, v)
  BY <1>9, SettledRefl
<1>15. Held(x, f) /\ f \in Place /\ dir \in Place
  BY <1>10, <1>12, RootIs, ReadsHeld
<1>16. Flushed(y, x, v, c)
  BY <1>4, <1>9, <1>10, <1>13, <1>14, <1>15, FileFlushed
<1>17. Live(y) /\ Keeps(y, x) /\ ViewOf(y) = v /\ \A d \in Disks(y) : Lower(d, v, c)
  BY <1>13, <1>16 DEF Flushed
<1>18. Held(y, dir)
  <2>1. Held(x, dir)
    BY <1>10, <1>12, <1>15, ReadsHeld
  <2>2. QED
    BY <1>15, <1>17, <2>1, ReadsHeld
<1>19. dir # NoPlace
  <2>1. Role(v, dir)
    BY <1>9, <1>10, RoleIs
  <2>2. dir[1] # 0
    BY <2>1 DEF Role
  <2>3. NoPlace[1] = 0
    BY DEF NoPlace
  <2>4. QED
    BY <2>2, <2>3
<1>20. t = file_flush(y, dir)
  BY <1>5, <1>19 DEF FlushDir
<1>21. Flushed(t, y, v, c)
  BY <1>9, <1>10, <1>14, <1>17, <1>18, <1>20, FileFlushed
<1>22. Flushed(t, x, v, c)
  BY <1>16, <1>21, FlushedTrans
<1>23. Ended(t, c) /\ Keeps(t, x) /\ ViewOf(t) = v
  BY <1>12, <1>22, FlushedEnd
<1>24. Keeps(t, s) /\ ViewOf(t) = ViewOf(s)
  BY <1>9, <1>12, <1>23, KeepsTrans
<1>25. (\A q : OpenIn(s, q) => OpenIn(t, q)) /\ (\A m : MapIn(s, m) => MapIn(t, m))
  BY <1>24, SameKept
<1>26. \A q \in opened' : OpenIn(t, q)
  BY <1>6, <1>9, <1>25
<1>27. \A m \in mapped' : MapIn(t, m)
  BY <1>6, <1>9, <1>25
<1>28. Kept(t, opened', mapped', c)
  BY <1>23, <1>26, <1>27, EndedKept
<1>29. QED
  BY <1>6, <1>7, <1>28, RequestKeeps

\* file_remove of a file that walk_path has found.
Removed(t, s, v, w, f) ==
  /\ Keeps(t, s) /\ w = ViewOf(t) /\ f \in Places(v) /\ Pruned(w, v, f) /\ Settled(w, v)

\* file_remove: truncated, without a name, then flushed with its directory.
LEMMA FileRemoved ==
  ASSUME NEW s, NEW v, NEW c, Ready(s, v, c), NEW f \in Places(v), NEW dir \in Places(v), Held(s, f), Held(s, dir),
         f[1] \in DirBlocks(v, dir), f # Root, NEW x, x = file_truncate(s, f, 0),
         NEW y, y = StoreFile(x, f, [File(x, f) EXCEPT !.f_name = NoName]),
         NEW t, t = file_close(y, f, dir), NEW w, w = ViewOf(y)
  PROVE  Ended(t, c) /\ Removed(t, s, v, w, f)
<1>1. Live(s) /\ v = ViewOf(s) /\ WellFormed(v) /\ \A d \in Disks(s) : Lower(d, v, c)
  BY DEF Ready
<1>2. Shortened(x, s, v, f, 0)
  BY <1>1, TruncateCuts
<1>3. Pruning(x, s, v, f) /\ FileIn(ViewOf(x), f).f_size = 0
  BY <1>2 DEF Shortened
<1>4. Live(x) /\ Keeps(x, s)
  BY <1>3 DEF Pruning, Edits
<1>5. f \in Place
  BY RootIs
<1>6. Held(x, f)
  BY <1>4, <1>5, ReadsHeld
<1>7. PICK old : old = FileIn(ViewOf(x), f)
  OBVIOUS
<1>8. File(x, f) = old /\ old \in FileType
  BY <1>4, <1>5, <1>6, <1>7, FileHeld DEF File
<1>9. PICK file : file = [old EXCEPT !.f_name = NoName]
  OBVIOUS
<1>10. /\ file \in FileType /\ file.f_type = old.f_type /\ file.f_direct = old.f_direct
       /\ file.f_indirect = old.f_indirect /\ file.f_size = old.f_size
  <2>1. NoName \in Name
    BY DEF Name
  <2>2. QED
    BY <1>8, <1>9, <2>1 DEF FileType
<1>11. y = StoreFile(x, f, file)
  BY <1>8, <1>9
<1>12. Pruning(y, s, v, f) /\ f[1] \in y.dirty /\ FileIn(w, f) = file
  BY <1>3, <1>7, <1>10, <1>11, FieldPrunes
<1>13. FileIn(w, f).f_size = 0
  BY <1>3, <1>7, <1>10, <1>12
<1>14. FileIn(v, f).f_type = "dir" => FileIn(w, f).f_size = 0
  BY <1>13
<1>15. Edits(y, s) /\ Pruned(w, v, f)
  BY <1>12 DEF Pruning
<1>16. Live(y) /\ Keeps(y, s) /\ Disks(y) = Disks(s)
  BY <1>15 DEF Edits, Disks
<1>17. Settled(w, v)
  BY <1>1, <1>14, <1>15, PrunedSettled
<1>18. f \in Places(w)
  BY <1>1, <1>15, <1>17, PrunedPlace
<1>19. Held(y, f)
  BY <1>5, <1>16, ReadsHeld
<1>20. PICK z : z = file_flush(y, f)
  OBVIOUS
<1>21. \A d \in Disks(y) : Lower(d, v, c)
  BY <1>1, <1>16
<1>22. Flushed(z, y, v, c)
  BY <1>1, <1>16, <1>17, <1>18, <1>19, <1>20, <1>21, FileFlushed
<1>23. t = FlushDir(z, dir)
  BY <1>20 DEF file_close
<1>24. Ended(t, c) /\ Keeps(t, s) /\ ViewOf(t) = w
  BY <1>12, <1>14, <1>22, <1>23, ShortenedEnds
<1>25. QED
  BY <1>15, <1>17, <1>24 DEF Removed

\* serve_remove keeps the invariant, whoever has pages of the file.
LEMMA RemoveKeeps ==
  ASSUME FsInv, NEW i \in Entries, RemoveFile(i)
  PROVE  FsInv'
<1>1. PICK s : s = Now(0)
  OBVIOUS
<1>2. PICK w : w = walk_path(s, Path(i))
  OBVIOUS
<1>3. PICK r : r = file_remove(s, Path(i))
  OBVIOUS
<1>4. PICK t : t = r.s
  OBVIOUS
<1>5. PICK K : K = Places(ViewOf(t))
  OBVIOUS
<1>6. /\ Request(i) /\ Common(i) /\ fs' = t /\ opened' = opened /\ mapped' = mapped
      /\ \A o \in opened : o.file \in K
  BY <1>1, <1>3, <1>4, <1>5 DEF RemoveFile, Request
<1>7. PICK v, c : v = View /\ c = calm'
  OBVIOUS
<1>8. Begun(s, v, c)
  BY <1>1, <1>6, <1>7, Begins
<1>9. /\ Ready(s, v, c) /\ Live(s) /\ v = ViewOf(s) /\ WellFormed(v)
      /\ \A q \in opened : OpenIn(s, q)
      /\ \A m \in mapped : MapIn(s, m)
  BY <1>8, BegunIs
<1>10. Len(Path(i)) \in Nat /\ Len(Path(i)) > 0
  BY PathIs DEF FsInv
<1>11. PICK u, k : u = w.s /\ k = Len(Path(i))
  OBVIOUS
<1>12. Walked(w, s, v, k)
  BY <1>2, <1>9, <1>10, <1>11, PathWalks
<1>13. Reads(u, s) /\ ViewOf(u) = ViewOf(s) /\ Keeps(u, s) /\ w.r \in Int
  BY <1>11, <1>12 DEF Walked, Reads
<1>14. Ready(u, v, c) /\ Ended(u, c)
  BY <1>9, <1>13, ReadsEnd
<1>15. (\A q : OpenIn(s, q) => OpenIn(u, q)) /\ (\A m : MapIn(s, m) => MapIn(u, m))
  BY <1>13, SameKept
<1>16. CASE w.r < 0
  <2>1. r = w
    BY <1>2, <1>3, <1>16 DEF file_remove, Try
  <2>2. t = u /\ mapped' = mapped
    BY <1>4, <1>6, <1>11, <2>1
  <2>3. \A q \in opened' : OpenIn(t, q)
    BY <1>6, <1>9, <1>15, <2>2
  <2>4. \A m \in mapped' : MapIn(t, m)
    BY <1>9, <1>15, <2>2
  <2>5. Kept(t, opened', mapped', c)
    BY <1>14, <2>2, <2>3, <2>4, EndedKept
  <2>6. QED
    BY <1>6, <1>7, <2>5, RequestKeeps
<1>17. CASE ~(w.r < 0)
  <2>1. PICK f, dir : f = w.file /\ dir = w.dir
    OBVIOUS
  <2>2. /\ f \in Places(v) /\ Held(u, f) /\ dir \in Places(v) /\ Held(u, dir)
        /\ f[1] \in DirBlocks(v, dir) /\ f # Root
    BY <1>10, <1>11, <1>12, <1>17, <2>1 DEF Walked
  <2>3. PICK x : x = file_truncate(u, f, 0)
    OBVIOUS
  <2>4. PICK y : y = StoreFile(x, f, [File(x, f) EXCEPT !.f_name = NoName])
    OBVIOUS
  <2>5. PICK z : z = file_close(y, f, dir)
    OBVIOUS
  <2>6. r = Ok(z)
    BY <1>2, <1>3, <1>11, <1>17, <2>1, <2>3, <2>4, <2>5 DEF file_remove, Try, With
  <2>7. Ok(z).s = z /\ Ok(z).r = 0
    BY DEF Ok
  <2>8. t = z /\ r.r = 0
    BY <1>4, <2>6, <2>7, Zenon
  <2>9. PICK W : W = ViewOf(y)
    OBVIOUS
  <2>10. Ended(z, c) /\ Removed(z, u, v, W, f)
    BY <1>14, <2>2, <2>3, <2>4, <2>5, <2>9, FileRemoved
  <2>11. Ended(t, c) /\ Keeps(t, u) /\ W = ViewOf(t) /\ Pruned(W, v, f) /\ Settled(W, v)
    BY <2>8, <2>10 DEF Removed
  <2>12. mapped' = mapped /\ K = Places(W)
    BY <1>5, <1>6, <2>11
  <2>13. v = ViewOf(u)
    BY <1>9, <1>13
  <2>14. /\ \A o : OpenIn(u, o) /\ o.file \in Places(W) => OpenIn(t, o)
         /\ \A m : MapIn(u, m) => MapIn(t, m)
    BY <1>9, <2>2, <2>11, <2>13, PrunedKept
  <2>15. \A q \in opened' : OpenIn(t, q)
    BY <1>6, <1>9, <1>15, <2>12, <2>14
  <2>16. \A m \in mapped' : MapIn(t, m)
    BY <1>9, <1>15, <2>12, <2>14
  <2>17. Kept(t, opened', mapped', c)
    BY <2>11, <2>15, <2>16, EndedKept
  <2>18. QED
    BY <1>6, <1>7, <2>17, RequestKeeps
<1>18. QED
  BY <1>16, <1>17

\* serve_sync keeps the invariant.
LEMMA SyncKeeps ==
  ASSUME FsInv, Sync
  PROVE  FsInv'
<1>1. PICK s : s = Now(0)
  OBVIOUS
<1>2. PICK t : t = fs_sync(s)
  OBVIOUS
<1>3. Request(0) /\ Common(0) /\ fs' = t /\ opened' = opened /\ mapped' = mapped
  BY <1>1, <1>2 DEF Sync, Request
<1>4. PICK v, c : v = View /\ c = calm'
  OBVIOUS
<1>5. Begun(s, v, c)
  BY <1>1, <1>3, <1>4, Begins
<1>6. /\ Ready(s, v, c) /\ v = ViewOf(s)
      /\ \A q \in opened : OpenIn(s, q)
      /\ \A m \in mapped : MapIn(s, m)
  BY <1>5, BegunIs
<1>7. Flushed(t, s, v, c)
  BY <1>2, <1>6, SyncFlushes
<1>8. Ended(t, c) /\ Keeps(t, s) /\ ViewOf(t) = v
  BY <1>6, <1>7, FlushedEnd
<1>9. ViewOf(t) = ViewOf(s)
  BY <1>6, <1>8
<1>10. (\A q \in opened : OpenIn(t, q)) /\ (\A m \in mapped : MapIn(t, m))
  BY <1>6, <1>8, <1>9, SameKept
<1>11. Kept(t, opened', mapped', c)
  BY <1>3, <1>8, <1>10, EndedKept
<1>12. QED
  BY <1>3, <1>4, <1>11, RequestKeeps

\* After a crash the server starts from one of the disks of the last request.
LEMMA CrashKeeps ==
  ASSUME FsInv, NEW d \in Disks(fs), Crash(d)
  PROVE  FsInv'
<1>1. PICK t, c : t = fs_init(d) /\ c = calm'
  OBVIOUS
<1>2. /\ Request(0) /\ Common(0) /\ opened' = {} /\ mapped' = {}
      /\ fs' = IF d[1] = Oops THEN Blame(t, "smashed")
               ELSE IF IndexSaved(d) /\ calm THEN t ELSE Blame(t, "old_index")
  BY <1>1 DEF Crash, Request
<1>3. fs \in FsState /\ DisksOK(fs, calm)
  <2>1. fs.bad = {}
    BY <1>2 DEF Common
  <2>2. QED
    BY <2>1, Going DEF Kept, Ended, Live
<1>4. d[1] # Oops => Image(d) /\ (calm => WellFormed(d))
  BY <1>3 DEF DisksOK
<1>5. CASE d[1] = Oops
  <2>1. d \in Stage
    BY <1>3, StateFields, Staged DEF Disks
  <2>2. Wrecked(fs')
    BY <1>1, <1>2, <1>5, <2>1, SmashedIs
  <2>3. QED
    BY <1>2, <2>2, RequestKeeps
<1>6. CASE d[1] # Oops /\ IndexSaved(d) /\ calm
  <2>1. WellFormed(d) /\ fs' = t
    BY <1>2, <1>4, <1>6
  <2>2. Ended(t, c)
    BY <1>1, <2>1, StartEnds
  <2>3. Kept(t, opened', mapped', c)
    BY <1>2, <2>2, EndedKept
  <2>4. QED
    BY <1>1, <1>2, <2>1, <2>3, RequestKeeps
<1>7. CASE d[1] # Oops /\ ~(IndexSaved(d) /\ calm)
  <2>1. PICK z : z = Blame(t, "old_index")
    OBVIOUS
  <2>2. fs' = z
    BY <1>2, <1>7, <2>1
  <2>3. Live(t) /\ t.bad = {}
    BY <1>1, <1>4, <1>7, StartedIs DEF Starts
  <2>4. "old_index" \in Faults
    BY DEF Faults
  <2>5. Live(z) /\ z.bad = t.bad \cup {"old_index"}
    BY <2>1, <2>3, <2>4, BlameIs
  <2>6. "panic" \notin z.bad /\ z.bad # {}
    BY <2>3, <2>5
  <2>7. Kept(z, opened', mapped', c)
    BY <1>2, <2>5, <2>6 DEF Kept
  <2>8. QED
    BY <1>1, <1>2, <2>2, <2>7, RequestKeeps
<1>8. QED
  BY <1>6, <1>7, <1>5

\* The invariant holds when the server starts on the image of fsformat.
LEMMA InitFsInv == FsInit => FsInv
<1>1. SUFFICES ASSUME FsInit PROVE FsInv
  OBVIOUS
<1>2. /\ host \in Hosts /\ fs = fs_init(fsformat(host)) /\ opened = {} /\ mapped = {} /\ nops = 0
      /\ calm = TRUE
  BY <1>1 DEF FsInit
<1>3. PICK d : d = fsformat(host)
  OBVIOUS
<1>4. WellFormed(d)
  BY <1>2, <1>3, HostsAssumption
<1>5. Ended(fs, calm)
  BY <1>2, <1>3, <1>4, StartEnds
<1>6. Kept(fs, opened, mapped, calm)
  BY <1>2, <1>5, EndedKept
<1>7. nops \in 0 .. MaxOps
  BY <1>2, HostsAssumption
<1>8. QED
  BY <1>2, <1>6, <1>7 DEF FsInv

\* Every request, client store and crash keeps the invariant.
LEMMA NextFsInv == FsInv /\ [FsNext]_fsVars => FsInv'
<1>1. SUFFICES ASSUME FsInv, [FsNext]_fsVars PROVE FsInv'
  OBVIOUS
<1>2. CASE UNCHANGED fsVars
  <2>1. /\ fs' = fs /\ host' = host /\ opened' = opened /\ mapped' = mapped /\ calm' = calm /\ nops' = nops
    BY <1>2 DEF fsVars
  <2>2. QED
    BY <1>1, <2>1 DEF FsInv
<1>3. CASE FsNext
  <2>1. CASE \E i \in Entries : Open(i)
    BY <1>1, <2>1, OpenKeeps
  <2>2. CASE \E i \in Entries : RemoveFile(i)
    BY <1>1, <2>2, RemoveKeeps
  <2>3. CASE \E o \in opened : \E n \in 0 .. NINDIRECT, p \in 0 .. 2 : GetBlock(o, n, p)
    BY <1>1, <2>3, GetBlockKeeps
  <2>4. CASE \E o \in opened : \E size \in Sizes : SetSize(o, size)
    BY <1>1, <2>4, SetSizeKeeps
  <2>5. CASE \E o \in opened : Close(o)
    BY <1>1, <2>5, CloseKeeps
  <2>6. CASE \E m \in mapped, x \in Words : Store(m, x)
    BY <1>1, <2>6, StoreKeeps
  <2>7. CASE Sync
    BY <1>1, <2>7, SyncKeeps
  <2>8. CASE Reboot
    BY <1>1, <2>8, CrashKeeps DEF Reboot
  <2>9. QED
    BY <1>3, <2>1, <2>2, <2>3, <2>4, <2>5, <2>6, <2>7, <2>8, Zenon DEF FsNext
<1>4. QED
  BY <1>1, <1>2, <1>3

\* So it always holds.
LEMMA FsInvariant == FsSpec => []FsInv
  BY InitFsInv, NextFsInv, PTL DEF FsSpec

(***************************************************************************)
(* Theorem.  At the end of every request no block of the file system, as   *)
(* the server sees it, has two uses, and none in use is free or reserved:  *)
(* what alloc_block_num() takes from the bitmap was no file's, and what    *)
(* file_clear_block() and file_truncate() give back is no file's any more. *)
(* For every size of the disk and of a struct File, every well formed      *)
(* image that fsformat makes, and any sequence of requests, crashes and    *)
(* stores of clients, into pages of freed and reused blocks too, up to the *)
(* first defect that fs.bad records: an indirect block that starts on a    *)
(* stale page, or is stored into through one, or is old on the disk a      *)
(* crash leaves, or a crash in check_write_block().                        *)
(***************************************************************************)
THEOREM FsBlocksExclusive == FsSpec => []BlocksExclusive
<1>1. FsInv => BlocksExclusive
  BY Going DEF Kept, Ended, WellFormed, BlocksExclusive, View
<1>2. QED
  BY <1>1, FsInvariant, PTL

(***************************************************************************)
(* Theorem.  Until fs.bad records a defect, every disk that a crash can    *)
(* leave between two calls of write_block(), but for those on which        *)
(* check_write_block() has smashed the superblock, is a file system in     *)
(* which no indirect block and no block that a struct File names itself is *)
(* free or has two uses; and no block behind an indirect one, if the       *)
(* indirect blocks on the disk were as cached when the request began.  In  *)
(* the order in which fs.c writes bitmap, struct File and directory, the   *)
(* disk never names a block that has been given up.                        *)
(***************************************************************************)
THEOREM FsDiskSound == FsSpec => []DiskSound
<1>1. ASSUME FsInv, fs.bad = {}, NEW d \in Disks(fs), d[1] # Oops PROVE Sound(d, calm)
  <2>1. DisksOK(fs, calm)
    BY <1>1, Going DEF Kept, Ended
  <2>2. Sound(d, FALSE) /\ (calm => WellFormed(d))
    BY <1>1, <2>1 DEF DisksOK
  <2>3. CASE calm = TRUE
    <3>1. Sound(d, TRUE)
      BY <2>2, <2>3 DEF WellFormed
    <3>2. QED
      BY <2>3, <3>1
  <2>4. CASE calm = FALSE
    BY <2>2, <2>4
  <2>5. calm = TRUE \/ calm = FALSE
    BY <1>1 DEF FsInv
  <2>6. QED
    BY <2>3, <2>4, <2>5
<1>2. FsInv => DiskSound
  BY <1>1 DEF DiskSound
<1>3. QED
  BY <1>2, FsInvariant, PTL

(***************************************************************************)
(* Theorem.  Up to the first defect that fs.bad records, no request        *)
(* reaches a user_panic() or an assertion of fs.c: no free block is read,  *)
(* no block beyond the superblock's count is named, and what write_block() *)
(* writes is mapped.  The request that makes an indirect block of a stale  *)
(* page may panic, no other does; and no start panics but on a disk that a *)
(* crash in check_write_block() has left without its superblock.  The      *)
(* struct File of an open file is an entry of a cached block for as long   *)
(* as it is open, so the pointers that the open table of serv.c keeps      *)
(* never dangle.                                                           *)
(***************************************************************************)
THEOREM FsNeverPanics == FsSpec => []NeverPanics
<1>1. ASSUME FsInv PROVE NeverPanics
  <2>1. nops \in 0 .. MaxOps
    BY <1>1 DEF FsInv
  <2>2. CASE Kept(fs, opened, mapped, calm)
    <3>1. Live(fs) /\ fs \in FsState /\ ("panic" \in fs.bad => "stale_indirect" \in fs.bad)
      BY <2>2 DEF Kept, Live
    <3>2. fs.bad \subseteq Faults
      BY <3>1, StateFields
    <3>3. DOMAIN fs.disk = Block /\ DOMAIN fs.cache = Block /\ fs.dirty \subseteq Block
      BY <3>1, StateFields
    <3>4. fs.cache[1].t = "super" /\ fs.cache[2].t = "bitmap" /\ bitmap(fs) \subseteq Block \ {0, 1, 2}
      BY <3>1 DEF Live, bitmap
    <3>5. ASSUME NEW o \in opened PROVE block_is_mapped(fs, o.file[1]) /\ o.file[2] \in Slot
      BY <2>2 DEF Kept, Place, Held, block_is_mapped
    <3>6. QED
      BY <2>1, <3>1, <3>2, <3>3, <3>4, <3>5 DEF NeverPanics, FsTypeOK
  <2>3. CASE Wrecked(fs) /\ opened = {}
    <3>1. fs.bad \subseteq Faults /\ "panic" \in fs.bad /\ "smashed" \in fs.bad
      BY <2>3 DEF Wrecked, Faults
    <3>2. DOMAIN fs.disk = Block /\ DOMAIN fs.cache = Block /\ fs.dirty \subseteq Block
      BY <2>3 DEF Wrecked
    <3>3. QED
      BY <2>1, <2>3, <3>1, <3>2 DEF NeverPanics, FsTypeOK
  <2>4. QED
    BY <1>1, <2>2, <2>3 DEF FsInv
<1>2. QED
  BY <1>1, FsInvariant, PTL

-----------------------------------------------------------------------------
(* The inductive invariant.                                                *)

\* Which of the variables are functions and records, with which fields.
SrvShape == \E X : srv \in [st : X, from : X, req : X, out : X]
TabShape == \E X : opentab \in [Entry -> [o_file : X, dir : X, o_fileid : Nat, used : BOOLEAN]]
FfShape  == \E X : ff \in [Entry -> [f_fileid : X, f_size : X]]
ClShape  == \E X : cl \in [Clients -> [st : X, op : X, ph : X, n : X, size : X, old : X, path : X]]
FdShape  == fd \in [Clients -> Entry \cup {NULL}]
GotShape == \E X : got \in [Clients -> X]

Shapes == SrvShape /\ TabShape /\ FfShape /\ ClShape /\ FdShape /\ GotShape

\* open_lookup() finds an entry by the remainder of its id.
Ids == \A e \in Entry : opentab[e].o_fileid % MAXOPEN = e

\* The server works for one client, which waits for it, and no other client waits.
Turn ==
  /\ srv.st \in {"recv", "work", "reply"}
  /\ srv.st # "reply" => srv.out = <<>>
  /\ srv.st = "reply" => Len(srv.out) = 1 /\ Reply.to = srv.from
  /\ srv.st # "recv" => srv.from \in Clients /\ cl[srv.from].st = "recving"
  /\ \A c \in Clients : cl[c].st = "recving" => srv.st # "recv" /\ srv.from = c

\* The server works on the request its client has sent.
Sent == srv.st = "work" => (srv.req.t = "open" <=> cl[srv.from].ph = "open")

\* A client that opens a file has none.
Opening == \A c \in Clients : cl[c].ph = "open" => fd[c] = NULL

\* An entry on its way to a client is nobody's, and complete.
Granted(e) ==
  /\ e \in Entry /\ opentab[e].used /\ ff[e].f_fileid = opentab[e].o_fileid
  /\ \A c \in Clients : fd[c] # e
Handed ==
  srv.st = "reply" /\ cl[srv.from].ph = "open" /\ ~(Reply.r < 0) => Granted(Reply.page.fd)

\* The entry of a client is the one it got, and no other client's.
Holds(c) ==
  /\ fd[c] \in Entry
  /\ opentab[fd[c]].used
  /\ opentab[fd[c]].o_fileid = got[c].id /\ ff[fd[c]].f_fileid = got[c].id
  /\ opentab[fd[c]].o_file = got[c].file
  /\ \A d \in Clients \ {c} : fd[d] # fd[c]
Holding == \A c \in Clients : fd[c] # NULL => Holds(c)

ServInv == Shapes /\ Ids /\ Turn /\ Sent /\ Opening /\ Handed /\ Holding

-----------------------------------------------------------------------------
(* Numbers.                                                                *)

\* The open table has entries, and finitely many clients use it.
LEMMA TableSizes == MAXOPEN \in Nat \ {0} /\ IsFiniteSet(Clients) /\ NULL \notin Nat
BY FsServAssumption

\* The entries are numbers, and as many as the table has.
LEMMA EntryIs == /\ NULL \notin Entry /\ Entry \subseteq Nat
                 /\ IsFiniteSet(Entry) /\ Cardinality(Entry) = MAXOPEN
<1>1. IsFiniteSet(0 .. MAXOPEN - 1) /\ Cardinality(0 .. MAXOPEN - 1) = MAXOPEN
  BY TableSizes, FS_Interval
<1>2. 0 .. MAXOPEN - 1 \subseteq Nat
  BY TableSizes
<1>3. QED
  BY <1>1, <1>2, TableSizes DEF Entry

(***************************************************************************)
(* o_fileid += MAXOPEN keeps the entry an id belongs to.                   *)
(***************************************************************************)
LEMMA NextId ==
  ASSUME NEW m \in Nat \ {0}, NEW x \in Nat
  PROVE  (x + m) % m = x % m
<1>1. PICK b \in Int, r \in 0 .. m - 1 : x = m * b + r /\ r = x % m
  <2>1. x = m * (x \div m) + (x % m) /\ x \div m \in Int /\ x % m \in 0 .. m - 1
    OBVIOUS
  <2>2. QED
    BY <2>1
<1>2. PICK c \in Int, s \in 0 .. m - 1 : x + m = m * c + s /\ s = (x + m) % m
  <2>1. /\ x + m = m * ((x + m) \div m) + ((x + m) % m)
        /\ (x + m) \div m \in Int /\ (x + m) % m \in 0 .. m - 1
    OBVIOUS
  <2>2. QED
    BY <2>1
<1>3. PICK d \in Int : d = b + 1 - c
  OBVIOUS
<1>4. m * d = s - r
  <2>1. m * d = m * b + m - m * c
    BY <1>3
  <2>2. PICK v \in Int, w \in Int : v = m * b /\ w = m * c
    OBVIOUS
  <2>3. QED
    BY <1>1, <1>2, <2>1, <2>2
<1>5. CASE d <= -1
  <2>1. m * d <= -m
    BY <1>5
  <2>2. QED
    BY <1>4, <2>1
<1>6. CASE d >= 1
  <2>1. m * d >= m
    BY <1>6
  <2>2. QED
    BY <1>4, <2>1
<1>7. CASE d = 0
  <2>1. m * d = 0
    BY <1>7
  <2>2. s = r
    BY <1>4, <2>1
  <2>3. QED
    BY <1>1, <1>2, <2>2, Zenon
<1>8. QED
  BY <1>5, <1>6, <1>7

-----------------------------------------------------------------------------
(* The open table.                                                         *)

Mappers(e) == {c \in Clients : fd[c] = e}

\* pageref() of an Fd page counts the clients that map it.
LEMMA Mapped ==
  ASSUME NEW e
  PROVE  /\ opentab[e].used => (pageref(e) \in {0, 1} <=> \A c \in Clients : fd[c] # e)
         /\ opentab[e].used => (pageref(e) = 1 <=> \A c \in Clients : fd[c] # e)
         /\ ~opentab[e].used => pageref(e) = 0
<1>1. IsFiniteSet(Mappers(e)) /\ Cardinality(Mappers(e)) \in Nat
  <2>1. Mappers(e) \subseteq Clients
    BY DEF Mappers
  <2>2. QED
    BY <2>1, TableSizes, FS_Subset, FS_CardinalityType
<1>2. Cardinality(Mappers(e)) = 0 <=> Mappers(e) = {}
  BY <1>1, FS_EmptySet
<1>3. Mappers(e) = {} <=> \A c \in Clients : fd[c] # e
  BY DEF Mappers
<1>4. opentab[e].used => pageref(e) = 1 + Cardinality(Mappers(e))
  BY DEF pageref, Mappers
<1>5. ~opentab[e].used => pageref(e) = 0
  BY DEF pageref
<1> HIDE DEF Mappers
<1>6. QED
  BY <1>1, <1>2, <1>3, <1>4, <1>5

(***************************************************************************)
(* The entry that open_alloc() finds, if it finds one, is nobody's.        *)
(***************************************************************************)
LEMMA AllocFinds ==
  ASSUME FdShape, Holding, open_alloc # NULL
  PROVE  open_alloc \in Entry /\ \A d \in Clients : fd[d] # open_alloc
<1> DEFINE free == {e \in Entry : pageref(e) \in {0, 1}}
<1>1. ASSUME NEW e \in Entry PROVE e \in free <=> \A d \in Clients : fd[d] # e
  <2>1. \A d \in Clients : fd[d] = e => opentab[e].used
    BY EntryIs DEF Holding, Holds
  <2>2. CASE opentab[e].used
    BY <2>2, Mapped
  <2>3. CASE ~opentab[e].used
    BY <2>1, <2>3, Mapped
  <2>4. QED
    BY <2>2, <2>3
<1>2. free # {}
  BY Zenon DEF open_alloc
<1>3. \E e \in free : \A x \in free : e <= x
  <2>1. free \subseteq Nat
    BY EntryIs
  <2>2. QED
    BY <1>2, <2>1, LeastNat
<1>4. open_alloc \in free
  <2>1. open_alloc = CHOOSE e \in free : \A x \in free : e <= x
    BY <1>2, Zenon DEF open_alloc
  <2> HIDE DEF free
  <2>2. QED
    BY <1>3, <2>1, Zenon
<1>5. QED
  BY <1>1, <1>4

-----------------------------------------------------------------------------
(* The records of the clients.                                             *)

\* Client c leaves its call as [st, ph], and the others keep theirs.
Leaves(c, st, ph) ==
  /\ ClShape'
  /\ cl'[c].st = st /\ cl'[c].ph = ph
  /\ \A d \in Clients \ {c} : cl'[d] = cl[d]

CallSet(X) == [st : X, op : X, ph : X, n : X, size : X, old : X, path : X]

\* A client asks for the next thing.
LEMMA AskLeaves ==
  ASSUME ClShape, NEW c \in Clients, NEW ph, NEW n, Ask(c, ph, n)
  PROVE  Leaves(c, "send", ph)
<1>1. PICK X : cl \in [Clients -> CallSet(X)]
  BY DEF ClShape, CallSet
<1>2. PICK Y : Y = X \cup {"send", ph, n}
  OBVIOUS
<1>3. cl \in [Clients -> CallSet(Y)] /\ "send" \in Y /\ ph \in Y /\ n \in Y
  BY <1>1, <1>2 DEF CallSet
<1>4. cl' = [cl EXCEPT ![c].st = "send", ![c].ph = ph, ![c].n = n]
  BY DEF Ask
<1>5. cl' \in [Clients -> CallSet(Y)]
  BY <1>3, <1>4 DEF CallSet
<1>6. ClShape'
  BY <1>5 DEF ClShape, CallSet
<1>7. cl'[c].st = "send" /\ cl'[c].ph = ph /\ \A d \in Clients \ {c} : cl'[d] = cl[d]
  BY <1>3, <1>4 DEF CallSet
<1>8. QED
  BY <1>6, <1>7 DEF Leaves

\* A call replaced by another.
LEMMA CallLeaves ==
  ASSUME ClShape, NEW c \in Clients, NEW call, cl' = [cl EXCEPT ![c] = call],
         \E Z : call \in CallSet(Z)
  PROVE  Leaves(c, call.st, call.ph)
<1>1. PICK X : cl \in [Clients -> CallSet(X)]
  BY DEF ClShape, CallSet
<1>2. PICK Z : call \in CallSet(Z)
  OBVIOUS
<1>3. PICK Y : Y = X \cup Z
  OBVIOUS
<1>4. cl \in [Clients -> CallSet(Y)] /\ call \in CallSet(Y)
  BY <1>1, <1>2, <1>3 DEF CallSet
<1>5. cl' \in [Clients -> CallSet(Y)]
  BY <1>4
<1>6. ClShape'
  BY <1>5 DEF ClShape, CallSet
<1>7. cl'[c] = call /\ \A d \in Clients \ {c} : cl'[d] = cl[d]
  BY <1>4
<1>8. QED
  BY <1>6, <1>7 DEF Leaves

\* The record of a client that does nothing.
LEMMA IdleIs == /\ \E Z : Idle \in CallSet(Z)
                /\ Idle.st = "idle" /\ Idle.ph = "none"
<1> DEFINE Z == {"idle", "none", 0, <<>>}
<1>1. Idle \in CallSet(Z)
  BY DEF Idle, CallSet
<1>2. QED
  BY <1>1 DEF Idle

\* A client returns.
LEMMA ReturnLeaves ==
  ASSUME ClShape, NEW c \in Clients, Return(c)
  PROVE  Leaves(c, "idle", "none")
<1>1. cl' = [cl EXCEPT ![c] = Idle]
  BY DEF Return
<1>2. PICK call : call = Idle
  OBVIOUS
<1>3. cl' = [cl EXCEPT ![c] = call] /\ (\E Z : call \in CallSet(Z))
      /\ call.st = "idle" /\ call.ph = "none"
  BY <1>1, <1>2, IdleIs, Zenon
<1>4. Leaves(c, call.st, call.ph)
  BY <1>3, CallLeaves
<1>5. QED
  BY <1>3, <1>4

\* Only the step of a call changes.
LEMMA StateLeaves ==
  ASSUME ClShape, NEW c \in Clients, NEW st, cl' = [cl EXCEPT ![c].st = st]
  PROVE  Leaves(c, st, cl[c].ph)
<1>1. PICK X : cl \in [Clients -> CallSet(X)]
  BY DEF ClShape, CallSet
<1>2. PICK Y : Y = X \cup {st}
  OBVIOUS
<1>3. cl \in [Clients -> CallSet(Y)] /\ st \in Y
  BY <1>1, <1>2 DEF CallSet
<1>4. cl' \in [Clients -> CallSet(Y)]
  BY <1>3 DEF CallSet
<1>5. ClShape'
  BY <1>4 DEF ClShape, CallSet
<1>6. cl'[c].st = st /\ cl'[c].ph = cl[c].ph /\ \A d \in Clients \ {c} : cl'[d] = cl[d]
  BY <1>3 DEF CallSet
<1>7. QED
  BY <1>5, <1>6 DEF Leaves

-----------------------------------------------------------------------------
(* Steps of a client.                                                      *)

\* The tables change in nothing but the sizes of open files, and clients at most
\* give up their entries.
TablesKept ==
  /\ opentab' = opentab /\ got' = got
  /\ FfShape' /\ \A e \in Entry : ff'[e].f_fileid = ff[e].f_fileid
  /\ FdShape' /\ \A c \in Clients : fd'[c] = fd[c] \/ fd'[c] = NULL

\* What the tables say holds while they stay as they are.
LEMMA KeepTables ==
  ASSUME Shapes, Ids, Holding, TablesKept
  PROVE  /\ TabShape' /\ GotShape' /\ FfShape' /\ FdShape' /\ Ids' /\ Holding'
         /\ \A e : Granted(e) => Granted(e)'
<1>1. TabShape' /\ GotShape' /\ Ids'
  BY DEF Shapes, TabShape, GotShape, Ids, TablesKept
<1>2. Holding'
  <2> SUFFICES ASSUME NEW c \in Clients, fd'[c] # NULL PROVE Holds(c)'
    BY DEF Holding
  <2>1. fd'[c] = fd[c] /\ Holds(c)
    BY DEF TablesKept, Holding
  <2>2. \A d \in Clients \ {c} : fd'[d] # fd'[c]
    BY <2>1, EntryIs DEF TablesKept, Holds
  <2>3. QED
    BY <2>1, <2>2 DEF TablesKept, Holds
<1>3. ASSUME NEW e, Granted(e) PROVE Granted(e)'
  <2>1. e \in Entry
    BY <1>3 DEF Granted
  <2>2. \A c \in Clients : fd'[c] # e
    BY <1>3, <2>1, EntryIs DEF Granted, TablesKept
  <2>3. QED
    BY <1>3, <2>1, <2>2 DEF Granted, TablesKept
<1>4. QED
  BY <1>1, <1>2, <1>3 DEF TablesKept

(***************************************************************************)
(* A step a client takes on its own, not waiting before or after it.       *)
(***************************************************************************)
LEMMA OwnStep ==
  ASSUME ServInv, NEW c \in Clients, NEW st, NEW ph, Leaves(c, st, ph),
         cl[c].st # "recving", st # "recving", srv' = srv, TablesKept,
         ph = "open" => fd'[c] = NULL
  PROVE  ServInv'
<1>1. Shapes /\ Ids /\ Turn /\ Sent /\ Opening /\ Handed /\ Holding
  BY DEF ServInv
<1>2. /\ TabShape' /\ GotShape' /\ FfShape' /\ FdShape' /\ Ids' /\ Holding'
      /\ \A e : Granted(e) => Granted(e)'
  BY <1>1, KeepTables
<1>3. Shapes'
  BY <1>1, <1>2 DEF Shapes, SrvShape, Leaves
<1>4. srv.st # "recv" => /\ srv.from \in Clients \ {c}
                         /\ cl'[srv.from] = cl[srv.from]
  BY <1>1 DEF Turn, Leaves
<1>5. Turn'
  BY <1>1, <1>4 DEF Turn, Leaves, Reply
<1>6. Sent'
  BY <1>1, <1>4 DEF Sent
<1>7. Opening'
  <2> SUFFICES ASSUME NEW d \in Clients, cl'[d].ph = "open" PROVE fd'[d] = NULL
    BY DEF Opening
  <2>1. CASE d = c
    BY <2>1 DEF Leaves
  <2>2. CASE d # c
    BY <1>1, <2>2 DEF Leaves, Opening, TablesKept
  <2>3. QED
    BY <2>1, <2>2
<1>8. Handed'
  <2> SUFFICES ASSUME srv'.st = "reply", cl'[srv'.from].ph = "open", ~(Reply'.r < 0)
               PROVE  Granted(Reply.page.fd)'
    BY DEF Handed
  <2>1. Reply' = Reply
    BY DEF Reply
  <2>2. Granted(Reply.page.fd)
    BY <1>1, <1>4, <2>1 DEF Handed
  <2>3. PICK e : e = Reply.page.fd
    OBVIOUS
  <2>4. Granted(e)'
    BY <1>2, <2>2, <2>3
  <2>5. Reply.page.fd' = e
    BY <2>1, <2>3
  <2>6. QED
    BY <2>4, <2>5 DEF Granted
<1>9. QED
  BY <1>2, <1>3, <1>5, <1>6, <1>7, <1>8 DEF ServInv

(***************************************************************************)
(* A client begins a call.                                                 *)
(***************************************************************************)
LEMMA BeginStep ==
  ASSUME ServInv, NEW c \in Clients, NEW call, Begin(c, call),
         \E Z : call \in CallSet(Z), call.st # "recving", TablesKept,
         call.ph = "open" => fd'[c] = NULL
  PROVE  ServInv'
<1>1. cl[c].st = "idle" /\ srv' = srv /\ cl' = [cl EXCEPT ![c] = call]
  BY DEF Begin
<1>2. ClShape
  BY DEF ServInv, Shapes
<1>3. Leaves(c, call.st, call.ph)
  BY <1>1, <1>2, CallLeaves
<1>4. cl[c].st # "recving"
  BY <1>1
<1>5. QED
  BY <1>1, <1>3, <1>4, OwnStep

\* The call records of the library.
LEMMA CallIs ==
  ASSUME NEW st, NEW op, NEW ph, NEW size, NEW old, NEW path, NEW call,
         call = [st |-> st, op |-> op, ph |-> ph, n |-> 0, size |-> size, old |-> old,
                 path |-> path]
  PROVE  (\E Z : call \in CallSet(Z)) /\ call.st = st /\ call.ph = ph
<1> DEFINE Z == {st, op, ph, 0, size, old, path}
<1>1. call \in CallSet(Z)
  BY DEF CallSet
<1>2. QED
  BY <1>1

\* A step that does not touch the tables.
LEMMA NothingElse ==
  ASSUME Shapes, UNCHANGED <<opentab, got, ff, fd>>
  PROVE  TablesKept
BY DEF Shapes, TablesKept, FfShape, FdShape

\* A client unmaps its Fd page.
LEMMA GivesUp ==
  ASSUME Shapes, NEW c \in Clients, UNCHANGED <<opentab, got, ff>>, fd' = [fd EXCEPT ![c] = NULL]
  PROVE  TablesKept /\ fd'[c] = NULL
<1>1. fd \in [Clients -> Entry \cup {NULL}]
  BY DEF Shapes, FdShape
<1>2. FdShape' /\ (\A d \in Clients : fd'[d] = fd[d] \/ fd'[d] = NULL) /\ fd'[c] = NULL
  BY <1>1 DEF FdShape
<1>3. QED
  BY <1>2 DEF Shapes, TablesKept, FfShape

\* The size in an Fd page changes.
LEMMA NewSize ==
  ASSUME Shapes, NEW e \in Entry, NEW size, UNCHANGED <<opentab, got, fd>>,
         ff' = [ff EXCEPT ![e].f_size = size]
  PROVE  TablesKept
<1>1. PICK X : ff \in [Entry -> [f_fileid : X, f_size : X]]
  BY DEF Shapes, FfShape
<1>2. PICK Y : Y = X \cup {size}
  OBVIOUS
<1>3. ff \in [Entry -> [f_fileid : Y, f_size : Y]] /\ size \in Y
  BY <1>1, <1>2
<1>4. ff' \in [Entry -> [f_fileid : Y, f_size : Y]]
  BY <1>3
<1>5. FfShape' /\ \A x \in Entry : ff'[x].f_fileid = ff[x].f_fileid
  BY <1>3, <1>4 DEF FfShape
<1>6. QED
  BY <1>5 DEF Shapes, TablesKept, FdShape

\* write() and ftruncate() start.
LEMMA ResizeStep ==
  ASSUME ServInv, NEW c \in Clients, fd[c] # NULL, NEW op, NEW size, Resize(c, op, size)
  PROVE  ServInv'
<1>1. Shapes /\ fd[c] \in Entry
  BY DEF ServInv, Shapes, FdShape
<1>2. PICK call : call = [Idle EXCEPT !.st = "send", !.op = op, !.ph = "set",
                                      !.size = size, !.old = ff[fd[c]].f_size]
  OBVIOUS
<1>3. /\ Begin(c, call)
      /\ ff' = [ff EXCEPT ![fd[c]].f_size = size]
      /\ fd' = fd
  BY <1>2, Zenon DEF Resize
<1>4. opentab' = opentab /\ got' = got
  BY <1>3 DEF Begin
<1>5. TablesKept
  BY <1>1, <1>3, <1>4, NewSize
<1>6. call = [st |-> "send", op |-> op, ph |-> "set", n |-> 0, size |-> size,
              old |-> ff[fd[c]].f_size, path |-> <<>>]
  BY <1>2 DEF Idle
<1>7. (\E Z : call \in CallSet(Z)) /\ call.st = "send" /\ call.ph = "set"
  BY <1>6, CallIs
<1>8. QED
  BY <1>3, <1>5, <1>7, BeginStep

\* A client calls the library.
LEMMA CallStep ==
  ASSUME ServInv, NEW c \in Clients, Call(c)
  PROVE  ServInv'
<1>1. Shapes
  BY DEF ServInv
<1>2. ASSUME NEW path, open(c, path) PROVE ServInv'
  <2>1. PICK call : call = [Idle EXCEPT !.st = "send", !.op = "open", !.ph = "open", !.path = path]
    OBVIOUS
  <2>2. Begin(c, call) /\ fd[c] = NULL /\ UNCHANGED <<ff, fd>>
    BY <1>2, <2>1, Zenon DEF open
  <2>3. TablesKept /\ fd'[c] = NULL
    BY <1>1, <2>2, NothingElse DEF Begin
  <2>4. call = [st |-> "send", op |-> "open", ph |-> "open", n |-> 0, size |-> 0, old |-> 0,
                path |-> path]
    BY <2>1 DEF Idle
  <2>5. (\E Z : call \in CallSet(Z)) /\ call.st = "send"
    BY <2>4, CallIs
  <2>6. QED
    BY <2>2, <2>3, <2>5, BeginStep
<1>3. ASSUME NEW path, remove(c, path) PROVE ServInv'
  <2>1. PICK call : call = [Idle EXCEPT !.st = "send", !.op = "remove", !.ph = "remove",
                                        !.path = path]
    OBVIOUS
  <2>2. Begin(c, call) /\ UNCHANGED <<ff, fd>>
    BY <1>3, <2>1, Zenon DEF remove
  <2>3. TablesKept
    BY <1>1, <2>2, NothingElse DEF Begin
  <2>4. call = [st |-> "send", op |-> "remove", ph |-> "remove", n |-> 0, size |-> 0, old |-> 0,
                path |-> path]
    BY <2>1 DEF Idle
  <2>5. (\E Z : call \in CallSet(Z)) /\ call.st = "send" /\ call.ph = "remove"
    BY <2>4, CallIs
  <2>6. QED
    BY <2>2, <2>3, <2>5, BeginStep
<1>4. ASSUME sync(c) PROVE ServInv'
  <2>1. PICK call : call = [Idle EXCEPT !.st = "send", !.op = "sync", !.ph = "sync"]
    OBVIOUS
  <2>2. Begin(c, call) /\ UNCHANGED <<ff, fd>>
    BY <1>4, <2>1, Zenon DEF sync
  <2>3. TablesKept
    BY <1>1, <2>2, NothingElse DEF Begin
  <2>4. call = [st |-> "send", op |-> "sync", ph |-> "sync", n |-> 0, size |-> 0, old |-> 0,
                path |-> <<>>]
    BY <2>1 DEF Idle
  <2>5. (\E Z : call \in CallSet(Z)) /\ call.st = "send" /\ call.ph = "sync"
    BY <2>4, CallIs
  <2>6. QED
    BY <2>2, <2>3, <2>5, BeginStep
<1>5. ASSUME close(c) PROVE ServInv'
  <2>1. PICK ph, call :
          /\ ph \in {"dirty", "close"} /\ Begin(c, call)
          /\ call = [Idle EXCEPT !.st = "send", !.op = "close", !.ph = ph]
    <3>1. CASE ff[fd[c]].f_size > 0
      BY <1>5, <3>1, Zenon DEF close
    <3>2. CASE ~(ff[fd[c]].f_size > 0)
      BY <1>5, <3>2, Zenon DEF close
    <3>3. QED
      BY <3>1, <3>2
  <2>2. UNCHANGED <<ff, fd>>
    BY <1>5 DEF close
  <2>3. TablesKept
    BY <1>1, <2>1, <2>2, NothingElse DEF Begin
  <2>4. call = [st |-> "send", op |-> "close", ph |-> ph, n |-> 0, size |-> 0, old |-> 0,
                path |-> <<>>]
    BY <2>1 DEF Idle
  <2>5. (\E Z : call \in CallSet(Z)) /\ call.st = "send" /\ call.ph = ph
    BY <2>4, CallIs
  <2>6. QED
    BY <2>1, <2>3, <2>5, BeginStep
<1>6. ASSUME NEW size, ftruncate(c, size) PROVE ServInv'
  BY <1>6, ResizeStep DEF ftruncate
<1>7. ASSUME NEW n \in Window, file_write(c, n) PROVE ServInv'
  <2>1. PICK tot : tot = (n + 1) * BY2BLK
    OBVIOUS
  <2>2. /\ fd[c] # NULL
        /\ IF tot > ff[fd[c]].f_size THEN Resize(c, "write", tot)
           ELSE /\ Begin(c, [Idle EXCEPT !.st = "store", !.op = "write", !.size = tot])
                /\ UNCHANGED <<ff, fd, win>>
    BY <1>7, <2>1, Zenon DEF file_write
  <2>3. CASE tot > ff[fd[c]].f_size
    BY <2>2, <2>3, ResizeStep
  <2>4. CASE ~(tot > ff[fd[c]].f_size)
    <3>1. PICK call : call = [Idle EXCEPT !.st = "store", !.op = "write", !.size = tot]
      OBVIOUS
    <3>2. Begin(c, call) /\ UNCHANGED <<ff, fd>>
      BY <2>2, <2>4, <3>1, Zenon
    <3>3. TablesKept
      BY <1>1, <3>2, NothingElse DEF Begin
    <3>4. call = [st |-> "store", op |-> "write", ph |-> "none", n |-> 0, size |-> tot,
                  old |-> 0, path |-> <<>>]
      BY <3>1 DEF Idle
    <3>5. (\E Z : call \in CallSet(Z)) /\ call.st = "store" /\ call.ph = "none"
      BY <3>4, CallIs
    <3>6. QED
      BY <3>2, <3>3, <3>5, BeginStep
  <2>5. QED
    BY <2>3, <2>4
<1>8. ASSUME die(c) PROVE ServInv'
  <2>1. /\ Begin(c, Idle) /\ fd' = [fd EXCEPT ![c] = NULL] /\ ff' = ff
    BY <1>8 DEF die
  <2>2. TablesKept
    BY <1>1, <2>1, GivesUp DEF Begin
  <2>3. PICK call : call = Idle
    OBVIOUS
  <2>4. Begin(c, call) /\ (\E Z : call \in CallSet(Z)) /\ call.st = "idle" /\ call.ph = "none"
    BY <2>1, <2>3, IdleIs, Zenon
  <2>5. QED
    BY <2>2, <2>4, BeginStep
<1>9. QED
  BY <1>2, <1>3, <1>4, <1>5, <1>6, <1>7, <1>8 DEF Call

\* The memcpy of file_write().
LEMMA StoreStep ==
  ASSUME ServInv, NEW c \in Clients, file_write_store(c)
  PROVE  ServInv'
<1>1. Shapes /\ ClShape
  BY DEF ServInv, Shapes
<1>2. cl[c].st = "store" /\ Return(c) /\ UNCHANGED <<opentab, ff, srv, fd, got>>
  BY DEF file_write_store
<1>3. Leaves(c, "idle", "none") /\ TablesKept
  BY <1>1, <1>2, ReturnLeaves, NothingElse
<1>4. QED
  BY <1>2, <1>3, OwnStep

-----------------------------------------------------------------------------
(* A request is sent, and a reply received.                                *)

\* The request of a client that opens a file, and of no other, is an open.
LEMMA ReqIs ==
  ASSUME NEW c
  PROVE  Req(c).t = "open" <=> cl[c].ph = "open"
BY DEF Req

\* fsipc() sends the request.
LEMMA SendStep ==
  ASSUME ServInv, NEW c \in Clients, fsipc(c)
  PROVE  ServInv'
<1>1. Shapes /\ Ids /\ Turn /\ Sent /\ Opening /\ Handed /\ Holding /\ ClShape
  BY DEF ServInv, Shapes
<1>2. cl[c].st = "send" /\ srv.st = "recv" /\ UNCHANGED <<opentab, ff, fd, got>>
  BY DEF fsipc
<1>3. Leaves(c, "recving", cl[c].ph)
  BY <1>1, StateLeaves DEF fsipc
<1>4. PICK q : q = Req(c)
  OBVIOUS
<1>5. q.t = "open" <=> cl[c].ph = "open"
  BY <1>4, ReqIs
<1>6. srv' = [srv EXCEPT !.st = "work", !.from = c, !.req = q]
  BY <1>4, Zenon DEF fsipc
<1>7. SrvShape' /\ srv'.st = "work" /\ srv'.from = c /\ srv'.req = q /\ srv'.out = srv.out
  <2>1. PICK X : srv \in [st : X, from : X, req : X, out : X]
    BY <1>1 DEF Shapes, SrvShape
  <2>2. PICK Y : Y = X \cup {"work", c, q}
    OBVIOUS
  <2>3. srv \in [st : Y, from : Y, req : Y, out : Y] /\ "work" \in Y /\ c \in Y /\ q \in Y
    BY <2>1, <2>2
  <2>4. srv' \in [st : Y, from : Y, req : Y, out : Y]
    BY <1>6, <2>3
  <2>5. QED
    BY <1>6, <2>3, <2>4 DEF SrvShape
<1>8. /\ TabShape' /\ GotShape' /\ FfShape' /\ FdShape' /\ Ids' /\ Holding'
  BY <1>1, <1>2, NothingElse, KeepTables
<1>9. Shapes'
  BY <1>3, <1>7, <1>8 DEF Shapes, Leaves
<1>10. Turn'
  BY <1>1, <1>2, <1>3, <1>7 DEF Turn, Leaves
<1>11. Sent'
  BY <1>3, <1>5, <1>7 DEF Sent, Leaves
<1>12. Opening'
  BY <1>1, <1>2, <1>3 DEF Opening, Leaves
<1>13. Handed'
  BY <1>7 DEF Handed
<1>14. QED
  BY <1>8, <1>9, <1>10, <1>11, <1>12, <1>13 DEF ServInv

(***************************************************************************)
(* The client that waits gets its reply and goes on; the server receives.  *)
(***************************************************************************)
LEMMA AnswerStep ==
  ASSUME ServInv, NEW c \in Clients, NEW op, NEW p, Replied(c, op, p),
         NEW st, NEW ph, Leaves(c, st, ph), st # "recving", ph # "open",
         GotShape', FfShape', FdShape', Holding',
         \A d \in Clients \ {c} : fd'[d] = fd[d]
  PROVE  ServInv'
<1>1. Shapes /\ Ids /\ Turn /\ Sent /\ Opening /\ Handed /\ Holding
  BY DEF ServInv
<1>2. /\ srv.st = "reply" /\ srv.from = c /\ Len(srv.out) = 1
      /\ opentab' = opentab
  BY <1>1 DEF Turn, Replied
<1>3. srv' = [srv EXCEPT !.st = "recv", !.out = <<>>]
  BY <1>2, Zenon DEF Replied
<1>4. SrvShape' /\ srv'.st = "recv" /\ srv'.out = <<>>
  <2>1. PICK X : srv \in [st : X, from : X, req : X, out : X]
    BY <1>1 DEF Shapes, SrvShape
  <2>2. PICK Y : Y = X \cup {"recv", <<>>}
    OBVIOUS
  <2>3. srv \in [st : Y, from : Y, req : Y, out : Y] /\ "recv" \in Y /\ <<>> \in Y
    BY <2>1, <2>2
  <2>4. srv' \in [st : Y, from : Y, req : Y, out : Y]
    BY <1>3, <2>3
  <2>5. QED
    BY <1>3, <2>3, <2>4 DEF SrvShape
<1>5. Shapes'
  BY <1>1, <1>2, <1>4 DEF Shapes, Leaves, TabShape
<1>6. Ids'
  BY <1>1, <1>2 DEF Ids
<1>7. Turn'
  <2>1. \A d \in Clients : cl'[d].st # "recving"
    BY <1>1, <1>2 DEF Turn, Leaves
  <2>2. QED
    BY <1>4, <2>1 DEF Turn
<1>8. Sent' /\ Handed'
  BY <1>4 DEF Sent, Handed
<1>9. Opening'
  BY <1>1 DEF Opening, Leaves
<1>10. QED
  BY <1>5, <1>6, <1>7, <1>8, <1>9 DEF ServInv

\* The tables stay as they are.
LEMMA PlainAnswer ==
  ASSUME ServInv, NEW c \in Clients, NEW op, NEW p, Replied(c, op, p),
         NEW st, NEW ph, Leaves(c, st, ph), st # "recving", ph # "open",
         UNCHANGED <<ff, fd, got>>
  PROVE  ServInv'
<1>1. Shapes /\ Ids /\ Holding
  BY DEF ServInv
<1>2. opentab' = opentab
  BY DEF Replied
<1>3. TablesKept
  BY <1>1, <1>2, NothingElse
<1>4. GotShape' /\ FfShape' /\ FdShape' /\ Holding'
  BY <1>1, <1>3, KeepTables
<1>5. QED
  BY <1>4, AnswerStep

\* The client asks again, or returns.
LEMMA AskAnswer ==
  ASSUME ServInv, NEW c \in Clients, NEW op, NEW p, Replied(c, op, p),
         NEW ph, ph # "open", NEW n, Ask(c, ph, n), UNCHANGED <<ff, fd, got>>
  PROVE  ServInv'
<1>1. Leaves(c, "send", ph)
  BY AskLeaves DEF ServInv, Shapes
<1>2. QED
  BY <1>1, PlainAnswer

\* An answer after which the call returns.
LEMMA ReturnAnswer ==
  ASSUME ServInv, NEW c \in Clients, NEW op, NEW p, Replied(c, op, p), Return(c),
         UNCHANGED <<ff, fd, got>>
  PROVE  ServInv'
<1>1. Leaves(c, "idle", "none")
  BY ReturnLeaves DEF ServInv, Shapes
<1>2. QED
  BY <1>1, PlainAnswer

\* An answer after which ftruncate() goes on.
LEMMA TruncateAnswer ==
  ASSUME ServInv, NEW c \in Clients, NEW op, NEW p, Replied(c, op, p), p # "open",
         NEW n, NEW w, truncate_ask(c, n, w), UNCHANGED <<ff, fd, got>>
  PROVE  ServInv'
<1>1. CASE Ask(c, "map", n)
  BY <1>1, AskAnswer
<1>2. CASE Return(c)
  BY <1>2, ReturnAnswer
<1>3. CASE cl' = [cl EXCEPT ![c].st = "store"]
  <2>1. Leaves(c, "store", cl[c].ph)
    BY <1>3, StateLeaves DEF ServInv, Shapes
  <2>2. cl[c].ph # "open"
    BY DEF Replied
  <2>3. QED
    BY <2>1, <2>2, PlainAnswer
<1>4. QED
  BY <1>1, <1>2, <1>3, Zenon DEF truncate_ask

\* open() maps the Fd page of an entry that was nobody's.
LEMMA OpenStep ==
  ASSUME ServInv, NEW c \in Clients, open_opened(c)
  PROVE  ServInv'
<1>1. Shapes /\ Turn /\ Opening /\ Handed /\ Holding
  BY DEF ServInv
<1>2. Replied(c, {"open"}, "open") /\ ff' = ff
  BY DEF open_opened
<1>3. CASE Reply.r < 0
  <2>1. Return(c) /\ UNCHANGED <<fd, got>>
    BY <1>3 DEF open_opened
  <2>2. QED
    BY <1>2, <2>1, ReturnAnswer
<1>4. CASE ~(Reply.r < 0)
  <2>1. PICK e : e = Reply.page.fd
    OBVIOUS
  <2>2. PICK g : g = [id |-> opentab[e].o_fileid, file |-> opentab[e].o_file]
    OBVIOUS
  <2>3. fd' = [fd EXCEPT ![c] = e] /\ got' = [got EXCEPT ![c] = g] /\ open_ask(c, e, 0)
    BY <1>4, <2>1, <2>2, Zenon DEF open_opened
  <2>4. Granted(e) /\ fd[c] = NULL
    <3>1. srv.st = "reply" /\ srv.from = c /\ cl[c].ph = "open"
      BY <1>1, <1>2 DEF Turn, Replied
    <3>2. QED
      BY <1>1, <1>4, <2>1, <3>1 DEF Handed, Opening
  <2>5. e \in Entry /\ opentab' = opentab
    BY <1>2, <2>4 DEF Granted, Replied
  <2>6. FdShape' /\ fd'[c] = e /\ \A d \in Clients \ {c} : fd'[d] = fd[d]
    BY <1>1, <2>3, <2>5 DEF Shapes, FdShape
  <2>7. GotShape' /\ got'[c] = g /\ \A d \in Clients \ {c} : got'[d] = got[d]
    <3>1. PICK X : got \in [Clients -> X]
      BY <1>1 DEF Shapes, GotShape
    <3>2. PICK Y : Y = X \cup {g}
      OBVIOUS
    <3>3. got' \in [Clients -> Y]
      BY <2>3, <3>1, <3>2
    <3>4. QED
      BY <2>3, <3>1, <3>3 DEF GotShape
  <2>8. g.id = opentab[e].o_fileid /\ g.file = opentab[e].o_file
    BY <2>2
  <2>9. Holding'
    <3> SUFFICES ASSUME NEW d \in Clients, fd'[d] # NULL PROVE Holds(d)'
      BY DEF Holding
    <3>1. CASE d = c
      <4>1. \A x \in Clients \ {c} : fd'[x] # e
        BY <2>4, <2>6 DEF Granted
      <4>2. QED
        BY <1>2, <2>4, <2>5, <2>6, <2>7, <2>8, <3>1, <4>1 DEF Holds, Granted
    <3>2. CASE d # c
      <4>1. Holds(d) /\ fd'[d] = fd[d] /\ got'[d] = got[d]
        BY <1>1, <2>6, <2>7, <3>2 DEF Holding
      <4>2. \A x \in Clients \ {d} : fd'[x] # fd'[d]
        BY <2>4, <2>6, <4>1 DEF Granted, Holds
      <4>3. QED
        BY <1>2, <2>5, <4>1, <4>2 DEF Holds
    <3>3. QED
      BY <3>1, <3>2
  <2>10. FfShape'
    BY <1>1, <1>2 DEF Shapes, FfShape
  <2>11. PICK st, ph : Leaves(c, st, ph) /\ st # "recving" /\ ph # "open"
    <3>1. CASE Ask(c, "map", 0)
      BY <1>1, <3>1, AskLeaves DEF Shapes
    <3>2. CASE Return(c)
      BY <1>1, <3>2, ReturnLeaves DEF Shapes
    <3>3. QED
      BY <2>3, <3>1, <3>2 DEF open_ask
  <2>12. QED
    BY <1>2, <2>6, <2>7, <2>9, <2>10, <2>11, AnswerStep
<1>5. QED
  BY <1>3, <1>4

\* close() ends.
LEMMA CloseStep ==
  ASSUME ServInv, NEW c \in Clients, close_closed(c)
  PROVE  ServInv'
<1>1. Shapes /\ Ids /\ Holding
  BY DEF ServInv
<1>2. /\ Replied(c, {"close"}, "close") /\ Return(c)
      /\ fd' = [fd EXCEPT ![c] = NULL] /\ UNCHANGED <<ff, got>>
  BY DEF close_closed
<1>3. opentab' = opentab
  BY <1>2 DEF Replied
<1>4. TablesKept
  BY <1>1, <1>2, <1>3, GivesUp
<1>5. GotShape' /\ FfShape' /\ FdShape' /\ Holding'
  BY <1>1, <1>4, KeepTables
<1>6. Leaves(c, "idle", "none")
  BY <1>1, <1>2, ReturnLeaves DEF Shapes
<1>7. \A d \in Clients \ {c} : fd'[d] = fd[d]
  BY <1>1, <1>2 DEF Shapes, FdShape
<1>8. QED
  BY <1>2, <1>5, <1>6, <1>7, AnswerStep

\* A client goes on with its answer.
LEMMA ProceedStep ==
  ASSUME ServInv, NEW c \in Clients, Proceed(c)
  PROVE  ServInv'
<1>1. ASSUME open_mapped(c) PROVE ServInv'
  <2>1. Replied(c, {"open"}, "map") /\ UNCHANGED <<ff, fd, got>>
    BY <1>1 DEF open_mapped
  <2>2. Return(c) \/ \E n : Ask(c, "map", n)
    BY <1>1, Zenon DEF open_mapped, open_ask
  <2>3. QED
    BY <2>1, <2>2, AskAnswer, ReturnAnswer
<1>2. ASSUME close_dirtied(c) PROVE ServInv'
  <2>1. Replied(c, {"close"}, "dirty") /\ UNCHANGED <<ff, fd, got>>
    BY <1>2 DEF close_dirtied
  <2>2. (\E n : Ask(c, "dirty", n)) \/ Ask(c, "close", 0)
    BY <1>2, Zenon DEF close_dirtied, close_ask
  <2>3. QED
    BY <2>1, <2>2, AskAnswer
<1>3. ASSUME ftruncate_set(c) PROVE ServInv'
  <2>1. Replied(c, {"ftruncate", "write"}, "set") /\ UNCHANGED <<ff, fd, got>>
    BY <1>3 DEF ftruncate_set
  <2>2. Return(c) \/ \E n, w : truncate_ask(c, n, w)
    BY <1>3, Zenon DEF ftruncate_set
  <2>3. QED
    BY <2>1, <2>2, ReturnAnswer, TruncateAnswer
<1>4. ASSUME ftruncate_mapped(c) PROVE ServInv'
  <2>1. Replied(c, {"ftruncate", "write"}, "map") /\ UNCHANGED <<ff, fd, got>>
    BY <1>4 DEF ftruncate_mapped
  <2>2. Ask(c, "undo", 0) \/ \E n, w : truncate_ask(c, n, w)
    BY <1>4, Zenon DEF ftruncate_mapped
  <2>3. QED
    BY <2>1, <2>2, AskAnswer, TruncateAnswer
<1>5. ASSUME ftruncate_undone(c) PROVE ServInv'
  <2>1. /\ Replied(c, {"ftruncate", "write"}, "undo") /\ Return(c)
        /\ UNCHANGED <<ff, fd, got>>
    BY <1>5 DEF ftruncate_undone
  <2>2. QED
    BY <2>1, ReturnAnswer
<1>6. ASSUME simple_done(c) PROVE ServInv'
  <2>1. /\ Replied(c, {"remove", "sync"}, cl[c].op) /\ Return(c)
        /\ UNCHANGED <<ff, fd, got>>
    BY <1>6 DEF simple_done
  <2>2. QED
    BY <2>1, ReturnAnswer
<1>7. QED
  BY <1>1, <1>2, <1>3, <1>4, <1>5, <1>6, SendStep, StoreStep, OpenStep, CloseStep DEF Proceed

-----------------------------------------------------------------------------
(* Steps of the server.                                                    *)

\* The server has worked on the request, and holds one reply to it.
LEMMA WorkStep ==
  ASSUME ServInv, srv.st = "work", NEW s, NEW r, NEW page, Finish(s, <<Answer(r, page)>>),
         TabShape', FfShape', Ids', Holding',
         cl[srv.from].ph = "open" /\ ~(r < 0) => Granted(page.fd)'
  PROVE  ServInv'
<1>1. Shapes /\ Turn /\ Opening
  BY DEF ServInv
<1>2. PICK a : a = Answer(r, page)
  OBVIOUS
<1>3. a.to = srv.from /\ a.r = r /\ a.page = page
  BY <1>2 DEF Answer
<1>4. srv' = [srv EXCEPT !.st = "reply", !.out = <<a>>]
  BY <1>2, Zenon DEF Finish
<1>5. UNCHANGED <<cl, fd, got>>
  BY DEF Finish
<1>6. SrvShape' /\ srv'.st = "reply" /\ srv'.from = srv.from /\ srv'.out = <<a>>
  <2>1. PICK X : srv \in [st : X, from : X, req : X, out : X]
    BY <1>1 DEF Shapes, SrvShape
  <2>2. PICK Y : Y = X \cup {"reply", <<a>>}
    OBVIOUS
  <2>3. srv \in [st : Y, from : Y, req : Y, out : Y] /\ "reply" \in Y /\ <<a>> \in Y
    BY <2>1, <2>2
  <2>4. srv' \in [st : Y, from : Y, req : Y, out : Y]
    BY <1>4, <2>3
  <2>5. QED
    BY <1>4, <2>3, <2>4 DEF SrvShape
<1>7. Len(srv'.out) = 1 /\ Reply' = a
  <2>1. Len(<<a>>) = 1 /\ Head(<<a>>) = a
    OBVIOUS
  <2>2. QED
    BY <1>6, <2>1 DEF Reply
<1>8. Shapes'
  BY <1>1, <1>5, <1>6 DEF Shapes, ClShape, FdShape, GotShape
<1>9. Turn'
  BY <1>1, <1>3, <1>5, <1>6, <1>7 DEF Turn
<1>10. Sent' /\ Opening'
  BY <1>1, <1>5, <1>6 DEF Sent, Opening
<1>11. Handed'
  <2> SUFFICES ASSUME srv'.st = "reply", cl'[srv'.from].ph = "open", ~(Reply'.r < 0)
               PROVE  Granted(Reply.page.fd)'
    BY DEF Handed
  <2>1. cl[srv.from].ph = "open" /\ ~(r < 0)
    BY <1>3, <1>5, <1>6, <1>7
  <2>2. PICK e : e = page.fd
    OBVIOUS
  <2>3. Granted(e)'
    BY <2>1, <2>2 DEF Granted
  <2>4. Reply'.page.fd = e
    BY <1>3, <1>7, <2>2
  <2>5. QED
    BY <2>3, <2>4 DEF Granted
<1>12. QED
  BY <1>8, <1>9, <1>10, <1>11 DEF ServInv

\* The requests other than open leave the open table alone.
LEMMA PlainWork ==
  ASSUME ServInv, NEW t, t # "open", Working(t), UNCHANGED <<opentab, ff>>,
         NEW s, NEW r, NEW page, Finish(s, <<Answer(r, page)>>)
  PROVE  ServInv'
<1>1. Shapes /\ Ids /\ Holding /\ Sent
  BY DEF ServInv
<1>2. srv.st = "work" /\ cl[srv.from].ph # "open"
  BY <1>1 DEF Working, Sent
<1>3. UNCHANGED <<fd, got>>
  BY DEF Finish
<1>4. TabShape' /\ FfShape' /\ Ids' /\ Holding'
  BY <1>1, <1>3, NothingElse, KeepTables
<1>5. QED
  BY <1>2, <1>4, WorkStep

\* The server has served a request of an open file.
LEMMA OpenedWork ==
  ASSUME ServInv, NEW t, t # "open", Working(t), UNCHANGED <<opentab, ff>>,
         NEW s, NEW r, NEW page, FinishOpened(s, r, page)
  PROVE  ServInv'
<1>1. Finish(fs, <<Answer(E_INVAL, NULL)>>) \/ Finish(s, <<Answer(r, page)>>)
  BY Zenon DEF FinishOpened
<1>2. QED
  BY <1>1, PlainWork

(***************************************************************************)
(* serve_open(): the entry is nobody's, so what the clients hold stays,    *)
(* and it gets an id no other entry has.                                   *)
(***************************************************************************)
LEMMA TakeEntry ==
  ASSUME ServInv, NEW e \in Entry, \A d \in Clients : fd[d] # e, UNCHANGED <<fd, got>>,
         \A x \in Entry \ {e} : opentab'[x] = opentab[x] /\ ff'[x] = ff[x],
         opentab'[e].o_fileid = opentab[e].o_fileid + MAXOPEN
  PROVE  Ids' /\ Holding'
<1>1. Shapes /\ Ids /\ Holding
  BY DEF ServInv
<1>2. Ids'
  <2> SUFFICES ASSUME NEW x \in Entry PROVE opentab'[x].o_fileid % MAXOPEN = x
    BY DEF Ids
  <2>1. CASE x = e
    <3>1. PICK i \in Nat : i = opentab[e].o_fileid
      BY <1>1 DEF Shapes, TabShape
    <3>2. i % MAXOPEN = e
      BY <1>1, <3>1 DEF Ids
    <3>3. (i + MAXOPEN) % MAXOPEN = i % MAXOPEN
      BY TableSizes, NextId
    <3>4. opentab'[x].o_fileid = i + MAXOPEN
      BY <2>1, <3>1
    <3>5. QED
      BY <2>1, <3>2, <3>3, <3>4
  <2>2. CASE x # e
    BY <1>1, <2>2 DEF Ids
  <2>3. QED
    BY <2>1, <2>2
<1>3. Holding'
  <2> SUFFICES ASSUME NEW d \in Clients, fd'[d] # NULL PROVE Holds(d)'
    BY DEF Holding
  <2>1. Holds(d)
    BY <1>1 DEF Holding
  <2>2. fd[d] \in Entry \ {e}
    BY <2>1 DEF Holds
  <2>3. opentab'[fd[d]] = opentab[fd[d]] /\ ff'[fd[d]] = ff[fd[d]]
    BY <2>2
  <2>4. QED
    BY <2>1, <2>3 DEF Holds
<1>4. QED
  BY <1>2, <1>3

\* The Fd page of an entry is written.
LEMMA WritePage ==
  ASSUME Shapes, NEW e \in Entry, NEW id, NEW size,
         ff' = [ff EXCEPT ![e] = [f_fileid |-> id, f_size |-> size]]
  PROVE  /\ FfShape' /\ ff'[e].f_fileid = id
         /\ \A x \in Entry \ {e} : ff'[x] = ff[x]
<1>1. PICK W : ff \in [Entry -> [f_fileid : W, f_size : W]]
  BY DEF Shapes, FfShape
<1>2. PICK Z : Z = W \cup {id, size}
  OBVIOUS
<1>3. ff \in [Entry -> [f_fileid : Z, f_size : Z]] /\ id \in Z /\ size \in Z
  BY <1>1, <1>2
<1>4. ff' \in [Entry -> [f_fileid : Z, f_size : Z]]
  BY <1>3
<1>5. QED
  BY <1>3, <1>4 DEF FfShape

TabSet(X) == [o_file : X, dir : X, o_fileid : Nat, used : BOOLEAN]

\* serve_open gives an entry that nobody maps, unless open_alloc fails.
LEMMA OpenWork ==
  ASSUME ServInv, serve_open
  PROVE  refused' \/ ServInv'
<1>1. SUFFICES ASSUME ~refused' PROVE ServInv'
  OBVIOUS
<1>2. Shapes /\ Turn /\ Sent /\ Opening /\ Holding
  BY DEF ServInv
<1>3. srv.st = "work" /\ srv.from \in Clients /\ fd[srv.from] = NULL
  <2>1. srv.st = "work" /\ srv.req.t = "open"
    BY DEF serve_open, Working
  <2>2. QED
    BY <1>2, <2>1 DEF Turn, Sent, Opening
<1>4. PICK e \in Entry : e = open_alloc /\ \A d \in Clients : fd[d] # e
  <2>1. open_alloc # NULL
    BY <1>1, Zenon DEF serve_open
  <2>2. QED
    BY <1>2, <2>1, AllocFinds DEF Shapes
<1>5. e # NULL
  BY EntryIs
<1>6. PICK w : w = file_open(fs, srv.req.path)
  OBVIOUS
<1>7. PICK X : opentab \in [Entry -> TabSet(X)]
  BY <1>2 DEF Shapes, TabShape, TabSet
<1>8. PICK taken : taken = [opentab EXCEPT ![e].o_fileid = @ + MAXOPEN, ![e].used = TRUE]
  OBVIOUS
<1>9. /\ taken \in [Entry -> TabSet(X)]
      /\ taken[e].o_fileid = opentab[e].o_fileid + MAXOPEN /\ taken[e].used
      /\ \A x \in Entry \ {e} : taken[x] = opentab[x]
  <2>1. PICK i \in Nat : i = opentab[e].o_fileid + MAXOPEN
    BY <1>7, TableSizes DEF TabSet
  <2>2. PICK tab : tab = [opentab EXCEPT ![e].o_fileid = i]
    OBVIOUS
  <2>3. taken = [tab EXCEPT ![e].used = TRUE]
    BY <1>8, <2>1, <2>2, Zenon
  <2>4. /\ tab \in [Entry -> TabSet(X)] /\ tab[e].o_fileid = i
        /\ \A x \in Entry \ {e} : tab[x] = opentab[x]
    BY <1>7, <2>1, <2>2 DEF TabSet
  <2>5. /\ taken \in [Entry -> TabSet(X)] /\ taken[e].o_fileid = i /\ taken[e].used
        /\ \A x \in Entry \ {e} : taken[x] = tab[x]
    BY <2>3, <2>4 DEF TabSet
  <2>6. QED
    BY <2>1, <2>4, <2>5
<1>10. \/ /\ w.r < 0
         /\ Finish(w.s, <<Answer(w.r, NULL)>>)
         /\ opentab' = taken
         /\ ff' = [ff EXCEPT ![e] = [f_fileid |-> 0, f_size |-> 0]]
      \/ /\ w.r >= 0
         /\ Finish(w.s, <<Answer(0, [fd |-> e])>>)
         /\ opentab' = [taken EXCEPT ![e].o_file = w.file, ![e].dir = w.dir]
         /\ ff' = [ff EXCEPT ![e] = [f_fileid |-> taken[e].o_fileid,
                                     f_size |-> File(w.s, w.file).f_size]]
  BY <1>1, <1>4, <1>5, <1>6, <1>8, Zenon DEF serve_open
<1>11. CASE /\ w.r < 0
            /\ Finish(w.s, <<Answer(w.r, NULL)>>)
            /\ opentab' = taken
            /\ ff' = [ff EXCEPT ![e] = [f_fileid |-> 0, f_size |-> 0]]
  <2>1. UNCHANGED <<fd, got>>
    BY <1>11 DEF Finish
  <2>2. TabShape'
    BY <1>9, <1>11 DEF TabShape, TabSet
  <2>3. FfShape' /\ \A x \in Entry \ {e} : ff'[x] = ff[x]
    BY <1>2, <1>11, WritePage
  <2>4. Ids' /\ Holding'
    BY <1>4, <1>9, <1>11, <2>1, <2>3, TakeEntry
  <2>5. QED
    BY <1>3, <1>11, <2>2, <2>3, <2>4, WorkStep
<1>12. CASE /\ w.r >= 0
            /\ Finish(w.s, <<Answer(0, [fd |-> e])>>)
            /\ opentab' = [taken EXCEPT ![e].o_file = w.file, ![e].dir = w.dir]
            /\ ff' = [ff EXCEPT ![e] = [f_fileid |-> taken[e].o_fileid,
                                        f_size |-> File(w.s, w.file).f_size]]
  <2>1. UNCHANGED <<fd, got>>
    BY <1>12 DEF Finish
  <2>2. PICK Y : Y = X \cup {w.file, w.dir}
    OBVIOUS
  <2>3. taken \in [Entry -> TabSet(Y)] /\ w.file \in Y /\ w.dir \in Y
    BY <1>9, <2>2 DEF TabSet
  <2>4. /\ opentab' \in [Entry -> TabSet(Y)]
        /\ opentab'[e].o_fileid = taken[e].o_fileid /\ opentab'[e].used
        /\ \A x \in Entry \ {e} : opentab'[x] = opentab[x]
    BY <1>9, <1>12, <2>3 DEF TabSet
  <2>5. TabShape'
    BY <2>4 DEF TabShape, TabSet
  <2>6. /\ FfShape' /\ ff'[e].f_fileid = taken[e].o_fileid
        /\ \A x \in Entry \ {e} : ff'[x] = ff[x]
    BY <1>2, <1>12, WritePage
  <2>7. Ids' /\ Holding'
    BY <1>4, <1>9, <2>1, <2>4, <2>6, TakeEntry
  <2>8. Granted(e)'
    BY <1>4, <2>1, <2>4, <2>6 DEF Granted
  <2>9. PICK page : page = [fd |-> e]
    OBVIOUS
  <2>10. page.fd = e /\ Finish(w.s, <<Answer(0, page)>>)
    BY <1>12, <2>9
  <2>11. Granted(page.fd)'
    BY <2>8, <2>10 DEF Granted
  <2>12. QED
    BY <1>3, <2>5, <2>6, <2>7, <2>10, <2>11, WorkStep
<1>13. QED
  BY <1>10, <1>11, <1>12

\* One step per request.
LEMMA ServeStep ==
  ASSUME ServInv, Serve
  PROVE  refused' \/ ServInv'
<1>1. ASSUME serve_map PROVE ServInv'
  <2>1. Working("map") /\ UNCHANGED <<opentab, ff>>
    BY <1>1 DEF serve_map
  <2>2. \E s, r, page : FinishOpened(s, r, page)
    BY <1>1, Zenon DEF serve_map
  <2>3. QED
    BY <2>1, <2>2, OpenedWork
<1>2. ASSUME serve_set_size PROVE ServInv'
  <2>1. Working("set") /\ UNCHANGED <<opentab, ff>>
    BY <1>2 DEF serve_set_size
  <2>2. \E s, r, page : FinishOpened(s, r, page)
    BY <1>2, Zenon DEF serve_set_size
  <2>3. QED
    BY <2>1, <2>2, OpenedWork
<1>3. ASSUME serve_close PROVE ServInv'
  <2>1. Working("close") /\ UNCHANGED <<opentab, ff>>
    BY <1>3 DEF serve_close
  <2>2. \E s, r, page : FinishOpened(s, r, page)
    BY <1>3, Zenon DEF serve_close
  <2>3. QED
    BY <2>1, <2>2, OpenedWork
<1>4. ASSUME serve_dirty PROVE ServInv'
  <2>1. Working("dirty") /\ UNCHANGED <<opentab, ff>>
    BY <1>4 DEF serve_dirty
  <2>2. \E s, r, page : FinishOpened(s, r, page)
    BY <1>4, Zenon DEF serve_dirty
  <2>3. QED
    BY <2>1, <2>2, OpenedWork
<1>5. ASSUME serve_remove PROVE ServInv'
  <2>1. Working("remove") /\ UNCHANGED <<opentab, ff>>
    BY <1>5 DEF serve_remove
  <2>2. \E s, r, page : Finish(s, <<Answer(r, page)>>)
    BY <1>5, Zenon DEF serve_remove
  <2>3. QED
    BY <2>1, <2>2, PlainWork
<1>6. ASSUME serve_sync PROVE ServInv'
  <2>1. Working("sync") /\ UNCHANGED <<opentab, ff>>
    BY <1>6 DEF serve_sync
  <2>2. \E s, r, page : Finish(s, <<Answer(r, page)>>)
    BY <1>6, Zenon DEF serve_sync
  <2>3. QED
    BY <2>1, <2>2, PlainWork
<1>7. QED
  BY <1>1, <1>2, <1>3, <1>4, <1>5, <1>6, OpenWork DEF Serve

-----------------------------------------------------------------------------
(* The invariant.                                                          *)

\* At the start nobody waits and every entry is free.
LEMMA InitServ == Init => ServInv
<1> SUFFICES ASSUME Init PROVE ServInv
  OBVIOUS
<1>1. /\ opentab = [e \in Entry |-> [o_file |-> NULL, dir |-> NULL, o_fileid |-> e, used |-> FALSE]]
      /\ ff = [e \in Entry |-> [f_fileid |-> 0, f_size |-> 0]]
      /\ srv = [st |-> "recv", from |-> NULL, req |-> NULL, out |-> <<>>]
      /\ cl = [c \in Clients |-> Idle]
      /\ fd = [c \in Clients |-> NULL] /\ got = [c \in Clients |-> NULL]
  BY DEF Init, serve_init
<1>2. SrvShape
  <2>1. srv \in [st : {"recv", NULL, <<>>}, from : {"recv", NULL, <<>>},
                 req : {"recv", NULL, <<>>}, out : {"recv", NULL, <<>>}]
    BY <1>1
  <2>2. QED
    BY <2>1 DEF SrvShape
<1>3. TabShape
  <2>1. opentab \in [Entry -> [o_file : {NULL}, dir : {NULL}, o_fileid : Nat, used : BOOLEAN]]
    BY <1>1, EntryIs
  <2>2. QED
    BY <2>1 DEF TabShape
<1>4. FfShape
  <2>1. ff \in [Entry -> [f_fileid : {0}, f_size : {0}]]
    BY <1>1
  <2>2. QED
    BY <2>1 DEF FfShape
<1>5. ClShape /\ \A c \in Clients : cl[c].st = "idle" /\ cl[c].ph = "none"
  <2>1. PICK Z : Idle \in CallSet(Z)
    BY IdleIs
  <2>2. cl \in [Clients -> CallSet(Z)]
    BY <1>1, <2>1
  <2>3. QED
    BY <1>1, <2>2, IdleIs DEF ClShape, CallSet
<1>6. FdShape /\ GotShape /\ \A c \in Clients : fd[c] = NULL
  <2>1. got \in [Clients -> {NULL}]
    BY <1>1
  <2>2. QED
    BY <1>1, <2>1 DEF FdShape, GotShape
<1>7. Ids
  <2> SUFFICES ASSUME NEW e \in Entry PROVE e % MAXOPEN = e
    BY <1>1 DEF Ids
  <2>1. PICK q \in Int, r \in 0 .. MAXOPEN - 1 : e = MAXOPEN * q + r /\ r = e % MAXOPEN
    <3>1. /\ e = MAXOPEN * (e \div MAXOPEN) + (e % MAXOPEN)
          /\ e \div MAXOPEN \in Int /\ e % MAXOPEN \in 0 .. MAXOPEN - 1
      BY TableSizes DEF Entry
    <3>2. QED
      BY <3>1
  <2>2. e \in 0 .. MAXOPEN - 1 /\ MAXOPEN \in Nat
    BY TableSizes DEF Entry
  <2>3. CASE q <= -1
    <3>1. MAXOPEN * q <= -MAXOPEN
      BY <2>2, <2>3
    <3>2. QED
      BY <2>1, <2>2, <3>1
  <2>4. CASE q >= 1
    <3>1. MAXOPEN * q >= MAXOPEN
      BY <2>2, <2>4
    <3>2. QED
      BY <2>1, <2>2, <3>1
  <2>5. CASE q = 0
    BY <2>1, <2>2, <2>5
  <2>6. QED
    BY <2>3, <2>4, <2>5
<1>8. Turn /\ Sent /\ Handed
  BY <1>1, <1>5 DEF Turn, Sent, Handed
<1>9. Opening /\ Holding
  BY <1>6 DEF Opening, Holding
<1>10. QED
  BY <1>2, <1>3, <1>4, <1>5, <1>6, <1>7, <1>8, <1>9 DEF ServInv, Shapes

\* A step that changes nothing.
LEMMA ServUnchanged ==
  ASSUME ServInv, UNCHANGED vars
  PROVE  ServInv'
<1>1. UNCHANGED <<opentab, ff, srv, cl, fd, got>>
  BY DEF vars
<1>2. Shapes' /\ Ids'
  BY <1>1 DEF ServInv, Shapes, SrvShape, TabShape, FfShape, ClShape, FdShape, GotShape, Ids
<1>3. Turn' /\ Sent' /\ Opening'
  BY <1>1 DEF ServInv, Turn, Sent, Opening, Reply
<1>4. Handed' /\ Holding'
  BY <1>1 DEF ServInv, Handed, Granted, Holding, Holds, Reply
<1>5. QED
  BY <1>2, <1>3, <1>4 DEF ServInv

\* A refusal is not forgotten.
LEMMA RefusalStays ==
  ASSUME refused, [Next]_vars
  PROVE  refused'
<1>1. ASSUME Serve PROVE refused'
  <2>1. UNCHANGED refused \/ refused' = TRUE
    BY <1>1, Zenon DEF Serve, serve_open, serve_map, serve_set_size, serve_close, serve_dirty, serve_remove, serve_sync
  <2>2. QED
    BY <2>1, Zenon
<1>2. ASSUME NEW c \in Clients, Proceed(c) PROVE refused'
  <2>1. UNCHANGED refused
    BY <1>2, Zenon DEF Proceed, fsipc, file_write_store, open_opened, open_mapped, close_dirtied, close_closed,
       ftruncate_set, ftruncate_mapped, ftruncate_undone, simple_done, Replied
  <2>2. QED
    BY <2>1, Zenon
<1>3. ASSUME NEW c \in Clients, Call(c) PROVE FALSE
  BY <1>3, Zenon DEF Call, open, remove, ftruncate, file_write, close, sync, die, Resize, Begin
<1>4. ASSUME UNCHANGED vars PROVE refused'
  BY <1>4, Zenon DEF vars
<1>5. QED
  BY <1>1, <1>2, <1>3, <1>4, Zenon DEF Next, Rest

\* Every step keeps ServInv, until an open() is refused.
LEMMA ServStep ==
  ASSUME ServInv, [Next]_vars
  PROVE  refused' \/ ServInv'
<1>1. CASE Serve
  BY <1>1, ServeStep
<1>2. ASSUME NEW c \in Clients, Proceed(c) \/ Call(c) PROVE ServInv'
  BY <1>2, ProceedStep, CallStep
<1>3. CASE UNCHANGED vars
  BY <1>3, ServUnchanged
<1>4. QED
  BY <1>1, <1>2, <1>3 DEF Next, Rest

\* So it always holds, until then.
LEMMA ServAlways == Spec => [](refused \/ ServInv)
<1>1. Init => refused \/ ServInv
  BY InitServ
<1>2. (refused \/ ServInv) /\ [Next]_vars => (refused \/ ServInv)'
  BY ServStep, RefusalStays
<1>3. QED
  BY <1>1, <1>2, PTL DEF Spec

(***************************************************************************)
(* Until open_alloc() fails, for want of an entry or of memory, every      *)
(* reply of the server goes to the one client that waits for it: no        *)
(* request is answered twice, and no client waits while the server         *)
(* receives.  For any number of clients and of entries.                    *)
(***************************************************************************)
THEOREM RepliesAreExpected == Spec => []ReplyExpected
<1>1. ServInv => ReplyExpected
  <2> SUFFICES ASSUME Turn PROVE ReplyExpected
    BY DEF ServInv
  <2>1. Len(srv.out) <= 1
    <3>1. srv.out = <<>> \/ Len(srv.out) = 1
      BY DEF Turn
    <3>2. PICK n \in {0, 1} : n = Len(srv.out)
      <4>1. Len(<<>>) = 0
        OBVIOUS
      <4>2. QED
        BY <3>1, <4>1, Zenon
    <3>3. n <= 1
      OBVIOUS
    <3>4. QED
      BY <3>2, <3>3, Zenon
  <2>2. QED
    BY <2>1 DEF Turn, ReplyExpected, OneAnswer
<1>2. refused => ReplyExpected
  BY Zenon DEF ReplyExpected
<1>3. QED
  BY <1>1, <1>2, ServAlways, PTL

(***************************************************************************)
(* Until open_alloc() fails, a descriptor goes on naming the open file its *)
(* open() got: serve_open() never hands out an entry a client maps, and    *)
(* open_lookup() accepts every client's id.                                *)
(***************************************************************************)
THEOREM EntriesAreExclusive == Spec => []EntryExclusive
<1>1. ServInv => EntryExclusive
  <2> SUFFICES ASSUME ServInv, NEW c \in Clients, fd[c] # NULL
               PROVE  /\ ff[fd[c]].f_fileid = got[c].id
                      /\ opentab[fd[c]].o_file = got[c].file
                      /\ open_lookup(got[c].id) = fd[c]
                      /\ \A d \in Clients \ {c} : fd[d] # fd[c]
    BY DEF EntryExclusive
  <2>1. Holds(c) /\ Ids
    BY DEF ServInv, Holding
  <2>2. PICK e \in Entry : e = fd[c] /\ opentab[e].used /\ opentab[e].o_fileid = got[c].id
    BY <2>1 DEF Holds
  <2>3. got[c].id % MAXOPEN = e
    BY <2>1, <2>2 DEF Ids
  <2>4. pageref(e) # 1
    BY <2>2, Mapped
  <2>5. open_lookup(got[c].id) = e
    BY <2>2, <2>3, <2>4 DEF open_lookup
  <2>6. QED
    BY <2>1, <2>2, <2>5 DEF Holds
<1>2. refused => EntryExclusive
  BY Zenon DEF EntryExclusive
<1>3. QED
  BY <1>1, <1>2, ServAlways, PTL
=============================================================================
