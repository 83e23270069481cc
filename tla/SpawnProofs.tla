----------------------------- MODULE SpawnProofs ----------------------------
(***************************************************************************)
(* Proofs about loading a program: a spawn that fails leaves nothing, one  *)
(* that succeeds has built what the program headers and the arguments say, *)
(* for every program and every argument vector.                            *)
(***************************************************************************)
EXTENDS Spawn, SequenceTheorems, WellFoundedInduction, TLAPS

-----------------------------------------------------------------------------
(* Numbers.                                                                *)

LEMMA Sizes ==
  /\ BY2PG \in Nat /\ BY2PG % 4 = 0 /\ BY2PG > 12
  /\ Argvs \subseteq Seq(Nat) /\ Library \subseteq Nat /\ NULL \notin Int
BY SpawnAssumption

Below == {p \in Nat \X Nat : p[1] < p[2]}

(***************************************************************************)
(* Every nonempty set of natural numbers has a least element.              *)
(***************************************************************************)
LEMMA LeastNat ==
  ASSUME NEW S, S \subseteq Nat, S # {}
  PROVE  \E x \in S : \A y \in S : x <= y
<1>1. IsWellFoundedOn(Below, Nat)
  BY NatLessThanWellFounded, Zenon DEF OpToRel, Below
<1>2. PICK x \in S : \A y \in S : ~(<<y, x>> \in Below)
  BY <1>1, WFMin
<1>3. ASSUME NEW y \in S PROVE x <= y
  <2>1. ~(<<y, x>> \in Below) /\ x \in Nat /\ y \in Nat
    BY <1>2
  <2>2. ~(y < x)
    BY <2>1 DEF Below
  <2>3. QED
    BY <2>1, <2>2
<1>4. QED
  BY <1>2, <1>3

(***************************************************************************)
(* Induction up to N, for what a set B says.                               *)
(***************************************************************************)
LEMMA Upward ==
  ASSUME NEW N \in Nat, NEW B, 0 \in B, \A n \in 1 .. N : n - 1 \in B => n \in B
  PROVE  0 .. N \subseteq B
<1> DEFINE C == {n \in 0 .. N : n \notin B}
<1> SUFFICES ASSUME C # {} PROVE FALSE
  OBVIOUS
<1>1. C \subseteq Nat
  OBVIOUS
<1>2. PICK n \in C : \A y \in C : n <= y
  BY <1>1, LeastNat
<1>3. n \in 1 .. N
  BY <1>2
<1>4. n - 1 \in 0 .. N /\ n - 1 \notin C
  BY <1>2, <1>3
<1>5. n - 1 \in B
  BY <1>4
<1>6. QED
  BY <1>2, <1>3, <1>5

(***************************************************************************)
(* A function defined by recursion on 0 .. N exists: G[n] takes the value  *)
(* before n to the value at n.                                             *)
(***************************************************************************)
Recursive(h, N, S, a, G) ==
  h \in [0 .. N -> S] /\ h[0] = a /\ \A n \in 1 .. N : h[n] = G[n][h[n - 1]]

LEMMA Recursion ==
  ASSUME NEW N \in Nat, NEW S, NEW a \in S, NEW G \in [1 .. N -> [S -> S]]
  PROVE  \E h : Recursive(h, N, S, a, G)
<1> DEFINE B == {m \in 0 .. N : \E h \in [0 .. m -> S] :
                    h[0] = a /\ \A n \in 1 .. m : h[n] = G[n][h[n - 1]]}
<1>1. 0 \in B
  <2>1. PICK h : h = [n \in 0 .. 0 |-> a]
    OBVIOUS
  <2>2. h \in [0 .. 0 -> S] /\ h[0] = a /\ 0 \in 0 .. N
    BY <2>1
  <2>3. \A n \in 1 .. 0 : h[n] = G[n][h[n - 1]]
    OBVIOUS
  <2>4. QED
    BY <2>2, <2>3
<1>2. ASSUME NEW m \in 1 .. N, m - 1 \in B PROVE m \in B
  <2>1. PICK h \in [0 .. m - 1 -> S] :
          h[0] = a /\ \A n \in 1 .. m - 1 : h[n] = G[n][h[n - 1]]
    BY <1>2
  <2>2. h[m - 1] \in S
    OBVIOUS
  <2>3. PICK v \in S : v = G[m][h[m - 1]]
    BY <2>2
  <2>4. PICK g : g = [n \in 0 .. m |-> IF n = m THEN v ELSE h[n]]
    OBVIOUS
  <2>5. g \in [0 .. m -> S]
    BY <2>4
  <2>6. g[0] = a
    BY <2>1, <2>4
  <2>7. ASSUME NEW n \in 1 .. m PROVE g[n] = G[n][g[n - 1]]
    <3>1. n - 1 \in 0 .. m - 1 /\ g[n - 1] = h[n - 1]
      BY <2>4
    <3>2. CASE n = m
      <4>1. g[m] = v /\ g[m - 1] = h[m - 1]
        BY <2>4, <3>1, <3>2
      <4>2. QED
        BY <2>3, <3>2, <4>1, Zenon
    <3>3. CASE n # m
      <4>1. n \in 1 .. m - 1
        BY <3>3
      <4>2. g[n] = h[n] /\ h[n] = G[n][h[n - 1]]
        BY <2>1, <2>4, <4>1
      <4>3. QED
        BY <3>1, <4>2
    <3>4. QED
      BY <3>2, <3>3
  <2>8. QED
    BY <2>5, <2>6, <2>7
<1>3. N \in B
  <2>1. 0 .. N \subseteq B
    BY <1>1, <1>2, Upward
  <2>2. QED
    BY <2>1
<1>4. ASSUME NEW m \in B, m = N
      PROVE  \E h : Recursive(h, N, S, a, G)
  <2>1. PICK h \in [0 .. m -> S] : h[0] = a /\ \A n \in 1 .. m : h[n] = G[n][h[n - 1]]
    BY <1>4, Zenon
  <2>2. h \in [0 .. N -> S] /\ h[0] = a /\ \A n \in 1 .. N : h[n] = G[n][h[n - 1]]
    BY <1>4, <2>1, Zenon
  <2>3. QED
    BY <2>2, Zenon DEF Recursive
<1>5. QED
  <2> HIDE DEF B
  <2>1. QED
    BY <1>3, <1>4, Zenon

-----------------------------------------------------------------------------
(* The control of spawn(): what it holds at each of its calls.             *)

Loading  == {"phdr", "alloc", "map", "copy", "close"}
Opened   == {"header", "exofork", "stack_alloc", "stack_map", "err1", "err"} \cup Loading
Childless == {"open", "boot", "header", "exofork", "err", "failed", "halted"}
Starting == {"trapframe", "share", "status", "err2"}
Label    == Opened \cup Childless \cup Starting \cup {"started"}

Shaped(c) == \E X : c \in [status : X, mem : X, stack : X, sp : X, sepc : X, lib : X]

Control ==
  /\ prog \in Programs /\ argv \in Argvs
  /\ pc \in Label /\ Shaped(child)
  /\ fd \in BOOLEAN /\ (pc # "halted" => (fd <=> pc \in Opened))
  /\ pc \in Childless => child = NoChild
  /\ pc \notin Childless => child.status = IF pc = "started" THEN "runnable" ELSE "not_runnable"
  /\ pc \notin {"stack_map", "copy"} => utemp = NULL
  /\ pc = "stack_map" => utemp = StackPage
  /\ runlist # "sound" => pc \in {"err", "failed", "halted"}

LEMMA NewChildIs ==
  NewChild = [status |-> "not_runnable", mem |-> NoMem, stack |-> NoStack, sp |-> 0,
              sepc |-> "parent", lib |-> {}]
<1>1. PICK m, s : m = NoMem /\ s = NoStack
  OBVIOUS
<1>2. PICK r : r = [[[status |-> "none", mem |-> m, stack |-> s, sp |-> 0, sepc |-> "none",
                      lib |-> {}] EXCEPT !.status = "not_runnable"] EXCEPT !.sepc = "parent"]
  OBVIOUS
<1>3. r \in [status : {"not_runnable"}, mem : {m}, stack : {s}, sp : {0}, sepc : {"parent"}, lib : {{}}]
  BY <1>2
<1>4. r = [status |-> "not_runnable", mem |-> m, stack |-> s, sp |-> 0, sepc |-> "parent", lib |-> {}]
  BY <1>3
<1>5. QED
  BY <1>1, <1>2, <1>4, Zenon DEF NoChild, NewChild

(***************************************************************************)
(* A child as constructed, and the updates of a child.                     *)
(***************************************************************************)
LEMMA Constructed ==
  ASSUME NEW t, NEW m, NEW s, NEW p, NEW e, NEW l, NEW c,
         c = [status |-> t, mem |-> m, stack |-> s, sp |-> p, sepc |-> e, lib |-> l]
  PROVE  /\ Shaped(c) /\ c.status = t /\ c.mem = m /\ c.stack = s /\ c.sp = p /\ c.sepc = e
         /\ c.lib = l
<1>1. PICK X : X = {t, m, s, p, e, l}
  OBVIOUS
<1>2. c \in [status : X, mem : X, stack : X, sp : X, sepc : X, lib : X]
  BY <1>1
<1>3. QED
  BY <1>2 DEF Shaped

LEMMA UpdStatus ==
  ASSUME NEW c, Shaped(c), NEW v, NEW d, d = [c EXCEPT !.status = v]
  PROVE  /\ Shaped(d) /\ d.status = v /\ d.mem = c.mem /\ d.stack = c.stack /\ d.sp = c.sp
         /\ d.sepc = c.sepc /\ d.lib = c.lib
<1>1. PICK X : c \in [status : X, mem : X, stack : X, sp : X, sepc : X, lib : X]
  BY DEF Shaped
<1>2. PICK Y : Y = X \cup {v}
  OBVIOUS
<1>3. d \in [status : Y, mem : Y, stack : Y, sp : Y, sepc : Y, lib : Y]
  BY <1>1, <1>2
<1>4. QED
  BY <1>1, <1>3 DEF Shaped

LEMMA UpdMem ==
  ASSUME NEW c, Shaped(c), NEW v, NEW d, d = [c EXCEPT !.mem = v]
  PROVE  /\ Shaped(d) /\ d.status = c.status /\ d.mem = v /\ d.stack = c.stack /\ d.sp = c.sp
         /\ d.sepc = c.sepc /\ d.lib = c.lib
<1>1. PICK X : c \in [status : X, mem : X, stack : X, sp : X, sepc : X, lib : X]
  BY DEF Shaped
<1>2. PICK Y : Y = X \cup {v}
  OBVIOUS
<1>3. d \in [status : Y, mem : Y, stack : Y, sp : Y, sepc : Y, lib : Y]
  BY <1>1, <1>2
<1>4. QED
  BY <1>1, <1>3 DEF Shaped

LEMMA UpdStack ==
  ASSUME NEW c, Shaped(c), NEW v, NEW d, d = [c EXCEPT !.stack = v]
  PROVE  /\ Shaped(d) /\ d.status = c.status /\ d.mem = c.mem /\ d.stack = v /\ d.sp = c.sp
         /\ d.sepc = c.sepc /\ d.lib = c.lib
<1>1. PICK X : c \in [status : X, mem : X, stack : X, sp : X, sepc : X, lib : X]
  BY DEF Shaped
<1>2. PICK Y : Y = X \cup {v}
  OBVIOUS
<1>3. d \in [status : Y, mem : Y, stack : Y, sp : Y, sepc : Y, lib : Y]
  BY <1>1, <1>2
<1>4. QED
  BY <1>1, <1>3 DEF Shaped

LEMMA UpdSp ==
  ASSUME NEW c, Shaped(c), NEW v, NEW d, d = [c EXCEPT !.sp = v]
  PROVE  /\ Shaped(d) /\ d.status = c.status /\ d.mem = c.mem /\ d.stack = c.stack /\ d.sp = v
         /\ d.sepc = c.sepc /\ d.lib = c.lib
<1>1. PICK X : c \in [status : X, mem : X, stack : X, sp : X, sepc : X, lib : X]
  BY DEF Shaped
<1>2. PICK Y : Y = X \cup {v}
  OBVIOUS
<1>3. d \in [status : Y, mem : Y, stack : Y, sp : Y, sepc : Y, lib : Y]
  BY <1>1, <1>2
<1>4. QED
  BY <1>1, <1>3 DEF Shaped

LEMMA UpdSepc ==
  ASSUME NEW c, Shaped(c), NEW v, NEW d, d = [c EXCEPT !.sepc = v]
  PROVE  /\ Shaped(d) /\ d.status = c.status /\ d.mem = c.mem /\ d.stack = c.stack /\ d.sp = c.sp
         /\ d.sepc = v /\ d.lib = c.lib
<1>1. PICK X : c \in [status : X, mem : X, stack : X, sp : X, sepc : X, lib : X]
  BY DEF Shaped
<1>2. PICK Y : Y = X \cup {v}
  OBVIOUS
<1>3. d \in [status : Y, mem : Y, stack : Y, sp : Y, sepc : Y, lib : Y]
  BY <1>1, <1>2
<1>4. QED
  BY <1>1, <1>3 DEF Shaped

LEMMA UpdLib ==
  ASSUME NEW c, Shaped(c), NEW v, NEW d, d = [c EXCEPT !.lib = v]
  PROVE  /\ Shaped(d) /\ d.status = c.status /\ d.mem = c.mem /\ d.stack = c.stack /\ d.sp = c.sp
         /\ d.sepc = c.sepc /\ d.lib = v
<1>1. PICK X : c \in [status : X, mem : X, stack : X, sp : X, sepc : X, lib : X]
  BY DEF Shaped
<1>2. PICK Y : Y = X \cup {v}
  OBVIOUS
<1>3. d \in [status : Y, mem : Y, stack : Y, sp : Y, sepc : Y, lib : Y]
  BY <1>1, <1>2
<1>4. QED
  BY <1>1, <1>3 DEF Shaped

(***************************************************************************)
(* What each action does to the child, field by field.                     *)
(***************************************************************************)
LEMMA NoChildFields ==
  ASSUME NEW c, c = NoChild
  PROVE  /\ Shaped(c) /\ c.status = "none" /\ c.mem = NoMem /\ c.stack = NoStack /\ c.sp = 0
         /\ c.sepc = "none" /\ c.lib = {}
<1>1. c = [status |-> "none", mem |-> NoMem, stack |-> NoStack, sp |-> 0, sepc |-> "none", lib |-> {}]
  BY DEF NoChild
<1>2. PICK t, e, m, s, l : t = "none" /\ e = "none" /\ m = NoMem /\ s = NoStack /\ l = {}
  OBVIOUS
<1>3. c = [status |-> t, mem |-> m, stack |-> s, sp |-> 0, sepc |-> e, lib |-> l]
  BY <1>1, <1>2, Zenon
<1>4. QED
  BY <1>2, <1>3, Constructed

LEMMA NewChildFields ==
  ASSUME NEW c, c = NewChild
  PROVE  /\ Shaped(c) /\ c.status = "not_runnable" /\ c.mem = NoMem /\ c.stack = NoStack /\ c.sp = 0
         /\ c.sepc = "parent" /\ c.lib = {}
<1>1. c = [status |-> "not_runnable", mem |-> NoMem, stack |-> NoStack, sp |-> 0,
           sepc |-> "parent", lib |-> {}]
  BY NewChildIs, Zenon
<1>2. PICK t, e, m, s, l : t = "not_runnable" /\ e = "parent" /\ m = NoMem /\ s = NoStack /\ l = {}
  OBVIOUS
<1>3. c = [status |-> t, mem |-> m, stack |-> s, sp |-> 0, sepc |-> e, lib |-> l]
  BY <1>1, <1>2, Zenon
<1>4. QED
  BY <1>2, <1>3, Constructed

LEMMA Booted ==
  ASSUME boot
  PROVE  /\ Shaped(child') /\ child'.status = "runnable" /\ child'.mem = load_icode(prog)
         /\ child'.stack = NoStack /\ child'.sp = 0 /\ child'.sepc = "entry" /\ child'.lib = {}
<1>1. PICK n : n = NewChild
  OBVIOUS
<1>2. PICK d : d = [n EXCEPT !.status = "runnable"]
  OBVIOUS
<1>3. PICK m : m = load_icode(prog)
  OBVIOUS
<1>4. PICK e : e = [d EXCEPT !.mem = m]
  OBVIOUS
<1>5. PICK c : c = [e EXCEPT !.sepc = "entry"]
  OBVIOUS
<1>6. Shaped(n) /\ n.stack = NoStack /\ n.sp = 0 /\ n.lib = {}
  BY <1>1, NewChildFields
<1>7. Shaped(d) /\ d.status = "runnable" /\ d.stack = NoStack /\ d.sp = 0 /\ d.lib = {}
  BY <1>2, <1>6, UpdStatus
<1>8. Shaped(e) /\ e.status = "runnable" /\ e.mem = m /\ e.stack = NoStack /\ e.sp = 0 /\ e.lib = {}
  BY <1>4, <1>7, UpdMem
<1>9. /\ Shaped(c) /\ c.status = "runnable" /\ c.mem = m /\ c.stack = NoStack /\ c.sp = 0
      /\ c.sepc = "entry" /\ c.lib = {}
  BY <1>5, <1>8, UpdSepc
<1>10. child' = c
  BY <1>1, <1>2, <1>3, <1>4, <1>5, Zenon DEF boot
<1>11. QED
  BY <1>3, <1>9, <1>10, Zenon

LEMMA StackMapped ==
  ASSUME Shaped(child), stack_map, pc' = "phdr"
  PROVE  /\ Shaped(child') /\ child'.status = child.status /\ child'.mem = child.mem
         /\ child'.stack = init_stack(argv).page /\ child'.sp = init_stack(argv).sp
         /\ child'.sepc = child.sepc /\ child'.lib = child.lib
<1>1. PICK v, w : v = init_stack(argv).page /\ w = init_stack(argv).sp
  OBVIOUS
<1>2. PICK e : e = [child EXCEPT !.stack = v]
  OBVIOUS
<1>3. PICK d : d = [e EXCEPT !.sp = w]
  OBVIOUS
<1>4. /\ Shaped(e) /\ e.status = child.status /\ e.mem = child.mem /\ e.stack = v
      /\ e.sepc = child.sepc /\ e.lib = child.lib
  BY <1>2, UpdStack
<1>5. /\ Shaped(d) /\ d.status = e.status /\ d.mem = e.mem /\ d.stack = e.stack /\ d.sp = w
      /\ d.sepc = e.sepc /\ d.lib = e.lib
  BY <1>3, <1>4, UpdSp
<1>6. child' = [child EXCEPT !.stack = init_stack(argv).page, !.sp = init_stack(argv).sp]
  BY DEF stack_map, At, Goto
<1>7. child' = d
  BY <1>1, <1>2, <1>3, <1>6, Zenon
<1>8. QED
  BY <1>1, <1>4, <1>5, <1>7, Zenon

LEMMA ControlInit == Init => Control
<1> SUFFICES ASSUME Init PROVE Control
  OBVIOUS
<1>1. /\ prog \in Programs /\ argv \in Argvs /\ pc \in {"open", "boot"}
      /\ fd = FALSE /\ utemp = NULL /\ child = NoChild /\ runlist = "sound"
  BY DEF Init
<1>2. Shaped(child)
  BY <1>1, NoChildFields
<1>3. QED
  BY <1>1, <1>2 DEF Control, Label, Opened, Loading, Childless, Starting

LEMMA ControlStep == Control /\ [Next]_vars => Control'
<1> SUFFICES ASSUME Control, [Next]_vars PROVE Control'
  OBVIOUS
<1> USE DEF Label, Opened, Loading, Childless, Starting, At, Goto
<1>0. /\ prog \in Programs /\ argv \in Argvs
      /\ pc \in Label /\ Shaped(child)
      /\ fd \in BOOLEAN /\ (pc # "halted" => (fd <=> pc \in Opened))
      /\ pc \in Childless => child = NoChild
      /\ pc \notin Childless => child.status = IF pc = "started" THEN "runnable" ELSE "not_runnable"
      /\ pc \notin {"stack_map", "copy"} => utemp = NULL
      /\ pc = "stack_map" => utemp = StackPage
      /\ runlist # "sound" => pc \in {"err", "failed", "halted"}
  BY DEF Control
<1> DEFINE NewControl ==
      /\ prog' = prog /\ argv' = argv /\ Shaped(child')
      /\ pc' \in Label
      /\ fd' \in BOOLEAN /\ (pc' # "halted" => (fd' <=> pc' \in Opened))
      /\ pc' \in Childless => child' = NoChild
      /\ pc' \notin Childless => child'.status = IF pc' = "started" THEN "runnable" ELSE "not_runnable"
      /\ pc' \notin {"stack_map", "copy"} => utemp' = NULL
      /\ pc' = "stack_map" => utemp' = StackPage
      /\ runlist' # "sound" => pc' \in {"err", "failed", "halted"}
<1>q. ASSUME NewControl PROVE Control'
  BY <1>0, <1>q DEF Control
<1> HIDE DEF Control
<1>1. ASSUME boot PROVE NewControl
  <2>2. Shaped(child') /\ child'.status = "runnable"
    BY <1>1, Booted
  <2>3. QED
    BY <1>0, <1>1, <2>2 DEF boot
<1>2. ASSUME open_prog PROVE NewControl
  <2>1. CASE pc' = "failed" /\ fd' = fd
    BY <1>0, <1>2, <2>1 DEF open_prog
  <2>2. CASE pc' = "header" /\ fd' = TRUE
    BY <1>0, <1>2, <2>2 DEF open_prog
  <2>3. QED
    BY <1>2, <2>1, <2>2 DEF open_prog
<1>3. ASSUME read_header PROVE NewControl
  BY <1>0, <1>3 DEF read_header
<1>4. ASSUME exofork PROVE NewControl
  <2>1. CASE child' = child /\ pc' = "err"
    BY <1>0, <1>4, <2>1 DEF exofork
  <2>2. CASE child' = NewChild /\ pc' = "stack_alloc"
    <3>1. Shaped(child') /\ child'.status = "not_runnable"
      BY <2>2, NewChildFields
    <3>2. QED
      BY <1>0, <1>4, <2>2, <3>1 DEF exofork
  <2>3. QED
    BY <1>4, <2>1, <2>2 DEF exofork
<1>5. ASSUME stack_alloc PROVE NewControl
  BY <1>0, <1>5 DEF stack_alloc
<1>6. ASSUME stack_map PROVE NewControl
  <2>1. CASE child' = child /\ pc' = "err1"
    BY <1>0, <1>6, <2>1 DEF stack_map
  <2>2. CASE pc' = "phdr"
    <3>1. Shaped(child') /\ child'.status = child.status
      BY <1>0, <1>6, <2>2, StackMapped
    <3>2. QED
      BY <1>0, <1>6, <2>2, <3>1 DEF stack_map
  <2>3. QED
    BY <1>6, <2>1, <2>2 DEF stack_map
<1>7. ASSUME read_phdr PROVE NewControl
  BY <1>0, <1>7 DEF read_phdr
<1>8. ASSUME mapper_alloc PROVE NewControl
  <2>1. pc' \in {"phdr", "err1", "alloc", "map"}
    BY <1>8 DEF mapper_alloc, MapperDone
  <2>2. Shaped(child') /\ child'.status = child.status
    <3>1. CASE child' = child
      BY <1>0, <3>1
    <3>2. CASE child' = [child EXCEPT !.mem = Mapped(child.mem, Calls[k].va, Fresh(prog[seg].flags))]
      BY <1>0, <3>2, UpdMem
    <3>3. QED
      BY <1>8, <3>1, <3>2 DEF mapper_alloc
  <2>3. prog' = prog /\ argv' = argv /\ runlist' = runlist /\ pc = "alloc" /\ fd' = fd /\ utemp' = utemp
    BY <1>8 DEF mapper_alloc
  <2>4. QED
    BY <1>0, <2>1, <2>2, <2>3
<1>9. ASSUME mapper_map PROVE NewControl
  <2>1. (pc' = "err1" /\ utemp' = utemp) \/ pc' = "copy"
    BY <1>9 DEF mapper_map
  <2>2. Shaped(child') /\ child'.status = child.status
    <3>1. CASE child' = child
      BY <1>0, <3>1
    <3>2. CASE child' = [child EXCEPT !.mem = [p \in DOMAIN child.mem \ {VPN(Calls[k].va)} |-> child.mem[p]]]
      BY <1>0, <3>2, UpdMem
    <3>3. QED
      BY <1>9, <3>1, <3>2 DEF mapper_map
  <2>3. prog' = prog /\ argv' = argv /\ runlist' = runlist /\ pc = "map" /\ fd' = fd
    BY <1>9 DEF mapper_map
  <2>4. QED
    BY <1>0, <2>1, <2>2, <2>3
<1>10. ASSUME mapper_copy PROVE NewControl
  <2>1. pc' \in {"phdr", "alloc"} /\ utemp' = NULL
    BY <1>10 DEF mapper_copy, MapperDone
  <2>2. Shaped(child') /\ child'.status = child.status
    <3>1. child' = [child EXCEPT !.mem = [child.mem EXCEPT ![utemp] = Filled(child.mem[utemp], Calls[k], seg)]]
      BY <1>10, Zenon DEF mapper_copy
    <3>2. QED
      BY <1>0, <3>1, UpdMem
  <2>3. prog' = prog /\ argv' = argv /\ runlist' = runlist /\ pc = "copy" /\ fd' = fd
    BY <1>10 DEF mapper_copy
  <2>4. QED
    BY <1>0, <2>1, <2>2, <2>3
<1>11. ASSUME close_prog PROVE NewControl
  BY <1>0, <1>11 DEF close_prog
<1>12. ASSUME set_trapframe PROVE NewControl
  <2>1. CASE child' = child /\ pc' = "err2"
    BY <1>0, <1>12, <2>1 DEF set_trapframe
  <2>2. CASE child' = [child EXCEPT !.sepc = "entry"] /\ pc' = "share"
    <3>1. Shaped(child') /\ child'.status = child.status
      BY <1>0, <2>2, UpdSepc
    <3>2. QED
      BY <1>0, <1>12, <2>2, <3>1 DEF set_trapframe
  <2>3. QED
    BY <1>12, <2>1, <2>2 DEF set_trapframe
<1>13. ASSUME share PROVE NewControl
  <2>1. CASE child' = child /\ pc' \in {"err2", "status"}
    BY <1>0, <1>13, <2>1 DEF share
  <2>2. CASE child' = [child EXCEPT !.lib = child.lib \cup {Min(Shared \ child.lib)}] /\ pc' = "share"
    <3>1. Shaped(child') /\ child'.status = child.status
      BY <1>0, <2>2, UpdLib
    <3>2. QED
      BY <1>0, <1>13, <2>2, <3>1 DEF share
  <2>3. QED
    BY <1>13, <2>1, <2>2 DEF share
<1>14. ASSUME set_status PROVE NewControl
  <2>1. CASE child' = child /\ pc' = "err2"
    BY <1>0, <1>14, <2>1 DEF set_status
  <2>2. CASE child' = [child EXCEPT !.status = "runnable"] /\ pc' = "started"
    <3>1. Shaped(child') /\ child'.status = "runnable"
      BY <1>0, <2>2, UpdStatus
    <3>2. QED
      BY <1>0, <1>14, <2>2, <3>1 DEF set_status
  <2>3. QED
    BY <1>14, <2>1, <2>2 DEF set_status
<1>15. ASSUME err2 \/ err1 PROVE NewControl
  <2>1. child' = NoChild
    BY <1>15 DEF err1, err2, syscall_env_destroy
  <2>2. Shaped(child')
    BY <2>1, NoChildFields
  <2>3. QED
    BY <1>0, <1>15, <2>1, <2>2 DEF err1, err2, syscall_env_destroy
<1>16. ASSUME err PROVE NewControl
  BY <1>0, <1>16 DEF err
<1>17. ASSUME UNCHANGED vars PROVE NewControl
  BY <1>0, <1>17 DEF vars
<1>18. QED
  <2> HIDE DEF NewControl
  <2>1. QED
    BY <1>q, <1>1, <1>2, <1>3, <1>4, <1>5, <1>6, <1>7, <1>8, <1>9, <1>10, <1>11, <1>12, <1>13,
       <1>14, <1>15, <1>16, <1>17 DEF Next, Returned

(***************************************************************************)
(* A spawn that fails, at whichever call, and returns leaves no child, no  *)
(* open file and nothing at UTEMP; and only a spawn that had to destroy a  *)
(* child that never ran can have damaged the run list or stopped the       *)
(* kernel.                                                                 *)
(***************************************************************************)
THEOREM FailureIsClean == Spec => []FailureLeavesNothing
<1>1. Control => FailureLeavesNothing
  <2> SUFFICES ASSUME Control PROVE FailureLeavesNothing
    OBVIOUS
  <2>1. pc = "failed" => child = NoChild /\ ~fd /\ utemp = NULL
    BY DEF Control, Opened, Loading, Childless
  <2>2. pc = "halted" \/ runlist # "sound" => child = NoChild /\ utemp = NULL
    BY DEF Control, Childless
  <2>3. QED
    BY <2>1, <2>2, NoChildFields DEF FailureLeavesNothing
<1>2. QED
  BY ControlInit, ControlStep, <1>1, PTL DEF Spec

-----------------------------------------------------------------------------
(* What the child has besides its memory.                                  *)

Stacked ==
  /\ pc = "stack_map" => FitsStack(argv)
  /\ \/ child.stack = NoStack /\ child.sp = 0
     \/ FitsStack(argv) /\ child.stack = init_stack(argv).page /\ child.sp = init_stack(argv).sp
  /\ child.lib \subseteq Library
  /\ pc = "status" => child.lib = Library
  /\ pc = "started" => child.stack = NoStack \/ child.lib = Library
  /\ pc \in {"share", "status", "started"} => child.sepc = "entry"

LEMMA StackedInit == Init => Stacked
<1> SUFFICES ASSUME Init PROVE Stacked
  OBVIOUS
<1>1. child = NoChild /\ pc \in {"open", "boot"}
  BY DEF Init
<1>2. child.stack = NoStack /\ child.sp = 0 /\ child.lib = {}
  BY <1>1, NoChildFields
<1>3. QED
  BY <1>1, <1>2 DEF Stacked

LEMMA StackedStep == Control /\ Stacked /\ [Next]_vars => Stacked'
<1> SUFFICES ASSUME Control, Stacked, [Next]_vars PROVE Stacked'
  OBVIOUS
<1> USE DEF At, Goto
<1>0. Shaped(child) /\ (pc # "halted" => (fd <=> pc \in Opened)) /\ fd \in BOOLEAN
  BY DEF Control
<1>a. ASSUME argv' = argv, child' = NoChild, pc' \notin {"stack_map", "share", "status", "started"}
      PROVE  Stacked'
  <2>1. child'.stack = NoStack /\ child'.sp = 0 /\ child'.lib = {}
    BY <1>a, NoChildFields
  <2>2. QED
    BY <1>a, <2>1 DEF Stacked
<1>b. ASSUME argv' = argv, child'.stack = child.stack, child'.sp = child.sp, child'.lib = child.lib,
             pc' \notin {"stack_map", "share", "status", "started"}
      PROVE  Stacked'
  BY <1>b DEF Stacked
<1>1. ASSUME boot PROVE Stacked'
  <2>1. /\ child'.stack = NoStack /\ child'.sp = 0 /\ child'.sepc = "entry" /\ child'.lib = {}
    BY <1>1, Booted
  <2>2. pc' = "started"
    BY <1>1 DEF boot
  <2>3. QED
    BY <2>1, <2>2 DEF Stacked
<1>2. ASSUME open_prog \/ read_header \/ read_phdr \/ close_prog \/ err PROVE Stacked'
  BY <1>2, <1>b DEF open_prog, read_header, read_phdr, close_prog, err
<1>4. ASSUME exofork PROVE Stacked'
  <2>1. CASE child' = child /\ pc' = "err"
    BY <1>4, <1>b, <2>1 DEF exofork
  <2>2. CASE child' = NewChild /\ pc' = "stack_alloc"
    <3>1. child'.stack = NoStack /\ child'.sp = 0 /\ child'.lib = {}
      BY <2>2, NewChildFields
    <3>2. QED
      BY <2>2, <3>1 DEF Stacked
  <2>3. QED
    BY <1>4, <2>1, <2>2 DEF exofork
<1>5. ASSUME stack_alloc PROVE Stacked'
  BY <1>5 DEF stack_alloc, Stacked
<1>6. ASSUME stack_map PROVE Stacked'
  <2>1. CASE child' = child /\ pc' = "err1"
    BY <1>6, <1>b, <2>1 DEF stack_map
  <2>2. CASE pc' = "phdr"
    <3>1. /\ child'.stack = init_stack(argv).page /\ child'.sp = init_stack(argv).sp
          /\ child'.lib = child.lib
      BY <1>0, <1>6, <2>2, StackMapped
    <3>2. FitsStack(argv) /\ argv' = argv
      BY <1>6 DEF stack_map, Stacked
    <3>3. QED
      BY <2>2, <3>1, <3>2 DEF Stacked
  <2>3. QED
    BY <1>6, <2>1, <2>2 DEF stack_map
<1>8. ASSUME mapper_alloc PROVE Stacked'
  <2>1. pc' \in {"phdr", "err1", "alloc", "map"} /\ argv' = argv
    BY <1>8 DEF mapper_alloc, MapperDone
  <2>2. CASE child' = child
    BY <1>b, <2>1, <2>2
  <2>3. CASE child' = [child EXCEPT !.mem = Mapped(child.mem, Calls[k].va, Fresh(prog[seg].flags))]
    <3>1. child'.stack = child.stack /\ child'.sp = child.sp /\ child'.lib = child.lib
      BY <1>0, <2>3, UpdMem
    <3>2. QED
      BY <1>b, <2>1, <3>1
  <2>4. QED
    BY <1>8, <2>2, <2>3 DEF mapper_alloc
<1>9. ASSUME mapper_map PROVE Stacked'
  <2>1. pc' \in {"err1", "copy"} /\ argv' = argv
    BY <1>9 DEF mapper_map
  <2>2. CASE child' = child
    BY <1>b, <2>1, <2>2
  <2>3. CASE child' = [child EXCEPT !.mem = [p \in DOMAIN child.mem \ {VPN(Calls[k].va)} |-> child.mem[p]]]
    <3>1. child'.stack = child.stack /\ child'.sp = child.sp /\ child'.lib = child.lib
      BY <1>0, <2>3, UpdMem
    <3>2. QED
      BY <1>b, <2>1, <3>1
  <2>4. QED
    BY <1>9, <2>2, <2>3 DEF mapper_map
<1>10. ASSUME mapper_copy PROVE Stacked'
  <2>1. pc' \in {"phdr", "alloc"} /\ argv' = argv
    BY <1>10 DEF mapper_copy, MapperDone
  <2>2. child' = [child EXCEPT !.mem = [child.mem EXCEPT ![utemp] = Filled(child.mem[utemp], Calls[k], seg)]]
    BY <1>10, Zenon DEF mapper_copy
  <2>3. child'.stack = child.stack /\ child'.sp = child.sp /\ child'.lib = child.lib
    BY <1>0, <2>2, UpdMem
  <2>4. QED
    BY <1>b, <2>1, <2>3
<1>12. ASSUME set_trapframe PROVE Stacked'
  <2>1. CASE child' = child /\ pc' = "err2"
    BY <1>12, <1>b, <2>1 DEF set_trapframe
  <2>2. CASE child' = [child EXCEPT !.sepc = "entry"] /\ pc' = "share"
    <3>1. /\ child'.stack = child.stack /\ child'.sp = child.sp /\ child'.lib = child.lib
          /\ child'.sepc = "entry"
      BY <1>0, <2>2, UpdSepc
    <3>2. argv' = argv
      BY <1>12 DEF set_trapframe
    <3>3. QED
      BY <2>2, <3>1, <3>2 DEF Stacked
  <2>3. QED
    BY <1>12, <2>1, <2>2 DEF set_trapframe
<1>13. ASSUME share PROVE Stacked'
  <2>0. Shared = Library /\ argv' = argv /\ pc = "share"
    BY <1>0, <1>13 DEF share, Shared, Opened, Loading
  <2>1. CASE child' = child /\ pc' = "err2"
    BY <2>0, <1>b, <2>1
  <2>2. CASE child' = child /\ pc' = "status" /\ child.lib = Shared
    BY <2>0, <2>2 DEF Stacked
  <2>3. CASE child' = [child EXCEPT !.lib = child.lib \cup {Min(Shared \ child.lib)}] /\ pc' = "share"
             /\ child.lib # Shared
    <3>1. /\ child'.stack = child.stack /\ child'.sp = child.sp /\ child'.sepc = child.sepc
          /\ child'.lib = child.lib \cup {Min(Shared \ child.lib)}
      BY <1>0, <2>3, UpdLib
    <3>2. child.lib \subseteq Library
      BY DEF Stacked
    <3>3. PICK D : D = Library \ child.lib
      OBVIOUS
    <3>4. D \subseteq Nat /\ D # {}
      BY <2>0, <2>3, <3>2, <3>3, Sizes
    <3>5. \E x \in D : \A y \in D : x <= y
      BY <3>4, LeastNat
    <3>6. Min(D) \in D
      BY <3>5, Zenon DEF Min
    <3>7. child'.lib \subseteq Library
      BY <2>0, <3>1, <3>2, <3>3, <3>6
    <3>8. QED
      BY <2>0, <2>3, <3>1, <3>7 DEF Stacked
  <2>4. QED
    BY <1>13, <2>1, <2>2, <2>3 DEF share
<1>14. ASSUME set_status PROVE Stacked'
  <2>1. CASE child' = child /\ pc' = "err2"
    BY <1>14, <1>b, <2>1 DEF set_status
  <2>2. CASE child' = [child EXCEPT !.status = "runnable"] /\ pc' = "started"
    <3>1. /\ child'.stack = child.stack /\ child'.sp = child.sp /\ child'.lib = child.lib
          /\ child'.sepc = child.sepc
      BY <1>0, <2>2, UpdStatus
    <3>2. argv' = argv /\ pc = "status"
      BY <1>14 DEF set_status
    <3>3. QED
      BY <2>2, <3>1, <3>2 DEF Stacked
  <2>3. QED
    BY <1>14, <2>1, <2>2 DEF set_status
<1>15. ASSUME err2 \/ err1 PROVE Stacked'
  BY <1>15, <1>a DEF err1, err2, syscall_env_destroy
<1>17. ASSUME UNCHANGED vars PROVE Stacked'
  BY <1>17 DEF vars, Stacked
<1>18. QED
  BY <1>1, <1>2, <1>4, <1>5, <1>6, <1>8, <1>9, <1>10, <1>12, <1>13, <1>14, <1>15, <1>17
     DEF Next, Returned

-----------------------------------------------------------------------------
(* The stack page: the lengths of the arguments, their strings, the words. *)

LEMMA UptoFacts ==
  ASSUME NEW a \in Seq(Nat)
  PROVE  /\ Upto(a) \in [0 .. Len(a) -> Nat] /\ Upto(a)[0] = 0
         /\ \A n \in 1 .. Len(a) : Upto(a)[n] = Upto(a)[n - 1] + a[n] + 1
<1>1. PICK N \in Nat : N = Len(a)
  OBVIOUS
<1>2. PICK G : G = [n \in 1 .. N |-> [x \in Nat |-> x + a[n] + 1]]
  OBVIOUS
<1>3. \A n \in 1 .. N : a[n] \in Nat
  BY <1>1
<1>4. G \in [1 .. N -> [Nat -> Nat]]
  <2>1. ASSUME NEW n \in 1 .. N PROVE [x \in Nat |-> x + a[n] + 1] \in [Nat -> Nat]
    <3>1. PICK y \in Nat : y = a[n]
      BY <1>3
    <3>2. [x \in Nat |-> x + y + 1] \in [Nat -> Nat]
      OBVIOUS
    <3>3. QED
      BY <3>1, <3>2
  <2>2. QED
    BY <1>2, <2>1, Zenon
<1>5. PICK h \in [0 .. N -> Nat] : h[0] = 0 /\ \A n \in 1 .. N : h[n] = G[n][h[n - 1]]
  <2>1. PICK z \in Nat : z = 0
    OBVIOUS
  <2>2. PICK h : Recursive(h, N, Nat, z, G)
    BY <1>4, Recursion, Zenon
  <2>3. QED
    BY <2>1, <2>2, Zenon DEF Recursive
<1>6. ASSUME NEW n \in 1 .. N PROVE h[n] = h[n - 1] + a[n] + 1
  <2>1. n - 1 \in 0 .. N /\ h[n - 1] \in Nat
    OBVIOUS
  <2>2. G[n][h[n - 1]] = h[n - 1] + a[n] + 1
    BY <1>2, <2>1
  <2>3. QED
    BY <1>5, <2>2
<1>7. h = [n \in 0 .. N |-> IF n = 0 THEN 0 ELSE h[n - 1] + a[n] + 1]
  BY <1>5, <1>6
<1>8. PICK u : u = Upto(a)
  OBVIOUS
<1>9. u = [n \in 0 .. N |-> IF n = 0 THEN 0 ELSE u[n - 1] + a[n] + 1]
  BY <1>1, <1>7, <1>8, Zenon DEF Upto
<1>10. u[0] = 0 /\ \A n \in 1 .. N : u[n] = u[n - 1] + a[n] + 1
  BY <1>9
<1>11. 0 .. N \subseteq {n \in 0 .. N : u[n] \in Nat}
  <2>1. 0 \in {n \in 0 .. N : u[n] \in Nat}
    BY <1>10
  <2>2. ASSUME NEW n \in 1 .. N, n - 1 \in {m \in 0 .. N : u[m] \in Nat}
        PROVE  n \in {m \in 0 .. N : u[m] \in Nat}
    <3>1. u[n - 1] \in Nat /\ a[n] \in Nat
      BY <1>3, <2>2
    <3>2. PICK x \in Nat, y \in Nat : x = u[n - 1] /\ y = a[n]
      BY <3>1
    <3>3. u[n] = x + y + 1
      BY <1>10, <3>2, Zenon
    <3>4. n \in 0 .. N /\ u[n] \in Nat
      BY <3>3
    <3>5. QED
      BY <3>4
  <2>3. QED
    BY <2>1, <2>2, Upward
<1>12. \A n \in 0 .. N : u[n] \in Nat
  BY <1>11
<1>13. u \in [0 .. N -> Nat]
  BY <1>9, <1>12
<1>14. QED
  BY <1>1, <1>8, <1>10, <1>13

LEMMA UptoGrows ==
  ASSUME NEW a \in Seq(Nat), NEW i \in 0 .. Len(a), NEW j \in 0 .. Len(a), i <= j
  PROVE  Upto(a)[i] <= Upto(a)[j]
<1>u. PICK u : u = Upto(a)
  OBVIOUS
<1>1. PICK N \in Nat : N = Len(a)
  OBVIOUS
<1>2. u \in [0 .. N -> Nat] /\ \A n \in 1 .. N : u[n] = u[n - 1] + a[n] + 1 /\ a[n] \in Nat
  <2>1. /\ Upto(a) \in [0 .. Len(a) -> Nat]
        /\ \A n \in 1 .. Len(a) : Upto(a)[n] = Upto(a)[n - 1] + a[n] + 1
    BY UptoFacts, Zenon
  <2>2. \A n \in 1 .. N : a[n] \in Nat
    BY <1>1
  <2>3. QED
    BY <1>u, <1>1, <2>1, <2>2, Zenon
<1> DEFINE B == {m \in 0 .. N : i <= m => u[i] <= u[m]}
<1>3. 0 \in B
  BY <1>u, <1>1, <1>2
<1>4. ASSUME NEW n \in 1 .. N, n - 1 \in B PROVE n \in B
  <2>1. n - 1 \in 0 .. N /\ n \in 0 .. N /\ i \in 0 .. N
    BY <1>u, <1>1
  <2>2. PICK x \in Nat, y \in Nat, z \in Nat, w \in Nat : x = u[n - 1] /\ y = a[n] /\ z = u[n] /\ w = u[i]
    BY <1>2, <2>1
  <2>3. z = x + y + 1
    BY <1>2, <2>2, Zenon
  <2>4. i <= n - 1 => w <= x
    BY <1>4, <2>2
  <2>5. i = n => w = z
    BY <2>2
  <2>6. i <= n => w <= z
    BY <2>1, <2>3, <2>4, <2>5
  <2>7. QED
    BY <2>1, <2>2, <2>6
<1>5. 0 .. N \subseteq B
  <2> HIDE DEF B
  <2>1. QED
    BY <1>3, <1>4, Upward
<1>6. j \in B
  BY <1>u, <1>1, <1>5
<1>7. QED
  BY <1>u, <1>1, <1>6

Cell == {"zero", "char", "word"} \X Int \X Int
Page == [0 .. BY2PG - 1 -> Cell]

LEMMA StoreWordIs ==
  ASSUME NEW x \in Page, NEW at \in Int, NEW w \in Int
  PROVE  /\ StoreWord(x, at, w) \in Page
         /\ \A o \in 0 .. BY2PG - 1 : /\ o \in at .. at + 3 => StoreWord(x, at, w)[o] = Byte(w, o - at)
                                      /\ o \notin at .. at + 3 => StoreWord(x, at, w)[o] = x[o]
<1>1. PICK D : D = 0 .. BY2PG - 1
  OBVIOUS
<1>2. D \subseteq Int
  BY <1>1, Sizes
<1>3. x \in [D -> Cell]
  BY <1>1 DEF Page
<1>4. StoreWord(x, at, w) = [o \in D |-> IF o \in at .. at + 3 THEN Byte(w, o - at) ELSE x[o]]
  BY <1>3 DEF StoreWord
<1>5. ASSUME NEW o \in D PROVE (IF o \in at .. at + 3 THEN Byte(w, o - at) ELSE x[o]) \in Cell
  <2>1. CASE o \in at .. at + 3
    <3>1. o - at \in Int
      BY <1>2
    <3>2. Byte(w, o - at) \in Cell
      BY <3>1 DEF Cell, Byte, Char
    <3>3. QED
      BY <2>1, <3>2
  <2>2. CASE o \notin at .. at + 3
    BY <1>3, <2>2
  <2>3. QED
    BY <2>1, <2>2
<1>6. StoreWord(x, at, w) \in [D -> Cell]
  BY <1>4, <1>5, Zenon
<1>7. ASSUME NEW o \in D
      PROVE  /\ o \in at .. at + 3 => StoreWord(x, at, w)[o] = Byte(w, o - at)
             /\ o \notin at .. at + 3 => StoreWord(x, at, w)[o] = x[o]
  BY <1>4
<1>8. QED
  BY <1>1, <1>6, <1>7, Zenon DEF Page

LEMMA CopyStringIs ==
  ASSUME NEW x \in Page, NEW a \in Seq(Nat), NEW i \in 1 .. Len(a), NEW s \in Int, s = StringAt(a, i)
  PROVE  /\ CopyString(x, a, i) \in Page
         /\ \A o \in 0 .. BY2PG - 1 :
              /\ o \in s .. s + a[i] - 1 => CopyString(x, a, i)[o] = Char(i, o - s + 1)
              /\ o = s + a[i] => CopyString(x, a, i)[o] = Zero
              /\ o \notin s .. s + a[i] => CopyString(x, a, i)[o] = x[o]
<1>1. PICK D : D = 0 .. BY2PG - 1
  OBVIOUS
<1>2. D \subseteq Int
  BY <1>1, Sizes
<1>3. x \in [D -> Cell]
  BY <1>1 DEF Page
<1>4. PICK l \in Nat : l = a[i]
  OBVIOUS
<1>5. CopyString(x, a, i) = [o \in D |-> IF o \in s .. s + l - 1 THEN Char(i, o - s + 1)
                                         ELSE IF o = s + l THEN Zero ELSE x[o]]
  BY <1>3, <1>4 DEF CopyString
<1>6. ASSUME NEW o \in D
      PROVE  (IF o \in s .. s + l - 1 THEN Char(i, o - s + 1) ELSE IF o = s + l THEN Zero ELSE x[o]) \in Cell
  <2>1. CASE o \in s .. s + l - 1
    <3>1. o - s + 1 \in Int /\ i \in Int
      BY <1>2
    <3>2. Char(i, o - s + 1) \in Cell
      BY <3>1 DEF Cell, Byte, Char
    <3>3. QED
      BY <2>1, <3>2
  <2>2. CASE o \notin s .. s + l - 1 /\ o = s + l
    <3>1. Zero \in Cell
      BY DEF Cell, Zero
    <3>2. QED
      BY <2>2, <3>1
  <2>3. CASE o \notin s .. s + l - 1 /\ o # s + l
    BY <1>3, <2>3
  <2>4. QED
    BY <2>1, <2>2, <2>3
<1>7. CopyString(x, a, i) \in [D -> Cell]
  BY <1>5, <1>6, Zenon
<1>8. ASSUME NEW o \in D
      PROVE  /\ o \in s .. s + l - 1 => CopyString(x, a, i)[o] = Char(i, o - s + 1)
             /\ o = s + l => CopyString(x, a, i)[o] = Zero
             /\ o \notin s .. s + l => CopyString(x, a, i)[o] = x[o]
  <2>1. CopyString(x, a, i)[o] = IF o \in s .. s + l - 1 THEN Char(i, o - s + 1)
                                 ELSE IF o = s + l THEN Zero ELSE x[o]
    BY <1>5
  <2>2. o \in Int /\ (o = s + l => o \notin s .. s + l - 1)
    BY <1>2
  <2>3. o \notin s .. s + l => o \notin s .. s + l - 1 /\ o # s + l
    BY <2>2
  <2>4. QED
    BY <2>1, <2>2, <2>3
<1>9. QED
  BY <1>1, <1>4, <1>7, <1>8, Zenon DEF Page

Blank == [o \in 0 .. BY2PG - 1 |-> Zero]

LEMMA StringsFold ==
  ASSUME NEW a \in Seq(Nat), \A i \in 1 .. Len(a) : StringAt(a, i) \in Int
  PROVE  \E ps \in [0 .. Len(a) -> Page] : /\ ps[0] = Blank /\ Strings(a) = ps[Len(a)]
                                           /\ \A n \in 1 .. Len(a) : ps[n] = CopyString(ps[n - 1], a, n)
<1>1. PICK N \in Nat : N = Len(a)
  OBVIOUS
<1>2. PICK G : G = [n \in 1 .. N |-> [x \in Page |-> CopyString(x, a, n)]]
  OBVIOUS
<1>3. \A n \in 1 .. N : \A x \in Page : CopyString(x, a, n) \in Page
  BY <1>1, CopyStringIs
<1>4. G \in [1 .. N -> [Page -> Page]]
  BY <1>2, <1>3, Zenon
<1>5. Blank \in Page
  <2>1. Zero \in Cell
    BY DEF Cell, Zero
  <2>2. QED
    BY <2>1, Zenon DEF Blank, Page
<1>6. PICK h : Recursive(h, N, Page, Blank, G)
  BY <1>4, <1>5, Recursion, Zenon
<1>7. h \in [0 .. N -> Page] /\ h[0] = Blank /\ \A n \in 1 .. N : h[n] = G[n][h[n - 1]]
  BY <1>6, Zenon DEF Recursive
<1>8. ASSUME NEW n \in 1 .. N PROVE h[n] = CopyString(h[n - 1], a, n)
  <2>1. n - 1 \in 0 .. N
    OBVIOUS
  <2>2. h[n - 1] \in Page
    BY <1>7, <2>1, Zenon
  <2>3. G[n][h[n - 1]] = CopyString(h[n - 1], a, n)
    BY <1>2, <2>2, Zenon
  <2>4. QED
    BY <1>7, <2>3, Zenon
<1> DEFINE Body(f) == [n \in 0 .. N |-> IF n = 0 THEN [o \in 0 .. BY2PG - 1 |-> Zero]
                                        ELSE CopyString(f[n - 1], a, n)]
<1>9. h = Body(h)
  <2>1. ASSUME NEW n \in 0 .. N PROVE h[n] = Body(h)[n]
    <3>1. CASE n = 0
      BY <1>7, <3>1, Zenon DEF Blank
    <3>2. CASE n # 0
      <4>1. n \in 1 .. N
        BY <3>2
      <4>2. QED
        BY <1>8, <3>2, <4>1, Zenon
    <3>3. QED
      BY <3>1, <3>2
  <2>2. h = [n \in 0 .. N |-> h[n]]
    BY <1>7
  <2>3. QED
    BY <2>1, <2>2, Zenon
<1>10. PICK u : u = CHOOSE f : f = Body(f)
  OBVIOUS
<1>11. u = Body(u) /\ Strings(a) = u[N]
  BY <1>1, <1>9, <1>10, Zenon DEF Strings
<1>12. u[0] = Blank
  <2>1. 0 \in 0 .. N
    OBVIOUS
  <2>2. QED
    BY <1>11, <2>1, Zenon DEF Blank
<1>13. ASSUME NEW n \in 1 .. N PROVE u[n] = CopyString(u[n - 1], a, n)
  <2>1. n \in 0 .. N /\ n # 0
    OBVIOUS
  <2>2. QED
    BY <1>11, <2>1, Zenon
<1>14. 0 .. N \subseteq {n \in 0 .. N : u[n] \in Page}
  <2>1. 0 \in {n \in 0 .. N : u[n] \in Page}
    BY <1>5, <1>12
  <2>2. ASSUME NEW n \in 1 .. N, n - 1 \in {m \in 0 .. N : u[m] \in Page}
        PROVE  n \in {m \in 0 .. N : u[m] \in Page}
    <3>1. u[n - 1] \in Page /\ n \in 0 .. N
      BY <2>2
    <3>2. u[n] \in Page
      BY <1>3, <1>13, <3>1, Zenon
    <3>3. QED
      BY <3>1, <3>2
  <2>3. QED
    BY <2>1, <2>2, Upward
<1>15. u \in [0 .. N -> Page]
  <2>1. \A n \in 0 .. N : u[n] \in Page
    BY <1>14
  <2>2. u = [n \in 0 .. N |-> u[n]]
    BY <1>11
  <2>3. QED
    BY <2>1, <2>2, Zenon
<1>16. QED
  BY <1>1, <1>11, <1>12, <1>13, <1>15, Zenon

LEMMA PointersFold ==
  ASSUME NEW a \in Seq(Nat), \A i \in 1 .. Len(a) : StringAt(a, i) \in Int,
         ArgsAt(a) \in Int, Strings(a) \in Page
  PROVE  \E ps \in [0 .. Len(a) -> Page] :
           /\ ps[0] = Strings(a) /\ Pointers(a) = ps[Len(a)]
           /\ \A n \in 1 .. Len(a) : ps[n] = StoreWord(ps[n - 1], ArgsAt(a) + 4 * (n - 1), StringAt(a, n))
<1>1. PICK N \in Nat : N = Len(a)
  OBVIOUS
<1> DEFINE Store(x, n) == StoreWord(x, ArgsAt(a) + 4 * (n - 1), StringAt(a, n))
<1>2. PICK G : G = [n \in 1 .. N |-> [x \in Page |-> Store(x, n)]]
  OBVIOUS
<1>3. ASSUME NEW n \in 1 .. N, NEW x \in Page PROVE Store(x, n) \in Page
  <2>1. ArgsAt(a) + 4 * (n - 1) \in Int /\ StringAt(a, n) \in Int
    BY <1>1
  <2>2. QED
    BY <2>1, StoreWordIs
<1> HIDE DEF Store
<1>4. G \in [1 .. N -> [Page -> Page]]
  BY <1>2, <1>3, Zenon
<1>5. PICK b \in Page : b = Strings(a)
  OBVIOUS
<1>6. PICK h : Recursive(h, N, Page, b, G)
  BY <1>4, Recursion, Zenon
<1>7. h \in [0 .. N -> Page] /\ h[0] = b /\ \A n \in 1 .. N : h[n] = G[n][h[n - 1]]
  BY <1>6, Zenon DEF Recursive
<1>8. ASSUME NEW n \in 1 .. N PROVE h[n] = Store(h[n - 1], n)
  <2>1. n - 1 \in 0 .. N
    OBVIOUS
  <2>2. h[n - 1] \in Page
    BY <1>7, <2>1, Zenon
  <2>3. G[n][h[n - 1]] = Store(h[n - 1], n)
    BY <1>2, <2>2, Zenon
  <2>4. QED
    BY <1>7, <2>3, Zenon
<1> DEFINE Body(f) == [n \in 0 .. N |-> IF n = 0 THEN Strings(a) ELSE Store(f[n - 1], n)]
<1>9. h = Body(h)
  <2>1. ASSUME NEW n \in 0 .. N PROVE h[n] = Body(h)[n]
    <3>1. CASE n = 0
      BY <1>5, <1>7, <3>1, Zenon
    <3>2. CASE n # 0
      <4>1. n \in 1 .. N
        BY <3>2
      <4>2. QED
        BY <1>8, <3>2, <4>1, Zenon
    <3>3. QED
      BY <3>1, <3>2
  <2>2. h = [n \in 0 .. N |-> h[n]]
    BY <1>7
  <2>3. QED
    BY <2>1, <2>2, Zenon
<1>10. PICK u : u = CHOOSE f : f = Body(f)
  OBVIOUS
<1>11. u = Body(u) /\ Pointers(a) = u[N]
  BY <1>1, <1>9, <1>10, Zenon DEF Pointers, Store
<1>12. u[0] = b
  <2>1. 0 \in 0 .. N
    OBVIOUS
  <2>2. QED
    BY <1>5, <1>11, <2>1, Zenon
<1>13. ASSUME NEW n \in 1 .. N PROVE u[n] = Store(u[n - 1], n)
  <2>1. n \in 0 .. N /\ n # 0
    OBVIOUS
  <2>2. QED
    BY <1>11, <2>1, Zenon
<1>14. 0 .. N \subseteq {n \in 0 .. N : u[n] \in Page}
  <2>1. 0 \in {n \in 0 .. N : u[n] \in Page}
    BY <1>12
  <2>2. ASSUME NEW n \in 1 .. N, n - 1 \in {m \in 0 .. N : u[m] \in Page}
        PROVE  n \in {m \in 0 .. N : u[m] \in Page}
    <3>1. u[n - 1] \in Page /\ n \in 0 .. N
      BY <2>2
    <3>2. u[n] \in Page
      BY <1>3, <1>13, <3>1, Zenon
    <3>3. QED
      BY <3>1, <3>2
  <2>3. QED
    BY <2>1, <2>2, Upward
<1>15. u \in [0 .. N -> Page]
  <2>1. \A n \in 0 .. N : u[n] \in Page
    BY <1>14
  <2>2. u = [n \in 0 .. N |-> u[n]]
    BY <1>11
  <2>3. QED
    BY <2>1, <2>2, Zenon
<1>16. QED
  BY <1>1, <1>5, <1>11, <1>12, <1>13, <1>15, Zenon DEF Store

(***************************************************************************)
(* Where everything lies: the words end below the strings, and the strings *)
(* are one after the other.                                                *)
(***************************************************************************)
LEMMA Layout ==
  ASSUME NEW a \in Seq(Nat), FitsStack(a)
  PROVE  /\ Tot(a) \in Nat /\ ArgsAt(a) \in Nat /\ ArgsAt(a) >= 8 /\ ArgsAt(a) % 4 = 0
         /\ ArgsAt(a) + 4 * (Len(a) + 1) <= BY2PG - Tot(a) /\ ArgsAt(a) < BY2PG
         /\ \A i \in 1 .. Len(a) : /\ StringAt(a, i) \in Nat /\ a[i] \in Nat
                                   /\ StringAt(a, i) >= BY2PG - Tot(a)
                                   /\ StringAt(a, i) + a[i] < BY2PG
         /\ \A i, j \in 1 .. Len(a) : i < j => StringAt(a, i) + a[i] < StringAt(a, j)
<1>u. PICK u : u = Upto(a)
  OBVIOUS
<1>1. PICK N \in Nat : N = Len(a)
  OBVIOUS
<1>2. /\ u \in [0 .. N -> Nat] /\ u[0] = 0
      /\ \A n \in 1 .. N : u[n] = u[n - 1] + a[n] + 1
      /\ \A n \in 1 .. N : a[n] \in Nat
  <2>1. /\ Upto(a) \in [0 .. Len(a) -> Nat] /\ Upto(a)[0] = 0
        /\ \A n \in 1 .. Len(a) : Upto(a)[n] = Upto(a)[n - 1] + a[n] + 1
    BY UptoFacts, Zenon
  <2>2. \A n \in 1 .. N : a[n] \in Nat
    BY <1>u, <1>1
  <2>3. QED
    BY <1>u, <1>1, <2>1, <2>2, Zenon
<1>3. PICK t \in Nat : t = Tot(a) /\ t = u[N]
  BY <1>u, <1>1, <1>2 DEF Tot
<1>4. PICK R \in Nat : R = ROUND(Tot(a), 4) /\ R >= t /\ R % 4 = 0
  <2>1. PICK c \in Nat : c = CeilDiv(t, 4) /\ c * 4 >= t
    BY DEF CeilDiv
  <2>2. ROUND(Tot(a), 4) = c * 4
    BY <1>3, <2>1 DEF ROUND
  <2>3. c * 4 \in Nat /\ (c * 4) % 4 = 0
    OBVIOUS
  <2>4. QED
    BY <2>1, <2>2, <2>3
<1>5. R + 4 * (N + 3) <= BY2PG /\ ArgsAt(a) = BY2PG - R - 4 * (N + 1)
  BY <1>u, <1>1, <1>4 DEF FitsStack, ArgsAt
<1>6. BY2PG \in Nat /\ BY2PG % 4 = 0
  BY Sizes
<1>7. PICK A \in Nat : A = ArgsAt(a) /\ A >= 8 /\ A % 4 = 0 /\ A + 4 * (N + 1) <= BY2PG - t /\ A < BY2PG
  <2>1. PICK A \in Int, m \in Nat : A = BY2PG - R - 4 * (N + 1) /\ m = N + 1
    BY <1>6
  <2>2. R + 4 * m + 8 <= BY2PG /\ A = BY2PG - R - 4 * m /\ m >= 1
    BY <1>5, <1>6, <2>1
  <2>3. A \in Nat /\ A >= 8 /\ A + 4 * m <= BY2PG - t /\ A < BY2PG
    <3>1. R >= t /\ BY2PG \in Nat
      BY <1>4, <1>6
    <3>2. QED
      BY <2>2, <3>1
  <2>4. A % 4 = 0
    <3>1. PICK b \in Int, r \in Int : b = BY2PG \div 4 /\ r = R \div 4
      BY <1>6
    <3>2. BY2PG = 4 * b /\ R = 4 * r
      BY <1>4, <1>6, <3>1
    <3>3. A = 4 * (b - r - m)
      BY <2>2, <3>2
    <3>4. QED
      BY <3>3
  <2>5. QED
    BY <1>5, <2>1, <2>3, <2>4
<1>8. \A i \in 1 .. N : i \in 0 .. N /\ i - 1 \in 0 .. N
  OBVIOUS
<1>9. ASSUME NEW i \in 1 .. N
      PROVE  /\ StringAt(a, i) = BY2PG - t + u[i - 1] /\ StringAt(a, i) + a[i] = BY2PG - t + u[i] - 1
             /\ u[i - 1] \in Nat /\ u[i] \in Nat /\ u[i] <= t /\ a[i] \in Nat
  <2>1. u[i - 1] \in Nat /\ u[i] \in Nat /\ a[i] \in Nat /\ u[i] = u[i - 1] + a[i] + 1
    BY <1>2, <1>8
  <2>2. Upto(a)[i] <= Upto(a)[N]
    BY <1>u, <1>1, <1>8, UptoGrows
  <2>3. StringAt(a, i) = BY2PG - t + u[i - 1]
    BY <1>u, <1>1, <1>3 DEF StringAt
  <2>4. PICK x \in Nat, y \in Nat, l \in Nat : x = u[i - 1] /\ y = u[i] /\ l = a[i]
    BY <2>1
  <2>5. y = x + l + 1 /\ y <= t
    BY <1>u, <1>1, <1>3, <2>1, <2>2, <2>4
  <2>6. BY2PG - t + x + l = BY2PG - t + y - 1
    BY <1>6, <2>5
  <2>7. QED
    BY <2>3, <2>4, <2>5, <2>6
<1>10. ASSUME NEW i \in 1 .. N
       PROVE  /\ StringAt(a, i) \in Nat /\ StringAt(a, i) >= BY2PG - t /\ StringAt(a, i) + a[i] < BY2PG
  <2>1. PICK x \in Nat, y \in Nat, l \in Nat : x = u[i - 1] /\ y = u[i] /\ l = a[i]
    BY <1>9
  <2>2. StringAt(a, i) = BY2PG - t + x /\ StringAt(a, i) + l = BY2PG - t + y - 1 /\ y <= t
    BY <1>9, <2>1
  <2>3. t <= BY2PG
    BY <1>6, <1>7
  <2>4. BY2PG - t + x \in Nat /\ BY2PG - t + x >= BY2PG - t /\ BY2PG - t + y - 1 < BY2PG
    BY <1>6, <2>2, <2>3
  <2>5. QED
    BY <2>1, <2>2, <2>4
<1>11. ASSUME NEW i \in 1 .. N, NEW j \in 1 .. N, i < j
       PROVE  StringAt(a, i) + a[i] < StringAt(a, j)
  <2>1. i \in 0 .. Len(a) /\ j - 1 \in 0 .. Len(a) /\ i <= j - 1
    BY <1>u, <1>1, <1>11
  <2>2. Upto(a)[i] <= Upto(a)[j - 1]
    BY <2>1, UptoGrows
  <2>3. PICK y \in Nat, x \in Nat : y = u[i] /\ x = u[j - 1]
    BY <1>9
  <2>4. StringAt(a, i) + a[i] = BY2PG - t + y - 1 /\ StringAt(a, j) = BY2PG - t + x /\ y <= x
    BY <1>u, <1>1, <1>9, <2>2, <2>3
  <2>5. QED
    BY <1>6, <2>4
<1>12. QED
  BY <1>u, <1>1, <1>3, <1>7, <1>9, <1>10, <1>11

Holds(x, a, i) ==
  /\ \A c \in 1 .. a[i] : x[StringAt(a, i) + c - 1] = Char(i, c)
  /\ x[StringAt(a, i) + a[i]] = Zero

LEMMA StringsHold ==
  ASSUME NEW a \in Seq(Nat), FitsStack(a)
  PROVE  Strings(a) \in Page /\ \A i \in 1 .. Len(a) : Holds(Strings(a), a, i)
<1>1. PICK N \in Nat : N = Len(a)
  OBVIOUS
<1>2. /\ \A i \in 1 .. N : /\ StringAt(a, i) \in Nat /\ a[i] \in Nat
                           /\ StringAt(a, i) + a[i] < BY2PG
      /\ \A i, j \in 1 .. N : i < j => StringAt(a, i) + a[i] < StringAt(a, j)
  BY <1>1, Layout
<1>3. PICK ps \in [0 .. N -> Page] : /\ ps[0] = Blank /\ Strings(a) = ps[N]
                                     /\ \A n \in 1 .. N : ps[n] = CopyString(ps[n - 1], a, n)
  <2>1. \A i \in 1 .. Len(a) : StringAt(a, i) \in Int
    BY <1>1, <1>2
  <2>2. QED
    BY <1>1, <2>1, StringsFold, Zenon
<1> DEFINE B == {n \in 0 .. N : \A i \in 1 .. n : Holds(ps[n], a, i)}
<1>4. 0 \in B
  OBVIOUS
<1>5. ASSUME NEW n \in 1 .. N, n - 1 \in B PROVE n \in B
  <2>1. n - 1 \in 0 .. N /\ n \in 0 .. N /\ ps[n - 1] \in Page
    OBVIOUS
  <2>2. PICK x \in Page, s \in Nat, l \in Nat : x = ps[n - 1] /\ s = StringAt(a, n) /\ l = a[n]
    BY <1>2, <2>1
  <2>3. PICK y : y = ps[n] /\ y = CopyString(x, a, n)
    BY <1>3, <2>2
  <2>4. \A o \in 0 .. BY2PG - 1 : /\ o \in s .. s + l - 1 => y[o] = Char(n, o - s + 1)
                                  /\ o = s + l => y[o] = Zero
                                  /\ o \notin s .. s + l => y[o] = x[o]
    BY <1>1, <2>2, <2>3, CopyStringIs
  <2>5. s + l < BY2PG /\ BY2PG \in Nat
    BY <1>2, <2>2, Sizes
  <2>6. ASSUME NEW i \in 1 .. n PROVE Holds(y, a, i)
    <3>1. CASE i = n
      <4>1. ASSUME NEW c \in 1 .. l PROVE y[s + c - 1] = Char(n, c)
        <5>1. PICK o \in Int : o = s + c - 1
          OBVIOUS
        <5>2. o \in s .. s + l - 1 /\ o \in 0 .. BY2PG - 1 /\ o - s + 1 = c
          BY <2>5, <5>1
        <5>3. y[o] = Char(n, o - s + 1)
          BY <2>4, <5>2
        <5>4. QED
          BY <5>1, <5>2, <5>3
      <4>2. s + l \in 0 .. BY2PG - 1
        BY <2>5
      <4>3. y[s + l] = Zero
        BY <2>4, <4>2
      <4>4. QED
        BY <2>2, <3>1, <4>1, <4>3, Zenon DEF Holds
    <3>2. CASE i # n
      <4>1. i \in 1 .. n - 1 /\ i \in 1 .. N /\ i < n
        BY <3>2
      <4>2. Holds(x, a, i)
        BY <1>5, <2>2, <4>1
      <4>3. PICK z \in Nat, m \in Nat : z = StringAt(a, i) /\ m = a[i]
        BY <1>2, <4>1
      <4>4. z + m < s
        BY <1>2, <2>2, <4>1, <4>3
      <4>5. ASSUME NEW o \in z .. z + m PROVE y[o] = x[o]
        <5>1. o \in 0 .. BY2PG - 1 /\ o \notin s .. s + l
          BY <2>5, <4>4
        <5>2. QED
          BY <2>4, <5>1
      <4>6. (\A c \in 1 .. m : x[z + c - 1] = Char(i, c)) /\ x[z + m] = Zero
        BY <4>2, <4>3, Zenon DEF Holds
      <4>7. \A c \in 1 .. m : z + c - 1 \in z .. z + m
        OBVIOUS
      <4>8. z + m \in z .. z + m
        OBVIOUS
      <4>9. (\A c \in 1 .. m : y[z + c - 1] = Char(i, c)) /\ y[z + m] = Zero
        BY <4>5, <4>6, <4>7, <4>8, Zenon
      <4>10. QED
        BY <4>3, <4>9, Zenon DEF Holds
    <3>3. QED
      BY <3>1, <3>2
  <2>7. QED
    BY <2>1, <2>3, <2>6
<1>6. 0 .. N \subseteq B
  <2> HIDE DEF B
  <2>1. QED
    BY <1>4, <1>5, Upward
<1>7. N \in B
  BY <1>6
<1>8. Strings(a) \in Page
  BY <1>3
<1>9. QED
  BY <1>1, <1>3, <1>7, <1>8

LEMMA PointersHold ==
  ASSUME NEW a \in Seq(Nat), FitsStack(a)
  PROVE  /\ Pointers(a) \in Page
         /\ \A i \in 1 .. Len(a) : Word(Pointers(a), ArgsAt(a) + 4 * (i - 1), StringAt(a, i))
         /\ \A o \in ArgsAt(a) + 4 * Len(a) .. BY2PG - 1 : Pointers(a)[o] = Strings(a)[o]
<1>1. PICK N \in Nat, A \in Nat : N = Len(a) /\ A = ArgsAt(a)
  BY Layout
<1>2. /\ \A i \in 1 .. N : StringAt(a, i) \in Nat
      /\ A + 4 * (N + 1) <= BY2PG - Tot(a) /\ Tot(a) \in Nat /\ BY2PG \in Nat
  BY <1>1, Layout, Sizes
<1>3. PICK ps \in [0 .. N -> Page] :
        /\ ps[0] = Strings(a) /\ Pointers(a) = ps[N]
        /\ \A n \in 1 .. N : ps[n] = StoreWord(ps[n - 1], A + 4 * (n - 1), StringAt(a, n))
  <2>1. (\A i \in 1 .. Len(a) : StringAt(a, i) \in Int) /\ ArgsAt(a) \in Int
    BY <1>1, <1>2
  <2>2. Strings(a) \in Page
    BY StringsHold
  <2>3. QED
    BY <1>1, <2>1, <2>2, PointersFold, Zenon
<1> DEFINE B == {n \in 0 .. N : /\ \A i \in 1 .. n : Word(ps[n], A + 4 * (i - 1), StringAt(a, i))
                                /\ \A o \in A + 4 * N .. BY2PG - 1 : ps[n][o] = Strings(a)[o]}
<1>4. 0 \in B
  BY <1>3
<1>5. ASSUME NEW n \in 1 .. N, n - 1 \in B PROVE n \in B
  <2>1. n - 1 \in 0 .. N /\ n \in 0 .. N /\ ps[n - 1] \in Page
    OBVIOUS
  <2>2. PICK x \in Page, s \in Nat, at \in Nat : x = ps[n - 1] /\ s = StringAt(a, n) /\ at = A + 4 * (n - 1)
    BY <1>2, <2>1
  <2>3. PICK y : y = ps[n] /\ y = StoreWord(x, at, s)
    BY <1>3, <2>2
  <2>4. \A o \in 0 .. BY2PG - 1 : /\ o \in at .. at + 3 => y[o] = Byte(s, o - at)
                                  /\ o \notin at .. at + 3 => y[o] = x[o]
    BY <2>2, <2>3, StoreWordIs
  <2>5. x \in [0 .. BY2PG - 1 -> Cell] /\ y \in [0 .. BY2PG - 1 -> Cell]
    BY <2>1, <2>3 DEF Page
  <2>6. at + 4 <= A + 4 * N /\ A + 4 * N < BY2PG
    BY <1>2, <2>2
  <2>7. ASSUME NEW i \in 1 .. n PROVE Word(y, A + 4 * (i - 1), StringAt(a, i))
    <3>1. CASE i = n
      <4>1. ASSUME NEW b \in 0 .. 3 PROVE at + b \in DOMAIN y /\ y[at + b] = Byte(s, b)
        <5>1. PICK o \in Int : o = at + b
          OBVIOUS
        <5>2. o \in at .. at + 3 /\ o \in 0 .. BY2PG - 1 /\ o - at = b
          BY <1>2, <2>6, <5>1
        <5>3. y[o] = Byte(s, o - at)
          BY <2>4, <5>2
        <5>4. QED
          BY <2>5, <5>1, <5>2, <5>3
      <4>2. QED
        BY <2>2, <3>1, <4>1, Zenon DEF Word
    <3>2. CASE i # n
      <4>1. i \in 1 .. n - 1 /\ i \in 1 .. N /\ i < n
        BY <3>2
      <4>w. PICK w : w = StringAt(a, i)
        OBVIOUS
      <4>2. PICK z \in Nat : z = A + 4 * (i - 1)
        BY <1>1
      <4>3. Word(x, z, w)
        BY <1>5, <2>2, <4>1, <4>w, <4>2
      <4>4. z + 3 < at
        BY <2>2, <4>1, <4>w, <4>2
      <4>5. ASSUME NEW b \in 0 .. 3 PROVE z + b \in DOMAIN y /\ y[z + b] = Byte(w, b)
        <5>1. PICK o \in Int : o = z + b
          OBVIOUS
        <5>2. o \in 0 .. BY2PG - 1 /\ o \notin at .. at + 3
          BY <1>2, <2>6, <4>4, <5>1
        <5>3. y[o] = x[o]
          BY <2>4, <5>2
        <5>4. x[o] = Byte(w, b)
          BY <4>3, <5>1, Zenon DEF Word
        <5>5. QED
          BY <2>5, <5>1, <5>2, <5>3, <5>4
      <4>6. QED
        BY <4>w, <4>2, <4>5, Zenon DEF Word
    <3>3. QED
      BY <3>1, <3>2
  <2>8. ASSUME NEW o \in A + 4 * N .. BY2PG - 1 PROVE y[o] = Strings(a)[o]
    <3>1. o \in 0 .. BY2PG - 1 /\ o \notin at .. at + 3
      BY <1>2, <2>6
    <3>2. x[o] = Strings(a)[o]
      BY <1>5, <2>2
    <3>3. QED
      BY <2>4, <3>1, <3>2
  <2>9. QED
    BY <2>1, <2>3, <2>7, <2>8
<1>6. 0 .. N \subseteq B
  <2> HIDE DEF B
  <2>1. QED
    BY <1>4, <1>5, Upward
<1>7. N \in B
  BY <1>6
<1>8. Pointers(a) \in Page
  BY <1>3
<1>9. QED
  BY <1>1, <1>3, <1>7, <1>8

(***************************************************************************)
(* What init_stack leaves in the page, for every vector of arguments that  *)
(* fits: argc and the address of argv from the stack pointer on, and each  *)
(* argv[i] pointing at the caller's string with its end.                   *)
(***************************************************************************)
SeenAt(pg, sp, a) ==
  /\ Word(pg, sp, Len(a))
  /\ \E args \in 0 .. BY2PG - 1 :
       /\ Word(pg, sp + 4, args)
       /\ \A i \in DOMAIN a : \E s \in 0 .. BY2PG - 1 :
            /\ Word(pg, args + 4 * (i - 1), s)
            /\ \A c \in 1 .. a[i] : pg[s + c - 1] = Char(i, c)
            /\ pg[s + a[i]] = Zero

Stored(x, y, at, w) ==
  /\ y \in Page /\ Word(y, at, w)
  /\ \A o \in 0 .. BY2PG - 1 : o < at \/ o > at + 3 => y[o] = x[o]

LEMMA StoredWord ==
  ASSUME NEW x \in Page, NEW at \in Nat, at + 3 < BY2PG, NEW w \in Int
  PROVE  Stored(x, StoreWord(x, at, w), at, w)
<1>0. PICK y : y = StoreWord(x, at, w)
  OBVIOUS
<1>1. BY2PG \in Nat
  BY Sizes
<1>2. y \in Page
  BY <1>0, StoreWordIs
<1>3. \A o \in 0 .. BY2PG - 1 : /\ o \in at .. at + 3 => y[o] = Byte(w, o - at)
                                /\ o \notin at .. at + 3 => y[o] = x[o]
  BY <1>0, StoreWordIs
<1>4. ASSUME NEW b \in 0 .. 3 PROVE at + b \in DOMAIN y /\ y[at + b] = Byte(w, b)
  <2>1. PICK o \in Int : o = at + b
    OBVIOUS
  <2>2. o \in at .. at + 3 /\ o \in 0 .. BY2PG - 1 /\ o - at = b
    BY <1>1, <2>1
  <2>3. y[o] = Byte(w, o - at)
    BY <1>3, <2>2
  <2>4. y \in [0 .. BY2PG - 1 -> Cell]
    BY <1>2 DEF Page
  <2>5. QED
    BY <2>1, <2>2, <2>3, <2>4
<1>5. Word(y, at, w)
  BY <1>4, Zenon DEF Word
<1>6. \A o \in 0 .. BY2PG - 1 : o < at \/ o > at + 3 => y[o] = x[o]
  BY <1>1, <1>3
<1>7. QED
  BY <1>0, <1>2, <1>5, <1>6, Zenon DEF Stored

LEMMA KeptWord ==
  ASSUME NEW x \in Page, NEW y \in Page, NEW z \in Nat, NEW w, Word(x, z, w),
         \A o \in z .. z + 3 : y[o] = x[o]
  PROVE  Word(y, z, w)
<1>1. ASSUME NEW b \in 0 .. 3 PROVE z + b \in DOMAIN y /\ y[z + b] = Byte(w, b)
  <2>1. z + b \in DOMAIN x /\ x[z + b] = Byte(w, b)
    BY Zenon DEF Word
  <2>2. z + b \in z .. z + 3
    OBVIOUS
  <2>3. DOMAIN x = DOMAIN y
    BY DEF Page
  <2>4. QED
    BY <2>1, <2>2, <2>3, Zenon
<1>2. QED
  BY <1>1, Zenon DEF Word

LEMMA StackSeen ==
  ASSUME NEW a \in Seq(Nat), FitsStack(a)
  PROVE  /\ SeenAt(init_stack(a).page, init_stack(a).sp, a)
         /\ init_stack(a).sp \in Nat /\ init_stack(a).sp % 4 = 0
<1>p. PICK p : p = Pointers(a)
  OBVIOUS
<1>1. PICK N \in Nat, A \in Nat : N = Len(a) /\ A = ArgsAt(a)
  BY Layout
<1>2. /\ A >= 8 /\ A % 4 = 0 /\ A + 4 * (N + 1) <= BY2PG - Tot(a) /\ A < BY2PG /\ Tot(a) \in Nat
      /\ \A i \in 1 .. N : /\ StringAt(a, i) \in Nat /\ a[i] \in Nat
                           /\ StringAt(a, i) >= BY2PG - Tot(a)
                           /\ StringAt(a, i) + a[i] < BY2PG
  BY <1>p, <1>1, Layout
<1>3. BY2PG \in Nat
  BY Sizes
<1>4. /\ p \in Page
      /\ \A i \in 1 .. N : Word(p, A + 4 * (i - 1), StringAt(a, i))
      /\ \A o \in A + 4 * N .. BY2PG - 1 : p[o] = Strings(a)[o]
  BY <1>p, <1>1, PointersHold
<1>5. \A i \in 1 .. N : Holds(Strings(a), a, i)
  BY <1>p, <1>1, StringsHold
<1>6. PICK c \in Nat, d \in Nat, e \in Nat, t \in Nat :
        c = A + 4 * N /\ d = A - 4 /\ e = A - 8 /\ t = BY2PG - Tot(a)
  <2>1. A + 4 * N \in Nat /\ A - 4 \in Nat /\ A - 8 \in Nat
    BY <1>2
  <2>2. BY2PG - Tot(a) \in Nat
    BY <1>2, <1>3
  <2>3. QED
    BY <2>1, <2>2, Zenon
<1>7. c + 4 <= t /\ c + 3 < BY2PG /\ d + 3 < BY2PG /\ e + 3 < BY2PG /\ A <= c /\ t <= BY2PG
      /\ d + 4 = A /\ e + 4 = d
  BY <1>2, <1>3, <1>6
<1>8. PICK w \in Int : w = BY2PG - 1
  BY <1>3
<1>9. PICK p1 : p1 = StoreWord(p, c, w)
  OBVIOUS
<1>10. PICK p2 : p2 = StoreWord(p1, d, A)
  OBVIOUS
<1>11. PICK p3 : p3 = StoreWord(p2, e, N)
  OBVIOUS
<1>12. init_stack(a) = [page |-> p3, sp |-> e]
  BY <1>p, <1>1, <1>6, <1>8, <1>9, <1>10, <1>11, Zenon DEF init_stack
<1>13. init_stack(a).page = p3 /\ init_stack(a).sp = e
  BY <1>12
<1>14. p1 \in Page /\ \A o \in 0 .. BY2PG - 1 : o < c \/ o > c + 3 => p1[o] = p[o]
  BY <1>4, <1>7, <1>9, StoredWord DEF Stored
<1>15. p2 \in Page /\ Word(p2, d, A) /\ \A o \in 0 .. BY2PG - 1 : o < d \/ o > d + 3 => p2[o] = p1[o]
  <2>1. p1 \in Page /\ d + 3 < BY2PG /\ A \in Int
    BY <1>7, <1>14
  <2>2. QED
    BY <1>10, <2>1, StoredWord, Zenon DEF Stored
<1>16. p3 \in Page /\ Word(p3, e, N) /\ \A o \in 0 .. BY2PG - 1 : o < e \/ o > e + 3 => p3[o] = p2[o]
  <2>1. p2 \in Page /\ e + 3 < BY2PG /\ N \in Int
    BY <1>7, <1>15
  <2>2. QED
    BY <1>11, <2>1, StoredWord, Zenon DEF Stored
<1>17. ASSUME NEW o \in A .. BY2PG - 1, o < c \/ o > c + 3 PROVE p3[o] = p[o]
  <2>1. o \in 0 .. BY2PG - 1 /\ o > d + 3 /\ o > e + 3
    BY <1>3, <1>7
  <2>2. QED
    BY <1>14, <1>15, <1>16, <1>17, <2>1
<1>18. Word(p3, d, A)
  <2>1. ASSUME NEW o \in d .. d + 3 PROVE p3[o] = p2[o]
    <3>1. o \in 0 .. BY2PG - 1 /\ o > e + 3
      BY <1>3, <1>7
    <3>2. QED
      BY <1>16, <3>1
  <2>2. QED
    BY <1>15, <1>16, <2>1, KeptWord
<1>19. ASSUME NEW i \in 1 .. N
       PROVE  \E s \in 0 .. BY2PG - 1 :
                /\ Word(p3, A + 4 * (i - 1), s)
                /\ \A q \in 1 .. a[i] : p3[s + q - 1] = Char(i, q)
                /\ p3[s + a[i]] = Zero
  <2>1. PICK s \in Nat, l \in Nat, z \in Nat : s = StringAt(a, i) /\ l = a[i] /\ z = A + 4 * (i - 1)
    BY <1>2
  <2>2. s >= t /\ s + l < BY2PG /\ z >= A /\ z + 4 <= c
    BY <1>2, <1>3, <1>6, <2>1
  <2>3. Word(p3, z, s)
    <3>1. Word(p, z, s)
      BY <1>4, <2>1
    <3>2. ASSUME NEW o \in z .. z + 3 PROVE p3[o] = p[o]
      <4>1. o \in A .. BY2PG - 1 /\ o < c
        BY <1>3, <1>7, <2>2
      <4>2. QED
        BY <1>17, <4>1
    <3>3. QED
      BY <1>4, <1>16, <3>1, <3>2, KeptWord
  <2>4. ASSUME NEW o \in s .. s + l PROVE p3[o] = Strings(a)[o]
    <3>1. o \in A .. BY2PG - 1 /\ o > c + 3 /\ o \in c .. BY2PG - 1
      BY <1>3, <1>7, <2>2
    <3>2. QED
      BY <1>4, <1>6, <1>17, <3>1
  <2>5. (\A q \in 1 .. l : Strings(a)[s + q - 1] = Char(i, q)) /\ Strings(a)[s + l] = Zero
    BY <1>5, <2>1, Zenon DEF Holds
  <2>6. (\A q \in 1 .. l : s + q - 1 \in s .. s + l) /\ s + l \in s .. s + l /\ s \in 0 .. BY2PG - 1
    BY <1>3, <2>2
  <2>7. (\A q \in 1 .. l : p3[s + q - 1] = Char(i, q)) /\ p3[s + l] = Zero
    BY <2>4, <2>5, <2>6, Zenon
  <2>8. QED
    BY <2>1, <2>3, <2>6, <2>7, Zenon
<1>20. A \in 0 .. BY2PG - 1 /\ e + 4 = d /\ e % 4 = 0 /\ DOMAIN a = 1 .. N
  <2>1. e % 4 = 0
    <3>1. PICK q \in Int : q = A \div 4 /\ A = 4 * q
      BY <1>2
    <3>2. e = 4 * (q - 2)
      BY <1>6, <3>1
    <3>3. QED
      BY <3>2
  <2>2. A \in 0 .. BY2PG - 1 /\ e + 4 = d
    BY <1>2, <1>3, <1>6
  <2>3. DOMAIN a = 1 .. N
    BY <1>p, <1>1
  <2>4. QED
    BY <2>1, <2>2, <2>3
<1>21. SeenAt(p3, e, a)
  BY <1>p, <1>1, <1>16, <1>18, <1>19, <1>20, Zenon DEF SeenAt
<1>22. QED
  BY <1>13, <1>20, <1>21, Zenon

-----------------------------------------------------------------------------
(* The calls of elf_load_seg, one per page of the segment.                 *)

LEMMA TimesMonotone ==
  ASSUME NEW a \in Int, NEW b \in Int, NEW c \in Nat, a <= b
  PROVE  a * c <= b * c
<1>1. PICK d \in Nat : b = a + d
  <2>1. b - a \in Nat /\ b = a + (b - a)
    OBVIOUS
  <2>2. QED
    BY <2>1
<1>2. b * c = a * c + d * c /\ d * c >= 0
  BY <1>1
<1>3. QED
  BY <1>2

LEMMA DivMod ==
  ASSUME NEW a \in Nat, NEW m \in Nat, m > 0
  PROVE  \E d \in Nat, r \in Nat : d = a \div m /\ r = a % m /\ r < m /\ a = d * m + r
<1>1. a \div m \in Int /\ a % m \in 0 .. m - 1
  OBVIOUS
<1>2. PICK d \in Int, r \in Int : d = a \div m /\ r = a % m
  BY <1>1
<1>3. r \in Nat /\ r < m /\ a = m * d + r
  BY <1>1, <1>2
<1>4. d \in Nat
  <2>1. SUFFICES ASSUME d <= -1 PROVE FALSE
    OBVIOUS
  <2>2. d * m <= (-1) * m
    BY <2>1, TimesMonotone
  <2>3. m * d = d * m
    OBVIOUS
  <2>4. QED
    BY <1>3, <2>2, <2>3
<1>5. a = d * m + r
  BY <1>3
<1>6. QED
  BY <1>2, <1>3, <1>4, <1>5, Zenon

LEMMA DivIs ==
  ASSUME NEW a \in Nat, NEW m \in Nat, m > 0, NEW q \in Int, q * m <= a, a < (q + 1) * m
  PROVE  a \div m = q
<1>1. PICK d \in Nat, r \in Nat : d = a \div m /\ r = a % m /\ r < m /\ a = d * m + r
  BY DivMod
<1>2. CASE d < q
  <2>1. (d + 1) * m <= q * m
    BY <1>2, TimesMonotone
  <2>2. (d + 1) * m = d * m + m
    OBVIOUS
  <2>3. QED
    BY <1>1, <2>1, <2>2
<1>3. CASE d > q
  <2>1. (q + 1) * m <= d * m
    BY <1>3, TimesMonotone
  <2>2. QED
    BY <1>1, <2>1
<1>4. QED
  BY <1>1, <1>2, <1>3

LEMMA CeilDivIs ==
  ASSUME NEW a \in Int, NEW m \in Nat, m > 0
  PROVE  /\ CeilDiv(a, m) \in Nat /\ (a <= 0 => CeilDiv(a, m) = 0)
         /\ a > 0 => (CeilDiv(a, m) - 1) * m < a /\ a <= CeilDiv(a, m) * m /\ CeilDiv(a, m) > 0
<1>1. CASE a <= 0
  BY <1>1 DEF CeilDiv
<1>2. CASE a > 0
  <2>1. PICK x \in Nat : x = a + m - 1
    BY <1>2
  <2>2. PICK d \in Nat, r \in Nat : d = x \div m /\ r < m /\ x = d * m + r
    BY DivMod
  <2>3. CeilDiv(a, m) = d
    BY <1>2, <2>1, <2>2 DEF CeilDiv
  <2>4. (d - 1) * m = d * m - m
    OBVIOUS
  <2>5. PICK y \in Int : y = d * m
    OBVIOUS
  <2>6. y - m < a /\ a <= y
    BY <2>1, <2>2, <2>5
  <2>7. d # 0
    BY <1>2, <2>5, <2>6
  <2>8. QED
    BY <1>2, <2>3, <2>4, <2>5, <2>6, <2>7
<1>3. QED
  BY <1>1, <1>2

Listed(f, M) == f = [n \in 1 .. M |-> f[n]]
Concatenated(s, f, M, g, N) ==
  /\ Len(s) = M + N /\ s = [n \in 1 .. M + N |-> s[n]]
  /\ \A n \in 1 .. M : s[n] = f[n]
  /\ \A n \in 1 .. N : s[M + n] = g[n]

LEMMA ConcatOf ==
  ASSUME NEW M \in Nat, NEW N \in Nat, NEW f, NEW g, Listed(f, M), Listed(g, N)
  PROVE  Concatenated(f \o g, f, M, g, N)
<1>1. PICK S : S = {f[n] : n \in 1 .. M} \cup {g[n] : n \in 1 .. N}
  OBVIOUS
<1>2. f \in [1 .. M -> S] /\ g \in [1 .. N -> S]
  BY <1>1 DEF Listed
<1>3. f \in Seq(S) /\ g \in Seq(S)
  BY <1>2, SeqDef
<1>4. Len(f) = M /\ Len(g) = N
  BY <1>2, <1>3, LenProperties
<1>5. f \o g \in Seq(S)
  BY <1>3
<1>6. Len(f \o g) = M + N /\ f \o g \in [1 .. Len(f \o g) -> S]
  <2>1. Len(f \o g) = Len(f) + Len(g)
    BY <1>3
  <2>2. f \o g \in [1 .. Len(f \o g) -> S]
    BY <1>5, LenProperties
  <2>3. QED
    BY <1>4, <2>1, <2>2
<1>7. ASSUME NEW n \in 1 .. M PROVE (f \o g)[n] = f[n]
  BY <1>3, <1>4
<1>8. ASSUME NEW n \in 1 .. N PROVE (f \o g)[M + n] = g[n]
  BY <1>3, <1>4
<1>9. QED
  BY <1>6, <1>7, <1>8 DEF Concatenated

\* What a call leaves in its page, and what the header of segment i says of page p.
Loaded(ph, i, call) == IF call.src = NULL THEN Fresh(ph.flags) ELSE Filled(Fresh(ph.flags), call, i)
ContentOf(ph, i, p) ==
  LET lo == IF p * BY2PG > ph.vaddr THEN p * BY2PG ELSE ph.vaddr
      hi == MinOf((p + 1) * BY2PG, ph.vaddr + ph.filesz)
  IN IF hi <= lo THEN Fresh(ph.flags)
     ELSE [perm |-> ph.flags, at |-> lo - p * BY2PG, len |-> hi - lo, seg |-> i, src |-> lo - ph.vaddr]

\* Call number n loads page c + n - 1.
Loads1(ph, i, call, p) ==
  /\ VPN(call.va) = p /\ Loaded(ph, i, call) = ContentOf(ph, i, p)

LEMMA FilledIs ==
  ASSUME NEW f, NEW o, NEW l, NEW s, NEW k1, NEW v, l # 0
  PROVE  Filled(Fresh(f), [va |-> v, offset |-> o, src |-> s, len |-> l], k1)
         = [perm |-> f, at |-> o, len |-> l, seg |-> k1, src |-> s]
<1>0. PICK call : call = [va |-> v, offset |-> o, src |-> s, len |-> l]
  OBVIOUS
<1>1. call.len = l /\ call.offset = o /\ call.src = s
  BY <1>0
<1>2. PICK r : r = [[[[[perm |-> f, at |-> 0, len |-> 0, seg |-> 0, src |-> 0] EXCEPT !.at = o]
                      EXCEPT !.len = l] EXCEPT !.seg = k1] EXCEPT !.src = s]
  OBVIOUS
<1>3. r \in [perm : {f}, at : {o}, len : {l}, seg : {k1}, src : {s}]
  BY <1>2
<1>4. r = [perm |-> f, at |-> o, len |-> l, seg |-> k1, src |-> s]
  BY <1>3
<1>5. Filled(Fresh(f), call, k1) = r
  BY <1>1, <1>2, Zenon DEF Filled, Fresh
<1>6. QED
  BY <1>0, <1>4, <1>5, Zenon

(***************************************************************************)
(* Step 1: byte j of the segment starts page p and is in the file.         *)
(***************************************************************************)
LEMMA FilePageLoads ==
  ASSUME NEW ph, ph.vaddr \in Nat, ph.filesz \in Nat, NEW i, NEW j \in Nat, NEW p \in Nat,
         ph.vaddr + j = p * BY2PG, j < ph.filesz
  PROVE  Loads1(ph, i, FilePage(ph, j), p)
<1>1. PICK B \in Nat, v \in Nat, z \in Nat, x \in Nat :
        B = BY2PG /\ v = ph.vaddr /\ z = ph.filesz /\ x = p * B /\ B > 0
  BY Sizes
<1>2. (p + 1) * B = x + B
  BY <1>1
<1>3. PICK l \in Nat : l = MinOf(z - j, B) /\ l > 0
  BY <1>1 DEF MinOf
<1>4. PICK call : call = FilePage(ph, j) /\ call = [va |-> v + j, offset |-> 0, src |-> j, len |-> l]
  BY <1>1, <1>3, Zenon DEF FilePage
<1>5. call.va = v + j /\ call.src = j
  BY <1>4
<1>6. VPN(call.va) = p
  <2>1. v + j = x
    BY <1>1
  <2>2. p * B <= x /\ x < (p + 1) * B
    BY <1>1, <1>2
  <2>3. x \div B = p
    BY <1>1, <2>2, DivIs
  <2>4. QED
    BY <1>1, <1>5, <2>1, <2>3, Zenon DEF VPN
<1>7. Loaded(ph, i, call) = [perm |-> ph.flags, at |-> 0, len |-> l, seg |-> i, src |-> j]
  <2>1. j # NULL
    BY Sizes
  <2>2. Filled(Fresh(ph.flags), call, i) = [perm |-> ph.flags, at |-> 0, len |-> l, seg |-> i, src |-> j]
    <3>1. l # 0
      BY <1>3
    <3>f. PICK f : f = ph.flags
      OBVIOUS
    <3>2. PICK o \in Nat : o = 0
      OBVIOUS
    <3>3. Filled(Fresh(f), [va |-> v + j, offset |-> o, src |-> j, len |-> l], i)
          = [perm |-> f, at |-> o, len |-> l, seg |-> i, src |-> j]
      BY <3>1, FilledIs
    <3>4. QED
      BY <1>4, <3>f, <3>2, <3>3, Zenon
  <2>3. QED
    BY <1>5, <2>1, <2>2, Zenon DEF Loaded
<1>8. ContentOf(ph, i, p) = [perm |-> ph.flags, at |-> 0, len |-> l, seg |-> i, src |-> j]
  <2>1. PICK lo \in Int : lo = IF x > v THEN x ELSE v
    OBVIOUS
  <2>2. PICK hi \in Int : hi = MinOf(x + B, v + z)
    BY DEF MinOf
  <2>3. x = v + j
    BY <1>1
  <2>4. lo = x /\ hi > lo /\ hi - lo = l /\ lo - x = 0 /\ lo - v = j
    BY <1>1, <1>3, <2>1, <2>2, <2>3 DEF MinOf
  <2>5. ContentOf(ph, i, p) = IF hi <= lo THEN Fresh(ph.flags)
          ELSE [perm |-> ph.flags, at |-> lo - x, len |-> hi - lo, seg |-> i, src |-> lo - v]
    BY <1>1, <1>2, <2>1, <2>2, Zenon DEF ContentOf
  <2>6. ~(hi <= lo)
    BY <2>4
  <2>7. QED
    BY <2>4, <2>5, <2>6, Zenon
<1>9. QED
  BY <1>4, <1>6, <1>7, <1>8, Zenon DEF Loads1

(***************************************************************************)
(* Step 2: byte j of the segment starts page p and is past the file part.  *)
(***************************************************************************)
LEMMA ZeroPageLoads ==
  ASSUME NEW ph, ph.vaddr \in Nat, ph.filesz \in Nat, NEW i, NEW j \in Nat, NEW p \in Nat,
         ph.vaddr + j = p * BY2PG, j >= ph.filesz
  PROVE  Loads1(ph, i, ZeroPage(ph, j), p)
<1>1. PICK B \in Nat, v \in Nat, z \in Nat, x \in Nat :
        B = BY2PG /\ v = ph.vaddr /\ z = ph.filesz /\ x = p * B /\ B > 0
  BY Sizes
<1>2. (p + 1) * B = x + B
  BY <1>1
<1>4. PICK call : call = ZeroPage(ph, j) /\ call = [va |-> v + j, offset |-> 0, src |-> NULL, len |-> 0]
  BY <1>1, Zenon DEF ZeroPage
<1>5. call.va = v + j /\ call.src = NULL
  BY <1>4
<1>6. VPN(call.va) = p
  <2>1. v + j = x
    BY <1>1
  <2>2. p * B <= x /\ x < (p + 1) * B
    BY <1>1, <1>2
  <2>3. x \div B = p
    BY <1>1, <2>2, DivIs
  <2>4. QED
    BY <1>1, <1>5, <2>1, <2>3, Zenon DEF VPN
<1>7. Loaded(ph, i, call) = Fresh(ph.flags)
  BY <1>5, Zenon DEF Loaded
<1>8. ContentOf(ph, i, p) = Fresh(ph.flags)
  <2>1. PICK lo \in Int : lo = IF x > v THEN x ELSE v
    OBVIOUS
  <2>2. PICK hi \in Int : hi = MinOf(x + B, v + z)
    BY DEF MinOf
  <2>3. x = v + j
    BY <1>1
  <2>4. hi <= lo
    BY <1>1, <2>1, <2>2, <2>3 DEF MinOf
  <2>5. ContentOf(ph, i, p) = IF hi <= lo THEN Fresh(ph.flags)
          ELSE [perm |-> ph.flags, at |-> lo - x, len |-> hi - lo, seg |-> i, src |-> lo - v]
    BY <1>1, <1>2, <2>1, <2>2, Zenon DEF ContentOf
  <2>6. QED
    BY <2>4, <2>5, Zenon
<1>9. QED
  BY <1>4, <1>6, <1>7, <1>8, Zenon DEF Loads1

(***************************************************************************)
(* Steps 1 and 2 from byte j on, which starts page c: one call per page,   *)
(* up to the page of the segment's last byte.                              *)
(***************************************************************************)
LEMMA PagesLoad ==
  ASSUME NEW ph, ph.vaddr \in Nat, ph.filesz \in Nat, ph.memsz \in Nat, ph.filesz <= ph.memsz,
         NEW i, NEW j \in Nat, NEW c \in Nat, ph.vaddr + j = c * BY2PG
  PROVE  \E L \in Nat :
           /\ Len(Pages(ph, j)) = L /\ Pages(ph, j) = [n \in 1 .. L |-> Pages(ph, j)[n]]
           /\ \A n \in 1 .. L : Loads1(ph, i, Pages(ph, j)[n], c + n - 1)
           /\ ph.memsz <= j => L = 0
           /\ ph.memsz > j => L > 0 /\ VPN(ph.vaddr + ph.memsz - 1) = c + L - 1
<1>1. PICK B \in Nat, v \in Nat, z \in Nat, m \in Nat, x \in Nat :
        B = BY2PG /\ v = ph.vaddr /\ z = ph.filesz /\ m = ph.memsz /\ x = c * B /\ B > 0
  BY Sizes
<1>2. v + j = x /\ z <= m
  BY <1>1
<1>3. PICK M \in Nat : /\ M = CeilDiv(z - j, B) /\ (z - j <= 0 => M = 0)
                       /\ z - j > 0 => (M - 1) * B < z - j /\ z - j <= M * B /\ M > 0
  <2>1. z - j \in Int
    OBVIOUS
  <2>2. QED
    BY <1>1, <2>1, CeilDivIs
<1>4. PICK y \in Nat : y = M * B
  OBVIOUS
<1>5. PICK d \in Int : d = m - (j + y)
  OBVIOUS
<1>6. PICK N \in Nat : /\ N = CeilDiv(d, B) /\ (d <= 0 => N = 0)
                       /\ d > 0 => (N - 1) * B < d /\ d <= N * B /\ N > 0
  BY <1>1, CeilDivIs
<1>7. PICK f, g : /\ f = [n \in 1 .. M |-> FilePage(ph, j + (n - 1) * B)]
                  /\ g = [n \in 1 .. N |-> ZeroPage(ph, j + y + (n - 1) * B)]
  OBVIOUS
<1>8. PICK s : s = Pages(ph, j)
  OBVIOUS
<1>9. s = f \o g
  BY <1>1, <1>3, <1>4, <1>5, <1>6, <1>7, <1>8, Zenon DEF Pages, ROUND
<1>10. Listed(f, M) /\ Listed(g, N)
  BY <1>7, Zenon DEF Listed
<1>11. /\ Len(s) = M + N /\ s = [n \in 1 .. M + N |-> s[n]]
       /\ \A n \in 1 .. M : s[n] = f[n]
       /\ \A n \in 1 .. N : s[M + n] = g[n]
  <2>1. Concatenated(f \o g, f, M, g, N)
    BY <1>10, ConcatOf, Zenon
  <2>2. QED
    BY <1>9, <2>1, Zenon DEF Concatenated
<1>12. ASSUME NEW n \in 1 .. M PROVE Loads1(ph, i, s[n], c + n - 1)
  <2>1. PICK w \in Nat : w = (n - 1) * B
    OBVIOUS
  <2>2. w <= (M - 1) * B
    BY <2>1, TimesMonotone
  <2>3. z - j > 0
    BY <1>3
  <2>4. j + w < z
    <3>1. PICK e \in Int : e = (M - 1) * B
      OBVIOUS
    <3>2. QED
      BY <1>3, <2>2, <2>3, <3>1
  <2>5. PICK p \in Nat : p = c + n - 1
    OBVIOUS
  <2>6. p * B = x + w
    BY <1>1, <2>1, <2>5
  <2>7. PICK q \in Nat : q = j + w
    OBVIOUS
  <2>8. v + q = p * B
    BY <1>2, <2>6, <2>7
  <2>9. Loads1(ph, i, FilePage(ph, q), p)
    BY <1>1, <2>4, <2>7, <2>8, FilePageLoads
  <2>10. s[n] = FilePage(ph, q)
    BY <1>7, <1>11, <2>1, <2>7, Zenon
  <2>11. QED
    BY <2>5, <2>9, <2>10, Zenon
<1>13. ASSUME NEW n \in 1 .. N PROVE Loads1(ph, i, s[M + n], c + (M + n) - 1)
  <2>1. PICK w \in Nat : w = (n - 1) * B
    OBVIOUS
  <2>2. j + y >= z
    BY <1>3, <1>4
  <2>3. PICK p \in Nat : p = c + (M + n) - 1
    OBVIOUS
  <2>4. p * B = x + y + w
    BY <1>1, <1>4, <2>1, <2>3
  <2>5. PICK q \in Nat : q = j + y + w
    OBVIOUS
  <2>6. v + q = p * B /\ q >= z
    BY <1>2, <2>2, <2>4, <2>5
  <2>7. Loads1(ph, i, ZeroPage(ph, q), p)
    BY <1>1, <2>6, ZeroPageLoads
  <2>8. s[M + n] = ZeroPage(ph, q)
    BY <1>7, <1>11, <2>1, <2>5, Zenon
  <2>9. QED
    BY <2>3, <2>7, <2>8, Zenon
<1>14. PICK L \in Nat : L = M + N
  OBVIOUS
<1>15. ASSUME NEW n \in 1 .. L PROVE Loads1(ph, i, s[n], c + n - 1)
  <2>1. CASE n \in 1 .. M
    BY <1>12, <2>1
  <2>2. CASE n \notin 1 .. M
    <3>1. PICK k1 \in 1 .. N : n = M + k1
      <4>1. n - M \in 1 .. N /\ n = M + (n - M)
        BY <1>14, <2>2
      <4>2. QED
        BY <4>1
    <3>2. QED
      BY <1>13, <3>1
  <2>3. QED
    BY <2>1, <2>2
<1>16. ASSUME m <= j PROVE L = 0
  BY <1>2, <1>3, <1>4, <1>5, <1>6, <1>14, <1>16
<1>17. ASSUME m > j PROVE L > 0 /\ VPN(v + m - 1) = c + L - 1
  <2>1. L > 0 /\ (L - 1) * B < m - j /\ m - j <= L * B
    <3>1. CASE d <= 0
      <4>1. N = 0 /\ L = M
        BY <1>6, <1>14, <3>1
      <4>2. m - j <= y
        BY <1>5, <3>1
      <4>3. z - j > 0
        BY <1>3, <1>4, <1>17, <4>2
      <4>4. PICK e \in Int : e = (M - 1) * B
        OBVIOUS
      <4>5. e < z - j /\ M > 0
        BY <1>3, <4>3, <4>4
      <4>6. e < m - j
        BY <1>2, <4>5
      <4>7. QED
        BY <1>4, <4>1, <4>2, <4>4, <4>5, <4>6
    <3>2. CASE d > 0
      <4>1. PICK e \in Int, h \in Int : e = (N - 1) * B /\ h = N * B
        OBVIOUS
      <4>2. e < d /\ d <= h /\ N > 0
        BY <1>6, <3>2, <4>1
      <4>3. (L - 1) * B = y + e /\ L * B = y + h
        BY <1>4, <1>14, <4>1
      <4>4. y + e < m - j /\ m - j <= y + h
        BY <1>5, <4>2
      <4>5. QED
        BY <1>14, <4>2, <4>3, <4>4
    <3>3. QED
      BY <3>1, <3>2
  <2>2. PICK q \in Nat, a \in Nat : q = c + L - 1 /\ a = v + m - 1
    BY <1>17, <2>1
  <2>3. PICK e \in Int, h \in Int : e = (L - 1) * B /\ h = L * B
    OBVIOUS
  <2>4. q * B = x + e /\ (q + 1) * B = x + h
    BY <1>1, <2>2, <2>3
  <2>5. x + e <= a /\ a < x + h
    BY <1>2, <2>1, <2>2, <2>3
  <2>6. a \div B = q
    BY <1>1, <2>4, <2>5, DivIs
  <2>7. QED
    BY <1>1, <2>1, <2>2, <2>6, Zenon DEF VPN
<1>18. QED
  BY <1>1, <1>8, <1>11, <1>14, <1>15, <1>16, <1>17, Zenon

(***************************************************************************)
(* The page that a segment starts inside, with its file part.              *)
(***************************************************************************)
FirstPage(ph, r) == [va |-> ph.vaddr, offset |-> r, src |-> 0, len |-> MinOf(ph.filesz, BY2PG - r)]

LEMMA FirstPageLoads ==
  ASSUME NEW ph, ph.vaddr \in Nat, ph.filesz \in Nat, NEW i, NEW q \in Nat, NEW r \in Nat, NEW x \in Nat,
         x = q * BY2PG, ph.vaddr = x + r, r > 0, r < BY2PG, ph.filesz > 0
  PROVE  Loads1(ph, i, FirstPage(ph, r), q)
<1>1. PICK B \in Nat, v \in Nat, z \in Nat :
        B = BY2PG /\ v = ph.vaddr /\ z = ph.filesz /\ x = q * B /\ B > 0
  <2>1. BY2PG \in Nat /\ BY2PG > 0
    BY Sizes
  <2>2. QED
    BY <2>1, Zenon
<1>2. (q + 1) * B = x + B
  BY <1>1
<1>a. v = x + r /\ r < B /\ z > 0
  BY <1>1
<1>3. PICK l \in Nat : l = MinOf(z, B - r) /\ l > 0
  BY <1>a DEF MinOf
<1>f. PICK f : f = ph.flags
  OBVIOUS
<1>4. PICK o \in Nat : o = 0
  OBVIOUS
<1>5. PICK call : call = FirstPage(ph, r) /\ call = [va |-> v, offset |-> r, src |-> o, len |-> l]
  BY <1>1, <1>3, <1>f, <1>4, Zenon DEF FirstPage
<1>6. call.va = v /\ call.src = o
  BY <1>5
<1>7. VPN(call.va) = q
  <2>1. q * B <= v /\ v < (q + 1) * B
    BY <1>1, <1>2, <1>a
  <2>2. v \div B = q
    BY <1>1, <2>1, DivIs
  <2>3. QED
    BY <1>1, <1>6, <2>2, Zenon DEF VPN
<1>8. Loaded(ph, i, call) = [perm |-> f, at |-> r, len |-> l, seg |-> i, src |-> o]
  <2>1. o # NULL
    BY Sizes
  <2>2. l # 0
    BY <1>3
  <2>3. Filled(Fresh(f), [va |-> v, offset |-> r, src |-> o, len |-> l], i)
        = [perm |-> f, at |-> r, len |-> l, seg |-> i, src |-> o]
    BY <2>2, FilledIs
  <2>4. QED
    BY <1>f, <1>4, <1>5, <1>6, <2>1, <2>3, Zenon DEF Loaded
<1>9. ContentOf(ph, i, q) = [perm |-> f, at |-> r, len |-> l, seg |-> i, src |-> o]
  <2>1. PICK lo \in Int : lo = IF x > v THEN x ELSE v
    OBVIOUS
  <2>2. PICK hi \in Int : hi = MinOf(x + B, v + z)
    BY DEF MinOf
  <2>3. lo = v /\ hi > lo /\ hi - lo = l /\ lo - x = r /\ lo - v = o
    BY <1>a, <1>3, <1>f, <1>4, <2>1, <2>2 DEF MinOf
  <2>4. ContentOf(ph, i, q) = IF hi <= lo THEN Fresh(ph.flags)
          ELSE [perm |-> ph.flags, at |-> lo - x, len |-> hi - lo, seg |-> i, src |-> lo - v]
    BY <1>1, <1>2, <2>1, <2>2, Zenon DEF ContentOf
  <2>5. ~(hi <= lo)
    BY <2>3
  <2>6. QED
    BY <1>f, <1>4, <2>3, <2>4, <2>5, Zenon
<1>10. QED
  BY <1>5, <1>7, <1>8, <1>9, Zenon DEF Loads1

(***************************************************************************)
(* A segment as the linker makes it, and its calls: one per page, in order.*)
(***************************************************************************)
Linked(ph) ==
  /\ ph.vaddr \in Nat /\ ph.filesz \in Nat /\ ph.memsz \in Nat
  /\ ph.filesz <= ph.memsz /\ ph.memsz > 0
  /\ \/ ph.vaddr % BY2PG = 0
     \/ ph.filesz = ph.memsz
     \/ ph.filesz >= BY2PG - (ph.vaddr % BY2PG)

SegLoaded(ph, i, s, q, L) ==
  /\ Len(s) = L /\ L > 0 /\ q = VPN(ph.vaddr) /\ VPN(ph.vaddr + ph.memsz - 1) = q + L - 1
  /\ \A n \in 1 .. L : Loads1(ph, i, s[n], q + n - 1)

LEMMA SegLoads ==
  ASSUME NEW ph, Linked(ph), NEW i
  PROVE  \E q \in Nat, L \in Nat : SegLoaded(ph, i, elf_load_seg(ph), q, L)
<1>1. PICK B \in Nat, v \in Nat, z \in Nat, m \in Nat :
        /\ B = BY2PG /\ v = ph.vaddr /\ z = ph.filesz /\ m = ph.memsz /\ B > 0
        /\ z <= m /\ m > 0
  BY Sizes DEF Linked
<1>2. PICK q \in Nat, r \in Nat : q = v \div B /\ r = v % B /\ r < B /\ v = q * B + r
  BY <1>1, DivMod
<1>3. r = 0 \/ z = m \/ z >= B - r
  BY <1>1, <1>2 DEF Linked
<1>4. PICK x \in Nat : x = q * B /\ (q + 1) * B = x + B /\ v = x + r
  BY <1>2
<1>a. r < B /\ v = x + r /\ z <= m /\ m > 0 /\ (r = 0 \/ z = m \/ z >= B - r)
  BY <1>1, <1>2, <1>3, <1>4
<1>5. q = VPN(ph.vaddr) /\ r = ph.vaddr % BY2PG
  BY <1>1, <1>2, Zenon DEF VPN
<1>6. PICK i0 \in Nat : i0 = MinOf(z, B - r)
  BY <1>a DEF MinOf
<1>7. PICK s : s = elf_load_seg(ph)
  OBVIOUS
<1>8. CASE r = 0
  <2>1. s = Pages(ph, 0)
    BY <1>5, <1>7, <1>8, Zenon DEF elf_load_seg
  <2>2. PICK j \in Nat : j = 0
    OBVIOUS
  <2>3. ph.vaddr + j = q * BY2PG /\ ph.filesz <= ph.memsz /\ ph.memsz > j
    BY <1>1, <1>2, <1>8, <2>2
  <2>4. PICK L \in Nat :
          /\ Len(Pages(ph, j)) = L /\ Pages(ph, j) = [n \in 1 .. L |-> Pages(ph, j)[n]]
          /\ \A n \in 1 .. L : Loads1(ph, i, Pages(ph, j)[n], q + n - 1)
          /\ ph.memsz <= j => L = 0
          /\ ph.memsz > j => L > 0 /\ VPN(ph.vaddr + ph.memsz - 1) = q + L - 1
    BY <1>1, <2>3, PagesLoad
  <2>5. QED
    BY <1>5, <1>7, <2>1, <2>2, <2>3, <2>4, Zenon DEF SegLoaded
<1>9. CASE r > 0
  <2>1. z > 0
    BY <1>a, <1>9
  <2>2. Loads1(ph, i, FirstPage(ph, r), q)
    BY <1>1, <1>4, <1>5, <1>a, <1>9, <2>1, FirstPageLoads
  <2>3. PICK t, g : t = <<FirstPage(ph, r)>> /\ g = Pages(ph, i0)
    OBVIOUS
  <2>4. s = t \o g
    <3>1. r # 0
      BY <1>9
    <3>2. QED
      BY <1>1, <1>5, <1>6, <1>7, <2>3, <3>1, Zenon DEF elf_load_seg, FirstPage
  <2>5. PICK N \in Nat : /\ Listed(g, N) /\ \A n \in 1 .. N : Loads1(ph, i, g[n], q + (1 + n) - 1)
                         /\ VPN(ph.vaddr + ph.memsz - 1) = q + (1 + N) - 1
    <3>1. CASE z < B - r
      <4>1. z = m /\ i0 = z
        BY <1>a, <1>6, <1>9, <3>1 DEF MinOf
      <4>2. CeilDiv(z - i0, B) = 0
        BY <4>1 DEF CeilDiv
      <4>3. ROUND(z - i0, B) = 0
        BY <4>2 DEF ROUND
      <4>4. CeilDiv(m - (i0 + 0), B) = 0
        BY <4>1 DEF CeilDiv
      <4>5. PICK f, h : f = [n \in 1 .. 0 |-> FilePage(ph, i0 + (n - 1) * B)]
                        /\ h = [n \in 1 .. 0 |-> ZeroPage(ph, i0 + 0 + (n - 1) * B)]
        OBVIOUS
      <4>6. g = f \o h
        BY <1>1, <2>3, <4>2, <4>3, <4>4, <4>5, Zenon DEF Pages
      <4>7. Listed(f, 0) /\ Listed(h, 0)
        BY <4>5, Zenon DEF Listed
      <4>8. PICK o \in Nat : o = 0
        OBVIOUS
      <4>9. Listed(f, o) /\ Listed(h, o)
        BY <4>7, <4>8, Zenon
      <4>10. Concatenated(f \o h, f, o, h, o)
        BY <4>9, ConcatOf, Zenon
      <4>11. g = [n \in 1 .. o + o |-> g[n]]
        BY <4>6, <4>10, Zenon DEF Concatenated
      <4>12. o + o = 0
        BY <4>8
      <4>13. Listed(g, 0)
        BY <4>11, <4>12, Zenon DEF Listed
      <4>14. PICK a \in Nat : a = v + m - 1 /\ x <= a /\ a < x + B
        BY <1>a, <3>1, <4>1
      <4>15. a \div B = q
        BY <1>1, <1>4, <4>14, DivIs
      <4>16. VPN(ph.vaddr + ph.memsz - 1) = q
        BY <1>1, <4>14, <4>15, Zenon DEF VPN
      <4>17. q + (1 + 0) - 1 = q
        OBVIOUS
      <4>18. \A n \in 1 .. 0 : Loads1(ph, i, g[n], q + (1 + n) - 1)
        OBVIOUS
      <4>19. QED
        BY <4>13, <4>16, <4>17, <4>18
    <3>2. CASE z >= B - r
      <4>1. i0 = B - r
        BY <1>a, <1>6, <3>2 DEF MinOf
      <4>2. PICK c \in Nat : c = q + 1
        OBVIOUS
      <4>3. ph.vaddr + i0 = c * BY2PG /\ ph.filesz <= ph.memsz
        <5>1. v + i0 = x + B
          BY <1>a, <4>1
        <5>2. QED
          BY <1>1, <1>4, <4>2, <5>1
      <4>4. PICK L \in Nat :
              /\ Len(Pages(ph, i0)) = L /\ Pages(ph, i0) = [n \in 1 .. L |-> Pages(ph, i0)[n]]
              /\ \A n \in 1 .. L : Loads1(ph, i, Pages(ph, i0)[n], c + n - 1)
              /\ ph.memsz <= i0 => L = 0
              /\ ph.memsz > i0 => L > 0 /\ VPN(ph.vaddr + ph.memsz - 1) = c + L - 1
        BY <1>1, <4>3, PagesLoad
      <4>5. Listed(g, L)
        BY <2>3, <4>4, Zenon DEF Listed
      <4>6. ASSUME NEW n \in 1 .. L PROVE Loads1(ph, i, g[n], q + (1 + n) - 1)
        <5>1. c + n - 1 = q + (1 + n) - 1
          BY <4>2
        <5>2. QED
          BY <2>3, <4>4, <5>1, Zenon
      <4>7. VPN(ph.vaddr + ph.memsz - 1) = q + (1 + L) - 1
        <5>1. CASE m > i0
          <6>1. c + L - 1 = q + (1 + L) - 1
            BY <4>2
          <6>2. QED
            BY <1>1, <4>4, <5>1, <6>1
        <5>2. CASE m <= i0
          <6>1. L = 0
            BY <1>1, <4>4, <5>2
          <6>2. PICK a \in Nat : a = v + m - 1 /\ x <= a /\ a < x + B
            BY <1>a, <4>1, <5>2
          <6>3. q * B <= a /\ a < (q + 1) * B /\ B > 0
            BY <1>1, <1>4, <6>2
          <6>6. a \div B = q
            BY <6>3, DivIs
          <6>4. VPN(ph.vaddr + ph.memsz - 1) = q
            BY <1>1, <6>2, <6>6, Zenon DEF VPN
          <6>5. QED
            BY <6>1, <6>4
        <5>3. QED
          BY <5>1, <5>2
      <4>8. QED
        BY <4>5, <4>6, <4>7
    <3>3. QED
      BY <1>a, <3>1, <3>2
  <2>6. PICK M \in Nat : M = 1
    OBVIOUS
  <2>7. Listed(t, M) /\ t[1] = FirstPage(ph, r)
    BY <2>3, <2>6 DEF Listed
  <2>8. Concatenated(t \o g, t, M, g, N)
    BY <2>5, <2>7, ConcatOf, Zenon
  <2>9. /\ Len(s) = M + N /\ \A n \in 1 .. M : s[n] = t[n]
        /\ \A n \in 1 .. N : s[M + n] = g[n]
    BY <2>4, <2>8, Zenon DEF Concatenated
  <2>10. PICK L \in Nat : L = 1 + N /\ L > 0
    OBVIOUS
  <2>11. ASSUME NEW n \in 1 .. L PROVE Loads1(ph, i, s[n], q + n - 1)
    <3>1. CASE n = 1
      <4>1. s[1] = FirstPage(ph, r) /\ q + 1 - 1 = q
        BY <2>6, <2>7, <2>9
      <4>2. QED
        BY <2>2, <3>1, <4>1, Zenon
    <3>2. CASE n # 1
      <4>1. PICK k1 \in 1 .. N : n = 1 + k1
        <5>1. n - 1 \in 1 .. N /\ n = 1 + (n - 1)
          BY <2>10, <3>2
        <5>2. QED
          BY <5>1
      <4>2. s[n] = g[k1]
        BY <2>6, <2>9, <4>1
      <4>3. QED
        BY <2>5, <4>1, <4>2, Zenon
    <3>3. QED
      BY <3>1, <3>2
  <2>12. Len(s) = L /\ VPN(ph.vaddr + ph.memsz - 1) = q + L - 1
    BY <2>5, <2>6, <2>9, <2>10
  <2>13. QED
    BY <1>5, <1>7, <2>10, <2>11, <2>12, Zenon DEF SegLoaded
<1>10. QED
  BY <1>8, <1>9

-----------------------------------------------------------------------------
(* The memory a program makes, page by page.                               *)

LoadsOf(x)      == {i \in DOMAIN x : x[i].type = "load"}
Owner(x, p)     == CHOOSE i \in LoadsOf(x) : p \in PagesOf(x[i])
Ref(x, p)       == ContentOf(x[Owner(x, p)], Owner(x, p), p)
Before(x, s)    == UNION {PagesOf(x[i]) : i \in {j \in LoadsOf(x) : j < s}}
First(x, s, n)  == VPN(x[s].vaddr) .. VPN(x[s].vaddr) + n - 1
Image(x, S)     == [p \in S |-> Ref(x, p)]

LEMMA ProgramIs ==
  ASSUME NEW x \in Programs
  PROVE  /\ Len(x) \in Nat /\ DOMAIN x = 1 .. Len(x)
         /\ \A i \in LoadsOf(x) : i \in 1 .. Len(x) /\ Linked(x[i])
         /\ \A i, j \in LoadsOf(x) : i # j => PagesOf(x[i]) \cap PagesOf(x[j]) = {}
<1>1. x \in Seq([type : STRING, vaddr : Nat, filesz : Nat, memsz : Nat, flags : STRING])
  BY ProgramAssumption
<1>2. Len(x) \in Nat /\ DOMAIN x = 1 .. Len(x)
  BY <1>1
<1>3. ASSUME NEW i \in LoadsOf(x) PROVE i \in 1 .. Len(x) /\ Linked(x[i])
  <2>1. i \in DOMAIN x /\ x[i].type = "load"
    BY DEF LoadsOf
  <2>2. x[i].vaddr \in Nat /\ x[i].filesz \in Nat /\ x[i].memsz \in Nat
    <3>1. PICK T : T = STRING
      OBVIOUS
    <3>2. PICK R : R = [type : T, vaddr : Nat, filesz : Nat, memsz : Nat, flags : T]
      OBVIOUS
    <3>3. x \in Seq(R)
      BY <1>1, <3>1, <3>2, Zenon
    <3>4. x[i] \in R
      BY <1>2, <2>1, <3>3
    <3>5. QED
      BY <3>2, <3>4
  <2>3. /\ x[i].filesz <= x[i].memsz /\ x[i].memsz > 0
        /\ \/ x[i].vaddr % BY2PG = 0
           \/ x[i].filesz = x[i].memsz
           \/ x[i].filesz >= BY2PG - (x[i].vaddr % BY2PG)
    BY <2>1, ProgramAssumption, Zenon
  <2>4. QED
    BY <1>2, <2>1, <2>2, <2>3, Zenon DEF Linked
<1>4. ASSUME NEW i \in LoadsOf(x), NEW j \in LoadsOf(x), i # j
      PROVE  PagesOf(x[i]) \cap PagesOf(x[j]) = {}
  <2>1. i \in DOMAIN x /\ x[i].type = "load" /\ j \in DOMAIN x \ {i} /\ x[j].type = "load"
    BY <1>4 DEF LoadsOf
  <2>2. QED
    BY <2>1, ProgramAssumption, Zenon
<1>5. QED
  BY <1>2, <1>3, <1>4

LEMMA RefIs ==
  ASSUME NEW x \in Programs, NEW i \in LoadsOf(x), NEW p \in PagesOf(x[i])
  PROVE  Ref(x, p) = ContentOf(x[i], i, p)
<1>1. Owner(x, p) \in LoadsOf(x) /\ p \in PagesOf(x[Owner(x, p)])
  BY Zenon DEF Owner
<1>2. Owner(x, p) = i
  BY <1>1, ProgramIs
<1>3. QED
  BY <1>2, Zenon DEF Ref

(***************************************************************************)
(* Call n of segment s adds one page, with what the reference says.        *)
(***************************************************************************)
LEMMA SegmentPages ==
  ASSUME NEW x \in Programs, NEW s \in LoadsOf(x)
  PROVE  /\ Len(elf_load_seg(x[s])) \in Nat /\ Len(elf_load_seg(x[s])) > 0
         /\ First(x, s, 0) = {} /\ First(x, s, Len(elf_load_seg(x[s]))) = PagesOf(x[s])
         /\ \A n \in 1 .. Len(elf_load_seg(x[s])) :
              /\ First(x, s, n) = First(x, s, n - 1) \cup {VPN(elf_load_seg(x[s])[n].va)}
              /\ Ref(x, VPN(elf_load_seg(x[s])[n].va)) = Loaded(x[s], s, elf_load_seg(x[s])[n])
              /\ VPN(elf_load_seg(x[s])[n].va) \in Nat
<1>1. PICK c : c = elf_load_seg(x[s])
  OBVIOUS
<1>2. Linked(x[s])
  BY ProgramIs
<1>3. PICK q \in Nat, L \in Nat : SegLoaded(x[s], s, c, q, L)
  BY <1>1, <1>2, SegLoads
<1>4. /\ Len(c) = L /\ L > 0 /\ q = VPN(x[s].vaddr) /\ VPN(x[s].vaddr + x[s].memsz - 1) = q + L - 1
      /\ \A n \in 1 .. L : Loads1(x[s], s, c[n], q + n - 1)
  BY <1>3, Zenon DEF SegLoaded
<1>5. PagesOf(x[s]) = q .. q + L - 1
  BY <1>4, Zenon DEF PagesOf
<1>6. \A n : First(x, s, n) = q .. q + n - 1
  BY <1>4, Zenon DEF First
<1>7. First(x, s, 0) = {}
  BY <1>6
<1>8. ASSUME NEW n \in 1 .. L
      PROVE  /\ First(x, s, n) = First(x, s, n - 1) \cup {VPN(c[n].va)}
             /\ Ref(x, VPN(c[n].va)) = Loaded(x[s], s, c[n])
             /\ VPN(c[n].va) \in Nat
  <2>1. VPN(c[n].va) = q + n - 1 /\ Loaded(x[s], s, c[n]) = ContentOf(x[s], s, q + n - 1)
    BY <1>4, Zenon DEF Loads1
  <2>2. q + n - 1 \in Nat /\ q + n - 1 \in q .. q + L - 1
    OBVIOUS
  <2>3. Ref(x, q + n - 1) = ContentOf(x[s], s, q + n - 1)
    BY <1>5, <2>2, RefIs
  <2>4. q .. q + n - 1 = (q .. q + (n - 1) - 1) \cup {q + n - 1}
    OBVIOUS
  <2>5. QED
    BY <1>6, <2>1, <2>2, <2>3, <2>4, Zenon
<1>9. QED
  BY <1>1, <1>4, <1>5, <1>6, <1>7, <1>8, Zenon

LEMMA BeforeNext ==
  ASSUME NEW x \in Programs, NEW s \in 1 .. Len(x)
  PROVE  /\ s \in LoadsOf(x) => Before(x, s + 1) = Before(x, s) \cup PagesOf(x[s])
         /\ s \notin LoadsOf(x) => Before(x, s + 1) = Before(x, s)
<1>1. \A i \in LoadsOf(x) : i \in Nat /\ (i < s + 1 <=> i < s \/ i = s)
  BY ProgramIs
<1>2. \A p, t : p \in Before(x, t) <=> \E i \in LoadsOf(x) : i < t /\ p \in PagesOf(x[i])
  BY DEF Before
<1>3. ASSUME s \in LoadsOf(x) PROVE Before(x, s + 1) = Before(x, s) \cup PagesOf(x[s])
  BY <1>1, <1>2, <1>3
<1>4. ASSUME s \notin LoadsOf(x) PROVE Before(x, s + 1) = Before(x, s)
  <2>1. \A i \in LoadsOf(x) : i < s + 1 <=> i < s
    BY <1>1, <1>4
  <2>2. \A p : p \in Before(x, s + 1) <=> p \in Before(x, s)
    BY <1>2, <2>1, Zenon
  <2>3. QED
    BY <2>2, Zenon
<1>5. QED
  BY <1>3, <1>4

LEMMA BeforeEnds ==
  ASSUME NEW x \in Programs
  PROVE  /\ Before(x, 1) = {}
         /\ Before(x, Len(x) + 1) = UNION {PagesOf(x[i]) : i \in LoadsOf(x)}
<1>1. \A i \in LoadsOf(x) : i \in Nat /\ ~(i < 1) /\ i < Len(x) + 1
  BY ProgramIs
<1>2. \A p, t : p \in Before(x, t) <=> \E i \in LoadsOf(x) : i < t /\ p \in PagesOf(x[i])
  BY DEF Before
<1>3. Before(x, 1) = {}
  BY <1>1, <1>2
<1>4. Before(x, Len(x) + 1) = UNION {PagesOf(x[i]) : i \in LoadsOf(x)}
  BY <1>1, <1>2
<1>5. QED
  BY <1>3, <1>4

LEMMA MappedImage ==
  ASSUME NEW x, NEW S, NEW va
  PROVE  Mapped(Image(x, S), va, Ref(x, VPN(va))) = Image(x, S \cup {VPN(va)})
<1>0. PICK pg : pg = Ref(x, VPN(va))
  OBVIOUS
<1>1. DOMAIN Image(x, S) = S
  BY Zenon DEF Image
<1>2. \A p \in S : Image(x, S)[p] = Ref(x, p)
  BY Zenon DEF Image
<1>3. PICK q : q = VPN(va)
  OBVIOUS
<1>4. ASSUME NEW p \in S \cup {q} PROVE (IF p = q THEN pg ELSE Image(x, S)[p]) = Ref(x, p)
  BY <1>0, <1>2, <1>3
<1>5. Mapped(Image(x, S), va, pg) = [p \in S \cup {q} |-> IF p = q THEN pg ELSE Image(x, S)[p]]
  BY <1>1, <1>3, Zenon DEF Mapped
<1>6. QED
  BY <1>0, <1>3, <1>4, <1>5, Zenon DEF Image

(***************************************************************************)
(* The kernel's loader.                                                    *)
(***************************************************************************)
LEMMA LoadSegMakes ==
  ASSUME NEW x \in Programs, NEW s \in LoadsOf(x)
  PROVE  LoadSeg(Image(x, Before(x, s)), x[s], s) = Image(x, Before(x, s) \cup PagesOf(x[s]))
<1>a. PICK c : c = elf_load_seg(x[s])
  OBVIOUS
<1>1. PICK L \in Nat : L = Len(c)
  BY <1>a, SegmentPages
<1>2. /\ First(x, s, 0) = {} /\ First(x, s, L) = PagesOf(x[s])
      /\ \A n \in 1 .. L : /\ First(x, s, n) = First(x, s, n - 1) \cup {VPN(c[n].va)}
                           /\ Ref(x, VPN(c[n].va)) = Loaded(x[s], s, c[n])
  BY <1>a, <1>1, SegmentPages
<1> DEFINE D(n) == Before(x, s) \cup First(x, s, n)
<1> DEFINE h == [n \in 0 .. L |-> Image(x, D(n))]
<1> DEFINE Body(f) == [n \in 0 .. L |-> IF n = 0 THEN Image(x, Before(x, s))
                                        ELSE load_icode_mapper(f[n - 1], x[s], s, c[n])]
<1>3. D(0) = Before(x, s) /\ D(L) = Before(x, s) \cup PagesOf(x[s])
  BY <1>2
<1>4. ASSUME NEW n \in 1 .. L PROVE load_icode_mapper(Image(x, D(n - 1)), x[s], s, c[n]) = Image(x, D(n))
  <2>1. D(n) = D(n - 1) \cup {VPN(c[n].va)}
    BY <1>2
  <2>2. Loaded(x[s], s, c[n]) = Ref(x, VPN(c[n].va))
    BY <1>2
  <2> HIDE DEF D
  <2>3. load_icode_mapper(Image(x, D(n - 1)), x[s], s, c[n])
        = Mapped(Image(x, D(n - 1)), c[n].va, Loaded(x[s], s, c[n]))
    BY Zenon DEF load_icode_mapper, Loaded
  <2>4. Mapped(Image(x, D(n - 1)), c[n].va, Ref(x, VPN(c[n].va)))
        = Image(x, D(n - 1) \cup {VPN(c[n].va)})
    BY MappedImage, Zenon
  <2>5. QED
    BY <2>1, <2>2, <2>3, <2>4, Zenon
<1> HIDE DEF D
<1>5. h = Body(h)
  <2>1. ASSUME NEW n \in 0 .. L PROVE h[n] = Body(h)[n]
    <3>1. CASE n = 0
      BY <1>3, <3>1, Zenon
    <3>2. CASE n # 0
      <4>1. n \in 1 .. L /\ n - 1 \in 0 .. L
        BY <3>2
      <4>2. h[n - 1] = Image(x, D(n - 1)) /\ h[n] = Image(x, D(n))
        BY <4>1, Zenon
      <4>3. Body(h)[n] = load_icode_mapper(h[n - 1], x[s], s, c[n])
        BY <3>2, Zenon
      <4>4. QED
        BY <1>4, <4>1, <4>2, <4>3, Zenon
    <3>3. QED
      BY <3>1, <3>2
  <2>2. QED
    BY <2>1, Zenon
<1>6. PICK u : u = CHOOSE f : f = Body(f)
  OBVIOUS
<1>7. u = Body(u) /\ LoadSeg(Image(x, Before(x, s)), x[s], s) = u[L]
  <2> HIDE DEF h
  <2>1. u = Body(u)
    BY <1>5, <1>6, Zenon
  <2>2. LoadSeg(Image(x, Before(x, s)), x[s], s) = u[L]
    BY <1>a, <1>1, <1>6, Zenon DEF LoadSeg
  <2>3. QED
    BY <2>1, <2>2
<1>8. 0 .. L \subseteq {n \in 0 .. L : u[n] = Image(x, D(n))}
  <2>1. 0 \in {n \in 0 .. L : u[n] = Image(x, D(n))}
    <3>1. 0 \in 0 .. L
      OBVIOUS
    <3>2. u[0] = Image(x, D(0))
      BY <1>3, <1>7, <3>1, Zenon
    <3>3. QED
      BY <3>1, <3>2
  <2>2. ASSUME NEW n \in 1 .. L, n - 1 \in {m \in 0 .. L : u[m] = Image(x, D(m))}
        PROVE  n \in {m \in 0 .. L : u[m] = Image(x, D(m))}
    <3>1. u[n - 1] = Image(x, D(n - 1)) /\ n \in 0 .. L /\ n # 0
      BY <2>2
    <3>2. u[n] = load_icode_mapper(u[n - 1], x[s], s, c[n])
      BY <1>7, <3>1, Zenon
    <3>3. u[n] = Image(x, D(n))
      BY <1>4, <3>1, <3>2, Zenon
    <3>4. QED
      BY <3>1, <3>3
  <2>3. QED
    BY <2>1, <2>2, Upward
<1>9. L \in 0 .. L
  OBVIOUS
<1>10. u[L] = Image(x, D(L))
  BY <1>8, <1>9
<1>11. QED
  BY <1>3, <1>7, <1>10, Zenon

LEMMA LoadIcodeMakes ==
  ASSUME NEW x \in Programs
  PROVE  load_icode(x) = Image(x, UNION {PagesOf(x[i]) : i \in LoadsOf(x)})
<1>1. PICK N \in Nat : N = Len(x) /\ DOMAIN x = 1 .. N
  BY ProgramIs
<1> DEFINE h == [n \in 0 .. N |-> Image(x, Before(x, n + 1))]
<1> DEFINE Load(m, n) == IF x[n].type # "load" THEN m ELSE LoadSeg(m, x[n], n)
<1> DEFINE Body(f) == [n \in 0 .. N |-> IF n = 0 THEN NoMem
                                        ELSE IF x[n].type # "load" THEN f[n - 1]
                                        ELSE LoadSeg(f[n - 1], x[n], n)]
<1>2. Image(x, Before(x, 0 + 1)) = NoMem
  <2>1. Before(x, 0 + 1) = {} /\ 0 + 1 = 1
    BY BeforeEnds
  <2>2. QED
    BY <2>1 DEF Image, NoMem
<1>3. ASSUME NEW n \in 1 .. N PROVE Load(Image(x, Before(x, n)), n) = Image(x, Before(x, n + 1))
  <2>1. CASE n \in LoadsOf(x)
    <3>1. x[n].type = "load"
      BY <2>1 DEF LoadsOf
    <3>2. LoadSeg(Image(x, Before(x, n)), x[n], n) = Image(x, Before(x, n) \cup PagesOf(x[n]))
      BY <2>1, LoadSegMakes
    <3>3. Before(x, n + 1) = Before(x, n) \cup PagesOf(x[n])
      BY <1>1, <2>1, BeforeNext
    <3>4. QED
      BY <3>1, <3>2, <3>3
  <2>2. CASE n \notin LoadsOf(x)
    <3>1. x[n].type # "load"
      BY <1>1, <2>2 DEF LoadsOf
    <3>2. Before(x, n + 1) = Before(x, n)
      BY <1>1, <2>2, BeforeNext
    <3>3. QED
      BY <3>1, <3>2
  <2>3. QED
    BY <2>1, <2>2
<1>4. \A n \in 1 .. N : (n - 1) + 1 = n /\ n - 1 \in 0 .. N /\ n \in 0 .. N /\ n # 0
  OBVIOUS
<1>5. h = Body(h)
  <2>1. ASSUME NEW n \in 0 .. N PROVE h[n] = Body(h)[n]
    <3>1. CASE n = 0
      BY <1>2, <3>1, Zenon
    <3>2. CASE n # 0
      <4>1. n \in 1 .. N
        BY <3>2
      <4>2. h[n - 1] = Image(x, Before(x, n)) /\ h[n] = Image(x, Before(x, n + 1))
        BY <1>4, <4>1, Zenon
      <4>3. Body(h)[n] = Load(h[n - 1], n)
        BY <3>2, Zenon
      <4>4. QED
        BY <1>3, <4>1, <4>2, <4>3, Zenon
    <3>3. QED
      BY <3>1, <3>2
  <2>2. QED
    BY <2>1, Zenon
<1>6. PICK u : u = CHOOSE f : f = Body(f)
  OBVIOUS
<1>7. u = Body(u) /\ load_icode(x) = u[N]
  <2> HIDE DEF h
  <2>1. u = Body(u)
    BY <1>5, <1>6, Zenon
  <2>2. load_icode(x) = u[N]
    BY <1>1, <1>6, Zenon DEF load_icode
  <2>3. QED
    BY <2>1, <2>2
<1>8. 0 .. N \subseteq {n \in 0 .. N : u[n] = Image(x, Before(x, n + 1))}
  <2>1. 0 \in {n \in 0 .. N : u[n] = Image(x, Before(x, n + 1))}
    <3>1. 0 \in 0 .. N
      OBVIOUS
    <3>2. u[0] = Image(x, Before(x, 0 + 1))
      BY <1>2, <1>7, <3>1, Zenon
    <3>3. QED
      BY <3>1, <3>2
  <2>2. ASSUME NEW n \in 1 .. N, n - 1 \in {m \in 0 .. N : u[m] = Image(x, Before(x, m + 1))}
        PROVE  n \in {m \in 0 .. N : u[m] = Image(x, Before(x, m + 1))}
    <3>1. u[n - 1] = Image(x, Before(x, (n - 1) + 1))
      BY <2>2
    <3>2. u[n] = Load(u[n - 1], n)
      BY <1>4, <1>7, Zenon
    <3>3. u[n] = Image(x, Before(x, n + 1))
      BY <1>3, <1>4, <3>1, <3>2, Zenon
    <3>4. QED
      BY <1>4, <3>3
  <2>3. QED
    BY <2>1, <2>2, Upward
<1>9. N \in 0 .. N
  OBVIOUS
<1>10. u[N] = Image(x, Before(x, N + 1))
  BY <1>8, <1>9
<1>11. QED
  BY <1>1, <1>7, <1>10, BeforeEnds, Zenon

(***************************************************************************)
(* The mapper of spawn(), which maps a page of zeros before it fills it.   *)
(***************************************************************************)
Done(x, s, n) == Before(x, s) \cup First(x, s, n)
AllPages(x)   == UNION {PagesOf(x[i]) : i \in LoadsOf(x)}
CallOf(x, s, n) == elf_load_seg(x[s])[n]
Half(x, s, n) == [p \in Done(x, s, n) |-> IF p = VPN(CallOf(x, s, n).va) THEN Fresh(x[s].flags)
                                          ELSE Ref(x, p)]

LEMMA MapperMakes ==
  ASSUME NEW x \in Programs, NEW s \in LoadsOf(x), NEW n \in 1 .. Len(elf_load_seg(x[s]))
  PROVE  /\ VPN(CallOf(x, s, n).va) \in DOMAIN Half(x, s, n) /\ VPN(CallOf(x, s, n).va) \in Nat
         /\ Mapped(Image(x, Done(x, s, n - 1)), CallOf(x, s, n).va, Fresh(x[s].flags)) = Half(x, s, n)
         /\ CallOf(x, s, n).src = NULL => Half(x, s, n) = Image(x, Done(x, s, n))
         /\ CallOf(x, s, n).src # NULL =>
              [Half(x, s, n) EXCEPT ![VPN(CallOf(x, s, n).va)] = Filled(Fresh(x[s].flags), CallOf(x, s, n), s)]
              = Image(x, Done(x, s, n))
<1>1. PICK c, q, f : c = CallOf(x, s, n) /\ q = VPN(c.va) /\ f = Fresh(x[s].flags)
  OBVIOUS
<1>2. /\ First(x, s, n) = First(x, s, n - 1) \cup {q}
      /\ Ref(x, q) = Loaded(x[s], s, c) /\ q \in Nat
  BY <1>1, SegmentPages DEF CallOf
<1>3. PICK S, T : S = Done(x, s, n - 1) /\ T = Done(x, s, n)
  OBVIOUS
<1>4. T = S \cup {q}
  BY <1>2, <1>3 DEF Done
<1>5. PICK h : h = Half(x, s, n)
  OBVIOUS
<1>6. h = [p \in T |-> IF p = q THEN f ELSE Ref(x, p)]
  BY <1>1, <1>3, <1>5, Zenon DEF Half
<1>7. q \in DOMAIN h
  BY <1>4, <1>6
<1>8. Mapped(Image(x, S), c.va, f) = h
  <2>1. DOMAIN Image(x, S) = S /\ \A p \in S : Image(x, S)[p] = Ref(x, p)
    BY Zenon DEF Image
  <2>2. Mapped(Image(x, S), c.va, f) = [p \in S \cup {q} |-> IF p = q THEN f ELSE Image(x, S)[p]]
    BY <1>1, <2>1, Zenon DEF Mapped
  <2>3. ASSUME NEW p \in S \cup {q} PROVE (IF p = q THEN f ELSE Image(x, S)[p]) = (IF p = q THEN f ELSE Ref(x, p))
    BY <2>1
  <2>4. QED
    BY <1>4, <1>6, <2>2, <2>3, Zenon
<1>9. ASSUME c.src = NULL PROVE h = Image(x, T)
  <2>1. Ref(x, q) = f
    BY <1>1, <1>2, <1>9, Zenon DEF Loaded
  <2>2. ASSUME NEW p \in T PROVE (IF p = q THEN f ELSE Ref(x, p)) = Ref(x, p)
    BY <2>1
  <2>3. QED
    BY <1>6, <2>2, Zenon DEF Image
<1>10. ASSUME c.src # NULL PROVE [h EXCEPT ![q] = Filled(f, c, s)] = Image(x, T)
  <2>1. PICK v : v = Filled(f, c, s)
    OBVIOUS
  <2>2. Ref(x, q) = v
    BY <1>1, <1>2, <1>10, <2>1, Zenon DEF Loaded
  <2>3. [h EXCEPT ![q] = v] = [p \in T |-> IF p = q THEN v ELSE Ref(x, p)]
    BY <1>6
  <2>4. ASSUME NEW p \in T PROVE (IF p = q THEN v ELSE Ref(x, p)) = Ref(x, p)
    BY <2>2
  <2>5. QED
    BY <2>1, <2>3, <2>4, Zenon DEF Image
<1>11. QED
  BY <1>1, <1>2, <1>3, <1>5, <1>7, <1>8, <1>9, <1>10, Zenon

MapsAt(x, l, s, n, u, m) ==
  /\ s \in 1 .. Len(x) + 1
  /\ l \in {"open", "header", "exofork", "stack_alloc", "stack_map"} => s = 1
  /\ l \in {"stack_alloc", "stack_map"} => m = NoMem
  /\ l = "phdr" => m = Image(x, Before(x, s))
  /\ l \in {"alloc", "map", "copy"} => s \in LoadsOf(x) /\ n \in 1 .. Len(elf_load_seg(x[s]))
  /\ l = "alloc" => m = Image(x, Done(x, s, n - 1))
  /\ l \in {"map", "copy"} => CallOf(x, s, n).src # NULL /\ m = Half(x, s, n)
  /\ l = "copy" => u = VPN(CallOf(x, s, n).va)
  /\ l \in {"close", "trapframe", "share", "status", "started"} => m = Image(x, AllPages(x))

Memory == MapsAt(prog, pc, seg, k, utemp, child.mem)

LEMMA MemoryInit == Init => Memory
<1> SUFFICES ASSUME Init PROVE Memory
  OBVIOUS
<1>1. prog \in Programs /\ pc \in {"open", "boot"} /\ seg = 1
  BY DEF Init
<1>2. 1 \in 1 .. Len(prog) + 1
  BY <1>1, ProgramIs
<1>3. QED
  BY <1>1, <1>2 DEF Memory, MapsAt

\* The call of the mapper is over.
LEMMA MapperNext ==
  ASSUME Control, Memory, pc \in {"alloc", "copy"}, MapperDone, prog' = prog,
         child'.mem = Image(prog, Done(prog, seg, k))
  PROVE  Memory'
<1>0. prog \in Programs
  BY DEF Control
<1>1. seg \in LoadsOf(prog) /\ k \in 1 .. Len(elf_load_seg(prog[seg])) /\ seg \in 1 .. Len(prog) + 1
  BY DEF Memory, MapsAt
<1>2. PICK L \in Nat : L = Len(elf_load_seg(prog[seg])) /\ L > 0 /\ First(prog, seg, L) = PagesOf(prog[seg])
  BY <1>0, <1>1, SegmentPages
<1>3. Calls = elf_load_seg(prog[seg])
  BY DEF Calls
<1>4. seg \in 1 .. Len(prog) /\ Len(prog) \in Nat
  BY <1>0, <1>1, ProgramIs
<1>5. CASE k = L
  <2>1. pc' = "phdr" /\ seg' = seg + 1
    BY <1>2, <1>3, <1>5 DEF MapperDone, Goto
  <2>2. Before(prog, seg + 1) = Before(prog, seg) \cup PagesOf(prog[seg])
    BY <1>0, <1>1, <1>4, BeforeNext
  <2>3. Done(prog, seg, k) = Before(prog, seg + 1)
    BY <1>2, <1>5, <2>2 DEF Done
  <2>4. child'.mem = Image(prog', Before(prog', seg'))
    BY <2>1, <2>3
  <2>5. seg' \in 1 .. Len(prog') + 1
    BY <1>4, <2>1
  <2>6. QED
    BY <2>1, <2>4, <2>5 DEF Memory, MapsAt
<1>6. CASE k # L
  <2>1. pc' = "alloc" /\ seg' = seg /\ k' = k + 1
    BY <1>2, <1>3, <1>6 DEF MapperDone, Goto
  <2>2. k + 1 \in 1 .. L /\ (k + 1) - 1 = k
    BY <1>1, <1>2, <1>6
  <2>3. child'.mem = Image(prog', Done(prog', seg', k' - 1))
    BY <2>1, <2>2
  <2>4. seg' \in LoadsOf(prog') /\ k' \in 1 .. Len(elf_load_seg(prog'[seg'])) /\ seg' \in 1 .. Len(prog') + 1
    BY <1>1, <1>2, <2>1, <2>2
  <2>5. QED
    BY <2>1, <2>3, <2>4 DEF Memory, MapsAt
<1>7. QED
  BY <1>5, <1>6

LEMMA MemoryStep == Control /\ Memory /\ [Next]_vars => Memory'
<1> SUFFICES ASSUME Control, Memory, [Next]_vars PROVE Memory'
  OBVIOUS
<1> USE DEF At, Goto
<1>0. prog \in Programs /\ Shaped(child) /\ (pc \in Childless => child = NoChild)
  BY DEF Control
<1>a. seg \in 1 .. Len(prog) + 1 /\ Len(prog) \in Nat
  BY <1>0, ProgramIs DEF Memory, MapsAt
<1>b. ASSUME prog' = prog, seg' = seg, pc' \in {"err", "err1", "err2", "failed", "halted"} PROVE Memory'
  BY <1>a, <1>b DEF Memory, MapsAt
<1>c. ASSUME prog' = prog, seg' = seg, pc \in {"close", "trapframe", "share", "status"},
             pc' \in {"trapframe", "share", "status", "started"}, child'.mem = child.mem
      PROVE  Memory'
  BY <1>a, <1>c DEF Memory, MapsAt
<1>1. ASSUME boot PROVE Memory'
  <2>1. child'.mem = load_icode(prog) /\ pc' = "started" /\ prog' = prog /\ seg' = seg
    BY <1>1, Booted DEF boot
  <2>2. child'.mem = Image(prog, AllPages(prog))
    BY <1>0, <2>1, LoadIcodeMakes DEF AllPages
  <2>3. QED
    BY <1>a, <2>1, <2>2 DEF Memory, MapsAt
<1>2. ASSUME open_prog \/ read_header PROVE Memory'
  <2>1. /\ prog' = prog /\ seg' = seg /\ pc \in {"open", "header"}
        /\ pc' \in {"failed", "header", "err", "exofork"}
    BY <1>2 DEF open_prog, read_header
  <2>2. QED
    BY <1>a, <2>1 DEF Memory, MapsAt
<1>3. ASSUME exofork PROVE Memory'
  <2>1. CASE pc' = "err"
    BY <1>3, <1>b, <2>1 DEF exofork
  <2>2. CASE pc' = "stack_alloc" /\ child' = NewChild
    <3>1. child'.mem = NoMem
      BY <2>2, NewChildFields
    <3>2. prog' = prog /\ seg' = seg /\ pc = "exofork"
      BY <1>3 DEF exofork
    <3>3. QED
      BY <1>a, <2>2, <3>1, <3>2 DEF Memory, MapsAt
  <2>3. QED
    BY <1>3, <2>1, <2>2 DEF exofork
<1>4. ASSUME stack_alloc PROVE Memory'
  <2>1. prog' = prog /\ seg' = seg /\ child' = child /\ pc = "stack_alloc" /\ pc' \in {"err1", "stack_map"}
    BY <1>4 DEF stack_alloc
  <2>2. QED
    BY <1>a, <2>1 DEF Memory, MapsAt
<1>5. ASSUME stack_map PROVE Memory'
  <2>1. CASE pc' = "err1"
    BY <1>5, <1>b, <2>1 DEF stack_map
  <2>2. CASE pc' = "phdr"
    <3>1. child'.mem = child.mem
      BY <1>0, <1>5, <2>2, StackMapped
    <3>2. prog' = prog /\ seg' = seg /\ pc = "stack_map"
      BY <1>5 DEF stack_map
    <3>3. seg = 1 /\ child.mem = NoMem
      BY <3>2 DEF Memory, MapsAt
    <3>4. Before(prog, 1) = {}
      BY <1>0, BeforeEnds
    <3>5. Image(prog, {}) = NoMem
      BY DEF Image, NoMem
    <3>6. child'.mem = Image(prog', Before(prog', seg'))
      BY <3>1, <3>2, <3>3, <3>4, <3>5
    <3>7. QED
      BY <1>a, <2>2, <3>2, <3>6 DEF Memory, MapsAt
  <2>3. QED
    BY <1>5, <2>1, <2>2 DEF stack_map
<1>6. ASSUME read_phdr PROVE Memory'
  <2>1. prog' = prog /\ child' = child /\ pc = "phdr" /\ k' = 1
    BY <1>6 DEF read_phdr
  <2>2. child.mem = Image(prog, Before(prog, seg))
    BY <2>1 DEF Memory, MapsAt
  <2>3. CASE seg > Len(prog) /\ pc' = "close" /\ seg' = seg
    <3>1. seg = Len(prog) + 1
      BY <1>a, <2>3
    <3>2. child.mem = Image(prog, AllPages(prog))
      BY <1>0, <2>2, <3>1, BeforeEnds DEF AllPages
    <3>3. QED
      BY <1>a, <2>1, <2>3, <3>2 DEF Memory, MapsAt
  <2>4. CASE pc' = "err1" /\ seg' = seg
    BY <1>b, <2>1, <2>4
  <2>5. CASE seg <= Len(prog) /\ prog[seg].type # "load" /\ pc' = "phdr" /\ seg' = seg + 1
    <3>1. seg \in 1 .. Len(prog) /\ seg \notin LoadsOf(prog)
      BY <1>a, <2>5 DEF LoadsOf
    <3>2. Before(prog, seg + 1) = Before(prog, seg)
      BY <1>0, <3>1, BeforeNext
    <3>3. child'.mem = Image(prog', Before(prog', seg')) /\ seg' \in 1 .. Len(prog') + 1
      BY <1>a, <2>1, <2>2, <2>5, <3>1, <3>2
    <3>4. QED
      BY <2>5, <3>3 DEF Memory, MapsAt
  <2>6. CASE seg <= Len(prog) /\ prog[seg].type = "load" /\ pc' = "alloc" /\ seg' = seg
    <3>1. seg \in 1 .. Len(prog) /\ DOMAIN prog = 1 .. Len(prog)
      BY <1>0, <1>a, <2>6, ProgramIs
    <3>2. seg \in LoadsOf(prog)
      BY <2>6, <3>1 DEF LoadsOf
    <3>3. PICK L \in Nat : L = Len(elf_load_seg(prog[seg])) /\ L > 0 /\ First(prog, seg, 0) = {}
      BY <1>0, <3>2, SegmentPages
    <3>4. Done(prog, seg, 0) = Before(prog, seg)
      BY <3>3 DEF Done
    <3>5. 1 \in 1 .. L /\ 1 - 1 = 0
      BY <3>3
    <3>6. child'.mem = Image(prog', Done(prog', seg', k' - 1))
      BY <2>1, <2>2, <2>6, <3>4, <3>5
    <3>7. seg' \in LoadsOf(prog') /\ k' \in 1 .. Len(elf_load_seg(prog'[seg'])) /\ seg' \in 1 .. Len(prog') + 1
      BY <1>a, <2>1, <2>6, <3>2, <3>3, <3>5
    <3>8. QED
      BY <2>6, <3>6, <3>7 DEF Memory, MapsAt
  <2>7. QED
    BY <1>6, <2>3, <2>4, <2>5, <2>6 DEF read_phdr
<1>7. ASSUME mapper_alloc PROVE Memory'
  <2>1. prog' = prog /\ pc = "alloc" /\ utemp' = utemp
    BY <1>7 DEF mapper_alloc
  <2>2. /\ seg \in LoadsOf(prog) /\ k \in 1 .. Len(elf_load_seg(prog[seg]))
        /\ child.mem = Image(prog, Done(prog, seg, k - 1))
    BY <2>1 DEF Memory, MapsAt
  <2>3. Calls = elf_load_seg(prog[seg]) /\ Calls[k] = CallOf(prog, seg, k)
    BY DEF Calls, CallOf
  <2>4. Len(Calls) # 0
    BY <1>0, <2>2, <2>3, SegmentPages
  <2>5. CASE pc' = "err1" /\ seg' = seg
    BY <1>b, <2>1, <2>5
  <2>6. CASE /\ child' = [child EXCEPT !.mem = Mapped(child.mem, Calls[k].va, Fresh(prog[seg].flags))]
             /\ IF Calls[k].src = NULL THEN MapperDone ELSE pc' = "map" /\ UNCHANGED <<seg, k>>
    <3>1. child'.mem = Mapped(child.mem, Calls[k].va, Fresh(prog[seg].flags))
      BY <1>0, <2>6, UpdMem
    <3>2. child'.mem = Half(prog, seg, k)
      BY <1>0, <2>2, <2>3, <3>1, MapperMakes
    <3>3. CASE Calls[k].src = NULL
      <4>1. child'.mem = Image(prog, Done(prog, seg, k))
        BY <1>0, <2>2, <2>3, <3>2, <3>3, MapperMakes
      <4>2. MapperDone
        BY <2>6, <3>3
      <4>3. QED
        BY <2>1, <4>1, <4>2, MapperNext
    <3>4. CASE Calls[k].src # NULL
      <4>1. pc' = "map" /\ seg' = seg /\ k' = k
        BY <2>6, <3>4
      <4>2. CallOf(prog', seg', k').src # NULL /\ child'.mem = Half(prog', seg', k')
        BY <2>1, <2>3, <3>2, <3>4, <4>1
      <4>3. seg' \in LoadsOf(prog') /\ k' \in 1 .. Len(elf_load_seg(prog'[seg'])) /\ seg' \in 1 .. Len(prog') + 1
        BY <1>a, <2>1, <2>2, <4>1
      <4>4. QED
        BY <4>1, <4>2, <4>3 DEF Memory, MapsAt
    <3>5. QED
      BY <3>3, <3>4
  <2>7. QED
    BY <1>7, <2>4, <2>5, <2>6 DEF mapper_alloc
<1>8. ASSUME mapper_map PROVE Memory'
  <2>1. prog' = prog /\ pc = "map" /\ seg' = seg /\ k' = k
    BY <1>8 DEF mapper_map
  <2>2. CASE pc' = "err1"
    BY <1>b, <2>1, <2>2
  <2>3. CASE pc' = "copy" /\ utemp' = VPN(Calls[k].va) /\ child' = child
    <3>1. Calls[k] = CallOf(prog, seg, k)
      BY DEF Calls, CallOf
    <3>2. QED
      BY <1>a, <2>1, <2>3, <3>1 DEF Memory, MapsAt
  <2>4. QED
    BY <1>8, <2>2, <2>3 DEF mapper_map
<1>9. ASSUME mapper_copy PROVE Memory'
  <2>1. prog' = prog /\ pc = "copy" /\ MapperDone
    BY <1>9 DEF mapper_copy
  <2>2. /\ seg \in LoadsOf(prog) /\ k \in 1 .. Len(elf_load_seg(prog[seg]))
        /\ CallOf(prog, seg, k).src # NULL /\ child.mem = Half(prog, seg, k)
        /\ utemp = VPN(CallOf(prog, seg, k).va)
    BY <2>1 DEF Memory, MapsAt
  <2>3. Calls[k] = CallOf(prog, seg, k)
    BY DEF Calls, CallOf
  <2>4. child' = [child EXCEPT !.mem = [child.mem EXCEPT ![utemp] = Filled(child.mem[utemp], Calls[k], seg)]]
    BY <1>9, Zenon DEF mapper_copy
  <2>5. child'.mem = [child.mem EXCEPT ![utemp] = Filled(child.mem[utemp], Calls[k], seg)]
    BY <1>0, <2>4, UpdMem
  <2>6. child.mem[utemp] = Fresh(prog[seg].flags)
    <3>1. utemp \in DOMAIN Half(prog, seg, k)
      BY <1>0, <2>2, MapperMakes
    <3>2. utemp \in Done(prog, seg, k)
      BY <3>1 DEF Half
    <3>3. Half(prog, seg, k)[utemp] = Fresh(prog[seg].flags)
      BY <2>2, <3>2, Zenon DEF Half
    <3>4. QED
      BY <2>2, <3>3
  <2>7. child'.mem = [Half(prog, seg, k) EXCEPT ![VPN(CallOf(prog, seg, k).va)]
                        = Filled(Fresh(prog[seg].flags), CallOf(prog, seg, k), seg)]
    BY <2>2, <2>3, <2>5, <2>6, Zenon
  <2>8. child'.mem = Image(prog, Done(prog, seg, k))
    BY <1>0, <2>2, <2>7, MapperMakes
  <2>9. QED
    BY <2>1, <2>8, MapperNext
<1>10. ASSUME close_prog PROVE Memory'
  BY <1>10, <1>c DEF close_prog
<1>11. ASSUME set_trapframe PROVE Memory'
  <2>1. CASE pc' = "err2"
    BY <1>11, <1>b, <2>1 DEF set_trapframe
  <2>2. CASE pc' = "share" /\ child' = [child EXCEPT !.sepc = "entry"]
    <3>1. child'.mem = child.mem
      BY <1>0, <2>2, UpdSepc
    <3>2. QED
      BY <1>11, <1>c, <2>2, <3>1 DEF set_trapframe
  <2>3. QED
    BY <1>11, <2>1, <2>2 DEF set_trapframe
<1>12. ASSUME share PROVE Memory'
  <2>1. prog' = prog /\ seg' = seg /\ pc = "share"
    BY <1>12 DEF share
  <2>2. CASE pc' = "err2"
    BY <1>b, <2>1, <2>2
  <2>3. CASE pc' = "status" /\ child' = child
    BY <1>c, <2>1, <2>3
  <2>4. CASE pc' = "share" /\ child' = [child EXCEPT !.lib = child.lib \cup {Min(Shared \ child.lib)}]
    <3>1. child'.mem = child.mem
      BY <1>0, <2>4, UpdLib
    <3>2. QED
      BY <1>c, <2>1, <2>4, <3>1
  <2>5. QED
    BY <1>12, <2>2, <2>3, <2>4 DEF share
<1>13. ASSUME set_status PROVE Memory'
  <2>1. CASE pc' = "err2"
    BY <1>13, <1>b, <2>1 DEF set_status
  <2>2. CASE pc' = "started" /\ child' = [child EXCEPT !.status = "runnable"]
    <3>1. child'.mem = child.mem
      BY <1>0, <2>2, UpdStatus
    <3>2. QED
      BY <1>13, <1>c, <2>2, <3>1 DEF set_status
  <2>3. QED
    BY <1>13, <2>1, <2>2 DEF set_status
<1>14. ASSUME err2 \/ err1 \/ err PROVE Memory'
  BY <1>14, <1>b DEF err2, err1, err, syscall_env_destroy
<1>15. ASSUME UNCHANGED vars PROVE Memory'
  BY <1>15 DEF vars, Memory, MapsAt
<1>16. QED
  BY <1>1, <1>2, <1>3, <1>4, <1>5, <1>6, <1>7, <1>8, <1>9, <1>10, <1>11, <1>12, <1>13, <1>14, <1>15
     DEF Next, Returned

-----------------------------------------------------------------------------
(* The theorems about a child that is started and about its stack.         *)

LEMMA SpawnInvariant == Spec => [](Control /\ Stacked /\ Memory)
<1>1. Init => Control /\ Stacked /\ Memory
  BY ControlInit, StackedInit, MemoryInit
<1>2. Control /\ Stacked /\ Memory /\ [Next]_vars => (Control /\ Stacked /\ Memory)'
  BY ControlStep, StackedStep, MemoryStep
<1>3. QED
  BY <1>1, <1>2, PTL DEF Spec

LEMMA ReferenceIs ==
  [p \in ReferencePages |-> Reference(p)] = Image(prog, AllPages(prog))
<1>1. Loads = LoadsOf(prog)
  BY Zenon DEF Loads, LoadsOf
<1>2. ReferencePages = AllPages(prog)
  BY <1>1, Zenon DEF ReferencePages, AllPages
<1>3. \A i, p : Content(i, p) = ContentOf(prog[i], i, p)
  BY Zenon DEF Content, ContentOf
<1>4. \A p : Reference(p) = Ref(prog, p)
  BY <1>1, <1>3, Zenon DEF Reference, Ref, Owner
<1>5. QED
  BY <1>2, <1>4, Zenon DEF Image

(***************************************************************************)
(* A child that may run is complete: its memory is what the program        *)
(* headers say, by load_icode and by spawn() alike, it starts at the entry *)
(* point and shares the library pages, and the parent keeps nothing.       *)
(***************************************************************************)
THEOREM StartedIsComplete == Spec => []StartedComplete
<1>1. Control /\ Stacked /\ Memory => StartedComplete
  <2> SUFFICES ASSUME Control, Stacked, Memory, child.status = "runnable"
               PROVE  /\ child.mem = [p \in ReferencePages |-> Reference(p)]
                      /\ child.sepc = "entry"
                      /\ child.stack # NoStack => child.lib = Library
                      /\ ~fd /\ utemp = NULL
    BY DEF StartedComplete
  <2>1. pc = "started"
    <3>1. pc \in Childless => child = NoChild
      BY DEF Control
    <3>2. pc \notin Childless
      BY <3>1, NoChildFields
    <3>3. QED
      BY <3>2 DEF Control
  <2>2. ~fd /\ utemp = NULL
    BY <2>1 DEF Control, Opened, Loading
  <2>3. child.mem = Image(prog, AllPages(prog))
    BY <2>1 DEF Memory, MapsAt
  <2>4. child.sepc = "entry" /\ (child.stack # NoStack => child.lib = Library)
    BY <2>1 DEF Stacked
  <2>5. QED
    BY <2>2, <2>3, <2>4, ReferenceIs
<1>2. QED
  BY SpawnInvariant, <1>1, PTL

(***************************************************************************)
(* Spawn's use of UTEMP and the words of the stack page stay in bounds,    *)
(* and main() of the child finds argc and argv with the caller's strings,  *)
(* for every vector of arguments.                                          *)
(***************************************************************************)
THEOREM ArgvIsSeen == Spec => []ArgvSeen
<1>1. Control /\ Stacked /\ Memory => ArgvSeen
  <2> SUFFICES ASSUME Control, Stacked, Memory PROVE ArgvSeen
    OBVIOUS
  <2>1. argv \in Seq(Nat)
    BY Sizes DEF Control
  <2>2. /\ child.sp \in Nat /\ child.sp % 4 = 0
        /\ child.stack # NoStack => SeenAt(child.stack, child.sp, argv)
    <3>1. CASE child.stack = NoStack /\ child.sp = 0
      BY <3>1
    <3>2. CASE FitsStack(argv) /\ child.stack = init_stack(argv).page /\ child.sp = init_stack(argv).sp
      <4>1. SeenAt(child.stack, child.sp, argv) /\ child.sp \in Nat /\ child.sp % 4 = 0
        BY <2>1, <3>2, StackSeen
      <4>2. QED
        BY <4>1
    <3>3. QED
      BY <3>1, <3>2 DEF Stacked
  <2>3. SpawnTypeOK
    <3>1. seg \in 1 .. Len(prog) + 1
      BY DEF Memory, MapsAt
    <3>2. child.status \in {"none", "runnable", "not_runnable"}
      BY NoChildFields DEF Control
    <3>3. ASSUME utemp # NULL PROVE child.status # "none" /\ utemp \in DOMAIN child.mem \cup {StackPage}
      <4>1. pc \in {"stack_map", "copy"}
        BY <3>3 DEF Control
      <4>2. child.status = "not_runnable"
        BY <4>1 DEF Control, Childless
      <4>3. CASE pc = "stack_map"
        BY <4>2, <4>3 DEF Control
      <4>4. CASE pc = "copy"
        <5>1. /\ seg \in LoadsOf(prog) /\ k \in 1 .. Len(elf_load_seg(prog[seg]))
              /\ child.mem = Half(prog, seg, k) /\ utemp = VPN(CallOf(prog, seg, k).va)
          BY <4>4 DEF Memory, MapsAt
        <5>2. prog \in Programs
          BY DEF Control
        <5>3. utemp \in DOMAIN child.mem
          BY <5>1, <5>2, MapperMakes
        <5>4. QED
          BY <4>2, <5>3
      <4>5. QED
        BY <4>1, <4>3, <4>4
    <3>4. child.lib \subseteq Library \cup {0}
      BY DEF Stacked
    <3>5. fd \in BOOLEAN
      BY DEF Control
    <3>6. child.sp >= 0 /\ child.sp % 4 = 0
      BY <2>2
    <3>7. QED
      BY <3>1, <3>2, <3>3, <3>4, <3>5, <3>6 DEF SpawnTypeOK
  <2>4. QED
    BY <2>2, <2>3, Zenon DEF ArgvSeen, SeenAt
<1>2. QED
  BY SpawnInvariant, <1>1, PTL
=============================================================================
