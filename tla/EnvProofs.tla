------------------------------ MODULE EnvProofs -----------------------------
(***************************************************************************)
(* Proofs about tail queues, environments and scheduling.  First: the      *)
(* macros of include/queue.h implement the operations on sequences they    *)
(* are used for.  Part 1: what holds whatever system calls are made.  Part *)
(* 2: what holds for programs that make the calls user/lib makes.  Part 3: *)
(* what no single step does, for both.                                     *)
(***************************************************************************)
EXTENDS EnvLib, FiniteSetTheorems, TLAPS

-----------------------------------------------------------------------------
(* The tail queue that represents a sequence, provided that what is        *)
(* removed is in it and that what is inserted is not.                      *)

(***************************************************************************)
(* An empty queue represents the empty sequence (TAILQ_INIT).              *)
(***************************************************************************)
LEMMA InitIsQueue == TAILQ_INIT \in TailQueue /\ IsQueue(TAILQ_INIT, <<>>)
BY PtrAssumption DEF TAILQ_INIT, TailQueue, IsQueue

(***************************************************************************)
(* TAILQ_EMPTY and TAILQ_FIRST read the sequence.                          *)
(***************************************************************************)
LEMMA FirstIsHead ==
  ASSUME NEW q \in TailQueue, NEW s, IsQueue(q, s)
  PROVE  /\ TAILQ_EMPTY(q) <=> s = <<>>
         /\ s # <<>> => TAILQ_FIRST(q) = s[1] /\ s[1] \in Env
<1>1. s \in Seq(Env) /\ Len(s) \in Nat
  BY DEF IsQueue
<1>2. (Len(s) = 0) <=> s = <<>>
  BY <1>1
<1>3. Len(s) # 0 => s[1] \in Env
  BY <1>1
<1>4. QED
  BY <1>1, <1>2, <1>3, PtrAssumption DEF IsQueue, TAILQ_EMPTY, TAILQ_FIRST

(***************************************************************************)
(* TAILQ_INSERT_HEAD of a new element prepends it.                         *)
(***************************************************************************)
LEMMA InsertHeadPrepends ==
  ASSUME NEW q \in TailQueue, NEW s, IsQueue(q, s),
         NEW e \in Env, e \notin Elements(s)
  PROVE  /\ TAILQ_INSERT_HEAD(q, e) \in TailQueue
         /\ IsQueue(TAILQ_INSERT_HEAD(q, e), <<e>> \o s)
<1> DEFINE r == TAILQ_INSERT_HEAD(q, e)
           t == <<e>> \o s
<1>1. /\ s \in Seq(Env) /\ Len(s) \in Nat
      /\ \A i \in 1..Len(s) : s[i] \in Env /\ s[i] # e
  BY DEF IsQueue, Elements
<1>2. /\ t \in Seq(Env) /\ Len(t) = Len(s) + 1
      /\ t[1] = e /\ \A i \in 2..Len(t) : t[i] = s[i-1]
  BY <1>1
<1>3. q.first = IF Len(s) = 0 THEN NULL ELSE s[1]
  BY DEF IsQueue
<1>4. r \in TailQueue
  BY PtrAssumption DEF TAILQ_INSERT_HEAD, TailQueue
<1> HIDE DEF t
<1>5. \A i, j \in 1..Len(t) : t[i] = t[j] => i = j
  <2>1. \A k \in 2..Len(t) : k - 1 \in 1..Len(s) /\ t[k] = s[k-1] /\ t[k] # t[1]
    BY <1>1, <1>2
  <2>2. \A i, j \in 2..Len(t) : t[i] = t[j] => i = j
    <3> TAKE i, j \in 2..Len(t)
    <3> HAVE t[i] = t[j]
    <3>1. i - 1 \in 1..Len(s) /\ j - 1 \in 1..Len(s) /\ s[i-1] = s[j-1]
      BY <2>1
    <3>2. i - 1 = j - 1
      BY <3>1 DEF IsQueue
    <3>3. QED
      BY <1>1, <1>2, <3>2
  <2>3. QED
    BY <1>1, <1>2, <2>1, <2>2
<1>6. r.first = IF Len(t) = 0 THEN NULL ELSE t[1]
  BY <1>1, <1>2 DEF TAILQ_INSERT_HEAD
<1>7. r.last = IF Len(t) = 0 THEN HEAD ELSE t[Len(t)]
  BY <1>1, <1>2, <1>3, PtrAssumption DEF TAILQ_INSERT_HEAD, IsQueue
<1>8. ASSUME NEW i \in 1..Len(t)
      PROVE  /\ r.next[t[i]] = IF i = Len(t) THEN NULL ELSE t[i+1]
             /\ r.prev[t[i]] = IF i = 1 THEN HEAD ELSE t[i-1]
  <2>1. CASE i = 1
    BY <1>1, <1>2, <1>3, <2>1 DEF TAILQ_INSERT_HEAD, TailQueue
  <2>2. CASE i = 2
    <3>1. t[i] = s[1] /\ s[1] # e /\ q.first = s[1] /\ s[1] \in Env
      BY <1>1, <1>2, <1>3, <2>2
    <3>2. r.prev[t[i]] = e
      BY <3>1 DEF TAILQ_INSERT_HEAD
    <3>3. r.next[t[i]] = q.next[s[1]]
      BY <3>1 DEF TAILQ_INSERT_HEAD, TailQueue
    <3>4. QED
      BY <1>1, <1>2, <2>2, <3>2, <3>3 DEF IsQueue
  <2>3. CASE i > 2
    <3>1. /\ i - 1 \in 2..Len(s) /\ t[i] = s[i-1] /\ s[i-1] # e /\ s[i-1] \in Env
          /\ s[i-1] # s[1]
      <4>1. i - 1 \in 2..Len(s) /\ i - 1 \in 1..Len(s) /\ 1 \in 1..Len(s) /\ i \in 2..Len(t)
        BY <1>1, <1>2, <2>3
      <4>2. t[i] = s[i-1] /\ s[i-1] # e /\ s[i-1] \in Env
        BY <1>1, <1>2, <4>1
      <4>3. \A j, k \in 1..Len(s) : s[j] = s[k] => j = k
        BY DEF IsQueue
      <4>4. s[i-1] = s[1] => i - 1 = 1
        BY <4>1, <4>3
      <4>5. QED
        BY <4>1, <4>2, <4>4
    <3>2. r.prev[t[i]] = q.prev[s[i-1]] /\ r.next[t[i]] = q.next[s[i-1]]
      BY <1>3, <3>1 DEF TAILQ_INSERT_HEAD, TailQueue
    <3>3. /\ q.prev[s[i-1]] = s[i-2]
          /\ q.next[s[i-1]] = IF i - 1 = Len(s) THEN NULL ELSE s[i]
      BY <1>1, <2>3, <3>1 DEF IsQueue
    <3>4. t[i-1] = s[i-2] /\ (i # Len(t) => t[i+1] = s[i])
      <4>1. i - 1 \in 2..Len(t) /\ (i # Len(t) => i + 1 \in 2..Len(t)) /\ i \in Int
        BY <1>1, <1>2, <2>3
      <4>2. t[i-1] = s[(i-1)-1] /\ (i # Len(t) => t[i+1] = s[(i+1)-1])
        BY <1>2, <4>1
      <4>3. (i - 1) - 1 = i - 2 /\ (i + 1) - 1 = i
        BY <4>1
      <4>4. QED
        BY <4>2, <4>3
    <3>5. (i - 1 = Len(s)) <=> (i = Len(t))
      BY <1>1, <1>2
    <3> HIDE DEF r
    <3>6. QED
      BY <2>3, <3>2, <3>3, <3>4, <3>5
  <2>4. QED
    BY <1>1, <1>2, <2>1, <2>2, <2>3
<1>9. QED
  <2>1. IsQueue(r, t)
    BY <1>2, <1>5, <1>6, <1>7, <1>8 DEF IsQueue
  <2>2. QED
    BY <1>4, <2>1 DEF t

(***************************************************************************)
(* TAILQ_INSERT_TAIL of a new element appends it.                          *)
(***************************************************************************)
LEMMA InsertTailAppends ==
  ASSUME NEW q \in TailQueue, NEW s, IsQueue(q, s),
         NEW e \in Env, e \notin Elements(s)
  PROVE  /\ TAILQ_INSERT_TAIL(q, e) \in TailQueue
         /\ IsQueue(TAILQ_INSERT_TAIL(q, e), Append(s, e))
<1> DEFINE r == TAILQ_INSERT_TAIL(q, e)
           t == Append(s, e)
<1>1. /\ s \in Seq(Env) /\ Len(s) \in Nat
      /\ \A i \in 1..Len(s) : s[i] \in Env /\ s[i] # e
  BY DEF IsQueue, Elements
<1>2. /\ t \in Seq(Env) /\ Len(t) = Len(s) + 1
      /\ t[Len(t)] = e /\ \A i \in 1..Len(s) : t[i] = s[i]
  BY <1>1
<1>3. q.last = IF Len(s) = 0 THEN HEAD ELSE s[Len(s)]
  BY DEF IsQueue
<1>4. /\ r \in TailQueue
      /\ r.last = e
      /\ r.first = IF q.last = HEAD THEN e ELSE q.first
      /\ r.next = [x \in Env |-> IF x = q.last THEN e
                                  ELSE IF x = e THEN NULL ELSE q.next[x]]
      /\ r.prev = [x \in Env |-> IF x = e THEN q.last ELSE q.prev[x]]
  BY PtrAssumption DEF TAILQ_INSERT_TAIL, Store, TailQueue
<1> HIDE DEF r, t
<1>5. \A i, j \in 1..Len(t) : t[i] = t[j] => i = j
  <2>1. \A i, j \in 1..Len(s) : t[i] = t[j] => i = j
    BY <1>2 DEF IsQueue
  <2>2. QED
    BY <1>1, <1>2, <2>1
<1>6. r.first = IF Len(t) = 0 THEN NULL ELSE t[1]
  BY <1>1, <1>2, <1>3, <1>4, PtrAssumption DEF IsQueue
<1>7. r.last = IF Len(t) = 0 THEN HEAD ELSE t[Len(t)]
  BY <1>1, <1>2, <1>4
<1>8. ASSUME NEW i \in 1..Len(t)
      PROVE  /\ r.next[t[i]] = IF i = Len(t) THEN NULL ELSE t[i+1]
             /\ r.prev[t[i]] = IF i = 1 THEN HEAD ELSE t[i-1]
  <2>1. CASE i = Len(t)
    BY <1>1, <1>2, <1>3, <1>4, <2>1, PtrAssumption
  <2>2. CASE i < Len(s)
    <3>1. /\ i \in 1..Len(s) /\ t[i] = s[i] /\ s[i] \in Env /\ s[i] # e
          /\ s[i] # s[Len(s)] /\ q.last = s[Len(s)]
      BY <1>1, <1>2, <1>3, <2>2 DEF IsQueue
    <3>2. r.next[t[i]] = q.next[s[i]] /\ r.prev[t[i]] = q.prev[s[i]]
      BY <1>4, <3>1
    <3>3. /\ q.next[s[i]] = s[i+1]
          /\ q.prev[s[i]] = IF i = 1 THEN HEAD ELSE s[i-1]
      BY <1>1, <2>2, <3>1 DEF IsQueue
    <3>4. QED
      BY <1>1, <1>2, <2>2, <3>2, <3>3
  <2>3. CASE i = Len(s)
    <3>1. t[i] = s[i] /\ s[i] \in Env /\ s[i] # e /\ q.last = s[i]
      BY <1>1, <1>2, <1>3, <2>3
    <3>2. r.next[t[i]] = e /\ r.prev[t[i]] = q.prev[s[i]]
      BY <1>4, <3>1
    <3>3. q.prev[s[i]] = IF i = 1 THEN HEAD ELSE s[i-1]
      BY <1>1, <2>3 DEF IsQueue
    <3>4. QED
      BY <1>1, <1>2, <2>3, <3>2, <3>3
  <2>4. QED
    BY <1>1, <1>2, <2>1, <2>2, <2>3
<1>9. QED
  <2>1. IsQueue(r, t)
    BY <1>2, <1>5, <1>6, <1>7, <1>8 DEF IsQueue
  <2>2. QED
    BY <1>4, <2>1 DEF r, t

(***************************************************************************)
(* The fields TAILQ_REMOVE leaves behind, by the kind of address that      *)
(* tqe_prev holds.                                                         *)
(***************************************************************************)
LEMMA RemoveHead ==
  ASSUME NEW q \in TailQueue, NEW e \in Env, q.prev[e] = HEAD
  PROVE  /\ TAILQ_REMOVE(q, e) \in TailQueue
         /\ TAILQ_REMOVE(q, e).first = q.next[e]
         /\ TAILQ_REMOVE(q, e).last = IF q.next[e] = NULL THEN HEAD ELSE q.last
         /\ TAILQ_REMOVE(q, e).next = q.next
         /\ TAILQ_REMOVE(q, e).prev =
              [x \in Env |-> IF x = q.next[e] THEN HEAD ELSE q.prev[x]]
<1>1. CASE q.next[e] = NULL
  BY <1>1, PtrAssumption DEF TAILQ_REMOVE, Store, TailQueue
<1>2. CASE q.next[e] # NULL
  BY <1>2, PtrAssumption DEF TAILQ_REMOVE, Store, TailQueue
<1>3. QED
  BY <1>1, <1>2

(***************************************************************************)
(* The same when tqe_prev is the next-field of another element.            *)
(***************************************************************************)
LEMMA RemoveInner ==
  ASSUME NEW q \in TailQueue, NEW e \in Env, q.prev[e] \in Env
  PROVE  /\ TAILQ_REMOVE(q, e) \in TailQueue
         /\ TAILQ_REMOVE(q, e).first = q.first
         /\ TAILQ_REMOVE(q, e).last = IF q.next[e] = NULL THEN q.prev[e] ELSE q.last
         /\ TAILQ_REMOVE(q, e).next = [q.next EXCEPT ![q.prev[e]] = q.next[e]]
         /\ TAILQ_REMOVE(q, e).prev =
              [x \in Env |-> IF x = q.next[e] THEN q.prev[e] ELSE q.prev[x]]
<1>1. CASE q.next[e] = NULL
  BY <1>1, PtrAssumption DEF TAILQ_REMOVE, Store, TailQueue
<1>2. CASE q.next[e] # NULL
  BY <1>2, PtrAssumption DEF TAILQ_REMOVE, Store, TailQueue
<1>3. QED
  BY <1>1, <1>2

(***************************************************************************)
(* TAILQ_REMOVE of the p-th element deletes it and nothing else.           *)
(***************************************************************************)
LEMMA RemoveDeletes ==
  ASSUME NEW q \in TailQueue, NEW s, IsQueue(q, s), NEW p \in 1..Len(s)
  PROVE  /\ TAILQ_REMOVE(q, s[p]) \in TailQueue
         /\ IsQueue(TAILQ_REMOVE(q, s[p]), Without(s, p))
         /\ Elements(Without(s, p)) = Elements(s) \ {s[p]}
         /\ CanUnlink(q, s[p])
<1> DEFINE r == TAILQ_REMOVE(q, s[p])
           t == Without(s, p)
           n == Len(s)
<1>1. /\ s \in Seq(Env) /\ n \in Nat /\ p \in 1..n
      /\ \A i \in 1..n : s[i] \in Env
      /\ \A i, j \in 1..n : s[i] = s[j] => i = j
  BY DEF IsQueue
<1>2. /\ t \in Seq(Env) /\ Len(t) = n - 1
      /\ \A i \in 1..(n-1) : t[i] = IF i < p THEN s[i] ELSE s[i+1]
  <2>1. t = [i \in 1..(n-1) |-> IF i < p THEN s[i] ELSE s[i+1]] /\ n - 1 \in Nat
    BY <1>1 DEF Without
  <2>2. \A i \in 1..(n-1) : (IF i < p THEN s[i] ELSE s[i+1]) \in Env
    BY <1>1
  <2>3. QED
    BY <2>1, <2>2
<1>3. /\ q.next[s[p]] = IF p = n THEN NULL ELSE s[p+1]
      /\ q.prev[s[p]] = IF p = 1 THEN HEAD ELSE s[p-1]
  BY <1>1 DEF IsQueue
<1>4. /\ r \in TailQueue
      /\ r.first = IF p = 1 THEN q.next[s[p]] ELSE q.first
      /\ r.last = IF p = n THEN q.prev[s[p]] ELSE q.last
      /\ r.next = [x \in Env |-> IF p # 1 /\ x = s[p-1] THEN q.next[s[p]] ELSE q.next[x]]
      /\ r.prev = [x \in Env |-> IF p # n /\ x = s[p+1] THEN q.prev[s[p]] ELSE q.prev[x]]
  <2>1. /\ p # n => s[p+1] \in Env
        /\ p # 1 => s[p-1] \in Env
        /\ s[p] \in Env
    BY <1>1
  <2>2. CASE q.prev[s[p]] = HEAD
    <3>1. p = 1
      BY <1>3, <2>1, <2>2, PtrAssumption
    <3>2. /\ r \in TailQueue
          /\ r.first = q.next[s[p]]
          /\ r.last = IF q.next[s[p]] = NULL THEN HEAD ELSE q.last
          /\ r.next = q.next
          /\ r.prev = [x \in Env |-> IF x = q.next[s[p]] THEN HEAD ELSE q.prev[x]]
      BY <2>1, <2>2, RemoveHead
    <3>3. q.next = [x \in Env |-> q.next[x]]
      BY DEF TailQueue
    <3>4. \A x \in Env : x = q.next[s[p]] <=> (p # n /\ x = s[p+1])
      BY <1>3, PtrAssumption
    <3>5. (q.next[s[p]] = NULL) <=> p = n
      BY <1>3, <2>1, PtrAssumption
    <3> HIDE DEF r
    <3>6. QED
      BY <2>2, <3>1, <3>2, <3>3, <3>4, <3>5
  <2>3. CASE q.prev[s[p]] # HEAD
    <3>1. p # 1
      BY <1>3, <2>3
    <3>2. q.prev[s[p]] = s[p-1] /\ s[p-1] \in Env
      BY <1>3, <2>1, <3>1
    <3>3. /\ r \in TailQueue
          /\ r.first = q.first
          /\ r.last = IF q.next[s[p]] = NULL THEN q.prev[s[p]] ELSE q.last
          /\ r.next = [q.next EXCEPT ![q.prev[s[p]]] = q.next[s[p]]]
          /\ r.prev = [x \in Env |-> IF x = q.next[s[p]] THEN q.prev[s[p]] ELSE q.prev[x]]
      BY <2>1, <3>2, RemoveInner
    <3>4. r.next = [x \in Env |-> IF x = s[p-1] THEN q.next[s[p]] ELSE q.next[x]]
      BY <3>2, <3>3 DEF TailQueue
    <3>5. \A x \in Env : x = q.next[s[p]] <=> (p # n /\ x = s[p+1])
      BY <1>3, PtrAssumption
    <3>6. (q.next[s[p]] = NULL) <=> p = n
      BY <1>3, <2>1, PtrAssumption
    <3> HIDE DEF r
    <3>7. QED
      BY <3>1, <3>3, <3>4, <3>5, <3>6
  <2>4. QED
    BY <2>2, <2>3
<1> HIDE DEF r, t
<1>5. Elements(t) = Elements(s) \ {s[p]}
  <2>1. ASSUME NEW i \in 1..(n-1)
        PROVE  t[i] \in Elements(s) \ {s[p]}
    BY <1>1, <1>2 DEF Elements
  <2>2. ASSUME NEW i \in 1..n, s[i] # s[p]
        PROVE  \E k \in 1..(n-1) : t[k] = s[i]
    <3>1. CASE i < p
      <4>1. i \in 1..(n-1) /\ t[i] = s[i]
        BY <1>1, <1>2, <3>1
      <4>2. QED
        BY <4>1
    <3>2. CASE i > p
      <4>1. i - 1 \in 1..(n-1) /\ t[i-1] = s[i]
        BY <1>1, <1>2, <3>2
      <4>2. QED
        BY <4>1
    <3>3. QED
      BY <1>1, <2>2, <3>1, <3>2
  <2>3. Elements(t) \subseteq Elements(s) \ {s[p]}
    BY <1>2, <2>1 DEF Elements
  <2>4. Elements(s) \ {s[p]} \subseteq Elements(t)
    BY <1>2, <2>2 DEF Elements
  <2>5. QED
    BY <2>3, <2>4
<1>6. \A i, j \in 1..Len(t) : t[i] = t[j] => i = j
  <2> TAKE i, j \in 1..Len(t)
  <2> HAVE t[i] = t[j]
  <2> DEFINE f(k) == IF k < p THEN k ELSE k + 1
  <2>1. t[i] = s[f(i)] /\ t[j] = s[f(j)] /\ f(i) \in 1..n /\ f(j) \in 1..n
    BY <1>1, <1>2
  <2>2. f(i) = f(j)
    <3> HIDE DEF f
    <3> QED  BY <1>1, <2>1
  <2>3. QED
    BY <1>1, <1>2, <2>2
<1>7. r.first = IF Len(t) = 0 THEN NULL ELSE t[1]
  BY <1>1, <1>2, <1>3, <1>4 DEF IsQueue
<1>8. r.last = IF Len(t) = 0 THEN HEAD ELSE t[Len(t)]
  BY <1>1, <1>2, <1>3, <1>4 DEF IsQueue
<1>9. ASSUME NEW i \in 1..Len(t)
      PROVE  /\ r.next[t[i]] = IF i = Len(t) THEN NULL ELSE t[i+1]
             /\ r.prev[t[i]] = IF i = 1 THEN HEAD ELSE t[i-1]
  <2>0. i \in 1..(n-1) /\ i \in Int
    BY <1>1, <1>2
  <2>1. CASE i < p
    <3>1. t[i] = s[i] /\ s[i] \in Env /\ i \in 1..n
      BY <1>1, <1>2, <2>0, <2>1
    <3>2. r.prev[s[i]] = q.prev[s[i]]
      BY <1>1, <1>4, <2>1, <3>1
    <3>3. r.next[s[i]] = IF i = p - 1 THEN q.next[s[p]] ELSE q.next[s[i]]
      BY <1>1, <1>4, <2>1, <3>1
    <3>4. /\ q.next[s[i]] = s[i+1]
          /\ q.prev[s[i]] = IF i = 1 THEN HEAD ELSE s[i-1]
      BY <1>1, <2>0, <2>1 DEF IsQueue
    <3>5. i # 1 => t[i-1] = s[i-1]
      BY <1>1, <1>2, <2>0, <2>1
    <3>6. i # Len(t) => t[i+1] = IF i = p - 1 THEN s[p+1] ELSE s[i+1]
      BY <1>1, <1>2, <2>0, <2>1
    <3>7. QED
      BY <1>1, <1>2, <1>3, <2>0, <2>1, <3>1, <3>2, <3>3, <3>4, <3>5, <3>6
  <2>2. CASE i >= p
    <3>1. t[i] = s[i+1] /\ s[i+1] \in Env /\ i + 1 \in 1..n
      BY <1>1, <1>2, <2>0, <2>2
    <3>2. r.next[s[i+1]] = q.next[s[i+1]]
      BY <1>1, <1>4, <2>0, <2>2, <3>1
    <3>3. r.prev[s[i+1]] = IF i = p THEN q.prev[s[p]] ELSE q.prev[s[i+1]]
      BY <1>1, <1>4, <2>0, <2>2, <3>1
    <3>4. /\ q.next[s[i+1]] = IF i + 1 = n THEN NULL ELSE s[i+2]
          /\ q.prev[s[i+1]] = s[i]
      BY <1>1, <2>0, <3>1 DEF IsQueue
    <3>5. i # 1 => t[i-1] = IF i = p THEN s[i-1] ELSE s[i]
      BY <1>1, <1>2, <2>0, <2>2
    <3>6. i # Len(t) => t[i+1] = s[i+2]
      BY <1>1, <1>2, <2>0, <2>2
    <3>7. QED
      BY <1>1, <1>2, <1>3, <2>0, <2>2, <3>1, <3>2, <3>3, <3>4, <3>5, <3>6
  <2>3. QED
    BY <1>1, <2>0, <2>1, <2>2
<1>10. CanUnlink(q, s[p])
  BY <1>1, <1>3, PtrAssumption DEF CanUnlink
<1>11. QED
  <2>1. IsQueue(r, t)
    BY <1>2, <1>6, <1>7, <1>8, <1>9 DEF IsQueue
  <2>2. QED
    BY <1>4, <1>5, <1>10, <2>1 DEF r, t

-----------------------------------------------------------------------------
(* The tail queue when nothing is known about its shape.                   *)

(***************************************************************************)
(* TAILQ_INSERT_TAIL keeps the types and clears no tqe_prev.               *)
(***************************************************************************)
LEMMA InsertTailType ==
  ASSUME NEW q \in TailQueue, NEW e \in Env
  PROVE  /\ TAILQ_INSERT_TAIL(q, e) \in TailQueue
         /\ \A x \in Env : x = e \/ q.prev[x] # NULL
                             => TAILQ_INSERT_TAIL(q, e).prev[x] # NULL
<1>1. CASE q.last = HEAD
  BY <1>1, PtrAssumption DEF TAILQ_INSERT_TAIL, Store, TailQueue
<1>2. CASE q.last # HEAD
  BY <1>2, PtrAssumption DEF TAILQ_INSERT_TAIL, Store, TailQueue
<1>3. QED
  BY <1>1, <1>2

(***************************************************************************)
(* TAILQ_INSERT_HEAD likewise.                                             *)
(***************************************************************************)
LEMMA InsertHeadType ==
  ASSUME NEW q \in TailQueue, NEW e \in Env
  PROVE  /\ TAILQ_INSERT_HEAD(q, e) \in TailQueue
         /\ \A x \in Env : x = e \/ q.prev[x] # NULL
                             => TAILQ_INSERT_HEAD(q, e).prev[x] # NULL
BY PtrAssumption DEF TAILQ_INSERT_HEAD, TailQueue

(***************************************************************************)
(* TAILQ_REMOVE likewise, for an element that was in the queue before.     *)
(***************************************************************************)
LEMMA RemoveType ==
  ASSUME NEW q \in TailQueue, NEW e \in Env, q.prev[e] # NULL
  PROVE  /\ TAILQ_REMOVE(q, e) \in TailQueue
         /\ \A x \in Env : q.prev[x] # NULL => TAILQ_REMOVE(q, e).prev[x] # NULL
<1>1. q.prev[e] = HEAD \/ q.prev[e] \in Env
  BY DEF TailQueue
<1> DEFINE r == TAILQ_REMOVE(q, e)
<1>2. CASE q.prev[e] = HEAD
  <2>1. r \in TailQueue /\ r.prev = [x \in Env |-> IF x = q.next[e] THEN HEAD ELSE q.prev[x]]
    BY <1>2, RemoveHead
  <2> HIDE DEF r
  <2>2. \A x \in Env : q.prev[x] # NULL => r.prev[x] # NULL
    BY <2>1, PtrAssumption
  <2>3. QED
    BY <2>1, <2>2 DEF r
<1>3. CASE q.prev[e] \in Env
  <2>1. r \in TailQueue /\ r.prev = [x \in Env |-> IF x = q.next[e] THEN q.prev[e] ELSE q.prev[x]]
    BY <1>3, RemoveInner
  <2> HIDE DEF r
  <2>2. \A x \in Env : q.prev[x] # NULL => r.prev[x] # NULL
    BY <2>1, PtrAssumption
  <2>3. QED
    BY <2>1, <2>2 DEF r
<1>4. QED
  BY <1>1, <1>2, <1>3

-----------------------------------------------------------------------------
(* Part 1: arbitrary system calls.                                         *)

\* Whoever is runnable or running has been in the list: its tqe_prev is set.
Linked ==
  \A e \in Env : env_status[e] = RUNNABLE \/ e = curenv
                   => env_sched_list.prev[e] # NULL

CurLive == curenv # NULL => env_status[curenv] # FREE

\* The slot an envid names is the slot it was made for.
IdOfSlot == \A e \in Live : ENVX(env_id[e]) = e

KernelInv ==
  TypeOK /\ Linked /\ CurLive /\ IdOfSlot /\ AsidsExclusive /\ FreeListExact

(***************************************************************************)
(* schedule() leaves a typed list that forgets no tqe_prev, and either     *)
(* keeps curenv or runs a runnable environment.                            *)
(***************************************************************************)
LEMMA ScheduleType ==
  ASSUME TypeOK, NEW y \in BOOLEAN, NEW cur \in Env \cup {NULL},
         NEW st \in [Env -> Status], NEW q \in TailQueue,
         \A x \in Env : st[x] = RUNNABLE => q.prev[x] # NULL,
         schedule(y, cur, st, q)
  PROVE  /\ env_sched_list' \in TailQueue
         /\ \A x \in Env : q.prev[x] # NULL => env_sched_list'.prev[x] # NULL
         /\ curenv' = cur \/ curenv' \in {x \in Env : st[x] = RUNNABLE}
         /\ count' \in Int
         /\ machine' \in Machine
<1> DEFINE stays  == cur # NULL /\ st[cur] = RUNNABLE
           switch == y \/ count = 0 \/ ~stays
           queue  == IF switch /\ stays
                       THEN TAILQ_INSERT_TAIL(TAILQ_REMOVE(q, cur), cur)
                       ELSE q
           chosen == IF switch THEN TAILQ_FIRST(queue) ELSE cur
<1>1. /\ queue \in TailQueue
      /\ \A x \in Env : q.prev[x] # NULL => queue.prev[x] # NULL
  <2>1. CASE switch /\ stays
    <3>1. cur \in Env /\ q.prev[cur] # NULL
      BY <2>1
    <3>2. /\ TAILQ_REMOVE(q, cur) \in TailQueue
          /\ \A x \in Env : q.prev[x] # NULL => TAILQ_REMOVE(q, cur).prev[x] # NULL
      BY <3>1, RemoveType
    <3>3. QED
      BY <2>1, <3>1, <3>2, InsertTailType
  <2>2. CASE ~(switch /\ stays)
    BY <2>2
  <2>3. QED
    BY <2>1, <2>2
<1> HIDE DEF queue
<1>2. env_sched_list' = queue
  BY DEF schedule, queue, CanGoOn, Rotate, SlicesLeft
<1>3. \/ machine' = "no_runnable_envs" /\ curenv' = cur /\ count' = count
      \/ /\ ~(switch /\ TAILQ_EMPTY(queue))
         /\ count' = (IF switch THEN env_pri[chosen] ELSE count) - 1
         /\ IF st[chosen] = RUNNABLE
              THEN curenv' = chosen /\ machine' = machine
              ELSE curenv' = cur /\ machine' = "assert_runnable"
  BY DEF schedule, queue, CanGoOn, Rotate, SlicesLeft
<1>4. ~(switch /\ TAILQ_EMPTY(queue)) => chosen \in Env
  BY <1>1 DEF TAILQ_EMPTY, TAILQ_FIRST, TailQueue
<1> HIDE DEF chosen, switch
<1>5. QED
  BY <1>1, <1>2, <1>3, <1>4 DEF TypeOK, Machine
(***************************************************************************)
(* What env_alloc and env_free do to slots, envids and ASIDs.              *)
(***************************************************************************)
LEMMA AllocIdType ==
  ASSUME TypeOK, NEW e \in Env, env_alloc_id(e)
  PROVE  next_id' \in 0..GenMod-1 /\ env_id' \in [Env -> Envid]
<1>1. next_id + 1 \in Int /\ GenMod \in Nat \ {0}
  BY ParamAssumption DEF TypeOK
<1>2. (next_id + 1) % GenMod \in 0..GenMod-1
  BY <1>1
<1>3. mkenvid(e) \in Envid
  BY <1>2 DEF mkenvid, Envid
<1>4. QED
  BY <1>2, <1>3 DEF env_alloc_id, TypeOK

(***************************************************************************)
(* env_alloc keeps ids unique to their slot, ASIDs exclusive and the free  *)
(* list exact, for whatever status other than ENV_FREE its caller sets.    *)
(***************************************************************************)
LEMMA AllocStep ==
  ASSUME KernelInv, NEW e \in Env, NEW p \in Envid, env_alloc(e, p),
         NEW st \in {RUNNABLE, NOT_RUNNABLE},
         env_status' = [env_status EXCEPT ![e] = st]
  PROVE  /\ env_status[e] = FREE
         /\ env_status' \in [Env -> Status]
         /\ next_id' \in 0..GenMod-1
         /\ env_id' \in [Env -> Envid]
         /\ env_parent_id' \in [Env -> Envid]
         /\ env_asid' \in [Env -> Nat]
         /\ asid_bitmap' \subseteq 0..NASID-1
         /\ env_free_list' \in Seq(Env)
         /\ AsidsExclusive'
         /\ FreeListExact'
         /\ IdOfSlot'
<1> USE DEF KernelInv
<1> DEFINE f == env_free_list
<1>1. /\ f \in Seq(Env) /\ f # <<>> /\ e = f[1] /\ env_free_list' = Tail(f)
      /\ Len(f) \in Nat /\ Len(f) > 0
  BY DEF env_alloc, TypeOK
<1>2. /\ Tail(f) \in Seq(Env) /\ Len(Tail(f)) = Len(f) - 1
      /\ \A i \in 1..Len(f)-1 : Tail(f)[i] = f[i+1]
  BY <1>1
<1>3. env_status[e] = FREE
  <2>1. e \in Elements(f)
    BY <1>1 DEF Elements
  <2>2. QED
    BY <2>1 DEF FreeListExact, Live
<1>4. PICK a \in FreeAsids : /\ env_asid' = [env_asid EXCEPT ![e] = a]
                             /\ asid_bitmap' = asid_bitmap \cup {a}
  BY DEF env_alloc
<1>5. a \in 0..NASID-1 /\ a \notin asid_bitmap /\ a \in Nat
  BY ParamAssumption DEF FreeAsids
<1>6. env_asid' \in [Env -> Nat] /\ asid_bitmap' \subseteq 0..NASID-1
  BY <1>4, <1>5 DEF TypeOK
<1>7. env_status' \in [Env -> Status] /\ Live' = Live \cup {e}
  BY DEF TypeOK, Live, Status, FREE, RUNNABLE, NOT_RUNNABLE
<1>8. e \notin Live
  BY <1>3 DEF Live
<1>9. \A x \in Live : env_asid'[x] = env_asid[x] /\ env_asid[x] # a
  <2>1. \A x \in Live : x \in Env /\ x # e /\ env_asid[x] \in asid_bitmap
    BY <1>8 DEF AsidsExclusive, Live
  <2>2. QED
    BY <2>1, <1>4, <1>5 DEF TypeOK
<1>10. env_asid'[e] = a
  BY <1>4 DEF TypeOK
<1>11. AsidsExclusive'
  <2>1. \A d, x \in Live' : env_asid'[d] = env_asid'[x] => d = x
    BY <1>7, <1>9, <1>10 DEF AsidsExclusive
  <2>2. asid_bitmap' = {env_asid'[x] : x \in Live'}
    <3>1. asid_bitmap' \subseteq {env_asid'[x] : x \in Live'}
      BY <1>4, <1>7, <1>9, <1>10 DEF AsidsExclusive
    <3>2. {env_asid'[x] : x \in Live'} \subseteq asid_bitmap'
      BY <1>4, <1>7, <1>9, <1>10 DEF AsidsExclusive
    <3>3. QED
      BY <3>1, <3>2
  <2>3. QED
    BY <2>1, <2>2 DEF AsidsExclusive
<1>12. FreeListExact'
  <2>1. \A i, j \in 1..Len(f) : f[i] = f[j] => i = j
    BY DEF FreeListExact
  <2>2. \A i, j \in 1..Len(Tail(f)) : Tail(f)[i] = Tail(f)[j] => i = j
    <3> TAKE i, j \in 1..Len(Tail(f))
    <3>1. /\ i + 1 \in 1..Len(f) /\ j + 1 \in 1..Len(f)
          /\ Tail(f)[i] = f[i+1] /\ Tail(f)[j] = f[j+1] /\ i \in Int /\ j \in Int
      BY <1>1, <1>2
    <3>2. QED
      BY <2>1, <3>1
  <2>3. Elements(Tail(f)) = Elements(f) \ {e}
    <3>1. ASSUME NEW i \in 1..Len(Tail(f))
          PROVE  Tail(f)[i] \in Elements(f) \ {e}
      <4>1. /\ i + 1 \in 1..Len(f) /\ 1 \in 1..Len(f) /\ i + 1 # 1
            /\ Tail(f)[i] = f[i+1]
        BY <1>1, <1>2
      <4>2. f[i+1] # f[1]
        BY <2>1, <4>1
      <4>3. QED
        BY <1>1, <4>1, <4>2 DEF Elements
    <3>2. ASSUME NEW i \in 1..Len(f), f[i] # e
          PROVE  \E k \in 1..Len(Tail(f)) : Tail(f)[k] = f[i]
      <4>1. i - 1 \in 1..Len(Tail(f)) /\ Tail(f)[i-1] = f[i]
        BY <1>1, <1>2, <3>2
      <4>2. QED
        BY <4>1
    <3>3. Elements(Tail(f)) \subseteq Elements(f) \ {e}
      BY <3>1 DEF Elements
    <3>4. Elements(f) \ {e} \subseteq Elements(Tail(f))
      BY <3>2 DEF Elements
    <3>5. QED
      BY <3>3, <3>4
  <2>4. Elements(f) = Env \ Live
    BY DEF FreeListExact
  <2> HIDE DEF f
  <2>5. Elements(env_free_list') = Env \ Live'
    BY <1>1, <1>7, <2>3, <2>4
  <2>6. QED
    BY <1>1, <2>2, <2>5 DEF FreeListExact
<1>13. env_parent_id' \in [Env -> Envid]
  BY DEF env_alloc, TypeOK
<1>14. next_id' \in 0..GenMod-1 /\ env_id' \in [Env -> Envid]
  BY AllocIdType DEF env_alloc
<1>15. IdOfSlot'
  <2>1. env_id' = [env_id EXCEPT ![e] = mkenvid(e)] /\ ENVX(mkenvid(e)) = e
    BY DEF env_alloc, env_alloc_id, ENVX, mkenvid
  <2>2. QED
    BY <1>7, <2>1 DEF IdOfSlot, Live, TypeOK
<1>16. QED
  BY <1>1, <1>2, <1>3, <1>6, <1>7, <1>11, <1>12, <1>13, <1>14, <1>15

(***************************************************************************)
(* env_free gives back the slot and the ASID and keeps the rest exact.     *)
(***************************************************************************)
LEMMA FreeStep ==
  ASSUME KernelInv, NEW e \in Env, env_status[e] # FREE, env_free(e)
  PROVE  /\ env_status' \in [Env -> Status]
         /\ asid_bitmap' \subseteq 0..NASID-1
         /\ env_free_list' \in Seq(Env)
         /\ AsidsExclusive'
         /\ FreeListExact'
         /\ IdOfSlot'
<1> USE DEF KernelInv
<1> DEFINE f == env_free_list
           t == <<e>> \o f
<1>1. /\ f \in Seq(Env) /\ Len(f) \in Nat /\ env_free_list' = t
      /\ asid_bitmap' = asid_bitmap \ {env_asid[e]} /\ env_asid' = env_asid
  BY DEF env_free, TypeOK
<1>2. /\ t \in Seq(Env) /\ Len(t) = Len(f) + 1
      /\ t[1] = e /\ \A i \in 2..Len(t) : t[i] = f[i-1]
  BY <1>1
<1>3. env_status' \in [Env -> Status] /\ Live' = Live \ {e} /\ e \in Live
  BY DEF env_free, TypeOK, Live, Status, FREE, RUNNABLE, NOT_RUNNABLE
<1>4. AsidsExclusive'
  <2>1. \A d, x \in Live : env_asid[d] = env_asid[x] => d = x
    BY DEF AsidsExclusive
  <2>2. asid_bitmap' = {env_asid[x] : x \in Live \ {e}}
    <3>1. asid_bitmap' \subseteq {env_asid[x] : x \in Live \ {e}}
      BY <1>1 DEF AsidsExclusive
    <3>2. {env_asid[x] : x \in Live \ {e}} \subseteq asid_bitmap'
      BY <1>1, <1>3, <2>1 DEF AsidsExclusive
    <3>3. QED
      BY <3>1, <3>2
  <2>3. QED
    BY <1>1, <1>3, <2>1, <2>2 DEF AsidsExclusive
<1>5. FreeListExact'
  <2>1. Elements(f) = Env \ Live /\ \A i, j \in 1..Len(f) : f[i] = f[j] => i = j
    BY DEF FreeListExact
  <2>2. \A i \in 1..Len(f) : f[i] # e
    BY <1>3, <2>1 DEF Elements
  <2> HIDE DEF f, t
  <2>3. \A k \in 2..Len(t) : k - 1 \in 1..Len(f) /\ t[k] = f[k-1] /\ t[k] # t[1] /\ k \in Int
    BY <1>1, <1>2, <2>2
  <2>4. \A i, j \in 2..Len(t) : t[i] = t[j] => i = j
    <3> TAKE i, j \in 2..Len(t)
    <3> HAVE t[i] = t[j]
    <3>1. f[i-1] = f[j-1] /\ i - 1 \in 1..Len(f) /\ j - 1 \in 1..Len(f)
      BY <2>3
    <3>2. i - 1 = j - 1
      BY <2>1, <3>1
    <3>3. QED
      BY <2>3, <3>2
  <2>5. \A i, j \in 1..Len(t) : t[i] = t[j] => i = j
    BY <1>1, <1>2, <2>3, <2>4
  <2>6. Elements(t) = Elements(f) \cup {e}
    <3>1. Elements(t) \subseteq Elements(f) \cup {e}
      <4>1. ASSUME NEW i \in 1..Len(t)
            PROVE  t[i] = e \/ \E k \in 1..Len(f) : f[k] = t[i]
        <5>1. CASE i = 1
          BY <1>2, <5>1
        <5>2. CASE i # 1
          <6>1. i \in 2..Len(t)
            BY <1>1, <1>2, <5>2
          <6>2. QED
            BY <2>3, <6>1
        <5>3. QED
          BY <5>1, <5>2
      <4>2. QED
        BY <4>1 DEF Elements
    <3>2. ASSUME NEW i \in 1..Len(f) PROVE \E k \in 1..Len(t) : t[k] = f[i]
      <4>1. i + 1 \in 2..Len(t) /\ (i + 1) - 1 = i
        BY <1>1, <1>2
      <4>2. t[i+1] = f[i] /\ i + 1 \in 1..Len(t)
        BY <1>1, <1>2, <4>1
      <4>3. QED
        BY <4>2
    <3>3. Elements(f) \cup {e} \subseteq Elements(t)
      BY <1>1, <1>2, <3>2 DEF Elements
    <3>4. QED
      BY <3>1, <3>3
  <2>7. QED
    BY <1>1, <1>3, <2>1, <2>5, <2>6 DEF FreeListExact, Live
<1>6. IdOfSlot'
  BY <1>3 DEF IdOfSlot, env_free, idVars
<1>7. QED
  BY <1>1, <1>2, <1>3, <1>4, <1>5, <1>6 DEF TypeOK

(***************************************************************************)
(* The kernel's own bookkeeping survives every sequence of system calls.   *)
(***************************************************************************)
LEMMA KernelInit == Init => KernelInv
<1> SUFFICES ASSUME Init PROVE KernelInv
  OBVIOUS
<1>1. ZeroId \in Envid
  BY EnvsAssumption, ParamAssumption DEF ZeroId, Envid
<1>2. Live = {}
  BY DEF Init, Live
<1>3. TypeOK
  BY <1>1, EnvsAssumption, ParamAssumption, InitIsQueue
     DEF Init, TypeOK, Status, Machine
<1>4. Linked /\ CurLive /\ IdOfSlot
  BY <1>2, PtrAssumption DEF Init, Linked, CurLive, IdOfSlot, FREE, RUNNABLE
<1>5. AsidsExclusive
  BY <1>2 DEF Init, AsidsExclusive
<1>6. FreeListExact
  <2>1. Elements(envs) \subseteq Env
    BY EnvsAssumption DEF Elements
  <2>2. Env \subseteq Elements(envs)
    BY EnvsAssumption DEF Elements
  <2>3. QED
    BY <1>2, <2>1, <2>2, EnvsAssumption DEF Init, FreeListExact
<1>7. QED
  BY <1>3, <1>4, <1>5, <1>6 DEF KernelInv

(***************************************************************************)
(* envid2env returns a live environment or NULL.                           *)
(***************************************************************************)
LEMMA ResolveType ==
  ASSUME KernelInv, UserMode, NEW id \in Envid, NEW c \in BOOLEAN,
         envid2env(id, c) # NULL
  PROVE  envid2env(id, c) \in Env /\ env_status[envid2env(id, c)] # FREE
<1>1. CASE id = ZeroId
  BY <1>1 DEF KernelInv, TypeOK, CurLive, UserMode, envid2env
<1>2. CASE id # ZeroId
  <2>1. ENVX(id) \in Env
    BY DEF ENVX, Envid
  <2>2. QED
    BY <1>2, <2>1 DEF envid2env
<1>3. QED
  BY <1>1, <1>2

\* The part of KernelInv that concerns identity, when slots, ASIDs and the
\* set of live environments stay as they are.
LEMMA SameSlots ==
  ASSUME AsidsExclusive, FreeListExact, IdOfSlot, Live' = Live,
         UNCHANGED <<asid_bitmap, env_asid, env_free_list>>,
         \A e \in Live : env_id'[e] = env_id[e]
  PROVE  AsidsExclusive' /\ FreeListExact' /\ IdOfSlot'
BY DEF AsidsExclusive, FreeListExact, IdOfSlot

\* An env_alloc that finds no ASID has renamed a slot that stays free.
LEMMA FailedAllocKeepsIds ==
  ASSUME KernelInv, env_alloc_no_asid
  PROVE  \A e \in Live : env_id'[e] = env_id[e]
<1> DEFINE f == env_free_list
<1>1. f \in Seq(Env) /\ f # <<>> /\ env_id' = [env_id EXCEPT ![f[1]] = mkenvid(f[1])]
  BY DEF KernelInv, TypeOK, env_alloc_no_asid, env_alloc_id
<1>2. f[1] \in Elements(f)
  BY <1>1 DEF Elements
<1>3. f[1] \notin Live
  BY <1>2 DEF KernelInv, FreeListExact
<1>4. QED
  BY <1>1, <1>3 DEF KernelInv, TypeOK, Live

(***************************************************************************)
(* Every system call and interrupt preserves the kernel's invariant, with  *)
(* one step per action of Next.                                            *)
(***************************************************************************)
LEMMA KernelStep == KernelInv /\ [Next]_vars => KernelInv'
<1> SUFFICES ASSUME KernelInv, [Next]_vars PROVE KernelInv'
  OBVIOUS
<1> USE DEF KernelInv
<1>1. ASSUME NEW p \in Pri, env_create(p) PROVE KernelInv'
  <2>1. PICK e \in Env :
          /\ env_alloc(e, ZeroId)
          /\ env_pri' = [env_pri EXCEPT ![e] = p]
          /\ env_status' = [env_status EXCEPT ![e] = RUNNABLE]
          /\ env_sched_list' = TAILQ_INSERT_HEAD(env_sched_list, e)
    BY <1>1 DEF env_create
  <2>2. ZeroId \in Envid
    BY EnvsAssumption, ParamAssumption DEF ZeroId, Envid
  <2>3. /\ env_status' \in [Env -> Status]
        /\ next_id' \in 0..GenMod-1
        /\ env_id' \in [Env -> Envid]
        /\ env_parent_id' \in [Env -> Envid]
        /\ env_asid' \in [Env -> Nat]
        /\ asid_bitmap' \subseteq 0..NASID-1
        /\ env_free_list' \in Seq(Env)
        /\ AsidsExclusive'
        /\ FreeListExact'
        /\ IdOfSlot'
    BY <2>1, <2>2, AllocStep
  <2>4. /\ env_sched_list' \in TailQueue
        /\ \A x \in Env : x = e \/ env_sched_list.prev[x] # NULL
                            => env_sched_list'.prev[x] # NULL
    BY <2>1, InsertHeadType DEF TypeOK
  <2>5. TypeOK'
    BY <1>1, <2>1, <2>3, <2>4, ParamAssumption DEF TypeOK, env_create, ipcVars
  <2>6. Linked' /\ CurLive'
    BY <1>1, <2>1, <2>4 DEF Linked, CurLive, TypeOK, env_create, FREE, RUNNABLE
  <2>7. QED
    BY <2>3, <2>5, <2>6
<1>2. CASE env_create_fails
  <2>1. /\ UNCHANGED <<env_status, env_pri, env_sched_list, curenv, count, asid_bitmap,
                       env_asid, env_free_list, env_parent_id>>
        /\ UNCHANGED <<env_ipc_recving, env_ipc_value, env_ipc_from>>
        /\ machine' = "no_free_env"
    BY <1>2 DEF env_create_fails, env_alloc_no_asid, idVars, asidVars, ipcVars
  <2>2. /\ next_id' \in 0..GenMod-1 /\ env_id' \in [Env -> Envid]
        /\ \A e \in Live : env_id'[e] = env_id[e]
    <3>1. CASE env_alloc_no_asid
      <4>1. Head(env_free_list) \in Env /\ env_alloc_id(Head(env_free_list))
        BY <3>1 DEF env_alloc_no_asid, TypeOK
      <4>2. QED
        BY <3>1, <4>1, AllocIdType, FailedAllocKeepsIds
    <3>2. CASE UNCHANGED idVars
      BY <3>2 DEF idVars, TypeOK
    <3>3. QED
      BY <1>2, <3>1, <3>2 DEF env_create_fails
  <2>3. TypeOK'
    BY <2>1, <2>2 DEF TypeOK, Machine
  <2>4. QED
    BY <2>1, <2>2, <2>3, SameSlots DEF Linked, CurLive, Live
<1>3. CASE enable_irq \/ sys_cgetc \/ scancharc
  <2>1. UNCHANGED <<env_status, env_free_list, env_pri, idVars, asidVars, ipcVars,
                    env_sched_list, curenv, count>> /\ machine' \in {"up", "console"}
    BY <1>3 DEF enable_irq, sys_cgetc, scancharc
  <2>2. QED
    BY <2>1, SameSlots
       DEF idVars, asidVars, ipcVars, TypeOK, Machine, Linked, CurLive, Live
<1>4. CASE handle_timer \/ sys_yield
  <2>1. PICK y \in BOOLEAN : schedule(y, curenv, env_status, env_sched_list)
    BY <1>4 DEF handle_timer, sys_yield
  <2>2. UNCHANGED <<env_status, env_free_list, env_pri, idVars, asidVars, ipcVars>>
    BY <1>4 DEF handle_timer, sys_yield
  <2>3. /\ env_sched_list' \in TailQueue
        /\ \A x \in Env : env_sched_list.prev[x] # NULL => env_sched_list'.prev[x] # NULL
        /\ curenv' = curenv \/ curenv' \in {x \in Env : env_status[x] = RUNNABLE}
        /\ count' \in Int
        /\ machine' \in Machine
    <3>1. /\ TypeOK /\ curenv \in Env \cup {NULL} /\ env_status \in [Env -> Status]
          /\ env_sched_list \in TailQueue
          /\ \A x \in Env : env_status[x] = RUNNABLE => env_sched_list.prev[x] # NULL
      BY DEF TypeOK, Linked
    <3>2. QED
      BY <2>1, <3>1, ScheduleType
  <2>4. TypeOK'
    BY <2>2, <2>3 DEF TypeOK, idVars, asidVars, ipcVars
  <2>5. Linked' /\ CurLive'
    BY <2>2, <2>3 DEF Linked, CurLive, FREE, RUNNABLE
  <2>6. QED
    BY <2>2, <2>4, <2>5, SameSlots DEF asidVars, idVars, Live
<1>5. CASE sys_exofork
  <2>1. PICK e \in Env :
          /\ env_alloc(e, env_id[curenv])
          /\ env_status' = [env_status EXCEPT ![e] = NOT_RUNNABLE]
          /\ env_pri' = [env_pri EXCEPT ![e] = env_pri[curenv]]
    BY <1>5 DEF sys_exofork
  <2>2. curenv \in Env /\ env_id[curenv] \in Envid /\ env_pri[curenv] \in Nat
    BY <1>5 DEF sys_exofork, UserMode, TypeOK
  <2>3. /\ env_status[e] = FREE
        /\ env_status' \in [Env -> Status]
        /\ next_id' \in 0..GenMod-1
        /\ env_id' \in [Env -> Envid]
        /\ env_parent_id' \in [Env -> Envid]
        /\ env_asid' \in [Env -> Nat]
        /\ asid_bitmap' \subseteq 0..NASID-1
        /\ env_free_list' \in Seq(Env)
        /\ AsidsExclusive'
        /\ FreeListExact'
        /\ IdOfSlot'
    BY <2>1, <2>2, AllocStep
  <2>4. TypeOK'
    BY <1>5, <2>1, <2>2, <2>3 DEF TypeOK, sys_exofork, ipcVars, schedVars
  <2>5. Linked' /\ CurLive'
    BY <1>5, <2>1, <2>3
       DEF Linked, CurLive, TypeOK, sys_exofork, schedVars, FREE, RUNNABLE, NOT_RUNNABLE
  <2>6. QED
    BY <2>3, <2>4, <2>5
<1>6. CASE sys_exofork_no_asid
  <2>1. /\ UNCHANGED <<env_status, env_pri, ipcVars, schedVars, asidVars,
                       env_parent_id, env_free_list>>
        /\ env_alloc_id(Head(env_free_list)) /\ Head(env_free_list) \in Env
    BY <1>6 DEF sys_exofork_no_asid, env_alloc_no_asid, TypeOK
  <2>2. /\ next_id' \in 0..GenMod-1 /\ env_id' \in [Env -> Envid]
        /\ \A e \in Live : env_id'[e] = env_id[e]
    BY <1>6, <2>1, AllocIdType, FailedAllocKeepsIds DEF sys_exofork_no_asid
  <2>3. TypeOK' /\ Linked' /\ CurLive'
    BY <2>1, <2>2 DEF TypeOK, Linked, CurLive, ipcVars, schedVars, asidVars
  <2>4. QED
    BY <2>1, <2>2, <2>3, SameSlots DEF asidVars, idVars, Live
<1>7. CASE sys_ipc_recv
  <2> DEFINE q == TAILQ_REMOVE(env_sched_list, curenv)
  <2>1. curenv \in Env /\ env_sched_list.prev[curenv] # NULL
    BY <1>7 DEF sys_ipc_recv, UserMode, TypeOK, Linked
  <2>2. /\ q \in TailQueue
        /\ \A x \in Env : env_sched_list.prev[x] # NULL => q.prev[x] # NULL
    BY <2>1, RemoveType DEF TypeOK
  <2>3. /\ env_status' = [env_status EXCEPT ![curenv] = NOT_RUNNABLE]
        /\ env_ipc_recving' = [env_ipc_recving EXCEPT ![curenv] = TRUE]
        /\ schedule(TRUE, curenv, env_status', q)
        /\ UNCHANGED <<env_free_list, env_pri, idVars, asidVars, env_ipc_value, env_ipc_from>>
    BY <1>7 DEF sys_ipc_recv
  <2>4. /\ env_status' \in [Env -> Status]
        /\ \A x \in Env : env_status'[x] = RUNNABLE => env_status[x] = RUNNABLE
        /\ env_status'[curenv] = NOT_RUNNABLE /\ Live' = Live
    BY <2>1, <2>3, PtrAssumption DEF TypeOK, CurLive, Live, Status, FREE, RUNNABLE, NOT_RUNNABLE
  <2> HIDE DEF q
  <2>5. \A x \in Env : env_status'[x] = RUNNABLE => q.prev[x] # NULL
    BY <2>2, <2>4 DEF Linked
  <2>6. /\ env_sched_list' \in TailQueue
        /\ \A x \in Env : q.prev[x] # NULL => env_sched_list'.prev[x] # NULL
        /\ curenv' = curenv \/ curenv' \in {x \in Env : env_status'[x] = RUNNABLE}
        /\ count' \in Int
        /\ machine' \in Machine
    <3>1. schedule(TRUE, curenv, env_status', q)
      BY <2>3
    <3>2. env_status' \in [Env -> Status] /\ q \in TailQueue /\ curenv \in Env \cup {NULL}
      BY <2>1, <2>2, <2>4
    <3>3. QED
      BY <2>5, <3>1, <3>2, ScheduleType
  <2>7. TypeOK'
    <3>1. curenv' \in Env \cup {NULL} /\ env_ipc_recving' \in [Env -> BOOLEAN]
      BY <2>1, <2>3, <2>6 DEF TypeOK
    <3>2. QED
      BY <2>3, <2>4, <2>6, <3>1 DEF TypeOK, idVars, asidVars
  <2>8. Linked'
    BY <2>1, <2>2, <2>5, <2>6 DEF Linked
  <2>9. CurLive'
    BY <2>1, <2>4, <2>6 DEF CurLive, FREE, RUNNABLE, NOT_RUNNABLE
  <2>10. QED
    BY <2>3, <2>4, <2>7, <2>8, <2>9, SameSlots DEF asidVars, idVars
<1>8. ASSUME NEW id \in Envid, sys_env_destroy(id) PROVE KernelInv'
  <2> DEFINE e == envid2env(id, TRUE)
             q == TAILQ_REMOVE(env_sched_list, e)
  <2>1. UserMode /\ e # NULL
    BY <1>8 DEF sys_env_destroy, env_destroy
  <2>2. e \in Env /\ env_status[e] # FREE
    BY <2>1, ResolveType
  <2>3. /\ env_free(e)
        /\ IF ~CanUnlink(env_sched_list, e)
             THEN machine' = "null_store" /\ UNCHANGED <<env_sched_list, curenv, count>>
           ELSE IF e = curenv
             THEN schedule(TRUE, NULL, env_status', q)
             ELSE env_sched_list' = q /\ UNCHANGED <<curenv, count, machine>>
    BY <1>8 DEF sys_env_destroy, env_destroy
  <2> HIDE DEF e, q
  <2>4. /\ env_status' \in [Env -> Status]
        /\ asid_bitmap' \subseteq 0..NASID-1
        /\ env_free_list' \in Seq(Env)
        /\ AsidsExclusive'
        /\ FreeListExact'
        /\ IdOfSlot'
    BY <2>2, <2>3, FreeStep
  <2>5. /\ env_status' = [env_status EXCEPT ![e] = FREE]
        /\ UNCHANGED <<env_asid, env_pri, env_id, env_parent_id, next_id,
                       env_ipc_recving, env_ipc_value, env_ipc_from>>
    BY <2>3 DEF env_free, idVars, ipcVars
  <2>6. \A x \in Env : env_status'[x] = RUNNABLE => env_status[x] = RUNNABLE
    BY <2>2, <2>5 DEF TypeOK, FREE, RUNNABLE
  <2>7. \A x \in Env : x # e => env_status'[x] = env_status[x]
    BY <2>5 DEF TypeOK
  <2>8. CASE ~CanUnlink(env_sched_list, e)
    <3>1. e # curenv
      BY <2>2, <2>8 DEF CanUnlink, Linked
    <3>2. machine' = "null_store" /\ UNCHANGED <<env_sched_list, curenv, count>>
      BY <2>3, <2>8
    <3>3. TypeOK'
      BY <2>4, <2>5, <3>2 DEF TypeOK, Machine
    <3>4. Linked' /\ CurLive'
      BY <2>6, <2>7, <3>1, <3>2 DEF Linked, CurLive, TypeOK
    <3>5. QED
      BY <2>4, <3>3, <3>4
  <2>9. CASE CanUnlink(env_sched_list, e)
    <3>1. /\ q \in TailQueue
          /\ \A x \in Env : env_sched_list.prev[x] # NULL => q.prev[x] # NULL
      BY <2>2, <2>9, RemoveType DEF q, CanUnlink, TypeOK
    <3>2. \A x \in Env : env_status'[x] = RUNNABLE => q.prev[x] # NULL
      BY <2>6, <3>1 DEF Linked
    <3>3. CASE e = curenv
      <4>1. schedule(TRUE, NULL, env_status', q)
        BY <2>3, <2>9, <3>3
      <4>2. /\ env_sched_list' \in TailQueue
            /\ \A x \in Env : q.prev[x] # NULL => env_sched_list'.prev[x] # NULL
            /\ curenv' = NULL \/ curenv' \in {x \in Env : env_status'[x] = RUNNABLE}
            /\ count' \in Int
            /\ machine' \in Machine
        BY <2>4, <3>1, <3>2, <4>1, ScheduleType
      <4>3. TypeOK'
        BY <2>4, <2>5, <4>2 DEF TypeOK
      <4>4. Linked' /\ CurLive'
        BY <3>2, <4>2, PtrAssumption DEF Linked, CurLive, FREE, RUNNABLE
      <4>5. QED
        BY <2>4, <4>3, <4>4
    <3>4. CASE e # curenv
      <4>1. env_sched_list' = q /\ UNCHANGED <<curenv, count, machine>>
        BY <2>3, <2>9, <3>4
      <4>2. TypeOK'
        BY <2>4, <2>5, <3>1, <4>1 DEF TypeOK
      <4>3. Linked' /\ CurLive'
        BY <2>6, <2>7, <3>1, <3>4, <4>1 DEF Linked, CurLive, TypeOK
      <4>4. QED
        BY <2>4, <4>2, <4>3
    <3>5. QED
      BY <3>3, <3>4
  <2>10. QED
    BY <2>8, <2>9
<1>9. ASSUME NEW id \in Envid, NEW st \in {RUNNABLE, NOT_RUNNABLE},
             sys_set_env_status(id, st)
      PROVE  KernelInv'
  <2> DEFINE e == envid2env(id, TRUE)
  <2>1. UserMode /\ e # NULL
    BY <1>9 DEF sys_set_env_status
  <2>2. e \in Env /\ env_status[e] # FREE
    BY <2>1, ResolveType
  <2>3. /\ env_status[e] # st
        /\ env_status' = [env_status EXCEPT ![e] = st]
        /\ env_sched_list' = IF st = RUNNABLE
                               THEN TAILQ_INSERT_TAIL(env_sched_list, e)
                               ELSE TAILQ_REMOVE(env_sched_list, e)
        /\ UNCHANGED <<env_free_list, env_pri, idVars, asidVars, ipcVars,
                       curenv, count, machine>>
    BY <1>9 DEF sys_set_env_status
  <2> HIDE DEF e
  <2>4. env_status' \in [Env -> Status] /\ Live' = Live
    BY <2>2, <2>3 DEF TypeOK, Live, Status, FREE, RUNNABLE, NOT_RUNNABLE
  <2>5. /\ env_sched_list' \in TailQueue
        /\ \A x \in Env : (st = RUNNABLE /\ x = e) \/ env_sched_list.prev[x] # NULL
                            => env_sched_list'.prev[x] # NULL
    <3>1. CASE st = RUNNABLE
      BY <2>2, <2>3, <3>1, InsertTailType DEF TypeOK
    <3>2. CASE st = NOT_RUNNABLE
      <4>1. st # RUNNABLE /\ env_status[e] = RUNNABLE
        BY <2>2, <2>3, <3>2 DEF TypeOK, Status, RUNNABLE, NOT_RUNNABLE
      <4>2. env_sched_list.prev[e] # NULL
        BY <2>2, <4>1 DEF Linked
      <4>3. QED
        BY <2>2, <2>3, <4>1, <4>2, RemoveType DEF TypeOK
    <3>3. QED
      BY <3>1, <3>2
  <2>6. TypeOK'
    BY <2>3, <2>4, <2>5 DEF TypeOK, idVars, asidVars, ipcVars
  <2>7. Linked' /\ CurLive'
    BY <2>2, <2>3, <2>5 DEF Linked, CurLive, TypeOK, FREE, RUNNABLE, NOT_RUNNABLE
  <2>8. QED
    BY <2>3, <2>4, <2>6, <2>7, SameSlots DEF asidVars, idVars
<1>10. ASSUME NEW id \in Envid, NEW v \in Value, sys_ipc_try_send(id, v)
       PROVE  KernelInv'
  <2> DEFINE e == envid2env(id, FALSE)
  <2>1. UserMode /\ e # NULL
    BY <1>10 DEF sys_ipc_try_send
  <2>2. e \in Env /\ env_status[e] # FREE /\ curenv \in Env
    BY <2>1, ResolveType DEF UserMode, TypeOK
  <2>3. /\ env_ipc_value' = [env_ipc_value EXCEPT ![e] = v]
        /\ env_ipc_from' = [env_ipc_from EXCEPT ![e] = env_id[curenv]]
        /\ env_ipc_recving' = [env_ipc_recving EXCEPT ![e] = FALSE]
        /\ env_status' = [env_status EXCEPT ![e] = RUNNABLE]
        /\ env_sched_list' = TAILQ_INSERT_TAIL(env_sched_list, e)
        /\ UNCHANGED <<env_free_list, env_pri, idVars, asidVars, curenv, count, machine>>
    BY <1>10 DEF sys_ipc_try_send
  <2> HIDE DEF e
  <2>4. env_status' \in [Env -> Status] /\ Live' = Live
    BY <2>2, <2>3 DEF TypeOK, Live, Status, FREE, RUNNABLE
  <2>5. /\ env_sched_list' \in TailQueue
        /\ \A x \in Env : x = e \/ env_sched_list.prev[x] # NULL
                            => env_sched_list'.prev[x] # NULL
    BY <2>2, <2>3, InsertTailType DEF TypeOK
  <2>6. TypeOK'
    BY <2>2, <2>3, <2>4, <2>5 DEF TypeOK, idVars, asidVars
  <2>7. Linked' /\ CurLive'
    BY <2>2, <2>3, <2>5 DEF Linked, CurLive, TypeOK, FREE, RUNNABLE
  <2>8. QED
    BY <2>3, <2>4, <2>6, <2>7, SameSlots DEF asidVars, idVars
<1>11. CASE UNCHANGED vars
  BY <1>11, SameSlots DEF vars, idVars, asidVars, ipcVars, schedVars, TypeOK,
                          Linked, CurLive, Live
<1>12. QED
  BY <1>1, <1>2, <1>3, <1>4, <1>5, <1>6, <1>7, <1>8, <1>9, <1>10, <1>11 DEF Next, Boot

(***************************************************************************)
(* Whatever calls are made, in whatever order, the types of the kernel's   *)
(* variables are kept; no list operation other than the one in env_free    *)
(* follows a null link.                                                    *)
(***************************************************************************)
THEOREM TypeCorrect == Spec => []TypeOK
<1>1. KernelInv => TypeOK
  BY DEF KernelInv
<1>2. QED
  BY <1>1, KernelInit, KernelStep, PTL DEF Spec

(***************************************************************************)
(* Whatever calls are made, live environments have distinct ASIDs and no   *)
(* ASID leaks (asid_alloc, asid_free).                                     *)
(***************************************************************************)
THEOREM AsidIsolation == Spec => []AsidsExclusive
<1>1. KernelInv => AsidsExclusive
  BY DEF KernelInv
<1>2. QED
  BY <1>1, KernelInit, KernelStep, PTL DEF Spec

(***************************************************************************)
(* Whatever calls are made, the free list holds exactly the free slots     *)
(* (env_alloc, env_free).                                                  *)
(***************************************************************************)
THEOREM FreeListCorrect == Spec => []FreeListExact
<1>1. KernelInv => FreeListExact
  BY DEF KernelInv
<1>2. QED
  BY <1>1, KernelInit, KernelStep, PTL DEF Spec

(***************************************************************************)
(* The slices of the running environment stay below its priority because   *)
(* every live environment has at least one slice, and because nothing runs *)
(* before interrupts are enabled: the first tick chooses afresh.           *)
(***************************************************************************)
PriPositive == \A e \in Live : env_pri[e] >= 1

BootIdle == machine = "boot" => curenv = NULL

SliceInv == KernelInv /\ PriPositive /\ BootIdle /\ SliceWithinPriority

(***************************************************************************)
(* schedule() gives a full slice to whom it switches to, takes one from    *)
(* the environment that goes on, or stops the machine.                     *)
(***************************************************************************)
LEMMA ScheduleSlice ==
  ASSUME SliceInv, NEW y \in BOOLEAN, NEW cur \in {curenv, NULL},
         NEW st \in [Env -> Status], NEW q \in TailQueue, machine = "up",
         \A x \in Env : st[x] = RUNNABLE => q.prev[x] # NULL,
         \A x \in Env : st[x] = RUNNABLE => env_status[x] = RUNNABLE,
         env_pri' = env_pri,
         schedule(y, cur, st, q)
  PROVE  SliceWithinPriority' /\ machine' # "boot"
<1> DEFINE stays  == cur # NULL /\ st[cur] = RUNNABLE
           switch == y \/ count = 0 \/ ~stays
           queue  == IF switch /\ stays
                       THEN TAILQ_INSERT_TAIL(TAILQ_REMOVE(q, cur), cur)
                       ELSE q
           chosen == IF switch THEN TAILQ_FIRST(queue) ELSE cur
<1>1. TypeOK /\ cur \in Env \cup {NULL}
  BY DEF SliceInv, KernelInv, TypeOK
<1>2. \/ machine' = "no_runnable_envs"
      \/ /\ count' = (IF switch THEN env_pri[chosen] ELSE count) - 1
         /\ IF st[chosen] = RUNNABLE
              THEN curenv' = chosen /\ machine' = machine
              ELSE machine' = "assert_runnable"
  BY DEF schedule, CanGoOn, Rotate, SlicesLeft
<1>3. ~switch => cur # NULL /\ count # 0 /\ chosen = cur
  OBVIOUS
<1> HIDE DEF chosen, switch
<1>4. machine' # "boot"
  BY <1>2
<1>5. ASSUME OnCpu' PROVE 0 <= count' /\ count' < env_pri'[curenv']
  <2>1. /\ count' = (IF switch THEN env_pri[chosen] ELSE count) - 1
        /\ st[chosen] = RUNNABLE /\ curenv' = chosen
    BY <1>2, <1>5 DEF OnCpu
  <2>2. curenv' \in Env
    <3>1. curenv' # NULL
      BY <1>5 DEF OnCpu
    <3>2. curenv' = cur \/ curenv' \in {x \in Env : st[x] = RUNNABLE}
      BY <1>1, ScheduleType
    <3>3. QED
      BY <1>1, <3>1, <3>2
  <2>3. chosen \in Env /\ env_pri[chosen] >= 1 /\ env_pri[chosen] \in Nat
    BY <1>1, <2>1, <2>2 DEF SliceInv, PriPositive, Live, TypeOK, FREE, RUNNABLE
  <2>4. CASE switch
    BY <2>1, <2>3, <2>4
  <2>5. CASE ~switch
    <3>1. cur = curenv /\ curenv # NULL /\ count # 0 /\ chosen = curenv
      BY <1>3, <2>5
    <3>2. 0 <= count /\ count < env_pri[curenv] /\ count \in Int
      BY <1>1, <3>1 DEF SliceInv, SliceWithinPriority, OnCpu, TypeOK
    <3>3. QED
      BY <2>1, <2>3, <2>5, <3>1, <3>2
  <2>6. QED
    BY <2>4, <2>5
<1>6. QED
  BY <1>4, <1>5 DEF SliceWithinPriority

(***************************************************************************)
(* Every system call and interrupt preserves the bound, with one step per  *)
(* action of Next; those that leave curenv, its slices and all priorities  *)
(* alone are one step.                                                     *)
(***************************************************************************)
LEMMA SliceStep == SliceInv /\ [Next]_vars => SliceInv'
<1> SUFFICES ASSUME SliceInv, [Next]_vars PROVE SliceInv'
  OBVIOUS
<1>0. TypeOK /\ KernelInv /\ KernelInv' /\ TypeOK'
  BY KernelStep DEF SliceInv, KernelInv
<1>00. /\ env_status \in [Env -> Status] /\ env_status' \in [Env -> Status]
       /\ env_sched_list \in TailQueue /\ curenv \in Env \cup {NULL}
       /\ \A x \in Env : env_status[x] = RUNNABLE => env_sched_list.prev[x] # NULL
  BY <1>0 DEF TypeOK, KernelInv, Linked
<1>1. ASSUME NEW p \in Pri, env_create(p) PROVE SliceInv'
  <2>1. PICK e \in Env :
          /\ env_pri' = [env_pri EXCEPT ![e] = p]
          /\ env_status' = [env_status EXCEPT ![e] = RUNNABLE]
    BY <1>1 DEF env_create
  <2>2. machine = "boot" /\ UNCHANGED <<curenv, machine>>
    BY <1>1 DEF env_create
  <2>3. \A x \in Live' : x = e \/ x \in Live
    BY <1>00, <2>1 DEF Live
  <2>4. PriPositive'
    BY <1>0, <2>1, <2>3, ParamAssumption DEF SliceInv, PriPositive, TypeOK, Live
  <2>5. QED
    BY <1>0, <2>2, <2>4 DEF SliceInv, BootIdle, SliceWithinPriority, OnCpu
<1>2. CASE env_create_fails \/ enable_irq
  <2>1. /\ curenv = NULL /\ machine' \in {"no_free_env", "up"}
        /\ UNCHANGED <<env_status, env_pri, curenv>>
    BY <1>2 DEF env_create_fails, enable_irq, SliceInv, BootIdle
  <2>2. QED
    BY <1>0, <2>1 DEF SliceInv, PriPositive, Live, BootIdle, SliceWithinPriority, OnCpu
<1>3. CASE handle_timer \/ sys_yield
  <2>1. PICK y \in BOOLEAN : schedule(y, curenv, env_status, env_sched_list)
    BY <1>3 DEF handle_timer, sys_yield
  <2>2. UNCHANGED <<env_status, env_pri>> /\ machine = "up"
    BY <1>3 DEF handle_timer, sys_yield, UserMode
  <2>3. SliceWithinPriority' /\ machine' # "boot"
    BY <1>00, <2>1, <2>2, ScheduleSlice
  <2>4. QED
    BY <1>0, <2>2, <2>3 DEF SliceInv, PriPositive, Live, BootIdle
<1>4. CASE sys_exofork
  <2>1. PICK e \in Env :
          /\ env_alloc(e, env_id[curenv])
          /\ env_status' = [env_status EXCEPT ![e] = NOT_RUNNABLE]
          /\ env_pri' = [env_pri EXCEPT ![e] = env_pri[curenv]]
    BY <1>4 DEF sys_exofork
  <2>2. /\ curenv \in Env /\ machine = "up" /\ UNCHANGED <<curenv, count, machine>>
    BY <1>0, <1>4 DEF sys_exofork, UserMode, TypeOK, schedVars
  <2>3. curenv \in Live /\ e # curenv
    <3>1. env_id[curenv] \in Envid
      BY <1>0, <2>2 DEF TypeOK
    <3>2. env_status[e] = FREE
      BY <1>0, <2>1, <3>1, AllocStep
    <3>3. env_status[curenv] # FREE
      BY <1>0, <2>2, PtrAssumption DEF KernelInv, CurLive
    <3>4. QED
      BY <2>2, <3>2, <3>3 DEF Live
  <2>4. \A x \in Live' : x = e \/ x \in Live
    BY <1>00, <2>1 DEF Live
  <2>5. PriPositive'
    BY <1>0, <2>1, <2>3, <2>4 DEF SliceInv, PriPositive, TypeOK, Live
  <2>6. SliceWithinPriority'
    BY <1>0, <2>1, <2>2, <2>3 DEF SliceInv, SliceWithinPriority, OnCpu, TypeOK
  <2>7. QED
    BY <1>0, <2>2, <2>5, <2>6 DEF SliceInv, BootIdle
<1>5. CASE sys_ipc_recv
  <2> DEFINE q == TAILQ_REMOVE(env_sched_list, curenv)
  <2>1. curenv \in Env /\ machine = "up" /\ env_sched_list.prev[curenv] # NULL
    BY <1>0, <1>5 DEF sys_ipc_recv, UserMode, TypeOK, KernelInv, Linked
  <2>2. /\ q \in TailQueue
        /\ \A x \in Env : env_sched_list.prev[x] # NULL => q.prev[x] # NULL
    BY <1>00, <2>1, RemoveType
  <2>3. /\ env_status' = [env_status EXCEPT ![curenv] = NOT_RUNNABLE]
        /\ schedule(TRUE, curenv, env_status', q)
        /\ env_pri' = env_pri
    BY <1>5 DEF sys_ipc_recv
  <2> HIDE DEF q
  <2>4. /\ Live' = Live
        /\ \A x \in Env : env_status'[x] = RUNNABLE => env_status[x] = RUNNABLE
    BY <1>0, <1>00, <2>1, <2>3, PtrAssumption
       DEF KernelInv, CurLive, Live, FREE, RUNNABLE, NOT_RUNNABLE
  <2>5. SliceWithinPriority' /\ machine' # "boot"
    BY <1>00, <2>1, <2>2, <2>3, <2>4, ScheduleSlice
  <2>6. QED
    BY <1>0, <2>3, <2>4, <2>5 DEF SliceInv, PriPositive, BootIdle
<1>6. ASSUME NEW id \in Envid, sys_env_destroy(id) PROVE SliceInv'
  <2> DEFINE e == envid2env(id, TRUE)
             q == TAILQ_REMOVE(env_sched_list, e)
  <2>1. UserMode /\ machine = "up" /\ e # NULL
    BY <1>6 DEF sys_env_destroy, UserMode
  <2>2. e \in Env
    BY <1>0, <2>1, ResolveType
  <2>3. /\ env_status' = [env_status EXCEPT ![e] = FREE] /\ env_pri' = env_pri
        /\ IF ~CanUnlink(env_sched_list, e)
             THEN machine' = "null_store" /\ UNCHANGED <<env_sched_list, curenv, count>>
           ELSE IF e = curenv
             THEN schedule(TRUE, NULL, env_status', q)
             ELSE env_sched_list' = q /\ UNCHANGED <<curenv, count, machine>>
    BY <1>6 DEF sys_env_destroy, env_destroy, env_free
  <2> HIDE DEF e, q
  <2>4. PriPositive' /\ \A x \in Env : env_status'[x] = RUNNABLE => env_status[x] = RUNNABLE
    BY <1>00, <2>2, <2>3 DEF SliceInv, PriPositive, Live, FREE, RUNNABLE
  <2>5. CASE CanUnlink(env_sched_list, e) /\ e = curenv
    <3>1. /\ q \in TailQueue
          /\ \A x \in Env : env_sched_list.prev[x] # NULL => q.prev[x] # NULL
      BY <1>00, <2>2, <2>5, RemoveType DEF q, CanUnlink
    <3>2. schedule(TRUE, NULL, env_status', q)
      BY <2>3, <2>5
    <3>3. \A x \in Env : env_status'[x] = RUNNABLE => q.prev[x] # NULL
      BY <1>00, <2>4, <3>1
    <3>4. SliceWithinPriority' /\ machine' # "boot"
      BY <1>00, <2>1, <2>3, <2>4, <3>1, <3>2, <3>3, ScheduleSlice
    <3>5. QED
      BY <1>0, <2>4, <3>4 DEF SliceInv, BootIdle
  <2>6. CASE ~(CanUnlink(env_sched_list, e) /\ e = curenv)
    <3>1. /\ machine' \in {"null_store", "up"} /\ UNCHANGED <<curenv, count>>
      BY <2>1, <2>3, <2>6
    <3>2. QED
      BY <1>0, <2>1, <2>3, <2>4, <3>1 DEF SliceInv, BootIdle, SliceWithinPriority, OnCpu
  <2>7. QED
    BY <2>5, <2>6
<1>7. ASSUME UNCHANGED <<env_pri, curenv, count>>,
             OnCpu' => OnCpu, machine' = "boot" => machine = "boot",
             Live' = Live
      PROVE  SliceInv'
  BY <1>0, <1>7 DEF SliceInv, PriPositive, BootIdle, SliceWithinPriority
<1>8. CASE sys_cgetc \/ scancharc
  <2>1. /\ UNCHANGED <<env_status, env_pri, curenv, count>>
        /\ machine \in {"up", "console"} /\ machine' \in {"up", "console"}
    BY <1>8 DEF sys_cgetc, scancharc, UserMode
  <2>2. QED
    BY <1>7, <2>1 DEF OnCpu, Live
<1>9. CASE sys_exofork_no_asid
  BY <1>7, <1>9 DEF sys_exofork_no_asid, schedVars, OnCpu, Live
<1>10. ASSUME NEW e \in Env, NEW st \in {RUNNABLE, NOT_RUNNABLE}, env_status[e] # FREE,
              env_status' = [env_status EXCEPT ![e] = st],
              UNCHANGED <<env_pri, curenv, count, machine>>
       PROVE  SliceInv'
  <2>1. Live' = Live
    BY <1>00, <1>10 DEF Live, FREE, RUNNABLE, NOT_RUNNABLE
  <2>2. QED
    BY <1>7, <1>10, <2>1 DEF OnCpu
<1>11. ASSUME NEW id \in Envid, NEW st \in {RUNNABLE, NOT_RUNNABLE}, sys_set_env_status(id, st)
       PROVE  SliceInv'
  <2>1. UserMode /\ envid2env(id, TRUE) # NULL
    BY <1>11 DEF sys_set_env_status
  <2>2. envid2env(id, TRUE) \in Env /\ env_status[envid2env(id, TRUE)] # FREE
    BY <1>0, <2>1, ResolveType
  <2>3. QED
    BY <1>10, <1>11, <2>2 DEF sys_set_env_status
<1>12. ASSUME NEW id \in Envid, NEW v \in Value, sys_ipc_try_send(id, v) PROVE SliceInv'
  <2>1. UserMode /\ envid2env(id, FALSE) # NULL
    BY <1>12 DEF sys_ipc_try_send
  <2>2. envid2env(id, FALSE) \in Env /\ env_status[envid2env(id, FALSE)] # FREE
    BY <1>0, <2>1, ResolveType
  <2>3. QED
    BY <1>10, <1>12, <2>2 DEF sys_ipc_try_send
<1>13. CASE UNCHANGED vars
  BY <1>7, <1>13 DEF vars, schedVars, OnCpu, Live
<1>14. QED
  BY <1>1, <1>2, <1>3, <1>4, <1>5, <1>6, <1>8, <1>9, <1>11, <1>12, <1>13 DEF Next, Boot

(***************************************************************************)
(* The static counter of schedule() never lets an environment run for more *)
(* ticks than its priority, whatever calls are made and whoever destroys   *)
(* or starts whom.                                                         *)
(***************************************************************************)
THEOREM SliceBounded == Spec => []SliceWithinPriority
<1>1. Init => SliceInv
  <2>1. ASSUME Init PROVE PriPositive /\ BootIdle /\ SliceWithinPriority
    BY <2>1 DEF Init, PriPositive, Live, BootIdle, SliceWithinPriority, OnCpu
  <2>2. QED
    BY <2>1, KernelInit DEF SliceInv
<1>2. SliceInv => SliceWithinPriority
  BY DEF SliceInv
<1>3. QED
  BY <1>1, <1>2, SliceStep, PTL DEF Spec

-----------------------------------------------------------------------------
(* Part 2: the calls of user/lib.                                          *)

(***************************************************************************)
(* The elements of a sequence with one more at the end, or at the front.   *)
(***************************************************************************)
LEMMA AppendElements ==
  ASSUME NEW s \in Seq(Env), NEW e \in Env
  PROVE  Elements(Append(s, e)) = Elements(s) \cup {e}
<1> DEFINE t == Append(s, e)
<1>1. /\ Len(s) \in Nat /\ Len(t) = Len(s) + 1 /\ t[Len(s) + 1] = e
      /\ \A i \in 1..Len(s) : t[i] = s[i]
  OBVIOUS
<1> HIDE DEF t
<1>2. \A i \in 1..Len(t) : i = Len(s) + 1 \/ i \in 1..Len(s)
  BY <1>1
<1>3. Elements(t) \subseteq Elements(s) \cup {e}
  BY <1>1, <1>2 DEF Elements
<1>4. \A i \in 1..Len(s) : i \in 1..Len(t) /\ t[i] = s[i]
  BY <1>1
<1>5. Len(s) + 1 \in 1..Len(t)
  BY <1>1
<1>6. Elements(s) \cup {e} \subseteq Elements(t)
  BY <1>1, <1>4, <1>5 DEF Elements
<1>7. QED
  BY <1>3, <1>6 DEF t

(***************************************************************************)
(* The same with one more element at the front (TAILQ_INSERT_HEAD).        *)
(***************************************************************************)
LEMMA ConsElements ==
  ASSUME NEW s \in Seq(Env), NEW e \in Env
  PROVE  Elements(<<e>> \o s) = Elements(s) \cup {e}
<1> DEFINE t == <<e>> \o s
<1>1. /\ Len(s) \in Nat /\ Len(t) = Len(s) + 1 /\ t[1] = e
      /\ \A i \in 1..Len(s) : t[i+1] = s[i]
  OBVIOUS
<1> HIDE DEF t
<1>2. ASSUME NEW i \in 1..Len(t)
      PROVE  t[i] = e \/ \E k \in 1..Len(s) : s[k] = t[i]
  <2>1. CASE i = 1
    BY <1>1, <2>1
  <2>2. CASE i # 1
    <3>1. i - 1 \in 1..Len(s) /\ (i - 1) + 1 = i
      BY <1>1, <2>2
    <3>2. t[i] = s[i-1]
      BY <1>1, <3>1
    <3>3. QED
      BY <3>1, <3>2
  <2>3. QED
    BY <2>1, <2>2
<1>3. Elements(t) \subseteq Elements(s) \cup {e}
  BY <1>2 DEF Elements
<1>4. \A i \in 1..Len(s) : i + 1 \in 1..Len(t) /\ t[i+1] = s[i]
  BY <1>1
<1>5. 1 \in 1..Len(t)
  BY <1>1
<1>6. Elements(s) \cup {e} \subseteq Elements(t)
  BY <1>1, <1>4, <1>5 DEF Elements
<1>7. QED
  BY <1>3, <1>6 DEF t

(***************************************************************************)
(* The tail queue operations in terms of the set of elements they hold.    *)
(***************************************************************************)
Holds(q, S) == \E s \in Seq(Env) : IsQueue(q, s) /\ Elements(s) = S

(***************************************************************************)
(* TAILQ_INSERT_TAIL adds one environment to the set the list holds.       *)
(***************************************************************************)
LEMMA InsertTailHolds ==
  ASSUME NEW q \in TailQueue, NEW S, Holds(q, S), NEW e \in Env, e \notin S
  PROVE  Holds(TAILQ_INSERT_TAIL(q, e), S \cup {e})
<1>1. PICK s \in Seq(Env) : IsQueue(q, s) /\ Elements(s) = S
  BY DEF Holds
<1>2. IsQueue(TAILQ_INSERT_TAIL(q, e), Append(s, e))
  BY <1>1, InsertTailAppends
<1>3. Elements(Append(s, e)) = S \cup {e} /\ Append(s, e) \in Seq(Env)
  BY <1>1, AppendElements
<1>4. QED
  BY <1>2, <1>3 DEF Holds

(***************************************************************************)
(* TAILQ_INSERT_HEAD adds one environment to the set the list holds.       *)
(***************************************************************************)
LEMMA InsertHeadHolds ==
  ASSUME NEW q \in TailQueue, NEW S, Holds(q, S), NEW e \in Env, e \notin S
  PROVE  Holds(TAILQ_INSERT_HEAD(q, e), S \cup {e})
<1>1. PICK s \in Seq(Env) : IsQueue(q, s) /\ Elements(s) = S
  BY DEF Holds
<1>2. IsQueue(TAILQ_INSERT_HEAD(q, e), <<e>> \o s)
  BY <1>1, InsertHeadPrepends
<1>3. Elements(<<e>> \o s) = S \cup {e} /\ <<e>> \o s \in Seq(Env)
  BY <1>1, ConsElements
<1>4. QED
  BY <1>2, <1>3 DEF Holds

(***************************************************************************)
(* TAILQ_REMOVE takes one environment out of that set.                     *)
(***************************************************************************)
LEMMA RemoveHolds ==
  ASSUME NEW q \in TailQueue, NEW S, Holds(q, S), NEW e \in S
  PROVE  /\ e \in Env
         /\ CanUnlink(q, e)
         /\ TAILQ_REMOVE(q, e) \in TailQueue
         /\ Holds(TAILQ_REMOVE(q, e), S \ {e})
<1>1. PICK s \in Seq(Env) : IsQueue(q, s) /\ Elements(s) = S
  BY DEF Holds
<1>2. PICK p \in 1..Len(s) : s[p] = e
  BY <1>1 DEF Elements
<1>3. /\ TAILQ_REMOVE(q, e) \in TailQueue
      /\ IsQueue(TAILQ_REMOVE(q, e), Without(s, p))
      /\ Elements(Without(s, p)) = S \ {e}
      /\ CanUnlink(q, e)
  BY <1>1, <1>2, RemoveDeletes
<1>4. Without(s, p) \in Seq(Env)
  BY <1>3 DEF IsQueue
<1>5. QED
  BY <1>1, <1>2, <1>3, <1>4 DEF Holds

(***************************************************************************)
(* TAILQ_FIRST is NULL exactly when the list holds nothing, and otherwise  *)
(* one of the environments it holds.                                       *)
(***************************************************************************)
LEMMA FirstHolds ==
  ASSUME NEW q \in TailQueue, NEW S, Holds(q, S)
  PROVE  /\ TAILQ_EMPTY(q) <=> S = {}
         /\ ~TAILQ_EMPTY(q) => TAILQ_FIRST(q) \in S
<1>1. PICK s \in Seq(Env) : IsQueue(q, s) /\ Elements(s) = S
  BY DEF Holds
<1>2. Len(s) \in Nat /\ (s = <<>> <=> Len(s) = 0)
  OBVIOUS
<1>3. s # <<>> => s[1] \in S
  BY <1>1, <1>2 DEF Elements
<1>4. s = <<>> => S = {}
  <2>1. s = <<>> => 1..Len(s) = {}
    BY <1>2
  <2>2. QED
    BY <1>1, <2>1 DEF Elements
<1>5. QED
  BY <1>1, <1>3, <1>4, FirstIsHead

(***************************************************************************)
(* The inductive invariant of programs that use the library.  Besides the  *)
(* shape of the list it needs that a receiver is blocked (or the send that *)
(* wakes it would insert it twice) and that what runs is runnable (or exit *)
(* and ipc_recv would remove it twice).                                    *)
(***************************************************************************)
RecvBlocked == \A e \in Env : env_ipc_recving[e] => env_status[e] = NOT_RUNNABLE

CurRunnable == OnCpu => env_status[curenv] = RUNNABLE

LibInv ==
  /\ KernelInv
  /\ Holds(env_sched_list, Runnable)
  /\ RecvBlocked
  /\ CurRunnable
  /\ BootIdle
  /\ StopsOnlyWhenAllBlocked

(***************************************************************************)
(* schedule() called with a sound list keeps it sound, fails only when     *)
(* nothing is runnable, and otherwise runs somebody who is.                *)
(***************************************************************************)
LEMMA ScheduleSound ==
  ASSUME TypeOK, NEW y \in BOOLEAN, NEW cur \in Env \cup {NULL},
         NEW st \in [Env -> Status], NEW q \in TailQueue,
         NEW S, S = {x \in Env : st[x] = RUNNABLE}, Holds(q, S),
         schedule(y, cur, st, q)
  PROVE  /\ Holds(env_sched_list', S)
         /\ \/ /\ machine' = "no_runnable_envs" /\ S = {}
            \/ /\ machine' = machine /\ curenv' \in S
<1> DEFINE stays  == cur # NULL /\ st[cur] = RUNNABLE
           switch == y \/ count = 0 \/ ~stays
           queue  == IF switch /\ stays
                       THEN TAILQ_INSERT_TAIL(TAILQ_REMOVE(q, cur), cur)
                       ELSE q
           chosen == IF switch THEN TAILQ_FIRST(queue) ELSE cur
<1>1. queue \in TailQueue /\ Holds(queue, S)
  <2>1. CASE switch /\ stays
    <3>1. cur \in S
      BY <2>1
    <3>2. /\ cur \in Env /\ TAILQ_REMOVE(q, cur) \in TailQueue
          /\ Holds(TAILQ_REMOVE(q, cur), S \ {cur})
      BY <3>1, RemoveHolds
    <3>3. /\ TAILQ_INSERT_TAIL(TAILQ_REMOVE(q, cur), cur) \in TailQueue
          /\ Holds(TAILQ_INSERT_TAIL(TAILQ_REMOVE(q, cur), cur), (S \ {cur}) \cup {cur})
      BY <3>2, InsertTailHolds, InsertTailType
    <3>4. (S \ {cur}) \cup {cur} = S
      BY <3>1
    <3>5. QED
      BY <2>1, <3>3, <3>4
  <2>2. CASE ~(switch /\ stays)
    BY <2>2
  <2>3. QED
    BY <2>1, <2>2
<1>2. /\ env_sched_list' = queue
      /\ IF switch /\ TAILQ_EMPTY(queue)
           THEN machine' = "no_runnable_envs"
           ELSE IF st[chosen] = RUNNABLE
                  THEN curenv' = chosen /\ machine' = machine
                  ELSE curenv' = cur /\ machine' = "assert_runnable"
  BY DEF schedule, CanGoOn, Rotate, SlicesLeft
<1> HIDE DEF queue
<1>3. ~(switch /\ TAILQ_EMPTY(queue)) => chosen \in S
  <2>1. CASE switch
    BY <1>1, <2>1, FirstHolds
  <2>2. CASE ~switch
    BY <2>2
  <2>3. QED
    BY <2>1, <2>2
<1>4. TAILQ_EMPTY(queue) => S = {}
  BY <1>1, FirstHolds
<1>5. ASSUME ~(switch /\ TAILQ_EMPTY(queue)) PROVE st[chosen] = RUNNABLE
  BY <1>3, <1>5
<1> HIDE DEF chosen, switch
<1>6. QED
  BY <1>1, <1>2, <1>3, <1>4, <1>5

(***************************************************************************)
(* The library's calls are calls of the kernel, so Part 1 applies.         *)
(***************************************************************************)
LEMMA LibIsKernel == TypeOK /\ [LibNext]_vars => [Next]_vars
<1> SUFFICES ASSUME TypeOK, LibNext PROVE Next
  OBVIOUS
<1>1. ASSUME exit PROVE Next
  <2>1. ZeroId \in Envid
    BY EnvsAssumption, ParamAssumption DEF ZeroId, Envid
  <2>2. QED
    BY <1>1, <2>1 DEF exit, Next
<1>2. ASSUME NEW c \in Env, start_child(c) PROVE Next
  <2>1. env_id[c] \in Envid
    BY DEF TypeOK
  <2>2. QED
    BY <1>2, <2>1 DEF start_child, Next
<1>3. ASSUME NEW id \in Envid, NEW v \in Value, ipc_send(id, v) PROVE Next
  BY <1>3 DEF ipc_send, Next
<1>4. QED
  BY <1>1, <1>2, <1>3 DEF LibNext, Next

(***************************************************************************)
(* The library's invariant holds at boot: the list is empty and nobody is  *)
(* runnable.                                                               *)
(***************************************************************************)
LEMMA LibInit == Init => LibInv
<1> SUFFICES ASSUME Init PROVE LibInv
  OBVIOUS
<1>1. KernelInv
  BY KernelInit
<1>2. Runnable = {}
  BY DEF Init, Runnable, FREE, RUNNABLE
<1>3. Holds(env_sched_list, Runnable)
  <2>1. <<>> \in Seq(Env) /\ Elements(<<>>) = {}
    BY DEF Elements
  <2>2. QED
    BY <1>2, <2>1, InitIsQueue DEF Init, Holds
<1>4. RecvBlocked /\ CurRunnable /\ BootIdle /\ StopsOnlyWhenAllBlocked
  BY DEF Init, RecvBlocked, CurRunnable, OnCpu, BootIdle, StopsOnlyWhenAllBlocked
<1>5. QED
  BY <1>1, <1>3, <1>4 DEF LibInv

(***************************************************************************)
(* What the rest of LibInv needs to know of a step that ends in            *)
(* schedule(), once the caller has left the list sound.                    *)
(***************************************************************************)
LEMMA AfterSchedule ==
  ASSUME LibInv, NEW y \in BOOLEAN, NEW cur \in Env \cup {NULL},
         NEW q \in TailQueue, machine = "up",
         env_status' \in [Env -> Status], Holds(q, Runnable'),
         schedule(y, cur, env_status', q)
  PROVE  /\ Holds(env_sched_list', Runnable')
         /\ CurRunnable' /\ StopsOnlyWhenAllBlocked' /\ BootIdle'
<1>1. Runnable' = {x \in Env : env_status'[x] = RUNNABLE}
  BY DEF Runnable
<1>2. TypeOK
  BY DEF LibInv, KernelInv
<1>3. /\ Holds(env_sched_list', Runnable')
      /\ \/ machine' = "no_runnable_envs" /\ Runnable' = {}
         \/ machine' = machine /\ curenv' \in Runnable'
  BY <1>1, <1>2, ScheduleSound
<1>4. QED
  BY <1>1, <1>3 DEF CurRunnable, OnCpu, StopsOnlyWhenAllBlocked, BootIdle

(***************************************************************************)
(* Every call the library makes, and every interrupt, preserves the        *)
(* library's invariant, with one step per action of LibNext.               *)
(***************************************************************************)
LEMMA LibStep == LibInv /\ [LibNext]_vars => LibInv'
<1> SUFFICES ASSUME LibInv, [LibNext]_vars PROVE LibInv'
  OBVIOUS
<1>0. TypeOK /\ KernelInv /\ KernelInv' /\ TypeOK'
  <2>1. TypeOK /\ KernelInv
    BY DEF LibInv, KernelInv
  <2>2. KernelInv'
    BY <2>1, LibIsKernel, KernelStep
  <2>3. QED
    BY <2>1, <2>2 DEF KernelInv
<1>00. /\ env_status \in [Env -> Status] /\ env_status' \in [Env -> Status]
       /\ env_sched_list \in TailQueue /\ curenv \in Env \cup {NULL}
       /\ Holds(env_sched_list, Runnable)
  BY <1>0 DEF TypeOK, LibInv
<1>1. ASSUME NEW p \in Pri, env_create(p) PROVE LibInv'
  <2>1. PICK e \in Env :
          /\ env_alloc(e, ZeroId)
          /\ env_pri' = [env_pri EXCEPT ![e] = p]
          /\ env_status' = [env_status EXCEPT ![e] = RUNNABLE]
          /\ env_sched_list' = TAILQ_INSERT_HEAD(env_sched_list, e)
    BY <1>1 DEF env_create
  <2>2. machine = "boot" /\ UNCHANGED <<env_ipc_recving, curenv, count, machine>>
    BY <1>1 DEF env_create, ipcVars
  <2>3. env_status[e] = FREE
    <3>1. ZeroId \in Envid
      BY EnvsAssumption, ParamAssumption DEF ZeroId, Envid
    <3>2. QED
      BY <1>0, <2>1, <3>1, AllocStep
  <2>4. Runnable' = Runnable \cup {e} /\ e \notin Runnable
    BY <1>00, <2>1, <2>3 DEF Runnable, FREE, RUNNABLE
  <2>5. Holds(env_sched_list', Runnable')
    BY <1>00, <2>1, <2>4, InsertHeadHolds
  <2>6. RecvBlocked'
    BY <1>00, <2>1, <2>2, <2>3 DEF LibInv, RecvBlocked, FREE, NOT_RUNNABLE
  <2>7. QED
    BY <1>0, <2>2, <2>5, <2>6
       DEF LibInv, CurRunnable, OnCpu, BootIdle, StopsOnlyWhenAllBlocked
<1>2. CASE env_create_fails \/ enable_irq
  <2>1. /\ machine = "boot" /\ curenv = NULL
        /\ UNCHANGED <<env_status, env_pri, env_ipc_recving, env_sched_list, curenv, count>>
        /\ machine' \in {"no_free_env", "up"}
    BY <1>2 DEF env_create_fails, enable_irq, ipcVars, LibInv, BootIdle
  <2>2. QED
    BY <1>0, <2>1 DEF LibInv, RecvBlocked, CurRunnable, OnCpu, BootIdle,
                      StopsOnlyWhenAllBlocked, Runnable
<1>2a. CASE sys_cgetc \/ scancharc
  <2>1. /\ UNCHANGED <<env_status, env_pri, env_ipc_recving, env_sched_list, curenv, count>>
        /\ machine \in {"up", "console"} /\ machine' \in {"up", "console"}
    BY <1>2a DEF sys_cgetc, scancharc, UserMode, ipcVars
  <2>2. QED
    BY <1>0, <2>1 DEF LibInv, RecvBlocked, CurRunnable, OnCpu, BootIdle,
                      StopsOnlyWhenAllBlocked, Runnable
<1>3. CASE handle_timer \/ sys_yield
  <2>1. PICK y \in BOOLEAN : schedule(y, curenv, env_status, env_sched_list)
    BY <1>3 DEF handle_timer, sys_yield
  <2>2. /\ UNCHANGED <<env_status, env_pri, env_ipc_recving>> /\ machine = "up"
    BY <1>3 DEF handle_timer, sys_yield, ipcVars, UserMode
  <2>3. Runnable' = Runnable
    BY <2>2 DEF Runnable
  <2>4. schedule(y, curenv, env_status', env_sched_list)
    BY <2>1, <2>2
  <2>5. /\ Holds(env_sched_list', Runnable')
        /\ CurRunnable' /\ StopsOnlyWhenAllBlocked' /\ BootIdle'
    BY <1>00, <2>2, <2>3, <2>4, AfterSchedule
  <2>6. RecvBlocked'
    BY <2>2 DEF LibInv, RecvBlocked
  <2>7. QED
    BY <1>0, <2>5, <2>6 DEF LibInv
<1>4. CASE sys_exofork
  <2>1. PICK e \in Env :
          /\ env_alloc(e, env_id[curenv])
          /\ env_status' = [env_status EXCEPT ![e] = NOT_RUNNABLE]
          /\ env_pri' = [env_pri EXCEPT ![e] = env_pri[curenv]]
    BY <1>4 DEF sys_exofork
  <2>2. /\ curenv \in Env /\ UserMode
        /\ UNCHANGED <<env_ipc_recving, env_sched_list, curenv, count, machine>>
    BY <1>0, <1>4 DEF sys_exofork, UserMode, TypeOK, ipcVars, schedVars
  <2>3. env_status[e] = FREE /\ e # curenv
    <3>1. env_id[curenv] \in Envid
      BY <1>0, <2>2 DEF TypeOK
    <3>2. env_status[e] = FREE
      BY <1>0, <2>1, <3>1, AllocStep
    <3>3. QED
      BY <2>2, <3>2 DEF LibInv, CurRunnable, UserMode, OnCpu, FREE, RUNNABLE
  <2>4. Runnable' = Runnable
    BY <1>00, <2>1, <2>3 DEF Runnable, FREE, RUNNABLE, NOT_RUNNABLE
  <2>5. RecvBlocked' /\ CurRunnable'
    BY <1>00, <2>1, <2>2, <2>3
       DEF LibInv, RecvBlocked, CurRunnable, UserMode, OnCpu, FREE, NOT_RUNNABLE
  <2>6. QED
    BY <1>0, <2>2, <2>4, <2>5 DEF LibInv, StopsOnlyWhenAllBlocked, BootIdle
<1>5. CASE sys_exofork_no_asid
  <2>1. UNCHANGED <<env_status, env_pri, env_ipc_recving, env_sched_list, curenv, count, machine>>
    BY <1>5 DEF sys_exofork_no_asid, ipcVars, schedVars
  <2>2. QED
    BY <1>0, <2>1 DEF LibInv, RecvBlocked, CurRunnable, OnCpu, BootIdle,
                      StopsOnlyWhenAllBlocked, Runnable
<1>6. CASE sys_ipc_recv
  <2> DEFINE q == TAILQ_REMOVE(env_sched_list, curenv)
  <2>1. /\ curenv \in Env /\ machine = "up" /\ env_status[curenv] = RUNNABLE
    BY <1>0, <1>6 DEF sys_ipc_recv, UserMode, OnCpu, TypeOK, LibInv, CurRunnable
  <2>2. /\ env_status' = [env_status EXCEPT ![curenv] = NOT_RUNNABLE]
        /\ env_ipc_recving' = [env_ipc_recving EXCEPT ![curenv] = TRUE]
        /\ schedule(TRUE, curenv, env_status', q)
    BY <1>6 DEF sys_ipc_recv
  <2>3. Runnable' = Runnable \ {curenv} /\ curenv \in Runnable
    BY <1>00, <2>1, <2>2 DEF Runnable, RUNNABLE, NOT_RUNNABLE
  <2>4. q \in TailQueue /\ Holds(q, Runnable')
    BY <1>00, <2>3, RemoveHolds
  <2> HIDE DEF q
  <2>5. /\ Holds(env_sched_list', Runnable')
        /\ CurRunnable' /\ StopsOnlyWhenAllBlocked' /\ BootIdle'
    BY <1>00, <2>1, <2>2, <2>3, <2>4, AfterSchedule
  <2>6. RecvBlocked'
    BY <1>0, <1>00, <2>1, <2>2 DEF LibInv, RecvBlocked, TypeOK
  <2>7. QED
    BY <1>0, <2>5, <2>6 DEF LibInv
<1>7. CASE exit
  <2> DEFINE q == TAILQ_REMOVE(env_sched_list, curenv)
  <2>1. /\ UserMode /\ curenv \in Env /\ machine = "up" /\ env_status[curenv] = RUNNABLE
    BY <1>0, <1>7 DEF exit, sys_env_destroy, env_destroy, UserMode, OnCpu, TypeOK, LibInv, CurRunnable
  <2>2. curenv \in Runnable
    BY <2>1 DEF Runnable
  <2>3. envid2env(ZeroId, TRUE) = curenv
    BY DEF envid2env
  <2>4. CanUnlink(env_sched_list, curenv) /\ q \in TailQueue /\ Holds(q, Runnable \ {curenv})
    BY <1>00, <2>2, RemoveHolds
  <2>5. env_free(curenv) /\ schedule(TRUE, NULL, env_status', q)
    BY <1>7, <2>3, <2>4 DEF exit, sys_env_destroy, env_destroy
  <2>6. /\ env_status' = [env_status EXCEPT ![curenv] = FREE]
        /\ env_ipc_recving' = env_ipc_recving
    BY <2>5 DEF env_free, ipcVars
  <2>7. Runnable' = Runnable \ {curenv}
    BY <1>00, <2>1, <2>6 DEF Runnable, FREE, RUNNABLE
  <2> HIDE DEF q
  <2>8. /\ Holds(env_sched_list', Runnable')
        /\ CurRunnable' /\ StopsOnlyWhenAllBlocked' /\ BootIdle'
    BY <1>00, <2>1, <2>4, <2>5, <2>6, <2>7, AfterSchedule
  <2>9. RecvBlocked'
    BY <1>00, <2>1, <2>6 DEF LibInv, RecvBlocked, RUNNABLE, NOT_RUNNABLE
  <2>10. QED
    BY <1>0, <2>8, <2>9 DEF LibInv
<1>8. ASSUME NEW e \in Env, env_status[e] = NOT_RUNNABLE, UserMode,
             env_status' = [env_status EXCEPT ![e] = RUNNABLE],
             env_sched_list' = TAILQ_INSERT_TAIL(env_sched_list, e),
             UNCHANGED <<curenv, machine>>,
             env_ipc_recving' = [env_ipc_recving EXCEPT ![e] = FALSE]
      PROVE  LibInv'
  <2>1. Runnable' = Runnable \cup {e} /\ e \notin Runnable
    BY <1>00, <1>8 DEF Runnable, RUNNABLE, NOT_RUNNABLE
  <2>2. Holds(env_sched_list', Runnable')
    BY <1>00, <1>8, <2>1, InsertTailHolds
  <2>3. RecvBlocked'
    BY <1>0, <1>8 DEF LibInv, RecvBlocked, TypeOK
  <2>4. CurRunnable'
    BY <1>00, <1>8 DEF LibInv, CurRunnable, UserMode, OnCpu
  <2>5. QED
    BY <1>0, <1>8, <2>2, <2>3, <2>4
       DEF LibInv, StopsOnlyWhenAllBlocked, UserMode, BootIdle
<1>9. ASSUME NEW c \in Env, start_child(c) PROVE LibInv'
  <2> DEFINE e == envid2env(env_id[c], TRUE)
  <2>1. /\ UserMode /\ e # NULL /\ env_status[e] # RUNNABLE
        /\ env_status' = [env_status EXCEPT ![e] = RUNNABLE]
        /\ env_sched_list' = TAILQ_INSERT_TAIL(env_sched_list, e)
        /\ UNCHANGED <<env_ipc_recving, curenv, machine>>
    BY <1>9 DEF start_child, sys_set_env_status, ipcVars
  <2>2. Embryo(c) /\ env_id[c] \in Envid
    BY <1>0, <1>9 DEF start_child, TypeOK
  <2>3. e = c
    <3>1. e = curenv => FALSE
      BY <1>0, <2>1 DEF LibInv, CurRunnable, UserMode, OnCpu
    <3>2. env_id[c] # ZeroId
      BY <3>1 DEF envid2env
    <3>3. e = ENVX(env_id[c])
      BY <2>1, <3>2 DEF envid2env
    <3>4. QED
      BY <1>0, <2>2, <3>3 DEF KernelInv, IdOfSlot, Live, Embryo, FREE, NOT_RUNNABLE
  <2>4. QED
    BY <1>0, <1>8, <2>1, <2>2, <2>3 DEF Embryo, TypeOK
<1>10. ASSUME NEW id \in Envid, NEW v \in Value, ipc_send(id, v) PROVE LibInv'
  <2> DEFINE e == envid2env(id, FALSE)
  <2>1. /\ UserMode /\ e # NULL /\ env_ipc_recving[e]
        /\ env_ipc_recving' = [env_ipc_recving EXCEPT ![e] = FALSE]
        /\ env_status' = [env_status EXCEPT ![e] = RUNNABLE]
        /\ env_sched_list' = TAILQ_INSERT_TAIL(env_sched_list, e)
        /\ UNCHANGED <<curenv, machine>>
    BY <1>10 DEF ipc_send, sys_ipc_try_send
  <2>2. e \in Env
    BY <1>0, <2>1, ResolveType
  <2> HIDE DEF e
  <2>3. env_status[e] = NOT_RUNNABLE
    BY <2>1, <2>2 DEF LibInv, RecvBlocked
  <2>4. QED
    BY <1>8, <2>1, <2>2, <2>3
<1>11. CASE UNCHANGED vars
  BY <1>0, <1>11 DEF vars, ipcVars, schedVars, LibInv, RecvBlocked, CurRunnable, OnCpu,
                     BootIdle, StopsOnlyWhenAllBlocked, Runnable
<1>12. QED
  BY <1>1, <1>2, <1>2a, <1>3, <1>4, <1>5, <1>6, <1>7, <1>9, <1>10, <1>11 DEF LibNext, Boot

(***************************************************************************)
(* The library's invariant holds in every reachable state.                 *)
(***************************************************************************)
LEMMA LibInvariant == LibSpec => []LibInv
BY LibInit, LibStep, PTL DEF LibSpec

(***************************************************************************)
(* A list that holds a set has as many elements as the set.                *)
(***************************************************************************)
LEMMA HoldsExact ==
  ASSUME NEW q, NEW S, Holds(q, S)
  PROVE  \E s \in [1..Cardinality(S) -> Env] : IsQueue(q, s) /\ Elements(s) = S
<1>1. PICK s \in Seq(Env) : IsQueue(q, s) /\ Elements(s) = S
  BY DEF Holds
<1>2. Len(s) \in Nat /\ s \in [1..Len(s) -> Env]
  OBVIOUS
<1>3. \A i, j \in 1..Len(s) : s[i] = s[j] => i = j
  BY <1>1 DEF IsQueue
<1>4. s \in [1..Len(s) -> S] /\ \A x \in S : \E i \in 1..Len(s) : s[i] = x
  BY <1>1, <1>2 DEF Elements
<1>5. ExistsBijection(1..Len(s), S)
  BY <1>3, <1>4 DEF ExistsBijection, Bijection, Injection, Surjection, IsInjective
<1>6. Cardinality(S) = Len(s)
  BY <1>2, <1>5, FS_CountingElements
<1>7. QED
  BY <1>1, <1>2, <1>6

(***************************************************************************)
(* Programs that use the library keep the invariant stated in kern/env.c:  *)
(* env_sched_list is a well-formed list of exactly the runnable            *)
(* environments.                                                           *)
(***************************************************************************)
THEOREM SchedListCorrect == LibSpec => []SchedListExact
<1>1. LibInv => SchedListExact
  BY HoldsExact DEF LibInv, SchedListExact
<1>2. QED
  BY <1>1, LibInvariant, PTL

(***************************************************************************)
(* Programs that fork, exit, yield, read the console and exchange messages *)
(* through the library stop the kernel only by all being blocked:          *)
(* schedule() never picks a wrong environment and no list operation goes   *)
(* through a null link.  The error path of spawn(), which destroys a child *)
(* that was never linked and does go through one, is not among these calls *)
(* (spawn_fails of EnvLib).                                                *)
(***************************************************************************)
THEOREM OnlyDeadlockStops == LibSpec => []StopsOnlyWhenAllBlocked
<1>1. LibInv => StopsOnlyWhenAllBlocked
  BY DEF LibInv
<1>2. QED
  BY <1>1, LibInvariant, PTL

-----------------------------------------------------------------------------
(* Part 3: what a single step may never do.                                *)

(***************************************************************************)
(* The environment envid2env gives a caller that asks for permission is    *)
(* the caller itself or one whose parent it is.                            *)
(***************************************************************************)
LEMMA PermittedTarget ==
  ASSUME NEW id \in Envid, envid2env(id, TRUE) # NULL
  PROVE  \/ envid2env(id, TRUE) = curenv
         \/ env_parent_id[envid2env(id, TRUE)] = env_id[curenv]
BY DEF envid2env

(***************************************************************************)
(* The slot env_alloc takes was free.                                      *)
(***************************************************************************)
LEMMA AllocFromFree ==
  ASSUME KernelInv, NEW e, NEW p, env_alloc(e, p)
  PROVE  e \in Env /\ env_status[e] = FREE
<1>1. /\ env_free_list \in Seq(Env) /\ env_free_list # <<>>
      /\ e = env_free_list[1]
  BY DEF KernelInv, TypeOK, env_alloc
<1>2. e \in Elements(env_free_list)
  BY <1>1 DEF Elements
<1>3. QED
  BY <1>2 DEF KernelInv, FreeListExact, Live

\* An environment whose status changed is the one that called, a child of
\* it, or a receiver that becomes runnable.
Confined(e) ==
  env_status'[e] # env_status[e] =>
     \/ e = curenv
     \/ env_parent_id[e] = env_id[curenv]
     \/ env_ipc_recving[e] /\ env_status'[e] = RUNNABLE

(***************************************************************************)
(* No call reaches an environment that is neither the caller nor its child *)
(* nor waiting for a message: whatever system calls programs make, the     *)
(* checkperm argument of envid2env confines them, for any number of slots. *)
(***************************************************************************)
THEOREM StatusIsConfined == Spec => StatusConfined
<1>1. KernelInv /\ [Next]_vars => [\A e \in Live : Confined(e)]_vars
  <2> SUFFICES ASSUME KernelInv, Next, NEW x \in Live PROVE Confined(x)
    OBVIOUS
  <2>0. /\ env_status \in [Env -> Status] /\ x \in Env /\ env_status[x] # FREE
    BY DEF KernelInv, TypeOK, Live
  <2>1. ASSUME NEW e \in Env, NEW st, env_status' = [env_status EXCEPT ![e] = st],
               \/ env_status[e] = FREE
               \/ e = curenv
               \/ env_parent_id[e] = env_id[curenv]
               \/ env_ipc_recving[e] /\ st = RUNNABLE
        PROVE  Confined(x)
    <3>1. CASE x = e
      BY <2>0, <2>1, <3>1 DEF Confined
    <3>2. CASE x # e
      BY <2>0, <2>1, <3>2 DEF Confined
    <3>3. QED
      BY <3>1, <3>2
  <2>2. ASSUME env_status' = env_status PROVE Confined(x)
    BY <2>2 DEF Confined
  <2>3. CASE Boot
    <3>1. ASSUME NEW p \in Pri, env_create(p) PROVE Confined(x)
      <4>1. PICK e \in Env : /\ env_alloc(e, ZeroId)
                             /\ env_status' = [env_status EXCEPT ![e] = RUNNABLE]
        BY <3>1 DEF env_create
      <4>2. QED
        BY <2>1, <4>1, AllocFromFree
    <3>2. CASE env_create_fails \/ enable_irq
      BY <2>2, <3>2 DEF env_create_fails, enable_irq
    <3>3. QED
      BY <2>3, <3>1, <3>2 DEF Boot
  <2>4. CASE handle_timer \/ sys_yield \/ sys_cgetc \/ scancharc \/ sys_exofork_no_asid
    BY <2>2, <2>4 DEF handle_timer, sys_yield, sys_cgetc, scancharc, sys_exofork_no_asid
  <2>5. CASE sys_exofork
    <3>1. PICK e \in Env : /\ env_alloc(e, env_id[curenv])
                           /\ env_status' = [env_status EXCEPT ![e] = NOT_RUNNABLE]
      BY <2>5 DEF sys_exofork
    <3>2. QED
      BY <2>1, <3>1, AllocFromFree
  <2>6. CASE sys_ipc_recv
    <3>1. curenv \in Env /\ env_status' = [env_status EXCEPT ![curenv] = NOT_RUNNABLE]
      BY <2>6 DEF sys_ipc_recv, UserMode, KernelInv, TypeOK
    <3>2. QED
      BY <2>1, <3>1
  <2>7. ASSUME NEW id \in Envid, sys_env_destroy(id) PROVE Confined(x)
    <3> DEFINE e == envid2env(id, TRUE)
    <3>1. UserMode /\ e # NULL /\ env_status' = [env_status EXCEPT ![e] = FREE]
      BY <2>7 DEF sys_env_destroy, env_destroy, env_free
    <3>2. e \in Env
      BY <3>1, ResolveType
    <3>3. e = curenv \/ env_parent_id[e] = env_id[curenv]
      BY <3>1, PermittedTarget
    <3> HIDE DEF e
    <3>4. QED
      BY <2>1, <3>1, <3>2, <3>3
  <2>8. ASSUME NEW id \in Envid, NEW st \in {RUNNABLE, NOT_RUNNABLE},
               sys_set_env_status(id, st)
        PROVE  Confined(x)
    <3> DEFINE e == envid2env(id, TRUE)
    <3>1. UserMode /\ e # NULL /\ env_status' = [env_status EXCEPT ![e] = st]
      BY <2>8 DEF sys_set_env_status
    <3>2. e \in Env
      BY <3>1, ResolveType
    <3>3. e = curenv \/ env_parent_id[e] = env_id[curenv]
      BY <3>1, PermittedTarget
    <3> HIDE DEF e
    <3>4. QED
      BY <2>1, <3>1, <3>2, <3>3
  <2>9. ASSUME NEW id \in Envid, NEW v \in Value, sys_ipc_try_send(id, v)
        PROVE  Confined(x)
    <3> DEFINE e == envid2env(id, FALSE)
    <3>1. /\ UserMode /\ e # NULL /\ env_ipc_recving[e]
          /\ env_status' = [env_status EXCEPT ![e] = RUNNABLE]
      BY <2>9 DEF sys_ipc_try_send
    <3>2. e \in Env
      BY <3>1, ResolveType
    <3> HIDE DEF e
    <3>3. QED
      BY <2>1, <3>1, <3>2
  <2>10. QED
    BY <2>3, <2>4, <2>5, <2>6, <2>7, <2>8, <2>9 DEF Next
<1>2. QED
  BY <1>1, KernelInit, KernelStep, PTL DEF Spec, StatusConfined, Confined

(***************************************************************************)
(* Envids, and the envids remembered as parents', were made by mkenvid()   *)
(* before: their generation is not above its counter.                      *)
(***************************************************************************)
GenOld == \A e \in Env : env_id[e][1] <= next_id /\ env_parent_id[e][1] <= next_id

(***************************************************************************)
(* While the counter of mkenvid() has not wrapped, a new envid differs     *)
(* from every envid made before.                                           *)
(***************************************************************************)
LEMMA NewIdIsNew ==
  ASSUME MaxAlloc < GenMod, TypeOK, GenOld, NEW e \in Env, env_alloc_id(e)
  PROVE  /\ next_id' = next_id + 1
         /\ env_id' = [env_id EXCEPT ![e] = <<next_id + 1, e>>]
         /\ next_id \in Nat
<1>1. next_id \in Nat /\ next_id < MaxAlloc /\ MaxAlloc \in Nat /\ GenMod \in Nat
  BY ParamAssumption DEF TypeOK, env_alloc_id
<1>2. (next_id + 1) % GenMod = next_id + 1
  BY <1>1
<1>3. QED
  BY <1>1, <1>2 DEF env_alloc_id, mkenvid

\* What an action does to envids: nothing, or a new one for a free slot.
NewId(e) ==
  /\ env_status[e] = FREE
  /\ env_alloc_id(e)
  /\ \/ env_parent_id' = env_parent_id
     \/ \E p \in Env : env_parent_id' = [env_parent_id EXCEPT ![e] = env_id[p]]
     \/ env_parent_id' = [env_parent_id EXCEPT ![e] = ZeroId]
  /\ \A x \in Env : x # e => env_status'[x] = env_status[x]

OldIds ==
  /\ UNCHANGED <<env_id, env_parent_id, next_id>>
  /\ \A x \in Env : env_status[x] = FREE => env_status'[x] = FREE

(***************************************************************************)
(* Only env_alloc makes an envid or takes a slot off the free list.        *)
(***************************************************************************)
LEMMA WhoMakesIds ==
  ASSUME KernelInv, [Next]_vars
  PROVE  OldIds \/ \E e \in Env : NewId(e)
<1>0. env_status \in [Env -> Status] /\ curenv \in Env \cup {NULL}
  BY DEF KernelInv, TypeOK
<1>1. ASSUME NEW e \in Env, NEW st, env_status[e] # FREE,
             env_status' = [env_status EXCEPT ![e] = st],
             UNCHANGED idVars
      PROVE  OldIds
  BY <1>0, <1>1 DEF OldIds, idVars
<1>2. ASSUME env_status' = env_status, UNCHANGED idVars PROVE OldIds
  BY <1>2 DEF OldIds, idVars
<1>3. ASSUME NEW p \in Pri, env_create(p) PROVE \E e \in Env : NewId(e)
  <2>1. PICK e \in Env : /\ env_alloc(e, ZeroId)
                         /\ env_status' = [env_status EXCEPT ![e] = RUNNABLE]
    BY <1>3 DEF env_create
  <2>2. env_status[e] = FREE
    BY <2>1, AllocFromFree
  <2>3. NewId(e)
    BY <1>0, <2>1, <2>2 DEF NewId, env_alloc
  <2>4. QED
    BY <2>3
<1>4. ASSUME env_alloc_no_asid, env_status' = env_status PROVE \E e \in Env : NewId(e)
  <2>1. /\ env_free_list \in Seq(Env) /\ env_free_list # <<>>
        /\ env_alloc_id(env_free_list[1]) /\ env_parent_id' = env_parent_id
    BY <1>4 DEF KernelInv, TypeOK, env_alloc_no_asid
  <2>2. env_free_list[1] \in Elements(env_free_list)
    BY <2>1 DEF Elements
  <2>3. env_free_list[1] \in Env /\ env_status[env_free_list[1]] = FREE
    BY <2>2 DEF KernelInv, FreeListExact, Live
  <2>4. NewId(env_free_list[1])
    BY <1>4, <2>1, <2>3 DEF NewId
  <2>5. QED
    BY <2>3, <2>4
<1>5. CASE env_create_fails
  <2>1. env_status' = env_status
    BY <1>5 DEF env_create_fails
  <2>2. CASE env_alloc_no_asid
    BY <1>4, <2>1, <2>2
  <2>3. CASE UNCHANGED idVars
    BY <1>2, <2>1, <2>3
  <2>4. QED
    BY <1>5, <2>2, <2>3 DEF env_create_fails, idVars
<1>6. CASE enable_irq \/ handle_timer \/ sys_yield \/ sys_cgetc \/ scancharc
  BY <1>2, <1>6 DEF enable_irq, handle_timer, sys_yield, sys_cgetc, scancharc
<1>7. CASE sys_exofork
  <2>1. PICK e \in Env : /\ env_alloc(e, env_id[curenv])
                         /\ env_status' = [env_status EXCEPT ![e] = NOT_RUNNABLE]
    BY <1>7 DEF sys_exofork
  <2>2. curenv \in Env
    BY <1>0, <1>7 DEF sys_exofork, UserMode
  <2>3. env_status[e] = FREE
    BY <2>1, AllocFromFree
  <2>4. NewId(e)
    BY <1>0, <2>1, <2>2, <2>3 DEF NewId, env_alloc
  <2>5. QED
    BY <2>4
<1>8. CASE sys_exofork_no_asid
  BY <1>4, <1>8 DEF sys_exofork_no_asid
<1>9. CASE sys_ipc_recv
  <2>1. /\ curenv \in Env /\ env_status[curenv] # FREE /\ UNCHANGED idVars
        /\ env_status' = [env_status EXCEPT ![curenv] = NOT_RUNNABLE]
    BY <1>0, <1>9 DEF sys_ipc_recv, UserMode, KernelInv, CurLive
  <2>2. QED
    BY <1>1, <2>1
<1>10. ASSUME NEW id \in Envid, sys_env_destroy(id) PROVE OldIds
  <2> DEFINE e == envid2env(id, TRUE)
  <2>1. /\ UserMode /\ e # NULL /\ env_status' = [env_status EXCEPT ![e] = FREE]
        /\ UNCHANGED idVars
    BY <1>10 DEF sys_env_destroy, env_destroy, env_free
  <2>2. e \in Env /\ env_status[e] # FREE
    BY <2>1, ResolveType
  <2> HIDE DEF e
  <2>3. QED
    BY <1>1, <2>1, <2>2
<1>11. ASSUME NEW id \in Envid, NEW st \in {RUNNABLE, NOT_RUNNABLE},
              sys_set_env_status(id, st)
       PROVE  OldIds
  <2> DEFINE e == envid2env(id, TRUE)
  <2>1. /\ UserMode /\ e # NULL /\ env_status' = [env_status EXCEPT ![e] = st]
        /\ UNCHANGED idVars
    BY <1>11 DEF sys_set_env_status
  <2>2. e \in Env /\ env_status[e] # FREE
    BY <2>1, ResolveType
  <2> HIDE DEF e
  <2>3. QED
    BY <1>1, <2>1, <2>2
<1>12. ASSUME NEW id \in Envid, NEW v \in Value, sys_ipc_try_send(id, v) PROVE OldIds
  <2> DEFINE e == envid2env(id, FALSE)
  <2>1. /\ UserMode /\ e # NULL /\ env_status' = [env_status EXCEPT ![e] = RUNNABLE]
        /\ UNCHANGED idVars
    BY <1>12 DEF sys_ipc_try_send
  <2>2. e \in Env /\ env_status[e] # FREE
    BY <2>1, ResolveType
  <2> HIDE DEF e
  <2>3. QED
    BY <1>1, <2>1, <2>2
<1>13. CASE UNCHANGED vars
  BY <1>2, <1>13 DEF vars
<1>14. QED
  BY <1>3, <1>5, <1>6, <1>7, <1>8, <1>9, <1>10, <1>11, <1>12, <1>13 DEF Next, Boot

(***************************************************************************)
(* While the generations of envids have not wrapped, no environment is     *)
(* born with children: a process that dies never leaves children that the  *)
(* next user of its slot may destroy or start.  The hypothesis is needed:  *)
(* after 2^(31-LOG2NENV) allocations mkenvid() repeats an envid.           *)
(***************************************************************************)
THEOREM NobodyBornWithChildren ==
  ASSUME MaxAlloc < GenMod
  PROVE  Spec => BornChildless
<1>1. Init => GenOld
  <2> SUFFICES ASSUME Init, NEW e \in Env
               PROVE  env_id[e][1] <= next_id /\ env_parent_id[e][1] <= next_id
    BY DEF GenOld
  <2>1. ZeroId[1] = 0
    BY DEF ZeroId
  <2>2. env_id[e] = ZeroId /\ env_parent_id[e] = ZeroId /\ next_id = 0
    BY DEF Init
  <2>3. QED
    BY <2>1, <2>2
<1>2. KernelInv /\ GenOld /\ [Next]_vars => GenOld'
  <2> SUFFICES ASSUME KernelInv, GenOld, [Next]_vars PROVE GenOld'
    OBVIOUS
  <2>1. CASE OldIds
    BY <2>1 DEF OldIds, GenOld
  <2>2. ASSUME NEW e \in Env, NewId(e) PROVE GenOld'
    <3>1. TypeOK /\ env_alloc_id(e)
      BY <2>2 DEF NewId, KernelInv
    <3>2. /\ next_id' = next_id + 1 /\ next_id \in Nat
          /\ env_id' = [env_id EXCEPT ![e] = <<next_id + 1, e>>]
      BY <3>1, NewIdIsNew
    <3>3. /\ env_id \in [Env -> Envid] /\ env_parent_id \in [Env -> Envid]
      BY <3>1 DEF TypeOK
    <3>4. \A x \in Env : env_id[x][1] \in Int /\ env_parent_id[x][1] \in Int
      BY <3>3, ParamAssumption DEF Envid
    <3>5. \A x \in Env : env_id'[x][1] <= next_id'
      BY <3>2, <3>3, <3>4 DEF GenOld
    <3>6. \A x \in Env : env_parent_id'[x][1] <= next_id'
      <4>1. CASE env_parent_id' = env_parent_id
        BY <3>2, <3>4, <4>1 DEF GenOld
      <4>2. ASSUME NEW p \in Env, env_parent_id' = [env_parent_id EXCEPT ![e] = env_id[p]]
            PROVE  \A x \in Env : env_parent_id'[x][1] <= next_id'
        BY <3>2, <3>3, <3>4, <4>2 DEF GenOld
      <4>3. CASE env_parent_id' = [env_parent_id EXCEPT ![e] = ZeroId]
        BY <3>2, <3>3, <3>4, <4>3 DEF GenOld, ZeroId
      <4>4. QED
        BY <2>2, <4>1, <4>2, <4>3 DEF NewId
    <3>7. QED
      BY <3>5, <3>6 DEF GenOld
  <2>3. QED
    BY <2>1, <2>2, WhoMakesIds
<1>3. KernelInv /\ GenOld /\ [Next]_vars =>
        [\A e \in Env \ Live : env_status'[e] # FREE =>
            \A c \in Live : env_parent_id[c] # ZeroId =>
                             env_parent_id[c] # env_id'[e]]_vars
  <2> SUFFICES ASSUME KernelInv, GenOld, [Next]_vars,
                      NEW x \in Env \ Live, env_status'[x] # FREE, NEW c \in Live
               PROVE  env_parent_id[c] # env_id'[x]
    OBVIOUS
  <2>1. env_status[x] = FREE /\ c \in Env
    BY DEF Live
  <2>2. ~OldIds
    BY <2>1 DEF OldIds
  <2>3. PICK e \in Env : NewId(e)
    BY <2>2, WhoMakesIds
  <2>4. x = e
    BY <2>1, <2>3 DEF NewId
  <2>5. TypeOK /\ env_alloc_id(e)
    BY <2>3 DEF NewId, KernelInv
  <2>6. next_id \in Nat /\ env_id' = [env_id EXCEPT ![e] = <<next_id + 1, e>>]
    BY <2>5, NewIdIsNew
  <2>7. env_id'[x][1] = next_id + 1
    BY <2>4, <2>5, <2>6 DEF TypeOK
  <2>8. env_parent_id[c][1] \in Int /\ env_parent_id[c][1] <= next_id
    BY <2>1, <2>5, ParamAssumption DEF TypeOK, Envid, GenOld
  <2>9. QED
    BY <2>6, <2>7, <2>8
<1>4. QED
  BY <1>1, <1>2, <1>3, KernelInit, KernelStep, PTL DEF Spec, BornChildless

\* Whoever got a message was waiting for it, is no longer, and does not run.
Delivered(e) ==
  <<env_ipc_value'[e], env_ipc_from'[e]>> # <<env_ipc_value[e], env_ipc_from[e]>>
    => env_ipc_recving[e] /\ ~env_ipc_recving'[e] /\ e # curenv

(***************************************************************************)
(* With the calls of the library a message stays until its receiver asks   *)
(* for the next one: sys_ipc_try_send is the only call that stores a       *)
(* message, and whom it finds receiving is blocked and so is not running.  *)
(***************************************************************************)
THEOREM MessagesStay == LibSpec => MessageStable
<1>1. LibInv /\ [LibNext]_vars => [\A e \in Live : Delivered(e)]_vars
  <2> SUFFICES ASSUME LibInv, LibNext, NEW x \in Live PROVE Delivered(x)
    OBVIOUS
  <2>0. /\ TypeOK /\ KernelInv /\ x \in Env
    BY DEF LibInv, KernelInv, Live
  <2>1. CASE UNCHANGED <<env_ipc_value, env_ipc_from>>
    BY <2>1 DEF Delivered
  <2>2. CASE \/ Boot \/ handle_timer \/ sys_yield \/ sys_cgetc \/ scancharc
             \/ sys_exofork \/ sys_exofork_no_asid \/ sys_ipc_recv
    <3>1. UNCHANGED <<env_ipc_value, env_ipc_from>>
      BY <2>2 DEF Boot, env_create, env_create_fails, enable_irq, handle_timer, sys_yield,
                  sys_cgetc, scancharc, sys_exofork, sys_exofork_no_asid, sys_ipc_recv, ipcVars
    <3>2. QED
      BY <2>1, <3>1
  <2>3. CASE exit \/ \E c \in Env : start_child(c)
    <3>1. UNCHANGED <<env_ipc_value, env_ipc_from>>
      BY <2>3 DEF exit, sys_env_destroy, env_destroy, env_free, start_child,
                  sys_set_env_status, ipcVars
    <3>2. QED
      BY <2>1, <3>1
  <2>4. ASSUME NEW id \in Envid, NEW v \in Value, ipc_send(id, v) PROVE Delivered(x)
    <3> DEFINE e == envid2env(id, FALSE)
    <3>1. /\ UserMode /\ e # NULL /\ env_ipc_recving[e]
          /\ env_ipc_value' = [env_ipc_value EXCEPT ![e] = v]
          /\ env_ipc_from' = [env_ipc_from EXCEPT ![e] = env_id[curenv]]
          /\ env_ipc_recving' = [env_ipc_recving EXCEPT ![e] = FALSE]
      BY <2>4 DEF ipc_send, sys_ipc_try_send
    <3>2. e \in Env
      BY <2>0, <3>1, ResolveType
    <3> HIDE DEF e
    <3>3. e # curenv
      BY <3>1, <3>2 DEF LibInv, RecvBlocked, CurRunnable, UserMode, OnCpu,
                         RUNNABLE, NOT_RUNNABLE
    <3>4. CASE x = e
      BY <2>0, <3>1, <3>2, <3>3, <3>4 DEF Delivered, TypeOK
    <3>5. CASE x # e
      BY <2>0, <3>1, <3>2, <3>5 DEF Delivered, TypeOK
    <3>6. QED
      BY <3>4, <3>5
  <2>5. QED
    BY <2>2, <2>3, <2>4 DEF LibNext
<1>2. QED
  BY <1>1, LibInit, LibStep, PTL DEF LibSpec, MessageStable, Delivered

(***************************************************************************)
(* TAILQ_INSERT_TAIL does not change the head of a list that has one.      *)
(***************************************************************************)
LEMMA InsertTailFirst ==
  ASSUME NEW q \in TailQueue, NEW S, Holds(q, S), S # {}, NEW e \in Env
  PROVE  TAILQ_FIRST(TAILQ_INSERT_TAIL(q, e)) = TAILQ_FIRST(q)
<1>1. PICK s \in Seq(Env) : IsQueue(q, s) /\ Elements(s) = S
  BY DEF Holds
<1>2. Len(s) # 0
  BY <1>1 DEF Elements
<1>3. q.last \in Env
  BY <1>1, <1>2 DEF IsQueue
<1>4. QED
  BY <1>3, PtrAssumption DEF TAILQ_INSERT_TAIL, TAILQ_FIRST, Store, TailQueue

(***************************************************************************)
(* The post-condition stated at schedule(): with the calls of the library, *)
(* an environment that yields is not the next to run unless no other is    *)
(* runnable.                                                               *)
(***************************************************************************)
THEOREM YieldIsFair == LibSpec => YieldGivesWay
<1>1. LibInv /\ [LibNext]_vars =>
        [sys_yield => curenv' # curenv \/ Runnable = {curenv}]_vars
  <2> SUFFICES ASSUME LibInv, sys_yield, Runnable # {curenv} PROVE curenv' # curenv
    OBVIOUS
  <2> DEFINE q == TAILQ_REMOVE(env_sched_list, curenv)
             r == TAILQ_INSERT_TAIL(q, curenv)
             others == Runnable \ {curenv}
  <2>1. /\ TypeOK /\ curenv \in Env /\ curenv # NULL
        /\ env_status[curenv] = RUNNABLE /\ curenv \in Runnable
    BY DEF LibInv, KernelInv, TypeOK, CurRunnable, UserMode, OnCpu, sys_yield, Runnable
  <2>2. others # {}
    BY <2>1
  <2>3. q \in TailQueue /\ Holds(q, others)
    BY <2>1, RemoveHolds DEF LibInv, TypeOK
  <2>4. TAILQ_FIRST(q) \in others
    BY <2>2, <2>3, FirstHolds
  <2>5. TAILQ_FIRST(r) = TAILQ_FIRST(q)
    BY <2>1, <2>2, <2>3, InsertTailFirst
  <2> DEFINE first == TAILQ_FIRST(r)
  <2>6. first \in Env /\ first # curenv /\ env_status[first] = RUNNABLE /\ first # NULL
    BY <2>4, <2>5, PtrAssumption DEF Runnable
  <2>7. schedule(TRUE, curenv, env_status, env_sched_list)
    BY DEF sys_yield
  <2>8. CanGoOn(curenv, env_status) /\ Rotate(env_sched_list, curenv) = r
    BY <2>1 DEF CanGoOn, Rotate
  <2> HIDE DEF r, q
  <2>9. ~TAILQ_EMPTY(r) /\ env_status[TAILQ_FIRST(r)] = RUNNABLE
    BY <2>6 DEF TAILQ_EMPTY, TAILQ_FIRST
  <2>10. curenv' = first
    BY <2>7, <2>8, <2>9 DEF schedule
  <2>11. QED
    BY <2>6, <2>10
<1>2. QED
  BY <1>1, LibInit, LibStep, PTL DEF LibSpec, YieldGivesWay
=============================================================================
