----------------------------- MODULE PipeProofs -----------------------------
(***************************************************************************)
(* What the reference counts of a pipe say about it, for any number of     *)
(* environments and descriptors: one invariant of the Fd and Pipe mappings *)
(* under closing, duplicating and forking, and the two directions of       *)
(* _pipe_is_closed().  Then the ring buffer: the bytes come out in order.  *)
(***************************************************************************)
EXTENDS Pipe, FiniteSetTheorems, TLAPS

CallOp   == {"read", "write", "poll"}
Transfer == {"read", "get_byte", "get_pos", "write", "put_byte", "put_pos"}
Check    == {"chk_fd", "chk_pipe", "chk_cmp"}
Forking  == {"fork_fd", "fork_data"}

\* Types of what the argument is about; the counters of a call do not matter.
MapFrame == [op : {"none", "close", "dup", "exit", "fork"} \cup CallOp,
             fd : Slot, to : Slot, child : Proc, i : Int, n : Int,
             half : {0, 1}, fd_ref : Nat, pipe_ref : Nat]

MapType ==
  /\ fdmap \in [Proc -> [Slot -> End \cup {NONE}]]
  /\ datamap \in [Proc -> [Slot -> BOOLEAN]]
  /\ pc \in [Proc -> Label]
  /\ frame \in [Proc -> MapFrame]
  /\ rescheduled \in [Proc -> BOOLEAN]

\* The call p is in, at each place of it.
InCall(p) ==
  /\ pc[p] \in {"close_fd", "close_data"} => frame[p].op \in {"close", "exit", "dup"}
  /\ pc[p] \in {"dup_fd", "dup_data"} => frame[p].op = "dup"
  /\ pc[p] = "close_all" => frame[p].op = "exit"
  /\ pc[p] \in Transfer => frame[p].op \in {"read", "write"}
  /\ pc[p] \in Transfer \cup Check => frame[p].op \in CallOp /\ MyEnd(p) \in End

\* What the halves of close(), dup() and fork() have left behind.
Halfway(p) ==
  /\ pc[p] = "close_data" => fdmap[p][Closing(p)] = NONE
  /\ pc[p] = "dup_fd" => fdmap[p][frame[p].to] = NONE
  /\ pc[p] = "dup_data" => /\ frame[p].fd # frame[p].to
                           /\ MyEnd(p) # NONE
                           /\ fdmap[p][frame[p].to] # NONE
  /\ pc[p] = "unborn" => \A s \in Slot : fdmap[p][s] = NONE

\* The descriptors of p whose two pages are not yet mapped or unmapped together.
Loose(p) ==
  IF pc[p] = "close_data" THEN {Closing(p)}
  ELSE IF pc[p] = "dup_data" THEN {frame[p].to}
  ELSE IF pc[p] = "embryo" THEN Slot
  ELSE {}

Paired(p) == \A s \in Slot \ Loose(p) : datamap[p][s] <=> fdmap[p][s] # NONE

\* The child of a fork gets what the parent has, and nobody else touches it.
Inherits(p) ==
  pc[p] \in Forking =>
    /\ pc[frame[p].child] = "embryo"
    /\ \A s \in Slot : /\ fdmap[frame[p].child][s] \in {NONE, fdmap[p][s]}
                       /\ datamap[frame[p].child][s] => datamap[p][s]
                       /\ pc[p] = "fork_data" => fdmap[frame[p].child][s] = fdmap[p][s]

OneParent ==
  \A p, q \in Proc : pc[p] \in Forking /\ pc[q] \in Forking /\ p # q
                       => frame[p].child # frame[q].child

HasParent(c) == \E p \in Proc : pc[p] \in Forking /\ frame[p].child = c
Raised == \A c \in Proc : pc[c] = "embryo" => HasParent(c)

\* The counts p has read are current until somebody else runs.
Snapshot(p) ==
  ~rescheduled[p] =>
    /\ pc[p] \in {"chk_pipe", "chk_cmp"} => frame[p].fd_ref = FdRef(MyEnd(p))
    /\ pc[p] = "chk_cmp" => frame[p].pipe_ref = PipeRef

Own(p) == InCall(p) /\ Halfway(p) /\ Paired(p) /\ Inherits(p) /\ Snapshot(p)

MapInv == MapType /\ OneParent /\ Raised /\ \A p \in Proc : Own(p)

\* While the ends are only used and closed nobody duplicates or forks.
UseLabel == Label \ {"unborn", "embryo", "dup_fd", "dup_data", "fork_fd", "fork_data"}
OnlyUsed == \A p \in Proc : pc[p] \in UseLabel /\ frame[p].op # "dup"

-----------------------------------------------------------------------------
(* The places where a page can be mapped are finitely many. *)
LEMMA PlaceFinite == IsFiniteSet(Place)
<1>1. IsFiniteSet(Slot)
  BY FS_Interval, PipeAssumption DEF Slot
<1>2. IsFiniteSet(Proc)
  BY PipeAssumption
<1> QED BY <1>1, <1>2, FS_Product DEF Place

(* Reference counts are natural numbers. *)
LEMMA RefsNat == (\A e \in End : FdRef(e) \in Nat) /\ PipeRef \in Nat
<1>1. ASSUME NEW T \in SUBSET Place PROVE Cardinality(T) \in Nat
  BY PlaceFinite, FS_Subset, FS_CardinalityType
<1> QED BY <1>1 DEF FdRef, PipeRef

(***************************************************************************)
(* The counting argument, one way: where an Fd page is mapped the Pipe     *)
(* page is mapped next to it, so equal counts mean the same places, and    *)
(* leave none for the other end.                                           *)
(***************************************************************************)
LEMMA EqualCounts ==
  ASSUME \A p \in Proc, s \in Slot : fdmap[p][s] # NONE => datamap[p][s],
         NEW e \in End, FdRef(e) = PipeRef
  PROVE  ~OpenSomewhere(Other(e))
<1> DEFINE F == {x \in Place : fdmap[x[1]][x[2]] = e}
           D == {x \in Place : datamap[x[1]][x[2]]}
<1>1. IsFiniteSet(D) /\ F \subseteq D
  <2>1. IsFiniteSet(D)
    BY PlaceFinite, FS_Subset
  <2>2. ASSUME NEW x \in F PROVE x \in D
    <3>1. x[1] \in Proc /\ x[2] \in Slot /\ fdmap[x[1]][x[2]] = e
      BY DEF Place
    <3>2. datamap[x[1]][x[2]]
      BY <3>1 DEF End, NONE
    <3> QED BY <3>2
  <2> QED BY <2>1, <2>2
<1>2. F = D
  <2>1. Cardinality(F) = Cardinality(D)
    BY DEF FdRef, PipeRef
  <2> QED BY ONLY <1>1, <2>1, FS_Subset
<1>3. SUFFICES ASSUME NEW p \in Proc, NEW s \in Slot, fdmap[p][s] = Other(e)
               PROVE  FALSE
  BY DEF OpenSomewhere
<1>4. datamap[p][s]
  BY <1>3 DEF Other, NONE
<1>5. <<p, s>> \in D
  BY <1>4 DEF Place
<1>6. fdmap[p][s] = e
  BY <1>2, <1>5
<1> QED BY <1>3, <1>6 DEF Other, End

(* And the other way: when the two pages of every descriptor are mapped    *)
(* together and only one end is left, the counts are equal.                *)
LEMMA CountsEqual ==
  ASSUME MapType, NEW e \in End, ~OpenSomewhere(Other(e)),
         \A p \in Proc, s \in Slot : datamap[p][s] <=> fdmap[p][s] # NONE
  PROVE  FdRef(e) = PipeRef
<1>1. ASSUME NEW x \in Place PROVE fdmap[x[1]][x[2]] = e <=> datamap[x[1]][x[2]]
  <2>1. x[1] \in Proc /\ x[2] \in Slot
    BY DEF Place
  <2>2. fdmap[x[1]][x[2]] \in End \cup {NONE} /\ fdmap[x[1]][x[2]] # Other(e)
    BY <2>1 DEF MapType, OpenSomewhere
  <2> QED BY <2>1, <2>2 DEF End, NONE, Other
<1>2. {x \in Place : fdmap[x[1]][x[2]] = e} = {x \in Place : datamap[x[1]][x[2]]}
  BY <1>1
<1> QED BY <1>2 DEF FdRef, PipeRef

(* Used and closed only: equal counts mean that the other end is closed. *)
LEMMA InvGivesReal == MapInv /\ OnlyUsed => ClosedIsReal
<1> SUFFICES ASSUME MapInv, OnlyUsed, NEW p \in Proc, Decides(p), SaysClosed(p)
             PROVE  ~OpenSomewhere(Other(MyEnd(p)))
  BY DEF ClosedIsReal
<1>1. MyEnd(p) \in End /\ FdRef(MyEnd(p)) = PipeRef
  BY DEF MapInv, Own, Decides, SaysClosed, Snapshot, InCall, Check
<1>2. ASSUME NEW q \in Proc, NEW s \in Slot, fdmap[q][s] # NONE PROVE datamap[q][s]
  <2>1. Paired(q) /\ Halfway(q) /\ pc[q] \in UseLabel
    BY DEF MapInv, Own, OnlyUsed
  <2>2. s \notin Loose(q)
    BY <2>1, <1>2 DEF Loose, Halfway, UseLabel
  <2> QED BY <2>1, <2>2, <1>2 DEF Paired
<1> QED BY <1>1, <1>2, EqualCounts

(* Nobody halfway: a closed end is seen in the counts. *)
LEMMA InvGivesSeen == MapInv => ClosedIsSeen
<1> SUFFICES ASSUME MapInv, NEW p \in Proc, Decides(p),
                    \A q \in Proc : pc[q] \notin {"close_data", "dup_data", "fork_fd", "fork_data"},
                    ~OpenSomewhere(Other(MyEnd(p)))
             PROVE  SaysClosed(p)
  BY DEF ClosedIsSeen
<1>1. MyEnd(p) \in End /\ frame[p].fd_ref = FdRef(MyEnd(p)) /\ frame[p].pipe_ref = PipeRef
  BY DEF MapInv, Own, Decides, Snapshot, InCall, Check
<1>2. ASSUME NEW q \in Proc, NEW s \in Slot PROVE datamap[q][s] <=> fdmap[q][s] # NONE
  <2>1. Paired(q)
    BY DEF MapInv, Own
  <2>2. pc[q] # "embryo"
    BY DEF MapInv, Raised, HasParent, Forking
  <2>3. Loose(q) = {}
    BY <2>2 DEF Loose
  <2> QED BY <2>1, <2>3 DEF Paired
<1>3. MapType
  BY DEF MapInv
<1>4. FdRef(MyEnd(p)) = PipeRef
  BY <1>1, <1>2, <1>3, CountsEqual
<1> QED BY <1>1, <1>4 DEF SaysClosed

-----------------------------------------------------------------------------
(* Both initial states: some environments hold both ends, nobody is in a call. *)
LEMMA MapInit == ASSUME NEW H \in SUBSET Proc, InitWith(H) PROVE MapInv
<1> USE PipeAssumption DEF InitWith
<1>1. MapType
  BY DEF MapType, BothEnds, End, NONE, NoCall, MapFrame, Label, CallOp, Slot
<1>2. OneParent /\ Raised
  BY DEF OneParent, Raised, Forking
<1>3. ASSUME NEW p \in Proc PROVE Own(p)
  <2>1. InCall(p) /\ Inherits(p) /\ Snapshot(p)
    BY DEF InCall, Inherits, Snapshot, Transfer, Check, Forking
  <2>2. Halfway(p)
    BY DEF Halfway
  <2>3. ASSUME NEW s \in Slot PROVE datamap[p][s] <=> fdmap[p][s] # NONE
    BY DEF BothEnds, NONE
  <2>4. Paired(p)
    BY <2>3 DEF Paired
  <2> QED BY <2>1, <2>2, <2>4 DEF Own
<1> QED BY <1>1, <1>2, <1>3 DEF MapInv

-----------------------------------------------------------------------------
(* Steps.  A step of p changes the locals of p, and in a fork those of the *)
(* child; X is the set of the environments that it changes.                *)

\* The locals of p become l and f.
To(p, l, f) == pc' = [pc EXCEPT ![p] = l] /\ frame' = [frame EXCEPT ![p] = f]

Kept(X) ==
  \A q \in Proc \ X : /\ pc'[q] = pc[q] /\ frame'[q] = frame[q]
                       /\ fdmap'[q] = fdmap[q] /\ datamap'[q] = datamap[q]

(* What is known of the others stays true: they keep their maps and locals, *)
(* so do their children, and they count as rescheduled.                     *)
LEMMA OthersInv ==
  ASSUME MapInv, NEW p \in Proc, Scheduled(p), NEW X \in SUBSET Proc, p \in X, Kept(X),
         NEW q \in Proc \ X, pc[q] \in Forking => frame[q].child \notin X
  PROVE  Own(q)'
<1>1. MapType /\ Own(q)
  BY DEF MapInv
<1>2. pc'[q] = pc[q] /\ frame'[q] = frame[q] /\ fdmap'[q] = fdmap[q] /\ datamap'[q] = datamap[q]
  BY DEF Kept
<1>3. rescheduled'[q] = TRUE
  BY DEF Scheduled
<1>4. Closing(q)' = Closing(q) /\ MyEnd(q)' = MyEnd(q) /\ Loose(q)' = Loose(q)
  BY <1>2 DEF Closing, MyEnd, Loose
<1>5. InCall(q)' /\ Halfway(q)' /\ Paired(q)' /\ Snapshot(q)'
  BY <1>1, <1>2, <1>3, <1>4 DEF Own, InCall, Halfway, Paired, Snapshot
<1>6. Inherits(q)'
  <2>1. CASE pc[q] \in Forking
    <3> DEFINE c == frame[q].child
    <3>1. c \in Proc \ X
      BY <1>1, <2>1 DEF MapType, MapFrame
    <3>2. pc'[c] = pc[c] /\ fdmap'[c] = fdmap[c] /\ datamap'[c] = datamap[c]
      BY <3>1 DEF Kept
    <3> QED BY <1>1, <1>2, <3>2 DEF Own, Inherits
  <2>2. CASE pc[q] \notin Forking
    BY <1>2, <2>2 DEF Inherits
  <2> QED BY <2>1, <2>2
<1> QED BY <1>5, <1>6 DEF Own

(* A step of p outside fork(), to a place outside fork(). *)
LEMMA PlainInv ==
  ASSUME MapInv, NEW p \in Proc, Scheduled(p), Kept({p}),
         pc[p] \notin Forking \cup {"embryo"}, pc'[p] \notin Forking \cup {"embryo"},
         MapType', Own(p)'
  PROVE  MapInv'
<1>1. ASSUME NEW q \in Proc \ {p} PROVE Own(q)'
  <2>1. pc[q] \in Forking => frame[q].child # p
    BY DEF MapInv, Own, Inherits
  <2> QED BY <2>1, OthersInv
<1>2. OneParent'
  <2>1. OneParent
    BY DEF MapInv
  <2>2. \A q \in Proc : pc'[q] \in Forking
                          => pc[q] \in Forking /\ frame'[q] = frame[q]
    BY DEF Kept
  <2> QED BY <2>1, <2>2 DEF OneParent
<1>3. Raised'
  <2> SUFFICES ASSUME NEW c \in Proc, pc'[c] = "embryo" PROVE HasParent(c)'
    BY DEF Raised
  <2>1. pc[c] = "embryo"
    BY DEF Kept
  <2>2. PICK q \in Proc : pc[q] \in Forking /\ frame[q].child = c
    BY <2>1 DEF MapInv, Raised, HasParent
  <2>3. pc'[q] = pc[q] /\ frame'[q] = frame[q]
    BY <2>2 DEF Kept
  <2> QED BY <2>2, <2>3 DEF HasParent
<1> QED BY <1>1, <1>2, <1>3 DEF MapInv

\* The places that the calls and the data transfers lead to: neither inside
\* the part of _pipe_is_closed that relies on the counts, nor between the two
\* halves of a change of the maps.
Quiet == {"idle", "dead", "close_fd", "close_all", "dup_fd", "chk_fd"} \cup Transfer

\* The frame f fits the place l of p.
Fits(p, l, f) ==
  /\ f \in MapFrame
  /\ l = "close_fd" => f.op \in {"close", "exit", "dup"}
  /\ l = "dup_fd" => f.op = "dup" /\ fdmap[p][f.to] = NONE
  /\ l = "close_all" => f.op = "exit"
  /\ l \in Transfer => f.op \in {"read", "write"}
  /\ l \in Transfer \cup {"chk_fd"} => f.op \in CallOp /\ fdmap[p][f.fd] \in End

(* A step that leaves the maps alone. *)
LEMMA QuietStep ==
  ASSUME MapInv, NEW p \in Proc, Scheduled(p), UNCHANGED <<fdmap, datamap>>,
         pc[p] \notin Forking \cup {"unborn", "embryo", "close_data", "dup_data"},
         NEW l \in Quiet, NEW f, Fits(p, l, f), To(p, l, f)
  PROVE  MapInv'
<1>0. MapType /\ l \in Label /\ f \in MapFrame
  BY DEF MapInv, Quiet, Label, Fits, Transfer
<1>1. MapType'
  BY <1>0 DEF MapType, Scheduled, To
<1>2. pc'[p] = l /\ frame'[p] = f /\ fdmap' = fdmap /\ datamap' = datamap
  BY <1>0 DEF MapType, To
<1>3. Own(p)'
  <2>1. InCall(p)'
    BY <1>2 DEF InCall, Fits, Quiet, MyEnd, Transfer, Check
  <2>2. Halfway(p)' /\ Inherits(p)' /\ Snapshot(p)'
    BY <1>2 DEF Halfway, Inherits, Snapshot, Fits, Quiet, Transfer, Forking
  <2>3. Loose(p)' = {} /\ Loose(p) = {}
    BY <1>2 DEF Loose, Quiet, Transfer
  <2>4. Paired(p)'
    BY <1>2, <2>3 DEF MapInv, Own, Paired
  <2> QED BY <2>1, <2>2, <2>4 DEF Own
<1>4. Kept({p})
  BY <1>0 DEF MapType, Kept, To
<1>5. pc'[p] \notin Forking \cup {"embryo"}
  BY <1>2 DEF Quiet, Transfer, Forking
<1> QED BY <1>1, <1>3, <1>4, <1>5, PlainInv

-----------------------------------------------------------------------------
(* An environment outside fork() changes at most one descriptor s of its   *)
(* own, and leaves it either paired or loose.                              *)
LEMMA OneSlot ==
  ASSUME MapInv, NEW p \in Proc, NEW s \in Slot, Loose(p) \subseteq {s}, Loose(p)' \subseteq {s},
         \A t \in Slot \ {s} : /\ fdmap'[p][t] = fdmap[p][t]
                               /\ datamap'[p][t] = datamap[p][t],
         s \notin Loose(p)' => (datamap'[p][s] <=> fdmap'[p][s] # NONE)
  PROVE  Paired(p)'
<1>1. Paired(p)
  BY DEF MapInv, Own
<1> SUFFICES ASSUME NEW t \in Slot \ Loose(p)' PROVE datamap'[p][t] <=> fdmap'[p][t] # NONE
  BY DEF Paired
<1>2. CASE t = s
  BY <1>2
<1>3. CASE t # s
  BY <1>1, <1>3 DEF Paired
<1> QED BY <1>2, <1>3

(* The Fd page goes first. *)
LEMMA CloseFdStep ==
  ASSUME MapInv, NEW p \in Proc, Scheduled(p), close_fd(p)
  PROVE  MapInv'
<1>1. MapType /\ frame[p] \in MapFrame /\ pc[p] = "close_fd" /\ InCall(p)
  BY DEF MapInv, MapType, Own, close_fd
<1>2. PICK s \in Slot : s = Closing(p)
  BY <1>1 DEF Closing, MapFrame
<1>3. /\ fdmap' = [fdmap EXCEPT ![p][s] = NONE] /\ datamap' = datamap
      /\ pc' = [pc EXCEPT ![p] = "close_data"] /\ frame' = frame
  BY <1>2 DEF close_fd, Goto
<1>4. MapType'
  BY <1>1, <1>3 DEF MapType, Scheduled, Label
<1>5. pc'[p] = "close_data" /\ fdmap'[p][s] = NONE /\ Closing(p)' = s
  BY <1>1, <1>2, <1>3 DEF MapType, Closing
<1>6. InCall(p)' /\ Halfway(p)' /\ Inherits(p)' /\ Snapshot(p)'
  BY <1>1, <1>3, <1>5 DEF InCall, Halfway, Inherits, Snapshot, Transfer, Check, Forking
<1>7. Paired(p)'
  <2>1. Loose(p) \subseteq {s} /\ Loose(p)' = {s}
    BY <1>1, <1>5 DEF Loose
  <2>2. \A t \in Slot \ {s} : fdmap'[p][t] = fdmap[p][t] /\ datamap'[p][t] = datamap[p][t]
    BY <1>1, <1>3 DEF MapType
  <2> QED BY <2>1, <2>2, OneSlot
<1>8. Kept({p})
  BY <1>1, <1>3 DEF MapType, Kept
<1>9. pc[p] \notin Forking \cup {"embryo"} /\ pc'[p] \notin Forking \cup {"embryo"}
  BY <1>1, <1>5 DEF Forking
<1> QED BY <1>4, <1>6, <1>7, <1>8, <1>9, PlainInv DEF Own

(* The Pipe page goes when the Fd page is gone. *)
LEMMA CloseDataStep ==
  ASSUME MapInv, NEW p \in Proc, Scheduled(p), close_data(p)
  PROVE  MapInv'
<1>1. MapType /\ frame[p] \in MapFrame /\ pc[p] = "close_data" /\ InCall(p) /\ Halfway(p)
  BY DEF MapInv, MapType, Own, close_data
<1>2. PICK s \in Slot : s = Closing(p)
  BY <1>1 DEF Closing, MapFrame
<1>3. /\ datamap' = [datamap EXCEPT ![p][s] = FALSE] /\ fdmap' = fdmap
      /\ fdmap[p][s] = NONE
  BY <1>1, <1>2 DEF close_data, Halfway
<1>4. PICK l \in {"idle", "close_all", "dup_fd"}, f \in MapFrame :
        /\ To(p, l, f)
        /\ l = "close_all" => f.op = "exit"
        /\ l = "dup_fd" => f.op = "dup" /\ f.to = s
  <2>1. CASE Return(p)
    <3>1. NoCall \in MapFrame
      BY PipeAssumption DEF NoCall, MapFrame, Slot
    <3> QED BY <2>1, <3>1 DEF Return, To
  <2>2. frame' = frame => frame' = [frame EXCEPT ![p] = frame[p]]
    BY <1>1 DEF MapType
  <2>3. CASE frame[p].op = "exit" /\ Goto(p, "close_all")
    BY <1>1, <2>2, <2>3 DEF Goto, To
  <2>4. CASE frame[p].op = "dup" /\ Goto(p, "dup_fd")
    BY <1>1, <1>2, <2>2, <2>4 DEF Goto, To, Closing
  <2> QED BY <2>1, <2>3, <2>4 DEF close_data
<1>5. MapType'
  BY <1>1, <1>3, <1>4 DEF MapType, Scheduled, Label, To
<1>6. pc'[p] = l /\ frame'[p] = f
  BY <1>1, <1>4 DEF MapType, To
<1>7. InCall(p)' /\ Halfway(p)' /\ Inherits(p)' /\ Snapshot(p)'
  BY <1>3, <1>4, <1>6 DEF InCall, Halfway, Inherits, Snapshot, Transfer, Check, Forking
<1>8. Paired(p)'
  <2>1. Loose(p) = {s} /\ Loose(p)' = {}
    BY <1>1, <1>2, <1>4, <1>6 DEF Loose
  <2>2. /\ \A t \in Slot \ {s} : fdmap'[p][t] = fdmap[p][t] /\ datamap'[p][t] = datamap[p][t]
        /\ ~datamap'[p][s]
    BY <1>1, <1>3 DEF MapType
  <2> QED BY <1>3, <2>1, <2>2, OneSlot
<1>9. Kept({p})
  BY <1>1, <1>3, <1>4 DEF MapType, Kept, To
<1>10. pc[p] \notin Forking \cup {"embryo"} /\ pc'[p] \notin Forking \cup {"embryo"}
  BY <1>1, <1>4, <1>6 DEF Forking
<1> QED BY <1>5, <1>7, <1>8, <1>9, <1>10, PlainInv DEF Own

(* dup() maps the Fd page, unless its source was its target. *)
LEMMA DupFdStep ==
  ASSUME MapInv, NEW p \in Proc, Scheduled(p), dup_fd(p)
  PROVE  MapInv'
<1>1. MapType /\ frame[p] \in MapFrame /\ pc[p] = "dup_fd" /\ InCall(p) /\ Halfway(p)
  BY DEF MapInv, MapType, Own, dup_fd
<1>2. PICK s \in Slot : s = frame[p].to
  BY <1>1 DEF MapFrame
<1>3. PICK e \in End \cup {NONE} : e = MyEnd(p)
  BY <1>1 DEF MyEnd, MapType, MapFrame
<1>4. /\ fdmap' = [fdmap EXCEPT ![p][s] = e] /\ datamap' = datamap
      /\ fdmap[p][s] = NONE /\ frame[p].op = "dup"
  BY <1>1, <1>2, <1>3 DEF dup_fd, Halfway, InCall
<1>5. /\ e = NONE => To(p, "idle", NoCall)
      /\ e # NONE => To(p, "dup_data", frame[p])
  BY <1>1, <1>3 DEF dup_fd, Return, Goto, To, MapType
<1>6. NoCall \in MapFrame
  BY PipeAssumption DEF NoCall, MapFrame, Slot
<1>7. MapType'
  BY <1>1, <1>4, <1>5, <1>6 DEF MapType, Scheduled, Label, To
<1>8. /\ e = NONE => pc'[p] = "idle" /\ frame'[p] = NoCall
      /\ e # NONE => pc'[p] = "dup_data" /\ frame'[p] = frame[p]
  BY <1>1, <1>5 DEF MapType, To
<1>9. fdmap'[p][s] = e /\ \A t \in Slot \ {s} : fdmap'[p][t] = fdmap[p][t]
  BY <1>1, <1>4 DEF MapType
<1>10. e # NONE => frame[p].fd # s /\ frame[p].fd \in Slot
  BY <1>1, <1>3, <1>4 DEF MyEnd, MapFrame
<1>11. InCall(p)' /\ Inherits(p)' /\ Snapshot(p)'
  BY <1>4, <1>8 DEF InCall, Inherits, Snapshot, Transfer, Check, Forking
<1>12. Halfway(p)'
  <2>1. CASE e = NONE
    BY <2>1, <1>8 DEF Halfway
  <2>2. CASE e # NONE
    <3>1. MyEnd(p)' # NONE
      BY <2>2, <1>3, <1>8, <1>9, <1>10 DEF MyEnd
    <3> QED BY <2>2, <3>1, <1>2, <1>8, <1>9, <1>10 DEF Halfway
  <2> QED BY <2>1, <2>2
<1>13. Paired(p)'
  <2>1. Loose(p) = {} /\ Loose(p)' \subseteq {s} /\ (e # NONE => Loose(p)' = {s})
    BY <1>1, <1>2, <1>8 DEF Loose
  <2>2. datamap[p][s] <=> fdmap[p][s] # NONE
    BY <2>1 DEF MapInv, Own, Paired
  <2> QED BY <1>4, <1>9, <2>1, <2>2, OneSlot
<1>14. Kept({p})
  BY <1>1, <1>4, <1>5 DEF MapType, Kept, To
<1>15. pc[p] \notin Forking \cup {"embryo"} /\ pc'[p] \notin Forking \cup {"embryo"}
  BY <1>1, <1>8 DEF Forking
<1> QED BY <1>7, <1>11, <1>12, <1>13, <1>14, <1>15, PlainInv DEF Own

(* And then the Pipe page, which the source has. *)
LEMMA DupDataStep ==
  ASSUME MapInv, NEW p \in Proc, Scheduled(p), dup_data(p)
  PROVE  MapInv'
<1>1. MapType /\ frame[p] \in MapFrame /\ pc[p] = "dup_data" /\ Halfway(p) /\ Paired(p)
  BY DEF MapInv, MapType, Own, dup_data
<1>2. PICK s \in Slot : s = frame[p].to
  BY <1>1 DEF MapFrame
<1>3. Loose(p) = {s}
  BY <1>1, <1>2 DEF Loose
<1>4. datamap[p][frame[p].fd] /\ fdmap[p][s] # NONE
  <2>1. frame[p].fd \in Slot \ {s} /\ fdmap[p][frame[p].fd] # NONE
    BY <1>1, <1>2 DEF Halfway, MapFrame, MyEnd
  <2> QED BY <1>1, <1>2, <1>3, <2>1 DEF Paired, Halfway
<1>5. /\ datamap' = [datamap EXCEPT ![p][s] = TRUE] /\ fdmap' = fdmap
      /\ To(p, "idle", NoCall)
  BY <1>1, <1>2, <1>4 DEF dup_data, Return, To, MapType
<1>6. NoCall \in MapFrame
  BY PipeAssumption DEF NoCall, MapFrame, Slot
<1>7. MapType'
  BY <1>1, <1>5, <1>6 DEF MapType, Scheduled, Label, To
<1>8. pc'[p] = "idle" /\ datamap'[p][s] /\ \A t \in Slot \ {s} : datamap'[p][t] = datamap[p][t]
  BY <1>1, <1>5 DEF MapType, To
<1>9. InCall(p)' /\ Halfway(p)' /\ Inherits(p)' /\ Snapshot(p)'
  BY <1>8 DEF InCall, Halfway, Inherits, Snapshot, Transfer, Check, Forking
<1>10. Paired(p)'
  <2>1. Loose(p)' = {}
    BY <1>8 DEF Loose
  <2> QED BY <1>3, <1>4, <1>5, <1>8, <2>1, OneSlot
<1>11. Kept({p})
  BY <1>1, <1>5 DEF MapType, Kept, To
<1>12. pc[p] \notin Forking \cup {"embryo"} /\ pc'[p] \notin Forking \cup {"embryo"}
  BY <1>1, <1>8 DEF Forking
<1> QED BY <1>7, <1>9, <1>10, <1>11, <1>12, PlainInv DEF Own

-----------------------------------------------------------------------------
(* chk_fd reads a count that is current, whatever was true before. *)
LEMMA ChkFdStep ==
  ASSUME MapInv, NEW p \in Proc, Scheduled(p), chk_fd(p)
  PROVE  MapInv'
<1>1. MapType /\ frame[p] \in MapFrame /\ pc[p] = "chk_fd" /\ InCall(p) /\ Paired(p)
  BY DEF MapInv, MapType, Own, chk_fd
<1>2. frame[p].op \in CallOp /\ MyEnd(p) \in End
  BY <1>1 DEF InCall, Check
<1>3. PICK k \in Nat : k = FdRef(MyEnd(p))
  BY <1>2, RefsNat
<1>4. /\ fdmap' = fdmap /\ datamap' = datamap
      /\ pc' = [pc EXCEPT ![p] = "chk_pipe"]
      /\ frame' = [frame EXCEPT ![p].fd_ref = k]
  BY <1>3 DEF chk_fd, mapVars
<1>5. frame' \in [Proc -> MapFrame]
  BY <1>1, <1>4 DEF MapType, MapFrame
<1>6. MapType'
  BY <1>1, <1>4, <1>5 DEF MapType, Scheduled, Label
<1>7. /\ pc'[p] = "chk_pipe" /\ frame'[p].fd_ref = k
      /\ frame'[p].op = frame[p].op /\ frame'[p].fd = frame[p].fd
  BY <1>1, <1>4 DEF MapType, MapFrame
<1>8. MyEnd(p)' = MyEnd(p)
  BY <1>4, <1>7 DEF MyEnd
<1>9. Snapshot(p)'
  BY <1>3, <1>4, <1>7, <1>8 DEF Snapshot, FdRef
<1>10. InCall(p)' /\ Halfway(p)' /\ Inherits(p)'
  BY <1>2, <1>7, <1>8 DEF InCall, Halfway, Inherits, Transfer, Check, Forking
<1>11. Paired(p)'
  BY <1>1, <1>4, <1>7 DEF Paired, Loose
<1>12. Kept({p})
  BY <1>1, <1>4 DEF MapType, Kept
<1>13. pc[p] \notin Forking \cup {"embryo"} /\ pc'[p] \notin Forking \cup {"embryo"}
  BY <1>1, <1>7 DEF Forking
<1> QED BY <1>6, <1>9, <1>10, <1>11, <1>12, <1>13, PlainInv DEF Own

(* chk_pipe reads the second count; if nobody else has run since the first *)
(* was read, both belong to the same state.                                *)
LEMMA ChkPipeStep ==
  ASSUME MapInv, NEW p \in Proc, Scheduled(p), chk_pipe(p)
  PROVE  MapInv'
<1>1. /\ MapType /\ frame[p] \in MapFrame /\ pc[p] = "chk_pipe"
      /\ InCall(p) /\ Paired(p) /\ Snapshot(p)
  BY DEF MapInv, MapType, Own, chk_pipe
<1>2. frame[p].op \in CallOp /\ MyEnd(p) \in End
  BY <1>1 DEF InCall, Check
<1>3. PICK k \in Nat : k = PipeRef
  BY RefsNat
<1>4. /\ fdmap' = fdmap /\ datamap' = datamap
      /\ pc' = [pc EXCEPT ![p] = "chk_cmp"]
      /\ frame' = [frame EXCEPT ![p].pipe_ref = k]
  BY <1>3 DEF chk_pipe, mapVars
<1>5. frame' \in [Proc -> MapFrame]
  BY <1>1, <1>4 DEF MapType, MapFrame
<1>6. MapType'
  BY <1>1, <1>4, <1>5 DEF MapType, Scheduled, Label
<1>7. /\ pc'[p] = "chk_cmp" /\ frame'[p].pipe_ref = k /\ frame'[p].fd_ref = frame[p].fd_ref
      /\ frame'[p].op = frame[p].op /\ frame'[p].fd = frame[p].fd
  BY <1>1, <1>4 DEF MapType, MapFrame
<1>8. MyEnd(p)' = MyEnd(p)
  BY <1>4, <1>7 DEF MyEnd
<1>9. Snapshot(p)'
  <2>1. rescheduled'[p] = rescheduled[p]
    BY <1>1, <1>7 DEF Scheduled, MapType
  <2>2. FdRef(MyEnd(p))' = FdRef(MyEnd(p)) /\ PipeRef' = k
    BY <1>3, <1>4, <1>8 DEF FdRef, PipeRef
  <2> QED BY <1>1, <1>7, <2>1, <2>2 DEF Snapshot
<1>10. InCall(p)' /\ Halfway(p)' /\ Inherits(p)'
  BY <1>2, <1>7, <1>8 DEF InCall, Halfway, Inherits, Transfer, Check, Forking
<1>11. Paired(p)'
  BY <1>1, <1>4, <1>7 DEF Paired, Loose
<1>12. Kept({p})
  BY <1>1, <1>4 DEF MapType, Kept
<1>13. pc[p] \notin Forking \cup {"embryo"} /\ pc'[p] \notin Forking \cup {"embryo"}
  BY <1>1, <1>7 DEF Forking
<1> QED BY <1>6, <1>9, <1>10, <1>11, <1>12, <1>13, PlainInv DEF Own

-----------------------------------------------------------------------------
(* fork() takes an environment that nobody uses for its child. *)
LEMMA ForkStep ==
  ASSUME MapInv, NEW p \in Proc, NEW c \in Proc, Scheduled(p), fork(p, c)
  PROVE  MapInv'
<1>1. /\ MapType /\ pc[p] = "idle" /\ pc[c] = "unborn" /\ p # c
      /\ Own(p) /\ Own(c)
  BY DEF MapInv, fork
<1>2. PICK f : f = [NoCall EXCEPT !.op = "fork", !.child = c]
  OBVIOUS
<1>3. f \in MapFrame /\ f.child = c
  <2>1. NoCall \in MapFrame
    BY PipeAssumption DEF NoCall, MapFrame, Slot
  <2>2. f \in MapFrame
    BY <1>2, <2>1 DEF MapFrame
  <2> QED BY <1>2, <2>1, <2>2 DEF MapFrame
<1>4. /\ pc' = [pc EXCEPT ![p] = "fork_fd", ![c] = "embryo"]
      /\ frame' = [frame EXCEPT ![p] = f] /\ fdmap' = fdmap /\ datamap' = datamap
  BY <1>2 DEF fork, mapVars
<1>5. MapType'
  BY <1>1, <1>3, <1>4 DEF MapType, Scheduled, Label
<1>6. /\ pc'[p] = "fork_fd" /\ pc'[c] = "embryo" /\ frame'[p] = f
      /\ \A q \in Proc \ {p, c} : pc'[q] = pc[q] /\ frame'[q] = frame[q]
  BY <1>1, <1>4 DEF MapType
<1>7. \A q \in Proc : pc[q] \in Forking => frame[q].child \notin {p, c}
  BY <1>1 DEF MapInv, Own, Inherits
<1>8. ASSUME NEW q \in Proc PROVE Own(q)'
  <2>1. CASE q = p
    <3>1. \A s \in Slot : fdmap[c][s] = NONE /\ ~datamap[c][s]
      BY <1>1 DEF Own, Halfway, Paired, Loose
    <3>2. Inherits(p)'
      BY <1>3, <1>4, <1>6, <3>1 DEF Inherits
    <3>3. InCall(p)' /\ Halfway(p)' /\ Snapshot(p)'
      BY <1>6 DEF InCall, Halfway, Snapshot, Transfer, Check
    <3>4. Paired(p)'
      BY <1>1, <1>4, <1>6 DEF Own, Paired, Loose
    <3> QED BY <2>1, <3>2, <3>3, <3>4 DEF Own
  <2>2. CASE q = c
    <3>1. InCall(c)' /\ Halfway(c)' /\ Snapshot(c)' /\ Inherits(c)'
      BY <1>6 DEF InCall, Halfway, Snapshot, Inherits, Transfer, Check, Forking
    <3>2. Paired(c)'
      BY <1>6 DEF Paired, Loose
    <3> QED BY <2>2, <3>1, <3>2 DEF Own
  <2>3. CASE q \notin {p, c}
    <3>1. Kept({p, c})
      BY <1>4, <1>6 DEF Kept
    <3> QED BY <2>3, <3>1, <1>7, OthersInv
  <2> QED BY <2>1, <2>2, <2>3
<1>9. OneParent'
  <2>1. OneParent
    BY DEF MapInv
  <2>2. \A q \in Proc : pc'[q] \in Forking /\ q # p
                          => pc[q] \in Forking /\ frame'[q] = frame[q] /\ frame[q].child # c
    BY <1>6, <1>7 DEF Forking
  <2> QED BY <2>1, <2>2, <1>3, <1>6 DEF OneParent
<1>10. Raised'
  <2> SUFFICES ASSUME NEW d \in Proc, pc'[d] = "embryo" PROVE HasParent(d)'
    BY DEF Raised
  <2>1. CASE d = c
    BY <2>1, <1>3, <1>6 DEF HasParent, Forking
  <2>2. CASE d # c
    <3>1. pc[d] = "embryo"
      BY <1>6, <2>2
    <3>2. PICK q \in Proc : pc[q] \in Forking /\ frame[q].child = d
      BY <3>1 DEF MapInv, Raised, HasParent
    <3>3. pc'[q] = pc[q] /\ frame'[q] = frame[q]
      BY <3>2, <1>1, <1>6 DEF Forking
    <3> QED BY <3>2, <3>3 DEF HasParent
  <2> QED BY <2>1, <2>2
<1> QED BY <1>5, <1>8, <1>9, <1>10 DEF MapInv

\* A step of a fork under way: the parent p moves on to l, keeps its locals
\* and maps, and adds to what the child c has.
Adds(p, c, l) ==
  /\ c = frame[p].child
  /\ pc' = [pc EXCEPT ![p] = l] /\ frame' = frame
  /\ \A q \in Proc \ {c} : fdmap'[q] = fdmap[q] /\ datamap'[q] = datamap[q]
  /\ \A s \in Slot : /\ fdmap'[c][s] \in {NONE, fdmap[p][s]}
                     /\ datamap'[c][s] => datamap[p][s]
                     /\ l = "fork_data" => fdmap'[c][s] = fdmap[p][s]

(* Such a step keeps the invariant. *)
LEMMA ForkingStep ==
  ASSUME MapInv, NEW p \in Proc, Scheduled(p), pc[p] \in Forking,
         NEW c \in Proc, NEW l \in Forking, Adds(p, c, l), MapType'
  PROVE  MapInv'
<1> USE DEF Adds
<1>1. MapType /\ OneParent /\ Own(p) /\ pc[c] = "embryo" /\ p # c
  BY DEF MapInv, Own, Inherits, Forking
<1>2. /\ pc'[p] = l /\ pc'[c] = "embryo" /\ fdmap'[p] = fdmap[p] /\ datamap'[p] = datamap[p]
      /\ \A q \in Proc \ {p} : pc'[q] = pc[q]
  BY <1>1 DEF MapType
<1>3. \A q \in Proc \ {p} : pc[q] \in Forking => frame[q].child \notin {p, c}
  BY <1>1 DEF MapInv, Own, Inherits, OneParent, Forking
<1>4. ASSUME NEW q \in Proc PROVE Own(q)'
  <2>1. CASE q = p
    <3>1. Inherits(p)'
      BY <1>2 DEF Inherits
    <3>2. InCall(p)' /\ Halfway(p)' /\ Snapshot(p)'
      BY <1>2 DEF InCall, Halfway, Snapshot, Transfer, Check, Forking
    <3>3. Paired(p)'
      BY <1>1, <1>2 DEF Own, Paired, Loose, Forking
    <3> QED BY <2>1, <3>1, <3>2, <3>3 DEF Own
  <2>2. CASE q = c
    <3>1. InCall(c)' /\ Halfway(c)' /\ Snapshot(c)' /\ Inherits(c)'
      BY <1>2 DEF InCall, Halfway, Snapshot, Inherits, Transfer, Check, Forking
    <3>2. Paired(c)'
      BY <1>2 DEF Paired, Loose
    <3> QED BY <2>2, <3>1, <3>2 DEF Own
  <2>3. CASE q \notin {p, c}
    <3>1. Kept({p, c})
      BY <1>2 DEF Kept
    <3> QED BY <2>3, <3>1, <1>3, OthersInv
  <2> QED BY <2>1, <2>2, <2>3
<1>5. \A q \in Proc : pc'[q] \in Forking <=> pc[q] \in Forking
  BY <1>2
<1>6. OneParent'
  BY <1>1, <1>5 DEF OneParent
<1>7. Raised'
  <2> SUFFICES ASSUME NEW d \in Proc, pc'[d] = "embryo" PROVE HasParent(d)'
    BY DEF Raised
  <2>1. pc[d] = "embryo"
    BY <1>2 DEF Forking
  <2>2. HasParent(d)
    BY <2>1 DEF MapInv, Raised
  <2> QED BY <2>2, <1>5 DEF HasParent
<1> QED BY <1>4, <1>6, <1>7 DEF MapInv

(* The Fd pages, in the order of the descriptors. *)
LEMMA ForkFdStep ==
  ASSUME MapInv, NEW p \in Proc, Scheduled(p), fork_fd(p)
  PROVE  MapInv'
<1>1. MapType /\ pc[p] = "fork_fd" /\ pc[p] \in Forking /\ Inherits(p)
  BY DEF MapInv, Own, fork_fd, Forking
<1>2. PICK c \in Proc : c = frame[p].child
  BY <1>1 DEF MapType, MapFrame
<1>3. /\ pc[c] = "embryo" /\ p # c /\ datamap' = datamap /\ frame' = frame
      /\ \A s \in Slot : /\ fdmap[c][s] \in {NONE, fdmap[p][s]}
                         /\ datamap[c][s] => datamap[p][s]
  BY <1>1, <1>2 DEF Inherits, fork_fd, Goto
<1>4. CASE FdsToShare(p) = {} /\ Goto(p, "fork_data") /\ UNCHANGED fdmap
  <2>1. \A s \in Slot : fdmap[c][s] = fdmap[p][s]
    BY <1>2, <1>3, <1>4 DEF FdsToShare
  <2>2. MapType'
    BY <1>1, <1>3, <1>4 DEF MapType, Scheduled, Label, Goto
  <2>3. Adds(p, c, "fork_data")
    BY <1>2, <1>3, <1>4, <2>1 DEF Goto, Adds
  <2>4. "fork_data" \in Forking
    BY DEF Forking
  <2> QED BY <1>1, <2>2, <2>3, <2>4, ForkingStep
<1>5. CASE \E s \in FdsToShare(p) :
             fdmap' = [fdmap EXCEPT ![frame[p].child][s] = fdmap[p][s]] /\ UNCHANGED <<pc, frame>>
  <2>1. PICK s \in Slot : fdmap' = [fdmap EXCEPT ![c][s] = fdmap[p][s]] /\ pc' = pc
    BY <1>2, <1>5 DEF FdsToShare
  <2>2. MapType'
    BY <1>1, <1>3, <2>1 DEF MapType, Scheduled
  <2>3. /\ \A q \in Proc \ {c} : fdmap'[q] = fdmap[q]
        /\ \A t \in Slot : fdmap'[c][t] \in {NONE, fdmap[p][t]}
    BY <1>1, <1>3, <2>1 DEF MapType
  <2>4. pc' = [pc EXCEPT ![p] = "fork_fd"]
    BY <1>1, <2>1 DEF MapType
  <2>5. Adds(p, c, "fork_fd")
    BY <1>2, <1>3, <2>3, <2>4 DEF Adds
  <2>6. "fork_fd" \in Forking
    BY DEF Forking
  <2> QED BY <1>1, <2>2, <2>5, <2>6, ForkingStep
<1> QED BY <1>4, <1>5 DEF fork_fd

(* The Pipe page at each descriptor; then the child has what its parent    *)
(* has, and runs.                                                          *)
LEMMA ForkDataStep ==
  ASSUME MapInv, NEW p \in Proc, Scheduled(p), fork_data(p)
  PROVE  MapInv'
<1>1. MapType /\ pc[p] = "fork_data" /\ pc[p] \in Forking /\ Inherits(p) /\ Paired(p)
  BY DEF MapInv, Own, fork_data, Forking
<1>2. PICK c \in Proc : c = frame[p].child
  BY <1>1 DEF MapType, MapFrame
<1>3. /\ pc[c] = "embryo" /\ p # c /\ fdmap' = fdmap
      /\ \A s \in Slot : /\ fdmap[c][s] = fdmap[p][s]
                         /\ datamap[c][s] => datamap[p][s]
  BY <1>1, <1>2 DEF Inherits, fork_data
<1>4. CASE \E s \in DataToShare(p) :
             datamap' = [datamap EXCEPT ![frame[p].child][s] = TRUE] /\ UNCHANGED <<pc, frame>>
  <2>1. PICK s \in Slot : /\ datamap' = [datamap EXCEPT ![c][s] = TRUE] /\ datamap[p][s]
                          /\ pc' = pc /\ frame' = frame
    BY <1>2, <1>4 DEF DataToShare
  <2>2. MapType'
    BY <1>1, <1>3, <2>1 DEF MapType, Scheduled
  <2>3. /\ \A q \in Proc \ {c} : datamap'[q] = datamap[q]
        /\ \A t \in Slot : datamap'[c][t] => datamap[p][t]
    BY <1>1, <1>3, <2>1 DEF MapType
  <2>4. pc' = [pc EXCEPT ![p] = "fork_data"]
    BY <1>1, <2>1 DEF MapType
  <2>5. Adds(p, c, "fork_data")
    BY <1>2, <1>3, <2>1, <2>3, <2>4 DEF Adds
  <2>6. "fork_data" \in Forking
    BY DEF Forking
  <2> QED BY <1>1, <2>2, <2>5, <2>6, ForkingStep
<1>5. CASE /\ DataToShare(p) = {}
           /\ pc' = [pc EXCEPT ![p] = "idle", ![frame[p].child] = "idle"]
           /\ frame' = [frame EXCEPT ![p] = NoCall]
           /\ UNCHANGED datamap
  <2>1. NoCall \in MapFrame
    BY PipeAssumption DEF NoCall, MapFrame, Slot
  <2>2. MapType'
    BY <1>1, <1>2, <1>3, <1>5, <2>1 DEF MapType, Scheduled, Label
  <2>3. /\ pc'[p] = "idle" /\ pc'[c] = "idle"
        /\ \A q \in Proc \ {p, c} : pc'[q] = pc[q] /\ frame'[q] = frame[q]
    BY <1>1, <1>2, <1>5 DEF MapType
  <2>4. \A q \in Proc \ {p} : pc[q] \in Forking => frame[q].child \notin {p, c}
    BY <1>1, <1>2 DEF MapInv, Own, Inherits, OneParent, Forking
  <2>5. \A s \in Slot : datamap[c][s] <=> datamap[p][s]
    BY <1>2, <1>3, <1>5 DEF DataToShare
  <2>6. \A s \in Slot : datamap[p][s] <=> fdmap[p][s] # NONE
    BY <1>1 DEF Paired, Loose
  <2>7. ASSUME NEW q \in Proc PROVE Own(q)'
    <3>1. CASE q \in {p, c}
      <4>1. pc'[q] = "idle"
        BY <2>3, <3>1
      <4>2. InCall(q)' /\ Halfway(q)' /\ Snapshot(q)' /\ Inherits(q)'
        BY <4>1 DEF InCall, Halfway, Snapshot, Inherits, Transfer, Check, Forking
      <4>3. \A s \in Slot : datamap'[q][s] <=> fdmap'[q][s] # NONE
        BY <1>3, <1>5, <2>5, <2>6, <3>1
      <4>4. Paired(q)'
        BY <4>3 DEF Paired
      <4> QED BY <4>2, <4>4 DEF Own
    <3>2. CASE q \notin {p, c}
      <4>1. Kept({p, c})
        BY <1>3, <1>5, <2>3 DEF Kept
      <4> QED BY <3>2, <4>1, <2>4, OthersInv
    <3> QED BY <3>1, <3>2
  <2>8. OneParent'
    <3>1. OneParent
      BY DEF MapInv
    <3>2. \A q \in Proc : pc'[q] \in Forking => pc[q] \in Forking /\ frame'[q] = frame[q]
      BY <2>3 DEF Forking
    <3> QED BY <3>1, <3>2 DEF OneParent
  <2>9. Raised'
    <3> SUFFICES ASSUME NEW d \in Proc, pc'[d] = "embryo" PROVE HasParent(d)'
      BY DEF Raised
    <3>1. pc[d] = "embryo" /\ d # c
      BY <2>3
    <3>2. PICK q \in Proc : pc[q] \in Forking /\ frame[q].child = d
      BY <3>1 DEF MapInv, Raised, HasParent
    <3>3. q \notin {p, c}
      BY <1>2, <1>3, <3>1, <3>2 DEF Forking
    <3>4. pc'[q] = pc[q] /\ frame'[q] = frame[q]
      BY <2>3, <3>3
    <3> QED BY <3>2, <3>4 DEF HasParent
  <2> QED BY <2>2, <2>7, <2>8, <2>9 DEF MapInv
<1> QED BY <1>4, <1>5 DEF fork_data

-----------------------------------------------------------------------------
\* One of the calls that start at "idle".
Starts(p) ==
  \/ \E s \in Slot : close(p, s) \/ pipe_is_closed(p, s)
  \/ \E s \in Slot, n \in 1..MaxRequest : read(p, s, n) \/ write(p, s, n)
  \/ \E s, t \in Slot : dup(p, s, t)
  \/ exit(p)

(* What a step does to the locals of p, by the operator that says so. *)
LEMMA Moves ==
  ASSUME MapType, NEW p \in Proc
  PROVE  /\ NoCall \in MapFrame
         /\ Return(p) => To(p, "idle", NoCall)
         /\ \A l : Goto(p, l) => To(p, l, frame[p])
         /\ \A l : Discard(p, l)
                     => To(p, l, [frame[p] EXCEPT !.fd_ref = 0, !.pipe_ref = 0])
         /\ \A l : Half(p, l) =>
              \/ FirstHalf(p) /\ To(p, l, [frame[p] EXCEPT !.half = 1])
              \/ ~FirstHalf(p) /\ frame[p].i + 1 = frame[p].n /\ Return(p)
              \/ /\ ~FirstHalf(p) /\ frame[p].i + 1 # frame[p].n
                 /\ To(p, frame[p].op, [frame[p] EXCEPT !.i = @ + 1, !.half = 0])
<1>1. NoCall \in MapFrame
  BY PipeAssumption DEF NoCall, MapFrame, Slot
<1>2. ASSUME NEW l, Goto(p, l) PROVE To(p, l, frame[p])
  BY <1>2 DEF Goto, To, MapType
<1>3. ASSUME NEW l, Discard(p, l)
      PROVE  To(p, l, [frame[p] EXCEPT !.fd_ref = 0, !.pipe_ref = 0])
  <2>1. frame \in [Proc -> MapFrame]
    BY DEF MapType
  <2> QED BY <1>3, <2>1 DEF Discard, To
<1>4. ASSUME NEW l, Half(p, l)
      PROVE  \/ FirstHalf(p) /\ To(p, l, [frame[p] EXCEPT !.half = 1])
             \/ ~FirstHalf(p) /\ frame[p].i + 1 = frame[p].n /\ Return(p)
             \/ /\ ~FirstHalf(p) /\ frame[p].i + 1 # frame[p].n
                /\ To(p, frame[p].op, [frame[p] EXCEPT !.i = @ + 1, !.half = 0])
  <2>1. frame \in [Proc -> MapFrame]
    BY DEF MapType
  <2> QED BY <1>4, <2>1 DEF Half, To
<1> QED BY <1>1, <1>2, <1>3, <1>4 DEF Return, To

(* The calls begin at places that fit them. *)
LEMMA StartStep ==
  ASSUME MapInv, NEW p \in Proc, Scheduled(p), Starts(p)
  PROVE  MapInv'
<1>1. MapType /\ fdmap[p] \in [Slot -> End \cup {NONE}] /\ NoCall \in MapFrame
  BY Moves DEF MapInv, MapType
<1>2. pc[p] = "idle" /\ UNCHANGED <<fdmap, datamap>>
  BY DEF Starts, close, pipe_is_closed, read, write, dup, exit, Call, mapVars
<1>3. pc[p] \notin Forking \cup {"unborn", "embryo", "close_data", "dup_data"}
  BY <1>2 DEF Forking
<1> SUFFICES \E l \in Quiet : \E f : Fits(p, l, f) /\ To(p, l, f)
  BY <1>2, <1>3, QuietStep
<1>4. ASSUME NEW s \in Slot, close(p, s)
      PROVE  \E l \in Quiet : \E f : Fits(p, l, f) /\ To(p, l, f)
  <2>1. PICK f : f = [NoCall EXCEPT !.op = "close", !.fd = s]
    OBVIOUS
  <2>2. f \in MapFrame /\ f.op = "close"
    BY <1>1, <2>1 DEF MapFrame
  <2>3. Fits(p, "close_fd", f)
    BY <2>2 DEF Fits, Transfer
  <2>4. To(p, "close_fd", f)
    BY <1>4, <2>1 DEF close, Call, To
  <2> QED BY <2>3, <2>4 DEF Quiet
<1>5. ASSUME NEW s \in Slot, pipe_is_closed(p, s)
      PROVE  \E l \in Quiet : \E f : Fits(p, l, f) /\ To(p, l, f)
  <2>1. PICK f : f = [NoCall EXCEPT !.op = "poll", !.fd = s]
    OBVIOUS
  <2>2. f \in MapFrame /\ f.op = "poll" /\ f.fd = s
    BY <1>1, <2>1 DEF MapFrame, CallOp
  <2>3. Fits(p, "chk_fd", f)
    BY <1>1, <1>5, <2>2 DEF Fits, Transfer, CallOp, pipe_is_closed
  <2>4. To(p, "chk_fd", f)
    BY <1>5, <2>1 DEF pipe_is_closed, Call, To
  <2> QED BY <2>3, <2>4 DEF Quiet
<1>6. ASSUME NEW s \in Slot, NEW n \in 1..MaxRequest, read(p, s, n)
      PROVE  \E l \in Quiet : \E f : Fits(p, l, f) /\ To(p, l, f)
  <2>1. PICK f : f = [NoCall EXCEPT !.op = "read", !.fd = s, !.n = n]
    OBVIOUS
  <2>2. n \in Int
    BY PipeAssumption
  <2>3. f \in MapFrame /\ f.op = "read" /\ f.fd = s
    BY <1>1, <2>1, <2>2 DEF MapFrame, CallOp
  <2>4. Fits(p, "read", f)
    BY <1>1, <1>6, <2>3 DEF Fits, Transfer, CallOp, read, End
  <2>5. To(p, "read", f)
    BY <1>6, <2>1 DEF read, Call, To
  <2> QED BY <2>4, <2>5 DEF Quiet, Transfer
<1>7. ASSUME NEW s \in Slot, NEW n \in 1..MaxRequest, write(p, s, n)
      PROVE  \E l \in Quiet : \E f : Fits(p, l, f) /\ To(p, l, f)
  <2>1. PICK f : f = [NoCall EXCEPT !.op = "write", !.fd = s, !.n = n]
    OBVIOUS
  <2>2. n \in Int
    BY PipeAssumption
  <2>3. f \in MapFrame /\ f.op = "write" /\ f.fd = s
    BY <1>1, <2>1, <2>2 DEF MapFrame, CallOp
  <2>4. Fits(p, "write", f)
    BY <1>1, <1>7, <2>3 DEF Fits, Transfer, CallOp, write, End
  <2>5. To(p, "write", f)
    BY <1>7, <2>1 DEF write, Call, To
  <2> QED BY <2>4, <2>5 DEF Quiet, Transfer
<1>8. ASSUME NEW s \in Slot, NEW t \in Slot, dup(p, s, t)
      PROVE  \E l \in Quiet : \E f : Fits(p, l, f) /\ To(p, l, f)
  <2>1. PICK f : f = [NoCall EXCEPT !.op = "dup", !.fd = s, !.to = t]
    OBVIOUS
  <2>2. f \in MapFrame /\ f.op = "dup" /\ f.to = t
    BY <1>1, <2>1 DEF MapFrame
  <2>3. PICK l \in {"dup_fd", "close_fd"} : /\ l = "dup_fd" => fdmap[p][t] = NONE
                                            /\ To(p, l, f)
    BY <1>8, <2>1 DEF dup, Call, To
  <2>4. Fits(p, l, f)
    BY <2>2, <2>3 DEF Fits, Transfer
  <2> QED BY <2>3, <2>4 DEF Quiet
<1>9. CASE exit(p)
  <2>1. PICK f : f = [NoCall EXCEPT !.op = "exit"]
    OBVIOUS
  <2>2. f \in MapFrame /\ f.op = "exit"
    BY <1>1, <2>1 DEF MapFrame
  <2>3. Fits(p, "close_all", f)
    BY <2>2 DEF Fits, Transfer
  <2>4. To(p, "close_all", f)
    BY <1>9, <2>1 DEF exit, Call, To
  <2> QED BY <2>3, <2>4 DEF Quiet
<1> QED BY <1>4, <1>5, <1>6, <1>7, <1>8, <1>9 DEF Starts

\* The steps of read() and write() between the tests for a closed pipe.
Streams(p) ==
  \/ read_test(p) \/ get_byte(p) \/ get_pos(p)
  \/ write_test(p) \/ put_byte(p) \/ put_pos(p)

(* The tests and the transfers stay inside the call. *)
LEMMA StreamStep ==
  ASSUME MapInv, NEW p \in Proc, Scheduled(p), Streams(p) \/ chk_cmp(p) \/ close_all(p)
  PROVE  MapInv'
<1>1. MapType /\ frame[p] \in MapFrame /\ NoCall \in MapFrame /\ InCall(p)
  BY Moves DEF MapInv, MapType, Own
<1>2. /\ pc[p] \in Transfer \cup {"chk_cmp", "close_all"} /\ UNCHANGED <<fdmap, datamap>>
      /\ Streams(p) => pc[p] \in Transfer
  BY DEF Streams, read_test, get_byte, get_pos, write_test, put_byte, put_pos, chk_cmp,
         close_all, mapVars, Transfer
<1>3. pc[p] \notin Forking \cup {"unborn", "embryo", "close_data", "dup_data"}
  BY <1>2 DEF Forking, Transfer
<1> SUFFICES \E l \in Quiet : \E f : Fits(p, l, f) /\ To(p, l, f)
  BY <1>2, <1>3, QuietStep
<1>4. CASE Return(p)
  <2>1. Fits(p, "idle", NoCall)
    BY <1>1 DEF Fits, Transfer
  <2> QED BY <1>1, <1>4, <2>1, Moves DEF Quiet
<1>5. ASSUME pc[p] \in Transfer \cup {"chk_cmp"},
             NEW l \in Transfer \cup {"chk_fd"}, NEW f \in MapFrame, To(p, l, f),
             f.op = frame[p].op, f.fd = frame[p].fd,
             l \in Transfer => frame[p].op \in {"read", "write"}
      PROVE  \E k \in Quiet : \E g : Fits(p, k, g) /\ To(p, k, g)
  <2>1. frame[p].op \in CallOp /\ fdmap[p][frame[p].fd] \in End
    BY <1>1, <1>5 DEF InCall, MyEnd, Check
  <2>2. Fits(p, l, f)
    BY <1>5, <2>1 DEF Fits, Transfer
  <2> QED BY <1>5, <2>2 DEF Quiet
<1>6. pc[p] \in Transfer => frame[p].op \in {"read", "write"}
  BY <1>1 DEF InCall
<1>7. CASE read_test(p) \/ write_test(p)
  <2>1. CASE \E l \in Transfer \cup {"chk_fd"} : Goto(p, l)
    BY <1>1, <1>2, <1>5, <1>6, <1>7, <2>1, Moves DEF Streams
  <2> QED BY <1>4, <1>7, <2>1 DEF read_test, write_test, Transfer
<1>8. CASE get_byte(p) \/ get_pos(p) \/ put_byte(p) \/ put_pos(p)
  <2>1. PICK l \in Transfer : Half(p, l)
    BY <1>8 DEF get_byte, get_pos, put_byte, put_pos, Transfer
  <2>2. frame[p].i + 1 \in Int
    BY <1>1 DEF MapFrame
  <2>3. PICK f : f = [frame[p] EXCEPT !.half = 1]
    OBVIOUS
  <2>4. PICK g : g = [frame[p] EXCEPT !.i = @ + 1, !.half = 0]
    OBVIOUS
  <2>5. f \in MapFrame /\ f.op = frame[p].op /\ f.fd = frame[p].fd
    BY <1>1, <2>3 DEF MapFrame
  <2>6. g \in MapFrame /\ g.op = frame[p].op /\ g.fd = frame[p].fd
    BY <1>1, <2>2, <2>4 DEF MapFrame
  <2>7. pc[p] \in Transfer /\ frame[p].op \in {"read", "write"}
    BY <1>2, <1>6, <1>8 DEF Streams
  <2>8. CASE To(p, l, f)
    BY <2>5, <2>7, <2>8, <1>5
  <2>9. CASE To(p, frame[p].op, g)
    BY <2>6, <2>7, <2>9, <1>5 DEF Transfer
  <2> QED BY <1>1, <1>4, <2>1, <2>3, <2>4, <2>8, <2>9, Moves
<1>9. CASE chk_cmp(p)
  <2>1. PICK f : f = [frame[p] EXCEPT !.fd_ref = 0, !.pipe_ref = 0]
    OBVIOUS
  <2>2. f \in MapFrame /\ f.op = frame[p].op /\ f.fd = frame[p].fd
    BY <1>1, <2>1 DEF MapFrame
  <2>3. pc[p] = "chk_cmp" /\ frame[p].op \in CallOp
    BY <1>1, <1>9 DEF chk_cmp, InCall, Check
  <2>4. CASE Discard(p, "chk_fd")
    <3>1. To(p, "chk_fd", f)
      BY <1>1, <2>1, <2>4, Moves
    <3> QED BY <2>2, <2>3, <3>1, <1>5 DEF Transfer
  <2>5. CASE frame[p].op # "poll" /\ Discard(p, frame[p].op)
    <3>1. To(p, frame[p].op, f)
      BY <1>1, <2>1, <2>5, Moves
    <3>2. frame[p].op \in {"read", "write"} /\ frame[p].op \in Transfer
      BY <2>3, <2>5 DEF CallOp, Transfer
    <3> QED BY <2>2, <2>3, <3>1, <3>2, <1>5
  <2> QED BY <1>4, <1>9, <2>4, <2>5 DEF chk_cmp
<1>10. CASE close_all(p)
  <2>1. CASE pc' = [pc EXCEPT ![p] = "dead"] /\ frame' = [frame EXCEPT ![p] = NoCall]
    <3>1. Fits(p, "dead", NoCall)
      BY <1>1 DEF Fits, Transfer
    <3> QED BY <2>1, <3>1 DEF Quiet, To
  <2>2. ASSUME NEW s \in Slot, pc' = [pc EXCEPT ![p] = "close_fd"],
               frame' = [frame EXCEPT ![p].fd = s]
        PROVE  \E l \in Quiet : \E f : Fits(p, l, f) /\ To(p, l, f)
    <3>1. PICK f : f = [frame[p] EXCEPT !.fd = s]
      OBVIOUS
    <3>2. f \in MapFrame /\ f.op = frame[p].op
      BY <1>1, <3>1 DEF MapFrame
    <3>3. frame[p].op = "exit"
      BY <1>1, <1>10 DEF InCall, close_all
    <3>4. frame \in [Proc -> MapFrame]
      BY <1>1 DEF MapType
    <3>5. To(p, "close_fd", f)
      BY <2>2, <3>1, <3>4 DEF To
    <3>6. Fits(p, "close_fd", f)
      BY <3>2, <3>3 DEF Fits, Transfer
    <3> QED BY <3>5, <3>6 DEF Quiet
  <2> QED BY <1>10, <2>1, <2>2 DEF close_all, OpenSlots
<1> QED BY <1>7, <1>8, <1>9, <1>10 DEF Streams

(* Every step of the specification preserves the invariant. *)
LEMMA MapNext == ASSUME MapInv, [Next]_vars PROVE MapInv'
<1>1. ASSUME NEW p \in Proc, UseStep(p) \/ PollStep(p) \/ (Share(p) /\ Scheduled(p))
      PROVE  MapInv'
  <2>1. Scheduled(p)
    BY <1>1 DEF UseStep, PollStep
  <2>2. CASE Starts(p)
    BY <2>1, <2>2, StartStep
  <2>3. CASE \E c \in Proc : fork(p, c)
    BY <2>1, <2>3, ForkStep
  <2>4. CASE Continue(p)
    BY <2>1, <2>4, CloseFdStep, CloseDataStep, DupFdStep, DupDataStep, ForkFdStep,
       ForkDataStep, ChkFdStep, ChkPipeStep, StreamStep DEF Continue, Streams
  <2> QED BY <1>1, <2>2, <2>3, <2>4 DEF UseStep, PollStep, Share, Use, Starts
<1>2. CASE UNCHANGED vars
  <2>1. UNCHANGED <<fdmap, datamap, pc, frame, rescheduled>>
    BY <1>2 DEF vars, mapVars
  <2>2. MapType' /\ OneParent' /\ Raised'
    BY <2>1 DEF MapInv, MapType, OneParent, Raised, HasParent
  <2>3. ASSUME NEW p \in Proc PROVE Own(p)'
    <3>1. Own(p)
      BY DEF MapInv
    <3>2. Closing(p)' = Closing(p) /\ MyEnd(p)' = MyEnd(p) /\ Loose(p)' = Loose(p)
      BY <2>1 DEF Closing, MyEnd, Loose
    <3>3. InCall(p)' /\ Halfway(p)' /\ Paired(p)' /\ Inherits(p)'
      BY <2>1, <3>1, <3>2 DEF Own, InCall, Halfway, Paired, Inherits
    <3>4. FdRef(MyEnd(p))' = FdRef(MyEnd(p)) /\ PipeRef' = PipeRef
      BY <2>1, <3>2 DEF FdRef, PipeRef
    <3>5. Snapshot(p)'
      BY <2>1, <3>1, <3>4 DEF Own, Snapshot
    <3> QED BY <3>3, <3>5 DEF Own
  <2> QED BY <2>2, <2>3 DEF MapInv
<1> QED BY <1>1, <1>2 DEF Next

(* Using and closing never leads into dup() or fork(). *)
LEMMA UsedNext ==
  ASSUME MapInv, OnlyUsed, [\E p \in Proc : UseStep(p) \/ PollStep(p)]_vars
  PROVE  OnlyUsed'
<1>0. MapType
  BY DEF MapInv
<1>1. ASSUME NEW p \in Proc, NEW l \in UseLabel, NEW f, f.op # "dup", To(p, l, f)
      PROVE  OnlyUsed'
  BY <1>0, <1>1 DEF OnlyUsed, MapType, To
<1>2. ASSUME NEW p \in Proc, UseStep(p) \/ PollStep(p) PROVE OnlyUsed'
  <2>1. pc[p] \in UseLabel /\ frame[p].op # "dup" /\ frame[p] \in MapFrame /\ NoCall \in MapFrame
    BY <1>0, Moves DEF OnlyUsed, MapType
  <2>2. CASE Return(p)
    BY <2>2, <1>0, <1>1, Moves DEF NoCall, UseLabel, Label
  <2>3. CASE \E l \in UseLabel : Goto(p, l)
    BY <2>1, <2>3, <1>0, <1>1, Moves
  <2>4. CASE \E s \in Slot : close(p, s) \/ pipe_is_closed(p, s)
    <3>1. PICK s \in Slot, l \in UseLabel, op \in {"close", "poll"} :
            To(p, l, [NoCall EXCEPT !.op = op, !.fd = s])
      BY <2>4 DEF close, pipe_is_closed, Call, To, UseLabel, Label
    <3>2. [NoCall EXCEPT !.op = op, !.fd = s].op = op
      BY <2>1 DEF MapFrame
    <3> QED BY <3>1, <3>2, <1>1
  <2>5. CASE \E s \in Slot, n \in 1..MaxRequest : read(p, s, n) \/ write(p, s, n)
    <3>1. PICK s \in Slot, n \in 1..MaxRequest, l \in UseLabel, op \in {"read", "write"} :
            To(p, l, [NoCall EXCEPT !.op = op, !.fd = s, !.n = n])
      BY <2>5 DEF read, write, Call, To, UseLabel, Label
    <3>2. [NoCall EXCEPT !.op = op, !.fd = s, !.n = n].op = op
      BY <2>1 DEF MapFrame
    <3> QED BY <3>1, <3>2, <1>1
  <2>6. CASE exit(p)
    <3>1. To(p, "close_all", [NoCall EXCEPT !.op = "exit"])
      BY <2>6 DEF exit, Call, To
    <3>2. [NoCall EXCEPT !.op = "exit"].op = "exit"
      BY <2>1 DEF MapFrame
    <3> QED BY <3>1, <3>2, <1>1 DEF UseLabel, Label
  <2>7. CASE close_fd(p) \/ close_data(p)
    BY <2>1, <2>2, <2>3, <2>7 DEF close_fd, close_data, UseLabel, Label
  <2>8. CASE dup_fd(p) \/ dup_data(p) \/ fork_fd(p) \/ fork_data(p)
    BY <2>1, <2>8 DEF dup_fd, dup_data, fork_fd, fork_data, UseLabel
  <2>9. CASE close_all(p)
    <3>1. CASE To(p, "dead", NoCall)
      BY <3>1, <1>1 DEF NoCall, UseLabel, Label
    <3>2. ASSUME NEW s, pc' = [pc EXCEPT ![p] = "close_fd"], frame' = [frame EXCEPT ![p].fd = s]
          PROVE  OnlyUsed'
      <4>1. frame \in [Proc -> MapFrame]
        BY <1>0 DEF MapType
      <4>2. To(p, "close_fd", [frame[p] EXCEPT !.fd = s])
        BY <3>2, <4>1 DEF To
      <4>3. [frame[p] EXCEPT !.fd = s].op = frame[p].op
        BY <2>1 DEF MapFrame
      <4> QED BY <4>2, <4>3, <2>1, <1>1 DEF UseLabel, Label
    <3> QED BY <2>9, <3>1, <3>2 DEF close_all, To
  <2>10. CASE chk_fd(p) \/ chk_pipe(p)
    <3>1. frame \in [Proc -> MapFrame] /\ pc \in [Proc -> Label]
      BY <1>0 DEF MapType
    <3>2. PICK l \in {"chk_pipe", "chk_cmp"} : pc' = [pc EXCEPT ![p] = l]
      BY <2>10 DEF chk_fd, chk_pipe
    <3>3. \A q \in Proc : frame'[q].op = frame[q].op
      <4>1. CASE chk_fd(p)
        BY <3>1, <4>1 DEF chk_fd, MapFrame
      <4>2. CASE chk_pipe(p)
        BY <3>1, <4>2 DEF chk_pipe, MapFrame
      <4> QED BY <2>10, <4>1, <4>2
    <3>4. \A q \in Proc : pc'[q] \in {pc[q], l}
      BY <3>1, <3>2
    <3> QED BY <3>2, <3>3, <3>4 DEF OnlyUsed, UseLabel, Label
  <2>11. CASE chk_cmp(p)
    <3>1. ASSUME NEW l, Discard(p, l), l \in {"chk_fd", frame[p].op}, l \in Label
          PROVE  OnlyUsed'
      <4>1. To(p, l, [frame[p] EXCEPT !.fd_ref = 0, !.pipe_ref = 0])
        BY <1>0, <3>1, Moves
      <4>2. [frame[p] EXCEPT !.fd_ref = 0, !.pipe_ref = 0].op = frame[p].op
        BY <2>1 DEF MapFrame
      <4>3. l \in UseLabel
        BY <2>1, <3>1 DEF UseLabel, Label, MapFrame, CallOp
      <4> QED BY <4>1, <4>2, <4>3, <2>1, <1>1
    <3>2. frame[p].op # "poll" => frame[p].op \in Label
      BY <2>11 DEF MapInv, Own, InCall, chk_cmp, Check, CallOp, Label
    <3>3. "chk_fd" \in Label
      BY DEF Label
    <3>4. CASE Discard(p, "chk_fd")
      BY <3>1, <3>3, <3>4
    <3>5. CASE frame[p].op # "poll" /\ Discard(p, frame[p].op)
      BY <3>1, <3>2, <3>5
    <3> QED BY <2>2, <2>11, <3>4, <3>5 DEF chk_cmp
  <2>12. CASE read_test(p) \/ write_test(p)
    BY <2>2, <2>3, <2>12 DEF read_test, write_test, UseLabel, Label
  <2>13. CASE get_byte(p) \/ get_pos(p) \/ put_byte(p) \/ put_pos(p)
    <3>1. PICK l \in Transfer : Half(p, l)
      BY <2>13 DEF get_byte, get_pos, put_byte, put_pos, Transfer
    <3>2. l \in UseLabel /\ frame[p].op \in UseLabel
      BY <2>13 DEF MapInv, Own, InCall, get_byte, get_pos, put_byte, put_pos, Transfer,
                   UseLabel, Label
    <3>3. [frame[p] EXCEPT !.half = 1].op = frame[p].op
      BY <2>1 DEF MapFrame
    <3>4. [frame[p] EXCEPT !.i = @ + 1, !.half = 0].op = frame[p].op
      BY <2>1 DEF MapFrame
    <3>5. CASE To(p, l, [frame[p] EXCEPT !.half = 1])
      BY <2>1, <3>2, <3>3, <3>5, <1>1
    <3>6. CASE To(p, frame[p].op, [frame[p] EXCEPT !.i = @ + 1, !.half = 0])
      BY <2>1, <3>2, <3>4, <3>6, <1>1
    <3> QED BY <1>0, <2>2, <3>1, <3>5, <3>6, Moves
  <2> QED
    BY <1>2, <2>4, <2>5, <2>6, <2>7, <2>8, <2>9, <2>10, <2>11, <2>12, <2>13
       DEF UseStep, PollStep, Use, Continue
<1>3. CASE UNCHANGED vars
  BY <1>3 DEF OnlyUsed, vars
<1> QED BY <1>2, <1>3

(***************************************************************************)
(* While the ends of a pipe are only used and closed, pipe_is_closed()     *)
(* never claims that the pipe is closed while the other end is open.       *)
(***************************************************************************)
THEOREM ClosedPipeIsClosed == UseSpec => []ClosedIsReal
<1>1. ForkedInit => MapInv /\ OnlyUsed
  <2> SUFFICES ASSUME ForkedInit PROVE MapInv /\ OnlyUsed
    OBVIOUS
  <2>1. MapInv
    BY MapInit DEF ForkedInit
  <2>2. OnlyUsed
    BY DEF ForkedInit, InitWith, OnlyUsed, NoCall, UseLabel, Label
  <2> QED BY <2>1, <2>2
<1>2. ASSUME MapInv, OnlyUsed, [\E p \in Proc : UseStep(p) \/ PollStep(p)]_vars
      PROVE  MapInv' /\ OnlyUsed'
  <2>1. [Next]_vars
    BY <1>2 DEF Next
  <2> QED BY <1>2, <2>1, MapNext, UsedNext
<1> QED BY <1>1, <1>2, InvGivesReal, PTL DEF UseSpec

(***************************************************************************)
(* Duplicating and forking included: once the other end is closed          *)
(* everywhere and nobody is halfway through a change of the descriptors,   *)
(* _pipe_is_closed() says so.                                              *)
(***************************************************************************)
THEOREM ClosedPipeIsSeen == Spec => []ClosedIsSeen
<1>1. Init => MapInv
  BY PipeAssumption, MapInit DEF Init
<1>2. MapInv /\ [Next]_vars => MapInv'
  BY MapNext
<1> QED BY <1>1, <1>2, InvGivesSeen, PTL DEF Spec

-----------------------------------------------------------------------------
(***************************************************************************)
(* The ring buffer.  Whatever the order of the two halves of a transfer,   *)
(* the positions stay within BY2PIPE of each other and p_buf holds the     *)
(* last BY2PIPE bytes stored; where a load falls in that window is all     *)
(* that the order decides.                                                 *)
(***************************************************************************)
Moving == {"get_byte", "get_pos", "put_byte", "put_pos"}

\* Who transfers, and how far the current transfer is.
Streaming(p) ==
  /\ frame[p].op = "read" => p = Reader
  /\ frame[p].op = "write" => p = Writer
  /\ frame[p].op \in {"read", "write"} => frame[p].i < frame[p].n
  /\ pc[p] \in {"read", "get_byte", "get_pos"} => frame[p].op = "read"
  /\ pc[p] \in {"write", "put_byte", "put_pos"} => frame[p].op = "write"
  /\ pc[p] \in Check => frame[p].op \in CallOp
  /\ frame[p].half = 1 => pc[p] \in Moving

\* The bytes loaded so far.
Loaded ==
  IF frame[Reader].half = 0 THEN p_rpos
  ELSE IF pc[Reader] = "get_pos" THEN p_rpos + 1
  ELSE IF pc[Reader] = "get_byte" THEN p_rpos - 1
  ELSE p_rpos

\* p has still to move its position.
ToMove(p, labels) == pc[p] \in labels /\ (frame[p].half = 0 \/ pc[p] \in {"get_pos", "put_pos"})

Ring ==
  /\ p_rpos <= p_wpos /\ p_wpos <= p_rpos + BY2PIPE
  /\ ToMove(Reader, {"get_byte", "get_pos"}) => p_rpos < p_wpos
  /\ ToMove(Writer, {"put_byte", "put_pos"}) => p_wpos < p_rpos + BY2PIPE
  /\ Stored \in Nat /\ Loaded \in Nat
  /\ \A k \in Nat : k < Stored /\ Stored <= k + BY2PIPE => p_buf[k % BY2PIPE] = k + 1
  /\ \A k \in 0..BY2PIPE-1 : Stored <= k => p_buf[k] = 0
  /\ Len(got) = Loaded

RingInv == PipeTypeOK /\ Ring /\ \A p \in Proc : Streaming(p)

(* Positions less than BY2PIPE apart fall on different bytes of p_buf. *)
LEMMA Apart ==
  ASSUME NEW j \in Nat, NEW k \in Nat, j < k, k < j + BY2PIPE
  PROVE  j % BY2PIPE # k % BY2PIPE
<1>1. PICK B \in Nat \ {0} : B = BY2PIPE
  BY PipeAssumption
<1>2. PICK a \in Int, b \in Int : j = B * a + (j % B) /\ k = B * b + (k % B)
  <2>1. /\ j = B * (j \div B) + (j % B) /\ k = B * (k \div B) + (k % B)
        /\ j \div B \in Int /\ k \div B \in Int
    BY <1>1
  <2> QED BY <2>1
<1>3. ASSUME j % B = k % B PROVE FALSE
  <2>1. PICK d \in Int : d = b - a
    OBVIOUS
  <2>2. k - j = B * d
    <3>1. j % B \in Int
      BY <1>1
    <3>2. B * d = B * b - B * a
      BY <1>1, <2>1
    <3> QED BY <1>1, <1>2, <1>3, <3>1, <3>2
  <2>3. CASE d <= 0
    <3>1. B * d <= 0
      BY <1>1, <2>3
    <3> QED BY <2>2, <3>1
  <2>4. CASE d >= 1
    <3>1. B * d >= B
      BY <1>1, <2>4
    <3> QED BY <1>1, <2>2, <3>1
  <2> QED BY <2>1, <2>3, <2>4
<1> QED BY <1>1, <1>3

(* And every position falls on one. *)
LEMMA InBuffer == ASSUME NEW k \in Nat PROVE k % BY2PIPE \in 0..BY2PIPE-1
BY PipeAssumption

-----------------------------------------------------------------------------
\* q moves, but neither into nor out of the middle of a transfer.
Calm(q) ==
  /\ frame[q].half = 0 /\ frame'[q].half = 0
  /\ Streaming(q)'
  /\ pc'[q] \in {"get_byte", "get_pos"} => ~Empty
  /\ pc'[q] \in {"put_byte", "put_pos"} => ~Full

(* A step that leaves the struct Pipe alone. *)
LEMMA RingQuiet ==
  ASSUME RingInv, MapType', UNCHANGED pipeVars, frame' \in [Proc -> Frame],
         \A q \in Proc : (pc'[q] = pc[q] /\ frame'[q] = frame[q]) \/ Calm(q)
  PROVE  RingInv'
<1>1. PipeTypeOK /\ Ring /\ UNCHANGED <<p_rpos, p_wpos, p_buf, got>>
  BY DEF RingInv, pipeVars
<1>2. PipeTypeOK'
  BY <1>1 DEF PipeTypeOK, MapType
<1>3. ASSUME NEW q \in Proc PROVE Streaming(q)'
  <2>1. CASE pc'[q] = pc[q] /\ frame'[q] = frame[q]
    BY <2>1 DEF RingInv, Streaming
  <2> QED BY <2>1 DEF Calm
<1>4. Stored' = Stored
  BY <1>1, PipeAssumption DEF Stored, Calm
<1>5. Loaded' = Loaded
  BY <1>1, PipeAssumption DEF Loaded, Calm
<1>6. ToMove(Reader, {"get_byte", "get_pos"})' => p_rpos < p_wpos
  <2>1. CASE pc'[Reader] = pc[Reader] /\ frame'[Reader] = frame[Reader]
    BY <1>1, <2>1 DEF Ring, ToMove
  <2>2. CASE Calm(Reader)
    BY <1>1, <2>2 DEF Calm, Empty, PipeTypeOK, ToMove
  <2> QED BY <2>1, <2>2, PipeAssumption
<1>7. ToMove(Writer, {"put_byte", "put_pos"})' => p_wpos < p_rpos + BY2PIPE
  <2>1. CASE pc'[Writer] = pc[Writer] /\ frame'[Writer] = frame[Writer]
    BY <1>1, <2>1 DEF Ring, ToMove
  <2>2. CASE Calm(Writer)
    BY <1>1, <2>2, PipeAssumption DEF Calm, Full, PipeTypeOK, ToMove
  <2> QED BY <2>1, <2>2, PipeAssumption
<1>8. Ring'
  BY <1>1, <1>4, <1>5, <1>6, <1>7 DEF Ring
<1> QED BY <1>2, <1>3, <1>8 DEF RingInv

\* The frame f and the place l of p are those of a call that is not in the
\* middle of a transfer.
Suits(p, l, f) ==
  /\ f \in Frame /\ f.half = 0
  /\ f.op = "read" => p = Reader
  /\ f.op = "write" => p = Writer
  /\ f.op \in {"read", "write"} => f.i < f.n
  /\ l \in {"read", "get_byte", "get_pos"} => f.op = "read"
  /\ l \in {"write", "put_byte", "put_pos"} => f.op = "write"
  /\ l \in Check => f.op \in CallOp
  /\ l \in {"get_byte", "get_pos"} => ~Empty
  /\ l \in {"put_byte", "put_pos"} => ~Full

(* Such a step of one environment. *)
LEMMA RingTo ==
  ASSUME RingInv, MapType', UNCHANGED pipeVars, NEW p \in Proc, NEW l, NEW f,
         pc[p] \notin Moving, Suits(p, l, f), To(p, l, f)
  PROVE  RingInv'
<1>1. PipeTypeOK
  BY DEF RingInv
<1>2. pc'[p] = l /\ frame'[p] = f /\ \A q \in Proc \ {p} : pc'[q] = pc[q] /\ frame'[q] = frame[q]
  BY <1>1 DEF PipeTypeOK, To
<1>3. frame' \in [Proc -> Frame]
  BY <1>1 DEF PipeTypeOK, To, Suits
<1>4. Streaming(p)'
  BY <1>2 DEF Streaming, Suits
<1>5. frame[p].half = 0
  BY <1>1 DEF RingInv, Streaming, PipeTypeOK, Frame
<1>6. Calm(p)
  BY <1>2, <1>4, <1>5 DEF Calm, Suits
<1> QED BY <1>2, <1>3, <1>6, RingQuiet

(* A place where nothing is transferred suits every frame. *)
LEMMA Aside ==
  ASSUME RingInv, NEW p \in Proc, pc[p] \notin Moving, NEW l, l \notin Transfer \cup Check
  PROVE  Suits(p, l, frame[p]) /\ Suits(p, l, NoCall)
<1>1. NoCall \in Frame /\ frame[p] \in Frame /\ frame[p].half \in {0, 1}
  BY PipeAssumption DEF RingInv, PipeTypeOK, NoCall, Frame, Slot
<1>2. Streaming(p)
  BY DEF RingInv
<1>3. Suits(p, l, frame[p])
  BY <1>1, <1>2 DEF Suits, Streaming, Moving, Transfer
<1>4. Suits(p, l, NoCall)
  BY <1>1 DEF Suits, Moving, Transfer, NoCall
<1> QED BY <1>3, <1>4

(* The calls begin with nothing transferred. *)
LEMMA RingStart ==
  ASSUME RingInv, MapType, MapType', NEW p \in Proc, Starts(p)
  PROVE  RingInv'
<1>1. pc[p] = "idle" /\ UNCHANGED pipeVars /\ pc[p] \notin Moving
  BY DEF Starts, close, pipe_is_closed, read, write, dup, exit, Call, pipeVars, Moving
<1>2. NoCall \in Frame
  BY PipeAssumption DEF NoCall, Frame, Slot
<1> SUFFICES \E l, f : Suits(p, l, f) /\ To(p, l, f)
  BY <1>1, RingTo
<1>3. ASSUME NEW l \in {"close_fd", "close_all", "dup_fd", "chk_fd"},
             NEW f \in Frame, f.op \in {"close", "poll", "dup", "exit"}, f.half = 0,
             l = "chk_fd" => f.op = "poll"
      PROVE  Suits(p, l, f)
  BY <1>3 DEF Suits, Moving, Check, CallOp
<1>5. ASSUME NEW s \in Slot, close(p, s) PROVE \E l, f : Suits(p, l, f) /\ To(p, l, f)
  <2>1. PICK f : f = [NoCall EXCEPT !.op = "close", !.fd = s]
    OBVIOUS
  <2>2. f \in Frame /\ f.op = "close" /\ f.half = 0
    BY <1>2, <2>1 DEF Frame, NoCall
  <2>3. To(p, "close_fd", f)
    BY <1>5, <2>1 DEF close, Call, To
  <2> QED BY <1>3, <2>2, <2>3
<1>6. ASSUME NEW s \in Slot, pipe_is_closed(p, s) PROVE \E l, f : Suits(p, l, f) /\ To(p, l, f)
  <2>1. PICK f : f = [NoCall EXCEPT !.op = "poll", !.fd = s]
    OBVIOUS
  <2>2. f \in Frame /\ f.op = "poll" /\ f.half = 0
    BY <1>2, <2>1 DEF Frame, NoCall
  <2>3. To(p, "chk_fd", f)
    BY <1>6, <2>1 DEF pipe_is_closed, Call, To
  <2> QED BY <1>3, <2>2, <2>3
<1>7. ASSUME NEW s \in Slot, NEW t \in Slot, dup(p, s, t)
      PROVE  \E l, f : Suits(p, l, f) /\ To(p, l, f)
  <2>1. PICK f : f = [NoCall EXCEPT !.op = "dup", !.fd = s, !.to = t]
    OBVIOUS
  <2>2. f \in Frame /\ f.op = "dup" /\ f.half = 0
    BY <1>2, <2>1 DEF Frame, NoCall
  <2>3. To(p, "dup_fd", f) \/ To(p, "close_fd", f)
    BY <1>7, <2>1 DEF dup, Call, To
  <2> QED BY <1>3, <2>2, <2>3
<1>8. CASE exit(p)
  <2>1. PICK f : f = [NoCall EXCEPT !.op = "exit"]
    OBVIOUS
  <2>2. f \in Frame /\ f.op = "exit" /\ f.half = 0
    BY <1>2, <2>1 DEF Frame, NoCall
  <2>3. To(p, "close_all", f)
    BY <1>8, <2>1 DEF exit, Call, To
  <2> QED BY <1>3, <2>2, <2>3
<1>9. ASSUME NEW s \in Slot, NEW n \in 1..MaxRequest, read(p, s, n) \/ write(p, s, n)
      PROVE  \E l, f : Suits(p, l, f) /\ To(p, l, f)
  <2>1. PICK op \in {"read", "write"} :
          /\ op = "read" => p = Reader
          /\ op = "write" => p = Writer
          /\ To(p, op, [NoCall EXCEPT !.op = op, !.fd = s, !.n = n])
    BY <1>9 DEF read, write, Call, To
  <2>2. PICK f : f = [NoCall EXCEPT !.op = op, !.fd = s, !.n = n]
    OBVIOUS
  <2>3. n \in 0..MaxRequest /\ n > 0
    BY PipeAssumption
  <2>4. f \in Frame /\ f.op = op /\ f.half = 0 /\ f.i = 0 /\ f.n = n
    BY <1>2, <2>2, <2>3 DEF Frame, NoCall
  <2>5. Suits(p, op, f)
    BY <2>1, <2>3, <2>4 DEF Suits, Moving, Check, CallOp
  <2> QED BY <2>1, <2>2, <2>5
<1> QED BY <1>5, <1>6, <1>7, <1>8, <1>9 DEF Starts

(* Closing, duplicating and exiting transfer nothing. *)
LEMMA RingAside ==
  ASSUME RingInv, MapType, MapType', NEW p \in Proc,
         close_fd(p) \/ close_data(p) \/ dup_fd(p) \/ dup_data(p) \/ close_all(p)
  PROVE  RingInv'
<1>1. /\ pc[p] \notin Moving /\ UNCHANGED pipeVars
  BY DEF close_fd, close_data, dup_fd, dup_data, close_all, pipeVars, Moving
<1>2. ASSUME NEW l \in {"idle", "dead", "close_data", "dup_fd", "close_all", "dup_data"},
             NEW f \in {frame[p], NoCall}, To(p, l, f)
      PROVE  RingInv'
  <2>1. l \notin Transfer \cup Check
    BY DEF Transfer, Check
  <2>2. Suits(p, l, f)
    BY <1>1, <2>1, Aside
  <2> QED BY <1>1, <1>2, <2>2, RingTo
<1>3. CASE Return(p)
  BY <1>2, <1>3, Moves
<1>4. CASE \E l \in {"close_data", "dup_fd", "close_all", "dup_data"} : Goto(p, l)
  BY <1>2, <1>4, Moves
<1>5. CASE close_all(p)
  <2>1. CASE pc' = [pc EXCEPT ![p] = "dead"] /\ frame' = [frame EXCEPT ![p] = NoCall]
    BY <1>2, <2>1 DEF To
  <2>2. ASSUME NEW s \in Slot, pc' = [pc EXCEPT ![p] = "close_fd"],
               frame' = [frame EXCEPT ![p].fd = s]
        PROVE  RingInv'
    <3>1. PICK f : f = [frame[p] EXCEPT !.fd = s]
      OBVIOUS
    <3>2. frame \in [Proc -> Frame] /\ Suits(p, "close_fd", frame[p])
      BY <1>1, Aside DEF RingInv, PipeTypeOK, Transfer, Check
    <3>3. /\ f \in Frame /\ f.half = frame[p].half /\ f.op = frame[p].op
          /\ f.i = frame[p].i /\ f.n = frame[p].n
      BY <3>1, <3>2 DEF Frame
    <3>4. Suits(p, "close_fd", f)
      BY <3>2, <3>3 DEF Suits
    <3>5. To(p, "close_fd", f)
      BY <2>2, <3>1, <3>2 DEF To
    <3> QED BY <1>1, <3>4, <3>5, RingTo
  <2> QED BY <1>5, <2>1, <2>2 DEF close_all, OpenSlots
<1> QED BY <1>3, <1>4, <1>5 DEF close_fd, close_data, dup_fd, dup_data

(* Nor does fork(). *)
LEMMA RingFork ==
  ASSUME RingInv, MapInv, MapType', NEW p \in Proc,
         (\E c \in Proc : fork(p, c)) \/ fork_fd(p) \/ fork_data(p)
  PROVE  RingInv'
<1>0. PipeTypeOK /\ MapType /\ NoCall \in Frame
  BY PipeAssumption DEF RingInv, MapInv, NoCall, Frame, Slot
<1>1. UNCHANGED pipeVars
  BY DEF fork, fork_fd, fork_data, pipeVars
<1>2. ASSUME NEW q \in Proc, pc[q] \notin Moving, pc'[q] \notin Transfer \cup Check,
             Suits(q, pc'[q], frame'[q])
      PROVE  Calm(q)
  <2>1. frame[q].half = 0
    BY <1>0, <1>2 DEF RingInv, Streaming, PipeTypeOK, Frame
  <2> QED BY <1>2, <2>1 DEF Suits, Calm, Streaming, Moving, Transfer
<1>3. CASE \E c \in Proc : fork(p, c)
  <2>1. PICK c \in Proc : fork(p, c)
    BY <1>3
  <2>2. PICK f : f = [NoCall EXCEPT !.op = "fork", !.child = c]
    OBVIOUS
  <2>3. f \in Frame /\ f.half = 0 /\ f.op = "fork"
    BY <1>0, <2>2 DEF Frame, NoCall
  <2>4. /\ pc[p] = "idle" /\ pc[c] = "unborn" /\ p # c
        /\ pc' = [pc EXCEPT ![p] = "fork_fd", ![c] = "embryo"]
        /\ frame' = [frame EXCEPT ![p] = f]
    BY <2>1, <2>2 DEF fork
  <2>5. frame' \in [Proc -> Frame]
    BY <1>0, <2>3, <2>4 DEF PipeTypeOK
  <2>6. /\ pc'[p] = "fork_fd" /\ pc'[c] = "embryo" /\ frame'[p] = f /\ frame'[c] = frame[c]
        /\ \A q \in Proc \ {p, c} : pc'[q] = pc[q] /\ frame'[q] = frame[q]
    BY <1>0, <2>4 DEF PipeTypeOK
  <2>7. Suits(p, "fork_fd", f)
    BY <2>3 DEF Suits, Moving, Check
  <2>8. Suits(c, "embryo", frame[c])
    BY <2>4, Aside DEF Moving, Transfer, Check
  <2>9. Calm(p) /\ Calm(c)
    BY <1>2, <2>4, <2>6, <2>7, <2>8 DEF Moving, Transfer, Check
  <2> QED BY <1>1, <2>5, <2>6, <2>9, RingQuiet
<1>4. CASE fork_fd(p)
  <2>1. pc[p] = "fork_fd" /\ frame' = frame /\ pc' \in {pc, [pc EXCEPT ![p] = "fork_data"]}
    BY <1>4 DEF fork_fd, Goto
  <2>2. /\ pc'[p] \in {"fork_fd", "fork_data"}
        /\ \A q \in Proc \ {p} : pc'[q] = pc[q]
    BY <1>0, <2>1 DEF PipeTypeOK
  <2>3. Suits(p, pc'[p], frame[p])
    BY <2>1, <2>2, Aside DEF Moving, Transfer, Check
  <2>4. Calm(p)
    BY <1>2, <2>1, <2>2, <2>3 DEF Moving, Transfer, Check
  <2>5. frame' \in [Proc -> Frame]
    BY <1>0, <2>1 DEF PipeTypeOK
  <2> QED BY <1>1, <2>1, <2>2, <2>4, <2>5, RingQuiet
<1>5. CASE fork_data(p)
  <2>1. CASE pc' = pc /\ frame' = frame
    <3>1. frame' \in [Proc -> Frame]
      BY <1>0, <2>1 DEF PipeTypeOK
    <3> QED BY <1>1, <2>1, <3>1, RingQuiet
  <2>2. CASE /\ pc' = [pc EXCEPT ![p] = "idle", ![frame[p].child] = "idle"]
             /\ frame' = [frame EXCEPT ![p] = NoCall]
    <3>1. PICK c \in Proc : c = frame[p].child
      BY <1>0 DEF MapType, MapFrame
    <3>2. pc[p] = "fork_data" /\ pc[c] = "embryo" /\ p # c
      BY <1>5, <3>1 DEF MapInv, Own, Inherits, Forking, fork_data
    <3>3. /\ pc'[p] = "idle" /\ pc'[c] = "idle" /\ frame'[p] = NoCall /\ frame'[c] = frame[c]
          /\ \A q \in Proc \ {p, c} : pc'[q] = pc[q] /\ frame'[q] = frame[q]
      BY <1>0, <2>2, <3>1, <3>2 DEF PipeTypeOK
    <3>4. frame' \in [Proc -> Frame]
      BY <1>0, <2>2 DEF PipeTypeOK
    <3>5. Suits(p, "idle", NoCall) /\ Suits(c, "idle", frame[c])
      BY <3>2, Aside DEF Moving, Transfer, Check
    <3>6. Calm(p) /\ Calm(c)
      BY <1>2, <3>2, <3>3, <3>5 DEF Moving, Transfer, Check
    <3> QED BY <1>1, <3>3, <3>4, <3>6, RingQuiet
  <2> QED BY <1>5, <2>1, <2>2 DEF fork_data
<1> QED BY <1>3, <1>4, <1>5

(* Testing for a closed pipe keeps the state of the call. *)
LEMMA RingCheck ==
  ASSUME RingInv, MapInv, MapType', NEW p \in Proc, chk_fd(p) \/ chk_pipe(p) \/ chk_cmp(p)
  PROVE  RingInv'
<1>1. /\ PipeTypeOK /\ MapType /\ Streaming(p) /\ InCall(p)
      /\ frame \in [Proc -> Frame] /\ frame[p] \in Frame
  BY DEF RingInv, MapInv, Own, PipeTypeOK
<1>2. UNCHANGED pipeVars /\ pc[p] \in Check /\ pc[p] \notin Moving
  BY DEF chk_fd, chk_pipe, chk_cmp, pipeVars, Moving, Check
<1>3. frame[p].half = 0 /\ frame[p].op \in CallOp
  BY <1>1, <1>2 DEF Streaming, Frame, Moving
<1>4. ASSUME NEW l \in {"chk_fd", "chk_pipe", "chk_cmp", "read", "write"},
             l \in {"read", "write"} => frame[p].op = l,
             NEW f \in Frame, To(p, l, f), f.half = 0, f.op = frame[p].op,
             f.i = frame[p].i, f.n = frame[p].n
      PROVE  RingInv'
  <2>1. Suits(p, l, f)
    BY <1>1, <1>3, <1>4 DEF Suits, Streaming, Moving
  <2> QED BY <1>2, <1>4, <2>1, RingTo
<1>5. CASE chk_fd(p)
  <2>1. MyEnd(p) \in End
    BY <1>1, <1>2 DEF InCall, Check
  <2>2. PICK k \in Nat : k = FdRef(MyEnd(p))
    BY <2>1, RefsNat
  <2>3. PICK f : f = [frame[p] EXCEPT !.fd_ref = k]
    OBVIOUS
  <2>4. f \in Frame /\ f.half = 0 /\ f.op = frame[p].op /\ f.i = frame[p].i /\ f.n = frame[p].n
    BY <1>1, <1>3, <2>3 DEF Frame
  <2>5. To(p, "chk_pipe", f)
    BY <1>1, <1>5, <2>2, <2>3 DEF chk_fd, To
  <2> QED BY <1>4, <2>4, <2>5
<1>6. CASE chk_pipe(p)
  <2>1. PICK k \in Nat : k = PipeRef
    BY RefsNat
  <2>2. PICK f : f = [frame[p] EXCEPT !.pipe_ref = k]
    OBVIOUS
  <2>3. f \in Frame /\ f.half = 0 /\ f.op = frame[p].op /\ f.i = frame[p].i /\ f.n = frame[p].n
    BY <1>1, <1>3, <2>2 DEF Frame
  <2>4. To(p, "chk_cmp", f)
    BY <1>1, <1>6, <2>1, <2>2 DEF chk_pipe, To
  <2> QED BY <1>4, <2>3, <2>4
<1>7. CASE chk_cmp(p)
  <2>1. CASE Return(p)
    <3>1. Suits(p, "idle", NoCall)
      BY <1>2, Aside DEF Transfer, Check
    <3> QED BY <1>1, <1>2, <2>1, <3>1, Moves, RingTo
  <2>2. PICK f : f = [frame[p] EXCEPT !.fd_ref = 0, !.pipe_ref = 0]
    OBVIOUS
  <2>3. f \in Frame /\ f.half = 0 /\ f.op = frame[p].op /\ f.i = frame[p].i /\ f.n = frame[p].n
    BY <1>1, <1>3, <2>2 DEF Frame
  <2>4. CASE Discard(p, "chk_fd")
    <3>1. To(p, "chk_fd", f)
      BY <1>1, <2>2, <2>4, Moves
    <3> QED BY <1>4, <2>3, <3>1
  <2>5. CASE frame[p].op # "poll" /\ Discard(p, frame[p].op)
    <3>1. To(p, frame[p].op, f)
      BY <1>1, <2>2, <2>5, Moves
    <3>2. frame[p].op \in {"read", "write"}
      BY <1>3, <2>5 DEF CallOp
    <3> QED BY <1>4, <2>3, <3>1, <3>2
  <2> QED BY <1>7, <2>1, <2>4, <2>5 DEF chk_cmp
<1> QED BY <1>5, <1>6, <1>7

(* The tests of the loops: a transfer starts only if there is a byte, or room. *)
LEMMA RingTest ==
  ASSUME RingInv, MapType, MapType', NEW p \in Proc, read_test(p) \/ write_test(p)
  PROVE  RingInv'
<1>1. PipeTypeOK /\ Streaming(p) /\ frame[p] \in Frame
  BY DEF RingInv, PipeTypeOK
<1>2. UNCHANGED pipeVars /\ pc[p] \in {"read", "write"} /\ pc[p] \notin Moving
  BY DEF read_test, write_test, pipeVars, Moving
<1>3. frame[p].half = 0 /\ frame[p].op = pc[p]
  BY <1>1, <1>2 DEF Streaming, Frame, Moving
<1>4. CASE Return(p)
  <2>1. Suits(p, "idle", NoCall)
    BY <1>2, Aside DEF Transfer, Check
  <2> QED BY <1>2, <1>4, <2>1, Moves, RingTo
<1>5. ASSUME NEW l \in {"chk_fd"} \cup Moving, Goto(p, l),
             l \in {"get_byte", "get_pos"} => pc[p] = "read" /\ ~Empty,
             l \in {"put_byte", "put_pos"} => pc[p] = "write" /\ ~Full
      PROVE  RingInv'
  <2>1. Suits(p, l, frame[p])
    BY <1>1, <1>2, <1>3, <1>5 DEF Suits, Streaming, Moving, CallOp
  <2> QED BY <1>2, <1>5, <2>1, Moves, RingTo
<1> QED BY <1>2, <1>4, <1>5 DEF read_test, write_test, Moving

-----------------------------------------------------------------------------
\* p has done one half of a transfer: the other half is next, or the transfer
\* is over.
Halved(p, l) ==
  /\ FirstHalf(p) => pc'[p] = l /\ frame'[p].half = 1
  /\ ~FirstHalf(p) => pc'[p] \in {"idle", "read", "write"} /\ frame'[p].half = 0
  /\ \A q \in Proc \ {p} : pc'[q] = pc[q] /\ frame'[q] = frame[q]
  /\ frame' \in [Proc -> Frame]
  /\ \A q \in Proc : Streaming(q)'

\* The locals g at the place k are those of p after the half it has done.
Follows(p, k, g) ==
  /\ g \in Frame
  /\ g.op = "read" => p = Reader
  /\ g.op = "write" => p = Writer
  /\ g.op \in {"read", "write"} => g.i < g.n
  /\ k \in {"read", "get_byte", "get_pos"} => g.op = "read"
  /\ k \in {"write", "put_byte", "put_pos"} => g.op = "write"
  /\ g.half = 1 => k \in Moving
  /\ k \notin Check

(* The locals of p when a half of a transfer is done. *)
LEMMA HalfDone ==
  ASSUME RingInv, MapType, NEW p \in Proc, NEW l, Half(p, l), pc[p] \in Moving,
         pc[p] \in {"get_byte", "get_pos"} => l \in {"get_byte", "get_pos"},
         pc[p] \in {"put_byte", "put_pos"} => l \in {"put_byte", "put_pos"}
  PROVE  Halved(p, l)
<1>1. /\ PipeTypeOK /\ frame \in [Proc -> Frame] /\ frame[p] \in Frame /\ NoCall \in Frame
      /\ \A q \in Proc : Streaming(q)
  <2>1. NoCall \in Frame
    BY PipeAssumption DEF NoCall, Frame, Slot
  <2> QED BY <2>1 DEF RingInv, PipeTypeOK
<1>2. /\ frame[p].op \in {"read", "write"} /\ frame[p].i < frame[p].n
      /\ frame[p].op = "read" => p = Reader
      /\ frame[p].op = "write" => p = Writer
      /\ l \in {"get_byte", "get_pos"} => frame[p].op = "read"
      /\ l \in {"put_byte", "put_pos"} => frame[p].op = "write"
      /\ l \in Moving /\ l \notin {"read", "write"} \cup Check
  BY <1>1 DEF Streaming, Moving, Check
<1>3. ASSUME NEW k, NEW g, To(p, k, g), Follows(p, k, g)
      PROVE  /\ pc'[p] = k /\ frame'[p] = g
             /\ \A q \in Proc \ {p} : pc'[q] = pc[q] /\ frame'[q] = frame[q]
             /\ frame' \in [Proc -> Frame]
             /\ \A q \in Proc : Streaming(q)'
  <2>1. /\ pc'[p] = k /\ frame'[p] = g
        /\ \A q \in Proc \ {p} : pc'[q] = pc[q] /\ frame'[q] = frame[q]
    BY <1>1, <1>3 DEF PipeTypeOK, To
  <2>2. frame' \in [Proc -> Frame]
    BY <1>1, <1>3 DEF To, Follows
  <2>3. Streaming(p)'
    BY <1>3, <2>1 DEF Streaming, Follows
  <2>4. \A q \in Proc \ {p} : Streaming(q)'
    BY <1>1, <2>1 DEF Streaming
  <2> QED BY <2>1, <2>2, <2>3, <2>4
<1>4. CASE FirstHalf(p) /\ To(p, l, [frame[p] EXCEPT !.half = 1])
  <2>1. PICK f : f = [frame[p] EXCEPT !.half = 1]
    OBVIOUS
  <2>2. /\ f \in Frame /\ f.half = 1 /\ f.op = frame[p].op /\ f.i = frame[p].i
        /\ f.n = frame[p].n
    BY <1>1, <2>1 DEF Frame
  <2>3. Follows(p, l, f)
    BY <1>2, <2>2 DEF Follows
  <2>4. To(p, l, f)
    BY <1>4, <2>1
  <2> QED BY <1>3, <1>4, <2>2, <2>3, <2>4 DEF Halved
<1>5. CASE ~FirstHalf(p) /\ Return(p)
  <2>1. To(p, "idle", NoCall)
    BY <1>5, Moves
  <2>2. NoCall.half = 0 /\ Follows(p, "idle", NoCall)
    BY <1>1 DEF NoCall, Check, Follows
  <2> QED BY <1>3, <1>5, <2>1, <2>2 DEF Halved
<1>6. CASE /\ ~FirstHalf(p) /\ frame[p].i + 1 # frame[p].n
           /\ To(p, frame[p].op, [frame[p] EXCEPT !.i = @ + 1, !.half = 0])
  <2>1. PICK g : g = [frame[p] EXCEPT !.i = @ + 1, !.half = 0]
    OBVIOUS
  <2>2. frame[p].i + 1 \in 0..MaxRequest /\ frame[p].i + 1 < frame[p].n
    BY <1>1, <1>2, <1>6, PipeAssumption DEF Frame
  <2>3. /\ g \in Frame /\ g.half = 0 /\ g.op = frame[p].op /\ g.i = frame[p].i + 1
        /\ g.n = frame[p].n
    BY <1>1, <2>1, <2>2 DEF Frame
  <2>4. PICK k \in {"read", "write"} : k = frame[p].op
    BY <1>2
  <2>5. k \notin Check /\ k \notin Moving
    BY DEF Check, Moving
  <2>6. Follows(p, k, g)
    BY <1>2, <2>2, <2>3, <2>4, <2>5 DEF Follows
  <2>7. To(p, k, g)
    BY <1>6, <2>1, <2>4
  <2> QED BY <1>3, <1>6, <2>3, <2>6, <2>7 DEF Halved
<1> QED BY <1>4, <1>5, <1>6, Moves

\* What pipe_read() finds at position k - 1.
Found(k) == IF HalfWritten(k) THEN (IF k > BY2PIPE THEN k - BY2PIPE ELSE 0)
            ELSE IF Lapped(k) THEN k + BY2PIPE
            ELSE k

(* Positions BY2PIPE apart fall on the same byte of p_buf. *)
LEMMA OneLap == ASSUME NEW k \in Nat PROVE (k + BY2PIPE) % BY2PIPE = k % BY2PIPE
<1>1. PICK B \in Nat \ {0} : B = BY2PIPE
  BY PipeAssumption
<1>2. PICK a \in Int : a = k \div B
  BY <1>1
<1>3. PICK r \in 0..B-1 : r = k % B
  BY <1>1
<1>4. PICK b \in Int : b = (k + B) \div B
  BY <1>1
<1>5. PICK t \in 0..B-1 : t = (k + B) % B
  BY <1>1
<1>6. k = B * a + r
  BY <1>1, <1>2, <1>3
<1>7. k + B = B * b + t
  BY <1>1, <1>4, <1>5
<1>8. PICK d \in Int : d = a + 1 - b
  OBVIOUS
<1>9. t - r = B * d
  <2>1. B * d = B * a + B - B * b
    BY <1>8
  <2> QED BY <1>6, <1>7, <2>1
<1>10. CASE d <= -1
  <2>1. B * d <= -B
    BY <1>10
  <2> QED BY <1>9, <2>1
<1>11. CASE d >= 1
  <2>1. B * d >= B
    BY <1>11
  <2> QED BY <1>9, <2>1
<1>12. CASE d = 0
  <2>1. B * d = 0
    BY <1>12
  <2>2. t = r
    BY <1>9, <2>1
  <2> QED BY <1>1, <1>3, <1>5, <2>2
<1> QED BY <1>10, <1>11, <1>12

(* The facts about positions that every transfer uses. *)
LEMMA RingFacts ==
  ASSUME RingInv
  PROVE  /\ p_rpos \in Nat /\ p_wpos \in Nat /\ BY2PIPE \in Nat /\ BY2PIPE > 0
         /\ p_buf \in [0..BY2PIPE-1 -> Nat] /\ got \in Seq(Nat)
         /\ p_rpos <= p_wpos /\ p_wpos <= p_rpos + BY2PIPE
         /\ Stored \in Nat /\ Loaded \in Nat /\ Len(got) = Loaded
         /\ Stored <= p_rpos + BY2PIPE /\ p_wpos - 1 <= Stored
BY PipeAssumption DEF RingInv, PipeTypeOK, Ring, Stored, ToMove

(* What a load of position k - 1 = Loaded finds in the buffer. *)
LEMMA LoadFinds ==
  ASSUME RingInv, NEW k \in Nat, k = Loaded + 1, pc[Reader] = "get_byte"
  PROVE  /\ p_buf[Loaded % BY2PIPE] = Found(k) /\ Found(k) \in Nat
         /\ frame[Reader].half = 0 => Loaded = p_rpos
         /\ frame[Reader].half # 0 => Loaded = p_rpos - 1
<1>1. PICK j \in Nat : j = Loaded /\ k = j + 1
  BY RingFacts
<1>2. PICK S \in Nat : S = Stored
  BY RingFacts
<1>3. PICK N \in Nat : N = BY2PIPE /\ N > 0
  BY RingFacts
<1>4. /\ frame[Reader].half = 0 => j = p_rpos /\ p_rpos < p_wpos
      /\ frame[Reader].half # 0 => j = p_rpos - 1
  BY <1>1 DEF RingInv, Ring, ToMove, Loaded
<1>5. j <= S /\ S <= j + N + 1 /\ (S = j + N + 1 => p_rpos = k) /\ (S = j => p_wpos = k)
  BY <1>1, <1>2, <1>3, <1>4, RingFacts
<1>6. /\ \A m \in Nat : m < S /\ S <= m + N => p_buf[m % N] = m + 1
      /\ \A m \in 0..N-1 : S <= m => p_buf[m] = 0
  BY <1>2, <1>3 DEF RingInv, Ring
<1>7. CASE S = j
  <2>1. HalfWritten(k)
    BY <1>1, <1>2, <1>5, <1>7 DEF HalfWritten
  <2>2. CASE k > N
    <3>1. PICK m \in Nat : m = j - N
      BY <1>1, <1>3, <2>2
    <3>2. j % N = m % N
      <4>1. (m + N) % N = m % N
        BY <1>3, OneLap
      <4> QED BY <3>1, <4>1
    <3>3. p_buf[m % N] = k - N
      BY <1>1, <1>3, <1>6, <1>7, <3>1
    <3> QED BY <1>1, <1>3, <1>4, <2>1, <2>2, <3>2, <3>3 DEF Found
  <2>3. CASE k <= N
    <3>1. j \in 0..N-1 /\ j % N = j
      BY <1>1, <1>3, <2>3
    <3>2. p_buf[j % N] = 0
      BY <1>6, <1>7, <3>1
    <3> QED BY <1>1, <1>3, <1>4, <2>1, <2>3, <3>2 DEF Found
  <2> QED BY <1>3, <2>2, <2>3
<1>8. CASE S = j + N + 1
  <2>1. Lapped(k) /\ ~HalfWritten(k)
    BY <1>1, <1>2, <1>3, <1>5, <1>8 DEF Lapped, HalfWritten
  <2>2. (j + N) % N = j % N
    BY <1>3, OneLap
  <2>3. p_buf[(j + N) % N] = j + N + 1
    BY <1>3, <1>6, <1>8
  <2> QED BY <1>1, <1>3, <1>4, <2>1, <2>2, <2>3 DEF Found
<1>9. CASE j < S /\ S <= j + N
  <2>1. ~Lapped(k) /\ ~HalfWritten(k)
    BY <1>1, <1>2, <1>3, <1>9 DEF Lapped, HalfWritten
  <2>2. p_buf[j % N] = j + 1
    BY <1>6, <1>9
  <2> QED BY <1>1, <1>3, <1>4, <2>1, <2>2 DEF Found
<1> QED BY <1>3, <1>5, <1>7, <1>8, <1>9

(* A load. *)
LEMMA GetByte ==
  ASSUME RingInv, MapType, MapType', NEW p \in Proc, get_byte(p)
  PROVE  RingInv' /\ got' = Append(got, Found(Len(got) + 1))
<1>1. PipeTypeOK /\ Ring /\ Streaming(p) /\ pc[p] = "get_byte" /\ Half(p, "get_pos")
  BY DEF RingInv, get_byte
<1>2. p = Reader /\ frame[p].half \in {0, 1}
  BY <1>1 DEF Streaming, PipeTypeOK, Frame
<1>3. Halved(p, "get_pos")
  BY <1>1, HalfDone DEF Moving
<1>4. UNCHANGED <<p_rpos, p_wpos, p_buf>>
  BY DEF get_byte
<1>5. PICK k \in Nat : k = Loaded + 1 /\ k = Len(got) + 1
  BY RingFacts
<1>6. got' = Append(got, Found(k)) /\ Found(k) \in Nat
  <2>1. got' = Append(got, p_buf[Loaded % BY2PIPE])
    BY <1>1, <1>2, <1>5, LoadFinds DEF get_byte, FirstHalf
  <2> QED BY <1>1, <1>2, <1>5, <2>1, LoadFinds
<1>7. got' \in Seq(Nat) /\ Len(got') = Loaded + 1
  BY <1>5, <1>6, RingFacts
<1>8. PipeTypeOK'
  BY <1>1, <1>3, <1>4, <1>7 DEF PipeTypeOK, MapType, Halved
<1>9. Loaded' = Loaded + 1
  BY <1>1, <1>2, <1>3, <1>4, RingFacts DEF Loaded, Halved, FirstHalf
<1>10. Stored' = Stored
  BY <1>1, <1>2, <1>3, <1>4, PipeAssumption DEF Stored, Halved, FirstHalf
<1>11. ToMove(Reader, {"get_byte", "get_pos"})' => p_rpos < p_wpos
  BY <1>1, <1>2, <1>3 DEF ToMove, Halved, FirstHalf, Ring
<1>12. ToMove(Writer, {"put_byte", "put_pos"})' => p_wpos < p_rpos + BY2PIPE
  <2>1. CASE Writer = p
    BY <1>2, <1>3, <2>1 DEF ToMove, Halved
  <2>2. CASE Writer # p
    BY <1>1, <1>3, <2>2, PipeAssumption DEF ToMove, Halved, Ring
  <2> QED BY <2>1, <2>2
<1>13. Ring'
  BY <1>1, <1>4, <1>7, <1>9, <1>10, <1>11, <1>12, RingFacts DEF Ring
<1> QED BY <1>3, <1>5, <1>6, <1>8, <1>13 DEF RingInv, Halved

(* The reader's position moves. *)
LEMMA GetPos ==
  ASSUME RingInv, MapType, MapType', NEW p \in Proc, get_pos(p)
  PROVE  RingInv' /\ got' = got
<1>1. PipeTypeOK /\ Ring /\ Streaming(p) /\ pc[p] = "get_pos" /\ Half(p, "get_byte")
  BY DEF RingInv, get_pos
<1>2. p = Reader /\ frame[p].half \in {0, 1}
  BY <1>1 DEF Streaming, PipeTypeOK, Frame
<1>3. Halved(p, "get_byte")
  BY <1>1, HalfDone DEF Moving
<1>4. p_rpos' = p_rpos + 1 /\ UNCHANGED <<p_wpos, p_buf, got>>
  BY DEF get_pos
<1>5. p_rpos < p_wpos
  BY <1>1, <1>2 DEF Ring, ToMove
<1>6. PipeTypeOK'
  BY <1>1, <1>3, <1>4 DEF PipeTypeOK, MapType, Halved
<1>7. Loaded' = Loaded
  BY <1>1, <1>2, <1>3, <1>4, RingFacts DEF Loaded, Halved, FirstHalf
<1>8. Stored' = Stored
  BY <1>1, <1>2, <1>3, <1>4, PipeAssumption DEF Stored, Halved, FirstHalf
<1>9. ~ToMove(Reader, {"get_byte", "get_pos"})'
  BY <1>1, <1>2, <1>3 DEF ToMove, Halved, FirstHalf
<1>10. ToMove(Writer, {"put_byte", "put_pos"})' => p_wpos < p_rpos + 1 + BY2PIPE
  <2>1. CASE Writer = p
    BY <1>2, <1>3, <2>1 DEF ToMove, Halved
  <2>2. CASE Writer # p
    BY <1>1, <1>3, <2>2, PipeAssumption, RingFacts DEF ToMove, Halved, Ring
  <2> QED BY <2>1, <2>2
<1>11. p_rpos + 1 <= p_wpos /\ p_wpos <= p_rpos + 1 + BY2PIPE
  BY <1>5, RingFacts
<1>12. Ring'
  BY <1>1, <1>4, <1>7, <1>8, <1>9, <1>10, <1>11 DEF Ring
<1> QED BY <1>3, <1>4, <1>6, <1>12 DEF RingInv, Halved

(* A byte is stored: it takes the place of the one a lap earlier. *)
LEMMA PutByte ==
  ASSUME RingInv, MapType, MapType', NEW p \in Proc, put_byte(p)
  PROVE  RingInv' /\ got' = got
<1>1. PipeTypeOK /\ Ring /\ Streaming(p) /\ pc[p] = "put_byte" /\ Half(p, "put_pos")
  BY DEF RingInv, put_byte
<1>2. p = Writer /\ frame[p].half \in {0, 1}
  BY <1>1 DEF Streaming, PipeTypeOK, Frame
<1>3. Halved(p, "put_pos")
  BY <1>1, HalfDone DEF Moving
<1>4. PICK S \in Nat : S = Stored
  BY RingFacts
<1>5. PICK N \in Nat : N = BY2PIPE /\ N > 0
  BY RingFacts
<1>6. UNCHANGED <<p_rpos, p_wpos, got>> /\ p_buf' = [p_buf EXCEPT ![S % N] = S + 1]
  BY <1>1, <1>2, <1>4, <1>5 DEF put_byte, FirstHalf, Stored
<1>7. S % N \in 0..N-1 /\ p_buf \in [0..N-1 -> Nat]
  BY <1>4, <1>5, InBuffer, RingFacts
<1>8. p_buf' \in [0..BY2PIPE-1 -> Nat]
  BY <1>4, <1>5, <1>6, <1>7
<1>9. PipeTypeOK'
  BY <1>1, <1>3, <1>6, <1>8 DEF PipeTypeOK, MapType, Halved
<1>10. Stored' = S + 1
  BY <1>1, <1>2, <1>3, <1>4, <1>6, RingFacts DEF Stored, Halved, FirstHalf
<1>11. Loaded' = Loaded
  BY <1>1, <1>2, <1>3, <1>6, PipeAssumption DEF Loaded, Halved, FirstHalf
<1>12. ASSUME NEW k \in Nat, k < S + 1, S + 1 <= k + N PROVE p_buf'[k % N] = k + 1
  <2>1. CASE k = S
    BY <1>6, <1>7, <2>1
  <2>2. CASE k < S
    <3>1. k % N # S % N
      <4>1. S < k + BY2PIPE
        BY <1>5, <1>12
      <4> QED BY <1>5, <2>2, <4>1, Apart
    <3>2. k % N \in 0..N-1
      BY <1>5, InBuffer
    <3>3. p_buf'[k % N] = p_buf[k % N]
      BY <1>6, <1>7, <3>1, <3>2
    <3>4. p_buf[k % N] = k + 1
      BY <1>1, <1>4, <1>5, <1>12, <2>2 DEF Ring
    <3> QED BY <3>3, <3>4
  <2> QED BY <1>12, <2>1, <2>2
<1>13. ASSUME NEW k \in 0..N-1, S + 1 <= k PROVE p_buf'[k] = 0
  <2>1. S % N = S /\ S # k
    BY <1>4, <1>5, <1>13
  <2>2. p_buf'[k] = p_buf[k]
    BY <1>6, <1>7, <2>1
  <2>3. p_buf[k] = 0
    BY <1>1, <1>4, <1>5, <1>13 DEF Ring
  <2> QED BY <2>2, <2>3
<1>14. ToMove(Writer, {"put_byte", "put_pos"})' => p_wpos < p_rpos + BY2PIPE
  BY <1>1, <1>2, <1>3 DEF ToMove, Halved, FirstHalf, Ring
<1>15. ToMove(Reader, {"get_byte", "get_pos"})' => p_rpos < p_wpos
  <2>1. CASE Reader = p
    BY <1>2, <1>3, <2>1 DEF ToMove, Halved
  <2>2. CASE Reader # p
    BY <1>1, <1>3, <2>2, PipeAssumption DEF ToMove, Halved, Ring
  <2> QED BY <2>1, <2>2
<1>16. Ring'
  BY <1>1, <1>4, <1>5, <1>6, <1>10, <1>11, <1>12, <1>13, <1>14, <1>15 DEF Ring
<1> QED BY <1>3, <1>6, <1>9, <1>16 DEF RingInv, Halved

(* The writer's position moves. *)
LEMMA PutPos ==
  ASSUME RingInv, MapType, MapType', NEW p \in Proc, put_pos(p)
  PROVE  RingInv' /\ got' = got
<1>1. PipeTypeOK /\ Ring /\ Streaming(p) /\ pc[p] = "put_pos" /\ Half(p, "put_byte")
  BY DEF RingInv, put_pos
<1>2. p = Writer /\ frame[p].half \in {0, 1}
  BY <1>1 DEF Streaming, PipeTypeOK, Frame
<1>3. Halved(p, "put_byte")
  BY <1>1, HalfDone DEF Moving
<1>4. p_wpos' = p_wpos + 1 /\ UNCHANGED <<p_rpos, p_buf, got>>
  BY DEF put_pos
<1>5. p_wpos < p_rpos + BY2PIPE
  BY <1>1, <1>2 DEF Ring, ToMove
<1>6. PipeTypeOK'
  BY <1>1, <1>3, <1>4 DEF PipeTypeOK, MapType, Halved
<1>7. Stored' = Stored
  BY <1>1, <1>2, <1>3, <1>4, RingFacts DEF Stored, Halved, FirstHalf
<1>8. Loaded' = Loaded
  BY <1>1, <1>2, <1>3, <1>4, PipeAssumption DEF Loaded, Halved, FirstHalf
<1>9. ~ToMove(Writer, {"put_byte", "put_pos"})'
  BY <1>1, <1>2, <1>3 DEF ToMove, Halved, FirstHalf
<1>10. ToMove(Reader, {"get_byte", "get_pos"})' => p_rpos < p_wpos + 1
  <2>1. CASE Reader = p
    BY <1>2, <1>3, <2>1 DEF ToMove, Halved
  <2>2. CASE Reader # p
    BY <1>1, <1>3, <2>2, PipeAssumption, RingFacts DEF ToMove, Halved, Ring
  <2> QED BY <2>1, <2>2
<1>11. p_rpos <= p_wpos + 1 /\ p_wpos + 1 <= p_rpos + BY2PIPE
  BY <1>5, RingFacts
<1>12. Ring'
  BY <1>1, <1>4, <1>7, <1>8, <1>9, <1>10, <1>11 DEF Ring
<1> QED BY <1>3, <1>4, <1>6, <1>12 DEF RingInv, Halved

(* Every step keeps the ring in order. *)
LEMMA RingNext ==
  ASSUME RingInv, MapInv, [Next]_vars
  PROVE  RingInv'
<1>1. MapType /\ MapType'
  BY MapNext DEF MapInv
<1>2. ASSUME NEW p \in Proc, UseStep(p) \/ PollStep(p) \/ (Share(p) /\ Scheduled(p))
      PROVE  RingInv'
  <2>1. CASE Starts(p)
    BY <1>1, <2>1, RingStart
  <2>2. CASE \E c \in Proc : fork(p, c)
    BY <1>1, <2>2, RingFork
  <2>3. CASE Continue(p)
    BY <1>1, <2>3, RingAside, RingFork, RingCheck, RingTest, GetByte, GetPos, PutByte, PutPos
       DEF Continue
  <2> QED BY <1>2, <2>1, <2>2, <2>3 DEF UseStep, PollStep, Share, Use, Starts
<1>3. CASE UNCHANGED vars
  <2>1. UNCHANGED pipeVars /\ pc' = pc /\ frame' = frame
    BY <1>3 DEF vars
  <2>2. frame' \in [Proc -> Frame]
    BY <2>1 DEF RingInv, PipeTypeOK
  <2> QED BY <1>1, <2>1, <2>2, RingQuiet
<1> QED BY <1>2, <1>3 DEF Next

(* Both initial states: the pipe is empty. *)
LEMMA RingInit == ASSUME NEW H \in SUBSET Proc, InitWith(H) PROVE RingInv
<1> USE PipeAssumption DEF InitWith
<1>1. PipeTypeOK
  BY DEF PipeTypeOK, BothEnds, End, NONE, NoCall, Frame, Label, Slot
<1>2. Stored = 0 /\ Loaded = 0
  BY DEF Stored, Loaded, NoCall
<1>3. Ring
  BY <1>2 DEF Ring, ToMove
<1>4. ASSUME NEW p \in Proc PROVE Streaming(p)
  BY DEF Streaming, NoCall, Check
<1> QED BY <1>1, <1>3, <1>4 DEF RingInv

(* Only a load adds to what was read, and it adds what it finds. *)
LEMMA LoadStep ==
  ASSUME RingInv, MapInv, [Next]_vars
  PROVE  got' # got => got' = Append(got, Found(Len(got) + 1))
<1>1. MapType /\ MapType'
  BY MapNext DEF MapInv
<1>2. ASSUME NEW p \in Proc, get_byte(p)
      PROVE  got' = Append(got, Found(Len(got) + 1))
  BY <1>1, <1>2, GetByte
<1>3. ASSUME NEW p \in Proc, UseStep(p) \/ PollStep(p) \/ (Share(p) /\ Scheduled(p)), ~get_byte(p)
      PROVE  got' = got
  <2>1. CASE Starts(p)
    BY <2>1 DEF Starts, close, pipe_is_closed, read, write, dup, exit, pipeVars
  <2>2. CASE \E c \in Proc : fork(p, c)
    BY <2>2 DEF fork, pipeVars
  <2>3. CASE Continue(p)
    BY <1>3, <2>3 DEF Continue, close_fd, close_data, close_all, dup_fd, dup_data, fork_fd,
       fork_data, chk_fd, chk_pipe, chk_cmp, read_test, write_test, get_pos, put_byte, put_pos,
       pipeVars
  <2> QED BY <1>3, <2>1, <2>2, <2>3 DEF UseStep, PollStep, Share, Use, Starts
<1>4. CASE UNCHANGED vars
  BY <1>4 DEF vars, pipeVars
<1> QED BY <1>2, <1>3, <1>4 DEF Next

(***************************************************************************)
(* In whichever order the build moves position and byte, for every size of *)
(* the buffer, every interleaving of reader and writer, and however the    *)
(* ends are duplicated, inherited and closed meanwhile: pipe_read()        *)
(* delivers every byte once and in its turn, and only a byte announced     *)
(* before it was stored, or given up before it was loaded, can read as     *)
(* that of the lap before or after.                                        *)
(***************************************************************************)
THEOREM PipeIsFifo == (UseSpec => Fifo) /\ (Spec => Fifo)
<1> DEFINE I == MapInv /\ RingInv
           Deliver == got' # got =>
                        LET k == Len(got) + 1
                        IN  got' = Append(got, IF HalfWritten(k)
                                                 THEN (IF k > BY2PIPE THEN k - BY2PIPE ELSE 0)
                                               ELSE IF Lapped(k) THEN k + BY2PIPE
                                               ELSE k)
<1>1. (ForkedInit => I) /\ (Init => I)
  BY PipeAssumption, MapInit, RingInit DEF Init, ForkedInit
<1>2. I /\ [Next]_vars => I'
  BY MapNext, RingNext
<1>3. [\E p \in Proc : UseStep(p) \/ PollStep(p)]_vars => [Next]_vars
  BY DEF Next
<1>4. I /\ [Next]_vars => [Deliver]_vars
  BY LoadStep DEF Found
<1>5. UseSpec => Fifo
  BY <1>1, <1>2, <1>3, <1>4, PTL DEF UseSpec, Fifo
<1>6. Spec => Fifo
  BY <1>1, <1>2, <1>4, PTL DEF Spec, Fifo
<1> QED BY <1>5, <1>6
=============================================================================
