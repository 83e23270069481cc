----------------------------- MODULE VirtioDisk -----------------------------
(***************************************************************************)
(* The virtio disk driver (kern/disk_driver.c), the system call that       *)
(* reaches it (sys_dev_req), and the environments that use it (fs/ide.c).  *)
(*                                                                         *)
(* virtio_disk_req() only starts a request.  Its caller polls req->status, *)
(* which the device stores, and the descriptors of a finished request are  *)
(* recycled later, by virtio_disk_intr() at the start of schedule().  The  *)
(* kernel runs with interrupts off, but the device does not stop for it:   *)
(* what the driver publishes in two stores the device may see half done.   *)
(***************************************************************************)
EXTENDS Integers, FiniteSets

CONSTANTS Client,  \* environments that call ide_read and ide_write
          Sector,  \* sectors of the disk, which make up whole blocks
          Value,   \* contents of a sector
          Src,     \* Src[c]: what c writes
          SECT2BLK,\* the sectors of a block, which every call asks for
          MaxCalls,\* MaxCalls[c]: bound on the calls c makes
          Served,  \* numbers of requests that may have been served at the start
          QN,      \* VIRTIO_QUEUE_NUM
          IdxMod,  \* the indices of the rings are 16 bits wide: 2^16
          NULL

ASSUME DiskAssumption ==
    /\ QN \in Nat /\ QN >= 3
    /\ IdxMod \in Nat /\ IdxMod > 0 /\ IdxMod % QN = 0
    /\ SECT2BLK \in Nat \ {0} /\ MaxCalls \in [Client -> Nat]
    /\ Sector \subseteq Nat /\ 0 \in Sector
    /\ \A s \in Sector : s % SECT2BLK = 0 => s .. s + SECT2BLK - 1 \subseteq Sector
    /\ Served \subseteq Nat
    /\ Value # {} /\ Src \in [Client -> SUBSET Value]
    /\ NULL \notin Client

Desc == 0 .. QN - 1
Idx  == 0 .. IdxMod - 1

VARIABLES
    free,      \* disk.desc_free_bitmap: the descriptors that are free
    desc,      \* disk.desc
    outhdr,    \* disk.outhdr
    avail,     \* disk.avail: idx and ring
    used,      \* disk.used: flags, idx and ring, written by the device
    used_idx,  \* disk.used_idx
    req,       \* req[c]: the page of c at REQVA
    ide,       \* ide[c]: the call of ide_read or ide_write c is in
    dst,       \* dst[c]: the sector ide_read has copied last
    kern,      \* what the kernel is in the middle of
    calls,     \* calls[c]: how many calls c has made
    panicked,  \* an assertion of free_desc has failed
    disk,      \* the sectors on the medium
    dev        \* the device: phase, next entry of avail, requests in work

drv  == <<free, desc, outhdr, avail, used_idx, panicked>>
vars == <<drv, used, req, ide, calls, dst, kern, disk, dev>>

(***************************************************************************)
(* The driver.                                                             *)
(***************************************************************************)

\* A descriptor points at a header, or at the buffer or the status of a request.
Addr == [kind : {"outhdr"}, at : Desc] \cup [kind : {"buf", "status"}, at : Client]
            \cup {[kind |-> "none", at |-> NULL]}
NoDesc == [addr |-> [kind |-> "none", at |-> NULL], next |-> 0, flags |-> {}]

\* Table d after the three descriptors of a request of c are filled in.
FillChain(d, c, i, write) ==
    [d EXCEPT
       ![i[1]] = [addr |-> [kind |-> "outhdr", at |-> i[1]], next |-> i[2], flags |-> {"NEXT"}],
       ![i[2]] = [addr |-> [kind |-> "buf", at |-> c], next |-> i[3],
                  flags |-> IF write THEN {"NEXT"} ELSE {"NEXT", "WRITE"}],
       ![i[3]] = [addr |-> [kind |-> "status", at |-> c], next |-> 0, flags |-> {"WRITE"}]]

\* virtio_disk_init(): all memory of the queue is zeroed, all descriptors are free.
\* With n > 0, the same after n requests for sector 0, the last by client c, have
\* been served and recycled one after the other, always in descriptors 0, 1 and 2.
virtio_disk_init(n, c) ==
    /\ desc = LET zero == [d \in Desc |-> NoDesc]
              IN IF n = 0 THEN zero ELSE FillChain(zero, c, <<0, 1, 2>>, FALSE)
    /\ outhdr = [d \in Desc |-> [type |-> "IN", sector |-> 0]]
    /\ avail = [idx |-> n % IdxMod, ring |-> [d \in Desc |-> 0]]
    /\ used = [flags |-> 0, idx |-> n % IdxMod, ring |-> [d \in Desc |-> 0]]
    /\ used_idx = n % IdxMod
    /\ free = Desc

\* alloc_desc(): the lowest free descriptor; only called with one left.
alloc_desc(f) == CHOOSE d \in f : \A e \in f : d <= e

\* The bitmap after alloc_3_desc(), and the descriptors it has found.
alloc_3_desc_no_rollback(f) ==
    IF Cardinality(f) < 3 THEN [ok |-> FALSE, free |-> {}, idx |-> <<>>]
    ELSE LET a == alloc_desc(f)
             b == alloc_desc(f \ {a})
             c == alloc_desc(f \ {a, b})
         IN [ok |-> TRUE, free |-> f \ {a, b, c}, idx |-> <<a, b, c>>]

alloc_3_desc(f) ==
    IF Cardinality(f) < 3 THEN [ok |-> FALSE, free |-> f, idx |-> <<>>]
    ELSE LET a == alloc_desc(f)
             b == alloc_desc(f \ {a})
             c == alloc_desc(f \ {a, b})
         IN [ok |-> TRUE, free |-> f \ {a, b, c}, idx |-> <<a, b, c>>]

\* The descriptors of the chain that starts at id, by their distance from it.
Chain(id) ==
    LET walk[k \in 0 .. QN] ==
          IF k = 0 THEN id
          ELSE IF walk[k-1] = -1 \/ "NEXT" \notin desc[walk[k-1]].flags THEN -1
          ELSE desc[walk[k-1]].next
    IN walk

ChainDescs(id) == {Chain(id)[k] : k \in 0 .. QN} \ {-1}

\* The positions of a ring from index a up to index b.
Between(a, b) == {(a + k) % IdxMod : k \in 0 .. ((b - a + IdxMod) % IdxMod) - 1}

\* The heads in the used ring that virtio_disk_intr() has not seen yet.
Finished == {used.ring[i % QN] : i \in Between(used_idx, used.idx)}

\* free_chain() of the finished chains: free_desc() asserts for each descriptor
\* that it is not free (a chain in a circle, or two that share one, meet themselves).
free_chain(heads) ==
    /\ free' = free \cup UNION {ChainDescs(h) : h \in heads}
    /\ panicked' = \/ panicked
                   \/ \E h \in heads : \/ ChainDescs(h) \cap free # {}
                                       \/ Chain(h)[QN] # -1
                                       \/ \E g \in heads \ {h} : ChainDescs(g) \cap ChainDescs(h) # {}
                   \/ Cardinality(heads) # Cardinality(Between(used_idx, used.idx))

\* virtio_disk_intr(), at the start of schedule(): everything between used_idx and
\* used->idx is recycled.
virtio_disk_intr ==
    /\ free_chain(Finished)
    /\ used_idx' = used.idx

\* virtio_disk_req() up to the entry in the ring of available chains.
virtio_disk_req_keep_status(c, i) ==
    /\ outhdr' = [outhdr EXCEPT ![i[1]] = [type |-> IF req[c].write THEN "OUT" ELSE "IN",
                                           sector |-> req[c].sector]]
    /\ desc' = FillChain(desc, c, i, req[c].write)
    /\ avail' = [avail EXCEPT !.ring[avail.idx % QN] = i[1]]
    /\ UNCHANGED req

virtio_disk_req_one_header(c, i) ==
    /\ outhdr' = [outhdr EXCEPT ![0] = [type |-> IF req[c].write THEN "OUT" ELSE "IN",
                                        sector |-> req[c].sector]]
    /\ desc' = [FillChain(desc, c, i, req[c].write) EXCEPT ![i[1]].addr.at = 0]
    /\ req' = [req EXCEPT ![c].status = "NO_RESP"]
    /\ avail' = [avail EXCEPT !.ring[avail.idx % QN] = i[1]]

virtio_disk_req(c, i) ==
    /\ outhdr' = [outhdr EXCEPT ![i[1]] = [type |-> IF req[c].write THEN "OUT" ELSE "IN",
                                           sector |-> req[c].sector]]
    /\ desc' = FillChain(desc, c, i, req[c].write)
    /\ req' = [req EXCEPT ![c].status = "NO_RESP"]
    /\ avail' = [avail EXCEPT !.ring[avail.idx % QN] = i[1]]

Running == kern = "user" /\ ~panicked

\* syscall_dev_req: the request is laid out, or -E_NO_RING_DESC is returned.
sys_dev_req(c) ==
    /\ Running
    /\ ide[c].pc = "issue"
    /\ LET a == alloc_3_desc(free) IN
        /\ free' = a.free
        /\ IF a.ok
           THEN /\ virtio_disk_req(c, a.idx)
                /\ kern' = "publish"
                /\ ide' = [ide EXCEPT ![c].pc = "poll"]
           ELSE /\ ide' = [ide EXCEPT ![c].pc = "full"]
                /\ UNCHANGED <<outhdr, desc, avail, req, kern>>
    /\ UNCHANGED <<used_idx, panicked, used, calls, dst, disk, dev>>

\* avail->idx++, between its two barriers.
publish ==
    /\ kern = "publish"
    /\ avail' = [avail EXCEPT !.idx = (@ + 1) % IdxMod]
    /\ kern' = "notify"
    /\ UNCHANGED <<free, desc, outhdr, used_idx, panicked, used, req, ide, calls, dst, disk, dev>>

\* The device is told, unless it says that it looks at the ring by itself.
notify_inverted ==
    /\ kern = "notify"
    /\ dev' = IF used.flags = 1 THEN [dev EXCEPT !.phase = "run"] ELSE dev
    /\ used' = IF used.flags = 1 THEN [used EXCEPT !.flags = 1] ELSE used
    /\ kern' = "user"
    /\ UNCHANGED <<drv, req, ide, calls, dst, disk>>

notify ==
    /\ kern = "notify"
    /\ dev' = IF used.flags = 0 THEN [dev EXCEPT !.phase = "run"] ELSE dev
    /\ used' = IF used.flags = 0 THEN [used EXCEPT !.flags = 1] ELSE used
    /\ kern' = IF used.flags = 0 THEN "user" ELSE "flags"
    /\ UNCHANGED <<drv, req, ide, calls, dst, disk>>

\* The flags were not 0 and are loaded once more: the kernel panics unless they are
\* 1 now, and the device may have cleared them in between.
recheck ==
    /\ kern = "flags"
    /\ kern' = IF used.flags = 1 THEN "user" ELSE "panic"
    /\ UNCHANGED <<drv, used, req, ide, calls, dst, disk, dev>>

\* The timer interrupts user code and calls schedule().
schedule ==
    /\ Running
    /\ virtio_disk_intr
    /\ UNCHANGED <<desc, outhdr, avail, used, req, ide, calls, dst, kern, disk, dev>>

(***************************************************************************)
(* fs/ide.c: one request per sector, each retried until it is accepted and *)
(* then polled, with a yield between two attempts.                         *)
(***************************************************************************)

\* The stores to the request at the start of a turn of the loop.
Prepare(c, w, s, v) ==
    req' = [req EXCEPT ![c].sector = s, ![c].write = w, ![c].buf = IF w THEN v ELSE @]

\* read_block() and write_block() ask for the sectors of one block.
ide_call(c) == \E w \in BOOLEAN, secno \in Sector, v \in Src[c] :
    /\ Running
    /\ ide[c].pc = "idle"
    /\ secno % SECT2BLK = 0
    /\ calls[c] < MaxCalls[c] /\ calls' = [calls EXCEPT ![c] = @ + 1]
    /\ Prepare(c, w, secno, v)
    /\ ide' = [ide EXCEPT ![c] = [pc |-> "issue", left |-> SECT2BLK - 1]]
    /\ UNCHANGED <<drv, used, dst, kern, disk, dev>>

\* syscall_yield after -E_NO_RING_DESC; then the request is tried again.
ide_yield(c) ==
    /\ Running
    /\ ide[c].pc = "full"
    /\ virtio_disk_intr
    /\ ide' = [ide EXCEPT ![c].pc = "issue"]
    /\ UNCHANGED <<desc, outhdr, avail, used, req, calls, dst, kern, disk, dev>>

\* req->status is still 0xff: syscall_yield, and look again.
ide_wait(c) ==
    /\ Running
    /\ ide[c].pc = "poll" /\ req[c].status = "NO_RESP"
    /\ virtio_disk_intr
    /\ UNCHANGED <<desc, outhdr, avail, used, req, ide, calls, dst, kern, disk, dev>>

\* There is an answer: the sector is copied and the loop goes on.
ide_answered(c) ==
    /\ Running
    /\ ide[c].pc = "poll" /\ req[c].status # "NO_RESP"
    /\ ide' = [ide EXCEPT ![c].pc = IF ide[c].left = 0 THEN "idle" ELSE "next"]
    /\ dst' = IF req[c].write THEN dst ELSE [dst EXCEPT ![c] = req[c].buf]
    /\ UNCHANGED <<drv, used, req, calls, kern, disk, dev>>

ide_next(c) == \E v \in Src[c] :
    /\ Running
    /\ ide[c].pc = "next"
    /\ Prepare(c, req[c].write, req[c].sector + 1, v)
    /\ ide' = [ide EXCEPT ![c] = [pc |-> "issue", left |-> @.left - 1]]
    /\ UNCHANGED <<drv, used, calls, dst, kern, disk, dev>>

(***************************************************************************)
(* The device (external): it takes chains in the order of the ring, works  *)
(* on them in any order, and tells with used.flags whether it must be      *)
(* notified.  It reads the descriptors when it needs them.                 *)
(***************************************************************************)
DevStep == UNCHANGED <<drv, ide, calls, dst, kern>>

dev_take ==
    /\ dev.phase = "run" /\ dev.idx # avail.idx
    /\ dev' = [dev EXCEPT !.idx = (@ + 1) % IdxMod,
                          !.work = @ \cup {[head |-> avail.ring[dev.idx % QN], step |-> "taken"]}]
    /\ DevStep /\ UNCHANGED <<used, req, disk>>

\* Before it sleeps the device asks to be notified and looks once more.
dev_drained ==
    /\ dev.phase = "run" /\ dev.idx = avail.idx
    /\ dev' = [dev EXCEPT !.phase = "check"]
    /\ used' = [used EXCEPT !.flags = 0]
    /\ DevStep /\ UNCHANGED <<req, disk>>

dev_check ==
    /\ dev.phase = "check"
    /\ dev' = [dev EXCEPT !.phase = IF dev.idx # avail.idx THEN "run" ELSE "sleep"]
    /\ used' = [used EXCEPT !.flags = IF dev.idx # avail.idx THEN 1 ELSE 0]
    /\ DevStep /\ UNCHANGED <<req, disk>>

Advance(w, step) == [dev EXCEPT !.work = (@ \ {w}) \cup {[w EXCEPT !.step = step]}]

\* The transfer between the sector in the header and the buffer.
dev_transfer == \E w \in dev.work :
    /\ w.step = "taken"
    /\ LET h == outhdr[desc[w.head].addr.at]
           b == desc[desc[w.head].next].addr.at
       IN IF h.type = "OUT"
          THEN disk' = [disk EXCEPT ![h.sector] = req[b].buf] /\ UNCHANGED req
          ELSE req' = [req EXCEPT ![b].buf = disk[h.sector]] /\ UNCHANGED disk
    /\ dev' = Advance(w, "moved")
    /\ DevStep /\ UNCHANGED used

dev_status == \E w \in dev.work :
    /\ w.step = "moved"
    /\ req' = [req EXCEPT ![desc[desc[desc[w.head].next].next].addr.at].status = "OK"]
    /\ dev' = Advance(w, "answered")
    /\ DevStep /\ UNCHANGED <<used, disk>>

dev_used == \E w \in dev.work :
    /\ w.step = "answered"
    /\ used' = [used EXCEPT !.ring[used.idx % QN] = w.head, !.idx = (@ + 1) % IdxMod]
    /\ dev' = [dev EXCEPT !.work = @ \ {w}]
    /\ DevStep /\ UNCHANGED <<req, disk>>

-----------------------------------------------------------------------------
Init ==
    /\ \E n \in Served, c \in Client :
         virtio_disk_init(n, c) /\ dev = [phase |-> "sleep", idx |-> n % IdxMod, work |-> {}]
    /\ req = [c \in Client |-> [sector |-> 0, write |-> FALSE, status |-> "OK",
                                buf |-> CHOOSE v \in Value : TRUE]]
    /\ ide = [c \in Client |-> [pc |-> "idle", left |-> 0]]
    /\ dst = [c \in Client |-> CHOOSE v \in Value : TRUE]
    /\ kern = "user"
    /\ calls = [c \in Client |-> 0]
    /\ panicked = FALSE
    /\ disk = [s \in Sector |-> CHOOSE v \in Value : TRUE]

ide_step(c) == sys_dev_req(c) \/ ide_yield(c) \/ ide_wait(c) \/ ide_answered(c) \/ ide_next(c)

kernel == publish \/ notify \/ recheck

Next ==
    \/ \E c \in Client : ide_call(c) \/ ide_step(c)
    \/ kernel \/ schedule
    \/ dev_take \/ dev_drained \/ dev_check \/ dev_transfer \/ dev_status \/ dev_used

Spec == Init /\ [][Next]_vars

\* A runnable environment runs on (RunnableRuns of EnvLib), the kernel finishes
\* what it does, and the device answers what it has been told of.
FairSpec ==
    /\ Spec
    /\ \A c \in Client : WF_vars(ide_step(c))
    /\ WF_vars(kernel)
    /\ WF_vars(dev_take) /\ WF_vars(dev_drained) /\ WF_vars(dev_check)
    /\ WF_vars(dev_transfer) /\ WF_vars(dev_status) /\ WF_vars(dev_used)

-----------------------------------------------------------------------------
DiskTypeOK ==
    /\ free \subseteq Desc
    /\ desc \in [Desc -> [addr : Addr, next : Desc, flags : SUBSET {"NEXT", "WRITE"}]]
    /\ outhdr \in [Desc -> [type : {"IN", "OUT"}, sector : Sector]]
    /\ avail \in [idx : Idx, ring : [Desc -> Desc]]
    /\ used \in [flags : {0, 1}, idx : Idx, ring : [Desc -> Desc]]
    /\ used_idx \in Idx
    /\ req \in [Client -> [sector : Sector, write : BOOLEAN, status : {"NO_RESP", "OK"}, buf : Value]]
    /\ ide \in [Client -> [pc : {"idle", "issue", "full", "poll", "next"},
                           left : 0 .. SECT2BLK - 1]]
    /\ dst \in [Client -> Value] /\ calls \in [Client -> Nat]
    /\ kern \in {"user", "publish", "notify", "flags", "panic"}
    /\ panicked \in BOOLEAN
    /\ disk \in [Sector -> Value]
    /\ dev \in [phase : {"run", "check", "sleep"}, idx : Idx,
                work : SUBSET [head : Desc, step : {"taken", "moved", "answered"}]]

\* Every chain the driver has handed out and not recycled, with the place where
\* its head is recorded.
Outstanding ==
    (IF kern = "publish" THEN {<<"prepared", avail.idx, avail.ring[avail.idx % QN]>>} ELSE {})
    \cup {<<"avail", i, avail.ring[i % QN]>> : i \in Between(dev.idx, avail.idx)}
    \cup {<<w.step, 0, w.head>> : w \in dev.work}
    \cup {<<"used", i, used.ring[i % QN]>> : i \in Between(used_idx, used.idx)}

\* The descriptors are conserved (alloc_3_desc, free_chain, virtio_disk_intr):
\* each one is free or belongs to exactly one outstanding chain of three, so none
\* is lost, none is freed twice (the assertion of free_desc never fails), and no
\* ring entry is overwritten before it is read.
\* The state keeps its types, the wrapping indices included.
DescConserved ==
    /\ DiskTypeOK
    /\ ~panicked
    /\ \A o \in Outstanding : Cardinality(ChainDescs(o[3])) = 3 /\ ChainDescs(o[3]) \cap free = {}
    /\ \A o, p \in Outstanding : o # p => ChainDescs(o[3]) \cap ChainDescs(p[3]) = {}
    /\ Cardinality(free) + 3 * Cardinality(Outstanding) = QN

\* The page of a request is only in the device's hands while ide.c waits for its
\* status (fs/ide.c reuses the page at once, and virtio_disk_intr may recycle the
\* chain much later): an unanswered chain names the request of a polling client.
PageInUse ==
    \A o \in Outstanding : o[1] \notin {"answered", "used"} =>
        LET c == desc[desc[o[3]].next].addr.at
        IN ide[c].pc = "poll" /\ req[c].status = "NO_RESP"

\* The refinement: an operation on one sector takes effect when the device moves
\* the data, which is after ide.c has called and before it returns.
Moved(c) == \/ req[c].status = "OK"
            \/ \E w \in dev.work : w.step = "moved" /\ desc[desc[w.head].next].addr.at = c

PhaseOf(c) == IF ide[c].pc \in {"idle", "next"} THEN "idle"
              ELSE IF ide[c].pc = "poll" /\ Moved(c) THEN "done" ELSE "called"

CallOf(c) == [phase |-> PhaseOf(c), write |-> req[c].write, sector |-> req[c].sector,
              value |-> req[c].buf]

absCall == [c \in Client |-> CallOf(c)]

Abstract == INSTANCE SectorDisk WITH call <- absCall

\* ide_read and ide_write over the driver and an asynchronous device are atomic
\* operations on the sectors of the disk.
Linearizable == Abstract!Spec

\* Every call of ide_read or ide_write returns, also when the descriptors run out
\* (the retry loop of ide.c, the recycling in schedule(), the notification), unless
\* the kernel has panicked over the flags (disk_driver.c:238).
CallReturns ==
    \A c \in Client : ide[c].pc # "idle" ~> (ide[c].pc = "idle" \/ kern = "panic")

\* The flags never surprise virtio_disk_req().  This does not hold: the device may
\* clear them between the two loads.
FlagsAsExpected == kern # "panic"
=============================================================================
