------------------------------- MODULE FsOps --------------------------------
(***************************************************************************)
(* The operations of the file system (fs/fs.c), each as an operator from a *)
(* state of the file server to [s, r]: the state it leaves and its result  *)
(* (negative for an error, as in the code).                                *)
(*                                                                         *)
(* A block holds zeros, file data (a word v, repeated), entries of a       *)
(* directory, block numbers, the superblock or the bitmap.  The contents   *)
(* say which, and the code may well look at a block as something else.     *)
(* A file is named by the place of its struct File: block and slot.        *)
(***************************************************************************)
EXTENDS Integers, Sequences, FiniteSets, SequencesExt

CONSTANTS NBlocks,    \* s_nblocks
          NDIRECT,    \* direct pointers of a file
          NINDIRECT,  \* block numbers in an indirect block
          FILE2BLK,   \* entries of a directory block
          BY2BLK      \* bytes of a block

ASSUME FsAssumption ==
    /\ NBlocks \in Nat /\ NBlocks > 3
    /\ NDIRECT \in Nat \ {0} /\ NINDIRECT \in Nat /\ NINDIRECT >= NDIRECT
    /\ FILE2BLK \in Nat \ {0} /\ BY2BLK \in Nat \ {0}

VARIABLE fs           \* the state of the server, described below

Block == 0 .. NBlocks - 1
Slot  == 0 .. FILE2BLK - 1

E_NO_MEM    == -4
E_NOT_FOUND == -10
E_NO_DISK   == -8
E_INVAL     == -3

(***************************************************************************)
(* Contents of blocks.                                                     *)
(***************************************************************************)
ZeroBlock  == [t |-> "zero"]
DataBlock(v) == [t |-> "data", v |-> v]
NoBlock == [t |-> "none"]    \* in the cache: the block is not mapped

NoName == ""
NoFile == [f_name |-> NoName, f_size |-> 0, f_type |-> "reg",
           f_direct |-> [i \in 0 .. NDIRECT - 1 |-> 0], f_indirect |-> 0]
NoPtrs == [i \in 0 .. NINDIRECT - 1 |-> 0]

\* A block as entries of a directory, and as block numbers.
AsDir(c) == IF c.t = "dir" THEN c.e ELSE [i \in Slot |-> NoFile]
AsIndex(c) == CASE c.t = "index" -> c.p
                [] c.t = "data" -> [i \in 0 .. NINDIRECT - 1 |-> c.v]
                [] OTHER -> NoPtrs

Root == <<1, 0>>
NoPlace == <<0, 0>>

\* The struct File at place f of the blocks d, and d with another one there.
FileIn(d, f) == IF f = Root THEN d[1].root ELSE AsDir(d[f[1]])[f[2]]
PutFile(d, f, file) ==
    IF f = Root THEN [d EXCEPT ![1].root = file]
    ELSE [d EXCEPT ![f[1]] = [t |-> "dir", e |-> [AsDir(d[f[1]]) EXCEPT ![f[2]] = file]]]

\* Pointer n of file f in the blocks d, 0 where an indirect block is missing.
Ptr(d, f, n) ==
    IF n < NDIRECT THEN FileIn(d, f).f_direct[n]
    ELSE IF FileIn(d, f).f_indirect = 0 THEN 0
    ELSE AsIndex(d[FileIn(d, f).f_indirect])[n]

(***************************************************************************)
(* The state of the server: the disk, the cached blocks, the blocks whose  *)
(* page has the dirty bit, the disk before each write of the current       *)
(* operation, the pages memory still has, and all that has gone wrong.     *)
(* The hardware sets the dirty bit at every store of the server, also when *)
(* ide_read fills the page, and nothing clears it.  Memory runs out only   *)
(* in map_block: read_block ignores what syscall_mem_alloc says.           *)
(***************************************************************************)
Ok(s) == [s |-> s, r |-> 0]
Ret(s, r) == [s |-> s, r |-> r]
\* Goes on with x unless it is an error, as the code's try(); and with any x.
Try(x, F(_)) == IF x.r < 0 THEN x ELSE F(x)
With(x, F(_)) == F(x)
Blame(s, what) == [s EXCEPT !.bad = @ \cup {what}]

bitmap(s) == s.cache[2].free
block_is_free(s, b) == b \in bitmap(s)
block_is_mapped(s, b) == s.cache[b] # NoBlock
block_is_dirty(s, b) == block_is_mapped(s, b) /\ b \in s.dirty

File(s, f) == FileIn(s.cache, f)
StoreFile(s, f, file) ==
    [s EXCEPT !.cache = PutFile(@, f, file), !.dirty = @ \cup {f[1]}]

dirty_block(s, b) == IF ~block_is_mapped(s, b) THEN Ret(s, E_NOT_FOUND)
                     ELSE Ok([s EXCEPT !.dirty = @ \cup {b}])

write_block(s, b) ==
    IF ~block_is_mapped(s, b) THEN Blame(s, "panic")
    ELSE [s EXCEPT !.disk[b] = s.cache[b], !.hist = @ \cup {s.disk}]

\* The disk as it is, and as it was before each write of the operation.
Disks(s) == s.hist \cup {s.disk}

\* The second half of read_block: ide_read into a new page.
LoadBlock(s, b) == IF block_is_mapped(s, b) THEN s
                   ELSE [s EXCEPT !.cache[b] = s.disk[b], !.dirty = @ \cup {b}]

read_block(s, b) ==
    IF b \notin Block \/ block_is_free(s, b) THEN Blame(s, "panic") ELSE LoadBlock(s, b)

map_block(s, b) ==
    IF block_is_mapped(s, b) THEN Ok(s)
    ELSE IF s.pages = 0 THEN Ret(s, E_NO_MEM)
    ELSE Ok([s EXCEPT !.cache[b] = ZeroBlock, !.pages = @ - 1])

SetBitmap(s, f) == [s EXCEPT !.cache[2].free = f, !.dirty = @ \cup {2}]

free_block(s, b) == IF b = 0 \/ b \notin Block THEN s ELSE SetBitmap(s, bitmap(s) \cup {b})

\* The lowest free block from 3 on; the bitmap goes to the disk at once.
Usable(s) == {b \in bitmap(s) : b >= 3}

alloc_block_num_keep(s) ==
    IF Usable(s) = {} THEN Ret(s, E_NO_DISK) ELSE Ret(write_block(s, 2), Min(Usable(s)))

alloc_block_num(s) ==
    IF Usable(s) = {} THEN Ret(s, E_NO_DISK)
    ELSE With(Min(Usable(s)), LAMBDA b :
              Ret(write_block(SetBitmap(s, bitmap(s) \ {b}), 2), b))

alloc_block(s) ==
    Try(alloc_block_num(s), LAMBDA n :
        With(map_block(n.s, n.r), LAMBDA m :
             IF m.r < 0 THEN Ret(free_block(m.s, n.r), m.r) ELSE Ret(m.s, n.r)))

(***************************************************************************)
(* Starting: read_super, check_write_block (which smashes the superblock   *)
(* on the disk and restores it, and leaves a copy in block 0) and          *)
(* read_bitmap.                                                            *)
(***************************************************************************)
Oops == [t |-> "oops"]

read_super(s) ==
    With(LoadBlock(s, 1), LAMBDA x : IF x.cache[1].t = "super" THEN x ELSE Blame(x, "panic"))

check_write_block(s) ==
    LET Smash(x)   == write_block([x EXCEPT !.cache[0] = x.cache[1], !.cache[1] = Oops], 1)
        Reread(x)  == LoadBlock([x EXCEPT !.cache[1] = NoBlock], 1)
        Restore(x) == write_block([x EXCEPT !.cache[1] = x.cache[0]], 1)
    IN With(Reread(Smash(LoadBlock(s, 0))), LAMBDA x :
            IF x.cache[1] = Oops THEN Restore(x) ELSE Blame(x, "panic"))

read_bitmap(s) ==
    With(LoadBlock(s, 2), LAMBDA x :
         IF {0, 1, 2} \cap bitmap(x) = {} THEN x ELSE Blame(x, "panic"))

fs_init(d) ==
    LET s0 == [disk |-> d, cache |-> [b \in Block |-> NoBlock], dirty |-> {}, hist |-> {},
               pages |-> 0, bad |-> {}]
    IN With(read_super(s0), LAMBDA s :
            IF s.bad = {} THEN read_bitmap(check_write_block(s)) ELSE s)

(***************************************************************************)
(* Blocks of a file.                                                       *)
(***************************************************************************)
\* A new indirect block a.r of file f.  alloc_block keeps whatever a reused
\* page holds: one that does not start empty is recorded.
NewIndirect(a, f) ==
    StoreFile(IF a.s.cache[a.r] = ZeroBlock THEN a.s ELSE Blame(a.s, "stale_indirect"),
              f, [File(a.s, f) EXCEPT !.f_indirect = a.r])

\* Makes sure that the slot for block n of file f exists, which may need an
\* indirect block.
file_block_walk(s, f, n, alloc) ==
    IF n < NDIRECT THEN Ok(s)
    ELSE IF n >= NINDIRECT THEN Ret(s, E_INVAL)
    ELSE IF File(s, f).f_indirect # 0 THEN Ok(read_block(s, File(s, f).f_indirect))
    ELSE IF ~alloc THEN Ret(s, E_NOT_FOUND)
    ELSE Try(alloc_block(s), LAMBDA a : Ok(read_block(NewIndirect(a, f), a.r)))

\* A store to the slot that file_block_walk has found.
StorePtr(s, f, n, b) ==
    IF n < NDIRECT THEN StoreFile(s, f, [File(s, f) EXCEPT !.f_direct[n] = b])
    ELSE LET i == File(s, f).f_indirect
         IN [s EXCEPT !.cache[i] = [t |-> "index", p |-> [AsIndex(s.cache[i]) EXCEPT ![n] = b]],
                      !.dirty = @ \cup {i}]

file_map_block(s, f, n, alloc) ==
    Try(file_block_walk(s, f, n, alloc), LAMBDA w :
        IF Ptr(w.s.cache, f, n) # 0 THEN Ret(w.s, Ptr(w.s.cache, f, n))
        ELSE IF ~alloc THEN Ret(w.s, E_NOT_FOUND)
        ELSE Try(alloc_block(w.s), LAMBDA a : Ret(StorePtr(a.s, f, n, a.r), a.r)))

file_clear_block_keep_ptr(s, f, n) ==
    With(file_block_walk(s, f, n, FALSE), LAMBDA w :
         IF w.r < 0 \/ Ptr(w.s.cache, f, n) = 0 THEN w.s ELSE free_block(w.s, Ptr(w.s.cache, f, n)))

file_clear_block(s, f, n) ==
    With(file_block_walk(s, f, n, FALSE), LAMBDA w :
         IF w.r < 0 \/ Ptr(w.s.cache, f, n) = 0 THEN w.s
         ELSE StorePtr(free_block(w.s, Ptr(w.s.cache, f, n)), f, n, 0))

\* The result is the number of the block, which stands for its address.
file_get_block(s, f, n) ==
    Try(file_map_block(s, f, n, TRUE), LAMBDA m : Ret(read_block(m.s, m.r), m.r))

file_dirty(s, f, offset) ==
    Try(file_map_block(s, f, offset \div BY2BLK, FALSE), LAMBDA m : dirty_block(m.s, m.r))

(***************************************************************************)
(* Directories and paths (sequences of names).                             *)
(***************************************************************************)
\* The blocks of the directory are read until one has the name.
Hits(g, name) == {k \in Slot : AsDir(g.s.cache[g.r])[k].f_name = name}
Look(acc, dir, name, i) ==
    IF acc.r # E_NOT_FOUND THEN acc
    ELSE With(file_get_block(acc.s, dir, i), LAMBDA g :
              IF g.r < 0 THEN [s |-> g.s, r |-> g.r, file |-> NoPlace]
              ELSE IF Hits(g, name) = {} THEN [s |-> g.s, r |-> E_NOT_FOUND, file |-> NoPlace]
              ELSE [s |-> g.s, r |-> 0, file |-> <<g.r, Min(Hits(g, name))>>])

dir_lookup(s, dir, name) ==
    LET nblock == File(s, dir).f_size \div BY2BLK
        upto[i \in 0 .. nblock] ==
          IF i = 0 THEN [s |-> s, r |-> E_NOT_FOUND, file |-> NoPlace]
          ELSE Look(upto[i - 1], dir, name, i - 1)
    IN upto[nblock]

\* The file at a path and its directory, which dir_lookup also keeps in f_dir.
Walk(acc, name) ==
    IF acc.r < 0 THEN acc
    ELSE IF File(acc.s, acc.file).f_type # "dir" THEN [acc EXCEPT !.r = E_NOT_FOUND]
    ELSE With(dir_lookup(acc.s, acc.file, name), LAMBDA l :
              [s |-> l.s, r |-> l.r, file |-> l.file, dir |-> acc.file])

walk_path(s, path) ==
    LET upto[k \in 0 .. Len(path)] ==
          IF k = 0 THEN [s |-> s, r |-> 0, file |-> Root, dir |-> NoPlace]
          ELSE Walk(upto[k - 1], path[k])
    IN upto[Len(path)]

file_open(s, path) == walk_path(s, path)

(***************************************************************************)
(* Sizes, flushing, removing.                                              *)
(***************************************************************************)
FlushBlock(s, f, n) ==
    With(file_map_block(s, f, n, FALSE), LAMBDA m :
         IF m.r < 0 \/ ~block_is_dirty(m.s, m.r) THEN m.s ELSE write_block(m.s, m.r))

\* The first n blocks of the file.
FlushBlocks(s, f, n) ==
    LET upto[k \in 0 .. n] == IF k = 0 THEN s ELSE FlushBlock(upto[k - 1], f, k - 1)
    IN upto[n]

file_flush_short(s, f) == FlushBlocks(s, f, File(s, f).f_size \div BY2BLK)

file_flush(s, f) == FlushBlocks(s, f, File(s, f).f_size \div BY2BLK + 1)

FlushDir(s, dir) == IF dir = NoPlace THEN s ELSE file_flush(s, dir)

DropIndirect(s, f) ==
    IF File(s, f).f_indirect = 0 THEN s
    ELSE StoreFile(free_block(s, File(s, f).f_indirect), f, [File(s, f) EXCEPT !.f_indirect = 0])
StoreSize(s, f, size) == StoreFile(s, f, [File(s, f) EXCEPT !.f_size = size])

\* The blocks of the file from lo on and below hi.
ClearBlocks(s, f, lo, hi) ==
    LET upto[k \in 0 .. hi] ==
          IF k = 0 THEN s
          ELSE IF k <= lo THEN upto[k - 1] ELSE file_clear_block(upto[k - 1], f, k - 1)
    IN upto[hi]

BlocksFor(size) == IF size = 0 THEN 0 ELSE size \div BY2BLK + 1

file_truncate(s, f, newsize) ==
    With(ClearBlocks(s, f, BlocksFor(newsize), File(s, f).f_size \div BY2BLK + 1), LAMBDA x :
         StoreSize(IF BlocksFor(newsize) <= NDIRECT THEN DropIndirect(x, f) ELSE x, f, newsize))

Resized(s, f, newsize) ==
    With(IF File(s, f).f_size > newsize THEN file_truncate(s, f, newsize) ELSE s, LAMBDA x :
         StoreSize(x, f, newsize))

file_set_size_unflushed(s, f, dir, newsize) == Resized(s, f, newsize)

file_set_size(s, f, dir, newsize) == FlushDir(Resized(s, f, newsize), dir)

\* Every dirty block in turn.
fs_sync(s) ==
    LET Upto(n) == [b \in Block |-> IF b < n /\ block_is_dirty(s, b) THEN s.cache[b] ELSE s.disk[b]]
    IN [s EXCEPT !.disk = Upto(NBlocks), !.hist = @ \cup {Upto(n) : n \in Block}]

file_close(s, f, dir) == FlushDir(file_flush(s, f), dir)

file_remove(s, path) ==
    Try(walk_path(s, path), LAMBDA w :
        With(file_truncate(w.s, w.file, 0), LAMBDA x :
             Ok(file_close(StoreFile(x, w.file, [File(x, w.file) EXCEPT !.f_name = NoName]),
                           w.file, w.dir))))
=============================================================================
