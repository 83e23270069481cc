--------------------------------- MODULE Fs ---------------------------------
(***************************************************************************)
(* The file system of the server (fs/fs.c) from an image made by fsformat: *)
(* any sequence of the requests serve() can pass on to fs.c, stores of     *)
(* clients into the pages they share with the block cache, and crashes     *)
(* between any two writes of a block.                                      *)
(*                                                                         *)
(* Nothing takes a page back from the client that maps it: the page of a   *)
(* block that another client has freed, and that may be in another file by *)
(* now, can still be stored to.                                            *)
(*                                                                         *)
(* Four known defects end a behaviour (fs.bad says which): an indirect     *)
(* block that starts on the page of a freed block and so is not empty; one *)
(* that a client stores into through a page it had of the block before; a  *)
(* crash while an indirect block on the disk is older than the cached one, *)
(* which file_flush never writes; and a crash in check_write_block, which  *)
(* leaves a disk without a superblock.  Clients neither write nor truncate *)
(* a directory, and remove one only when no file below it is open.         *)
(***************************************************************************)
EXTENDS FsFormat

CONSTANTS Hosts,    \* host trees to make the image from
          Words,    \* data clients store
          Sizes,    \* sizes clients ask for
          Windows,  \* bound: files open at a time, each mapped in a window of its own
          MaxOps,   \* bound: crashes and requests, without open, in a behaviour
          ANY       \* a word, size or flag nothing is promised about

VARIABLES host,     \* the tree the image was made from
          opened,   \* what is open: [c, i, file, dir, size], c its window, i an index of
                    \* host, size the one its Fd page has
          mapped,   \* pages of windows: [c, i, n, b], b mapped as block n of regular file i
          want,     \* what each regular file must read as
          saved,    \* what each regular file must read as after a crash
          last,     \* the entry the last request was about (0: none)
          calm,     \* when it began, the indirect blocks on the disk were as cached
          nops

fsVars == <<fs, host, opened, mapped, want, saved, last, calm, nops>>

Path(i) == HostPath(host)[i]
Entries == DOMAIN host
Regular == {i \in Entries : host[i].type = "reg"}
FileBlocks == 0 .. NINDIRECT - 1
Blocks(size) == {n \in FileBlocks : n * BY2BLK < size}

\* What entry i of tree h holds.
Written(h, i) ==
    [live |-> TRUE, size |-> h[i].size,
     data |-> [n \in FileBlocks |-> IF n + 1 \in DOMAIN h[i].data THEN h[i].data[n + 1] ELSE ANY]]

FsInit ==
    /\ host \in Hosts
    /\ fs = fs_init(fsformat(host))
    /\ opened = {} /\ mapped = {} /\ last = 0 /\ calm = TRUE /\ nops = 0
    /\ want = [i \in Regular |-> Written(host, i)]
    /\ saved = want

\* The blocks as server state s sees them.
ViewOf(s) == [b \in Block |-> IF block_is_mapped(s, b) THEN s.cache[b] ELSE s.disk[b]]
View == ViewOf(fs)

\* Place of every struct File below the root, in the blocks d, level by level.
DirBlocks(d, f) ==
    IF FileIn(d, f).f_type # "dir" THEN {}
    ELSE {Ptr(d, f, n) : n \in Blocks(FileIn(d, f).f_size)} \cap (Block \ {0})
NextLevel(d, r) ==
    With(UNION {DirBlocks(d, f) \X Slot : f \in r.new}, LAMBDA new :
         [all |-> r.all \cup new, new |-> new])
Reach(d) ==
    LET upto[k \in 0 .. NBlocks] ==
          IF k = 0 THEN [all |-> {Root}, new |-> {Root}] ELSE NextLevel(d, upto[k - 1])
    IN upto[NBlocks]
Places(d) == Reach(d).all

\* The indirect blocks on disk d are as the blocks v have them.
Indexed(d, v) ==
    \A f \in Places(v) :
        With(FileIn(v, f).f_indirect, LAMBDA x : x # 0 => AsIndex(d[x]) = AsIndex(v[x]))
IndexSaved(d) == With(View, LAMBDA v : Indexed(d, v))

\* What every step has in common; open() and stores need no other bound.
Common(i) == /\ fs.bad = {}
             /\ last' = i /\ calm' = IndexSaved(fs.disk)
             /\ UNCHANGED host
Unbounded == Common(0) /\ UNCHANGED nops
Request(i) == Common(i) /\ nops < MaxOps /\ nops' = nops + 1
\* The server as the request finds it, with p pages of memory left.
Now(p) == [fs EXCEPT !.hist = {}, !.pages = p]

(***************************************************************************)
(* Requests.                                                               *)
(***************************************************************************)
Closed == Windows \ {o.c : o \in opened}

Open(i) ==
    LET w == file_open(Now(0), Path(i))
    IN /\ Closed # {}
       /\ Unbounded
       /\ fs' = w.s
       /\ opened' = IF w.r < 0 THEN opened
                    ELSE opened \cup {[c |-> Min(Closed), i |-> i, file |-> w.file, dir |-> w.dir,
                                       size |-> File(w.s, w.file).f_size]}
       /\ UNCHANGED <<mapped, want, saved>>

\* serve_map: the client gets the page of the block, which may be a new one.
GetBlock(o, n, p) ==
    LET g == file_get_block(Now(p), o.file, n)
    IN /\ Request(o.i)
       /\ fs' = [g.s EXCEPT !.pages = 0]
       /\ mapped' = IF g.r < 0 \/ File(fs, o.file).f_type # "reg" THEN mapped
                    ELSE {m \in mapped : m.c # o.c \/ m.n # n}
                         \cup {[c |-> o.c, i |-> o.i, n |-> n, b |-> g.r]}
       /\ UNCHANGED <<opened, want, saved>>

\* A client stores to a page of its window: no request, and no dirty bit in
\* the server's page table.  The page is that of block b, whoever has it now.
IndexBlocks(d) == {FileIn(d, f).f_indirect : f \in Places(d)}
\* The blocks of entry i that are block b.
BlocksAt(i, b) ==
    With(file_open(Now(0), Path(i)), LAMBDA w :
         IF w.r < 0 THEN {} ELSE {n \in FileBlocks : Ptr(ViewOf(w.s), w.file, n) = b})
Changed(x, i, m, v) ==
    With(BlocksAt(i, m.b), LAMBDA hit :
         [x EXCEPT !.data = [n \in FileBlocks |->
             IF n \notin hit THEN @[n]
             ELSE IF i = m.i /\ n = m.n /\ x.size # ANY /\ n \in Blocks(x.size) THEN v
             ELSE ANY]])

Store(m, v) ==
    LET s == [Now(0) EXCEPT !.cache[m.b] = DataBlock(v)]
    IN /\ Unbounded
       /\ fs' = IF m.b \in IndexBlocks(View) THEN Blame(s, "stale_window") ELSE s
       /\ want' = [i \in Regular |-> Changed(want[i], i, m, v)]
       /\ saved' = [i \in Regular |-> Changed(saved[i], i, m, ANY)]
       /\ UNCHANGED <<opened, mapped>>

\* serve_set_size.  The library of the client that asks sets the size in its
\* Fd page and unmaps its pages past the new end.
Cut(w, size) ==
    [w EXCEPT !.size = size,
              !.data = [n \in FileBlocks |->
                          IF w.size # ANY /\ n \in Blocks(w.size) \cap Blocks(size) THEN w.data[n] ELSE ANY]]

SetSize(o, size) ==
    /\ File(fs, o.file).f_type = "reg"
    /\ Request(o.i)
    /\ fs' = file_set_size(Now(0), o.file, o.dir, size)
    /\ opened' = (opened \ {o}) \cup {[o EXCEPT !.size = size]}
    /\ mapped' = {m \in mapped : m.c = o.c => m.n \in Blocks(size)}
    /\ want' = [want EXCEPT ![o.i] = Cut(@, size)]
    /\ saved' = [saved EXCEPT ![o.i] = Cut(@, size)]

\* The client's file_close: serve_dirty for every block of the size in the Fd
\* page, whatever it answers, then serve_close.
DirtyAll(s, f, size) ==
    LET nblocks == Cardinality(Blocks(size))
        upto[k \in 0 .. nblocks] ==
          IF k = 0 THEN s ELSE file_dirty(upto[k - 1], f, (k - 1) * BY2BLK).s
    IN upto[nblocks]

Close(o) ==
    /\ Request(o.i)
    /\ fs' = file_close(DirtyAll(Now(0), o.file, o.size), o.file, o.dir)
    /\ opened' = opened \ {o}
    /\ mapped' = {m \in mapped : m.c # o.c}
    /\ saved' = [i \in Regular |->
                   IF i # o.i THEN saved[i]
                   ELSE [saved[i] EXCEPT !.data = [n \in FileBlocks |->
                           IF n \in Blocks(o.size) THEN want[i].data[n] ELSE @[n]]]]
    /\ UNCHANGED want

Below(i) == {j \in Entries : IsPrefix(Path(i), Path(j))}

\* What is open must still be there afterwards.  Nothing is unmapped.
RemoveFile(i) ==
    LET f == file_remove(Now(0), Path(i))
        kept == Places(ViewOf(f.s))
        Gone(x) == [j \in Regular |-> IF j \in Below(i) THEN [Cut(x[j], 0) EXCEPT !.live = FALSE]
                                      ELSE x[j]]
    IN /\ Request(i)
       /\ \A o \in opened : o.file \in kept
       /\ fs' = f.s
       /\ want' = Gone(want) /\ saved' = Gone(saved)
       /\ UNCHANGED <<opened, mapped>>

Sync ==
    /\ Request(0)
    /\ fs' = fs_sync(Now(0))
    /\ UNCHANGED <<opened, mapped, want, saved>>

(***************************************************************************)
(* A crash between two writes of the last request, or of the last start,   *)
(* or after it, and the next start.  Of a file whose request was cut short *)
(* nothing is known.                                                       *)
(***************************************************************************)
Unknown == [live |-> ANY, size |-> ANY, data |-> [n \in FileBlocks |-> ANY]]

Crash(d) ==
    LET short == d # fs.disk /\ last # 0
        lost == [i \in Regular |-> IF short /\ i \in Below(last) THEN Unknown ELSE saved[i]]
    IN /\ Request(0)
       /\ fs' = IF d[1] = Oops THEN Blame(fs_init(d), "smashed")
                ELSE IF IndexSaved(d) /\ calm THEN fs_init(d)
                ELSE Blame(fs_init(d), "old_index")
       /\ opened' = {} /\ mapped' = {}
       /\ want' = lost /\ saved' = lost

Reboot == \E d \in Disks(fs) : Crash(d)

FsNext ==
    \/ \E i \in Entries : Open(i) \/ RemoveFile(i)
    \/ \E o \in opened :
         \/ \E n \in 0 .. NINDIRECT, p \in 0 .. 2 : GetBlock(o, n, p)
         \/ \E size \in Sizes : SetSize(o, size)
         \/ Close(o)
    \/ \E m \in mapped, v \in Words : Store(m, v)
    \/ Sync
    \/ Reboot

FsSpec == FsInit /\ [][FsNext]_fsVars

(***************************************************************************)
(* Properties.                                                             *)
(***************************************************************************)
\* The uses of blocks by the files in d: [f, n, b], n = -1 for the indirect
\* block itself; without the blocks behind indirect ones if ~deep.
UseOf(d, f, n) == IF n = -1 THEN FileIn(d, f).f_indirect ELSE Ptr(d, f, n)
Uses(d, deep) ==
    {u \in {[f |-> f, n |-> n, b |-> UseOf(d, f, n)] :
               f \in Places(d), n \in -1 .. (IF deep THEN NINDIRECT ELSE NDIRECT) - 1} : u.b # 0}

Sound(d, deep) ==
    With(Uses(d, deep), LAMBDA uses :
         \A u \in uses : /\ u.b \in Block \ d[2].free /\ u.b >= 3
                         /\ \A w \in uses : u.b = w.b => u = w)

\* The contents a block can have.
Name == {NoName, "/"} \cup UNION {{h[i].name : i \in DOMAIN h} : h \in Hosts}
FileType == [f_name : Name, f_size : Nat, f_type : {"reg", "dir"},
             f_direct : [0 .. NDIRECT - 1 -> Nat], f_indirect : Nat]
Content == [t : {"zero"}] \cup [t : {"data"}, v : Nat] \cup [t : {"dir"}, e : [Slot -> FileType]]
           \cup [t : {"index"}, p : [0 .. NINDIRECT - 1 -> Nat]]
           \cup [t : {"super"}, root : FileType] \cup [t : {"bitmap"}, free : SUBSET Block]
Image(d) ==
    /\ d \in [Block -> Content]
    /\ d[1].t = "super" /\ d[2].t = "bitmap" /\ d[2].free \subseteq Block \ {0, 1, 2}

\* Blocks the server can work with: the directories nest to a finite depth and
\* have no holes, and no block has two uses.
WellFormed(d) ==
    /\ Image(d)
    /\ Reach(d).new = {}
    /\ \A f \in Places(d) : FileIn(d, f).f_type = "dir" =>
           \A n \in Blocks(FileIn(d, f).f_size) : Ptr(d, f, n) # 0
    /\ Sound(d, TRUE)

\* fsformat makes such an image of every host tree, in which a path has a name.
ASSUME HostsAssumption ==
    /\ \A h \in Hosts : /\ WellFormed(fsformat(h))
                        /\ \A i \in DOMAIN h : Len(HostPath(h)[i]) \in Nat \ {0}
    /\ Words \subseteq Nat /\ Sizes \subseteq Nat /\ MaxOps \in Nat

\* What can have gone wrong.
Faults == {"panic", "stale_indirect", "stale_window", "old_index", "smashed"}

\* Type invariant: the superblock and the bitmap are cached and in use, a place
\* of an open file is an entry of a cached block.
FsTypeOK ==
    /\ fs.bad \subseteq Faults
    /\ DOMAIN fs.disk = Block /\ DOMAIN fs.cache = Block /\ fs.dirty \subseteq Block
    /\ "panic" \notin fs.bad => /\ fs.cache[1].t = "super"
                                /\ fs.cache[2].t = "bitmap" /\ bitmap(fs) \subseteq Block \ {0, 1, 2}
    /\ \A o \in opened : o.file = Root \/ (block_is_mapped(fs, o.file[1]) /\ o.file[2] \in Slot)
    /\ nops \in 0 .. MaxOps

\* No two places in the file system use the same block, and none uses a free
\* one or one of the reserved ones: alloc_block, file_clear_block and
\* file_truncate over any sequence of requests and of stores, also into pages
\* of freed blocks, full disk and memory included.
BlocksExclusive == fs.bad = {} => Sound(View, TRUE)

\* Every disk that a crash can leave at a write of a block, but for the ones
\* check_write_block has smashed: no indirect block and no block that a struct
\* File names itself has two owners or is free, and no block behind an indirect
\* one either, if the indirect blocks on the disk were as cached when the
\* request began.  file_set_size and file_remove flush the directory before
\* anybody can reuse what they freed.
DiskSound == fs.bad = {} => \A d \in Disks(fs) : d[1] # Oops => Sound(d, calm)

\* Up to the first of the known defects no request reads a free or a
\* non-existent block or writes one that is not mapped, and no start fails an
\* assertion: a request panics only once it has made an indirect block of a
\* stale page, and a start only on a disk that check_write_block has smashed.
\* Superblock and bitmap stay cached, and an open file stays an entry of a
\* cached block.
NeverPanics == FsTypeOK /\ ("panic" \in fs.bad => fs.bad \cap {"stale_indirect", "smashed"} # {})

\* Every file reads as what fsformat and the clients wrote, with its size, and
\* a removed one is not found; after a crash, as what had been closed, cut or
\* removed by then.  Nothing is said of a block that a client has stored to
\* through a page it got for another file, or for another block.
FilesKept ==
    fs.bad = {} => \A i \in Regular :
        With(file_open(Now(0), Path(i)), LAMBDA w :
            LET Nth(n) == With(file_map_block(w.s, w.file, n, FALSE), LAMBDA m :
                               read_block(m.s, m.r).cache[m.r])
            IN /\ want[i].live = FALSE => w.r = E_NOT_FOUND
               /\ want[i].live = TRUE =>
                    /\ w.r = 0 /\ File(w.s, w.file).f_type = "reg"
                    /\ want[i].size \in {ANY, File(w.s, w.file).f_size}
                    /\ \A n \in FileBlocks :
                         want[i].data[n] # ANY => Nth(n) = DataBlock(want[i].data[n]))

\* A block that file_get_block hands out where the file had none was free:
\* "If alloc is set and the block does not exist, allocate it."
AllocatesFresh ==
    [][\A m \in mapped' \ mapped, o \in opened :
          m.c = o.c /\ (\A u \in Uses(View, TRUE) : u.f # o.file \/ u.n # m.n)
              => block_is_free(fs, m.b)]_fsVars

\* A client that stores into its window changes no file but its own, whatever
\* the other clients have removed or cut.
StoresOwnFile ==
    [][\A m \in mapped, v \in Words : Store(m, v) =>
          \A i \in Regular \ {m.i} : want'[i] = want[i]]_fsVars
=============================================================================
