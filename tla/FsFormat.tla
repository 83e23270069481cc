------------------------------ MODULE FsFormat ------------------------------
(***************************************************************************)
(* The host tool that makes the disk image (tools/fsformat.c), as an       *)
(* operator from a tree of host files to the blocks of the image.          *)
(*                                                                         *)
(* The tree is the sequence of its entries in the order in which main and  *)
(* write_directory come to them: a directory before what it holds.  An     *)
(* entry names its directory by its place in the sequence (0: the root),   *)
(* and a file has one word of data per block.  The work in progress w has  *)
(* the blocks, nextbno, and the place of the struct File of every entry    *)
(* written so far.                                                         *)
(***************************************************************************)
EXTENDS FsOps

init_disk ==
    [disk |-> [b \in Block |->
                 CASE b = 1 -> [t |-> "super", root |-> [NoFile EXCEPT !.f_name = "/", !.f_type = "dir"]]
                   [] b = 2 -> [t |-> "bitmap", free |-> Block]
                   [] OTHER -> ZeroBlock],
     nextbno |-> 3,
     at |-> <<>>]

\* The block handed out is the old nextbno.
next_block(w) == [w EXCEPT !.nextbno = @ + 1]

flush_bitmap(w) == [w EXCEPT !.disk[2].free = {b \in @ : b >= w.nextbno}]

\* Block bno becomes block nblk of the file at place f.
save_block_link(w, f, nblk, bno) ==
    LET file == FileIn(w.disk, f)
        v == IF file.f_indirect # 0 THEN w
             ELSE [next_block(w) EXCEPT !.disk = PutFile(@, f, [file EXCEPT !.f_indirect = w.nextbno])]
        i == FileIn(v.disk, f).f_indirect
    IN IF nblk < NDIRECT
       THEN [w EXCEPT !.disk = PutFile(@, f, [file EXCEPT !.f_direct[nblk] = bno])]
       ELSE [v EXCEPT !.disk[i] = [t |-> "index", p |-> [AsIndex(@) EXCEPT ![nblk] = bno]]]

make_link_block(w, dirf, nblk) ==
    LET v == save_block_link(next_block(w), dirf, nblk, w.nextbno)
        file == FileIn(v.disk, dirf)
    IN [v EXCEPT !.disk = PutFile(@, dirf, [file EXCEPT !.f_size = @ + BY2BLK])]

\* Block i of the directory at place dirf.
LinkBlock(w, dirf, i) ==
    LET file == FileIn(w.disk, dirf)
    IN IF i < NDIRECT THEN file.f_direct[i] ELSE AsIndex(w.disk[file.f_indirect])[i]

\* The first unused struct File of the directory, in a new block if need be;
\* its place is added to w.at.
create_file(w, dirf) ==
    LET nblk == FileIn(w.disk, dirf).f_size \div BY2BLK
        Unused(i) == {k \in Slot : AsDir(w.disk[LinkBlock(w, dirf, i)])[k].f_name = NoName}
        room == {i \in 0 .. nblk - 1 : Unused(i) # {}}
        i == CHOOSE i \in room : \A j \in room : i <= j
        k == CHOOSE k \in Unused(i) : \A j \in Unused(i) : k <= j
    IN IF room # {} THEN [w EXCEPT !.at = Append(@, <<LinkBlock(w, dirf, i), k>>)]
       ELSE [make_link_block(w, dirf, nblk) EXCEPT !.at = Append(@, <<w.nextbno, 0>>)]

\* One turn of the read loop: the data lands in the block that next_block takes.
ReadInto(w, f, iblk, v) ==
    save_block_link(next_block([w EXCEPT !.disk[w.nextbno] = DataBlock(v)]), f, iblk, w.nextbno)

write_file(w, dirf, e) ==
    LET c == create_file(w, dirf)
        f == Last(c.at)
        named == [c EXCEPT !.disk = PutFile(@, f, [FileIn(@, f) EXCEPT !.f_name = e.name,
                                                    !.f_size = e.size, !.f_type = "reg"])]
        Turn(acc, i) == ReadInto(acc, f, i - 1, e.data[i])
    IN FoldLeft(Turn, named, [i \in DOMAIN e.data |-> i])

write_directory(w, dirf, e) ==
    LET c == create_file(w, dirf)
        f == Last(c.at)
    IN [c EXCEPT !.disk = PutFile(@, f, [FileIn(@, f) EXCEPT !.f_name = e.name, !.f_type = "dir"])]

\* main: every entry in turn, then the bitmap.
fsformat(host) ==
    LET Write(w, e) ==
          LET dirf == IF e.in = 0 THEN Root ELSE w.at[e.in]
          IN IF e.type = "dir" THEN write_directory(w, dirf, e) ELSE write_file(w, dirf, e)
    IN flush_bitmap(FoldLeft(Write, init_disk, host)).disk

(***************************************************************************)
(* What the tree means, independently of blocks: the path of an entry.     *)
(***************************************************************************)
HostPath(host) ==
    LET path[i \in 0 .. Len(host)] ==
          IF i = 0 THEN <<>> ELSE Append(path[host[i].in], host[i].name)
    IN path
=============================================================================
