------------------------------- MODULE FsServ -------------------------------
(***************************************************************************)
(* The file server (fs/serv.c) and its clients' library (user/lib/fsipc.c, *)
(* user/lib/file.c), over the file system of FsOps.                        *)
(*                                                                         *)
(* Every request takes three steps that interleave with those of the other *)
(* clients: ipc_send to the server, which only succeeds when the server    *)
(* receives; the server's work; the reply, which only succeeds when the    *)
(* client receives.  Replies carry pages: the Fd page of an entry of the   *)
(* open table, shared by the server and the client, and the cached page of *)
(* a block.                                                                *)
(*                                                                         *)
(* A client uses one descriptor and maps no page of a file but in its      *)
(* window (fd2data): a program with more of them is as many clients, whose *)
(* calls the model interleaves more freely than the program does.  A       *)
(* client that dies does so between two calls.                             *)
(*                                                                         *)
(* A behaviour is followed up to the first open() for which the server has *)
(* no entry or no page: serve_open then answers twice, and goes on with an *)
(* uninitialised pointer if the file exists.                               *)
(***************************************************************************)
EXTENDS FsFormat

CONSTANTS Clients,
          MAXOPEN,
          Host,       \* the tree of the image
          Names,      \* paths clients ask for
          Lens,       \* sizes clients ask for
          MaxCalls,   \* bound: calls of the library in a behaviour
          ANON,       \* a page of the client's own
          NULL

ASSUME FsServAssumption ==
    /\ MAXOPEN \in Nat \ {0} /\ MaxCalls \in Nat
    /\ IsFiniteSet(Clients) /\ NULL \notin Nat

VARIABLES opentab,  \* entry -> [o_file, dir, o_fileid, used]: used if o_ff is mapped
          ff,       \* entry -> what its Fd page holds: [f_fileid, f_size]
          srv,      \* the server: [st, from, req, out], out the replies to send
          cl,       \* client -> the call it is in
          fd,       \* client -> the entry whose Fd page it maps, or NULL
          win,      \* client -> window: block of the file -> block, ANON or NULL
          got,      \* client -> what its open() got: [id, file] (history)
          cut,      \* clients whose file was cut under them: by another, by
                    \* remove, or by the way back of a failed ftruncate (history)
          refused,  \* open_alloc has failed (history)
          ncalls

servVars == <<fs, opentab, ff, srv>>
vars == <<fs, opentab, ff, srv, cl, fd, win, got, cut, refused, ncalls>>

Entry == 0 .. MAXOPEN - 1
Window == 0 .. NINDIRECT - 1
E_MAX_OPEN == -9

Up(size) == (size + BY2BLK - 1) \div BY2BLK    \* ROUND(size, BY2PG), in blocks

(***************************************************************************)
(* The server.                                                             *)
(***************************************************************************)
pageref(e) == IF ~opentab[e].used THEN 0 ELSE 1 + Cardinality({c \in Clients : fd[c] = e})

\* The entry open_alloc takes, NULL if there is none.
open_alloc_shared ==
    LET free == {e \in Entry : pageref(e) \in {0, 1, 2}}
    IN IF free = {} THEN NULL ELSE CHOOSE e \in free : \A x \in free : e <= x

open_alloc ==
    LET free == {e \in Entry : pageref(e) \in {0, 1}}
    IN IF free = {} THEN NULL ELSE CHOOSE e \in free : \A x \in free : e <= x

\* How open_alloc can fail: the table is full, or there is no memory for the
\* page of an entry that nobody has used yet.
OpenErrors ==
    IF open_alloc = NULL THEN {E_MAX_OPEN}
    ELSE IF opentab[open_alloc].used THEN {} ELSE {E_NO_MEM}

\* The entry of a file id, NULL for -E_INVAL.
open_lookup(id) ==
    LET e == id % MAXOPEN
    IN IF pageref(e) = 1 \/ opentab[e].o_fileid # id THEN NULL ELSE e

Working(t) == srv.st = "work" /\ srv.req.t = t
Answer(r, page) == [to |-> srv.from, r |-> r, page |-> page]
\* The server leaves the file system as s and goes on to send the replies.
Finish(s, out) ==
    /\ fs' = [s EXCEPT !.hist = {}]
    /\ srv' = [srv EXCEPT !.st = "reply", !.out = out]
    /\ UNCHANGED <<cl, fd, win, got, ncalls>>

serve_init ==
    /\ opentab = [e \in Entry |-> [o_file |-> NULL, dir |-> NULL, o_fileid |-> e, used |-> FALSE]]
    /\ ff = [e \in Entry |-> [f_fileid |-> 0, f_size |-> 0]]

\* When open_alloc fails the server answers and goes on, with an uninitialised
\* pointer once the file is found.
serve_open ==
    LET e == open_alloc
        taken == [opentab EXCEPT ![e].o_fileid = @ + MAXOPEN, ![e].used = TRUE]
        w == file_open(fs, srv.req.path)
    IN /\ Working("open")
       /\ \/ \E r \in OpenErrors :
               /\ Finish(IF w.r < 0 THEN w.s ELSE Blame(w.s, "wild pointer"),
                         <<Answer(r, NULL), Answer(w.r, NULL)>>)
               /\ refused' = TRUE
               /\ UNCHANGED <<opentab, ff>>
          \/ /\ e # NULL /\ w.r < 0
             /\ Finish(w.s, <<Answer(w.r, NULL)>>)
             /\ opentab' = taken
             /\ ff' = [ff EXCEPT ![e] = [f_fileid |-> 0, f_size |-> 0]]
             /\ UNCHANGED refused
          \/ /\ e # NULL /\ w.r >= 0
             /\ Finish(w.s, <<Answer(0, [fd |-> e])>>)
             /\ opentab' = [taken EXCEPT ![e].o_file = w.file, ![e].dir = w.dir]
             /\ ff' = [ff EXCEPT ![e] = [f_fileid |-> taken[e].o_fileid,
                                         f_size |-> File(w.s, w.file).f_size]]
             /\ UNCHANGED refused
       /\ UNCHANGED cut

\* The other requests name an open file, or get -E_INVAL.
Opened == opentab[open_lookup(srv.req.id)]
FinishOpened(s, r, page) ==
    IF open_lookup(srv.req.id) = NULL THEN Finish(fs, <<Answer(E_INVAL, NULL)>>)
    ELSE Finish(s, <<Answer(r, page)>>)

serve_map ==
    /\ Working("map")
    /\ LET g == file_get_block([fs EXCEPT !.pages = NBlocks], Opened.o_file, srv.req.n)
       IN IF g.r < 0 THEN FinishOpened([g.s EXCEPT !.pages = 0], g.r, NULL)
          ELSE FinishOpened([g.s EXCEPT !.pages = 0], 0, [blk |-> g.r])
    /\ UNCHANGED <<opentab, ff, cut, refused>>

\* The clients that have the file at place f open.
Holders(f) == {c \in Clients : fd[c] # NULL /\ opentab[fd[c]].o_file = f}

serve_set_size ==
    /\ Working("set")
    /\ FinishOpened(file_set_size(fs, Opened.o_file, Opened.dir, srv.req.size), 0, NULL)
    /\ cut' = cut \cup (Holders(Opened.o_file) \ {srv.from})
    /\ UNCHANGED <<opentab, ff, refused>>

serve_close ==
    /\ Working("close")
    /\ FinishOpened(file_close(fs, Opened.o_file, Opened.dir), 0, NULL)
    /\ UNCHANGED <<opentab, ff, cut, refused>>

serve_dirty ==
    /\ Working("dirty")
    /\ LET d == file_dirty(fs, Opened.o_file, srv.req.n * BY2BLK) IN FinishOpened(d.s, d.r, NULL)
    /\ UNCHANGED <<opentab, ff, cut, refused>>

serve_remove ==
    /\ Working("remove")
    /\ LET d == file_remove(fs, srv.req.path)
           w == walk_path(fs, srv.req.path)
       IN /\ Finish(d.s, <<Answer(d.r, NULL)>>)
          /\ cut' = IF d.r < 0 THEN cut ELSE cut \cup Holders(w.file)
    /\ UNCHANGED <<opentab, ff, refused>>

\* To the first client, whoever has asked.
serve_sync_misdirected ==
    /\ Working("sync")
    /\ Finish(fs_sync(fs), <<[Answer(0, NULL) EXCEPT !.to = CHOOSE c \in Clients : TRUE]>>)
    /\ UNCHANGED <<opentab, ff, cut, refused>>

serve_sync_twice ==
    /\ Working("sync")
    /\ Finish(fs_sync(fs), <<Answer(0, NULL), Answer(0, NULL)>>)
    /\ UNCHANGED <<opentab, ff, cut, refused>>

serve_sync ==
    /\ Working("sync")
    /\ Finish(fs_sync(fs), <<Answer(0, NULL)>>)
    /\ UNCHANGED <<opentab, ff, cut, refused>>

Serve == serve_open \/ serve_map \/ serve_set_size \/ serve_close
         \/ serve_dirty \/ serve_remove \/ serve_sync

(***************************************************************************)
(* The client: a call is a loop of requests.  The record has the function  *)
(* called, its step, a loop index, and the sizes ftruncate keeps.          *)
(***************************************************************************)
Idle == [st |-> "idle", op |-> "none", ph |-> "none", n |-> 0, size |-> 0, old |-> 0, path |-> <<>>]

\* What fsipc sends for the step client c is at.
Req(c) ==
    LET id == IF fd[c] = NULL THEN 0 ELSE ff[fd[c]].f_fileid
    IN CASE cl[c].ph \in {"open", "remove"} -> [t |-> cl[c].ph, path |-> cl[c].path]
         [] cl[c].ph \in {"map", "dirty"}   -> [t |-> cl[c].ph, id |-> id, n |-> cl[c].n]
         [] cl[c].ph = "set"                -> [t |-> "set", id |-> id, size |-> cl[c].size]
         [] cl[c].ph = "undo"               -> [t |-> "set", id |-> id, size |-> cl[c].old]
         [] cl[c].ph = "close"              -> [t |-> "close", id |-> id]
         [] OTHER                           -> [t |-> "sync"]

\* fsipc: ipc_send, then ipc_recv.  What is left of the wait between the two
\* is the server's: its reply is held until the client receives.
fsipc(c) ==
    /\ cl[c].st = "send" /\ srv.st = "recv"
    /\ srv' = [srv EXCEPT !.st = "work", !.from = c, !.req = Req(c)]
    /\ cl' = [cl EXCEPT ![c].st = "recving"]
    /\ UNCHANGED <<fs, opentab, ff, fd, win, got, cut, refused, ncalls>>

\* The reply reaches client c, and the server goes on to the next.
Reply == Head(srv.out)
Replied(c, op, ph) ==
    /\ srv.st = "reply" /\ Reply.to = c /\ cl[c].st = "recving"
    /\ cl[c].op \in op /\ cl[c].ph = ph
    /\ srv' = IF Len(srv.out) = 1 THEN [srv EXCEPT !.st = "recv", !.out = <<>>]
              ELSE [srv EXCEPT !.out = Tail(@)]
    /\ UNCHANGED <<fs, opentab, refused, ncalls>>

\* The client goes on with another request, or returns.
Ask(c, ph, n) == cl' = [cl EXCEPT ![c].st = "send", ![c].ph = ph, ![c].n = n]
Return(c) == cl' = [cl EXCEPT ![c] = Idle]

NoWindow == [n \in Window |-> NULL]

\* open: a page is allocated in the window before each fsipc_map.
open_ask(c, e, n) ==
    IF n < Up(ff[e].f_size) THEN Ask(c, "map", n) ELSE Return(c)

open_opened(c) ==
    /\ Replied(c, {"open"}, "open")
    /\ IF Reply.r < 0 THEN Return(c) /\ UNCHANGED <<fd, win, got, cut>>
       ELSE LET e == Reply.page.fd
            IN /\ fd' = [fd EXCEPT ![c] = e]
               /\ got' = [got EXCEPT ![c] = [id |-> opentab[e].o_fileid, file |-> opentab[e].o_file]]
               /\ win' = [win EXCEPT ![c][0] = IF ff[e].f_size > 0 THEN ANON ELSE NULL]
               /\ cut' = cut \ {c}
               /\ open_ask(c, e, 0)
    /\ UNCHANGED ff

open_mapped(c) ==
    /\ Replied(c, {"open"}, "map")
    /\ IF Reply.r < 0 THEN Return(c) /\ UNCHANGED win
       ELSE LET n == cl[c].n
                more == n + 1 < Up(ff[fd[c]].f_size)
            IN /\ win' = [win EXCEPT ![c] = [k \in Window |->
                            IF k = n THEN Reply.page.blk ELSE IF more /\ k = n + 1 THEN ANON ELSE @[k]]]
               /\ open_ask(c, fd[c], n + 1)
    /\ UNCHANGED <<ff, fd, got, cut>>

\* close: fsipc_dirty for every page, fsipc_close, then the window and the Fd
\* page are unmapped; only the latter if the server says no.
close_ask(c, n) == IF n < Up(ff[fd[c]].f_size) THEN Ask(c, "dirty", n) ELSE Ask(c, "close", 0)

close_dirtied(c) ==
    /\ Replied(c, {"close"}, "dirty")
    /\ close_ask(c, cl[c].n + 1)
    /\ UNCHANGED <<ff, fd, win, got, cut>>

close_closed(c) ==
    /\ Replied(c, {"close"}, "close")
    /\ Return(c)
    /\ fd' = [fd EXCEPT ![c] = NULL]
    /\ win' = IF Reply.r < 0 THEN win
              ELSE [win EXCEPT ![c] = [n \in Window |-> IF n < Up(ff[fd[c]].f_size) THEN NULL ELSE @[n]]]
    /\ UNCHANGED <<ff, got, cut>>

\* ftruncate, also on behalf of file_write: the new pages are mapped, the old
\* ones unmapped, and a failure sets the server's size back.
truncate_ask_keep(c, n, w) ==
    IF n < Up(cl[c].size) THEN Ask(c, "map", n) /\ win' = w
    ELSE /\ win' = w
         /\ IF cl[c].op = "write" THEN cl' = [cl EXCEPT ![c].st = "store"] ELSE Return(c)

truncate_ask(c, n, w) ==
    IF n < Up(cl[c].size) THEN Ask(c, "map", n) /\ win' = w
    ELSE /\ win' = [w EXCEPT ![c] = [k \in Window |->
                      IF k \in Up(cl[c].size) .. Up(cl[c].old) - 1 THEN NULL ELSE @[k]]]
         /\ IF cl[c].op = "write" THEN cl' = [cl EXCEPT ![c].st = "store"] ELSE Return(c)

ftruncate_set(c) ==
    /\ Replied(c, {"ftruncate", "write"}, "set")
    /\ IF Reply.r < 0 THEN Return(c) /\ UNCHANGED win ELSE truncate_ask(c, Up(cl[c].old), win)
    /\ UNCHANGED <<ff, fd, got, cut>>

ftruncate_mapped(c) ==
    /\ Replied(c, {"ftruncate", "write"}, "map")
    /\ IF Reply.r < 0 THEN Ask(c, "undo", 0) /\ UNCHANGED win
       ELSE truncate_ask(c, cl[c].n + 1, [win EXCEPT ![c][cl[c].n] = Reply.page.blk])
    /\ UNCHANGED <<ff, fd, got, cut>>

\* The blocks mapped by then are freed, and stay mapped here.
ftruncate_undone(c) ==
    /\ Replied(c, {"ftruncate", "write"}, "undo")
    /\ Return(c)
    /\ cut' = cut \cup {c}
    /\ UNCHANGED <<ff, fd, win, got>>

\* remove and sync return what the server says.
simple_done(c) ==
    /\ Replied(c, {"remove", "sync"}, cl[c].op)
    /\ Return(c)
    /\ UNCHANGED <<ff, fd, win, got, cut>>

\* The memcpy of file_write, into block n of the window; an unmapped page is
\* allocated by the page fault.
file_write_store(c) ==
    LET n == Up(cl[c].size) - 1
        b == win[c][n]
    IN /\ cl[c].st = "store"
       /\ Return(c)
       /\ fs' = IF b \in Block THEN [fs EXCEPT !.cache[b] = DataBlock(n)] ELSE fs
       /\ win' = IF b = NULL THEN [win EXCEPT ![c][n] = ANON] ELSE win
       /\ UNCHANGED <<opentab, ff, srv, fd, got, cut, refused, ncalls>>

(***************************************************************************)
(* The calls an idle client makes.                                         *)
(***************************************************************************)
Begin(c, call) ==
    /\ cl[c].st = "idle" /\ ncalls < MaxCalls /\ ~refused
    /\ ncalls' = ncalls + 1
    /\ cl' = [cl EXCEPT ![c] = call]
    /\ UNCHANGED <<fs, opentab, srv, got, cut, refused>>

\* fd_alloc finds the descriptor free.
open(c, path) ==
    /\ fd[c] = NULL
    /\ Begin(c, [Idle EXCEPT !.st = "send", !.op = "open", !.ph = "open", !.path = path])
    /\ win' = [win EXCEPT ![c] = NoWindow]
    /\ UNCHANGED <<ff, fd>>

close(c) ==
    /\ fd[c] # NULL
    /\ Begin(c, [Idle EXCEPT !.st = "send", !.op = "close",
                             !.ph = IF ff[fd[c]].f_size > 0 THEN "dirty" ELSE "close"])
    /\ UNCHANGED <<ff, fd, win>>

\* The new size is in the Fd page before the server knows it.
Resize(c, op, size) ==
    /\ Begin(c, [Idle EXCEPT !.st = "send", !.op = op, !.ph = "set",
                             !.size = size, !.old = ff[fd[c]].f_size])
    /\ ff' = [ff EXCEPT ![fd[c]].f_size = size]
    /\ UNCHANGED <<fd, win>>

ftruncate(c, size) == fd[c] # NULL /\ Resize(c, "ftruncate", size)

\* file_write of block n: offset n * BY2BLK, BY2BLK bytes.
file_write(c, n) ==
    LET tot == (n + 1) * BY2BLK
    IN /\ fd[c] # NULL
       /\ IF tot > ff[fd[c]].f_size THEN Resize(c, "write", tot)
          ELSE /\ Begin(c, [Idle EXCEPT !.st = "store", !.op = "write", !.size = tot])
               /\ UNCHANGED <<ff, fd, win>>

remove(c, path) ==
    /\ Begin(c, [Idle EXCEPT !.st = "send", !.op = "remove", !.ph = "remove", !.path = path])
    /\ UNCHANGED <<ff, fd, win>>

sync(c) ==
    /\ Begin(c, [Idle EXCEPT !.st = "send", !.op = "sync", !.ph = "sync"])
    /\ UNCHANGED <<ff, fd, win>>

\* The client is destroyed: its mappings go, the server is not told.
die(c) ==
    /\ fd[c] # NULL
    /\ Begin(c, Idle)
    /\ fd' = [fd EXCEPT ![c] = NULL] /\ win' = [win EXCEPT ![c] = NoWindow]
    /\ UNCHANGED ff

(***************************************************************************)
(* The specification.                                                      *)
(***************************************************************************)
Init ==
    /\ fs = [fs_init(fsformat(Host)) EXCEPT !.hist = {}]
    /\ serve_init
    /\ srv = [st |-> "recv", from |-> NULL, req |-> NULL, out |-> <<>>]
    /\ cl = [c \in Clients |-> Idle]
    /\ fd = [c \in Clients |-> NULL] /\ win = [c \in Clients |-> NoWindow]
    /\ got = [c \in Clients |-> NULL] /\ cut = {} /\ refused = FALSE /\ ncalls = 0

Proceed(c) ==
    \/ fsipc(c) \/ file_write_store(c)
    \/ open_opened(c) \/ open_mapped(c) \/ close_dirtied(c) \/ close_closed(c)
    \/ ftruncate_set(c) \/ ftruncate_mapped(c) \/ ftruncate_undone(c) \/ simple_done(c)

Call(c) ==
    \/ \E path \in Names : open(c, path) \/ remove(c, path)
    \/ \E size \in Lens : ftruncate(c, size)
    \/ \E n \in Window : file_write(c, n)
    \/ close(c) \/ sync(c) \/ die(c)

\* Nothing has to happen while the server is not at work.
Rest == srv.st # "work" /\ UNCHANGED vars

Next == Serve \/ (\E c \in Clients : Proceed(c) \/ Call(c)) \/ Rest

Spec == Init /\ [][Next]_vars

\* The scheduler runs the server and every client again and again; a client is
\* free not to call.  For the server this is weak fairness of Serve without
\* ENABLED, whose evaluation is out of TLC's reach here: Serve is enabled
\* whenever the server has a request, or the run would end in a deadlock.
FairSpec == /\ Spec
            /\ srv.st = "work" ~> srv.st # "work"
            /\ \A c \in Clients : WF_vars(Proceed(c))

(***************************************************************************)
(* Properties.                                                             *)
(***************************************************************************)
\* Type invariant; the open files are where the image has files.
FsServTypeOK ==
    /\ fs.bad = {}
    /\ \A e \in Entry : /\ opentab[e].o_fileid % MAXOPEN = e
                        /\ ff[e].f_size \in 0 .. NINDIRECT * BY2BLK
    /\ srv.st \in {"recv", "work", "reply"} /\ Len(srv.out) <= 2
    /\ \A c \in Clients : /\ cl[c].st \in {"idle", "send", "recving", "store"}
                          /\ fd[c] \in Entry \cup {NULL}
                          /\ win[c] \in [Window -> Block \cup {ANON, NULL}]
    /\ cut \subseteq Clients /\ ncalls \in 0 .. MaxCalls

\* A client's descriptor goes on naming the open file it got: open_alloc never
\* hands out an entry some client still maps, and every file id of a client is
\* one the server accepts.  As long as no open() is refused.
EntryExclusive ==
    ~refused => \A c \in Clients : fd[c] # NULL =>
        /\ ff[fd[c]].f_fileid = got[c].id
        /\ opentab[fd[c]].o_file = got[c].file
        /\ open_lookup(got[c].id) = fd[c]
        /\ \A d \in Clients \ {c} : fd[d] # fd[c]

\* A request gets one answer.
OneAnswer == Len(srv.out) <= 1

\* As long as no open() is refused, every reply is the only one to its request
\* and goes to a client that has sent one and not been answered.
ReplyExpected ==
    ~refused => /\ srv.st # "recv" => cl[srv.from].st = "recving"
                /\ OneAnswer
                /\ \A c \in Clients : cl[c].st = "recving" => srv.st # "recv" /\ srv.from = c

\* Between its calls a client's window holds the blocks of its file, page by
\* page, unless the file was cut under it: what it stores
\* there is stored in the file, and nowhere else.  The tables keep their types.
WindowTrue ==
    ~refused => FsServTypeOK /\ \A c \in Clients : cl[c].st = "idle" /\ fd[c] # NULL /\ c \notin cut =>
        \A n \in Window : win[c][n] \in Block =>
            win[c][n] = file_map_block(fs, got[c].file, n, FALSE).r

\* A request that the server has taken is answered: neither waits for the other
\* for ever in ipc_send and ipc_recv, unless an open() is refused.  (Before the
\* server takes it, ipc_send may retry for ever while others are faster.)
RequestsAnswered ==
    \A c \in Clients : srv.st = "work" /\ srv.from = c ~> cl[c].st # "recving" \/ refused

\* file_write never makes the file smaller: "Increase the file's size if
\* necessary".
WriteGrows ==
    [][Working("set") /\ cl[srv.from].op = "write" /\ cl[srv.from].ph = "set" /\ fs' # fs
         => File(fs, Opened.o_file).f_size <= File(fs', Opened.o_file).f_size]_vars
=============================================================================
