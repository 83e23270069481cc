-------------------------------- MODULE Spawn -------------------------------
(***************************************************************************)
(* Loading a program: elf_load_seg (lib/elfloader.c) under its two         *)
(* callers, load_icode in the kernel (kern/env.c) and spawn in user space  *)
(* (user/lib/spawn.c), which builds the child call by call and must clean  *)
(* up when any of them fails.                                              *)
(*                                                                         *)
(* A program is the sequence of its program headers; a page of the child   *)
(* is where bytes of a segment lie in it, the rest being zero:             *)
(* [perm, at, len, seg, src] has bytes src .. src + len - 1 of the file    *)
(* part of segment seg from at on.  The stack page is modelled byte by     *)
(* byte.  What can fail in a call is memory or, for the file, the server.  *)
(***************************************************************************)
EXTENDS Integers, Sequences, FiniteSetsExt

CONSTANTS BY2PG,      \* bytes of a page
          Programs,   \* programs: sequences of [type, vaddr, filesz, memsz, flags]
          Argvs,      \* argument vectors: sequences of the arguments' lengths
          Library,    \* pages of the parent with PTE_LIBRARY, without those of fd
          NULL

VPN(va) == va \div BY2PG
PagesOf(ph) == VPN(ph.vaddr) .. VPN(ph.vaddr + ph.memsz - 1)

ASSUME SpawnAssumption ==
    /\ BY2PG \in Nat /\ BY2PG % 4 = 0 /\ BY2PG > 12
    /\ Argvs \subseteq Seq(Nat) /\ Library \subseteq Nat /\ NULL \notin Int

\* The linker makes loadable segments that are not empty, lie on pages of their
\* own and, when they start inside a page, have no bss in that page.
ASSUME ProgramAssumption ==
    \A x \in Programs :
        /\ x \in Seq([type : STRING, vaddr : Nat, filesz : Nat, memsz : Nat, flags : STRING])
        /\ \A i \in DOMAIN x : x[i].type = "load" =>
              /\ x[i].filesz <= x[i].memsz /\ x[i].memsz > 0
              /\ \/ x[i].vaddr % BY2PG = 0
                 \/ x[i].filesz = x[i].memsz
                 \/ x[i].filesz >= BY2PG - (x[i].vaddr % BY2PG)
              /\ \A j \in DOMAIN x \ {i} :
                    x[j].type = "load" => PagesOf(x[i]) \cap PagesOf(x[j]) = {}

MinOf(a, b) == IF a < b THEN a ELSE b
CeilDiv(a, b) == IF a <= 0 THEN 0 ELSE (a + b - 1) \div b
ROUND(a, n) == CeilDiv(a, n) * n

(***************************************************************************)
(* elf_load_seg: the calls of map_page that load a segment, in order; src  *)
(* NULL asks for a page of zeros.                                          *)
(***************************************************************************)
FilePage(ph, i) == [va |-> ph.vaddr + i, offset |-> 0, src |-> i, len |-> MinOf(ph.filesz - i, BY2PG)]
ZeroPage(ph, i) == [va |-> ph.vaddr + i, offset |-> 0, src |-> NULL, len |-> 0]

\* Step 1 from byte i0 of the segment on, and step 2.
Pages(ph, i0) ==
    LET i1 == i0 + ROUND(ph.filesz - i0, BY2PG)
    IN [n \in 1 .. CeilDiv(ph.filesz - i0, BY2PG) |-> FilePage(ph, i0 + (n - 1) * BY2PG)]
       \o [n \in 1 .. CeilDiv(ph.memsz - i1, BY2PG) |-> ZeroPage(ph, i1 + (n - 1) * BY2PG)]

elf_load_seg_no_offset(ph) == Pages(ph, 0)

elf_load_seg(ph) ==
    LET offset == ph.vaddr % BY2PG
        i0 == MinOf(ph.filesz, BY2PG - offset)
    IN IF offset = 0 THEN Pages(ph, 0)
       ELSE <<[va |-> ph.vaddr, offset |-> offset, src |-> 0, len |-> i0]>> \o Pages(ph, i0)

\* A page of zeros, and one with bytes of segment k copied in.
Fresh(perm) == [perm |-> perm, at |-> 0, len |-> 0, seg |-> 0, src |-> 0]
Filled(pg, call, k) ==
    IF call.len = 0 THEN pg ELSE [pg EXCEPT !.at = call.offset, !.len = call.len, !.seg = k, !.src = call.src]

Mapped(mem, va, pg) == [p \in DOMAIN mem \cup {VPN(va)} |-> IF p = VPN(va) THEN pg ELSE mem[p]]
NoMem == [p \in {} |-> NULL]

\* load_icode_mapper: a new page, filled and inserted in place of any other.
load_icode_mapper(mem, ph, k, call) ==
    Mapped(mem, call.va, IF call.src = NULL THEN Fresh(ph.flags) ELSE Filled(Fresh(ph.flags), call, k))

LoadSeg(mem, ph, k) ==
    LET calls == elf_load_seg(ph)
        load[n \in 0 .. Len(calls)] ==
            IF n = 0 THEN mem ELSE load_icode_mapper(load[n - 1], ph, k, calls[n])
    IN load[Len(calls)]

\* The memory load_icode makes of a program.
load_icode(prog) ==
    LET mem[n \in 0 .. Len(prog)] ==
            IF n = 0 THEN NoMem
            ELSE IF prog[n].type # "load" THEN mem[n - 1] ELSE LoadSeg(mem[n - 1], prog[n], n)
    IN mem[Len(prog)]

(***************************************************************************)
(* init_stack: the page as bytes, addresses being offsets from its start.  *)
(* A cell is zero, a character of an argument, or a byte of a word.        *)
(***************************************************************************)
Zero == <<"zero", 0, 0>>
Char(i, c) == <<"char", i, c>>
Byte(w, b) == <<"word", w, b>>

\* The bytes that the first n arguments take, with their ends.
Upto(argv) ==
    LET tot[n \in 0 .. Len(argv)] == IF n = 0 THEN 0 ELSE tot[n - 1] + argv[n] + 1 IN tot
Tot(argv) == Upto(argv)[Len(argv)]
FitsStack(argv) == ROUND(Tot(argv), 4) + 4 * (Len(argv) + 3) <= BY2PG

StoreWord(pg, at, w) ==
    [o \in DOMAIN pg |-> IF o \in at .. at + 3 THEN Byte(w, o - at) ELSE pg[o]]

StringAt(argv, i) == BY2PG - Tot(argv) + Upto(argv)[i - 1]
CopyString(pg, argv, i) ==
    LET s == StringAt(argv, i)
    IN [o \in DOMAIN pg |-> IF o \in s .. s + argv[i] - 1 THEN Char(i, o - s + 1)
                            ELSE IF o = s + argv[i] THEN Zero ELSE pg[o]]

ArgsAt_no_end(argv) == BY2PG - ROUND(Tot(argv), 4) - 4 * Len(argv)
ArgsAt(argv) == BY2PG - ROUND(Tot(argv), 4) - 4 * (Len(argv) + 1)

\* The two loops over the arguments: the strings, and the pointers to them.
Strings(argv) ==
    LET pg[n \in 0 .. Len(argv)] ==
            IF n = 0 THEN [o \in 0 .. BY2PG - 1 |-> Zero] ELSE CopyString(pg[n - 1], argv, n)
    IN pg[Len(argv)]
Pointers(argv) ==
    LET pg[n \in 0 .. Len(argv)] ==
            IF n = 0 THEN Strings(argv)
            ELSE StoreWord(pg[n - 1], ArgsAt(argv) + 4 * (n - 1), StringAt(argv, n))
    IN pg[Len(argv)]

\* The page and the stack pointer.  The word after the last pointer is the
\* address of the last byte of the strings.
init_stack(argv) ==
    LET args == ArgsAt(argv)
        ended == StoreWord(Pointers(argv), args + 4 * Len(argv), BY2PG - 1)
    IN [page |-> StoreWord(StoreWord(ended, args - 4, args), args - 8, Len(argv)), sp |-> args - 8]

(***************************************************************************)
(* spawn.                                                                  *)
(***************************************************************************)
VARIABLES prog, argv,
          pc,       \* the next call of spawn
          seg, k,   \* segment, and call of elf_load_seg within it
          fd,       \* the program's file is open in the parent
          utemp,    \* what the parent maps at UTEMP: NULL, StackPage or a page of the child
          child,    \* [status, mem, stack, sp, sepc, lib], status "none" without a child
          runlist   \* env_sched_list of the kernel: "sound" or "damaged"

vars == <<prog, argv, pc, seg, k, fd, utemp, child, runlist>>

NoStack == [o \in {} |-> Zero]
NoChild == [status |-> "none", mem |-> NoMem, stack |-> NoStack, sp |-> 0, sepc |-> "none", lib |-> {}]
NewChild == [NoChild EXCEPT !.status = "not_runnable", !.sepc = "parent"]

Init ==
    /\ prog \in Programs /\ argv \in Argvs
    /\ pc \in {"open", "boot"}
    /\ seg = 1 /\ k = 1 /\ fd = FALSE /\ utemp = NULL /\ child = NoChild
    /\ runlist = "sound"

\* The stack page while it is not yet the child's.
StackPage == -1

At(l) == pc = l /\ UNCHANGED <<prog, argv, runlist>>
Goto(l) == pc' = l

\* The kernel's own programs: env_create, which has no arguments to pass and
\* panics if memory is short.
boot ==
    /\ At("boot") /\ Goto("started")
    /\ child' = [NewChild EXCEPT !.status = "runnable", !.mem = load_icode(prog), !.sepc = "entry"]
    /\ UNCHANGED <<seg, k, fd, utemp>>

open_prog ==
    /\ At("open")
    /\ \/ Goto("failed") /\ UNCHANGED fd
       \/ Goto("header") /\ fd' = TRUE
    /\ UNCHANGED <<seg, k, utemp, child>>

\* readn fails, or elf_from finds no program.
read_header ==
    /\ At("header")
    /\ Goto("err") \/ Goto("exofork")
    /\ UNCHANGED <<seg, k, fd, utemp, child>>

exofork ==
    /\ At("exofork")
    /\ \/ Goto("err") /\ UNCHANGED child
       \/ Goto("stack_alloc") /\ child' = NewChild
    /\ UNCHANGED <<seg, k, fd, utemp>>

\* init_stack: the arguments do not fit, or no page is left, or it is at UTEMP.
stack_alloc ==
    /\ At("stack_alloc")
    /\ \/ Goto("err1") /\ UNCHANGED utemp
       \/ FitsStack(argv) /\ Goto("stack_map") /\ utemp' = StackPage
    /\ UNCHANGED <<seg, k, fd, child>>

stack_map ==
    /\ At("stack_map")
    /\ utemp' = NULL
    /\ \/ Goto("err1") /\ UNCHANGED child
       \/ /\ Goto("phdr")
          /\ child' = [child EXCEPT !.stack = init_stack(argv).page, !.sp = init_stack(argv).sp]
    /\ UNCHANGED <<seg, k, fd>>

\* The loop over the program headers: seek, readn and read_map may fail.
Calls == elf_load_seg(prog[seg])

read_phdr ==
    /\ At("phdr")
    /\ k' = 1
    /\ \/ seg > Len(prog) /\ Goto("close") /\ UNCHANGED seg
       \/ seg <= Len(prog) /\ Goto("err1") /\ UNCHANGED seg
       \/ seg <= Len(prog) /\ prog[seg].type # "load" /\ Goto("phdr") /\ seg' = seg + 1
       \/ seg <= Len(prog) /\ prog[seg].type = "load" /\ Goto("alloc") /\ UNCHANGED seg
    /\ UNCHANGED <<fd, utemp, child>>

\* spawn_mapper for call k: a page for the child; if there is something to
\* copy, the page at UTEMP too, the copy, and UTEMP is free again.
MapperDone == IF k = Len(Calls) THEN Goto("phdr") /\ seg' = seg + 1 /\ k' = 1
              ELSE Goto("alloc") /\ k' = k + 1 /\ UNCHANGED seg

mapper_alloc ==
    /\ At("alloc")
    /\ \/ Len(Calls) = 0 /\ Goto("phdr") /\ seg' = seg + 1 /\ UNCHANGED <<k, child>>
       \/ Len(Calls) > 0 /\ Goto("err1") /\ UNCHANGED <<seg, k, child>>
       \/ /\ Len(Calls) > 0
          /\ child' = [child EXCEPT !.mem = Mapped(@, Calls[k].va, Fresh(prog[seg].flags))]
          /\ IF Calls[k].src = NULL THEN MapperDone ELSE Goto("map") /\ UNCHANGED <<seg, k>>
    /\ UNCHANGED <<fd, utemp>>

mapper_map ==
    /\ At("map")
    /\ \/ /\ Goto("err1") /\ UNCHANGED utemp
          /\ child' = [child EXCEPT !.mem = [p \in DOMAIN @ \ {VPN(Calls[k].va)} |-> @[p]]]
       \/ Goto("copy") /\ utemp' = VPN(Calls[k].va) /\ UNCHANGED child
    /\ UNCHANGED <<seg, k, fd>>

mapper_copy ==
    /\ At("copy")
    /\ child' = [child EXCEPT !.mem[utemp] = Filled(@, Calls[k], seg)]
    /\ utemp' = NULL
    /\ MapperDone
    /\ UNCHANGED fd

close_prog ==
    /\ At("close") /\ Goto("trapframe")
    /\ fd' = FALSE
    /\ UNCHANGED <<seg, k, utemp, child>>

set_trapframe ==
    /\ At("trapframe")
    /\ \/ Goto("err2") /\ UNCHANGED child
       \/ Goto("share") /\ child' = [child EXCEPT !.sepc = "entry"]
    /\ UNCHANGED <<seg, k, fd, utemp>>

\* The pages with PTE_LIBRARY, from the lowest; those of fd while it is open.
Shared == Library \cup (IF fd THEN {0} ELSE {})

share ==
    /\ At("share")
    /\ \/ /\ child.lib # Shared
          /\ \/ Goto("err2") /\ UNCHANGED child
             \/ Goto("share") /\ child' = [child EXCEPT !.lib = @ \cup {Min(Shared \ @)}]
       \/ child.lib = Shared /\ Goto("status") /\ UNCHANGED child
    /\ UNCHANGED <<seg, k, fd, utemp>>

set_status ==
    /\ At("status")
    /\ \/ Goto("err2") /\ UNCHANGED child
       \/ Goto("started") /\ child' = [child EXCEPT !.status = "runnable"]
    /\ UNCHANGED <<seg, k, fd, utemp>>

\* syscall_env_destroy of the child.  It never ran, and env_free takes it off
\* env_sched_list all the same (env.c:430).  What that does depends on what the
\* links of its slot were last used for: nothing, or a list that has lost its
\* entries, or a store through a null pointer, which stops the kernel.
syscall_env_destroy(next) ==
    /\ child' = NoChild
    /\ \/ Goto(next) /\ runlist' \in {runlist, "damaged"}
       \/ Goto("halted") /\ UNCHANGED runlist

\* The ways out.
err2_undestroyed ==
    /\ At("err2") /\ Goto("failed")
    /\ UNCHANGED <<seg, k, fd, utemp, child>>

err2 ==
    /\ pc = "err2" /\ syscall_env_destroy("failed")
    /\ UNCHANGED <<prog, argv, seg, k, fd, utemp>>

err1 ==
    /\ pc = "err1" /\ syscall_env_destroy("err")
    /\ UNCHANGED <<prog, argv, seg, k, fd, utemp>>

err ==
    /\ At("err") /\ Goto("failed")
    /\ fd' = FALSE
    /\ UNCHANGED <<seg, k, utemp, child>>

Returned == pc \in {"started", "failed", "halted"} /\ UNCHANGED vars

Next == boot \/ open_prog \/ read_header \/ exofork \/ stack_alloc \/ stack_map \/ read_phdr
        \/ mapper_alloc \/ mapper_map \/ mapper_copy \/ close_prog \/ set_trapframe \/ share
        \/ set_status \/ err2 \/ err1 \/ err \/ Returned

Spec == Init /\ [][Next]_vars

(***************************************************************************)
(* Properties.                                                             *)
(***************************************************************************)
\* Page p of the address space as the header of segment i describes it: the bytes
\* of the file part that fall into the page, zeros, the segment's flags.
Content(i, p) ==
    LET lo == IF p * BY2PG > prog[i].vaddr THEN p * BY2PG ELSE prog[i].vaddr
        hi == MinOf((p + 1) * BY2PG, prog[i].vaddr + prog[i].filesz)
    IN IF hi <= lo THEN Fresh(prog[i].flags)
       ELSE [perm |-> prog[i].flags, at |-> lo - p * BY2PG, len |-> hi - lo, seg |-> i, src |-> lo - prog[i].vaddr]
Loads == {i \in DOMAIN prog : prog[i].type = "load"}
ReferencePages == UNION {PagesOf(prog[i]) : i \in Loads}
Reference(p) == Content(CHOOSE i \in Loads : p \in PagesOf(prog[i]), p)

\* Type invariant: what spawn maps at UTEMP is the stack page or a page of the
\* child, every stored word lies inside the stack page.
SpawnTypeOK ==
    /\ seg \in 1 .. Len(prog) + 1 /\ fd \in BOOLEAN
    /\ utemp # NULL => child.status # "none" /\ utemp \in DOMAIN child.mem \cup {StackPage}
    /\ child.status \in {"none", "runnable", "not_runnable"}
    /\ child.sp >= 0 /\ child.sp % 4 = 0
    /\ child.lib \subseteq Library \cup {0}

\* A spawn that fails, at whichever call, and returns leaves no child, no open
\* file and nothing at UTEMP.  The kernel's run list is not among it: destroying
\* a child that never ran may damage it, or stop the kernel before spawn returns;
\* but no other step of spawn does, and a child that was started is not touched.
FailureLeavesNothing ==
    /\ pc = "failed" => child.status = "none" /\ ~fd /\ utemp = NULL
    /\ pc = "halted" \/ runlist # "sound" => child.status = "none" /\ utemp = NULL

\* A spawn that fails leaves the run list of the kernel alone.  This does not
\* hold (env.c:430).
FailureKeepsRunList == pc # "halted" /\ runlist = "sound"

\* A child that may run is complete: its memory is exactly what the program
\* headers say, in the kernel's loader and in spawn's; it starts at the entry
\* point and shares the library pages, but not the descriptor of its program.
StartedComplete ==
    child.status = "runnable" =>
        /\ child.mem = [p \in ReferencePages |-> Reference(p)]
        /\ child.sepc = "entry"
        /\ child.stack # NoStack => child.lib = Library
        /\ ~fd /\ utemp = NULL

\* What main() of the child finds from its stack pointer on is argc and argv,
\* and every argv[i] is the caller's string with its end; all lies in the page.
Word(pg, at, w) == \A b \in 0 .. 3 : at + b \in DOMAIN pg /\ pg[at + b] = Byte(w, b)
ArgvSeen ==
    SpawnTypeOK /\
    (child.stack # NoStack =>
        /\ Word(child.stack, child.sp, Len(argv))
        /\ \E args \in 0 .. BY2PG - 1 :
             /\ Word(child.stack, child.sp + 4, args)
             /\ \A i \in DOMAIN argv : \E s \in 0 .. BY2PG - 1 :
                  /\ Word(child.stack, args + 4 * (i - 1), s)
                  /\ \A c \in 1 .. argv[i] : child.stack[s + c - 1] = Char(i, c)
                  /\ child.stack[s + argv[i]] = Zero)

\* "Set args[argc] to 0 to null-terminate the args array."
ArgvTerminated ==
    child.stack # NoStack => Word(child.stack, child.sp + 8 + 4 * Len(argv), 0)
=============================================================================
