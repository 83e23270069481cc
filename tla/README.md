# Verification of the MOS kernel for RISC-V

This directory holds TLA+ models of MOS, a small teaching kernel (environments,
virtual memory, IPC, a user-level file system, pipes) ported to RISC-V. The
models are translated from the C sources, checked with TLC on small instances,
and the most important results are proved with TLAPS for every size.

`PROJECT.json` lists components, runs, mutants, the source lines each
definition stands for, findings, hazards and theorems.

## 1. Inventory

### The system and its parts

| Part | Source | State | Operations |
|---|---|---|---|
| Tail queues | `include/queue.h` | `tqh_first`, `tqh_last`, `tqe_next`, `tqe_prev` | insert head, insert tail, remove, first, empty |
| Environments | `kern/env.c` | `envs[]`, free list, run list, `curenv`, ASID bitmap, envid counter | `env_alloc`, `env_create`, `env_free`, `env_destroy`, `env_run`, `envid2env` |
| Scheduler | `kern/sched.c`, `kern/genex.S` | `count` | `schedule`, timer interrupt |
| Environment calls | `kern/syscall_all.c` | ipc fields, status | yield, exofork, destroy, set status, ipc receive, ipc send, read the console |
| Memory | `kern/pmap.c` | `pp_ref`, free pages, page tables, TLB | `page_alloc`, `page_insert`, `page_remove`, `page_decref`, `tlb_flush` |
| Memory calls, faults | `kern/syscall_all.c`, `kern/tlbex.c` | the copy of the directory at UVPT | mem alloc, map, unmap; passive allocation; faults at UVPT; copy-on-write upcall |
| Disk driver | `kern/disk_driver.c`, `fs/ide.c` | descriptor bitmap, rings, request page | initialise, request, recycle, read and write sectors |
| Process library | `user/lib/fork.c`, `ipc.c`, `spawn.c`, `libos.c` | none but the kernel's | fork, copy-on-write, send, receive, spawn, exit |
| Descriptors, pipes | `user/lib/fd.c`, `pipe.c`, `pageref.c` | Fd pages, Pipe page | open, close, dup, read, write, is-closed |
| File system | `fs/fs.c` | bitmap, block cache, files, directories | mount, allocate and free blocks, look up, truncate, flush, remove, sync |
| File server | `fs/serv.c`, `user/lib/fsipc.c`, `file.c` | open file table, Fd pages, mapped windows | open, map, set size, close, dirty, remove, sync |
| Image | `tools/fsformat.c` | the disk image | write a tree of files |
| Program loading | `lib/elfloader.c`, `kern/env.c`, `user/lib/spawn.c` | the child under construction | load a segment, load an image, spawn, build the stack |
| Shell | `user/sh.c` | descriptors 0 and 1, the line | read, parse, redirect, connect, run, wait |
| Rest | traps, console, printing, strings, other programs and tools | | |

### How they interact

There is one CPU and the kernel runs with interrupts off: a system call or an
interrupt is atomic, and a read of the console polls in the kernel, where it blocks
all environments. User code is preempted by the timer anywhere. Environments
share three things: the kernel's tables through system calls; physical pages
mapped in several address spaces (descriptors and pipe buffers are such pages,
and their reference counts, readable in user mode, are the only record of who
has a pipe open); and IPC, where a sender polls until its target receives. The
file server is an environment that answers IPC requests and drives the disk
through system calls that only start a request; finished requests are recycled
in `schedule()`.

### What is hard

* Lists kept by hand: the run list must hold exactly the runnable
  environments, but five places link and unlink, each with assumptions about
  the others.
* Reuse: slots, envids, ASIDs, pages and blocks of the disk come back while something
  may still name the former user, a page of a client's window for instance.
* Reference counts and TLB flushes in every order of mapping, sharing and
  destroying.
* User-level protocols without locks: the pipe buffer, the two counts of
  `_pipe_is_closed`, closing and duplicating a descriptor in two system calls.
* Half-done operations when pages, ASIDs, slots, descriptors or blocks run out.
* A device that works while the kernel does, and whose answers are noticed in
  two places at different times.
* Copy-on-write made by user code that itself stores to the pages it protects.
* A disk that may be cut off between any two writes.
* Requests over IPC whose answers are told apart only by their order.

The list of hazards with their lines is in `PROJECT.json`.

### What makes each part correct

* Tail queue: the pointers represent a sequence, and the macros do to it what
  their names say.
* Environments and scheduler: run list exact, free list exact, ASIDs exclusive,
  control of an environment limited to itself and its parent, messages not
  overwritten, nobody starved while the console answers, the kernel stops only when
  everybody waits.
* Memory: reference counts exact, free pages unused, page tables private, TLB
  and UVPT copy coherent, nothing lost.
* Pipe: closed is reported exactly when it is true, every byte read once and in its
  turn, no end of file before the data is drained, no waiting on a closed pipe.
* Disk: no descriptor lost or doubled, sectors behave as atomic registers, every
  call returns.
* fork: copy-on-write isolates parent and child, whatever is preempted.
* File system: no block with two owners, in memory or on the disk a crash leaves, and
  files that keep what was closed.
* File server: each request gets its own answer, an open file has one entry.
* Program loading: the child has exactly the memory and arguments it should
  have, or nothing is left of it.
* Shell: every program has the descriptors the line says, and every job ends.

## 2. Plan

Done are stages 1 to 9.

1. `TailQ`, `EnvSched`, `EnvLib`: the tail queue, environments, scheduling, and
   the calls the library makes. Proofs in `EnvProofs`.
2. `Pipe`: pipes and descriptors. Proofs in `PipeProofs`.
3. `Pmap`: pages, address spaces, faults, TLB. Proofs in `PmapProofs`.
4. `Fork`, refining `PrivMem`: `fork.c` and `do_tlb_mod` on page contents. Proofs in
   `ForkProofs`.
5. `VirtioDisk`, refining `SectorDisk`: `disk_driver.c` and `fs/ide.c` with an
   asynchronous device. Proofs in `DiskProofs`.
6. `FsOps`, `FsFormat`, `Fs`: the file system from an image, with crashes. Proofs
   in `FsProofs`.
7. `FsServ`: `serv.c`, `fsipc.c` and `file.c` over IPC with the page transfer and
   clients that die, composed with `FsOps`. Proofs in the second part of
   `FsProofs`.
8. `Spawn` and `Shell`: program loading and command lines. Proofs in
   `SpawnProofs` and `ShellProofs`.
9. Proofs of the safety properties: every invariant and action property of the
   runs but two, `FilesKept` of `Fs` and `WindowTrue` of `FsServ` (section 5 says why).
10. Left, models: `EnvLib` as a round robin scheduler over sequences, `Pipe` as
    a bounded channel, `EnvSched` composed with `Pmap` for the order of `env_free`
    and `env_run`.

## 3. Modules

| Module | Models |
|---|---|
| `TailQ` | the TAILQ macros, pointer by pointer; `IsQueue(q, s)` says that pointers q represent sequence s |
| `EnvSched` | `env.c`, `sched.c` and the environment calls under arbitrary user code |
| `EnvLib` | the same with the calls restricted to those of `user/lib`; fairness; `spawn_fails` |
| `Pmap` | `pmap.c`, memory calls, faults, the address space part of `env_alloc`/`env_free`, the TLB |
| `Pipe` | `pipe.c`, `fd.c`, the descriptor part of `fork()` and `exit()` |
| `SectorDisk` | what `ide_read` and `ide_write` promise: atomic sectors |
| `VirtioDisk` | `disk_driver.c`, `sys_dev_req`, the recycling in `schedule()`, `ide.c`, and the device |
| `PrivMem` | what `fork()` promises: a private memory for each environment |
| `Fork` | `fork.c` and `do_tlb_mod`, `passive_alloc`, page contents |
| `FsOps` | the functions of `fs/fs.c` as operators on the server's state |
| `FsFormat` | `tools/fsformat.c`: the image made from a tree |
| `Fs` | sequences of requests to `fs.c` with stores of clients and crashes |
| `FsServ` | `serv.c`, `fsipc.c`, `file.c` over IPC and over `FsOps` |
| `Spawn` | `elf_load_seg`, `load_icode`, `spawn`, `init_stack` |
| `Shell` | `sh.c`, with `cat` and `echo` |
| `MCEnvLib`, `MCPmap`, `MCPipe`, `MCDisk`, `MCFork`, `MCFs`, `MCFsServ`, `MCSpawn`, `MCShell` | constants for TLC |
| `EnvProofs`, `PmapProofs`, `PipeProofs`, `DiskProofs`, `ForkProofs`, `FsProofs`, `SpawnProofs`, `ShellProofs` | theorems about `TailQ`, `EnvSched` and `EnvLib`, `Pmap`, `Pipe`, `VirtioDisk`, `Fork`, `Fs` and `FsServ`, `Spawn`, `Shell` |

**EnvSched.** Variables have the names of the C variables and fields. The run
list is a `TailQ` record, so that a wrong unlink damages it as it does in the
code, stale links included; the free list is only used as a stack and is a
sequence. An envid is a pair (generation, slot) because its two bit fields do not
overlap; the generation wraps at `GenMod`. `machine` records why the kernel has
stopped. `schedule(yield, cur, st, q)` is called with what its caller has left
behind, so a system call that ends in `schedule()` is one action. `sys_cgetc` puts the
machine into the state "console", in which nothing else happens until `scancharc` finds
a key: that loop runs with interrupts off, "blocking all envs". Calls that
fail without effect are left out, except that a failing `env_alloc` keeps the
envid it has made.

**EnvLib.** `fork()`, `exit()`, `ipc_send()` and `ipc_recv()` as sequences of system
calls. `SpawnSpec` adds the error path of `spawn()`.

**Pmap.** Page tables are functions from (directory index, table index) to pages;
the kernel's part of the directory, equal in all spaces, is left out, and so are
page contents. Which environment calls is left open: the checks of `envid2env`
are in `EnvSched`. `env_free` drops all references at once: the sum over the loop
is stated by `Uses`. The TLB is a set of entries that the hardware may add at
any time and never drops by itself (dropping would only weaken what can go
wrong). The page `sys_ipc_try_send` maps is an instance of `sys_mem_map`. A store to the vpt
array is a fault too (`vpt_store_fault`): `passive_alloc` does not reject the addresses from UVPT on, and
`page_insert` zeroes the directory entry under which it has just put the page, so that the page, and the
table if the copy was not visible, are never given back. `lost` collects them.
`ShortSpec` adds the two ways in which `env_alloc` runs out of something: without
a page it goes on as if it had one (`PmapNoPage`), without an ASID it fails and
keeps the page of the directory, after which `RefCountExact` does not hold
(`env_alloc_no_asid`).

**Pipe.** A step is one system call or one access to shared memory. `fdmap` and
`datamap` say where each environment has the pages mapped; the reference counts
are the numbers of those places, which `RefCountExact` of `Pmap` justifies.
`env_runs` is kept as one bit per environment: whether it has changed since it
was saved. The order of the two halves of `p_buf[p_wpos++ % BY2PIPE] = ...` is a
parameter: C leaves it open, and gcc moves the position first. `Fifo` covers both orders: it names the two
cases in which `pipe_read` gets a byte of another lap (`HalfWritten`, `Lapped`) and excludes all others. With the byte
first neither case occurs and the bytes come in order (`InOrder`). `UseSpec` and `FairUseSpec` start after the creator has
forked the others and only use and close; `Spec` starts with the creator and also
duplicates and forks.

**VirtioDisk.** The kernel runs with interrupts off, so a system call is atomic
for environments; the device is not an environment and sees the store to the
ring, the new index and the notification as three steps. The device takes chains in
order, finishes them in any order, may suppress notifications while it works and looks
once more before it sleeps, as virtio prescribes. A chain is read from the
descriptors at every step, so a chain reused too early is misread as it would be
by the hardware. `notify` is the first load of `used.flags`, `recheck` the second one, after which the
kernel panics unless it sees 1; the device may clear the flag in between (`FlagsAsExpected` is violated under
`DiskFlags.cfg`). The 16 bit indices wrap at `IdxMod`; `Served` starts the rings close
to the wrap. An environment polls `req->status`, which may change long before
`virtio_disk_intr` recycles the descriptors. `Linearizable` maps one sector's operation to
`SectorDisk`; it takes effect when the device moves the data. The error status of
the device is not modelled because `ide.c` does not look at it; the sectors make up
whole blocks, which is what `ide.c` is asked for. The guard
`pa < 0` of `sys_dev_req` never holds for an unsigned address.

**Fork.** Every call of a system call wrapper first stores to the stack page, so
`fork()` itself faults on the page it has just protected: `call` makes that store a step
of its own, and `saved` says that it has been made. `cow_entry` is five steps. A frame is free when nobody maps it
(`RefCountExact` of `Pmap`). In `PrivMem` a child inherits each page at one instant
during the fork: parents keep running their stack meanwhile, and the code
promises no more. Copies fail when frames run out, which ends the environment. A
failed `sys_exofork`, whose negative result `fork()` takes for an envid, and the
embryo a panicking parent leaves behind are not used further.

**FsOps, Fs.** The state of the server is a record: disk, cached blocks, dirty
bits, the disks before each write of the current operation. A request is one action,
and a crash may leave any of those disks or the last one (`Disks`); then the
server starts again with `fs_init`. Dirty bits are the hardware's: every store sets
them and nothing clears them. A block holds a word of data, an index, a piece of a
directory, the bitmap or the superblock, and what was written as one kind can
be read as another (`AsDir`, `AsIndex`), since a block that comes back keeps its
contents. `want` and `saved` are what a client may rely on now and after a crash.
A file is open in a window (`opened`, with the size its Fd page has), and `mapped` has the
pages of the windows. Neither `serve_remove` nor `serve_set_size` takes a page back: a client stores into
the block its page belongs to, whichever file has that block by now, so of a file hit in this way `want`
says nothing more about that block (`Changed`), and `StoresOwnFile` is violated under `FsWindow.cfg`. `ftruncate`
unmaps pages of the caller's own window only.

Four defects end a behaviour, because after them nothing holds; `fs.bad` is the set of what has happened, and a
panic in the same request is in it as well: an indirect block
that starts on the page of a freed block ("stale_indirect", run `FsStale`); a store through an old window
into what has become an indirect block ("stale_window"); a crash while an
indirect block on disk is older than the cached one, which `file_flush` never
writes ("old_index"); and a crash in `check_write_block`, which overwrites the superblock for the time of a test, so that the next
start panics ("smashed"). `BlocksExclusive` speaks of the blocks in memory, `DiskSound`
of the disk after every single write, with what is behind indirect blocks only if those were
saved when the request began (`calm`). The bitmap is written when a block is taken and not when one is freed, so a
crash may lose free blocks but never doubles one. Of a synced file nothing more is promised than of any other: `fs_sync` writes what the
server's page table calls dirty, and a client's store is not among it before its close.

**FsServ.** A request is three steps (send, serve, reply), which interleave with
those of other clients; replies carry pages. An entry of the open file table is
free when only the server maps its Fd page: `pageref` counts the mappings. Each client
has one descriptor and one window; a program with more of them is as many clients, whose calls the model
interleaves more freely. `open_alloc` fails when the table is full or when there is no page for an entry that was never used
(`OpenErrors`): `serve_open` then answers and goes on, to a second answer, and with an uninitialised pointer if the
file exists. `refused` marks such behaviours, which are followed no further: the invariants are claimed up to there, and `OneAnswer` is
violated under `FsFull.cfg`. `cut` marks clients whose file became shorter by
another client's doing, or by a failed `ftruncate`: they keep mapping pages of
freed blocks, which the code does not prevent, so `WindowTrue` is only claimed for the others.
Clients die between two calls; the server would panic in `ipc_send` if one died
before its answer (`envid2env` fails), which is not modelled. Messages of third
environments are not modelled either.

**Spawn.** Pages of the child are described by the bytes of the segment they hold;
the stack page is bytes. Every call may fail once. `StartedComplete` compares with `Reference`, which
states the contents of each page from the program headers. The error path destroys a child that never ran, and `env_free`
unlinks it from a list it is not in (`env.c:430`; what this does pointer by pointer is `EnvSpawn` of `EnvLib`): `syscall_env_destroy`
leaves the run list sound or damaged (`runlist`), or stops the kernel. Without a child the record `child` has
status "none". `ProgramAssumption` says what programs a linker makes: loadable segments that are not
empty, lie on pages of their own and, when they start inside a page, have no bss in that page. It
leaves out segments whose data ends in the page they start inside of, with bss behind: step 2 of
`elf_load_seg` would map a fresh page over the data. The linker script aligns every
section to a page, so no program has one. A short read of a program header
(`spawn.c:119`) is taken for success by the code and not modelled.

**Shell.** A line is a sequence of tokens and a step is a call of the library.
What is inside such a call, `dup()` in two system calls for instance, is the matter
of `Pipe`: its violation under `PipeDup.cfg` can also hit a pipeline. A pipe is a count of bytes,
closed when nobody holds the other end. As in the code, an output file of a
stage stays descriptor 1 of the stages forked from it, up to the last one
(`echo | cat > f | cat` writes to f in the last stage, and the second stage writes to the pipe);
a redirection that fails is ignored, and so is a failing `dup()`, which has closed the target by then (`failed` remembers
both, and what `Wired` says of descriptors 0 and 1 is for programs without it); a line with more than MAXARGS words ends its shell
(with exactly MAXARGS the 0 behind them is stored one past `argv`, where nothing is read again); `fd_alloc` never
hands out the last descriptor; `;`, `&`, `(` and `)` are skipped. `rightpipe` is never
assigned, so the prompt comes back before the right side has ended
(`PromptMeansDone` under `ShellPrompt.cfg`). `fork` fails only for want of a slot; an
embryo left behind for want of memory would hold its pipes for ever.

Operators with a suffix such as `_no_decrement`, next to the definition they
imitate, are wrong on purpose: each property is shown to fail with one of them.

## 4. Runs

| Run | Specification | Shows |
|---|---|---|
| `EnvKernel` | `Spec`, 3 slots, 2 ASIDs, 4 allocations, priorities 1 and 2 | `TypeOK`, `AsidsExclusive`, `FreeListExact`, `SliceWithinPriority`, `StatusConfined`, `BornChildless` under arbitrary calls |
| `EnvLib` | `FairLibSpec`, 3 slots, 3 ASIDs, priority 2 | `SchedListExact`, `StopsOnlyWhenAllBlocked`, `YieldGivesWay`, `MessageStable`, `RunnableRuns` |
| `Pmap` | `Spec`, 2 slots, 6 pages, 2 x 1 addresses | `RefCountExact` (with the types), `FreeNotUsed`, `TablesPrivate`, `TlbCoherent`, `UvptFresh` |
| `PipeUse` | `FairUseSpec`, 2 environments, 5 bytes, buffer of 2, both orders of position and byte | `ClosedIsReal`, `Fifo`, `CloseUnblocks` |
| `PipeShare` | `Spec`, 3 descriptors | `ClosedIsSeen` |
| `Disk` | `FairSpec`, 2 clients, 2 sectors, 8 descriptors, indices modulo 8 | `DescConserved` (with the types), `PageInUse`, `Linearizable`, `CallReturns` |
| `Fork` | `Spec`, 3 environments, 3 pages, 8 frames, 2 forks | `HandlerReady`, `CowFrozen` (with the types), `Isolated` |
| `Fs` | `FsSpec`, 8 blocks, two images, 2 windows, 4 requests or crashes | `BlocksExclusive`, `DiskSound`, `NeverPanics` (with the types), `FilesKept` |
| `FsServ` | `FairSpec`, 2 clients, 2 entries, 6 blocks, 5 calls | `EntryExclusive`, `ReplyExpected`, `WindowTrue` (with the types), `RequestsAnswered` |
| `Spawn` | `Spec`, pages of 32 bytes, segments around a page | `FailureLeavesNothing`, `StartedComplete`, `ArgvSeen` (with the types) |
| `Shell` | `FairSpec`, 6 environments, of which 1, 3 or 6 are left, 5 descriptors, 2 words | `Wired`, `JobsEnd` |

One run ends in a violation, a disagreement between the code and its own
comment (quoted in `PROJECT.json`): `FsStale`, where a new indirect block starts with
the contents of a freed block, so that a file gets blocks nobody allocated for it.

Further configurations reproduce other disagreements of the code with its
comments, tests or evident intent. They are not part of the regular runs; `tlc -config X.cfg M` ends with
the violation named.

| Configuration | Module | Property | What happens |
|---|---|---|---|
| `EnvSpawn` | `MCEnvLib` | `StopsOnlyWhenAllBlocked` | `spawn()` destroys an unstarted child (`spawn.c:218`); `env_free` unlinks what was never linked, against `env.c:17` "'env' in 'env_sched_list' iff. 'env->env_status' is 'RUNNABLE'" |
| `EnvStatus` | `MCEnvLib` | `SchedListExact` | `set_env_status` on an environment in `ipc_recv`; the next message links it twice, against `syscall_all.c:278` |
| `PmapLeak` | `MCPmap` | `NothingLeaks` | `sys_mem_alloc` loses a page when the page table cannot be allocated |
| `PmapNoPage` | `MCPmap` | `OwnDirectory` | `env_alloc` succeeds without a page directory, against `env.c:239` |
| `PipeDup` | `MCPipe` | `ClosedIsReal` | `dup()` preempted between its two mappings makes the pipe look closed, which `tests/lab6_1/testpiperace.c:33` calls "still a no-no" |
| `PipeOrder` | `MCPipe` | `InOrder` | the position is stored before the byte (C leaves the order open); the reader gets an old byte |
| `PipeEof` | `MCPipe` | `EofMeansDrained` | write and close between the two tests of `pipe_read`: 0 is returned, data is left, against `pipe.c:125` |
| `FsWrite` | `MCFsServ` | `WriteGrows` | `file_write` trusts the size in its Fd page; when another client has grown the file, writing makes it shorter, against `file.c:172` "Increase the file's size if necessary" |
| `DiskFlags` | `MCDisk` | `FlagsAsExpected` | `virtio_disk_req` loads `used->flags` twice; the device clears it in between and the kernel panics |
| `FsWindow` | `MCFs` | `StoresOwnFile` | a file is removed while another client has it open; its block goes to a second file, and the first client's next store changes that |
| `FsFull` | `MCFsServ` | `OneAnswer` | without an entry or a page for the open file `serve_open` answers twice; the client takes the second answer for that of its next request |
| `SpawnList` | `MCSpawn` | `FailureKeepsRunList` | the error path of `spawn()` destroys a child that never ran: the run list is damaged or the kernel stops |
| `SpawnArgv` | `MCSpawn` | `ArgvTerminated` | `args[argc]` points at the end of the last string, against `spawn.c:57` "Set args[argc] to 0 to null-terminate the args array." |
| `ShellPrompt` | `MCShell` | `PromptMeansDone` | the prompt is back while the right side of a pipeline runs, against `sh.c:109` "set '*rightpipe' to the returned child envid or zero" |

**Bounds.** Three slots let a list have a head, an inner element and a tail, and
a parent have a child and a stranger; two ASIDs for three slots make allocation
fail; four allocations reuse a slot. Priorities 1 and 2 are the smallest without
and with a second slice; `EnvLib`, with the temporal property, has only the latter, in which an
environment meets ticks both within its slices and at their end. Six pages are a directory, a copy, two tables and
two pages, so two spaces compete for them and exhaust them, while a page can be
mapped twice in a space and in both spaces. Pages are symmetric (a set of model
values that nothing orders). In `PipeUse`, five bytes go two and a half times
round a buffer of two, so that a byte has one a lap earlier and one a lap later; both environments hold both ends at first; in `PipeShare` three descriptors leave one free for `dup`. `MaxAlloc`, `MaxRequest` and `MaxBytes`
only bound counters. `PipeDup` and `PipeShare` transfer at most one byte because what they are
about does not depend on data. In `Disk`, 8 descriptors are two chains and two
descriptors over, so that a third request gets a part of what it needs; the
rings wrap in the middle. In `Fork`, a parent, a child and a grandchild or second
child share frames, and 8 frames are fewer than the three need, so copies fail. In
`Fs`, a file has one direct block and two in its indirect block, a directory block
holds two files, and the images fill the disk, so that a block can only be allocated after it was freed; four requests are
enough to remove or truncate, allocate again, flush and crash, and two windows to have one client use what another has given up
(stores and `open()` are not counted). In `FsServ`, two clients share the one
file, which can grow until the disk is full. In `Spawn`, sizes lie just below, at and above the
page, and arguments fill the stack page exactly or exceed it by a word. In `Shell`, six environments
are one fewer than a pipeline of three needs at its peak, so spawning also fails; five descriptors are just enough for a
pipeline with a redirection, and a command of three words has one too many.
`MaxCalls`, `MaxForks`, `MaxOps` and `MaxPipes` bound counters.

**Fairness.** `SF(handle_timer)`: the handler re-arms the timer before anything
else, user mode cannot mask it, and an interrupt that comes while the kernel polls the console stays pending. Nothing is
assumed about keys being pressed; `RunnableRuns` has the premise that no read of the console waits for ever (`ConsoleAnswers`). `FairUseSpec` assumes that an environment in a
library call goes on with it, which is `RunnableRuns` of `EnvLib`; nothing is
assumed about programs making calls. It leaves polling with `pipe_is_closed()` out:
with time slices of one step, an environment that polls for ever could interrupt
every pass of another through the loop of `_pipe_is_closed`.

`VirtioDisk` assumes that the kernel finishes, that environments run (`RunnableRuns`)
and that the device goes on with what it has been told of; a device that is asleep is
only woken by a notification. `FsServ` assumes that the server and a client in a call
run, nothing about clients making calls; and it assumes nothing about the loop of `ipc_send`: a request may be retried for ever while others
are faster, so `RequestsAnswered` begins when the server has taken it. `Shell` assumes that every environment
runs (so the user goes on typing), that the user ends the input, and that programs behave like `cat` and `echo`.

**Deadlock** is checked in `FsServ`, `Spawn` and `Shell`, where the end of all work is
a step of its own: a server that does not finish its work or a pipeline in which everyone waits is an
error. It is not checked elsewhere: programs end, the kernel stops when everybody waits or when it panics,
and bounded counters run out.

## 5. Proofs

All theorems hold for every value of the constants that satisfies the ASSUMEs of
the modules, which say no more than how the constants are meant:
`EnvsAssumption` and `ParamAssumption` (the array lists every slot once,
priorities are positive), `PmapAssumption` and `PipeAssumption` (finitely many
pages, environments, addresses), `DiskAssumption` (at least three descriptors;
the 16 bit indices wrap at a multiple of the ring size, which is a power of two;
sectors come in whole blocks), `ForkAssumption` (pages are listed once, the first
frames hold the first program, the stack is not a shared page),
`FsAssumption` (a disk with more blocks than the
reserved ones, at least one direct pointer), `HostsAssumption` (fsformat makes a well formed image of
each tree it is given, and the files of a tree have names), `FsServAssumption` (finitely many clients), `SpawnAssumption` (a page is a whole number of words and
has room for the three of an empty argument vector), `ProgramAssumption` (what a linker makes), `ShellAssumption`
(more than two descriptors, lines are sequences of strings). Where a theorem needs more, it says so
in its statement. No sizes are bounded: the counters that TLC needs bounds for
(`MaxAlloc`, `MaxBytes`, `MaxCalls`, `MaxForks`, `MaxOps`, `MaxPipes`) are arbitrary numbers.

**Tail queue** (`EnvProofs`, first part). If the pointers represent s, `TAILQ_INSERT_HEAD`
and `TAILQ_INSERT_TAIL` of an element not in s make them represent s with the
element in front or at the end (`InsertHeadPrepends`, `InsertTailAppends`), and
`TAILQ_REMOVE` of the p-th makes them represent s without it (`RemoveDeletes`).

**Kernel under arbitrary calls** (`EnvProofs`, part 1): `TypeCorrect`,
`AsidIsolation`, `FreeListCorrect`, `SliceBounded`. The inductive invariant `KernelInv` adds to
the three that envids name their slot, that `curenv` is live, and that an element
that was ever linked has a `tqe_prev`: the list may already be damaged by
`set_env_status` in these behaviours, yet it must keep its type for the next
operation, which holds because no operation ever clears `tqe_prev`. `SliceInv` adds for
`SliceBounded` that live environments have positive priorities (why `count` never
becomes negative) and that nothing runs before interrupts are enabled.

**Kernel under the library's calls** (part 2): `SchedListCorrect`,
`OnlyDeadlockStops`. `LibInv` adds that the list holds exactly the
runnable environments (`Holds`, with the sequence hidden, so that the lemmas
about `TailQ` apply as set equations), that a running `curenv` is runnable, and that
an environment that is receiving is blocked (why `ipc_try_send` may link it
without looking, and why `start_child` cannot meet it).

**What a step of the kernel never does** (part 3): `StatusIsConfined` and
`NobodyBornWithChildren` for arbitrary calls, `MessagesStay` and `YieldIsFair` for the
library's. They are action properties, proved from the two invariants.
`NobodyBornWithChildren` needs `GenOld`, that every envid in use or remembered as a parent is
older than the counter of `mkenvid`, and the hypothesis `MaxAlloc < GenMod`: once the
counter wraps the kernel makes envids again that are in use, and the property is false.

**Memory** (`PmapProofs`): `CountsAreExact`, `FreePagesUnused`, `TablesStayPrivate`,
`TlbStaysCoherent`, `UvptStaysFresh`. All places that can refer to a page are one
function `Holds` from places to pages; an operation moves one place (`Moved`) or
clears those of an environment. `PmapInv`: counts are the sizes of the sets of places
(`Counted`), free pages have count zero (`FreeIdle`), a page held by a directory, table
or copy place is held nowhere else (`Sole`, the reason why `page_decref` of a table
frees it), there are no pages under a missing table (`TableFirst`), ASIDs tell live
environments apart (`AsidOK`), and the TLB and the copy are right. `Recount` says
how one moved place changes the two sets involved; `FreeStep` sums over the loop of
`env_free`. The pages that a store to the vpt array loses are counted once too often for ever (`lost`), and so never freed. `ShortSpec`, where `env_alloc` runs out, is not covered: there the properties
fail.

**Pipe** (`PipeProofs`): `ClosedPipeIsClosed`, `ClosedPipeIsSeen`, `PipeIsFifo`. `MapInv` says for every
environment where its call has got to and what its halves of close, dup and fork have
left behind (`Halfway`), that away from those descriptors the two pages are mapped
together (`Paired`), what the child of a fork under way has (`Inherits`), and that the
counts read by an environment which nobody interrupted are current (`Snapshot`). If
only use and close happen (`OnlyUsed`), equal counts of a finite set of places and its subset
make the two equal and leave no place for the other end; this is why the Fd page must go
first in `pipe_close`, and it fails under `dup()`, as `PipeDup` shows. Conversely, when nobody is halfway, the
places of the one open end are all places of the pipe. `RingInv` says that what lies between the two
positions is what was written, counting a byte that is stored or fetched before its
position moves; of a byte that is announced and not stored yet, or given up and not loaded yet, it says what is in its place
instead. `PipeIsFifo` is a property of steps, for both orders and with `dup()` and `fork()` too.

**Disk** (`DiskProofs`): `DescriptorsAreConserved`, `PageIsLeftAlone`, and `DiskIsAtomic`, the refinement of
`SectorDisk`. `DiskInv`: every outstanding chain is laid out as `virtio_disk_req` does it
(`AllShaped`), chains are disjoint, what is in no chain is free (`NoneLost`), the client of an unanswered
chain polls for just that request (`AllAsked`) and has only one (`OneEach`). An outstanding chain is in one of four
places (prepared, available ring, device, used ring), and a step moves it (`MoveChain`), adds it
(`NewChain`) or recycles it (`Recycle`). The rings do not overflow because three descriptors
per chain leave fewer than QN chains (`Room`, a pigeonhole over indices that wrap:
`BetweenIs`, `EntriesDiffer`). That a chain of the recursive function `Chain` is its three descriptors, and that
the search of `alloc_desc` finds the least free one, is an induction over numbers: it is
carried out with `LeastNat` (every nonempty set of numbers has a least element, from the well-founded
order of the library) applied to the set of counterexamples. The count of `DescConserved` is a
bijection between chains times {1, 2, 3} and the descriptors in use (`CountDescs`). `panicked` is about the assertions of
`free_desc`; the panic over the flags is another state (`kern = "panic"`), which can be reached. In the refinement an operation takes
effect at `dev_transfer`; everything else is its call, its return or a stutter.

**fork** (`ForkProofs`): `HandlerAlwaysReady`, `CowAlwaysFrozen`, and `ForkIsolates`, the refinement of `PrivMem`. `ForkInv`
says what entries may hold (`MapOK`, `LibOK`), what a free environment and an embryo have
(`IdleOK`), that in the loop of `fork()` the pages before the position are done and the
permissions that `duppage` read are still true (`ParentOK`), that the stack stays writable
between the store of a wrapper and its system call (`SavedOK`), that the handler is set
before the first copy-on-write page (`EntryOK`), what each step of `cow_entry` has in hand (`CowOK`), and
who may share a frame with whom and with which permissions (`ShareOK`, with the exception of the page
between the two system calls of `duppage`). The refinement adds `FreeZero`, that unmapped
frames are zero, so that an allocation is invisible.

**File system** (`FsProofs`, first part): `FsBlocksExclusive`, `FsDiskSound`, `FsNeverPanics`. They hold for every number of
blocks, direct and indirect pointers and entries of a directory block, for every number of requests,
whatever fails for want of memory or blocks, and for a crash at every write. `FsInv` relates two pictures of the blocks.
`ViewOf` is what the server sees, the cached block or else the one on disk; at the end of a request it is well formed: the
directories nest to a finite depth and have no holes, and each block in use is used once and not free
(`Sound`, as `Owned` pointer by pointer). The disk, at the end of the request and before each of its writes, lags behind
(`Lower`): it may lack pointers the view has but has no others, what its bitmap calls free is free in the view,
and a directory on it is as the view has it or empty. A disk that lags behind well formed blocks is sound
(`LowerSound`), and if its indirect blocks are saved it is well formed itself, so that a server can start from it: this
is the use of `calm` and the reason why a crash with an older indirect block ends a behaviour.

Within a request the view leaves that shape and comes back. `file_truncate` and `file_remove` prune one file: pointers go to 0
and only their blocks become free (`Pruned`); once a directory that lost blocks is empty, all is well formed again
(`PrunedSettled`). The disks meanwhile lag behind the view from before the request, and when the
block with the struct File has been written they lag behind the new one too. This is the place where the order of the code
matters: `file_set_size` and `file_remove` flush the directory before they return, so that no freed block is
reused while the disk still names it, and `DiskSound` fails without it (its mutant). `file_get_block` grows one file:
`alloc_block` takes a free block, which nobody uses (`Fresh`, `Spare`), the bitmap is written at once, and one pointer that was 0
names it (`Adopts`, `Grown`). Client stores go to a page some client got for a data block. The block may be free by now or
in another file, but it is no directory block (`MapIn`: a page with the struct Files of a directory is never one that a client had as data, because
no file of the model turns into a directory, and directories do not grow), so unless it is an indirect block the store changes no pointer and no struct File
(`DataAlike`). If it is one, the defect is recorded and only what `Kept` says after a defect is claimed: types, no panic, open files in cached
blocks. An open file is an entry of a directory block that is cached and stays it (`OpenIn`). After a crash in `check_write_block` the server has not
even a superblock (`Wrecked`), and nothing is open.

The loops of the code (`dir_lookup`, `walk_path`, `file_flush`, `file_truncate`, the levels of the tree in `Reach`) are recursive
functions in the model; `Recursion` gives their equations, `Loop` an invariant per turn, both from the
well-founded order of the numbers. That `fsformat` makes well formed images is not proved: it is `HostsAssumption`,
which TLC evaluates on the images of the runs.

**File server** (`FsProofs`, second part): `RepliesAreExpected`, `EntriesAreExclusive`. `ServInv`: the server is in turn with one client,
which waits for it, and no other waits (`Turn`); its request is the one its client is at
(`Sent`); who opens has no descriptor (`Opening`); an entry on its way to a client is nobody's
(`Handed`), and afterwards its alone, with the id and file it got (`Holding`); ids keep their
entry modulo MAXOPEN (`Ids`). Nothing about the file system itself is used: `FsOps` may
return anything. `ServAlways` says that `ServInv` holds until `open_alloc` has failed (`refused`), for any number of clients and
entries; once it has, clients make no further calls in the model (`RefusalStays`).

**Program loading** (`SpawnProofs`): `FailureIsClean`, `StartedIsComplete`, `ArgvIsSeen`. `Control` says what `spawn()`
holds at each of its calls (child, open file, page at UTEMP; that the run list is sound as long as no child was destroyed), `Stacked` that from `stack_map` on the child's
stack is what `init_stack` makes and that only the library pages are shared, and `Memory` that the child maps exactly the
pages of the segments done and the first pages of this one, each as `Reference` says, but for the one
that is mapped and not yet filled (`Half`). `SegLoads` is the reason: for every page size and every segment
of `ProgramAssumption`, `elf_load_seg` calls the mapper once for each page of the segment, in order, with just the bytes of
the file that belong there; the arithmetic of rounding is in `DivIs` and `CeilDivIs`. `LoadIcodeMakes` draws the same
conclusion for the kernel's loader. `StackSeen` is about the layout: strings do not overlap each other or the words, and
the words not each other. What the recursive functions of the model compute after n rounds of a loop
(`StringsHold`, `PointersHold`, `LoadSegMakes`) is shown by induction over numbers: `Recursion` gives the defining equation,
`Upward` goes from n - 1 to n, from `LeastNat` as in `DiskProofs`.

**Shell** (`ShellProofs`): `CommandsAreWired`. `Wired` speaks of the whole line, while the code goes
through it token by token and hands what is left to a child at each bar. `ShellInv` says for every shell in `runcmd` where it
is in its line (`ReadTo`: its stage starts after token a and is read up to q) and that its arguments and its descriptors 0 and 1
are what the tokens read so far say; between `pipe()` and the last `close()` it says which of the descriptors 2 and 3
still are ends of the pipe (`AtBar`, `HasPipe`, `Begins`). That output files are inherited is why `Output` is about the line from its
start and `Input` only about the stage. The lemmas underneath are about the reference definitions: reading one token more
appends a word, replaces the file of a direction or changes nothing (`WordAdded`, `WordSkipped`, `FileAdded`), and counting
bars gives the stage (`StageIs`). Descriptors 0 and 1 are in use unless a `dup()` has failed, so a new one is 2, then 3
(`Lowest`); after a failure it may be 0 or 1, and what is said of the ends of a pipe beside these does not depend on it. Whatever fails, `fork`, `pipe` or `spawn`, the shell ends or goes on without a command, and the rest is not affected.

**Only model-checked.** Liveness (`RunnableRuns`, `CloseUnblocks`, `CallReturns`,
`RequestsAnswered`, `JobsEnd`), which is out of the prover's reach. `FilesKept` of `Fs`: it is about the contents of
files behind paths, and after a crash about the contents a client had before; `FsInv` says which blocks a file has
and not what is in them. `WindowTrue` of `FsServ`: a client whose file was
cut under it keeps storing into pages of blocks that may have become indirect blocks, and an indirect block may start stale
(`FsStale`), so with indirect blocks the property is false of the code; the run checks it for files without them
(NINDIRECT = NDIRECT), where a freed block only comes back as data. That `fsformat` makes well formed images
(above).

## 6. Not modelled

* Trap frames, registers and the dispatch of traps: the models start where a
  handler is entered. Printing and strings: no state of their own; of the console only that a read waits. The
  boot-time kernel map: built once, before anything else runs.
* `file_create`, `dir_alloc_file` and `unmap_block` of `fs.c`, which nothing but
  `fs/check.c` calls; `spawnl`; `stat`, `file_read` and other calls that only read;
  `ls`, `num`, `init` and `icode`; `bintoc` and `readelf`.
* In the clients of the file server: a failing `ftruncate` leaves the new size in the
  Fd page and `open()` failing while it maps leaves the Fd page mapped (both are in
  `FsServ`, and no property promises otherwise); descriptors shared by `dup` or
  `fork` have a window of their own each and are not modelled; removing a
  directory while a file below it is open is excluded in `Fs`.
* `fsformat` does not check that the tree fits on the disk; the images fit.
* `pp_ref` (16 bits), envid generations beyond `GenMod` and the positions of a pipe
  do not wrap in the models; two environments reading or writing one pipe end at the
  same time are excluded, because the code has no lock for it and no program does it.
