# TLA+ models of the Simplified OS Kernel

This directory holds TLA+ models of the kernel under `src/kernel/`. The
models are checked with TLC. Each module is translated from the C++ source.
Semaphore, Future, `go()`/`event_loop()` and the timer handler are not in
`src/`, so they are modelled from `spec.md` (sections 3, 4.7 and 5). In
`PROJECT.json` they are marked `spec_modelled`.

## 1. The system, as the models see it

Components, what state each keeps, and how they interact:

| Component | Source | State | Operations |
|---|---|---|---|
| VMA list | `queue.h` VMEQueue | sorted, doubly linked list of `VME{start,end,size}` per PCB | `add_vme` (first-fit when start is 0, sorted insert otherwise), `remove`, `deep_copy`, `contains_range`, `intersects_queue` |
| PCB | `pcb.h` | children stack, 100 semaphore slots, 10 descriptor slots, exit future, VMEQueue, signal fields, `killed` | `add_child`, `peek_child`, `remove_child`, `remove_from_vmequeue`, `init_file_descriptor` |
| Event loop | `events.h` (spec 4.7) | one FIFO of closures per CPU | `go(work)`, `event_loop()` |
| Semaphore / Future | `semaphore.h`, `future.h` (spec 3) | count + waiter FIFO; value + waiters | `up`, `down(k)`, `set(v)`, `get(k)` |
| Bounded buffer | `bb.h` | byte queue, `n_full`, `n_empty` | `put(v, work)`, `get(work)` |
| Syscall dispatcher | `sys.cc` | none of its own; acts on the caller's PCB | the system calls, then `switch_interrupt` on the way out |
| ELF loader | `elf.cc` | none | `valid_load`, `load` (adds one VME per PT_LOAD) |
| VM manager | `vmm.cc` | page directories and tables | `per_core_init`, `free`, page-fault handler with lazy allocation and signals |
| Block cache | `cache.cc`, MRUQueue | MRU list of blocks | `read_block` |
| File system calls | `sys.cc`, `pcb.h` | per-PCB descriptor table of shared handles, each with an atomic offset; `cwd_node` | `find_path_node`, `chdir`, `open`, `close`, `dup`, `len`, `read` of a file |
| User test programs | `t0.dir`, `t1.dir`, `t2.dir` `sbin/init.c` | the program's locals | system calls through `libc` (`fork`, `join`, `sem`, `up`, `down`, `sem_close`, `simple_signal`, `simple_mmap`, `sigreturn`, `shutdown`) |

All user work starts on the boot CPU, and `go()` enqueues on the current
CPU. So one CPU runs everything, and the interleavings that matter are the
ones the event loop produces. These are:
- timer preemption (the timer only sets `interrupts`; `switch_interrupt` or
  `switch_processes` acts on it);
- blocking calls (`join`, `down`, pipe `read`/`write`), which hand a
  continuation to a future or a semaphore and enter the event loop;
- wakeups (`exit`, `up`, the bounded buffer's continuations), which `go()`
  the waiting continuation.

A system call runs to completion: it enters through a trap gate, and
preemption happens only as the call returns.

The hard behaviours are:
- wakeups lost or doubled across these paths;
- `join`'s continuation acting on the children stack as it is when the
  continuation runs, not as it was when `join` waited;
- bytes of blocked writers passing through two FIFOs (the `n_empty` waiters
  and the event loop);
- the VME list's boundary arithmetic (uint32 wrap, `>=` against `>`);
- `execl` reusing the old VME list.

## 2. Modules

### `VmeQueue.tla` (with `MCVmeQueue.tla`)

This module models one PCB's VMEQueue and the calls that change it.

Addresses are in pages. The 2^20 pages of the 32-bit space are scaled to
`Modulus` pages, so uint32 sums wrap where the code's sums wrap.
`UserLo`/`UserHi` stand for 0x80000000 and 0xF0000000.

The list operations are operators:
- `AddVme`, with `FirstFit` and `InsertPos` (the two walks of `add_vme`);
- `RemoveVme`;
- `DeepCopy`/`CopyFrom` (last to first);
- `ContainsRange`/`ContainsFrom`;
- `IntersectsQueue`;
- `ElfLoad`.

`ELF::valid_load` and the alignment of `ELF::load` are operators on byte
addresses, with `PageBytes` bytes a page:
- `ValidLoad(h)`: the entry range test, the range test of every PT_LOAD
  segment (`SegmentAccepted`, the three comparisons of elf.cc:40 in uint32
  arithmetic, with the code's limit 0xF0001000 as `ElfLimit`), and the
  `valid_entry` search (`EntryIn`). The magic, class, machine, version
  and phoff/phnum checks are one flag, `fileOk`.
- `LoadImage(h)`: the page-aligned region `load` reserves for each PT_LOAD
  segment (`AlignedSegment`), in header order, for `ElfLoad`.

The actions are:
- `Mmap(addr, size)`: every early return of `simple_mmap`, then `add_vme`;
- `Munmap(addr)`;
- `Exec(img)`: the VME effect of `execl`, which keeps the list and lets
  `ELF::load` add to it.

`Init` is the PCB constructor's stack VME followed by `kernelMain`'s
`ELF::load`.

### `Kernel.tla` (with `MCKernel.tla`)

This module models the processes on the CPU. Variables:
- `running`: the PCB in user mode, or NULL when in the event loop;
- `interrupts`;
- `workq`: the event loop's FIFO;
- per-PCB state: `exitv` and `futWaiters` (the exit future), `children`,
  `killed`, `semtab`, `fds`;
- shared objects: `sems`, `pipes`;
- history variables for the properties: `joined`, `wlog`, `rlog`.

A closure is a record `Item(kind, p, b, v)`:
- `resume`: `switch_processes`;
- `start`: fork's child;
- `down`, `join`, `put`, `get`: the continuations of those calls.

Each system call is one action, named as the code names it. Its guard is
`Caller(p)`: the process is in user mode. Every call that returns ends in
`Return`, which is `switch_interrupt`: if the timer fired, the caller is
parked behind the queued work. Every call that blocks ends in `Suspend`.

`Dispatch` runs the head of `workq`:
- `RunResume`;
- `RunJoin`: `remove_child`, then the exit value;
- `RunPut`: `queue.add`, `n_full->up`;
- `RunGet`: `queue.remove`, `n_empty->up`.

`Tick` sets the flag. `Preempt` is the timer interrupting user mode.

Each configuration enables only the system calls its question needs, through
the `Calls` constant. Read, write, close and dup take descriptor arguments
from `FdArgs`.

### `Vmm.tla` (with `MCVmm.tla`)

This module models the user address spaces: each PCB's page directory,
page tables and data frames, and the pool of free frames. It composes
VmeQueue: `VQ == INSTANCE VmeQueue` supplies the list operators, and each
process has its own list in `vmes`.

State:
- `pd`, `pdes`, `ptes`: a page directory frame per PCB, and a PDE per table
  and a PTE per user page. `NoFrame` is an entry whose present bit is clear.
  A table covers `TablePages` pages (1024 in the code).
- `free`: the frames `PhysMem` holds. `PhysMem` is not in `src/`, so
  `Picks` and `Populate` model `alloc_frame` from spec 4.1: it returns any
  free frame, zeroed.
- `mem`: one bit of data per frame. `seen` is a history variable: what each
  process last wrote to each page.
- `handler`, `inh`, `ctx`, `saved`: `handler_eip != 0`, `in_handler`, and
  whether the process runs its main program or its handler. `saved` is
  `handler_user_context`.

Actions:
- `PageFault` is `vmm_pageFault`, with its four outcomes in the code's
  order:
  - `ImplicitSigreturn` (0x2000 in a handler);
  - `SegvExit` (exit 139);
  - `SegvSignal`;
  - `LazyAlloc` (a table if the PDE is absent, then a frame).
- `Munmap` is `remove_from_vmequeue`. `FreeRange` is its walk, built from:
  - `Walked`, the tables visited;
  - `Cleared`, the present PTEs in [start, end);
  - `Whole`, the tables freed only when pti 0..1024 is covered.
- `Fork` is the eager copy (`ForkedMem` copies the data).
- `Exec` is `VMM::free`, a new directory, and `ELF::load` into the kept
  list, with the segment pages faulted in by `read_all`.
- `Exit`, `Signal` and `Sigreturn`.
- `Write` is a user store.

The `Calls` constant selects the system calls a configuration uses.

**State-space reduction.**
- Frames are integers. `MCPicks` fixes one allocator (the lowest free
  frames).
- `MCView` forgets which frame numbers are in use. It keeps:
  - per holder (directory, table, page), that it holds a frame and that
    frame's data;
  - which holders share a frame;
  - which hold a free frame;
  - how many frames are free.

Two states with the same view differ only by a renaming of frames, so the
reduction is sound. A frame nobody holds and nobody will read (a leaked one)
is left out, and only the leak-finding run depends on such frames. Without
the view, one process alone has 0.5M states.

### `BoundedChannel.tla`

This module is the abstract specification of what a `BoundedBuffer`
promises, as written in the comments of `bb.h`. It is a FIFO `buf` of at
most `Cap` values granted a slot, and a FIFO `blocked` of writers waiting
for room:
- `Put(c, v)` takes the next slot or waits.
- `Get(c)` hands the oldest value to the reader and its slot to the oldest
  waiting writer.

`Kernel` instantiates it (`Chan == INSTANCE BoundedChannel WITH ...`) with
this refinement mapping:
- `buf` is the pipe's queue followed by the values of the `put`
  continuations waiting in the event loop, in event-loop order;
- `blocked` is the values of `n_empty`'s waiters;
- `delivered` is what readers received.

`PipeRefinesChannel == Chan!Spec` is checked as a PROPERTY. Every kernel
step must therefore be a channel step or leave the mapped state alone.

### `Cache.tla` and `LruCache.tla`

`Cache` models `Cache::read_block` (cache.cc) over its `MRUQueue`
(queue.h). The list is a set of nodes `1..NNodes` with `next`, `prev`,
`first`, `last`, and each node's `id` and `buf`. A buffer holds "the
contents of block b", written as `b`, or `Garbage`: the constructor
allocates the buffers and never fills them, and marks every node with id
`-1` (`NoId`). `read_block` holds the cache's spin lock for the whole call,
so one call is one step:
- a hit (`contains()` finds the id) runs the pointer surgery of
  `contains()` (`MoveToFront`), then copies the buffer of `peek()`;
- a miss reads the disk and runs `add()` (`AddFront`), which recycles the
  last node.

`LruCache` is what the cache promises as a block device: `read_block(b)`
returns block `b`'s contents, and the cache holds the `Size` blocks read
most recently. The refinement mapping `CachedIds` is the ids along the
list, the never-filled nodes left out, and `CacheRefinesLru == Lru!Spec`
is checked as a PROPERTY.

With block id `0xFFFFFFFF` among the blocks read, `CacheRefinesLru` fails in
two states: a cold `read_block(0xFFFFFFFF)` matches a never-filled node
(id -1) and returns its uninitialized buffer without reading the disk
(queue.h:87). No Ext2 block number reaches that id, so the run reads blocks
1-4 and the case is left out.

Nothing in `kernel.cc` constructs a `Cache` (the file system reads the
`Ide` directly), so this module is checked on its own.

### `Files.tla` (with `MCFiles.tla`)

The file-system calls of `sys.cc`. State per PCB: `status`, `cwd` and the
descriptor table `fdt`, whose slots hold handles (`Shared<FileDescriptor>`).
Per handle: `desc` (vnode, readable, writable) and `off`, the shared atomic
offset. `dup` and `fork` copy handles, so the copies share one offset. The
Ext2 tree is the constant operators `Find`, `IsDir` and `SizeOf`; `MCFiles`
gives the test disk's `/`, `/sbin` and the 2-byte `/sbin/init`, with `.`
and `..`.
- `Walk`/`FindPathNode` translate `find_path_node`'s loop over a path of
  tokens ("/" or one name), keeping its slash handling. `Resolve` is a
  reference resolution by names; `PathLookupAgrees` compares the two.
- `Chdir`, `Open`, `Close`, `Dup`, `FileLen`, `Read` and `Fork` are the
  system calls; a call that returns -1 is a stuttering step.
- `FileLen` on a terminal descriptor (no vnode, no pipe) faults on the null
  vnode; the fault handler ends a process without a handler with 139
  (`ExitWith`).
- `rlog` records each file read (which `open()` it went through, where it
  started, how many bytes) for `ReadsTileFile`.

Any live process may make the next call: calls are atomic and the
scheduler, with preemption, can run any runnable process. Pipes and
terminal writes are in `Kernel`.

### `InitT0.tla` (with `MCInitT0.tla`)

The user test program `t0.dir/sbin/init.c` run on the Kernel model, which
it EXTENDS. `pc[p]` is the next statement of PCB p's program. `Main` holds
the statements of `main` and `Child` holds the four child branches. Each
statement is one Kernel system call, taken while p is on the CPU:
- `Spawn` is `FORK()`: the parent continues after the `if` and the child
  in its branch;
- `JoinAt`/`JoinValue` give join's value (-1, or the exit value the
  continuation stores);
- `CallAt` covers down, up and sem_close, whose value is fixed when the
  call is made;
- `Segv` is the child's write to 666: `vmm_pageFault` stores the address at
  0xF0000800 (`fault`) and exits with 139;
- `Printf` is a `write(1, ...)` of a line that prints a value, appended to
  `out`.

Lines that print no value are left out: they are terminal writes, and
`Preempt` already parks a PCB at any point of its user code. The
grandchild's `while(1)` has no statements at all; it only runs and is
preempted. `Off` is the stuttering of the powered-off machine. It keeps
deadlock checking meaningful up to `shutdown`.

## 3. Runs

| Run | cfg | What it shows |
|---|---|---|
| vme_pass | `VmeQueue.cfg` | After any mmap/munmap sequence: the list is sorted, disjoint and in user space; `contains_range` equals real coverage; `deep_copy` reproduces the list; first-fit returns the lowest fitting page; from every list reached, an `execl` of a program `valid_load` accepts (1,027 headers: segments below, in and past user space and one that wraps) reserves every byte of its PT_LOAD segments and its entry (`ExecMapsAcceptedImage`). |
| vme_exec_overlap | `VmeQueueExec.cfg` | **Violation.** `execl` adds the new program's segments to the old list, giving overlapping VMEs (elf.cc:82, sys.cc:364-369). |
| kernel_sync | `Kernel.cfg` | Covers fork, exit, join, sem/up/down/sem_close, dup, close, kill, yield, shutdown and preemption with 3 processes. Every live process is resumable from exactly one place. Under weak fairness of the event loop and of preemption (`FairSpec`), a queued process eventually runs. |
| kernel_pipe | `KernelPipe.cfg` | Covers pipe, blocking read/write, fork, join and exit with a capacity-2 pipe and 3 writes. `n_empty` + pending puts + queued bytes = capacity, and queued bytes = `n_full` + pending gets, so `get` never dequeues from an empty queue. Every pipe refines `BoundedChannel` (`PipeRefinesChannel`), so readers see bytes in write-call order and the freed slot goes to the oldest blocked writer. |
| vmm_pool | `Vmm.cfg` | Two processes, 7 frames, 1- and 2-page mmaps, fork, exit, signals, sigreturn and faults. Every frame has exactly one holder (no leak, no sharing, nothing freed while mapped). Every present PTE lies in a VME under a present PDE, so fork copies the VME list along with the pages. Each process reads back its own last write. A fork inside a handler gives the child a consistent `in_handler` and saved context. |
| vmm_space | `VmmSpace.cfg` | One process, 1- and 2-page VMEs over two tables, and a signal handler. The partial-table walk of munmap frees exactly its range, and frees whole tables only. No PTE stays outside a VME, and a page unmapped and faulted again reads zero. The signal state is checked in vmm_pool, since munmap and mmap never touch it. |
| vmm_exec | `VmmExec.cfg` | execl with the kept VME list. Even with overlapping VMEs, munmap and later faults never leave a frame with two holders, or held and free at once. |
| vmm_exec_leak | `VmmExecLeak.cfg` | **Violation.** execl never frees the old page directory frame (sys.cc:365-368). |
| cache_mru | `Cache.cfg` | Any sequence of reads of 4 blocks through 3 nodes keeps one doubly linked list of all nodes, hits at the last node included, and the cache implements an MRU cache of 3 blocks. |
| files_io | `Files.cfg` | Two processes open, read, dup, close, chdir and fork over `/sbin/init`. Reads through one `open()`, from any process or slot holding its handle, continue each other from 0 and return 0 exactly at the end of the file. `find_path_node` agrees with name-by-name resolution, except that it rejects `init//` while it accepts `init/`. |
| init_t0 | `InitT0.cfg` | The test program `t0.dir/sbin/init.c` (spec S1-S4) on the Kernel model, under every placement of timer ticks and preemption. Every value it prints is the expected one (`OutputAsSpecified`: 42, 139, 666, 777, s = 0, rc 0, join 0, -1, 0, -1). Under the fairness below it reaches `shutdown` having printed all of them, though the grandchild spins for ever (`InitCompletes`). Deadlock is checked: no state short of shutdown is stuck. |
| files_len | `FilesLen.cfg` | **Violation.** `len(0)` on the terminal descriptor calls `is_file()` on a null vnode, and the caller dies with 139 instead of getting -1 (sys.cc:611). |

**Bounds.**
- The VmeQueue run uses 6 user pages (`UserHi` 14, so that 0xF0001000 lies
  below the top of the word as it does in the code), sizes 0-2 and two ELF
  segments. Its ELF headers have 2-byte pages: one or two program headers
  of either type, vaddr 15, 17 or 28, memsz 0, 3 or 20, and three entries.
  The mmap and munmap sequences reach:
  - the exactly-fitting gap;
  - the top of user space;
  - adjacent VMEs (which exercise the order of `deep_copy`);
  - wrap-around of `addr + size`.
- The Kernel runs use 3 PCBs. That is enough for two children of one
  parent, so a join can meet another fork.
  - The pipe run uses capacity 2 and 3 writes. This makes a full buffer,
    one blocked writer, two blocked readers and reordering candidates
    reachable.
  - Each model bounds a semaphore's count at `MaxCount` and the bytes
    written per pipe at `MaxWrites`.
  - The pipe run uses symmetry over the two forkable PCBs and over the byte
    values, which are interchangeable model values. The sync run checks liveness, where TLC's symmetry reduction is
    unsound, so it has none, and uses the single exit code 0 to stay within
    time.

- The Vmm runs use 4 user pages in two tables of 2 pages each. Pages 8
  and 11 hold `/sbin/init` and the stack, leaving a 2-page gap that crosses
  the table boundary. Bad pages 0 and the sentinel 2 are below user space.
  - The two-process run uses first-fit mmaps of 1 and 2 pages and 7
    frames: 3 for init, 3 for a fork, 1 for a fault.
  - munmap with two processes and signals together exceeds 5 minutes.
    munmap only touches the caller's own frames, so it is checked where it
    interacts with tables, in the single-process runs vmm_space and
    vmm_exec, and the two-process run covers fork with signals.

- The Cache run uses 3 nodes (16 in the code) and 4 blocks, one more than
  fit. This reaches a hit at the first, a middle and the last node, and an
  eviction. Every node behaves the same, so more nodes add only longer
  lists.

- The Files runs use 2 processes, 4 descriptor slots (3 terminals and one
  free), one `open()` (`MaxDescs` 4) and 4 reads of 0-2 bytes of a 2-byte
  file. This reaches a shared handle read by parent and child in both
  orders and reads at the end of the file. Calls take paths of up to 2
  tokens plus `/sbin/init` and `sbin/init`; `PathLookupAgrees` is checked on
  every path of up to 4 tokens, from every cwd reached.

- The init_t0 run has six PCBs, as many as the program creates (init,
  four children, one grandchild), one semaphore slot and no pipes. Fork
  takes the lowest free PCB: which PCB a child gets does not change what
  it does, and fixing it keeps the run small without symmetry, which
  liveness rules out. A join meets both orders (child exited before or
  after the join), since a tick can park the parent right after fork.

**Deadlock.** The kernel runs set `CHECK_DEADLOCK FALSE`. The program can
stop:
- all processes may exit;
- `shutdown` powers off;
- a pipe reader can wait for ever, because pipes have no end-of-file.

**Fairness.** `FairSpec` assumes weak fairness of `Dispatch` and
`Preempt`:
- the event loop runs whenever it has work and the CPU is in the kernel;
- the timer keeps interrupting user mode.

`InitT0`'s `Spec0` adds strong fairness of each PCB's next statement
(`Step(p)`): a PCB that is put on the CPU again and again gets to execute
its next system call, since the timer's period is far longer than one
call. Weak fairness would not do: preemption takes the CPU away, so the
statement is not continuously enabled.

## 4. Mutants

Every property of a passing run has a mutant: a plausible coding error,
defined in the module next to the operator it replaces, that TLC catches.
Examples:
- first-fit with `<=`;
- `contains_range` with an inclusive end;
- a join that waits on a future already set;
- a get that forgets `n_empty->up()`;
- a yield that goes to the head of the queue.

## 5. Plan for the remaining parts

Known divergence with no run: `MmapGrantsFreeRange` (VmeQueue) states
spec 4.3's rule that only an overlap makes `mmap` fail. Under
`VmeQueue.cfg`, TLC finds it violated in one step: `mmap(9, 1)` next to the
init segment at page 10 returns 0, because `intersects_queue` tests
`addr + size >= it->start` (queue.h:217). The run that checked it gave its
place to init_t0.

Open questions, most important first:
1. **0xF0001000 in `valid_load`** (elf.cc:21, 40): segments and entries in
   the shared page are accepted and `load` reserves that page. A run that
   checks `SortedDisjoint` over `execl` would show it, but `execl`'s kept
   list already breaks that invariant (`vme_exec_overlap`).

## 6. Not modelled

- Ext2 and IDE I/O, the trampolines and the user stack layout. These are
  I/O and data layout.
- Idle secondary CPUs. They never receive work.
- Byte contents beyond a small set of values.
- The argument-pointer checks, which are data and not control. This
  includes `find_path_node`'s range check after the walk (spec section 9).
- The bytes of file-backed `simple_mmap`; only its VME is modelled.
- The ELF header fields other than the entry and the program headers'
  type, vaddr and memsz; and the reads of the file, which are Ext2's.
- The test programs t1 and t2 (S5, S6) as scripts. Each is one process:
  `simple_signal`, a fault outside every VME, and in t2 `simple_mmap` of the
  faulting page and `sigreturn`. `vmm_space` checks every such sequence of
  one process, but no run follows the two programs step by step.
- `execl` called from a signal handler. The code keeps `in_handler`,
  `handler_eip` and the saved context for the new program, so its first
  SEGV exits instead of reaching a handler, and `HandlerContext` fails. The
  spec does not say what execl does to signal state, so no run checks it.
