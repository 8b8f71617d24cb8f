# TLA+ verification of the lab kernels

TLA+ models of the kernels under `os/` (chapters 1 to 5 and X of an rCore-style teaching
system in Rust, for one RISC-V hart) and of the user programs that run on them (`os/tg-user`),
model-checked with TLC. The safety properties of the kernels of chapters 2, 3, 4 and 5, both
refinements of chapter 5, and of the user programs their types, the exactness of their pipes, the
synchronisation of their threads and that every test with threads and every memory test passes are
proved with TLAPS for every value of the constants.

Paths below are relative to the repository. Line numbers are those of the modelled commit.

    tlc -config Ch5Kernel_stride.cfg MCCh5Kernel      # a run (table in section 4)
    tlapm Ch5Kernel_proofs.tla                        # proofs (table in section 6)

## 1. The system and its parts

| component | state it keeps | operations | modelled |
|---|---|---|---|
| chapter 5 scheduler, `os/ch5/src/processor.rs` | map pid -> `Process`, ready queue, stride and priority of each process | `insert`, `get_mut`, `delete`, `add`, `fetch` | `StrideScheduler`, `StrideFairness` |
| chapter 5 processes, `os/ch5/src/main.rs`, `process.rs` | current process, parents, exited children, saved contexts, the pid counter | the loop of `rust_main`; `fork`, `exec`, `spawn`, `wait`, `exit`, `getpid`, `sched_yield`, `set_priority` | `Ch5Kernel`, `ProcessLifecycle` |
| chapter 5 address spaces, same files | areas and page table, `heap_bottom`, `program_brk`, kernel heap | `from_elf`, `fork`, `exec`, `change_program_brk`, `mmap`, `munmap`, `read`/`write` through `translate`, `Sv39Manager` | `UserMemory`, `PrivateMemory` |
| chapter 5 console and clock | none | `write`, `read`, `clock_gettime` | as steps that return; `read` as a store |
| chapter 3 multiprogramming, `os/ch3/src/main.rs`, `task.rs` | task table (context, `finish`, `syscall_count`), index, `remain`, armed timer | load, round-robin scan, timer, `handle_syscall` | `Ch3Kernel` |
| chapter 4 process list, `os/ch4/src/main.rs`, `process.rs` | `PROCESSES`, `syscall_count` | load, `schedule`, syscalls, removal at the end | `Ch4Kernel` |
| chapter 4 address spaces, same files | as in chapter 5, all loaded before the first program runs | `Process::new`, `sbrk`, `mmap`, `munmap`, `trace` over `translate` | `Ch4Memory`, over the operations of `UserMemory` |
| chapter X, `os/chX` | that of chapter 4, another initial heap | that of chapter 4 | no: its allocator's `init` is `todo!()`, so it panics at boot; finished, it is `Ch4Memory` word for word |
| buddy helper, `os/tg-buddy-alloc` and the copy under `os/chX` | intrusive free lists | `push`, `pop`, `remove`, `block_size`, `buddy_addr`, `size_to_order`, the `GlobalAlloc` bridge | `BuddyLists`, under an allocator of the kind its comments ask for |
| chapter 2 batch kernel, `os/ch2/src/main.rs` | index and context of the running application, the hart's instruction cache | run each application to its end, `fence.i`, next | `BatchKernel` |
| chapter 1, `os/ch1` | none | prints and shuts down | no state |
| user library, `os/tg-user/src/lib.rs`, `heap.rs` | locals of retry loops; the user heap | `sleep`, `get_time`, `pipe_read`, `pipe_write`, `trace_*`, `count_syscall`, `_start`, the panic handler | with the programs that use them |
| initproc and shell, `os/tg-user/src/bin` | the child waited for; a line buffer | fork, exec and wait loops | `UserProcesses`; in `Ch5Kernel`, initproc's end is a guard (`MayEnd`) |
| user tests with processes and pipes, same place | locals, pipes | `fork`, `spawn`, `exec`, `wait`, `pipe`, assertions | `UserProcesses` |
| user tests with threads | statics, mutexes, semaphores, a condition variable | `thread_create`, `waittid`, locks, assertions | `UserThreads` |
| user tests of chapters 3 and 4 | pages, a byte variable | `mmap`, `munmap`, `sbrk`, `trace`, loads and stores | `Ch4Memory` |
| build scripts, `build.rs`, linker glue | none at run time | embed the programs | the number of programs is a parameter |
| kernel address space and portal | built once at boot | `kernel_space`, `map_portal` | never changes, not modelled |
| external crates (`tg-task-manage`, `tg-kernel-vm`, `tg-kernel-context`, `tg-syscall`, `tg-sbi`, `tg-kernel-alloc`, `tg-linker`) | `PManager`, `AddressSpace`, contexts, heap | as called | from the calls, marked external |
| `lab_tool` | none | prints an embedded text | no state |

**How they interact.** A user program and its kernel interact by traps only. The hart runs
one process (`context.execute`), a trap returns into the loop, the loop asks
`tg_syscall::handle` for the handler, and the handler reaches back into the *same* global
state the loop holds references to: `PROCESSOR` in chapter 5, `PROCESSES` in chapter 4, the
task table in chapter 3. In chapter 5 the loop takes `task: &mut Process` out of
`ProcManager`'s `BTreeMap`, lets `fork` or `spawn` insert into that very map, then writes the
answer through `task`. Processes interact with each other through the scheduler (strides),
through fork/exit/wait, and through the kernel heap that all page tables are carved from.

**What is hard here.**

* No interrupt arrives in kernel mode, so a handler is atomic. The concurrency is the order
  in which processes are dispatched and what each of them asks for: forks, exits and waits
  in every order, parents that end before their children, children nobody waits for.
* The bookkeeping that must stay in step across structures: ready queue, task map and
  current process; `remain` and the `finish` flags; `heap_bottom`/`program_brk` and the areas.
* References kept across a mutation (the `BTreeMap` insertion above, `PROCESSES.remove(0)`),
  and answers computed before the call that changes what they answer (`trace`).
* Arithmetic: `BIG_STRIDE / priority` is 0 for large priorities, strides overflow, page
  rounding in `sbrk`, `mmap` and `munmap`.
* Resources that run out: frames are never freed, the task table has 32 entries, a buddy
  allocator fragments.
* Intrusive lists: a free block's first word is the list, and the user's data once the block is
  handed out; removing a buddy from the middle of a list, merging upwards on an unaligned region.
* The instruction cache in chapter 2, where each application overwrites the one before.
* In the user programs: lost updates, lost signals, lost wake-ups, forks taken in the wrong order,
  a ring that wraps, deadlock detection that is too eager or too late; in the tests of processes,
  waits that take a child another `waitpid` is meant for; in the pipes, bytes repeated or lost
  when a call is tried again after a part, and readers that wait for an end nobody closes.
* Progress: chapter 5 has no timer, chapter 3 re-arms its timer on each return.

`PROJECT.json` lists every such hazard at the line where it bites, with the properties that
would catch it.

**What makes each component correct.** Scheduler: each live process is queued or current,
exactly once, and nobody falls behind for ever. Processes: nobody is lost or orphaned, an end
is reported once, to the parent, with the right code; fork returns twice. Address spaces: a
process has a memory of its own; the heap is what lies below the break; a refused call changes
nothing. Chapter 3: round robin among the unfinished tasks, a full quantum for each, shutdown
when and only when all are done. Chapter 4: the programs one after the other, each with the
memory it was loaded with. Chapter 2: an application executes its own instructions only. Buddy
lists: free and handed out blocks tile the region. User programs: no assertion fails under any
schedule, and all of them end.

## 2. Modules

| module | what it is |
|---|---|
| `StrideScheduler` | `ProcManager` as operators on actions: `insert`, `delete`, `add`, `fetch` (with the scan from `usize::MAX`, the strict comparison and the default of position 0). Extended by the next three. |
| `Ch5Kernel` | the loop and the process syscalls over `StrideScheduler`; properties |
| `SequenceFacts` | lemmas about sequences: what is left when an element is removed, what a scan for the least finds, concatenations, unrolled loops and where their rows are; extended by every module of proofs that needs one of them |
| `Ch5Kernel_proofs` | theorems about `Ch5Kernel`: types, queue, strides, parents, exits, waits, forks, and that it implements `ProcessLifecycle` |
| `StrideFairness_proofs`, `UserMemory_proofs` | theorems about the modules of these names |
| `BareKernels_proofs` | theorems about `Ch3Kernel` and `BatchKernel` |
| `Ch4Memory_proofs` | theorems about `Ch4Memory` and `Ch4Kernel`, with those of `UserMemory_proofs` (INSTANCE): order, memory of those that wait, and that the memory tests pass |
| `UserPrograms_proofs` | theorems about `MCUserPrograms`, the composition of `UserThreads` and `UserProcesses` |
| `ThreadTests_proofs` | extends `UserPrograms_proofs`: every test with threads passes |
| `StrideFairness` | a fixed set of processes for ever, with strides relative to the smallest, for the liveness questions |
| `ProcessLifecycle` | abstract: births, ends and reports; `Ch5Kernel` implements it (`LifecycleSpec`) |
| `UserMemory` | address spaces, page by page, over a pool of frames |
| `PrivateMemory` | abstract: every process has a memory of its own; `UserMemory` implements it (`PrivateSpec`) |
| `Ch3Kernel` | task table, scan, timer |
| `BatchKernel` | chapter 2 |
| `Ch4Kernel` | process list of chapter 4 |
| `Ch4Memory` | `Ch4Kernel` (EXTENDS) composed with the operations of `UserMemory` (INSTANCE), running the memory tests |
| `BuddyLists` | the framework of `tg-buddy-alloc` under an allocator |
| `Scripts` | programs as sequences of instructions: loops, `exit`, assertions |
| `UserThreads` | the test programs with threads |
| `UserProcesses` | initproc, shell, usertests and the test programs with processes and pipes, over `ProcessLifecycle` |
| `MC*` | instances for TLC: sets of arguments a `.cfg` cannot write. `MCBareKernels` chooses between chapter 2 and chapter 3 in the initial state, `MCUserPrograms` between `UserThreads` and `UserProcesses` |

Three of them are a chain: `Ch5Kernel` implements `ProcessLifecycle` (`LifecycleSpec`, checked in
`ch5_process`), and `UserProcesses` runs its programs over the actions of `ProcessLifecycle`
(`Birth`, `Finish`, `Reap`), not over a kernel. What `UserProcesses` shows of the programs thus
rests on what the kernel was shown to keep.

### State and actions against the code

**Ch5Kernel.** `tasks`, `stride`, `priority`, `ready_queue` are `ProcManager` and the fields of
`Process`; `current`, `parent`, `dead` are `PManager` (external: what `find_next`, `add`,
`make_current_suspend`, `make_current_exited` and `wait` do); `next_pid` is the counter behind
`ProcId::new`; `ctx[p]` is the saved context, reduced to where it resumes (program entry, at
the `ecall`, after it) and to `a0`; `status[p]` is the variable `exit_code_ptr` points at;
`seen` and `exit_code` are history variables. One action of `Next` is one way through the
loop: `Dispatch`, `NoTask` and `StrideOverflow` are `find_next`; each syscall is a trap
handled to its end, `move_next` before the handler, the write of `a0` after it and the
re-queueing included. A dispatched process leaves an arbitrary value in `a0` and in the
status variable, so that an answer that is never written shows.
`MayMove` is the condition under which an insertion into the map may move the parent's entry:
a full leaf splits. Where the entry may have moved, the write through `task` may reach it or
not (`ReturnedThroughTask` offers both contexts). The old location is then freed or reused
memory; what the write does *there* is not modelled.
`MayEnd` restricts initproc to what its program does: it ends only after `wait` has answered
that there is no child. All other processes may make any call at any time.

**StrideFairness** drops births and ends and keeps strides relative to the smallest, which is
all `fetch` compares. Its `Dispatch` is `fetch` with that normalisation.

**Ch3Kernel.** `mode` is the position in `rust_main`: `scan` is the head of the while,
`user` is `execute`, `again` is the way back to `set_timer` after `continue`. `i`, `remain`,
`finish`, `count`, `ctx` are the variables of the code, `timer` the ticks to the deadline (time
passes in user mode), `apps` and `coop` what the build decided. `ran`, `made`, `since` are
history. `write` stands for `write` and `clock_gettime`, which the loop counts and answers
alike; only the answers of `trace(2, id)` are told apart, 0 stands for all others.

**BatchKernel.** `app` is the loop's index, `context` the `UserContext`, `icache` the set of
applications whose instructions the hart may hold. `ExecuteApp` fetches from the cache or from
memory, one of the two, and nothing ahead of what is executed; `EndApp` clears the cache
(`fence.i`) before the next copy, whichever of the three ways the application ended.

**Ch4Kernel.** `PROCESSES` holds program numbers; `accepted` is the set of programs
`Process::new` accepts. The head executes, always; a process that ends is removed (`Drop`).

**Ch4Memory.** `image` is which program is linked where, `pos` the next instruction of each,
`broken` collects programs with a failed assertion or a fault nobody meant. One action is one
system call, or one load or store. Kernel and tests meet at `answer`, the `a0` the kernel left.
Addresses are those of the tests with their distances kept: `start` has free pages on both sides,
the kernel's address and `isize::MAX` lie where no user page is. A program `any` makes the other
calls in any order.

**UserThreads.** A thread is a sequence of instructions, one per call or access to a static, so
that `read` and `write` of the race adder are two steps. `units`, `held`, `blocked` are the locks
(a mutex is a semaphore of one), `asleep` the waiters of the condition variable. `up` hands a unit
to any waiter. `condvar_wait` may return without a signal. With detection on, a `down` that would
close a circle of threads waiting for each other answers -0xdead. `sleep` is left out where
nothing rests on it. It is kept (`Outlast`) in two places where the source has no other
synchronisation: the first sleep of a philosopher, which must outlast the creation of the forks
by main (a `mutex_lock` of a fork that is not there yet would fail), and main's sleep in the
deadlock tests, by whose end every thread has its share and waits at the barrier.

**UserProcesses.** `here` is the program and next instruction of each process. A fork copies the
parent's locals and open files; `exec` starts over, files stay open, and a name that is not in the
image is answered with -1 and the program goes on. `wait` is one step: crate `tg-syscall` asks
again while the kernel answers -2. The shell's user types names of programs, names that are not
there, and empty lines. In `pipe_read` and `pipe_write`, one step moves a part of what is left,
any part there is room for; -2 and a retry change nothing. `got` and `sent` are the locals
`total_read` (with the buffer) and `total_write`. Byte number i stands for itself, so that a
repeated, lost or swapped byte shows.

**BuddyLists.** `free_lists` holds the heads, `next` the word at each address where a block can
start, `Garbage` once the block has been in use. `push`, `pop`, `remove`, `block_size`,
`buddy_addr`, `size_to_order` and the layout bridge are the framework's; `Init`, `alloc` and
`dealloc` are external: what the comments of the trait ask an allocator to do with them.
`remove` with a target that is not in the list answers false and is not called by this allocator.

**UserMemory.** `pages[p][v]` is the frame, the rights and the area of page `v`, `mem` the
contents of the frames, `next_frame` the boundary of what `page_alloc` has handed out:
`deallocate` is `todo!()` and nothing gives a frame back. `halted` is a pair: why and in which
call the kernel panicked. Each call has its refusals (`..._refused`), its success and its
panic as separate actions. `holes` is history: heap pages the process has unmapped itself.

## 3. What was abstracted, and what is external

* Contexts to a resume point and `a0`; file contents, names, printed text and the values of
  the clock are left out.
* `PManager` is not in the repository. The models take from its use that an exit puts
  `(pid, code)` on the parent's list and moves living children to process 0, that `wait` takes
  the child it answers with off the list and gives -2 while a child lives, and that
  `find_next` asks `fetch` for an id, then `get_mut` for its task.
* `AddressSpace` is not in the repository. `map` gives a range consecutive new frames,
  `cloneself` copies each page, `unmap` forgets the page. A `map` over a mapped page (only
  `sbrk` can ask for one) stops the model: what the crate does then is not visible here.
* Threads, mutexes, semaphores, condition variables and pipes are in no kernel of the repository
  (chapters 6 to 8). What the calls do is taken from how the user programs use them, as weakly as
  the programs allow: any waiter gets a unit, a wait may end without a signal, a pipe takes and
  gives any part.
* The buddy allocator itself, and the copying of an application to its link address (`tg-linker`).
* The capacity of a B-tree leaf is 11 in the standard library; the runs use 2, so that three
  processes fill one.
* A process of chapter 5 that never traps is not a behaviour of `Ch5Kernel`: `Dispatch` takes
  it to its next trap. See fairness.
* `exec` of a file that is no ELF panics in the code; every embedded file is one, so this is
  not an action. Lengths that overflow a `usize` in `mmap`/`munmap` are the action
  `length_overflow`, about which nothing is claimed.

## 4. Runs

| run | configuration | what it shows | states |
|---|---|---|---|
| `ch5_process` | `Ch5Kernel_process.cfg` | fork, spawn, exec, wait, exit and fault by up to four processes in every order: nobody is lost or queued twice (`QueueExact`), orphaned (`Ancestry`, `InitLast`), or forgotten at shutdown (`CleanShutdown`); ends are kept and reported once, to the parent, with the code (`DeadExact`, `WaitTellsTheCode`); calls are not repeated and fork returns twice (`ResumesAfterCall`, `ForkReturnsTwice`); all of it implements `ProcessLifecycle` | 48,955 |
| `ch5_stride` | `Ch5Kernel_stride.cfg` | no sequence of forks, execs and priority changes takes a process more than one maximal pass ahead of one that was alive at its last dispatch (`StrideGap`), up to the overflow panic | 295,378 |
| `ch5_moved_parent` | `Ch5Kernel_moved_parent.cfg` | a disagreement, see section 5 | |
| `stride_fairness` | `StrideFairness.cfg` | strides stay within one maximal pass of each other, and every process is dispatched for ever, whatever priorities the others choose and however often | 6,804 |
| `stride_huge_priority` | `StrideFairness_huge_priority.cfg` | a disagreement | |
| `bare_kernels` | `BareKernels.cfg` | chapter 3, none to four applications on a table of three, with and without timer: `remain` is exact, turns are round robin, a timeout only takes a whole quantum, counters belong to their task, and everyone gets turns among tasks that make finitely many calls. Chapter 2: an application executes nothing of the one before and repeats no call (`OwnInstructions`) | 226,989 |
| `ch4` | `Ch4Memory.cfg` | any three of the nine memory tests in the order of the image, or programs that call as they like, every subset of them accepted: each runs to its end in order (`OneAfterTheOther`), a waiting program has the memory it was loaded with (`WaitingAsLoaded`), counters belong to their process, and every test sees what it asserts and is killed where it means to be (`MemoryTestsPass`) | 27,912 |
| `memory_one` | `UserMemory_one.cfg` | one process, every order of sbrk, mmap, munmap, exec with aligned, unaligned, empty and long arguments: the heap is exact, mmap maps nothing twice, a refused munmap changes nothing | 37,020 |
| `memory_fork` | `UserMemory_fork.cfg` | two processes made by fork or spawn share no page through any later call, and implement `PrivateMemory` | 392,132 |
| `memory_shortage` | `UserMemory_shortage.cfg` | a disagreement | |
| `buddy_lists` | `BuddyLists.cfg` | blocks of all layouts taken and given back in every order: free and used blocks tile the region, blocks fit, a null pointer means that there is no room | 6,222 |
| `user_programs` | `UserPrograms.cfg` | the ten test programs with threads, and fifteen programs with processes under initproc, each under every schedule: assertions hold (`ThreadTestsPass`, `ProcessTestsPass`), threads keep in step (`Synchronised`), pipes are exact (`PipeExact`), everything ends (`AllTestsEnd`) | 56,027 |

**Bounds, and why they are enough.**

* `MaxPid` (the pids handed out are 0 to `MaxPid`; a `fork`, `spawn` or `exec` beyond is not
  taken, `exec` burns a pid as in the code). Four processes in `ch5_process` have a
  grandchild and a great-grandchild, siblings, an orphan adopted while initproc already has
  children, and a full leaf. Strides are switched off there (`BIG_STRIDE` 1, so that a pass is
  0 and ties are broken by position), because `ch5_stride` has them; a stride of 0 for
  everybody makes the schedule a FIFO, not a free choice. Three processes in `ch5_stride`:
  one that runs ahead, one that stays behind, one that is born late.
* `BIG_STRIDE` 4 with priorities 2 and 4 has passes 2 and 1, `UsizeMax` 8 lets strides differ
  by several passes and then overflow. `StrideFairness` uses 7 with 2, 3, 6: passes 3, 2, 1,
  and a division with remainders. There strides are relative, so its `UsizeMax` is never met.
* `Quantum` 2 separates "just entered", "in the middle" and "due"; `MaxCount` bounds the calls
  a task makes of each followed syscall. `AppCapacity` 3 with up to 4 applications reaches both
  a full table and the panic beyond it (`LoadPanic`).
* Chapter 2: 3 applications, so that a cache could hold the one before and the one before that;
  2 calls, so that a context that is not moved past its `ecall` shows.
* Chapter 4: three programs with every subset accepted: holes at the start, in the middle, at the
  end. A test runs first, in the middle or last, after and before tests that leave frames behind.
  19 pages of 2 bytes keep the distances of the tests' addresses, the growth of `sbrk` by eleven
  pages included; 32 frames are enough for three programs, as the real memory is for all.
  A `sleep` looks at the clock twice, so that it yields in between.
* Buddy: smallest block 2, largest 8, in a region from 6 to 20: neither end is aligned to the
  largest block, so that `init` lists blocks of different orders, and some have a buddy outside
  the region. Layouts include size 0, sizes between powers of two, an alignment above the size,
  and one that is too large.
* Threads: 4 philosophers eat twice each (the last one, who takes the forks the other way round,
  two neighbours, and one across the table); two producers of two numbers each on a ring of two
  places, so that it is full, empty and wraps; three adders of two. The deadlock tests have the
  source's own numbers of threads and resources.
* Processes: pids 0 to 8, `MAX_CHILD` 3 and `DEPTH` 2 (a tree of seven processes); three programs
  for the usertests, one of which forks itself; two command lines.
  Pipes of 2 bytes, `pipe_large_test` with 5 bytes (the source's 3000 and a pipe of unknown size):
  more than two pipes full, with an odd rest. What it sends back has 2 bytes.
* Memory: pages of 2 bytes have an inside and a boundary; programs ending at byte 1 and byte 3;
  a window of 5 pages has room for heap, mapping and stack with and without a gap; 5 frames run
  out. `memory_fork` has 3 pages and one kind of mapping for the sake of two processes, and
  `MaxSpan` 1: its properties are claimed for buffers within a page only, because the code
  breaks longer ones (section 5).

**Deadlock** is checked in every run; a machine that is shut down stutters explicitly.

**Fairness.**

* `StrideFairness` assumes `WF_vars(Next)`: the loop goes on, and every process traps again.
  The second half is an assumption about the programs. Chapter 5 arms no timer, a process
  that never traps keeps the hart, and the kernel can do nothing about it.
* `Ch3Kernel` assumes `WF_vars(Kernel \/ Clock)`: the kernel's own steps are taken, and time
  passes in user mode. Nothing is assumed of what tasks do. Its `AllGetTurns` is claimed for
  tasks that make finitely many calls: `CountedIds` bounds `write` and `trace`. The calls that
  are not followed either give the processor away (`sched_yield`) or end the task.
  `MCBareKernels` has the same assumption for its chapter 3 half and none for chapter 2, about
  which it claims no progress.
* `MCUserPrograms` assumes weak fairness of each thread and of each process: the kernel goes round
  its queue, and a call that can be answered is answered in the end. A thread that waits is not
  owed anything, a unit may always go to another; that nobody starves follows from the programs,
  which ask for a bounded number of units.

## 5. Disagreements between the code and what is said about it

Each of the first three is a run whose one property states the quoted text and is violated.

1. **The parent of a fork may not see the child's pid** (`ch5_moved_parent`,
   `ParentGetsChildPid`). `os/ch5/src/main.rs:161` writes the answer through the reference taken
   at line 148; `fork` (line 401) has inserted into the map that owns the process, and an
   insertion that splits a leaf moves entries. `os/ch5/README.md:59` promises the child's pid.
   With at most 11 processes no leaf splits.
2. **A priority above `BIG_STRIDE` starves everybody else** (`stride_huge_priority`,
   `AllGetTurns`). `set_priority` accepts it, `BIG_STRIDE / priority` (`processor.rs:89`) is 0.
   `os/ch5/exercise.md:45` says that time is proportional to priority.
3. **mmap without memory panics** (`memory_shortage`, `MmapReportsShortage`). `main.rs:302`
   unwraps a null pointer. `os/ch4/exercise.md:31` and `:39` ask for -1.

Three more are visible in the models and have no run of their own:

* A task of chapter 3 that calls often is never preempted. The timer is armed before each entry
  into user mode (`os/ch3/src/main.rs:75`), so after each call too. `os/ch3/README.md:10` and
  `:52` say round robin by time slices. This is why `AllGetTurns` of `bare_kernels` is claimed
  for tasks that make finitely many calls: with `CountedIds` empty it fails.
* A long buffer is filled wrongly in chapter 5. `read` translates the first byte only
  (`main.rs:365`), so what belongs on the second page goes to the next frame in physical memory.
  `os/ch5/README.md:77` says that `read` reads. This is why `MaxSpan` is 1 in `memory_fork`: with
  2, `FramesPrivate` still holds and `PrivateSpec` fails.
* `sched_yield` of chapter 4 answers 0 and the head of the list goes on (`os/ch4/src/main.rs:387`,
  `:144`), while `os/ch4/README.md:67` says that it gives up the processor. `OneAfterTheOther`
  states what the code does instead.

## 6. Proofs

Every theorem holds for all values of the constants, under the named assumptions of its module.
The suffix `_proofs` names the modules; lemmas are next to the theorems that use them.

| module | theorem | states | run that checks it |
|---|---|---|---|
| `Ch5Kernel_proofs` | `TypeCorrect` | `[]TypeOK` | `ch5_stride` |
| | `QueueCorrect` | `[]QueueExact` | `ch5_process` |
| | `GapCorrect` | `[]StrideGap` | `ch5_stride` |
| | `AncestryCorrect`, `InitLastCorrect`, `ShutdownCorrect` | `[]Ancestry`, `[]InitLast`, `[]CleanShutdown` | `ch5_process` |
| | `DeadCorrect`, `ResumesCorrect` | `[]DeadExact`, `[]ResumesAfterCall` | `ch5_process` |
| | `ForkCorrect`, `WaitCorrect` | `ForkReturnsTwice`, `WaitTellsTheCode` | `ch5_process` |
| | `LifecycleCorrect` | `LifecycleSpec` (refinement) | `ch5_process` |
| `StrideFairness_proofs` | `TogetherCorrect` | `MaxPass <= UsizeMax` gives `[]StridesTogether` | `stride_fairness` |
| `UserMemory_proofs` | `MemoryTypeCorrect`, `HeapCorrect`, `MmapCorrect` | `[]TypeOK`, `[]HeapExact`, `[]MmapNeverOverlaps` | `memory_one` |
| | `MunmapCorrect` | `MunmapAllOrNothing` | `memory_one` |
| | `FramesPrivateCorrect` | `[]FramesPrivate` | `memory_fork` |
| | `PrivateCorrect` | `MaxSpan <= 1` gives `PrivateSpec` (refinement) | `memory_fork` |
| `BareKernels_proofs` | `Ch3TypeCorrect`, `RemainCorrect`, `RoundRobinCorrect` | `[]TypeOK`, `[]RemainExact`, `[]RoundRobin` | `bare_kernels` |
| | `QuantumCorrect`, `TraceCorrect` | `FullQuantum`, `TraceAnswers` | `bare_kernels` |
| | `Ch3ShutdownCorrect`, `ResumesCorrect` | `[]CleanShutdown`, `[]ResumesAfterCall` | none |
| | `BatchCorrect` | `[]OwnInstructions` | `bare_kernels` |
| `Ch4Memory_proofs` | `OrderCorrect`, `Ch4TraceCorrect` | `[]OneAfterTheOther`, `TraceAnswers` | `ch4` |
| | `NoneSkippedCorrect` | `NoneSkipped` | none |
| | `Ch4TypeCorrect`, `WaitingCorrect` | `[]Types`, `[]WaitingAsLoaded` | `ch4` |
| | `Ch4MemoryCorrect` | `[]FramesPrivate` and `[]HeapExact` of the memory it composes with | none |
| | `MemoryTestsCorrect` | `[]MemoryTestsPass` | `ch4` |
| `UserPrograms_proofs` | `PipesCorrect` | `[]PipeExact` | `user_programs` |
| | `UserTypesCorrect` | `[]TypeOK`, and that every thread is inside its text and was started (`ThreadsPlaced`) | `user_programs` |
| | `ThreadsSynchronised` | `[]Synchronised` | `user_programs` |
| `ThreadTests_proofs` | `ThreadTestsCorrect` | `[]ThreadTestsPass` | `user_programs` |

`SequenceFacts` has lemmas only, for the modules over it.
The theorems with no run hold by the same invariants as their neighbours; they were checked with
TLC before they were proved.

**Assumptions.** `PidAssumption` (`MaxPid` is a natural), `StrideAssumption` (priorities are at
least 2, as `set_priority` enforces, and the initial one is among them), `NoProcAssumption`,
`CodeAssumption`, `UserAssumption` (the model values are not numbers), `LeafAssumption`;
`Ch3Assumption` and `Ch4Assumption` (sizes are naturals, a quantum is at least one tick, the
counted ids have a counter); `Ch4MemoryAssumption` (every build is made of known tests, there are
the seven pages and the two frames the tests' addresses and one program need, the value for "no
page" is none of a page's); `TestsAssumption` (what the memory tests take for granted: a page has
an address inside it, as `0x10000000 + 1` is, a page is free below the one at `0x10000000`, the bits
that are no right of `prot` are not a set of rights, and the calls `ch3_trace` asks about are
counted); `ThreadAssumption` and `ProcessAssumption` (sizes and counts are
naturals, and positive where the programs' own are; a string is shorter than the buffer it is read
into); `OnePipeTest` (a pipe test is run at most once, by initproc: the model numbers the pipes of
a program 1 and 2, so two of them at a time would share pipes that in the source are different);
`MemoryAssumption` (a page has at least one byte, a program ends below the stack) and
`BootAssumption` (some program fits in the frames, or there would be no initial state). TLC
evaluates them in the runs. Two theorems have a premise of their own. `MaxPass <= UsizeMax`, one
pass fits a `usize`, holds in the source, whose `BIG_STRIDE` is `0x7fff_ffff`. `MaxSpan <= 1`, no
buffer the kernel writes to spreads over two pages, is needed: section 5 tells what happens else.

**Arguments, chapter 5 scheduler and processes.** None of the central invariants is inductive alone.

* `SchedulerInv == TypeOK /\ QueueExact /\ PidsBorn /\ StrideGap` is. `StrideGap` says that
  a process `p` is at most one maximal pass ahead of every process that was alive when `p` was
  last dispatched. At a dispatch, `fetch` must have chosen the smallest stride among *all*
  live processes, which needs `QueueExact` (all of them are in the queue, no current one is
  missing). At a birth the newborn has stride 0, which would violate the gap for everybody far
  ahead, were it in their `seen`; `PidsBorn` says that it is not. `seen` is what makes the
  property true: it does not hold between arbitrary live processes.
* `FetchedIsLeast` is the fact about `fetch`: its default of position 0 is harmless, because it
  is used only when every stride is at `usize::MAX`, where position 0 is least as well.
  `LeastScanned` (cited as `MinIndexFacts`) and `RemoveAtFacts` are what `CHOOSE` and `RemoveAt` give; `PassFacts` is
  `BIG_STRIDE \div prio <= BIG_STRIDE \div 2`.
* The queue lemmas (`Queue...`) and the gap lemmas (`Gap...`) are one per kind of step: a
  dispatch, an end, a return with re-queueing, a birth with two ids appended.
* `ParentsInv == SchedulerInv /\ Ancestry /\ CleanShutdown` carries the rest. That a parent has
  a *smaller* pid is part of `Ancestry` because it makes the relation well-founded: were there
  live processes without initproc, the least of them (`LeastNatural`) would have a smaller live
  parent, which is `InitLast`. `MayEnd` is what keeps `Ancestry` when initproc ends.
* `CleanShutdown` follows from `QueueExact`: `NoTask` needs a queue that is empty, or whose
  chosen id has no task, and no such id is ever queued.
* `DeathsInv` adds `DeadExact`, `EndedExact` (a pid has an exit code only after its end),
  `InitHasNoParent`, `StatusFresh` and `ResumesAfterCall`. An end makes its entry in the list of
  another process that lives on (`Ancestry`); a newborn is in no list because its pid was never
  handed out (`EndedExact`, `PidsBorn`); wait only takes entries away.
* `LifecycleCorrect` is the step simulation: `BarsExact` says what `ProcessLifecycle` sees of a
  process by where the kernel keeps it, `BirthStep`, `ReapStep` and `FinishStep` map the three
  kinds of visible steps, everything else is a stutter. That there is only one holder of an
  entry (`DeadExact`) is what makes the owner of a zombie well defined.
* `StrideFairness`: relative strides stay within `0..MaxPass`, everyone is in the queue or
  current, so the fetched stride is the least, and at most `MaxPass` is added to it.

**Arguments, address spaces.**

* `FramesPrivate` needs that nothing mapped lies at or above `next_frame`, and that every call
  gives *one* process a row of frames it had, or of new and distinct ones (`NewRowPrivate`). For
  fork this is `Rank`: the copy of the n-th page is in the n-th new frame.
* `HeapExact` is proved per process (`HeapGood`), over the arithmetic of `Floor` and `Ceil` for
  any page size (`DivFacts` and the lemmas after it).
* `PrivateCorrect` maps each call to one of `PrivateMemory`. `MemoryInv` is `TypeOK`,
  `FramesPrivate` and `DeadEmpty` (a process that is not there maps nothing). `ContentKept` is the
  core: a write to a frame of one process shows in the memory of that process only.

**Arguments, chapters 2 to 4.**

* Chapter 3: `TurnsInOrder` is the strengthening for `RoundRobin`: the tasks that have had a turn
  since the last of `t` are those the scan has come past since (`Between`), each once.
  `FullQuantum` needs `ran + timer = Quantum` in user mode, `RemainExact` that a turn belongs to an
  unfinished task (`TurnOfUnfinished`), `TraceAnswers` that `count` is the history `made`.
* Chapter 4: every step of the composed system is one of `ListStep`'s; `NotYetRun` (who was not
  loaded yet has made no call) and `AcceptedKept` (an accepted program waits to be loaded, is in
  the list, or has been at its head) carry `OneAfterTheOther` and `NoneSkipped`.
* Chapter 4 with its memory: the proofs of `UserMemory` hold for its parameters (`MP`), and every
  step of a test is one of `UserMemory`'s on the head of the list, an `EndStep` or a `LoadStep`
  (`StepKind`). The invariant is `IInv4`. `MemoryInv4` is the address spaces' own. `Listed` (the
  memories in use are those of the listed programs) makes the head a process `UserMemory` knows.
  `AsLoaded` says of every program but the head that its pages are as loaded and their contents as
  in the image; a call of the head keeps it by `FramesPrivate`, an end because the next head has
  made no call (`NotYetRun`). `WithinScript` and `OriginKnown` say that a program is at an
  instruction of its test, so that a call has arguments of the right kind, whatever the loops are
  unrolled to: each test is shown to be made of its instructions and to end in one that ends the
  process (`ScriptFacts`).
* Chapter 2: `CacheFenced`, the cache holds instructions of the current application only and
  none between two.

**Arguments, memory tests.** `MemoryTestsPass` says that no program has seen an answer, a byte or
a counter it does not assert, and that none was killed elsewhere than it means to be. `PassInv` is
the invariant, beside `IInv4`. Who waits has a `FreshRow`: text, stack and an empty heap, no
instruction and no call made. The head is at a line of its test (`Passing`), and what it has there
is said by a predicate of each test: `MmapAt`, `UnmapAt`, `SbrkAt`, `TraceAt`, ... give for every
line the pages that are mapped between text and stack and their rights (`HasPages`), the break, the
answer of the last call and the byte the program looks for; `Ch3TraceAt` gives the counters, three
of them exactly and two from below, since a sleep asks as often as it asks.

* The text of a test is not computed but described (`BytesText`, `TraceText`, `Ch3TraceText`, ...):
  which instruction is at which place, also after loops over a page of any size and a sleep of any
  number of rounds.
* One lemma per kind of instruction says what it does to the head: `MmapEffect`, `SbrkGrows`,
  `LoadEffect`, ..., and `MmapRefused`, `MunmapRefused`, `SbrkRefused` for what a test expects to be
  refused. They rest on the proofs of `UserMemory` (`MP`), as a frame that were shared would show a
  byte of another program.
* One lemma per test (`MmapStep`, ..., `Ch3TraceStep`) says that a step leads to its next line or
  ends the program where it means to end.
* `AnyProgramKeepsOthers`: no step of the head changes a row of another program, so the next head
  begins fresh.

Programs that call as they like have no assertions. Where a call would overlap what is mapped or
run out of frames the kernel panics, and the composition has no further step of that program, so
nothing is claimed of a test that did not get its memory.

**Arguments, user programs.** `ProcessInv` places every process inside its program and types what
it holds. This needs, for every program and every unrolling, that a jump stays within it: `Wholes`
(a program whose instructions lead to instructions of it and whose last one exits), with lemmas for
concatenation, loops, forks and the tree of `13forktree`. `PipeInv` says that no pipe test is run
(`NoPipes`), or one of them is, by process 1, with process 2 as the child (`OnePipe`). `PipeLives`
says where the two are: each in its own region of the program (`Region`). `PipeBytes` says for
each pipe that what its reader has taken, followed by what is in the pipe, is the first n bytes the
writer had to send, where n (`Written`) follows from where the writer is and from `sent`. Such a
`Flow` is kept by a write of any part and a read of any part, hence `PipeExact`.

**Arguments, threads.** `ThreadInv` is `ThreadsPlaced` (main's text starts every thread once, and a
thread runs only after that), `WaitersPlaced` (who is blocked is at a `down`, who is asleep has a
wait in its text, who has exited is at an instruction that can end a thread) and `StateTyped`.
`ActionOf` says that the instruction a thread is at determines the action of its step.
`Synchronised` is not inductive: it needs to know who holds what, and the source keeps only the
counts of units. `Kept` therefore derives the holders from where each thread is in its round
(`Turn`, the place in a loop that is unrolled):

* `phil_din_mutex`: `Grips[t]` are the forks philosopher t has at its place, and `Exclusive` says
  that a fork has one unit and no holder or no unit and one holder. `LockKept` keeps it for the
  four things a step can do to a lock: take it, free it, hand it to one who waits, leave it
  (`Relocks`). A philosopher who eats has both its forks. While main still creates forks, no philosopher is
  past its first sleep (`ForksInv`): this rests on `Outlast`, what section 2 says of that sleep.
* `mpsc_sem`: for each counting semaphore, its units plus those taken equal those it began with
  plus those given (`Took`, `Gave`: downs and ups passed, counted by place). Hence never more than
  `BUFFER_SIZE` numbers are under way, and the consumer reads behind the writers (`RingCounts`).
  With semaphore 0 exclusive (`Insiders`), `FRONT` and `TAIL` are the counts of stores and prints
  modulo the size, a store does not hit a slot in use, and the numbers a producer has stored are
  those printed plus those in the ring (`Contents`, with the cardinality of `Filled`). When the
  consumer is through, it has printed as many as all producers store, so the ring is empty, and
  each number was printed once. Main's part is that a join passes only after an exit.
* `sync_sem`, `test_condvar`: a unit is there, or the second thread past its wait, only when
  `A = 1` (`PairInv`).

**Arguments, the threads' tests.** `ThreadTestsPass` says that a main which has exited exited with
0, so no step may end main by an assertion that is false, by a refusal that the test does not
expect, or by running into its failing branch. `ThreadsFine` is the invariant. Its general part:
an exit code is that of the instruction the thread ended at (`EndCodes`), and main, once ended, is
at its last one (`MainFine`). Whether main can end elsewhere is one lemma per test
(`MainEndsFine`, concluding `MainUnhurt`), each with an invariant of its own:

* `phil_din_mutex`, `mpsc_sem`, `sync_sem`, `test_condvar`, `threads`, `threads_arg`: main's only
  instruction that ends it is the last (`DoneMains`), for any length of its loops.
* `race_adder` (`RaceInv`): its mutex has one unit and no adder inside, or none and one
  (`Exclusive`, as for the forks); `A` is the number of writes done, summed over the adders by
  where each is in its rounds (`Adding`); and who has read `A` and not yet written has read what
  `A` is. Main asserts after it has joined all, when each has done `PER_THREAD` writes
  (`RaceTotal`).
* `deadlock_mutex1` (`MutexInv`): at the second lock the mutex has no unit, so the request is
  refused, which is what the test asks for.
* `deadlock_sem1` (`Sem1Inv`): while main keeps the barrier, each thread takes its first share
  and nothing is given back (`Sharing`: units are those created less the shares of the places).
  When main wakes, all three are at the barrier and no resource has a unit left. From then on
  either nobody has come past its request (`Circle`), and the three resources stay empty, or
  somebody was refused and is on its way to exit with -1 or has (`Failing`), which stays true. In
  a circle nobody has exited, so when main has joined all three (`Joined`), one has failed, as its
  assertion says (`Sem1Unhurt`).
* `deadlock_sem2` (`Sem2Inv`): the units of each resource and those the four threads have add up
  to two (`Pool`, `Had`, `Sum4`). Past the barrier (`PastBarrier`), who lacks a unit lacks it
  because thread 2 or 4 has one; these two ask for nothing more, so the detection of
  `UserThreads` finds that they can finish and then give theirs back, and refuses nobody
  (`SecondShare`, `NeverDead`). Main's own units at the barrier (`Barred`, `held[0]`) count as
  many as there are threads that wait there.

The last two rest, as the tests do, on `Outlast`: main's sleep is long enough for the others to
settle (section 2). The proofs of the other eight do not use it.

A recursive function of the community modules (`FlattenSeq`, the sum of lengths) is shown to be
defined and typed by a least counterexample among the natural numbers, since the induction
theorems of the library take an operator as a parameter.

**Only model-checked**, and why:

* Liveness (`AllGetTurns`, `AllTestsEnd`): under fairness, with `ENABLED`, out of the prover's reach.
* `ProcessTestsPass`: what a program with processes may assert of pids and exit codes depends on
  the whole tree of forks below it, and to know that tree is an induction over it.
* `BytesAccountedFor`, `BlockFitsLayout` and `NullOnlyWhenFull` of the buddy lists: block sizes are
  powers of two, a list is walked by recursion, and the allocator around it is external.

## 7. Not modelled, and why

* Chapter 1, `lab_tool`, build scripts, the kernel's own address space: no state that changes.
* Chapter X: `allocator.rs` is `todo!()` throughout, and `rust_main` calls its `init` first.
* Page contents below the granularity of a page, instruction execution, the UART.
* What a dangling reference overwrites (section 2, `MayMove`) and what `map` over a mapped page
  does: both are outside the code at hand.
* The kernels of chapters 6 to 8 are not in the repository. Of their tests, those of files, links
  and signals are left out: what they assert is a file system's or a signal table's behaviour, and
  a model of either would be a model of nothing in the source.
* Tests that compute and print, without a call that another process or thread could disturb.
* The shell's line editing, `heap.rs` (a static array handed to an external allocator).

## 8. Plan

Done: scheduler and processes of chapter 5 with their abstract specification, fairness and proofs;
chapter 3; address spaces with their abstract specification; chapter 4, with its memory; chapter 2;
the buddy framework; the user programs with threads, processes and pipes.

The suite is kept to a dozen runs: a new question joins an existing run where the instance allows,
or takes the place of a narrower one.

Proved: every safety property of the runs of chapters 2, 3 and 5 and of the address spaces, with
both refinements, those of chapter 4 with what its tests assert; of the user programs their types,
the pipes, the synchronisation of the threads and that every test with threads passes.

Next:

1. `ProcessTestsPass` where it is no induction over data: the pipe tests, from `PipeExact`.
2. `BuddyLists`: that `push`, `pop` and `remove` keep a list acyclic.
