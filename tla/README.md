# A TLA+ verification of the ucore teaching kernel

The repository holds eight stages (`src/labcode/lab1` ... `lab8`) of one small RISC-V kernel with
one CPU. Lab8 contains what the others build, and its kernel, `src/labcode/lab8/kern`, is what is
modelled here, with two parts that only earlier stages have: fork with copy on write (lab5) and the
best fit allocator (lab2). Paths below are relative to lab8's `kern` unless they begin with `src/`.

Contents: [inventory](#1-inventory), [modules](#2-modules-and-how-they-correspond-to-the-code),
[runs](#3-what-the-runs-check), [fairness](#4-fairness), [proofs](#5-what-is-proved),
[findings](#6-what-the-models-show-against-the-code-and-its-documentation),
[limits](#7-what-is-only-model-checked-and-what-is-left-out), [plan](#8-plan).

## 1. Inventory

| Part | State | Operations | Interacts through | What makes it correct |
|---|---|---|---|---|
| Process lifecycle (`process/proc.c`, `syscall/syscall.c`) | `proc_struct`: state, wait_state, flags, parent and sibling links; `proc_list`, `nr_process` | `do_fork`, `do_exit`, `do_wait`, `do_kill`, `do_sleep`, `do_yield`, `init_main` | calls the scheduler and timers; wakes parent and `initproc` | no lost wakeup, every zombie reaped by its parent, the tree never loses its root |
| Scheduler (`schedule/sched.c`, `default_sched.c`) | run queue, `time_slice`, `need_resched`, `current` | `wakeup_proc`, `schedule`, RR class, `run_timer_list` | called from traps, exits, waits, the clock interrupt | the queue is exactly the RUNNABLE processes that wait for the CPU; nobody starves |
| Traps and interrupt masking (`trap/trap.c`, `sync/sync.h`) | whether interrupts are on; trap frame | `trap`, `interrupt_handler`, `local_intr_save/restore` | every system call and tick passes through | killed processes leave at the end of a trap |
| Timers (`schedule/sched.c`) | `timer_list` of distances | `add_timer`, `del_timer`, `run_timer_list` | `do_sleep`, the clock interrupt | every timer ends at its tick, whatever is added or cancelled around it |
| Pid allocation (`get_pid`) | statics `last_pid`, `next_safe`; the pids in `proc_list` | `get_pid` | `do_fork`, `remove_links` | no live pid given twice; the scan ends |
| Sibling links (`cptr`, `yptr`, `optr`) | doubly linked lists | `set_links`, `remove_links`, the loop of `do_exit` | `do_wait` walks them | the lists are the children of the process, newest first |
| Wait queues, semaphores (`sync/wait.c`, `sem.c`) | `wait_queue`, `value` | `down`, `up`, `try_down` | `wait_current_set`, `wakeup_wait`, `schedule` | hand-off in order, no unit lost or doubled |
| Monitors (`sync/monitor.c`) and philosophers (`check_sync.c`) | `mutex`, `next`, `next_count`, condition semaphores | `cond_wait`, `cond_signal` | semaphores | one thread inside, no neighbour eats at the same time, nobody stuck |
| stdin (`fs/devs/dev_stdin.c`) | ring buffer, `p_rpos`, `p_wpos`, wait queue | `dev_stdin_write` (clock interrupt), `dev_stdin_read` | wait queue with `WT_KBD`, `do_kill` | what is read is what was typed, in order; no reader sleeps beside a character |
| Open files (`fs/file.c`, `fs.c`, `sysfile.c`), VFS inodes (`fs/vfs`) | fd table with status, position and open_count; inode ref_count and open_count | open, close, dup, read, write, seek; `files_struct` over fork, exec and exit | VFS, `do_fork`, `do_execve`, `do_exit` | counts equal the references that exist |
| SFS (`fs/sfs`) | inodes in memory and on disk, `dirty`, free map, block maps with direct and indirect entries | read, write, truncate, fsync, load, reclaim | VFS, RAM disk | each block is owned once; a file is a sequence of bytes; a call that fails halfway leaves both true |
| Pages (`mm/default_pmm.c`, lab2's `best_fit_pmm.c`) | free list, `property`, flags, `nr_free` | `alloc_pages`, `free_pages` | everything that needs memory | each page is free or held, once; a request fails only for want of room |
| Small objects (`mm/kmalloc.c`) | circular list of free blocks, `slobfree`, `bigblocks` | `kmalloc`, `kfree` | pages | no unit lost or given twice |
| User memory with copy on write (lab5 `mm/vmm.c`, `pmm.c`, `process/proc.c`) | page tables, `page->ref`, the bit PTE_COW | fork, store, page fault, exec, exit, the store of `do_wait` | pages, traps | every process has a memory of its own |
| Drivers, console, device tree, `libs`, user library, user programs, `mksfs` | hardware and formatting | | | not modelled: pure I/O, strings and host tools |

What is hard here. *Interleaving*: system calls of several processes interleave wherever
`schedule()` is called; the clock interrupt, which also reads the keyboard, comes between any two steps
at which interrupts are on, so a timer can end, or a key arrive, before its owner has reached
`schedule()`; `do_kill` races both for the same sleeper. *Order*: parents and children exit in any
order; pages are freed in any order. *Stale state*: `get_pid` keeps a cache over a list that changes between its
calls; descriptors keep positions in a file that another one truncates. *Failure halfway*: a write, a seek, a fork,
an exec or an open that gives up in the middle has to take back what it did. *Sharing*: pages and
inodes are counted, and one count too few or too many shows much later. `PROJECT.json` lists the
hazards at their lines.

## 2. Modules and how they correspond to the code

| Module | Models | Uses |
|---|---|---|
| `Kernel` | processes, round robin scheduler, traps, sleeping, `init_main`, kernel threads | |
| `KernelProofs` | theorems about `Kernel` | `Kernel`, `TLAPS` |
| `MCKernel` | the instance of `Kernel` with its symmetry set | `Kernel` |
| `PidSpec` | what `get_pid` promises: the next free pid in turn, in one step | |
| `PidAlloc` | `get_pid` as written, process by process, among the insertions and removals of processes | `PidSpec` as `Promise` |
| `SemaphoreSpec` | what semaphores promise, by credit: which call of `up()` pays for which `down()` | |
| `Semaphore` | `sem.c` on the wait queues of `wait.c`, with `do_kill` and `schedule()` around it | `SemaphoreSpec` as `Promise` |
| `MCSemaphore` | its instance: a lock and a counting semaphore | `Semaphore` |
| `SemaphoreProofs` | theorems about `Semaphore`, with the refinement | `Semaphore`, `TLAPS` |
| `Philosophers` | `monitor.c` and its only user, `philosopher_using_condvar` of `check_sync.c` | `Semaphore` as `S` |
| `PhilosopherProofs` | theorems about the monitor and the table | `Philosophers`, `SemaphoreProofs`, `TLAPS` |
| `TimerSpec` | what timers promise: absolute ticks left, equal ones in order of arrival | |
| `TimerList` | the delta list of `sched.c` | `TimerSpec` as `Absolute` |
| `PidTimerProofs` | theorems about `PidAlloc` and `TimerList`, with both refinements | `PidAlloc`, `TimerList`, `TLAPS` |
| `OpenFiles` | descriptors over open, dup, fork, exec, exit; the counts of inodes; the stdin device | |
| `MCOpenFiles`, `OpenFilesProofs` | its instance, and theorems about it | `OpenFiles` |
| `FileSpec` | what the calls on a regular file promise: a size and bytes | |
| `SfsFile` | SFS files: free map, block maps, inode in memory and on disk, and the calls that use them | `FileSpec` as `Files` |
| `MCSfsFile`, `SfsFileProofs` | its instance, and theorems about it | `SfsFile` |
| `PageAlloc` | first fit and best fit on the linked list of `list.h` | |
| `Kmalloc` | `kmalloc.c` on top of it | `PageAlloc` |
| `MCKmalloc`, `HeapProofs` | the instance of both, and theorems about both | `Kmalloc` |
| `MemorySpec` | what fork promises: private memories | |
| `Cow` | lab5's user memory with copy on write | `MemorySpec` as `Memory` |
| `MCCow`, `CowProofs` | its instance, and theorems about it, with the refinement | `Cow` |

Some definitions are preceded by one that varies them and that nothing uses: those whose name begins with
`Mut`, or whose comment begins with "Mutant:". Each is a seeded fault, a plausible wrong version of
the definition after it (a woken parent forgotten, a count not taken, a freed block not given back);
`PROJECT.json` says which property must notice it when it takes the definition's place.

### Kernel

The constants are the slots for user processes `User`, the kernel threads `KThread` that `init_main`
starts, `Idle`, `Init`, `MaxProcess` (MAX_PROCESS), `MaxSlice` (`max_time_slice`) and the bound
`MaxSleep` on the argument of `do_sleep`. A pid is the slot: `PidAlloc` is about numbers. A free
slot keeps the values `alloc_proc` gives, so a process forked into a reaped slot starts clean.

| Variable | Code |
|---|---|
| `state`, `wait_state`, `parent`, `time_slice`, `need_resched` | the fields of `proc_struct` |
| `exiting` | the processes whose `flags` hold `PF_EXITING` |
| `rq`, `current` | `rq->run_list`, `current` |
| `left` | ticks left of the timer on the stack of `do_sleep`; 0 when not linked |
| `pc`, `in_schedule` | where the process is: in user mode, at the end of `trap()`, in or after a call of `schedule()` |
| `waitfor` | the argument of the `do_wait` the process is in |
| `failed` | which `assert` has failed |

A step is the stretch of kernel code that runs without a change of process: one system call up to
its call of `schedule()` or its return to `trap()`; `Schedule`, the body of `schedule()`;
what comes after it (`Waited`, `Slept`); `TrapReturn`, the end of `trap()`; `Tick`, the clock
interrupt with `run_timer_list` and `RR_proc_tick`. A system call traps with interrupts off and keeps
them off (`local_intr_restore` puts back what was saved), so such a stretch is indivisible for user processes. Kernel
threads, `init_main` and `cpu_idle` run with interrupts on: for them `Tick` may fall between setting
`PROC_SLEEPING` and `schedule()`, and between `do_wait`'s return and the next one. Within the stretch itself,
`do_sleep` and the part of `do_exit` that touches others hold interrupts off; and a tick elsewhere in it
wakes only processes with timers and charges a slice, neither of which `do_wait` or `do_exit` reads.

`init_main` first starts `user_main` and the threads (`InitSpawn`), taking `user_main` from where
`kernel_execve` has entered user mode, then loops over `do_wait(0)` and `schedule()`. The call of
`check_sync()` is commented out at `process/proc.c:1227`, so the shipped build has `KThread = {}`;
`KThread` stands for its philosopher threads, which compute, sleep with `do_sleep` and return.

Timers that end at the same tick wake their processes in any order here; their order is
`TimerList`'s subject.

### PidAlloc

`NextPid` is the increment of `last_pid` with its wrap, `GetPid` the call up to the scan when one is
needed, `Taken`, `Pass` and `EndScan` the body and end of the scan of `proc_list`, `SetLinks` the
insertion of the new process and `ForkFails` the `copy_files` error that drops the pid.
`RemoveLinks` removes a process between calls. `get_pid` runs inside the system call, so nothing enters
or leaves the list during a scan; the list is scanned in any order, which covers the one it has.

### TimerList

`AddTimer`, `DelTimer` and `RunTimerList` are the three functions. `Stop` is where `add_timer`
finds its place, `Behind` the rest of the list with the distance of its first timer corrected, and
`Ending` the number of rounds of the loop of `run_timer_list`. `woken` is the order of the wakeups. In the refinement,
a timer's absolute time is the sum of the distances up to it (`Sums`, `TicksLeft`).

### Semaphore

`value`, `wait_queue` and `wakeup_flags` are the fields of `semaphore_t` and `wait_t`; `on` is the
semaphore whose `__down` a process has left through `schedule()`. `Down` takes a unit or queues the
process and gives up the CPU, `DownReturns` is `__down` after `schedule()` with the assertion of
`down`, `Up` counts the unit or hands it to the head of the queue. Only `current` acts, since
kernel code is not preempted, and `Dispatch` may pick any RUNNABLE process: the order of the run queue is
`Kernel`'s subject. `Kill` is `do_kill` as far as it concerns a process in `down()`. Clients are
free to call `down`, `up` and `try_down` as they like, up to the bound `MaxValue` on what `up` piles up.

`SemaphoreSpec` has no queue: the credit of a semaphore is its first value plus the `up()`s less the
`down()`s, and a `down()` that finds credit c <= 0 needs 1 - c more `up()`s. The mapping takes
value - Len(queue) for the credit and the place in the queue for the need.

### Philosophers

`pc` is the place of a philosopher in its code, followed by where `cond_signal` returns to. One step
is the code between two semaphore operations, and the philosopher that runs keeps the CPU until it
sleeps, in `down()` or in `do_sleep`. `CondSignal`, `SignalSleeps` and `SignalReturns` are
`cond_signal`; `CondWait`, `CondSleeps` and `CondReturns` are `cond_wait`; `Leave` is the choice
between `next` and `mutex` that ends every routine of the monitor. `do_sleep` ends at any time.

### OpenFiles

| Variable | Code |
|---|---|
| `fds` | `fd_array` of each `files_struct`: status, inode and `open_count` of each `struct file` |
| `ref`, `opens` | `ref_count` and `open_count` of the three inodes there are: the root directory, one regular file, stdin |
| `loaded` | whether the regular file has an inode in memory (`sfs_load_inode`, `sfs_reclaim`) |
| `ring`, `rpos`, `wpos`, `queue`, `flag` | `stdin_buffer`, `p_rpos`, `p_wpos`, the wait queue and the `wakeup_flags` of its entries |
| `state`, `killed`, `reading` | where a process is, `PF_EXITING`, and the arguments of the read it is in |
| `lost`, `losses`, `overrun`, `typed` | history: references that two leaks left behind, a character typed into a full ring, characters typed |

`Open` is `file_open` with `vfs_open` for every combination of flags and every kind of target; `Close`,
`Dup`, `Fork`, `Exec`, `Exit` are the calls as far as tables and counts go, with one action per
way to fail (`ExecOpensNothing`, `ExecDirectory`, `ExecLoadsNothing`). A call is one step except a read of an
empty stdin, which sleeps: `Read`, then `Type` (the clock interrupt that looks at the keyboard) and
`Kill`, then `Resume`. A killed process leaves at the end of its trap (`Returns`). Operations an
inode does not have are failed assertions and end everything, as in the code.

The leaks are part of the model because the code has them: `vfs_open` with `O_CREAT | O_EXCL` keeps the
reference of its lookup (`fs/vfs/vfsfile.c:47`), and an exec that fails after it gave up its mm leaves its files
counted (`process/proc.c:640`). `CountsExact` says by how much, and that nothing else goes wrong.

### FileSpec and SfsFile

`freemap` and `unused_blocks` are the free map and its counter in the super block, `disk` the blocks,
`din` the inode in memory and `dinode` the one on disk, `dirty` its mark, `node` and `pos` the file and the
position of each open descriptor, `call` the local variables of `sfs_io_nolock` or `sfs_truncfile`
while one of them runs. A block of entries is a block whose cells hold block numbers.

`BmapGet` is `sfs_bmap_get_nolock` and `sfs_bmap_get_sub_nolock` with the blocks they take and give
back, `BmapLoad` is `sfs_bmap_load_nolock`; its assertions are `BmapLoadPanics`. `IoHead`, `IoBody`,
`IoTail` and `IoOut` are the first partial block, each whole block, the last partial block and the end of
`sfs_io_nolock`; `TruncateGrow`, `TruncateShrink` and `TruncateResize` the two loops and the end of
`sfs_truncfile`. `Release` is `sfs_fsync` and `sfs_reclaim` when the last descriptor is closed. A dirty
inode's copy on disk is never read again before it is overwritten, so `dinode` forgets it.

Two things happen that the code does not provide for, and `mishap` remembers them: a write from a
position that another descriptor's `O_TRUNC` left beyond the size, and a seek beyond the size that runs out of blocks.
Both may meet an assertion later; `AssertionsHold` is about everything else. `BlocksOwned`
and `ImplementsFiles` hold even then. The panics are states in which the model stops.

`FileSpec` has a size and bytes for each file. A write stores its bytes part by part, a read returns bytes
that are there, a truncation may clear what lies beyond the new size. It does not promise that
a file grown again is zero there, because `sfs_truncfile` does not clear the last block it keeps.

### PageAlloc and Kmalloc

`pmm` is the linked list of `libs/list.h`, link by link, with `property`, the PageProperty flags and
`nr_free`; `fit` chooses between `default_alloc_pages` and lab2's `best_fit_alloc_pages`. `AllocPages`
and `FreePages` are the functions, with their walks; `Inserted` is the loop that looks for the place of a freed
block, with its missing `break` (section 6). `tail` counts the calls after that loop has run to the end of the
list, because nothing can be promised from there on. `halt` is a failed assertion or a walk that never ends.

`Kmalloc` keeps the same pages and adds `slob` (the circular list and `slobfree`), `big` (the list
`bigblocks`) and `got` (what each caller was given). `SlobFree` and `SlobTake` are `slob_free` and the cut of
`slob_alloc`; `SlobAlloc` adds a page when nothing fits. `Shifted` is the `1 << order` of `__slob_get_free_pages`. A call is one step: the lists are
used under `spin_lock_irqsave` and the kernel is not preempted. Other users take pages directly.

### MemorySpec and Cow

`pte` holds the page, the write bit and PTE_COW of each user page; `ref` is `page->ref`; `data` what a
page holds; `gone` the pages that serve nobody any more. `Fork` is `copy_range` over all
areas, with one step for its failure (`ForkFails`, which depends on how many pages there were when it began);
`CowFault`, `FirstTouch` and `FaultsForever` are the three cases of `do_pgfault`; `Exec`,
`ExecFails`, `ExecPanics`, `Exit`, `Reap`, `WaitStores` and `WaitFaults` the rest. `Room` is `nr_free_pages`,
counted instead of kept, with five page table pages for each memory.

`copy_range` counts a page it shares and `page_insert` counts it again. `shares` remembers how often, and
`RefsExact` is the exact surplus: a page once shared is always copied, even by its last user, and never free again.
In `MemorySpec` each process has a memory of its own and only its own stores change it.

`MCCow` gives TLC a VIEW. Page numbers do not matter, only who shares what, so states that differ in the
numbers are one; a page that is counted and not mapped by anyone is looked at only for its number
and for `ref - shares`, which is all that any step or property reads of it.

## 3. What the runs check

| Run | Instance | Checks |
|---|---|---|
| `kernel_safety` | 3 user processes, 1 kernel thread, `MaxProcess` 5, slices of 2 ticks, sleeps of at most 2; 1.03 million states under symmetry | `TypeOK`, `RunQueueExact`, `NoLostWakeup`, `ProcessTree`, `TimerOwned`, `AssertionsHold`, `ZombieReapedByParent`, `WakeupHasCause` |
| `kernel_liveness` | 2 user processes, 1 kernel thread, slices of 1 tick, sleeps of at most 2; 60 thousand states, no symmetry | `RunnableRuns`, `KilledSleeperExits`, `OrphansReaped`, `SleepReturns`, `InitEnds` |
| `kernel_kill` | the same with sleeps of 1 tick | `KilledExits`, which fails: see section 6 |
| `pid_alloc` | MAX_PROCESS 6, MAX_PID 7 | `GapFree`, `Unique`, `PidInTurn` (refinement of `PidSpec`), `GetPidReturns` |
| `semaphore` | 3 processes, one semaphore that starts at 1 and one at 0, values up to 2 | `QueueExact`, `AssertionsHold`, `InTurn` (refinement of `SemaphoreSpec`) |
| `philosophers` | 4 philosophers who eat twice; 288 thousand states | `NeighboursApart`, `MonitorHeld`, `SignalHandsOver`, `AllQuit`, and no deadlock |
| `timer_list` | 3 sleepers, times up to 5 ticks | `TimersOnTime` (refinement of `TimerSpec`), `TimersEnd` |
| `open_files` | 2 processes with 3 descriptors each, a ring of 2 characters, 3 keys, 1 loss, 3 opens at a time; 1.5 million states under symmetry | `CountsExact`, `AssertionsHold`, `KeysInOrder`, `NoKeyMissed` |
| `sfs_file` | 2 files, 2 descriptors, 3 blocks of 2 bytes, 1 direct and 2 indirect entries, transfers of at most 2 bytes, seeks to 1 and 6; 3.6 million states under symmetry | `BlocksOwned`, `CleanInodeOnDisk`, `AssertionsHold`, `ImplementsFiles` (refinement of `FileSpec`) |
| `heap` | 4 pages of 8 bytes, 2 direct users of 1 or 2 pages, 2 callers of `kmalloc` asking for 1, 3, 4, 8 or 9 bytes in units of 2; both fits | `EveryPageOnce`, `RefusedForWant`, `EveryUnitOnce`, `EnoughForAll` |
| `page_tail` | 6 pages, 4 users of 1 to 3 pages, 3 calls after the hazard | `HeldApart`, which fails: see section 6 |
| `cow` | 3 processes, 2 values, 20 pages of which the kernel holds 3, 8 or 17, 4 calls of fork and exec; 400 thousand states under symmetry and the view | `RefsExact`, `ImplementsMemory` (refinement of `MemorySpec`) |

Deadlock is not checked in `semaphore`, since clients may all wait for an `up()` nobody owes them, nor in `open_files`,
`sfs_file`, `heap` and `cow`, whose behaviours end: in a failed assertion, a halted kernel, at a bound, or
with no process left.

Why the bounds suffice. Three user processes give the tree shapes that matter: a grandchild whose
parent and grandparent exit in either order, a sleeper with a killer and a third process, two zombies handed to
`initproc` at once. `MaxProcess = 5` is below the number of slots, so `do_fork` also meets its limit.
A slice of 2 ticks can be charged without running out, run out, and be found at 0 by a kernel
thread; a sleep of 2 ticks can be cancelled halfway. MAX_PID 7 against 6 is the tightest that the
`static_assert(MAX_PID > MAX_PROCESS)` allows: at most one pid is ever free. Three timers within 5
ticks cover head, middle and tail of the list, equal times and one time above another by one.

Three processes put two in a queue while the third calls `up()`, so order and hand-over show, and
two semaphores tell a waiter of one from a waiter of the other. Four philosophers are the fewest
with two who are not neighbours, so that one who puts the forks back may signal both sides, with entrants
waiting on `mutex` meanwhile; eating twice lets one come back before its neighbour has eaten.

In `open_files` two readers can sleep at once, one be killed and the other served; three keys go around a
ring of two and overrun it; three descriptors fill up, and `files_closeall`, which starts
at descriptor 2, finds some on both sides. One loss is enough to show what it leaves; the second adds to the same sum.

In `sfs_file` one direct and two indirect entries have all the boundaries: the last direct one, the first
indirect one, the last of all. Three blocks cannot hold both files nor one whole file with its block of entries, so
allocation fails at each of its places. Transfers of one and two bytes are partial at the head, at the tail, whole, and
across a boundary; a seek to 1 is inside the first block, and one to 6 beyond all that was written, so it must grow the
file block by block and fail on the way.

In `heap` four pages split and merge on both sides of a held one; requests of 1, 3 and 4 bytes
share a page or just fail its assertion, 8 is exactly a page and 9 more than one. In `cow` the three values of
`KernelPages` leave room for everything, for a fork that runs out at each of its points, and for hardly one
program; three processes are a parent, a child and a grandchild or two children of one page.

Liveness needs the whole state graph, which is why that run has one process less and slices of one
tick. No liveness is checked under symmetry. The safety theorems need no bound.

## 4. Fairness

* `WF_vars(KernelStep)`: the kernel's code between two scheduling points is sequential and has no
  loop that waits; the CPU executes the next instruction.
* `WF_vars(KThreadStep)`: the threads of `check_sync` compute boundedly between their calls.
* `SF_vars(Tick)`: the clock interrupt becomes pending at a fixed rate and is taken as soon as
  interrupts are on. A user program that makes one system call after another switches them off again and
  again, so weak fairness would say nothing; but the pending interrupt is taken before the first
  instruction after `sret`, which strong fairness states.
* User processes get no fairness: they may compute for ever, never exit and never wait.
* `Philosophers`: `WF` of the disjunction of all steps: some philosopher goes on if one can. It picks no
  one, so `AllQuit` relies on nothing about the order in which they run.
* `PidAlloc`: `WF` of the scan loop. `TimerList`: `WF(RunTimerList)`, the clock.
* `OpenFiles`, `SfsFile`, `PageAlloc`, `Kmalloc` and `Cow` assume none: what is stated about them is safety.
  That no reader sleeps beside a character (`NoKeyMissed`) is the part of its progress that the device owes.

`OrphansReaped` assumes that forks stop, because `do_wait(0)` takes the newest zombie of the list and may
pass over an old one for ever. `InitEnds` starts from a state where all other processes are gone.

## 5. What is proved

TLAPS checks the following for every value of the constants, given only the assumptions the modules name:
`KernelAssumption` (the slots are finite and distinct, a slice is at least one tick), `PidAssumption` (the
`static_assert`, MAX_PID > MAX_PROCESS), `TimerAssumption` (the bound on times is a number), `SemaphoreAssumption` (first values are not negative),
`PhilosophersAssumption`, `FilesAssumption`, `SizesAssumption`, `BlockAssumption` and `ValueAssumption`
(sizes are positive numbers, an indirect block has room for its entries, blocks are finitely many and not
numbered 0), `CowAssumption`, `PageAllocAssumption` (there is a page, requests are positive) and `KmallocAssumption` (a page
is a multiple of a unit; `bigblock_t`, of 24 bytes, is larger than `slob_t`, of 16, and both fit in a page, as the
assertion of `slob_alloc` needs). Two theorems have a hypothesis of their own, justified below. In most modules `Inductive`
(or `InductiveInvariant`) is the theorem all others rest on: what the properties need that they do not say themselves.
Every safety property that a passing run checks is proved.

`KernelProofs`: `TypeCorrect`, `RunQueue`, `WakeupsKept`, `TreeRooted`, `TimersOwned`,
`NoAssertionFails`, `ZombiesReaped` and `WakeupsCaused`, one for each property of
`kernel_safety`. That `wakeup_proc` never meets a zombie needs to know where a process with a given
`wait_state` can be. `IInv` adds

* `PlaceOK`: which `state`, `wait_state`, timer and `waitfor` go with each `pc`;
* `CurrentOK`: what the running process can be, in and out of `schedule()`;
* `ParentOK` and `Grounded`: parents are alive, `idleproc` has none, and no group of processes is
  closed under `parent`. `Grounded` is stated over sets instead of paths, so
  re-parenting by `do_exit` is one step and needs no induction over the length of a path;
* `InitDone`: `init_main` reaches its end only when no other process is left.

There is one lemma per action, and under it one step per part of `IInv`; facts about the run queue (`WakeupProcs`
appends distinct processes that were not in it) are lemmas of their own.

`PidTimerProofs`, on pids: `PidTypes`, `PidsUnique`, `GapKept` and `PidsInTurn`, the last a refinement step by
step. The invariant of a scan, `ScanInv`, says that no process already passed has a pid in `last_pid..next_safe-1`, and that all pids
between the old `last_pid` and the new one are taken.

On timers: `OnListAlways` and `OnTime`, the refinement of `TimerSpec` for any processes and times. The invariant,
`TimerInv`, is that distances are never negative and the first is not 0, which `run_timer_list` asserts
(`schedule/sched.c:174`) before it takes a tick off. It makes the sums of the distances rise along the list, so the timers up
to a given time are those in its first places: what both `Stop` and `Ending` rely on. `Sums` is
recursive, and the argument never unfolds it: a function that starts at 0 and adds a distance at each place is
`Sums` (`SumsAre`, by least elements), so of each new list one shows which function that is. `AddTimerSays`, `DelTimerSays` and
`RunTimerListSays` do so: the old sums with `time` put in, with one left out, or each less 1 behind those that
end. From there each function is a step of `TimerSpec` (`AddTimerSets`, `DelTimerCancels`, `RunTimerListTicks`).

`SemaphoreProofs`: `TypeCorrect` (no value is ever negative), `QueuesExact`, `NoAssertionFails` and
`Refines`, the refinement of `SemaphoreSpec`. `SleepOK` strengthens the three invariants: who is
asleep is in `down()` with `WT_KSEM`, who has been woken there has the flag for it, and the running
process is RUNNABLE; without it nothing excludes that `up()` meets a process which is queued and awake. The refinement
follows the place of each process through `Append` and `Tail`.

`PhilosopherProofs`: `Apart` (neighbours never eat together), `OneOwner` (one thread inside the
monitor) and `HandsOver` (what a waiter was signalled for still holds when it runs), for any number of
philosophers. The parts of its invariant: `SemOK`, the semaphores, with the queue lemmas of
`SemaphoreProofs`; `WhereOK`, at which line who sleeps on what; `CountsOK`, that `next_count` and the
counters of the conditions are what they count and no unit lies in them unclaimed; `Held`, that exactly one owns the
monitor when `mutex` is 0; `TableOK`, that the table lets nobody eat beside a neighbour, from the signal on.

`OpenFilesProofs`: `CountsAgree`, `NoAssertionFails`, `KeysKeepOrder` and `KeysWake`. A file is counted
twice exactly while its process sleeps in a read of it (`TableOK`), which is why `files_destroy` never meets one
in use; `SpareOK` says that an inode has more references than opens, by its working directories.
`KeysKeepOrder` needs that two places of a ring less than its length apart are different (`ModApart`).
`CountsAgree` has an invariant of its own, `LossOK`: who has ended has no descriptor, and what was lost only grows.

`SfsFileProofs` has one theorem for each property of `sfs_file`, from four invariants, each resting on the one before.

* `Owned` (`BlocksOwned`): each block in use belongs to one place of one file, free ones to none, and the super block
  counts them. `OwnOK` restates this without cardinalities: the entries of all inodes and of all indirect
  blocks are disjoint, and an indirect block is no entry. It is not inductive alone, because closing a file goes back
  to the inode on disk: `SyncOK` adds that the disk has the entries of every inode that is not
  marked dirty. `BmapCases` splits `sfs_bmap_load_nolock` into its four outcomes, and `OwnGrow` and `OwnShrink`
  carry ownership over them and over the truncation.
* `GInv` is about numbers: how far a call has come, `alenp` against the blocks it has passed, and positions inside
  the file. It needs no blocks and holds also after a mishap.
* `NothingLost` (`CleanInodeOnDisk`), `OnlyTheIndex` and `NoAssertionFails` (`AssertionsHold`): `InOrder` says of every file that
  it has just the entries before `blocks`, and, unless a call is at it, `blocks` for its size and its inode on disk
  or marked dirty. In a call, `IoFits` and `TruncateFits` say by how much this is off and in which direction: a write has its
  blocks before its size, a truncation lets go of them first. That is what makes each `assert(index <= din->blocks)` true. `InOrder` is
  lost with a mishap, hence `JInv`.
* `Refines` (`ImplementsFiles`): `BytesOK` adds that a read has in its buffer, and a write has put down, what the file has
  there. Every step is a step of `FileSpec` or leaves it as it is, because blocks that are not the call's
  keep their bytes (`OwnOK` again) and a fresh block begins as zeroes.

`OnlyTheIndex` is what holds on every disk: before a mishap only the panic of `sfs_bmap_get_nolock` can stop a call, on a file
that has used all its entries. `NoAssertionFails` excludes this one by `SmallDisk`: the disk has no more blocks than an inode
has entries. Lab8's `Makefile:163` makes a disk of 480 kB, 117 blocks of 4 kB, and an inode has 12 + 1024
entries; the instance has three of both.

`HeapProofs` has the four properties of `heap`, the first two also for the page allocator alone. Nothing is
stated by counting steps of the loops over lists. What the walks of the model come to is proved from the links, by least
elements (`LeastOf`), which the library has without an operator as parameter.

* The page allocator. `Lists`: the links make one circle through the head and the free blocks, in address order, both
  ways; `WalkIs` says that a walk is that order. `Blocks`: the free blocks cover just the pages that
  nobody holds, once. `Apart`: no two adjoin. With the blocks that are held and `nr_free` this is `PagesOK`, which each call keeps:
  `default_free_pages` inserts at the place (`Inserted`), and both merges leave the blocks apart. `RefusedForWant` needs `Apart`: a run of
  free pages is then inside one block. `PoolOK` promises nothing once a block was freed above all free ones (`tail`), where
  the run `page_tail` shows why nothing can be promised. `PagesOnce` and `PagesForWant` are the theorems.
* SLOB. `SlobList` says of the circular list what `Lists` says of the other, wherever `slobfree` points, and
  `BeforeIs` that the loop of `slob_free` finds the neighbour, round the end of the list too. `Cells`: the free blocks
  cover the units of the pages SLOB took, less those in use, once, and do not adjoin. `GoodHeap` puts both allocators together, since
  `slob_alloc` grows by a page and `__kmalloc` frees its `bigblock_t` when no page is left. `Pieces`: each caller has the units of
  a small block or the pages of one `bigblock_t`, nobody else's. `HeapInv` is the whole; `SmallStep`, `BigStep`, `RefusedStep` and `KfreeStep` are
  its steps. `HeapPagesOnce`, `HeapPagesForWant`, `UnitsOnce` and `EnoughAlways` follow.
* `EnoughAlways` has the hypothesis `WholePages`: `find_order` rounds no size down that is asked for. Without it the property
  is false, because `find_order` halves the size with its remainder lost. `KernelSizesAreWhole` proves
  it for sizes of up to two pages and of four. The kernel asks for no others: four pages are the buffer of `fs/devs/dev_disk0.c:126`
  and the hash list of `fs/sfs/sfs_fs.c:200`, all else is smaller. The sizes of the run are at most two pages.

`CowProofs`: `PageCounts` (the reference count of each page, with its surplus) and `Refines`, the
refinement of `MemorySpec`. Its invariant: a page that somebody may write is mapped by him alone (`WriterAlone`),
processes share a page at one address only (`SamePlace`), a process without memory maps nothing (`NoStray`), and what is
mapped has been filled (`Filled`).

## 6. What the models show against the code and its documentation

`kernel_kill`. The comment at `src/labcode/lab8/kern/process/proc.c:58-59` describes SYS_kill as
ending in `do_exit`. A process that is RUNNABLE, preempted at the end of `trap()`, when it is killed returns from that
`schedule()` to user mode without another look at `PF_EXITING`. If the next thing
it does is wait, `do_wait` goes to sleep (lines 1103-1107) without looking either; a further
`do_kill` returns `-E_KILLED` without waking it, and it sleeps as long as its children live.
`KilledSleeperExits` is what does hold.

`page_tail`. The loop of `default_free_pages` (`mm/default_pmm.c:147`) that finds the place of a freed block
does not stop after `list_add` at the end of the list: the next turn finds the block itself, the last
link now, and adds it after itself, so that its `prev` points to itself. The block then merges with nothing
below it, and `list_del` leaves it on the list: two calls of `alloc_pages(2)` return the same page.
The allocator's own check states the opposite at line 188. Compiled on its own with the same list
functions, the code does what the run shows. `default_init_memmap` and
lab2's `best_fit_pmm.c` have the same loop. The kernel rarely gets there, because the last free block is the large one at the end
of memory; `heap` checks everything up to that point.

Seen on the way, each modelled as the code has it:

* lab5's `copy_range` takes the child's permissions from `PTE_USER`, which leaves PTE_COW out (`src/labcode/lab5/kern/mm/pmm.c:409`):
  after a second fork the child's page is neither writable nor copy on write, and its first store faults for ever.
  `src/labcode/lab5/Readme.md:237` distinguishes such pages from read-only ones by that bit.
* It counts a shared page twice, so the state "ref_count 1, made writable in place" of `src/labcode/lab5/Readme.md:418` is never reached
  for a page that was shared, and that page is never free again.
* A store of lab5's kernel to a shared page (the exit code in `do_wait`) faults in supervisor mode, which `trap.c:231` does not resolve.
* lab5's `exit_range` loses a page directory in which a failed fork had not put a table yet (`pmm.c:411`).
* A read or write from a position that another descriptor's `O_TRUNC` left beyond the size runs into
  `assert(index <= din->blocks)` (`fs/sfs/sfs_inode.c:356`).
* `kmalloc` of 4064 to 4079 bytes runs into the assertion of `slob_alloc`, and
  `find_order` gives too few pages for sizes just above 2, 4, 8, ... pages (`mm/kmalloc.c`); the kernel asks for neither.
* A file may have 12 + 1024 blocks, some 4 MB, but `sfs_io_nolock` and `sfs_tryseek` let it grow to `SFS_MAX_FILE_SIZE`, 128 MB (`fs/sfs/sfs.h:20`): on a
  disk larger than lab8's the write after the last entry panics (`fs/sfs/sfs_inode.c:286`) instead of failing.
* `vfs_open` with `O_CREAT | O_EXCL` and an exec that fails late lose references (see `OpenFiles`).

## 7. What is only model-checked, and what is left out

Liveness stays with TLC: the prover has no rules for fairness that reach these properties. Every
safety property of a passing run has a theorem.
Of the allocators nothing is promised, nor proved, once a block was freed above all free ones (`page_tail`).

**Not modelled**, with the reason:

* In `Kernel`: exit codes; `do_fork` failing for want of memory (it frees what it took and returns,
  but see the hazards); kill of pid 1, which ends in the panic of `do_exit` for `initproc` and is no input
  here; the counter `runs`. The waits `WT_KSEM` are in `Semaphore`, those on the keyboard in `OpenFiles`; memory over
  fork, exec and exit is in `Cow`, files in `OpenFiles`.
* The sibling lists, from which `do_wait` picks; the solution of `check_sync.c` with semaphores alone.
* Name lookup, devices and mounts of the VFS: the boot device and its root are fixed, so a lookup is a
  function of the path. `unlink`, `mkdir` and creation of names do not exist in this SFS.
* Locks of SFS: the disk is a RAM disk and nothing under them sleeps, so no second process ever finds one taken, and
  `sfs_load_inode` never meets `sfs_reclaim` halfway. The hash list of inodes is a set.
* `fstat`, `getdirentry`, `getcwd`, `chdir` and pipes, which only return data or errors; `CLONE_FS`, which nobody passes.
* The lists of virtual memory areas: areas never change after exec, and `do_brk` or `mmap` are not there.
  Lab8 has no page fault handler and calls nothing of `fs/swap`.
* `load_icode`'s reading of ELF files and its layout of arguments: data.
* Boot, page tables of the kernel, device tree, console, IDE and RAM disk drivers, the debug monitor, and the assembly of traps and
  switches: hardware access with no state that the modelled parts share.
* The buddy allocator of lab2 and the schedulers of lab6: no later stage uses them; best fit is in `PageAlloc`.
* User programs, `libs`, `mksfs`, scripts.

Most lines of the repository are not the subject of a definition for one more reason: they repeat each other.
Seven of the eight stages are earlier states of the same files, each with its own copy of `libs/riscv.h`, `libs`,
drivers, boot code and tools; a stage is modelled once, where it is complete. What carries the
kernel's logic (`kern/process`, `schedule`, `sync`, `fs`, `mm`) is modelled in the form it has at the end.

## 8. Plan

Done so far: processes and scheduler, pids, timers, semaphores, monitors, open files and stdin, files of SFS, both heaps,
copy on write; proofs of all their safety properties. Next, in this order:

1. `ProcTree`: the sibling links `cptr`, `yptr`, `optr`, refining the child sets of `Kernel`, newest first.
2. The solution of `check_sync.c` with semaphores alone, beside the one with the monitor, against one abstract table.
3. `Stride`: comparison of strides in 32 bits with its bound on the priorities (lab6).
4. The buddy allocator of lab2, as a third choice under the partition properties of `PageAlloc`.
5. The list of virtual memory areas: insertion keeps it ordered and free of overlaps.
