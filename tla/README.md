# TLA+ models and proofs for the kernel's tasks, processes and memory

This directory specifies the concurrent core of the kernel: a monolithic kernel
(`src/`, `api/`, `core/`) that runs Linux programs on the ArceOS modules
(`.arceos/`) and a few vendored crates (`vendor/axprocess`, `vendor/memory_set`).
TLC checks the models on small instances. TLAPS proves the main results about the
mutex and the process tree for every instance.

## 1. The system

A *task* is a kernel thread of `axtask`. Every CPU has a run queue, first in first
out, without preemption. A task leaves its CPU when it yields, blocks, exits or
migrates. *Wait queues* block tasks; the sleeping mutex of `axsync`, `join` and
the timed waits are built on them. Timers run in the timer interrupt.

A user thread is a task with extended data. `axprocess` keeps processes, thread
groups, parents, children and zombies; `sys_clone`, `sys_waitpid` and `do_exit`
work on that tree. Each process has an address space behind a mutex: a set of
areas, a page table and the frames it maps. Threads made with CLONE_VM share it.
`run_user_app` starts the programs one after the other and joins their main task.

Around this core are signals, time statistics, descriptors, pipes, paths, links
and mounts. `PROJECT.json` lists all parts with their status, and the hazards at
the lines where they bite.

## 2. Modules

| part | source | module | status |
|---|---|---|---|
| wait queues | `axtask/src/wait_queue.rs`, parts of `run_queue.rs` | `WaitQueue` | shared steps |
| sleeping mutex | `axsync/src/mutex.rs` | `Mutex`, `MutexProofs` | checked, proved |
| timed and untimed waits, timers | `wait_queue.rs`, `timers.rs`, `sleep_until` | `WaitTimeout` | checked |
| scheduler | `axtask/src/run_queue.rs` | `RunQueue` | checked |
| task exit, join, gc | `task.rs`, `run_queue.rs` | `Join` | checked |
| process tree, clone, wait, exit | `vendor/axprocess`, `api/src/imp/task`, `core/src/exit.rs`, `src/entry.rs` | `Process`, `ProcessProofs` | checked, proved |
| memory areas | `vendor/memory_set` | `MemorySet` | checked |
| address spaces, faults, mmap, execve | `axmm`, `api/src/imp/mm`, `api/src/ptr.rs`, `src/mm.rs` | `AddrSpace` | checked |
| what an address space promises | | `PageMap` | abstract specification |

`MCMutex`, `MCWaitTimeout`, `MCRunQueue`, `MCJoin`, `MCProcess` and `MCAddrSpace`
give the constants their values. Definitions whose comment says "Faulty variant"
are not part of any specification; each is a plausible mistake in the code, used
to see that a property notices it.

### How the modules read

*WaitQueue.* `queue`, `guard` (the spin lock of the queue), `state` and
`in_wait_queue` are the fields of those names. `BlockedResched`, `PopFront`,
`UnblockOneTask` and `CancelEvents` are the sections under the lock or the single
atomic accesses that all users share. A Ready task may be dispatched at any time.

*Mutex.* `owner_id` is the atomic word. `lock` is `LockCall`, then `CasOk` or
`CasFail`, then `WaitUntil`, `CheckFree` or `CheckLocked`, `Block`, `Cancel`, and
back to the compare-and-swap. `unlock` is `Swap`, `Notify`, `Unblock`. The swap
comes before the lock of the queue is taken, and everything may happen in between.

*WaitTimeout.* One program counter per task runs through `wait`, `wait_until`,
`wait_timeout`, `wait_timeout_until`, `sleep_until`, `notify_one` or `notify_all`.
A timer event first compares its ticket (`Expire`) and later unblocks (`Fire`).
It fires on the CPU where it was set. There interrupts are off from the deadline
test to the switch (`IrqsOff`), but not once the task was `moved`.

*RunQueue.* State is per CPU: `ready_queue`, `current`, `prev_task`, `next_task`
and the place in the scheduler. A Blocked task still executes until its context is
`saved`. The waker spins on `on_cpu` (`UnblockPut`). Migration and the gc task's
drop are actions too.

*Join.* `exit_current` publishes Exited, stores the code, wakes the joiners one by
one and puts the task on `EXITED_TASKS`. `join` tests, waits and reads the code.
`Gc` is one turn of the loop of `gc_entry`.

*Process.* Ids are handed out in order, and `Main` is init. `Clone` takes an id and
looks up the owner; `CloneBuild` and `CloneThread` link the new process and thread.
`WaitPid` takes the snapshot of the children, `WaitScan` looks at one child,
`WaitFree` and `WaitCode` follow in separate steps as in the code. `do_exit` is
`ThreadExit`, `BecomeZombie`, `Reparent`, `GroupExit`. The children map that
`Process::exit` keeps locked is `Locked`.

*MemorySet* holds the algorithms `find_free_area`, `map`, `unmap` and `protect` as
operators on sets of areas. They look at neighbours in the map as the code does.
*AddrSpace* uses them. Each system call holds the mutex of the address space and is
one action: areas, page table and free frames change together, early returns and
partial failures included. A fault is raised (`FaultRaise`) and handled
(`HandleFault`) in two steps, because the mutex is taken in between. Addresses are
in half pages, so that lengths need not be aligned. Contents are left out.

*PageMap* says what a program sees: a permission per page. `PageMapSpec` maps every
area to the pages it covers and states that `AddrSpace` implements it.

## 3. What the runs show

| run | instance | properties |
|---|---|---|
| `mutex` | 3 tasks, 2 mutexes | mutual exclusion, no lost wake-up, sleepers are queued, a free mutex with sleepers is taken |
| `wait` | 3 tasks, 2 queues, untimed operations and `sleep_until` | sleepers can be woken, no stale entries, `wait()` ends by a notification |
| `wait_timeout` | 2 tasks, 1 queue, 2 tickets | sleepers can be woken; `wait_timeout` and `sleep_until` return |
| `run_queue` | 2 CPUs, 3 tasks | one CPU per task, context saved before it is loaded, a Ready task in one place, affinity, no early drop |
| `run_queue_live` | 2 CPUs, 2 tasks | a Ready task runs |
| `join` | 3 tasks | joiners are woken, nothing reachable is freed, `join` returns |
| `process` | ids up to 4 | family tree, no lost process, one end per process, final exit code, `waitpid` returns |
| `address_space` | 1 thread, 3 pages, 3 frames | areas disjoint, table and areas agree, least free address, exact ranges, implements `PageMap` |
| `shared_spaces` | 2 threads, 2 spaces, 2 pages, 3 frames | frames exclusive, unused spaces empty, implements `PageMap` |

Three runs show a difference between the code and what is written about it:

* `join_code`: `exit_current` publishes the state before it stores the code, so a
  joiner on another CPU can return 0. It takes two CPUs; the default build has one.
* `process_doc`: with CLONE_PARENT a process can be linked under a parent that has
  ended and handed over its children, so init never inherits it.
* `fault_doc`: a thread whose page was mapped by another thread between its fault
  and the lock is killed as if the fault were real, and a frame is lost.

### Bounds

Three tasks are the fewest with an owner, a sleeper and a task that barges in. Two
queues let a task return to a different one. Two tickets let an old event meet a new
wait. Two CPUs are enough for every hand-over, which always has two sides. Four ids
are init and three others: parent, child and grandchild, or two threads beside a
child. Three pages are the fewest with a hole or a split in the middle of an area.
Three frames for three pages in one space never run out by themselves, and do once
there is a copy or a lost frame. `MaxId`, `MaxTicket`, `NPages`, `NFrames` and
`Lengths` are bounds of the model, not of the code.

CHECK_DEADLOCK is off where the system may stop: everybody has exited, ids or
tickets are used up, or all tasks wait for a notification nobody owes them.

### Fairness

Kernel code that can run does run on: CPUs do not stop, and the first-in first-out
queues pick every Ready task in turn. That gives weak fairness of the steps inside
an operation. Strong fairness is assumed for taking a spin lock that is free again
and again, for a compare-and-swap that may fail spuriously, and for a running task
leaving its CPU in the end, which cooperative scheduling asks of it. `Join` states
strong fairness for a task's steps and for the gc task, whose CPU runs it between
exits. No operation is assumed to be called: nobody has to notify or exit.

## 4. What is proved

`MutexProofs`, for any sets of tasks and mutexes, from `NoTaskAssumption`:
`MutualExclusionAlways`, `NoLostWakeupAlways`, `SleepersQueuedAlways`. The three are
not inductive by themselves. `IInv` adds who holds the queue's lock (`GuardInv`),
that only a task in the loop of `wait_until` is off the CPU (`SleepInv`), that a
queued task is asleep, flagged and wants this mutex (`QueueInv`), that a task being
woken is asleep and in no queue any more (`WakingInv`), and that a task about to sleep on a free mutex has a
notifier that is still to come (`HandoffInv`), which is the reason why storing
0 before locking the queue loses no wake-up.

`ProcessProofs`, for any number of ids, any exit codes and any set of clone kinds,
from `MaxIdAssumption`, `CodesAssumption` and `KindsAssumption`: `TypeOKAlways`,
`FamilyTreeAlways`, `NotLostAlways`, `EndsOnceAlways` and `FinalCodeAlways`, which is
an action property. `IInv` adds that ids in use were handed out (`IdInv`), that the
id of a task being made is used by nobody (`NewInv`), that its owner exists
(`OwnerInv`), that a thread is in its group exactly while it is active
(`ThreadInv`), and that `waitpid` frees only zombies (`FoundInv`). `ThreadInv` is
what makes the zombie's exit code final: a thread that could still store one is in
the group, and a zombie's group is empty.

Each proof has one lemma per action and one step per part of `IInv`. `MoveIds` and
`MoveThread` serve the actions that only move a thread on.

Only model-checked: all liveness properties, the scheduler, timers, join and memory,
and the refinement of `PageMap`.

## 5. What is left out, and the plan

Not modelled: the hardware layer, drivers, file contents, ELF parsing, `select`,
`epoll` and sockets. `Process` leaves out process groups and sessions, which no
system call changes, and the SIGKILL that `exit_group` sends. `AddrSpace` leaves out
page contents, file mappings, linear mappings and TLB flushes. `RunQueue` leaves out
preemption and the other policies, which this build does not select.

Order of the work ahead:

1. `Signal`: `send_signal_proc`, `send_signal_thread`, `check_signals` with the lock
   of the actions, and the SIGKILL of `exit_group`, composed with `Process`. The
   promise is in the comment before `check_signals`: a pending signal that is not
   blocked is taken and acted on. Two threads, two signals.
2. `Pipe` and `Descriptors`: the ring buffer implements a queue of bytes; end of file
   by counting references; `dup`, `dup2`, `close`, copies by fork. A buffer of two or
   three bytes, and theorems on `available_read` and `available_write`.
3. `TimeStat`: user and kernel time around system calls and task switches, checked
   against the time really spent; the interval timer.
4. `Links` and `Mounts`: the link table with its counts; mount and umount.
5. Proofs: `AreasDisjoint` and `RangesExact` of `MemorySet`, `OneCpuPerTask` and
   `ContextSaved` of `RunQueue`, and the safety properties of `Join`.
