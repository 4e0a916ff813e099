# A formal model of the MaeroOS kernel core

MaeroOS is a 32-bit x86 kernel with a Linux system call ABI. It runs on several
CPUs under one Big Kernel Lock (BKL) and is on its way to finer locks
(`docs/smp-plan.md`, "stages"). This directory holds TLA+ models of the parts
where its concurrency lives, TLC configurations that check them on small
instances, and TLAPS proofs of the safety properties for every number of CPUs,
threads and values.

Paths below are relative to the repository; line numbers are those of the commit
the models were written from. `PROJECT.json` maps every definition to its lines.

## 1. How the kernel runs, and what a step is

Three facts fix the grain of every model.

1. **Kernel mode is not preempted.** `sched_irq_exit` switches threads only on the
   way back to ring 3 (`proc/scheduler.c:505`).
2. **Kernel code holds the BKL.** Every trap stub calls `bkl_enter` before the
   handler and `bkl_leave` before `iret` (`arch/i686/cpu/isr.asm`); the idle halt
   and the code marked "stage 2" are the exceptions. The BKL goes with the CPU, not
   with the thread: `swtch` gives it to whatever runs next.
3. **A thread gives the CPU away only where it sleeps.** These points are
   `sleep_on`/`sleep_locked`, `yield`, a contended sleeping lock, and *every access
   to user memory*: a copy may fault, `vma_handle_fault` (`proc/syscall.c:4725`) may
   have to read the page from a file, and the read may wait for a USB transfer or a
   file system lock.

So in Pipe, Futex, ProcLife, JobControl and FileLocks one step is what a thread
does between two sleeping points, copies included as sleeping points where they
matter; in Scheduler it is what a CPU does until an interrupt or another CPU can
see the difference; in Bkl one instruction that touches the lock, the depth or
the interrupt flag; in TlbShootdown one access to shared memory; in Journal one
block written to the disk; in Orphans one transaction, or the part of one after
which a crash makes a difference.

## 2. Inventory

| Component | State | Operations | Interacts with | What is hard | What makes it correct |
|---|---|---|---|---|---|
| Big Kernel Lock, trap entry (`cpu/bkl.c`, `isr.asm`, `idt.c`) | lock word; per-CPU depth, interrupt flag; depth saved per thread | `bkl_enter`, `bkl_leave`, trap, interrupt, `iret`, switch | scheduler (carries the depth), TLB shootdown (served while spinning) | nested interrupts between two instructions; threads that migrate while nested | one CPU in the kernel; no self-deadlock; not held outside |
| Scheduler (`proc/scheduler.c`, `cpu/irq.c`) | thread states, `on_cpu`, `idle`, `need_resched`, `kmap_cpu`, vruntime | pick, dispatch, sleep, wake, idle, tick, reschedule IPI, preempt | everything that sleeps | wakeups between test and halt; wakeup of a thread still on its stack; pinned threads | a thread on one CPU; no lost kick; a runnable thread runs |
| TLB shootdown (`cpu/smp.c`) | request and acknowledge generations per CPU, page tables, TLBs | unmap and flush, send, serve, acknowledge, resend | BKL, scheduler (CR3 loads), unmap, copy-on-write | concurrent senders; targets with interrupts off; wrapping counters; merged IPIs | no CPU uses a freed frame; senders do not wait for ever |
| Pipes and FIFOs (`proc/pipe.c`) | ring, counts of ends, pins, wait queues | read, write, close, dup, FIFO node removal | scheduler, signals, user copies | copies that sleep; closes by siblings; wakeups | exact stream; freed once, and in the end; no lost wakeup |
| Futexes (`proc/syscall.c`) | `futex_wait`, deadline, `sleep_seq`, the word | wait, wake, deadline, signal, wake at exit | scheduler, signals, paging | test-then-sleep; page that goes away; competing ends of a wait | no lost wake; a counted wake is reported |
| Process life cycle (`proc/process.c`, `scheduler.c`, `signal.c`, `syscall.c`) | process table: states, parents, groups, statuses | fork, clone, exit, exit_group, kill, waitpid, reparent, reap | signals, descriptors, scheduler | who exits last; orphans; sleeps in the middle of an exit or a wait | collected once with the right status; no lost wait; group exits end |
| Signals, job control (`proc/signal.c`) | pending sets, masks, stop state | send, deliver, stop, continue, return | all sleeps, process life cycle | stop, continue and kill racing on a group | a stop covers all threads or none; the parent is told once |
| Kernel locks (`kernel/klock.c`) | spin, sleeping and reader-writer locks, lock-order graph | acquire, release, wake | scheduler | hand-over; order | exclusion, no lost waiter, cycles detected |
| AP start-up (`cpu/smp.c`) | `boot_state`, `online` | start, report, give up | TLB shootdown | timeout against a late report | both agree whether the CPU counts |
| Memory (`mm/`, `arch/i686/mm/`) | frame reference counts, page tables, heap, guarded stacks | allocate, map, copy-on-write, free | shootdown, fork, exec | counts across fork and faults | freed exactly when unused |
| ext4 journal (`fs/ext2.c`) | running transaction, freed blocks, log, blocks in place | put, commit, checkpoint, sync, replay | every operation that changes metadata; the disk | crash or failed write between any two blocks, in the replay too; reuse of freed blocks | operations are atomic, and durable as of the last commit |
| ext4 orphans (`fs/ext2.c`) | orphan file, list through the inodes, open files | unlink, last close, truncate, clean-up at mount | journal | operations longer than a transaction, cut by a crash | what is half done is on record until it is done |
| File locks (`proc/flock.c`) | lists of locks, counts per user, descriptors | lock, unlock, wait, close, dup, fork, exit | scheduler, descriptors | splits at a limit; closes and reopens during a wait | no conflicting locks, no lock without an owner, no forgotten waiter |
| Other files (`fs/`) | nodes, mounts, block cache | open, unlink, write back | block drivers, locks | node counts | freed exactly when unused |
| IPC: unix sockets, SysV, shared memory (`proc/`) | queues, counts, undo lists | send, pass descriptors, semop | scheduler, exit | cycles of passed descriptors; undo at exit | counts exact, waiters woken |
| poll, epoll, timers (`proc/`) | interest lists, deadlines | wait, notify, expire | all of the above | readiness between scan and sleep | no missed event |
| Drivers, network glue (`drivers/`, `net/`) | rings, completions | submit, complete, time out | interrupts | late completion after a timeout | a buffer is not reused while the device owns it |
| Kernel services, user space, ports, vendored code | - | - | - | - | outside this project |

`PROJECT.json` lists each component with its status, and under `hazards` the
places in the code where a test would hardly reach, each with the properties
that watch it.

## 3. Modules

| Module | Models | Checked by | Proved in |
|---|---|---|---|
| `Bkl` | `bkl_enter`/`bkl_leave`, trap stubs, depth across switches | `MCBkl` | `BklProofs` |
| `Scheduler` | `scheduler_start`, wakeups, idle halt, ticks, IPIs | `MCScheduler` | `SchedulerProofs` |
| `TlbShootdown` | `tlb_shootdown*`, `tlb_serve_pending` | `MCTlb` | `TlbProofs` |
| `Pipe` | all of `pipe.c` | `MCPipe` | `PipeFutexProofs` |
| `Futex` | FUTEX_WAIT and FUTEX_WAKE on a private word | `MCFutex` | `PipeFutexProofs` |
| `ProcLife` | fork, clone, exit, kill, waitpid, reaping | `MCProcLife` | `ProcLifeProofs` |
| `JobControl` | signals, masks, stop and continue of a thread group | `MCJobControl` | `JobControlProofs` |
| `FileLocks` | all of `flock.c`, with the descriptors locks belong to | `MCFileLocks` | `FileLocksProofs` |
| `AtomicFs` | abstract: what the journal promises | through `Journal` | refined by `Journal` in `Ext2Proofs` |
| `Journal` | commit, checkpoint and replay of the jbd2 journal; implements `AtomicFs` | `MCJournal` | `Ext2Proofs` |
| `Orphans` | orphan records, long deletes and truncates, recovery; built on what `AtomicFs` promises | `MCOrphans` | `Ext2Proofs` |

Operators named `...No...`, `...Any...` and the like with a comment that begins
"Mutant:" are wrong variants of the definition that follows them. They are not
part of the specification; each shows that the property it is meant for would
notice the mistake.

### Bkl

A *context* is a thread or a CPU's scheduler loop. Its kernel stack is a stack of
frames, each with its place (`pc`), the flag `pushf` saved and the flag `iret`
will restore. `Enter`, `TryLock`, `Inc`, `Done` are the instructions of
`bkl_enter`; `Leave`, `Dec`, `Unlock` those of `bkl_leave`. `Syscall`, `Fault`
and `Irq` push frames, `Irq` wherever the flag is on, so interrupts nest at
every instruction the code does not protect. `SwitchOut` and `Dispatch` are
`scheduler_start` on either side of `swtch`: `p->bkl_depth = me->bkl_depth;
me->bkl_depth = 1` and back. A new thread starts in `forkret` at depth 1 with
no frame of its own. The accounting of a BKLSTAT build is left out.

### Scheduler

`pc[c]` is where CPU *c* is in its loop, in a thread or in a handler; the module's
header lists the values. The idle path is modelled test by test: the empty scan,
the publication of `idle` with interrupts off, the test of `need_resched`,
`hlt`, and the release of the lock in between. `sched_wakeup` keeps its four
cases (pinned thread, idle CPU, preempted CPU, nobody). *Which* eligible thread a
scan prefers depends on vruntime and is an open choice, as is the CPU a wakeup
preempts: safety holds for each, and liveness assumes what vruntime gives (see
section 5). `kmap` is the pinning by `paging_temp_map`. `late` is auxiliary: the
threads woken by an interrupt on a CPU between its empty scan and its `cli`.

### TlbShootdown

One page is watched. A CPU runs, spins for the BKL with interrupts off, holds it,
or sends. A sender that holds the BKL names the CPUs that run its address space
(`tlb_shootdown_mm`); a sender off the lock, which stage 2 allows and
`kt_sd_round` does, names every online CPU (`tlb_shootdown`). Its three loops
are `Post`, `SendIpi` and `Acked`, one step per target, with `Resend` for a slow
one. `tlb_serve_pending` is `TakeIpi` or `PollServe`, `Flush`, `Ack`. The
processor fills a TLB whenever it likes (`Touch`, external).

### Pipe

Ring, counts, pins, wait queues, and the locals of the call each thread is in
(`req`). A thread in `Faulting` may sleep in its copy (`ReadFault`,
`WriteFault`); the others' copies are resident. Bytes carry their number, so the
model can tell a lost byte from a repeated one. `TryFree` and `Leave` are
`pipe_try_free` and `pipe_leave`. A named FIFO (`fifo`) is freed by its node
only. `io_wake_poll` has no state here.

### Futex

One private word of one process. The word's page may be dropped by
`MADV_DONTNEED` between any two steps, which is when the copies of `sys_futex`
fault; the three that may sleep are `fault0` (first read), `fault1` (timeout),
`fault2` (inside the bucket loop). `owe` is auxiliary: the threads that stored
to the word and have not called FUTEX_WAKE since; that they do is user code's
half of the protocol. REQUEUE, WAKE_OP, shared keys, bucket collisions and the
robust list are left out.

### ProcLife

`tab` is `ptable`, slot by slot, so that a freed slot is used again while
somebody may still hold its index. `proc_exit` is `ExitHead`, the closes (which
may sleep if `CloseSleeps`), `ExitTail`; `sys_waitpid` is the scan, the copy of
the status (which may sleep if `CopySleeps`) and `Collect`. `told` and `final`
are auxiliary: what waits returned of each process, and the status it ought to
have. `slept` marks an entry whose exit slept after it had become a zombie,
`misfreed` a wait whose copy slept and which then released a process other than
the one it reports.
Stop and continue are in JobControl; process groups and the other resources an
exit gives back are left out.

### JobControl

The threads of one process, each with its state, pending set, mask, the mask
`sigsuspend` put away, the masks in its handler frames and `jobctl_stop`; the
process-wide set; the leader's `group_stop`, `group_continued` and
`stop_reported`; and the parent in `waitpid`. `bkl` is the thread in the kernel.
`Queue` is what `signal_send` and `signal_send_group` have in common:
`prepare_job_control`, the queueing and the wake of whoever is to notice.
`StopAsked`, `DeliverNothing` and `Deliver` are `signal_return_to_user`;
`group_stop_participate` and `proc_stop_self` are two steps, because the second
sets the state again. `irqs` says whether interrupts are on where the kernel runs:
they are off on entry and on from the first sleep or stop of a call to its next
one (`sleep_common` and `proc_stop_self` end with `sti`), and there a signal of the
timer or the keyboard may fall between any two steps. Three auxiliary variables
mark where the code itself makes exceptions: `late`, threads created while a stop
is in force; `missed`, signals a sigreturn blocked while they were pending; and
`hit`, whoever had made its last test before it sleeps or halts when an interrupt
sent a signal (section 6). Dispositions are fixed (`Caught` have handlers),
synchronous faults and the layout of frames are left out; a frame that cannot be
written makes SIGSEGV pending and `signal_return_to_user` starts again. That the
copies of frames and wait statuses may sleep is left out too.

### FileLocks

One file's list of locks of the three kinds with the counts `nlocks` and
`lock_uids`, and the descriptor tables with the `fid` of each descriptor: locks
belong to an fid (flock, OFD) or to a table (POSIX). `Hit`, `Left` and `Punched`
are the cases of `unlock_range`; `Insert` charges the new lock before the split, as
the code does; `flock_bsd` drops the old lock of a conversion first. `sys_close`
is `flock_fd_closed` followed, at once or after a sleep (`CloseSleeps`), by the
rest of `fd_release` (`CloseEnd`). `dup2` is a close and a dup. `raced` is
auxiliary: owners whose locks were taken, or spared, inside that window. A
process is one table and one real uid; the offset range is cut to `0..OFF_MAX`
with the bound tests of `flock_fcntl` kept as they are. F_GETLK changes nothing;
descriptors in flight in a unix socket are not modelled.

### AtomicFs and Journal

`AtomicFs` is a map from names to objects with contents. An operation happens at
once at its end; `Commit` makes the tree durable; a crash goes back to what is
durable. Contents are written in place before that, and only to the object of the
operation, or to one that neither the current nor the durable tree can reach.

In `Journal` the same operations (write, truncate, rename) are the sequences of
block updates of `fs/ext2.c`: metadata blocks enter the running transaction
(`JtPut`), data blocks go to the disk, freed blocks are remembered and not given
out again before the commit (`FreeBlocks`). The commit is one step per block:
journal superblock, descriptors with their copies, commit block, checkpoint,
journal superblock. `PowerCut` may come anywhere, `CommitFails` in place of any write,
with the block on the disk or not. A mount scans the log as `ext2_jnl_scan` does,
comparing types and sequence numbers of whatever old records lie there, writes
the blocks one by one and empties the log. The refinement maps the durable tree
to `Tree(Recovered)`, the tree the *next* mount would find: the abstract commit
is the write of the commit block, and every write of checkpoint and replay has to
leave `Recovered` alone.

Metadata is one block per name and one bitmap. Block writes are taken to be
durable in program order, which is what the drivers' flushes give; checksums then
have nothing to catch and are left out, and so are revoke records, which this
code never writes.

### Orphans

`cur` and `dur` are the metadata now and as of the last commit, as in `AtomicFs`,
but here one operation can be several transactions: `CutStep` is the commit in the
middle of `x4_ext_free_from`. An inode has its link count, size, number of blocks
and link of the list (`i_dtime`). The record is the orphan file (`slot`) and the
list from `last`. `job` holds the inode being freed, with the copy in memory
that the steps write. After a crash `Finish` and `FinishEnd` are
`x4_orphan_finish`, `NextSlot` and `CleanupEnd` the loops around it. Sizes are in
halves of a block, so that `Ceil` (the blocks a size needs) and `Floor` (the
division in the test of `ext2_truncate`) differ; the zeroing of the rest of the last
block is left out. What happens outside `fs->lock` is a step of its own, also in
the middle of another thread's job: `Lookup` finds the name, `Retain` is
`ext2_retain_node`, which checks nothing, `Close` takes the last reference away and
`Release` is what `ext2_close_node` then does under the lock. Three auxiliary
pieces mark the code's exceptions (section 6): `cutoff`, `torn` (in the inode) and
`stale`.

## 4. Runs

Eleven runs pass and one shows a disagreement between the code and what its
comments say.

| Run | Instance | Properties |
|---|---|---|
| `bkl_smp2` | 2 CPUs, 2 threads, up to 3 frames on a stack | `Exclusion`, `NoSelfDeadlock`, `LockFreeOutside` |
| `sched_smp` | 2 CPUs, 3 threads | `OneCpuPerThread`, `NoLostKick`, `NoForgottenThread`, `PinnedAtHome` |
| `sched_live` | 2 CPUs, 1 thread, fair | `RunnableRuns` |
| `tlb_safe` | 3 CPUs, 2 frames, 2 shootdowns | `NoStaleFrame`, `WaitedForServes` |
| `pipe_spsc` | 1 reader, 1 writer, both may fault, ring of 2, fair | `NoLostWakeup`, `NoUseAfterFree`, `NoLeak`, `ByteStream`, `BlockedCallsEnd` |
| `futex_wait` | 2 threads, values 0 and 1, 2 sleeps | `NoLostWake`, `WakeNotStolen`, `TimeoutHonoured` |
| `proc_sleeps` | 4 slots, 4 pids, SIGKILL of pid 3; closes and copies may sleep; fair | `NoLostWait`, `StatusTold`, `ExitedReapable`, `ReleasedGone`, `CollectedOnce`, `GroupExitEnds` |
| `jobctl_group` | a thread and its clone, SIGKILL, SIGUSR1 with a handler, SIGCONT, SIGTSTP; 3 sends, 1 change of mask, interrupts that send wherever they are on; fair | `StoppedByStop`, `StopReachesAll`, `ParentTold`, `NoLostSignal`, `KilledEnds`, `StopCompletes` |
| `flock_waits` | 2 processes of 2 threads, 2 descriptors each, 4 bytes, 4 locks, 2 per user, 4 calls | `NoConflict`, `OwnerDisjoint`, `CountsExact`, `WaiterBlocked`, `NoStrandedLock` |
| `journal_crash` | 2 names, 2 data blocks, 4 operations, 2 crashes, 1 failed write | `DurableConsistent`, `ImplementsAtomicFs` |
| `orphans_crash` | 3 inodes of 2½ or 3 blocks, 1 orphan slot, 4 operations, 2 crashes | `RecordExact`, `NeverHalfFreed`, `HeldOrFinished` |
| `orphan_leak` | the same | `NothingLeaked` is violated |

Each module also has a type invariant, `TypeOK` (`FutexTypeOK` in Futex, `JnlTypeOK`
in Journal), proved for every module.

### Bounds and why they are enough

- `MaxNest = 3`: a syscall, a fault in it and an interrupt in that; a fourth frame
  repeats the third. The proof has no such limit.
- Scheduler: `Rescan = 1` tick: a larger number only makes the CPU halt more often
  before the same test. Three threads on two CPUs leave one waiting while both
  CPUs run; the safety properties are also proved for any number. The fair run has
  one thread, which is every case of a wakeup that meets a CPU on its way to the
  halt: with a second thread to run the CPU would not go there.
- `GEN = 8`, `FirstGen = 7`: the first shootdown wraps the generation. Two
  shootdowns are the fewest that can share a flush, and three CPUs the fewest on
  which two senders have a target in common. The signed comparison is right as
  long as fewer than `GEN / 2` requests are outstanding. `RequestsBounded` proves
  that there are never more than CPUs, so `TlbAssumption` asks for
  `GEN > 2 * Cardinality(CPUs)`; the code has 2^32 and a handful of CPUs. It is
  wrong about an acknowledgement older than `GEN / 2` requests: a sender held up in
  its loop while 2^31 further ones are made of the same CPU would wait on, so
  `WaitsAreServed` is proved for fewer shootdowns than that.
- `PIPE_BUF_SIZE = 2`, requests up to 3 bytes, 4 bytes in all: the ring fills,
  wraps, and a write has to be done in pieces. `MaxEnds = 2` lets an end be
  dup'ed and one of two be closed. `WORD = 8` stands for 2^32; all that
  matters is that it exceeds the buffer (`PipeAssumption`). One reader and one
  writer because `ByteStream` is false when one whose copy sleeps has a rival
  (section 6); without that, and for the other safety properties in any case, the
  proofs allow any number.
- Futex `MaxSleeps = 2`: each thread sleeps once, or one twice, which is what it
  takes for a flag of the first sleep to be left over in the second.
- ProcLife: pid 1 is init, so four pids are a parent, a child and a thread of
  either, and every slot but one can be reused. `Killable = {3}` keeps kill(2) to
  one process; group exits send SIGKILL to any. `misfreed` takes five slots and six
  pids and stays FALSE here; the proofs cover it.
- JobControl: a thread that clones one more gives stops, exits and clones that
  race; three sends are a stop, its continuation and a kill or a second stop. One
  change of a mask is enough for a signal to be retargeted, and SIGUSR1 the signal
  it is made of: the masks of SIGCONT and of SIGTSTP are covered by the proofs
  (with `Maskable = {10, 18}` the invariants hold too, in three times the states).
- FileLocks: four calls are a lock, a conflicting wait, a close or copy and a
  second lock; four offsets let a lock be split with something left on both sides
  and end at the last offset; limits of 4 and 2 are reached.
- Journal: two names and a bitmap are three metadata blocks, with `TagsPer = 2` so
  that a transaction needs two descriptors and old records of another length
  stay behind in the log; two data blocks can be full. The second crash falls
  into the replay of the first.
- Orphans: one slot and three inodes put two into the list, so that one can leave
  its middle; three blocks can be cut in two steps, and a new file of two blocks and
  a half by two blocks without a record. Four operations are a lookup, an unlink
  and two more. The second crash falls into the clean-up after the first.
- Deadlock is checked except where a bound on calls, sends or crashes stops
  everybody in the end (Tlb, Futex, JobControl, FileLocks, Journal, Orphans).

Symmetry (CPUs and frames, threads, names, blocks, inodes) is used in runs without
liveness only.

### What they show

- **`Exclusion`, `NoSelfDeadlock`, `LockFreeOutside`**: the `cli` in `bkl_enter`
  and `bkl_leave` is what keeps word and depth together; without it an interrupt
  spins for a lock its own CPU holds. The depth must travel with the thread.
- **`NoForgottenThread`**: a runnable thread is never left to CPUs that all sleep
  unasked, with one exception, the interrupt between the empty scan and the
  `cli`; **`RunnableRuns`** shows that the periodic rescan makes good for it.
- **`NoStaleFrame`**: acknowledging the generation *sampled before* the flush is
  essential; with the newest one instead TLC finds a freed frame in a TLB.
- **`WaitedForServes`**: no sender waits for a CPU that cannot turn to its request,
  although that CPU may spin for the lock the sender holds, with interrupts off, or
  wait for the sender's own acknowledgement: both loops have to poll.
- **`ByteStream`**: bytes come out in the order committed, none lost, none twice.
- **`BlockedCallsEnd`**: a blocked call returns once it could be satisfied for good.
- **`TimeoutHonoured`**: a timed wait goes to sleep with its deadline armed, except
  after a fault inside the bucket loop (section 6).
- **`NoLostWait`**: that there is a child left only of processes other than init,
  and nothing once a wait has released the wrong entry (`misfreed`).
  **`ExitedReapable`** and **`CollectedOnce`** except an exit or a copy that slept.
  Section 6 has all four.
- **`ReleasedGone`**: `reap_orphan_zombies` must spare its caller, whose stack it
  would free.
- **`StopReachesAll`, `StopCompletes`**: a stop taken by one thread reaches the
  others wherever they are, and ends stopped, continued or dead. **`ParentTold`**
  needs the check in `proc_exit`: the thread a stop still waits for may exit.
- **`NoLostSignal`**: needs `signal_retarget_shared` in `proc_exit` and wherever a
  mask grows; sigreturn has none (section 6).
- **`KilledEnds`**: a process whose threads have been killed ends although it was
  stopped or stopping, unless all it has left are threads in `hit`.
- **`StoppedByStop`, `ParentTold`, `NoLostSignal`** hold of everybody an interrupt
  did not meet between the last test and the sleep (`hit`), with such interrupts
  going on; `StopReachesAll` and `StopCompletes` need no exception.
- **`ImplementsAtomicFs`**: with `DurableConsistent` (the bitmap and the files agree
  after any crash) the main result about the journal. Without the rule that a
  freed block waits for the commit, a crash brings back a file with another
  file's contents.
- **`RecordExact`, `NeverHalfFreed`, `HeldOrFinished`**: a long delete or cut
  is on record exactly as long as it is unfinished, and its intermediate states never
  show a size whose blocks are gone, but for a cut of two blocks with a partial last
  one (`torn`), which loses that block and no more. A file that is open keeps its
  inode, but for an open that retains it after its last name has gone (`stale`).
- **`NoConflict`, `WaiterBlocked`**: a woken waiter has to look again, and every
  lock that goes or shrinks has to wake. **`CountsExact`**: charges follow the uid the
  lock was taken under, also through splits and changes of uid. **`OwnerDisjoint`**
  also says that every lock lies within the offsets there are.

## 5. Fairness

- Pipe: weak fairness of the continuation of a woken or faulting thread
  (`ReadResume`, `ReadCopied`, ...): a runnable thread runs (`sched_live`) and
  device reads end. None for new calls, closes or signals.
- Scheduler: strong fairness of a CPU's own progress, because interrupts may
  disable it again and again but do not come back to back for ever, and because
  the lock is not withheld from one CPU for ever; of the timer interrupts; and
  of the dispatch of each thread, which stands for vruntime: a thread that is
  passed over comes to have the least. That arithmetic is not modelled yet, so
  `RunnableRuns` is about wakeups, halts and kicks and not about shares.
- ProcLife: weak fairness, per slot but that of init, of dying and of the
  continuations of exit and wait. A thread in user mode takes a SIGKILL at its
  next timer interrupt.
- JobControl: strong fairness of what each thread does in the kernel or is made to
  do by a tick (`Kernel(t)`), because the lock may be held by others each time it
  looks but is not withheld for ever; weak fairness of the parent's way to sleep.
  None for sends, calls, events or exits. `KilledEnds` and `StopCompletes` rest on
  it.
- Journal, Orphans and FileLocks state safety only.

## 6. Where the code and its comments disagree

`orphan_leak` is the one with a run of its own (`findings` in `PROJECT.json`).
`x4_orphan_finish` clears `i_dtime` (`fs/ext2.c:3702`) before it frees blocks. If
freeing takes more than a transaction, the step commit writes the inode with the
link to the next orphan gone while `s_last_orphan` still names it. A crash then
loses the rest of the list, against "a crash in between neither leaks nor
half-frees them" (`fs/ext2.c:3534`). It takes an orphan file that is full or
missing, a truncate and a second crash during the mount. `RecordExact` and
`HeldOrFinished` except the inodes cut off (`cutoff`).

The others below are in the models, and the passing properties state them as
exceptions; the change that shows each is given.

- **Pipe copies.** `proc/pipe.h:21` says that the BKL keeps two readers apart across
  their copies. A copy that sleeps gives the CPU and the BKL away; two readers
  then copy the same bytes and both subtract them from `count`. *Show it:* two
  faulting readers in `MCPipe_spsc.cfg` violate `ByteStream`. `BytesInOrder` proves
  it where a copy that may sleep has no rival (`CopiesAlone`).
- **Futex deadline.** It is armed (`syscall.c:8485`) before the bucket loop; if the
  loop has to fault the page back in (`8513`) and that sleeps, `sleep_common`
  clears `wake_tick` (`scheduler.c:602`) and the wait then has no deadline, which
  `syscall.c:8438` calls critical. *Show it:* drop the case `fault2` from
  `TimeoutHonoured`.
- **Exit that sleeps.** `proc_exit` sets ZOMBIE (`scheduler.c:881`) before it closes
  the files (`894`); a close that sleeps overwrites the state, and the process
  ends RUNNING and is never reaped. *Show it:* drop `slept` from
  `ExitedReapable`.
- **Wait that sleeps.** `sys_waitpid` copies the status (`syscall.c:1467`) before it
  releases the zombie. If the copy sleeps, a second thread of the parent can
  return the same pid. *Show it:* drop the exception of `CollectedOnce`. Worse, the
  `proc_release(p)` after the copy (`1470`) is for the entry and not for the process: if
  the sibling has collected the child and the entry is by then that of a new child
  whose leader has exited before its threads, that leader is released. Its
  process can never be collected, and a sibling that waits for it sleeps on with no
  child. The attempt to prove `NoLostWait` found this; *show it:* `MAX_PROCS = 5`,
  `MaxPid = 6`, and `NoLostWait` without `~misfreed` (eleven steps).
- **init's wait.** When the last thread of a child of init is not its leader,
  `proc_exit` calls `reap_orphan_zombies` first (`scheduler.c:963`), which frees the
  leader; the wake of the parent at line 967 is then skipped and init may sleep in
  waitpid with no child left. `NoLostWait` states the exception.
- **Stop and interrupt.** `group_stop_participate` sets STOPPED, wakes the parent and
  calls `proc_stop_self`, which sets STOPPED again (`scheduler.c:629`). Interrupts
  are on there if the call slept before. A SIGCONT or SIGKILL sent by the timer
  (`ktimer.c:237`) or the keyboard (`keyboard.c:270`) in between is undone: the
  thread stays stopped, against "a stopped task can still be killed"
  (`signal.c`). A thread that tests for signals and sleeps again, and a parent that
  scans and sleeps again, have the same window. The properties except whoever was
  in it (`hit`) until it runs again. *Show it:* drop `hit` from `StoppedByStop` (8
  states), `NoLostSignal` (7), `ParentTold` (11) or `KilledEnds`.
- **Clone in a stop.** A thread asked to stop that is inside `clone` creates a thread
  with a blank `jobctl_stop`, which runs on in a process that should stop.
  *Show it:* `NThreads = 3`, `NStart = 2` and `StopReachesAll` without `late`.
- **sigreturn.** `sigreturn_restore` puts the old mask back without
  `signal_retarget_shared`, unlike every other place where a mask grows; a pending
  process-wide signal may then wait although a sleeping sibling would take it.
  *Show it:* drop `missed` from `NoLostSignal`.
- **Replay that fails.** A block write that fails in the replay (`ext2.c:5293`) only
  ends the loop over the tags; `ext2_jnl_recover` then empties the log and reports
  success, and the mount says that "the replay made it consistent" (`ext2.c:5702`).
  *Show it:* `ReplayWrites = {TRUE, FALSE}` violates `DurableConsistent`.
- **Close of a locked file.** `fd_release` drops the locks, then closes the node, which
  may sleep, and clears the descriptor last (`syscall.c:937`). A waiter that
  wakes in between finds its descriptor unchanged and takes a lock; two descriptors
  of one description that close together each see the other still open; a second
  close of the descriptor clears a slot reopened meanwhile. Each leaves a lock that
  "would belong to an owner nothing can release" (`flock.c:215`). *Show it:* drop
  `raced` from `NoStrandedLock`; with `CloseSleeps = FALSE` it holds without.
- **Truncate by two blocks.** `ext2_truncate` records a cut only if
  `new / bs + 1 < size / bs` (`ext2.c:5483`), rounded down; a cut from two blocks and
  a half to one frees two blocks and is not recorded. If a step commits between them
  (`1889`) the file is durable with its old size and its last block gone, against
  "neither leaks nor half-frees them" (`3534`). *Show it:* drop the case `torn` from
  `NeverHalfFreed` (3 states).
- **Open of a file that goes.** `sys_open_kernel_path` looks the file up
  (`syscall.c:1587`), truncates it if asked (`1681`), which waits for `fs->lock`
  asleep, and retains it last (`1708`); `ext2_retain_node` takes no lock and looks
  at nothing. An unlink that has the lock meanwhile finds no reference and frees the
  inode; the open then holds a freed inode, which a new file may get. *Show it:* drop
  `stale` from `HeldOrFinished` (8 states).
- FUTEX_WAIT does not look for a pending signal before it sleeps, as pipes and
  waitpid do.
- A futex waiter woken by a process-wide signal that a sibling takes first returns
  0; the comment at `syscall.c:8530` excludes a 0 without a wake.
- `futex_wake_n` compares 32-bit sleep numbers with `<`; after 2^32 sleeps the
  newest sleeper counts as the oldest.
- The comment over the idle halt (`scheduler.c:408`) admits no wakeup that is
  neither scanned nor kicked; the window before the `cli` is one. The thread then
  waits for the rescan, which the comment at line 420 allows for.
- F_SETLKW does not detect cycles of waits (EDEADLK), and `fid_in_use` does not see
  descriptors in flight in a unix socket.

## 7. Proofs

All proofs are for arbitrary sets of CPUs and threads and arbitrary bounds, from
the named assumption of each module (`BklAssumption`, `SchedAssumption`,
`TlbAssumption`, `PipeAssumption`, `FutexAssumption`, `ProcAssumption`,
`JobControlAssumption`, `FileLocksAssumption`, `OrphansAssumption`,
`JournalAssumption`), which TLC evaluates in the runs. Each is the usual argument: an invariant that holds initially and that every action
preserves, with one lemma per action or group of actions.

- **BklProofs.** `Exclusion` alone is not inductive: whether a CPU may go on
  depends on frames below the top one. The invariant adds `Chain` (each frame's
  recorded level is what the frame below it implies, so the depth of a context is
  the number of its frames past their increment and before their decrement),
  `Runs` (no two CPUs run the same context), `Parked` (a switched-out thread
  keeps the depth it left with), `Masked` (between taking the word and counting
  it, interrupts are off), `Depth` (a CPU's depth is its running context's) and
  `Word` (the word names a CPU exactly while that CPU's depth is positive or it is
  between the two instructions). Theorems: `BklInv`, `TypeCorrect`,
  `MutualExclusion`, `SelfDeadlockFree`, `NeverHeldOutside`.
- **SchedulerProofs.** The invariant ties a CPU's place to the lock (`LockOK`),
  its thread (`ProcOK`, `RunOK`, `OneOK`), its idle flag (`IdleOK`) and its
  return address (`RetOK`). Its heart is `EmptyOK`: while a CPU that found
  nothing still holds the lock, every runnable thread outside `late` has another
  CPU that will see it, so publishing `idle` loses none. `DeadOK`: an entry that
  is free or a zombie holds no slots. Theorems: `SchedInv`, `TypeCorrect`,
  `ThreadsOnOneCpu`, `KicksNotLost`, `NoneForgotten`, `SlotsStayHome`.
- **PipeFutexProofs, Pipe.** `NoLostWakeup` is inductive with the types: every action that
  makes a condition true wakes its queue in the same step. `NoUseAfterFree` and
  `NoLeak` are proved together (`Life`), with the pins equal to the number of
  threads inside a call; that count is why the lemmas about finite sets are
  needed. `ByteStream` needs to know what the ring holds: `Stream` says that
  the cell at distance *i* from `head` holds the byte *i* after the last one read,
  and, of each call in progress, that the position it took before its copy is
  still the one the copy is for (`CallOK`). The second is false when a copy sleeps
  and a rival moves `head` or `count`, hence the hypothesis `CopiesAlone` of
  `BytesInOrder`: a thread that may fault is the only one on its side. It is
  satisfied by every pipe between two processes and by any number of threads with
  resident buffers. Theorems: `TypeCorrect`, `WakeupsNotLost`,
  `NeverUsedAfterFree`, `NeverLeaked`, `BytesInOrder`.
- **PipeFutexProofs, Futex.** The invariant adds `WokenOK`: a thread whose sleep a FUTEX_WAKE
  ended still has `futex_wait = 2` when it runs, from which the action property
  follows. That the deadline is armed whenever a timed wait sleeps is a property
  of single steps from the same invariant. Theorems: `FutexTypeCorrect`,
  `WakesNotLost`, `CountedWakesReturnZero`, `DeadlinesArmed`.
- **TlbProofs.** Generations wrap, so they are compared by `Back`, their distance
  back from the newest request of the CPU they belong to. `LagWanted`: each
  generation not acknowledged is wanted by a sender that still waits for it; as a
  sender wants one of each CPU there are at most as many as CPUs
  (`RequestsBounded`), and the wrapped comparison agrees with the distance.
  `FlushAhead`: a translation that is no longer in the page table has a flush ahead
  of it that a sender waits for, and it is the sender that frees the frame.
  `SampleOrder`: an acknowledgement never goes back.
  `InSpace`: a CPU outside the address space has nothing cached.
  `WaitedForServes` needs more, `ServeInv`. `IpiAhead`: where a sender has sent its
  IPI and its request is not acknowledged, an IPI is pending, its own or the one it
  was merged with, or the CPU is serving with a sample that covers the request; an
  acknowledgement of an older sample therefore leaves an IPI behind. `SendsBound`
  and `WantOrder` keep every generation in use within the number of shootdowns of
  the newest, so that a comparison that says "behind" means a request that is open
  (hypothesis `MaxSends < GEN \div 2`). Theorems: `TlbInv`, `TypeCorrect`,
  `FramesNotStale`, `RequestsBounded`, `WaitsAreServed`.
- **FileLocksProofs.** The walk of `unlock_range` is an operation on the set of
  locks: every lock afterwards is one that was there or a part of one, of the same
  owner and kind, so it can bring no conflict; and at most one lock is split in two,
  because an owner's locks lie apart. That also gives the counts: what is left
  stands in one-to-one correspondence with the locks that were there, but for the
  one split, which the code charges for. For `NoStrandedLock` the invariant says
  that a lock's owner has a descriptor that is not being closed or is in `raced`,
  and that the request of a waiter belongs to a table in use. Theorems:
  `FileLocksInv`, `TypeCorrect`, `LocksCompatible`, `OwnersApart`, `CountsRight`,
  `WaitersBlocked`, `NoneStranded`.
- **JobControlProofs.** `Where` ties a thread's place to its state and to the lock;
  `StopHeld`, `Told` and `AllHeard` are `StoppedByStop`, `ParentTold` and
  `NoLostSignal` with what they need of a thread between its test for a signal and
  its sleep (`SleepTested`). None of the theorems has a hypothesis: interrupts that
  send are steps like the others, and `hit` is the exception the properties
  themselves state. `Stopping` is what makes `ParentTold` survive them: a group whose
  last thread is on its way into the halt counts as stopped for the parent already,
  because `proc_stop_self` will make it so whatever an interrupt does to its state.
  Theorems: `TypeCorrect`, `StopsReachAll`, `StopsHold`, `ParentIsTold`,
  `SignalsHeard`.
- **ProcLifeProofs.** An exit works through the whole table (kill the siblings, die,
  move the children, free orphans, wake the parent, free itself), so it is cut
  into stages, and the invariant of the table, `Base`, may be open at one entry,
  that of the thread on its way out. `NextSteps` then shows that every step is one
  of six kinds: nothing is born or dies (`StepQuiet`), a creation, a collection,
  the end of a copy, an exit, an exit that goes to sleep in a close; the properties are
  proved from these. `Evolves` says what no step does: revive a zombie, or add a
  thread to a group that is gone. From it follow `CopyOK` and `ToldOK`, and
  `WaitsOnce`; `StatusOK` adds that a leader's `group_exit` and status are those
  of `final`; `Tree` (every thread has its leader's entry, every parent is a leader,
  what can be collected has no children) is what `NoLostWait` needs and what
  releasing a wrong entry would destroy, hence `misfreed`. Theorems: `LifeInvariant`,
  `TypeCorrect`, `ExitsReapable`, `FreedWhenGone`, `WaitsOnce`, `StatusesRight`,
  `NoWaitLost`.
- **Ext2Proofs, Orphans.** The list runs through the inodes, so what an operation on it
  does is a fact about reachability. `Chain` is the least set with the head in it
  that the links do not leave; every lemma about it exhibits such a set, and
  `WellFormed` says locally that the list is a path (no member points at the head,
  no two at the same inode, none is in a slot as well). With it `x4_orphan_add`
  and `x4_orphan_del` put exactly one inode on the record and take exactly one off.
  `Good` (well formed, complete, no freed inode, whole files) holds of the durable
  metadata and of `Mended`, the current ones with the link put back that a cut of
  the mount has erased from its inode before the list has moved on; without the
  mending it is false in the middle of that cut, which is the code's defect
  (section 6), and `cutoff` collects what a crash there loses. `CopyOK` and `JobOK`
  tie the inode in memory to the one on the disk and say how far an unrecorded cut
  can be from its size (`FitsSize`), `OpenOK` says who else may be on the record
  outside a mount (`HeldInodes`: unlinked files that are open or about to be
  released), `MountOK` how far the mount has come. Theorems: `OrphansTypeCorrect`,
  `RecordIsExact`, `NothingHalfFreed`, `OrphansHeldOrFinished`.
- **Ext2Proofs, Journal.** The proofs start with what the log's operators compute.
  `Written(L, w, s, n)` says that the first *n* records of the log are those of the
  image of transaction *w* with number *s*, `NoCommit(L, s)` that no commit block
  of *s* or a later one is in the log. `ScanNoCommit`: in such a log the scan ends
  where it started and replays nothing, whatever descriptors and old copies lie
  there. `ScanFull`: over a whole image it gives back exactly *w*, descriptor by
  descriptor. Both are inductions over the rounds of the scan, written as the least
  round that would contradict the lemma (`LeastNat`). `TxFits` bounds the image by
  the log, `OverlayIs` and its companions say what a replay on top of a partly
  written checkpoint gives.
  The invariant `JnlInv` is then `LogOK` (no transaction from the superblock's on is
  complete in the log, or exactly that one is), the place of the writer against
  superblock, log, disk and mount (`JsbAt`, `LogAt`, `CkptAt`, `ReplayAt`, `OpAt`),
  `Settled` (between operations the metadata is consistent, and a block that a mount
  would find in use is in use or among the freed ones) and `OpOK`: there is
  consistent metadata *M* to which the steps left lead (`Leads`), which is what the
  operation is to do (`Effect`), and the blocks that a mount would find in use are
  used in *M*, freed, or about to be (`Covered`). `Settled` and `Covered` are what
  make a write in place safe, and need that `FreeBlocks` leaves out `freed`.
  The refinement goes action by action: the `Begin` actions are the abstract
  `Start`, `StepData` is `WriteData`, `EndOp` is `Finish`, the last `LogWrite` is
  `Commit`, `StepFails` is `Abort`, `CommitFails` is `Abort`, or `Commit` when the
  commit block reached the disk all the same, `PowerCut` is `Crash`, `Mounted` is
  `Mount`; everything else, all of checkpoint and replay with it, stutters.
  The theorems have the hypothesis `ReplayWrites \subseteq {TRUE}`: a block write of
  the replay does not fail. Without it they are false, because the code empties the
  log regardless (section 6). Theorems: `JnlInvariant`, `JnlTypeCorrect`,
  `DurablyConsistent`, `JournalImplementsAtomicFs`.

**Only model-checked:** liveness (`RunnableRuns`, `BlockedCallsEnd`,
`GroupExitEnds`, `KilledEnds`, `StopCompletes`), which this prover does not do. Every
invariant and every action property of the passing runs is proved.

## 8. What is not modelled

Register programming, parsing of on-disk and on-wire layouts, formatting (procfs,
printk) and profiling have no protocol between actors. Vendored code (lwIP,
uACPI, limine, toybox), the ports and user space are most of the repository's
lines and not the kernel's own logic. Of ext4, extents and directories are
layout; the journal and the orphans are what a crash can catch. The rest of the
table in section 2 is planned.

## 9. Plan

In this order:

1. Kernel locks: `kmutex` with its hand-over and wait queue, shown to implement
   an abstract mutex; the lock-order graph against reachability.
2. AP start-up: the hand-shake on `boot_state` and its timeout, in front of
   TlbShootdown.
3. Frame reference counts with fork and copy-on-write; unix socket reference
   counts and the collection of passed descriptors; SysV semaphores with undo;
   poll and epoll.
4. vruntime: bounded unfairness, to replace the dispatch fairness of Scheduler.
