----------------------------- MODULE Scheduler ------------------------------
(***************************************************************************)
(* The per-CPU scheduler loop and its idle halt (proc/scheduler.c), the    *)
(* wakeups and reschedule IPIs that reach it, and the interrupts that run  *)
(* in between (arch/i686/cpu/irq.c).                                       *)
(*                                                                         *)
(* Kernel code runs under the Big Kernel Lock and is never preempted, so   *)
(* a CPU's step is what it does up to the next point where an interrupt,   *)
(* or another CPU, can see the difference.  The idle halt is off the lock  *)
(* and is modelled test by test.                                           *)
(*                                                                         *)
(* pc[c], where CPU c is:                                                  *)
(*   acquire  bkl_acquire at the loop's entry or after the idle halt       *)
(*   loop     top of scheduler_start's loop                                *)
(*   pick     need_resched cleared, about to scan the table                *)
(*   empty    the scan found nothing, idle not yet published               *)
(*   test     idle, interrupts off, about to test need_resched             *)
(*   halt     idle, in hlt                                                 *)
(*   kern     a thread in kernel mode; user: a thread in user mode         *)
(*   park     the thread has set its state and is about to swtch           *)
(*   irq      an interrupt handler; ret[c] is where it returns to          *)
(*                                                                         *)
(* Which eligible thread a scan prefers is its vruntime's business and is  *)
(* left open here, and so is which busy CPU a wakeup preempts.             *)
(***************************************************************************)
EXTENDS Integers

CONSTANTS
    CPUs, Threads,
    BSP,            \* the boot CPU: it alone counts PIT ticks
    None,           \* no CPU, no thread, nowhere to return to
    Rescan          \* SCHED_IDLE_RESCAN, in ticks

IdlePC == {"test", "halt"}
SchedPC == {"loop", "pick", "empty"}
ThreadPC == {"kern", "park", "user"}
PCs == {"acquire", "irq"} \cup IdlePC \cup SchedPC \cup ThreadPC

ASSUME SchedAssumption ==
    /\ BSP \in CPUs
    /\ None \notin CPUs \cup Threads \cup PCs
    /\ Rescan \in Nat \ {0}

VARIABLES
    g_bkl,          \* the CPU that holds the Big Kernel Lock, or None
    pc, ret,
    proc,           \* cpus[c].proc: the thread on CPU c (its on_cpu), or None
    idle,           \* the CPUs whose idle flag is set
    need_resched,   \* the CPUs whose need_resched flag is set
    ipi,            \* the CPUs with a reschedule IPI not yet taken
    ticks,          \* pit_ticks() since CPU c went idle, up to Rescan
    state,          \* p->state
    kmap,           \* p->kmap_cpu: the CPU whose temp-map slots p holds
    late            \* auxiliary: threads woken by an interrupt of a CPU that
                    \* had scanned and not yet published idle

vars == <<g_bkl, pc, ret, proc, idle, need_resched, ipi, ticks, state, kmap, late>>

(* Where interrupts are on.                                                *)
Interruptible == PCs \ {"test", "irq"}

States == {"UNUSED", "RUNNABLE", "RUNNING", "SLEEPING", "STOPPED", "ZOMBIE"}

TypeOK ==
    /\ g_bkl \in CPUs \cup {None}
    /\ pc \in [CPUs -> PCs]
    /\ ret \in [CPUs -> Interruptible \cup {None}]
    /\ proc \in [CPUs -> Threads \cup {None}]
    /\ idle \subseteq CPUs
    /\ need_resched \subseteq CPUs
    /\ ipi \subseteq CPUs
    /\ ticks \in [CPUs -> 0..Rescan]
    /\ state \in [Threads -> States]
    /\ kmap \in [Threads -> CPUs \cup {None}]
    /\ late \subseteq Threads

(* main.c enters the loop with the lock; the APs come in through           *)
(* bkl_acquire.  One thread, init, is runnable.                            *)
Init ==
    /\ g_bkl = BSP
    /\ pc = [c \in CPUs |-> IF c = BSP THEN "loop" ELSE "acquire"]
    /\ ret = [c \in CPUs |-> None]
    /\ proc = [c \in CPUs |-> None]
    /\ idle = {} /\ need_resched = {} /\ ipi = {} /\ late = {}
    /\ ticks = [c \in CPUs |-> 0]
    /\ \E t \in Threads :
         state = [u \in Threads |-> IF u = t THEN "RUNNABLE" ELSE "UNUSED"]
    /\ kmap = [t \in Threads |-> None]

Goto(c, p) == pc' = [pc EXCEPT ![c] = p]
SetState(t, s) == state' = [state EXCEPT ![t] = s]

-----------------------------------------------------------------------------
(* Asking a CPU to reschedule.                                             *)

(* Mutant: the flag alone, as for a CPU that polls.                        *)
reschedCpuNoIpi(self, c) ==
    /\ need_resched' = need_resched \cup {c}
    /\ UNCHANGED ipi

(* resched_cpu: an IPI only with the flag's first setting, and only to     *)
(* another CPU.                                                            *)
resched_cpu(self, c) ==
    /\ need_resched' = need_resched \cup {c}
    /\ ipi' = IF c \in need_resched \/ c = self THEN ipi ELSE ipi \cup {c}

NoKick == UNCHANGED <<need_resched, ipi>>

Unkicked == idle \ need_resched

(* sched_kick_idle: one idle CPU not asked yet.                            *)
sched_kick_idle(self) ==
    IF Unkicked = {} THEN NoKick
    ELSE \E c \in Unkicked : resched_cpu(self, c)

(* sched_wakeup: a thread that holds temp-map slots can run on their CPU   *)
(* only; another goes to this CPU if idle, else to an idle one, else it    *)
(* may preempt one of the threads that run.                                *)
sched_wakeup(self, t) ==
    IF kmap[t] # None
    THEN IF kmap[t] \in idle THEN resched_cpu(self, kmap[t]) ELSE NoKick
    ELSE IF self \in idle
    THEN need_resched' = need_resched \cup {self} /\ UNCHANGED ipi
    ELSE IF Unkicked # {}
    THEN \E c \in Unkicked : resched_cpu(self, c)
    ELSE \/ NoKick
         \/ \E c \in CPUs : proc[c] \notin {None, t} /\ resched_cpu(self, c)

(* sched_make_runnable.                                                    *)
sched_make_runnable(self, t) ==
    /\ SetState(t, "RUNNABLE")
    /\ late' = IF ret[self] = "empty" THEN late \cup {t} ELSE late
    /\ sched_wakeup(self, t)

-----------------------------------------------------------------------------
(* scheduler_start.                                                        *)

Acquire(c) ==
    /\ pc[c] = "acquire" /\ g_bkl = None
    /\ g_bkl' = c
    /\ idle' = idle \ {c}
    /\ Goto(c, "loop")
    /\ UNCHANGED <<ret, proc, need_resched, ipi, ticks, state, kmap, late>>

LoopTop(c) ==
    /\ pc[c] = "loop"
    /\ need_resched' = need_resched \ {c}
    /\ Goto(c, "pick")
    /\ UNCHANGED <<g_bkl, ret, proc, idle, ipi, ticks, state, kmap, late>>

(* Mutant: a thread that holds temp-map slots is anyone's.                 *)
EligibleAnywhere(c, t) ==
    state[t] = "RUNNABLE" /\ \A d \in CPUs : proc[d] # t

(* What sched_pick considers: runnable, not on a CPU, and not bound to     *)
(* another CPU by the temp-map slots it holds.                             *)
Eligible(c, t) ==
    /\ state[t] = "RUNNABLE"
    /\ \A d \in CPUs : proc[d] # t
    /\ kmap[t] \in {None, c}

Dispatch(c, t) ==
    /\ pc[c] = "pick" /\ Eligible(c, t)
    /\ proc' = [proc EXCEPT ![c] = t]
    /\ SetState(t, "RUNNING")
    /\ late' = late \ {t}
    /\ Goto(c, "kern")
    /\ UNCHANGED <<g_bkl, ret, idle, need_resched, ipi, ticks, kmap>>

PickNone(c) ==
    /\ pc[c] = "pick" /\ \A t \in Threads : ~Eligible(c, t)
    /\ Goto(c, "empty")
    /\ UNCHANGED <<g_bkl, ret, proc, idle, need_resched, ipi, ticks, state, kmap, late>>

(* Mutant: the lock is released first and idle published after.            *)
GoIdleNotPublished(c) ==
    /\ pc[c] = "empty"
    /\ g_bkl' = None
    /\ ticks' = [ticks EXCEPT ![c] = 0]
    /\ Goto(c, "test")
    /\ UNCHANGED <<ret, proc, idle, need_resched, ipi, state, kmap, late>>

(* cli; idle = 1; bkl_release.                                             *)
GoIdle(c) ==
    /\ pc[c] = "empty"
    /\ idle' = idle \cup {c}
    /\ g_bkl' = None
    /\ ticks' = [ticks EXCEPT ![c] = 0]
    /\ Goto(c, "test")
    /\ UNCHANGED <<ret, proc, need_resched, ipi, state, kmap, late>>

(* Mutant: no periodic rescan.                                             *)
TestNoRescan(c) ==
    /\ pc[c] = "test"
    /\ Goto(c, IF c \in need_resched THEN "acquire" ELSE "halt")
    /\ UNCHANGED <<g_bkl, ret, proc, idle, need_resched, ipi, ticks, state, kmap, late>>

(* The while condition; sti's shadow covers the hlt.                       *)
Test(c) ==
    /\ pc[c] = "test"
    /\ Goto(c, IF c \in need_resched \/ ticks[c] = Rescan THEN "acquire" ELSE "halt")
    /\ UNCHANGED <<g_bkl, ret, proc, idle, need_resched, ipi, ticks, state, kmap, late>>

(* irq_idle_fast: an idle CPU takes its own LAPIC tick and the reschedule  *)
(* IPI without the lock.  The BSP's tick is the PIT, which is not one.     *)
IdleTick(c) ==
    /\ pc[c] = "halt" /\ c # BSP
    /\ Goto(c, "test")
    /\ UNCHANGED <<g_bkl, ret, proc, idle, need_resched, ipi, ticks, state, kmap, late>>

IdleIpi(c) ==
    /\ c \in idle /\ c \in ipi /\ pc[c] \in {"halt", "acquire"}
    /\ ipi' = ipi \ {c}
    /\ Goto(c, IF pc[c] = "halt" THEN "test" ELSE "acquire")
    /\ UNCHANGED <<g_bkl, ret, proc, idle, need_resched, ticks, state, kmap, late>>

(* The thread on c has switched back to the loop.  One that exited is      *)
(* released now that its stack is no longer in use, unless it is a leader. *)
SwitchOut(c) ==
    /\ pc[c] = "park"
    /\ proc' = [proc EXCEPT ![c] = None]
    /\ \/ UNCHANGED state
       \/ state[proc[c]] = "ZOMBIE" /\ SetState(proc[c], "UNUSED")
    /\ Goto(c, "loop")
    /\ UNCHANGED <<g_bkl, ret, idle, need_resched, ipi, ticks, kmap, late>>

-----------------------------------------------------------------------------
(* A thread in kernel mode.                                                *)

(* A syscall or an exception.                                              *)
TrapIn(c) ==
    /\ pc[c] = "user" /\ g_bkl = None
    /\ g_bkl' = c
    /\ Goto(c, "kern")
    /\ UNCHANGED <<ret, proc, idle, need_resched, ipi, ticks, state, kmap, late>>

(* Back to user mode, or back to the scheduler if a switch was asked for   *)
(* (sched_irq_exit and sched_preempt, reached through resched_on_return).  *)
ExitToUser(c) ==
    /\ IF c \in need_resched
       THEN /\ need_resched' = need_resched \ {c}
            /\ SetState(proc[c], "RUNNABLE")
            /\ Goto(c, "park")
            /\ UNCHANGED g_bkl
       ELSE /\ g_bkl' = None
            /\ Goto(c, "user")
            /\ UNCHANGED <<need_resched, state>>
    /\ UNCHANGED <<proc, idle, ipi, ticks, kmap, late>>

ReturnToUser(c) ==
    /\ pc[c] = "kern" /\ kmap[proc[c]] = None
    /\ ExitToUser(c)
    /\ UNCHANGED ret

(* sleep_common, yield, proc_stop_self and proc_exit set the state and     *)
(* switch out.  The last two are reached with no temp-map slot held.       *)
Leave(c, s) ==
    /\ pc[c] = "kern"
    /\ s \in {"STOPPED", "ZOMBIE"} => kmap[proc[c]] = None
    /\ SetState(proc[c], s)
    /\ Goto(c, "park")
    /\ UNCHANGED <<g_bkl, ret, proc, idle, need_resched, ipi, ticks, kmap, late>>

sleep_common(c) == Leave(c, "SLEEPING")
yield(c) == Leave(c, "RUNNABLE")
proc_stop_self(c) == Leave(c, "STOPPED")
proc_exit(c) == Leave(c, "ZOMBIE")

(* Mutant: the wake looks at the channel and not at the state.             *)
KernWakeAnyState(c, t) ==
    /\ pc[c] = "kern" /\ state[t] # "UNUSED"
    /\ sched_make_runnable(c, t)
    /\ UNCHANGED <<g_bkl, pc, ret, proc, idle, ticks, kmap>>

(* wake_up, wake_up_n, a signal, SIGCONT: each thread they wake.           *)
KernWake(c, t) ==
    /\ pc[c] = "kern" /\ state[t] \in {"SLEEPING", "STOPPED"}
    /\ sched_make_runnable(c, t)
    /\ UNCHANGED <<g_bkl, pc, ret, proc, idle, ticks, kmap>>

(* fork, clone, a new kernel thread.                                       *)
Fork(c, t) ==
    /\ pc[c] = "kern" /\ state[t] = "UNUSED"
    /\ SetState(t, "RUNNABLE")
    /\ sched_kick_idle(c)
    /\ UNCHANGED <<g_bkl, pc, ret, proc, idle, ticks, kmap, late>>

(* proc_release of a zombie leader, by its parent's waitpid.               *)
Release(c, t) ==
    /\ pc[c] = "kern" /\ state[t] = "ZOMBIE" /\ \A d \in CPUs : proc[d] # t
    /\ SetState(t, "UNUSED")
    /\ UNCHANGED <<g_bkl, pc, ret, proc, idle, need_resched, ipi, ticks, kmap, late>>

(* paging_temp_map and paging_temp_unmap of a thread's slots.              *)
TempMap(c) ==
    /\ pc[c] = "kern"
    /\ kmap' = [kmap EXCEPT ![proc[c]] = IF kmap[proc[c]] = None THEN c ELSE None]
    /\ UNCHANGED <<g_bkl, pc, ret, proc, idle, need_resched, ipi, ticks, state, late>>

-----------------------------------------------------------------------------
(* Interrupts that take the lock.                                          *)

(* irq_common_stub: a device, the tick of a CPU that is not idle, or the   *)
(* reschedule IPI to one.                                                  *)
IrqEnter(c) ==
    /\ pc[c] \in Interruptible /\ g_bkl \in {None, c}
    /\ g_bkl' = c
    /\ ret' = [ret EXCEPT ![c] = pc[c]]
    /\ Goto(c, "irq")
    /\ ipi' \in {ipi, IF c \in idle THEN ipi ELSE ipi \ {c}}
    /\ UNCHANGED <<proc, idle, need_resched, ticks, state, kmap, late>>

(* A handler, or a deadline that scheduler_tick finds expired, or a signal *)
(* from ktimer_tick wakes a sleeper.                                       *)
IrqWake(c, t) ==
    /\ pc[c] = "irq" /\ state[t] = "SLEEPING"
    /\ sched_make_runnable(c, t)
    /\ UNCHANGED <<g_bkl, pc, ret, proc, idle, ticks, kmap>>

(* The BSP's timer advances pit_ticks().                                   *)
PitTick ==
    /\ pc[BSP] = "irq"
    /\ ticks' = [c \in CPUs |-> IF c \in idle /\ ticks[c] < Rescan THEN ticks[c] + 1 ELSE ticks[c]]
    /\ UNCHANGED <<g_bkl, pc, ret, proc, idle, need_resched, ipi, state, kmap, late>>

(* scheduler_tick: the slice is used up and another thread can run.        *)
SliceTick(c) ==
    /\ pc[c] = "irq" /\ proc[c] # None
    /\ \E t \in Threads : state[t] = "RUNNABLE"
    /\ need_resched' = need_resched \cup {c}
    /\ UNCHANGED <<g_bkl, pc, ret, proc, idle, ipi, ticks, state, kmap, late>>

(* The end of irq_handler: sched_irq_exit if it interrupted user mode; the *)
(* lock is given back unless the interrupted code held it.                 *)
IrqExit(c) ==
    /\ pc[c] = "irq"
    /\ ret' = [ret EXCEPT ![c] = None]
    /\ IF ret[c] = "user" THEN ExitToUser(c)
       ELSE /\ Goto(c, IF ret[c] = "halt" THEN "test" ELSE ret[c])
            /\ g_bkl' = IF ret[c] \in {"halt", "acquire"} THEN None ELSE g_bkl
            /\ UNCHANGED <<proc, idle, need_resched, ipi, ticks, state, kmap, late>>

-----------------------------------------------------------------------------
CpuStep(c) ==
    \/ Acquire(c) \/ LoopTop(c) \/ PickNone(c) \/ GoIdle(c) \/ Test(c)
    \/ IdleTick(c) \/ IdleIpi(c) \/ SwitchOut(c)
    \/ TrapIn(c) \/ ReturnToUser(c) \/ sleep_common(c) \/ yield(c)
    \/ proc_stop_self(c) \/ proc_exit(c) \/ TempMap(c)
    \/ IrqEnter(c) \/ SliceTick(c) \/ IrqExit(c)

CpuThreadStep(c, t) ==
    \/ Dispatch(c, t) \/ KernWake(c, t) \/ Fork(c, t) \/ Release(c, t) \/ IrqWake(c, t)

Next ==
    \/ \E c \in CPUs : CpuStep(c)
    \/ \E c \in CPUs, t \in Threads : CpuThreadStep(c, t)
    \/ PitTick

Spec == Init /\ [][Next]_vars

(* Every CPU keeps executing: interrupts do not come back to back for      *)
(* ever, kernel code ends in a return, a sleep or an exit, and the lock is *)
(* not withheld from one CPU for ever.                                     *)
LeaveKern(c) == ReturnToUser(c) \/ sleep_common(c) \/ yield(c) \/ proc_exit(c)

Proceed(c) ==
    \/ Acquire(c) \/ LoopTop(c) \/ PickNone(c) \/ \E t \in Threads : Dispatch(c, t)
    \/ GoIdle(c) \/ Test(c) \/ IdleTick(c) \/ SwitchOut(c) \/ LeaveKern(c)

(* The timers tick; and a runnable thread that is passed over again and    *)
(* again comes to have the least vruntime.                                 *)
Fairness ==
    /\ \A c \in CPUs :
         SF_vars(Proceed(c)) /\ SF_vars(IrqEnter(c)) /\ WF_vars(IrqExit(c)) /\ SF_vars(SliceTick(c))
    /\ SF_vars(PitTick)
    /\ \A t \in Threads : SF_vars(\E c \in CPUs : Dispatch(c, t))

FairSpec == Spec /\ Fairness

-----------------------------------------------------------------------------
(* No thread is on two CPUs, and the thread on a CPU is RUNNING until it   *)
(* has set another state itself: a wakeup that finds it on its way out     *)
(* (asleep but not switched out yet) never lets a second CPU pick it.      *)
OneCpuPerThread ==
    \A c \in CPUs : proc[c] # None =>
        /\ \A d \in CPUs \ {c} : proc[d] # proc[c]
        /\ pc[c] \in {"kern", "user"} => state[proc[c]] = "RUNNING"

(* "Interrupts stay off from the need_resched test to the hlt, so a kick   *)
(* cannot slip in between and leave us halted": a halted CPU that has been *)
(* asked to reschedule has the IPI coming.                                 *)
NoLostKick ==
    \A c \in CPUs : pc[c] = "halt" /\ c \in need_resched => c \in ipi

(* A CPU in the idle halt that nobody has asked to look again.             *)
Dozing(c) == c \notin need_resched /\ (pc[c] \in IdlePC \/ ret[c] = "halt")

Home(t) == IF kmap[t] = None THEN CPUs ELSE {kmap[t]}

(* A runnable thread is never left to CPUs that all sleep unasked: the     *)
(* waker kicked one of those that may run it, or one of them is up and     *)
(* will scan.  The exception are the threads in `late', woken by an        *)
(* interrupt between an empty scan and the publication of idle, which      *)
(* happens with interrupts on; RunnableRuns shows what becomes of them.    *)
NoForgottenThread ==
    \A t \in Threads : state[t] = "RUNNABLE" =>
        t \in late \/ \E c \in Home(t) : ~Dozing(c)

(* A thread that holds temp-map slots and is on a CPU is on the CPU whose  *)
(* slots they are.                                                         *)
PinnedAtHome ==
    \A c \in CPUs : proc[c] # None => kmap[proc[c]] \in {None, c}

(* "a thread made runnable without a kick costs latency, never a hang".    *)
RunnableRuns ==
    \A t \in Threads : state[t] = "RUNNABLE" ~> state[t] # "RUNNABLE"

=============================================================================
