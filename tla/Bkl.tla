-------------------------------- MODULE Bkl ---------------------------------
(***************************************************************************)
(* The Big Kernel Lock (arch/i686/cpu/bkl.c) under the traps that take it  *)
(* (isr.asm) and the scheduler that carries its depth from thread to       *)
(* thread (proc/scheduler.c).                                              *)
(*                                                                         *)
(* The lock word and a CPU's depth are two objects, so bkl_enter and       *)
(* bkl_leave are modelled instruction by instruction, with the CPU's       *)
(* interrupt flag: wherever the flag is on, an interrupt may push another  *)
(* trap frame, which runs its own bkl_enter and bkl_leave.                 *)
(*                                                                         *)
(* A context is a thread or a CPU's scheduler loop; its kernel stack is a  *)
(* stack of frames.  A frame has                                           *)
(*   kind  "user": the thread itself, "loop": the scheduler loop,          *)
(*         "trap": a syscall or exception, "irq": a hardware interrupt     *)
(*   pc    where it is (see the actions)                                   *)
(*   fl    the interrupt flag saved by pushf in bkl_enter or bkl_leave     *)
(*   ret   the interrupt flag its iret restores                            *)
(*   lvl   auxiliary: the lock's depth when the frame was pushed           *)
(***************************************************************************)
EXTENDS Integers

CONSTANTS
    CPUs, Threads,
    BSP,        \* the boot CPU: enters its scheduler loop with the lock
    NoCPU,
    MaxNest     \* bound: frames on one kernel stack

ASSUME BklAssumption ==
    /\ BSP \in CPUs
    /\ NoCPU \notin CPUs
    /\ CPUs \cap Threads = {}
    /\ MaxNest \in Nat /\ MaxNest >= 2

VARIABLES
    g_bkl,      \* the CPU that set the lock word, or NoCPU
    bkl_depth,  \* cpus[c].bkl_depth
    IF_,        \* the interrupt flag of each CPU
    running,    \* the context each CPU executes: a thread, or c for its loop
    p_depth,    \* p->bkl_depth of a thread that is switched out
    sp, stk     \* the kernel stack of each context, and its top

vars == <<g_bkl, bkl_depth, IF_, running, p_depth, sp, stk>>

Ctxs == CPUs \cup Threads

Frame(k, p, f, r, l) == [kind |-> k, pc |-> p, fl |-> f, ret |-> r, lvl |-> l]
Blank == Frame("none", "none", FALSE, FALSE, 0)

Top(x) == stk[x][sp[x]]
Cur(c) == Top(running[c])
At(c, p) == Cur(c).pc = p

(* Where a frame goes on once bkl_enter or bkl_leave returns.              *)
AfterEnter(k) == IF k = "loop" THEN "sched" ELSE "body"
AfterLeave(k) == IF k = "loop" THEN "idle" ELSE IF k = "user" THEN "user" ELSE "iret"

(* The top frame of c moves to p, with saved flag f.                       *)
Go(c, p, f) ==
    LET x == running[c] IN
    stk' = [stk EXCEPT ![x][sp[x]] = Frame(Cur(c).kind, p, f, Cur(c).ret, Cur(c).lvl)]

(* A trap pushes a frame that starts at bkl_enter.                         *)
Push(c, k) ==
    LET x == running[c] IN
    /\ sp[x] < MaxNest
    /\ sp' = [sp EXCEPT ![x] = sp[x] + 1]
    /\ stk' = [stk EXCEPT ![x][sp[x] + 1] = Frame(k, "enter", FALSE, IF_[c], bkl_depth[c])]

Init ==
    /\ g_bkl = BSP
    /\ bkl_depth = [c \in CPUs |-> IF c = BSP THEN 1 ELSE 0]
    /\ IF_ = [c \in CPUs |-> FALSE]
    /\ running = [c \in CPUs |-> c]
    /\ p_depth = [t \in Threads |-> 0]
    /\ sp = [x \in Ctxs |-> 1]
    /\ stk = [x \in Ctxs |-> [i \in 1..MaxNest |->
                IF i # 1 THEN Blank
                ELSE IF x \in Threads THEN Frame("user", "body", FALSE, FALSE, 0)
                ELSE Frame("loop", IF x = BSP THEN "sched" ELSE "enter", FALSE, FALSE, 0)]]

-----------------------------------------------------------------------------
(* int 0x80: an interrupt gate, which turns interrupts off.                *)
Syscall(c) ==
    /\ At(c, "user")
    /\ Push(c, "trap")
    /\ IF_' = [IF_ EXCEPT ![c] = FALSE]
    /\ UNCHANGED <<g_bkl, bkl_depth, running, p_depth>>

(* A CPU exception: a trap gate, which leaves them as they are.  User code *)
(* faults, and so does the kernel when it copies to or from user memory.   *)
Fault(c) ==
    /\ running[c] \in Threads
    /\ At(c, "user") \/ At(c, "body")
    /\ Push(c, "trap")
    /\ UNCHANGED <<g_bkl, bkl_depth, IF_, running, p_depth>>

(* A hardware interrupt, wherever interrupts are on.                       *)
Irq(c) ==
    /\ IF_[c]
    /\ Push(c, "irq")
    /\ IF_' = [IF_ EXCEPT ![c] = FALSE]
    /\ UNCHANGED <<g_bkl, bkl_depth, running, p_depth>>

-----------------------------------------------------------------------------
(* Mutant: bkl_enter leaves interrupts as its caller had them.             *)
EnterNoCli(c) ==
    /\ At(c, "enter")
    /\ Go(c, IF bkl_depth[c] = 0 THEN "try" ELSE "inc", IF_[c])
    /\ UNCHANGED <<g_bkl, bkl_depth, IF_, running, p_depth, sp>>

(* bkl_enter: pushf, cli, and the test of the depth.                       *)
Enter(c) ==
    /\ At(c, "enter")
    /\ Go(c, IF bkl_depth[c] = 0 THEN "try" ELSE "inc", IF_[c])
    /\ IF_' = [IF_ EXCEPT ![c] = FALSE]
    /\ UNCHANGED <<g_bkl, bkl_depth, running, p_depth, sp>>

(* The locked exchange that finds the word clear.                          *)
TryLock(c) ==
    /\ At(c, "try")
    /\ g_bkl = NoCPU
    /\ g_bkl' = c
    /\ Go(c, "inc", Cur(c).fl)
    /\ UNCHANGED <<bkl_depth, IF_, running, p_depth, sp>>

(* bkl_depth++, and interrupts back as they were.                          *)
Inc(c) ==
    /\ At(c, "inc")
    /\ bkl_depth' = [bkl_depth EXCEPT ![c] = bkl_depth[c] + 1]
    /\ IF_' = [IF_ EXCEPT ![c] = Cur(c).fl]
    /\ Go(c, AfterEnter(Cur(c).kind), FALSE)
    /\ UNCHANGED <<g_bkl, running, p_depth, sp>>

(* The handler returns to its stub; the scheduler loop goes idle, with     *)
(* interrupts off; forkret ends.                                           *)
Done(c) ==
    /\ At(c, "body") \/ At(c, "sched")
    /\ Go(c, "leave", FALSE)
    /\ IF_' = [IF_ EXCEPT ![c] = IF_[c] /\ ~At(c, "sched")]
    /\ UNCHANGED <<g_bkl, bkl_depth, running, p_depth, sp>>

(* bkl_leave: pushf, cli, and the test that keeps the depth from           *)
(* underflowing.                                                           *)
Leave(c) ==
    /\ At(c, "leave")
    /\ IF bkl_depth[c] > 0
       THEN /\ Go(c, "dec", IF_[c])
            /\ IF_' = [IF_ EXCEPT ![c] = FALSE]
       ELSE /\ Go(c, AfterLeave(Cur(c).kind), FALSE)
            /\ IF_' = IF_
    /\ UNCHANGED <<g_bkl, bkl_depth, running, p_depth, sp>>

(* bkl_depth--; at 0 the unlock is still to come.                          *)
Dec(c) ==
    /\ At(c, "dec")
    /\ bkl_depth' = [bkl_depth EXCEPT ![c] = bkl_depth[c] - 1]
    /\ IF bkl_depth[c] = 1
       THEN /\ Go(c, "unlock", Cur(c).fl)
            /\ IF_' = IF_
       ELSE /\ Go(c, AfterLeave(Cur(c).kind), FALSE)
            /\ IF_' = [IF_ EXCEPT ![c] = Cur(c).fl]
    /\ UNCHANGED <<g_bkl, running, p_depth, sp>>

Unlock(c) ==
    /\ At(c, "unlock")
    /\ g_bkl' = NoCPU
    /\ Go(c, AfterLeave(Cur(c).kind), FALSE)
    /\ IF_' = [IF_ EXCEPT ![c] = Cur(c).fl]
    /\ UNCHANGED <<bkl_depth, running, p_depth, sp>>

(* Back to the interrupted frame, with the interrupt flag it had.          *)
Iret(c) ==
    /\ At(c, "iret")
    /\ LET x == running[c] IN
       /\ sp' = [sp EXCEPT ![x] = sp[x] - 1]
       /\ stk' = [stk EXCEPT ![x][sp[x]] = Blank]
    /\ IF_' = [IF_ EXCEPT ![c] = Cur(c).ret]
    /\ UNCHANGED <<g_bkl, bkl_depth, running, p_depth>>

-----------------------------------------------------------------------------
(* The idle loop, off the lock: sti; hlt; cli.                             *)
Halt(c) ==
    /\ At(c, "idle")
    /\ IF_' = [IF_ EXCEPT ![c] = ~IF_[c]]
    /\ UNCHANGED <<g_bkl, bkl_depth, running, p_depth, sp, stk>>

(* There is work: sti; bkl_acquire.                                        *)
EndIdle(c) ==
    /\ At(c, "idle")
    /\ Go(c, "enter", FALSE)
    /\ IF_' = [IF_ EXCEPT ![c] = TRUE]
    /\ UNCHANGED <<g_bkl, bkl_depth, running, p_depth, sp>>

(* A kernel path sleeps, yields or is preempted.  An interrupt handler     *)
(* does not sleep, and it is preempted only on its way back to user mode.  *)
MaySwitch(c) ==
    /\ running[c] \in Threads
    /\ At(c, "body")
    /\ Cur(c).kind = "irq" => sp[running[c]] = 2

(* Mutant: the depth stays with the CPU (before stage 2).                  *)
SwitchOutPerCpuDepth(c) ==
    /\ MaySwitch(c)
    /\ p_depth' = [p_depth EXCEPT ![running[c]] = bkl_depth[c]]
    /\ running' = [running EXCEPT ![c] = c]
    /\ IF_' = [IF_ EXCEPT ![c] = TRUE]
    /\ UNCHANGED <<g_bkl, bkl_depth, sp, stk>>

(* swtch back into the scheduler loop, which runs at depth 1.              *)
SwitchOut(c) ==
    /\ MaySwitch(c)
    /\ p_depth' = [p_depth EXCEPT ![running[c]] = bkl_depth[c]]
    /\ bkl_depth' = [bkl_depth EXCEPT ![c] = 1]
    /\ running' = [running EXCEPT ![c] = c]
    /\ IF_' = [IF_ EXCEPT ![c] = TRUE]
    /\ UNCHANGED <<g_bkl, sp, stk>>

(* Mutant: a thread resumes at depth 1, whatever it was nested at.         *)
DispatchAtOne(c, t) ==
    /\ At(c, "sched")
    /\ \A d \in CPUs : running[d] # t
    /\ running' = [running EXCEPT ![c] = t]
    /\ bkl_depth' = [bkl_depth EXCEPT ![c] = 1]
    /\ IF_' = [IF_ EXCEPT ![c] = TRUE]
    /\ UNCHANGED <<g_bkl, p_depth, sp, stk>>

(* scheduler_start: dispatch a thread that no CPU runs.  It gets back the  *)
(* depth it switched out with.  It runs with interrupts on: those of the   *)
(* loop, for a new thread in forkret, or those its sti turns on.           *)
Dispatch(c, t) ==
    /\ At(c, "sched")
    /\ \A d \in CPUs : running[d] # t
    /\ running' = [running EXCEPT ![c] = t]
    /\ bkl_depth' = [bkl_depth EXCEPT ![c] = IF p_depth[t] > 0 THEN p_depth[t] ELSE 1]
    /\ IF_' = [IF_ EXCEPT ![c] = TRUE]
    /\ UNCHANGED <<g_bkl, p_depth, sp, stk>>

-----------------------------------------------------------------------------
Next ==
    \E c \in CPUs :
       \/ Syscall(c) \/ Fault(c) \/ Irq(c)
       \/ Enter(c) \/ TryLock(c) \/ Inc(c)
       \/ Done(c) \/ Leave(c) \/ Dec(c) \/ Unlock(c) \/ Iret(c)
       \/ Halt(c) \/ EndIdle(c) \/ SwitchOut(c)
       \/ \E t \in Threads : Dispatch(c, t)

Spec == Init /\ [][Next]_vars

-----------------------------------------------------------------------------
PCs == {"user", "sched", "idle", "enter", "try", "inc", "body", "leave", "dec",
        "unlock", "iret", "none"}
Kinds == {"user", "loop", "trap", "irq", "none"}

(* Every variable has its type.                                            *)
TypeOK ==
    /\ g_bkl \in CPUs \cup {NoCPU}
    /\ bkl_depth \in [CPUs -> 0..MaxNest]
    /\ IF_ \in [CPUs -> BOOLEAN]
    /\ running \in [CPUs -> Ctxs]
    /\ p_depth \in [Threads -> 0..MaxNest]
    /\ sp \in [Ctxs -> 1..MaxNest]
    /\ stk \in [Ctxs -> [1..MaxNest ->
                  [kind : Kinds, pc : PCs, fl : BOOLEAN, ret : BOOLEAN, lvl : 0..MaxNest]]]

(* The points at which a CPU executes kernel code.                         *)
InKernel(c) == Cur(c).pc \in {"body", "sched", "leave"}

(***************************************************************************)
(* At most one CPU executes kernel code: the promise of bkl.c that every   *)
(* subsystem without a lock of its own rests on.                           *)
(***************************************************************************)
Exclusion ==
    \A c, d \in CPUs : InKernel(c) /\ InKernel(d) => c = d

(***************************************************************************)
(* No CPU spins for a lock it holds itself: no interrupt falls into the    *)
(* hole between the lock word and the depth, in bkl_enter or in bkl_leave. *)
(***************************************************************************)
NoSelfDeadlock == \A c \in CPUs : At(c, "try") => g_bkl # c

(***************************************************************************)
(* A CPU that runs user code or halts in the idle loop does not hold the   *)
(* lock, however deep its thread was nested when it was switched out.      *)
(***************************************************************************)
LockFreeOutside ==
    \A c \in CPUs : At(c, "user") \/ At(c, "idle") => g_bkl # c /\ bkl_depth[c] = 0
=============================================================================
