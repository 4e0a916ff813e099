----------------------------- MODULE JobControl -----------------------------
(***************************************************************************)
(* Signals of one process (proc/signal.c): how they are queued, which      *)
(* thread is made to notice them, the stop and continuation of the thread  *)
(* group, and the parent that waits for both (sys_waitpid, sys_waitid with *)
(* WUNTRACED and WCONTINUED).                                              *)
(*                                                                         *)
(* Code in the kernel runs under the Big Kernel Lock, which only a switch  *)
(* or the return to user mode gives up: bkl is the thread in the kernel.   *)
(* What can still come between two of its steps is an interrupt on its own *)
(* CPU, and only when the thread has slept in this call (sleep_common and  *)
(* proc_stop_self end with sti): irqs.  The timer tick and the keyboard    *)
(* send signals from there.                                                *)
(*                                                                         *)
(* Dispositions are the default ones except for Caught, whose handlers are *)
(* installed without SA_NODEFER and with an empty sa_mask.                 *)
(***************************************************************************)
EXTENDS Integers, Sequences, FiniteSets, FiniteSetsExt

CONSTANTS
    NThreads,       \* thread slots; slot 1 is the group leader
    NStart,         \* threads there are at first
    Sigs,           \* the signals sent
    Caught,         \* the ones with a handler
    Maskable,       \* the ones masks are made of
    MaxSends, MaxMasks      \* bounds

SIGKILL == 9
SIGUSR1 == 10
SIGSEGV == 11
SIGCONT == 18
SIGSTOP == 19
SIGTSTP == 20
StopSigs == {SIGSTOP, SIGTSTP}
IgnoredSigs == {SIGCONT}

ASSUME JobControlAssumption ==
    /\ NThreads \in Nat \ {0} /\ NStart \in 1..NThreads
    /\ Sigs \subseteq {SIGKILL, SIGUSR1, SIGCONT, SIGSTOP, SIGTSTP}
    /\ Caught \subseteq Sigs \ {SIGKILL, SIGSTOP}
    /\ Maskable \subseteq Sigs \ {SIGKILL, SIGSTOP}
    /\ MaxSends \in Nat /\ MaxMasks \in Nat

Threads == 1..NThreads
Parent == 0
Nobody == -1

VARIABLES
    state,      \* p->state, per thread
    pc,         \* where the thread is
    asked,      \* whether it stops because another thread asked it to
    jobctl,     \* p->jobctl_stop
    pend,       \* p->pending_sigs
    blocked,    \* p->blocked_sigs
    saved,      \* p->saved_sigmask, as a sequence of none or one
    frames,     \* masks in the signal frames on its stack
    irqs,       \* interrupts are enabled where bkl runs
    shared,     \* sigshared->pending
    group,      \* the leader's group_stop, group_continued, stop_reported
    wait,       \* the parent: "out", "test", "asleep", "woken" or "reaped"
    bkl,        \* who is in the kernel
    late,       \* auxiliary: threads created while a stop is in force
    missed,     \* auxiliary: signals a sigreturn blocked while they were pending
    hit,        \* auxiliary: about to sleep when an interrupt sent a signal
    used        \* how much of each bound is used up

thread == <<state, pc, asked, jobctl, pend, blocked, saved, frames>>
vars == <<thread, irqs, shared, group, wait, bkl, late, missed, hit, used>>

Init ==
    /\ state = [t \in Threads |-> IF t <= NStart THEN "runnable" ELSE "unused"]
    /\ pc = [t \in Threads |-> "user"]
    /\ asked = [t \in Threads |-> FALSE]
    /\ jobctl = [t \in Threads |-> FALSE]
    /\ pend = [t \in Threads |-> {}]
    /\ blocked = [t \in Threads |-> {}]
    /\ saved = [t \in Threads |-> <<>>]
    /\ frames = [t \in Threads |-> <<>>]
    /\ irqs = FALSE
    /\ shared = {}
    /\ group = [stop |-> 0, continued |-> FALSE, reported |-> FALSE]
    /\ wait = "out"
    /\ bkl = Nobody
    /\ late = {} /\ missed = {} /\ hit = {}
    /\ used = [sends |-> 0, masks |-> 0]

-----------------------------------------------------------------------------
(* What a signal does to a thread.                                         *)

proc_live(t) == state[t] \notin {"unused", "zombie"}
Live == {t \in Threads : proc_live(t)}

(* Disposition of sig: handled, ignored, stop or fatal.                    *)
sig_default_action(sig) ==
    IF sig \in Caught THEN "handler"
    ELSE IF sig \in IgnoredSigs THEN "ignore"
    ELSE IF sig \in StopSigs THEN "stop" ELSE "fatal"

sig_ignored(t, sig) ==
    sig \notin blocked[t] /\ sig_default_action(sig) = "ignore"

sig_wakes(t, sig) ==
    \/ sig \in {SIGKILL, SIGSTOP}
    \/ sig \notin blocked[t] /\ ~sig_ignored(t, sig)

signal_interrupt_pending(t) ==
    \/ jobctl[t]
    \/ \E sig \in (pend[t] \cup shared) \ blocked[t] : sig_default_action(sig) # "ignore"

(* Mutant: only sleepers are woken, whatever the signal.                   *)
wakeSleepersOnly(st, T, sig) ==
    [t \in Threads |-> IF t \in T /\ st[t] = "sleeping" THEN "runnable" ELSE st[t]]

(* sig_wake_sleeper for the threads T.                                     *)
sig_wake_sleeper(st, T, sig) ==
    [t \in Threads |->
        IF t \in T /\ (st[t] = "sleeping" \/ (st[t] = "stopped" /\ sig = SIGKILL))
        THEN "runnable" ELSE st[t]]

WakeParent(w) == IF w = "asleep" THEN "woken" ELSE w

(* proc_group_stopped, for given states and leader's fields.               *)
proc_group_stopped(st, g) ==
    LET live == {t \in Threads : st[t] \notin {"unused", "zombie"}}
    IN  g.stop # 0 /\ live # {} /\ \A t \in live : st[t] = "stopped"

signal_group_stop_check(st, g) ==
    IF ~g.reported /\ proc_group_stopped(st, g) THEN WakeParent(wait) ELSE wait

-----------------------------------------------------------------------------
(* Sending.  The set T gets sig in its own set, the process if proc, and W *)
(* is made to notice; prepare_job_control comes before.                    *)

Dropped(sig) ==
    IF sig = SIGCONT THEN StopSigs ELSE IF sig \in StopSigs THEN {SIGCONT} ELSE {}

(* prepare_job_control, but for the pending sets and the states.           *)
prepare_job_control(sig) ==
    IF sig # SIGCONT THEN UNCHANGED <<jobctl, group, wait>>
    ELSE LET ends == group.stop # 0 \/ \E t \in Live : state[t] = "stopped" IN
         /\ jobctl' = [t \in Threads |-> jobctl[t] /\ ~proc_live(t)]
         /\ group' = IF ends THEN [group EXCEPT !.stop = 0, !.continued = TRUE] ELSE group
         /\ wait' = IF ends THEN WakeParent(wait) ELSE wait

Queue(sig, T, proc, W) ==
    LET resumed == [t \in Threads |-> IF sig = SIGCONT /\ state[t] = "stopped"
                                      THEN "runnable" ELSE state[t]]
    IN  /\ prepare_job_control(sig)
        /\ pend' = [t \in Threads |->
              (pend[t] \ Dropped(sig)) \cup (IF t \in T THEN {sig} ELSE {})]
        /\ shared' = (shared \ Dropped(sig)) \cup (IF proc THEN {sig} ELSE {})
        /\ state' = sig_wake_sleeper(resumed, W, sig)

signal_send(t, sig) ==
    LET T == IF sig_ignored(t, sig) THEN {} ELSE {t}
    IN  Queue(sig, T, FALSE, {u \in T : sig_wakes(u, sig)})

(* The thread signal_send_group makes notice the signal: the addressed one, *)
(* the leader, or the first that does not block it.                        *)
Target(ref, sig) ==
    LET can == {t \in Live : sig \notin blocked[t]}
    IN  IF ref \in can THEN {ref}
        ELSE IF 1 \in can THEN {1}
        ELSE IF can # {} THEN {Min(can)} ELSE {}

signal_send_group(ref, sig) ==
    LET all == IF sig = SIGKILL THEN Live ELSE {}
        proc == sig # SIGKILL /\ ~sig_ignored(ref, sig)
    IN  Queue(sig, all, proc,
              all \cup {t \in Target(ref, sig) : proc /\ sig_wakes(t, sig)})

(* Where a sender may run: no thread is in the kernel, or the interrupt is *)
(* on the CPU of the one that is.                                          *)
MaySend ==
    /\ used.sends < MaxSends /\ Live # {}
    /\ \/ bkl = Nobody
       \/ irqs

(* The one in the kernel has made its last test before it sleeps or stops. *)
AboutToSleep == bkl = Parent \/ (bkl \in Threads /\ pc[bkl] \in {"sleep", "halt"})

(* sys_kill, kill_many, signal_send_pgrp, kt_fire, the keyboard; sys_tkill. *)
Send ==
    /\ MaySend
    /\ \E sig \in Sigs, t \in Live : signal_send_group(t, sig) \/ signal_send(t, sig)
    /\ used' = [used EXCEPT !.sends = @ + 1]
    /\ missed' = missed \cap shared'
    /\ hit' = IF AboutToSleep THEN hit \cup {bkl} ELSE hit
    /\ UNCHANGED <<pc, asked, blocked, saved, frames, irqs, bkl, late>>

-----------------------------------------------------------------------------
(* The way back to user mode, and what goes wrong with a thread on it.     *)

(* Mutant: nobody is told of the signals the thread will not take.         *)
retargetNobody(st, t, sh, which) == st

(* signal_retarget_shared: each signal goes to the first sibling that does *)
(* not block it.                                                           *)
signal_retarget_shared(st, t, sh, which) ==
    LET siblings == {q \in Live \ {t} : st[q] # "zombie"}
        takes(q, sig) == sig \notin blocked[q]
                         /\ \A r \in siblings : r < q => sig \in blocked[r]
    IN  [q \in Threads |->
            IF /\ q \in siblings /\ st[q] = "sleeping"
               /\ \E sig \in sh \cap which : takes(q, sig) /\ sig_wakes(q, sig)
            THEN "runnable" ELSE st[q]]

(* Thread t goes to user mode with the mask m.                             *)
ToUser(st, t, sh, m) ==
    /\ state' = signal_retarget_shared(st, t, sh, m \ blocked[t])
    /\ blocked' = [blocked EXCEPT ![t] = m]
    /\ saved' = [saved EXCEPT ![t] = <<>>]
    /\ pc' = [pc EXCEPT ![t] = "user"]
    /\ irqs' = FALSE
    /\ bkl' = Nobody

(* restore_saved_sigmask: the mask sigsuspend put away, or the present one. *)
SavedMask(t) == IF saved[t] = <<>> THEN blocked[t] ELSE Head(saved[t])

(* group_stop_participate up to its call of proc_stop_self, in states st   *)
(* and with the leader's fields g; jobctl_stop is cleared by the caller.   *)
group_stop_participate(st, g, t, byOther) ==
    /\ state' = [st EXCEPT ![t] = "stopped"]
    /\ asked' = [asked EXCEPT ![t] = byOther]
    /\ pc' = [pc EXCEPT ![t] = "halt"]
    /\ wait' = signal_group_stop_check([st EXCEPT ![t] = "stopped"], g)

(* Mutant: only threads asleep in a call are asked to stop.                *)
groupStopSleepers(t, sig) ==
    LET others == {q \in Live \ {t} : state[q] = "sleeping"}
        g == [stop |-> sig, continued |-> FALSE, reported |-> FALSE]
    IN  /\ group' = g
        /\ jobctl' = [q \in Threads |-> q # t /\ (jobctl[q] \/ q \in others)]
        /\ group_stop_participate(sig_wake_sleeper(state, others, sig), g, t, FALSE)

do_group_stop(t, sig) ==
    LET others == {q \in Live \ {t} : state[q] # "stopped"}
        g == [stop |-> sig, continued |-> FALSE, reported |-> FALSE]
    IN  /\ group' = g
        /\ jobctl' = [q \in Threads |-> q # t /\ (jobctl[q] \/ q \in others)]
        /\ group_stop_participate(sig_wake_sleeper(state, others, sig), g, t, FALSE)

(* Mutant: the end of a thread does not complete a stop of the others.     *)
exitNoStopCheck(st, t) ==
    LET left == [st EXCEPT ![t] = "zombie"] IN
    /\ state' = signal_retarget_shared(left, t, shared', Sigs)
    /\ wait' = IF \A q \in Threads : left[q] \in {"unused", "zombie"}
               THEN WakeParent(wait) ELSE wait
    /\ pc' = [pc EXCEPT ![t] = "dead"]
    /\ irqs' = FALSE
    /\ bkl' = Nobody

(* proc_exit from the zombie state on, in states st.                       *)
proc_exit(st, t) ==
    LET left == [st EXCEPT ![t] = "zombie"]
        told == signal_retarget_shared(left, t, shared', Sigs)
    IN
    /\ state' = told
    /\ wait' = IF \A q \in Threads : left[q] \in {"unused", "zombie"}
               THEN WakeParent(wait) ELSE signal_group_stop_check(told, group)
    /\ pc' = [pc EXCEPT ![t] = "dead"]
    /\ irqs' = FALSE
    /\ bkl' = Nobody

(* Nothing reads the other fields of a zombie again.                       *)
Forget(t) ==
    /\ jobctl' = [jobctl EXCEPT ![t] = FALSE]
    /\ blocked' = [blocked EXCEPT ![t] = {}]
    /\ saved' = [saved EXCEPT ![t] = <<>>]
    /\ frames' = [frames EXCEPT ![t] = <<>>]

(* Mutant: a fatal signal ends the thread that takes it.                   *)
groupExitSelf(t) ==
    /\ pend' = [pend EXCEPT ![t] = {}]
    /\ Forget(t)
    /\ proc_exit(state, t)

(* thread_group_kill, then proc_exit.                                      *)
proc_group_exit(t) ==
    LET others == Live \ {t} IN
    /\ pend' = [q \in Threads |-> IF q \in others THEN pend[q] \cup {SIGKILL} ELSE {}]
    /\ Forget(t)
    /\ proc_exit(sig_wake_sleeper(state, others, SIGKILL), t)

-----------------------------------------------------------------------------
(* signal_return_to_user, with bkl held by t.                              *)

(* A sibling asked t to stop, and t is not being killed.                   *)
StopAsked(t) ==
    /\ bkl = t /\ pc[t] = "return"
    /\ jobctl[t] /\ SIGKILL \notin pend[t]
    /\ jobctl' = [jobctl EXCEPT ![t] = FALSE]
    /\ group_stop_participate(state, group, t, TRUE)
    /\ UNCHANGED <<pend, blocked, saved, frames, irqs, shared, group, bkl, late, missed, hit, used>>

(* The rest of it: the own signals before the process's, the lowest first. *)
Own(t) == pend[t] \ blocked[t]
Deliverable(t) == IF Own(t) # {} THEN Own(t) ELSE shared \ blocked[t]

AtDelivery(t) ==
    /\ bkl = t
    /\ \/ pc[t] = "deliver"
       \/ pc[t] = "return" /\ (jobctl[t] => SIGKILL \in pend[t])

Kept(t) == [jobctl EXCEPT ![t] = @ /\ pc[t] = "deliver"]

DeliverNothing(t) ==
    /\ AtDelivery(t) /\ Deliverable(t) = {}
    /\ jobctl' = Kept(t)
    /\ ToUser(state, t, shared, SavedMask(t))
    /\ UNCHANGED <<asked, pend, frames, shared, group, wait, late, missed, hit, used>>

(* A handler's frame may not fit on the user's stack: a SIGSEGV comes in   *)
(* its place, and signal_return_to_user starts again.                      *)
Deliver(t) ==
    /\ AtDelivery(t) /\ Deliverable(t) # {}
    /\ LET sig == Min(Deliverable(t))
           own == IF Own(t) # {} THEN pend[t] \ {sig} ELSE pend[t]
           do  == sig_default_action(sig)
       IN
       /\ shared' = IF Own(t) # {} THEN shared ELSE shared \ {sig}
       /\ missed' = missed \ {sig}
       /\ \/ /\ do = "fatal"
             /\ proc_group_exit(t)
             /\ UNCHANGED <<asked, group, late>>
          \/ /\ do = "handler"
             /\ pend' = [pend EXCEPT ![t] = own \cup {SIGSEGV}]
             /\ jobctl' = Kept(t)
             /\ pc' = [pc EXCEPT ![t] = "return"]
             /\ UNCHANGED <<state, asked, blocked, saved, frames, irqs, group, wait, bkl, late>>
          \/ /\ do # "fatal"
             /\ pend' = [pend EXCEPT ![t] = own]
             /\ \/ /\ do = "ignore"
                   /\ jobctl' = Kept(t)
                   /\ ToUser(state, t, shared', SavedMask(t))
                   /\ UNCHANGED <<asked, frames, group, wait, late>>
                \/ /\ do = "handler"
                   /\ jobctl' = Kept(t)
                   /\ frames' = [frames EXCEPT ![t] = <<SavedMask(t)>> \o @]
                   /\ ToUser(state, t, shared', blocked[t] \cup {sig})
                   /\ UNCHANGED <<asked, group, wait, late>>
                \/ /\ do = "stop"
                   /\ do_group_stop(t, sig)
                   /\ late' = {}
                   /\ UNCHANGED <<blocked, saved, frames, irqs, bkl>>
    /\ UNCHANGED <<hit, used>>

(* proc_stop_self: the state is set once more, and the CPU given up.       *)
proc_stop_self(t) ==
    /\ bkl = t /\ pc[t] = "halt"
    /\ state' = [state EXCEPT ![t] = "stopped"]
    /\ pc' = [pc EXCEPT ![t] = "halted"]
    /\ bkl' = Nobody /\ irqs' = FALSE
    /\ UNCHANGED <<asked, jobctl, pend, blocked, saved, frames, shared, group,
                   wait, late, missed, hit, used>>

(* It runs again: on with the delivery if it was asked to stop, to user    *)
(* mode if it took the stop signal itself.                                 *)
Resume(t) ==
    /\ bkl = Nobody /\ pc[t] = "halted" /\ state[t] = "runnable"
    /\ \/ /\ asked[t]
          /\ bkl' = t /\ pc' = [pc EXCEPT ![t] = "deliver"]
          /\ irqs' = TRUE
          /\ UNCHANGED <<state, blocked, saved>>
       \/ ~asked[t] /\ ToUser(state, t, shared, SavedMask(t))
    /\ asked' = [asked EXCEPT ![t] = FALSE]
    /\ hit' = hit \ {t}
    /\ UNCHANGED <<jobctl, pend, frames, shared, group, wait, late, missed, used>>

-----------------------------------------------------------------------------
(* Entries from user mode.  int 0x80 and the interrupts are interrupt      *)
(* gates: they come in with interrupts off.                                *)

Enter(t, where) ==
    /\ bkl = Nobody /\ pc[t] = "user" /\ state[t] = "runnable"
    /\ bkl' = t
    /\ pc' = [pc EXCEPT ![t] = where]

(* Mutant: the return from an interrupt delivers signals, not stops.       *)
interruptSignalsOnly(t) ==
    /\ Deliverable(t) # {}
    /\ Enter(t, "return")
    /\ UNCHANGED <<state, asked, jobctl, pend, blocked, saved, frames, irqs, shared, group,
                   wait, late, missed, hit, used>>

(* An interrupt, on whose return there is something to do.                 *)
Interrupt(t) ==
    /\ jobctl[t] \/ Deliverable(t) # {}
    /\ Enter(t, "return")
    /\ UNCHANGED <<state, asked, jobctl, pend, blocked, saved, frames, irqs, shared, group,
                   wait, late, missed, hit, used>>

(* A call that blocks: signals are looked for before each sleep.           *)
Block(t) ==
    /\ Enter(t, IF signal_interrupt_pending(t) THEN "return" ELSE "sleep")
    /\ UNCHANGED <<state, asked, jobctl, pend, blocked, saved, frames, irqs, shared, group,
                   wait, late, missed, hit, used>>

Sleep(t) ==
    /\ bkl = t /\ pc[t] = "sleep"
    /\ state' = [state EXCEPT ![t] = "sleeping"]
    /\ pc' = [pc EXCEPT ![t] = "slept"]
    /\ bkl' = Nobody /\ irqs' = FALSE
    /\ UNCHANGED <<asked, jobctl, pend, blocked, saved, frames, shared, group,
                   wait, late, missed, hit, used>>

(* What the call waits for happens.                                        *)
Event(t) ==
    /\ bkl = Nobody /\ state[t] = "sleeping"
    /\ state' = [state EXCEPT ![t] = "runnable"]
    /\ UNCHANGED <<pc, asked, jobctl, pend, blocked, saved, frames, irqs, shared, group,
                   wait, bkl, late, missed, hit, used>>

(* Back from the sleep: the call ends, or tests and sleeps again.          *)
Slept(t) ==
    /\ bkl = Nobody /\ pc[t] = "slept" /\ state[t] = "runnable"
    /\ bkl' = t
    /\ irqs' = TRUE
    /\ hit' = hit \ {t}
    /\ \/ pc' = [pc EXCEPT ![t] = "return"]
       \/ /\ saved[t] = <<>> /\ ~signal_interrupt_pending(t)
          /\ pc' = [pc EXCEPT ![t] = "sleep"]
    /\ UNCHANGED <<state, asked, jobctl, pend, blocked, saved, frames, shared, group,
                   wait, late, missed, used>>

(* sys_rt_sigprocmask.                                                     *)
sys_rt_sigprocmask(t) ==
    \E m \in SUBSET Maskable :
        /\ used.masks < MaxMasks /\ m # blocked[t]
        /\ Enter(t, "return")
        /\ state' = signal_retarget_shared(state, t, shared, m \ blocked[t])
        /\ blocked' = [blocked EXCEPT ![t] = m]
        /\ used' = [used EXCEPT !.masks = @ + 1]
        /\ UNCHANGED <<asked, jobctl, pend, saved, frames, irqs, shared, group, wait, late, missed, hit>>

(* sys_rt_sigsuspend: the mask is put back by the way to user mode.        *)
sys_rt_sigsuspend(t) ==
    \E m \in SUBSET Maskable :
        /\ used.masks < MaxMasks
        /\ state' = signal_retarget_shared(state, t, shared, m \ blocked[t])
        /\ blocked' = [blocked EXCEPT ![t] = m]
        /\ saved' = [saved EXCEPT ![t] = <<blocked[t]>>]
        /\ Enter(t, IF jobctl[t] \/ \E sig \in (pend[t] \cup shared) \ m :
                                       sig_default_action(sig) # "ignore"
                    THEN "return" ELSE "sleep")
        /\ used' = [used EXCEPT !.masks = @ + 1]
        /\ UNCHANGED <<asked, jobctl, pend, frames, irqs, shared, group, wait, late, missed, hit>>

(* sys_sigreturn: the handler's frame holds the mask to go back to.        *)
sys_sigreturn(t) ==
    /\ frames[t] # <<>>
    /\ Enter(t, "return")
    /\ blocked' = [blocked EXCEPT ![t] = Head(frames[t])]
    /\ frames' = [frames EXCEPT ![t] = Tail(@)]
    /\ missed' = missed \cup (shared \cap (Head(frames[t]) \ blocked[t]))
    /\ UNCHANGED <<state, asked, jobctl, pend, saved, irqs, shared, group, wait, late, hit, used>>

(* sys_clone with CLONE_THREAD: the child's slot is blank but for the mask. *)
sys_clone(t) ==
    \E c \in Threads :
        /\ state[c] = "unused" /\ \A d \in Threads : d < c => state[d] # "unused"
        /\ Enter(t, "return")
        /\ state' = [state EXCEPT ![c] = "runnable"]
        /\ blocked' = [blocked EXCEPT ![c] = blocked[t]]
        /\ late' = IF group.stop # 0 THEN late \cup {c} ELSE late
        /\ UNCHANGED <<asked, jobctl, pend, saved, frames, irqs, shared, group, wait, missed, hit, used>>

(* sys_exit of one thread.                                                 *)
sys_exit(t) ==
    /\ bkl = Nobody /\ pc[t] = "user" /\ state[t] = "runnable"
    /\ UNCHANGED shared
    /\ pend' = [pend EXCEPT ![t] = {}]
    /\ Forget(t)
    /\ proc_exit(state, t)
    /\ UNCHANGED <<asked, group, late, missed, hit, used>>

-----------------------------------------------------------------------------
(* The parent in sys_waitpid or sys_waitid, asking for everything.         *)

(* Where the loop over the children leaves it: with the end of the process, *)
(* its stop, its continuation, or nothing to report.                       *)
Scan ==
    \/ /\ Live = {}
       /\ wait' = "reaped" /\ UNCHANGED <<group, bkl>>
    \/ /\ Live # {} /\ proc_group_stopped(state, group) /\ ~group.reported
       /\ group' = [group EXCEPT !.reported = TRUE]
       /\ wait' = "out" /\ UNCHANGED bkl
    \/ /\ Live # {} /\ (proc_group_stopped(state, group) => group.reported)
       /\ group.continued
       /\ group' = [group EXCEPT !.continued = FALSE]
       /\ wait' = "out" /\ UNCHANGED bkl
    \/ /\ Live # {} /\ (proc_group_stopped(state, group) => group.reported)
       /\ ~group.continued
       /\ wait' = "test" /\ bkl' = Parent /\ UNCHANGED group

sys_waitpid ==
    /\ bkl = Nobody /\ wait \in {"out", "woken"}
    /\ Scan
    /\ irqs' = (bkl' = Parent /\ wait = "woken")
    /\ hit' = hit \ {Parent}
    /\ UNCHANGED <<thread, shared, late, missed, used>>

WaitSleep ==
    /\ bkl = Parent
    /\ wait' = "asleep"
    /\ bkl' = Nobody /\ irqs' = FALSE
    /\ UNCHANGED <<thread, shared, group, late, missed, hit, used>>

-----------------------------------------------------------------------------
(* What a thread does of itself, and what happens to it in the kernel.     *)
Kernel(t) ==
    \/ StopAsked(t) \/ DeliverNothing(t) \/ Deliver(t) \/ proc_stop_self(t) \/ Resume(t)
    \/ Interrupt(t) \/ Sleep(t) \/ Slept(t)

User(t) ==
    \/ Block(t) \/ Event(t) \/ sys_rt_sigprocmask(t) \/ sys_rt_sigsuspend(t)
    \/ sys_sigreturn(t) \/ sys_clone(t) \/ sys_exit(t)

Next ==
    \/ Send \/ sys_waitpid \/ WaitSleep
    \/ \E t \in Threads : Kernel(t) \/ User(t)

Spec == Init /\ [][Next]_vars

(* The run queue serves every runnable thread and the lock every CPU that  *)
(* spins for it; ticks interrupt user mode.                                *)
Fairness ==
    /\ \A t \in Threads : SF_vars(Kernel(t))
    /\ WF_vars(WaitSleep)

FairSpec == Spec /\ Fairness

-----------------------------------------------------------------------------
Masks == SUBSET (Sigs \ {SIGKILL, SIGSTOP})

(* The type of the state; at most one thread is in the kernel, and it is   *)
(* the one that holds the lock.                                            *)
TypeOK ==
    /\ state \in [Threads -> {"unused", "runnable", "sleeping", "stopped", "zombie"}]
    /\ pc \in [Threads -> {"user", "sleep", "slept", "return", "deliver", "halt", "halted", "dead"}]
    /\ asked \in [Threads -> BOOLEAN] /\ jobctl \in [Threads -> BOOLEAN]
    /\ pend \in [Threads -> SUBSET (Sigs \cup {SIGKILL, SIGSEGV})] /\ shared \subseteq Sigs \ {SIGKILL}
    /\ blocked \in [Threads -> Masks]
    /\ \A t \in Threads : saved[t] \in {<<>>} \cup {<<m>> : m \in Masks}
    /\ irqs \in BOOLEAN
    /\ group \in [stop : StopSigs \cup {0}, continued : BOOLEAN, reported : BOOLEAN]
    /\ wait \in {"out", "test", "asleep", "woken", "reaped"}
    /\ bkl \in Threads \cup {Parent, Nobody}
    /\ late \subseteq Threads /\ missed \subseteq Sigs
    /\ hit \subseteq Threads \cup {Parent}
    /\ \A t \in Threads :
          pc[t] \in {"sleep", "return", "deliver", "halt"} <=> bkl = t

(* A thread that has stopped and given up the CPU is one a stop in force   *)
(* holds, and nobody has killed it: neither a SIGCONT nor a SIGKILL is     *)
(* lost on it, unless an interrupt sent it while the thread was on its way *)
(* into proc_stop_self (hit), which sets the state once more.              *)
StoppedByStop ==
    \A t \in Threads \ hit : state[t] = "stopped" /\ pc[t] = "halted" =>
        group.stop # 0 /\ SIGKILL \notin pend[t]

(* While a stop is in force every thread of the group has stopped, has     *)
(* been asked to, or is being killed, except one created since.            *)
StopReachesAll ==
    group.stop # 0 => \A t \in Live \ late :
        state[t] = "stopped" \/ jobctl[t] \/ SIGKILL \in pend[t]

(* What a stop says of itself to its parent: a parent that sleeps in a     *)
(* wait has been told of the last stop and of its end, and its child       *)
(* lives.  It misses the end only of a stop that an interrupt ended after  *)
(* it had looked (hit).                                                    *)
ParentTold ==
    wait = "asleep" =>
        /\ Live # {}
        /\ group.continued => Parent \in hit
        /\ proc_group_stopped(state, group) => group.reported

(* No signal waits for a sleeper: when one that would interrupt a thread's *)
(* sleep is pending on a sleeping thread, or on the process while a        *)
(* sleeping thread would take it, then some thread awake is going to.  The *)
(* exceptions: the signals of missed, and a thread that was about to sleep *)
(* when an interrupt sent the signal (hit).                                *)
NoLostSignal ==
    \A t \in Live : state[t] = "sleeping" =>
        /\ ~jobctl[t]
        /\ t \notin hit =>
              \A sig \in pend[t] \ blocked[t] : sig_default_action(sig) = "ignore"
        /\ \A sig \in shared \ (blocked[t] \cup missed) :
              \/ sig_default_action(sig) = "ignore"
              \/ \E q \in Live : sig \notin blocked[q] /\ (state[q] # "sleeping" \/ q \in hit)

(* A process killed by kill(2), or by the fatal signal of a thread, ends,  *)
(* stopped or stopping, asleep or starting more threads as it may be,      *)
(* unless every thread it has left was about to sleep when an interrupt    *)
(* sent it a signal.                                                       *)
KilledEnds == (\A t \in Live : SIGKILL \in pend[t]) ~> (Live \subseteq hit)

(* A stop is completed, continued or overtaken by the end of the process,  *)
(* if no thread joins it late.                                             *)
StopCompletes ==
    group.stop # 0 ~> \/ group.stop = 0 \/ proc_group_stopped(state, group)
                      \/ Live = {} \/ late # {}
=============================================================================
