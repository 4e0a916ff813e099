------------------------------- MODULE Futex --------------------------------
(***************************************************************************)
(* FUTEX_WAIT and FUTEX_WAKE on one private futex word (proc/syscall.c,    *)
(* sys_futex and futex_wake_n), with what else can end a wait: the         *)
(* deadline (scheduler_tick), a signal (proc/signal.c) and the wake that a *)
(* thread's exit sends (wake_up_n_tgid).                                   *)
(*                                                                         *)
(* The threads are those of one process.  User code runs in parallel with  *)
(* the kernel; the kernel holds the Big Kernel Lock from one sleeping      *)
(* point to the next, and each action is one such stretch.  A copy from    *)
(* user memory is a sleeping point when its page has to be read from a     *)
(* device (vma_handle_fault).  The word's page is privately mapped, and a  *)
(* sibling may drop it (MADV_DONTNEED); it then reads as 0 again.          *)
(*                                                                         *)
(* stage[t]: user; fault0, fault1, fault2: asleep in a page fault of the   *)
(* first copy of the word, of the timeout, of the copy inside the bucket   *)
(* loop; asleep: in sleep_locked; woken: runnable, not yet back from it;   *)
(* dead.                                                                   *)
(***************************************************************************)
EXTENDS Integers, FiniteSets

CONSTANTS
    Tasks,
    Vals,       \* values of the word; 0 is one
    SeqMod,     \* 2^32, the width of g_sleep_seq
    MaxSleeps,  \* bound: futex sleeps in one behaviour
    Signalled,  \* bound: the threads that signals are sent to
    Droppers    \* bound: the threads that drop the word's page

ASSUME FutexAssumption ==
    /\ 0 \in Vals
    /\ SeqMod \in Nat \ {0} /\ MaxSleeps \in Nat
    /\ Signalled \subseteq Tasks /\ Droppers \subseteq Tasks

VARIABLES
    word,           \* the futex word in user memory
    present,        \* its page is mapped
    stage,
    val,            \* the value thread t's FUTEX_WAIT was given
    timed,          \* that call has a timeout
    wake_tick,      \* p->wake_tick is set
    futex_wait,     \* p->futex_wait: 1 waiting, 2 woken by a FUTEX_WAKE
    timed_out,      \* p->sleep_timed_out
    sleep_seq, g_sleep_seq,
    pending,        \* the threads with a deliverable signal of their own
    shared,         \* a process-wide deliverable signal is pending
    res,            \* what the thread's last FUTEX_WAIT returned
    ended,          \* auxiliary: what ended the thread's last sleep
    nsleeps,        \* counts the sleeps, for their bound
    owe             \* auxiliary: threads that changed the word and have not
                    \* called FUTEX_WAKE for all since

call == <<val, timed>>
sleepVars == <<wake_tick, futex_wait, timed_out, sleep_seq, g_sleep_seq, nsleeps>>
sigVars == <<pending, shared>>
futexVars == <<word, present, stage, call, sleepVars, sigVars, res, ended, owe>>

Stages == {"user", "fault0", "fault1", "fault2", "asleep", "woken", "dead"}
Results == {"none", "0", "EAGAIN", "ETIMEDOUT", "EINTR"}
Ends == {"none", "wake", "exit", "deadline", "signal"}

Asleep == {t \in Tasks : stage[t] = "asleep"}

FutexTypeOK ==
    /\ word \in Vals
    /\ present \in 0..1
    /\ stage \in [Tasks -> Stages]
    /\ val \in [Tasks -> Vals]
    /\ timed \subseteq Tasks
    /\ wake_tick \subseteq Tasks
    /\ timed_out \subseteq Tasks
    /\ sleep_seq \in [Tasks -> 0 .. SeqMod - 1]
    /\ g_sleep_seq \in 0 .. SeqMod - 1
    /\ pending \subseteq Tasks
    /\ shared \in 0..1
    /\ res \in [Tasks -> Results]
    /\ ended \in [Tasks -> Ends]
    /\ nsleeps \in 0 .. MaxSleeps
    /\ owe \subseteq Tasks
    /\ futex_wait \in [Tasks -> 0 .. 2]
    /\ \A t \in Tasks : futex_wait[t] # 0 <=> stage[t] \in {"asleep", "woken"}

FutexInit ==
    /\ word = 0 /\ present = 1
    /\ stage = [t \in Tasks |-> "user"]
    /\ val = [t \in Tasks |-> 0]
    /\ timed = {} /\ wake_tick = {} /\ timed_out = {}
    /\ futex_wait = [t \in Tasks |-> 0]
    /\ sleep_seq = [t \in Tasks |-> 0] /\ g_sleep_seq = 0
    /\ pending = {} /\ shared = 0
    /\ res = [t \in Tasks |-> "none"]
    /\ ended = [t \in Tasks |-> "none"]
    /\ nsleeps = 0
    /\ owe = {}

Goto(t, p) == stage' = [stage EXCEPT ![t] = p]

-----------------------------------------------------------------------------
(* User code.                                                              *)

Store(t, v) ==
    /\ stage[t] = "user" /\ present = 1 /\ v # word
    /\ word' = v
    /\ owe' = owe \cup {t}
    /\ UNCHANGED <<present, stage, call, sleepVars, sigVars, res, ended>>

(* madvise(MADV_DONTNEED): unmap_pages of the word's page.                 *)
DropPage(t) ==
    /\ t \in Droppers /\ stage[t] = "user" /\ present = 1
    /\ present' = 0
    /\ word' = 0
    /\ owe' = owe \cup {t}
    /\ UNCHANGED <<stage, call, sleepVars, sigVars, res, ended>>

(* User code touches the page and has it populated.                        *)
TouchPage(t) ==
    /\ stage[t] = "user" /\ present = 0
    /\ present' = 1
    /\ UNCHANGED <<word, stage, call, sleepVars, sigVars, res, ended, owe>>

-----------------------------------------------------------------------------
(* FUTEX_WAIT.                                                             *)

(* signal_return_to_user at the end of the call: the thread's own signal   *)
(* first, else the process's.                                              *)
Deliver(t) ==
    /\ pending' = pending \ {t}
    /\ shared' = IF t \in pending THEN shared ELSE 0

Return(t, r) ==
    /\ res' = [res EXCEPT ![t] = r]
    /\ Goto(t, "user")
    /\ Deliver(t)

Eagain(t) ==
    /\ Return(t, "EAGAIN")
    /\ wake_tick' = wake_tick \ {t}
    /\ UNCHANGED <<futex_wait, timed_out, sleep_seq, g_sleep_seq, nsleeps, ended>>

(* futex_wait = 1 and sleep_locked, which numbers the sleep.  armed: the   *)
(* threads with a deadline when it is called.                              *)
Sleep(t, armed) ==
    /\ nsleeps < MaxSleeps
    /\ futex_wait' = [futex_wait EXCEPT ![t] = 1]
    /\ timed_out' = timed_out \ {t}
    /\ wake_tick' = armed
    /\ g_sleep_seq' = (g_sleep_seq + 1) % SeqMod
    /\ sleep_seq' = [sleep_seq EXCEPT ![t] = (g_sleep_seq + 1) % SeqMod]
    /\ nsleeps' = nsleeps + 1
    /\ ended' = [ended EXCEPT ![t] = "none"]
    /\ res' = [res EXCEPT ![t] = "none"]
    /\ Goto(t, "asleep")
    /\ UNCHANGED sigVars

(* Mutant: the word is not read again under the bucket lock.               *)
BucketNoRecheck(t, v, armed) == Sleep(t, armed)

(* The word read under the bucket lock.                                    *)
Bucket(t, v, armed) == IF word # v THEN Eagain(t) ELSE Sleep(t, armed)

(* The thread sleeps in a page fault, at stage f.                          *)
FaultAt(t, f, armed) ==
    /\ Goto(t, f)
    /\ wake_tick' = armed
    /\ UNCHANGED <<futex_wait, timed_out, sleep_seq, g_sleep_seq, nsleeps,
                   sigVars, res, ended>>

(* The word has been copied in the first time; the copy of the timeout may *)
(* fault.                                                                  *)
FirstRead(t, v, withTimeout) ==
    /\ present' = 1
    /\ IF word # v THEN Eagain(t)
       ELSE \/ t \notin withTimeout /\ Bucket(t, v, wake_tick)
            \/ t \in withTimeout /\ Bucket(t, v, wake_tick \cup {t})
            \/ t \in withTimeout /\ FaultAt(t, "fault1", wake_tick)

FutexWait(t, v) ==
    /\ stage[t] = "user"
    /\ val' = [val EXCEPT ![t] = v]
    /\ \E withTimeout \in {timed \cup {t}, timed \ {t}} :
         /\ timed' = withTimeout
         /\ \/ present = 0 /\ FaultAt(t, "fault0", wake_tick) /\ UNCHANGED present
            \/ FirstRead(t, v, withTimeout)
    /\ UNCHANGED <<word, owe>>

(* The sleeps inside a page fault end; sleep_common clears wake_tick.      *)
Fault0Done(t) ==
    /\ stage[t] = "fault0"
    /\ FirstRead(t, val[t], timed)
    /\ UNCHANGED <<word, call, owe>>

(* Mutant: the deadline is not set after a copy that faulted.              *)
fault1Unarmed(t) ==
    /\ stage[t] = "fault1"
    /\ \/ /\ present = 0 /\ UNCHANGED present
          /\ FaultAt(t, "fault2", wake_tick \cup {t})
       \/ present' = 1 /\ Bucket(t, val[t], wake_tick)
    /\ UNCHANGED <<word, call, owe>>

(* The timeout is in: set the deadline and enter the bucket loop, where a  *)
(* page that went away is faulted in again outside the bucket lock.        *)
Fault1Done(t) ==
    /\ stage[t] = "fault1"
    /\ \/ /\ present = 0 /\ UNCHANGED present
          /\ FaultAt(t, "fault2", wake_tick \cup {t})
       \/ present' = 1 /\ Bucket(t, val[t], wake_tick \cup {t})
    /\ UNCHANGED <<word, call, owe>>

Fault2Done(t) ==
    /\ stage[t] = "fault2"
    /\ present' = 1
    /\ Bucket(t, val[t], wake_tick \ {t})
    /\ UNCHANGED <<word, call, owe>>

(* Mutant: a pending signal is looked at before the wake.                  *)
ResumeSignalFirst(t) ==
    /\ stage[t] = "woken"
    /\ Return(t, IF t \in pending \/ shared = 1 THEN "EINTR"
                 ELSE IF futex_wait[t] = 2 THEN "0"
                 ELSE IF t \in timed_out THEN "ETIMEDOUT" ELSE "0")
    /\ futex_wait' = [futex_wait EXCEPT ![t] = 0]
    /\ wake_tick' = wake_tick \ {t}
    /\ timed_out' = timed_out \ {t}
    /\ UNCHANGED <<word, present, call, sleep_seq, g_sleep_seq, nsleeps, ended, owe>>

(* Back from sleep_locked: the result, in the order the code tests.        *)
Resume(t) ==
    /\ stage[t] = "woken"
    /\ Return(t, IF futex_wait[t] = 2 THEN "0"
                 ELSE IF t \in timed_out THEN "ETIMEDOUT"
                 ELSE IF t \in pending \/ shared = 1 THEN "EINTR" ELSE "0")
    /\ futex_wait' = [futex_wait EXCEPT ![t] = 0]
    /\ wake_tick' = wake_tick \ {t}
    /\ timed_out' = timed_out \ {t}
    /\ UNCHANGED <<word, present, call, sleep_seq, g_sleep_seq, nsleeps, ended, owe>>

-----------------------------------------------------------------------------
(* What ends a sleep.                                                      *)

(* The threads of W are made runnable, for reason e.                       *)
WakeSet(W, e) ==
    /\ stage' = [t \in Tasks |-> IF t \in W THEN "woken" ELSE stage[t]]
    /\ wake_tick' = wake_tick \ W
    /\ ended' = [t \in Tasks |-> IF t \in W THEN e ELSE ended[t]]

(* The n waiters with the least sleep_seq, or all if there are no more.    *)
Oldest(n) ==
    IF n >= Cardinality(Asleep) THEN {Asleep}
    ELSE {W \in SUBSET Asleep :
            /\ Cardinality(W) = n
            /\ \A t \in W, u \in Asleep \ W : sleep_seq[t] <= sleep_seq[u]}

(* FUTEX_WAKE with a count that covers every waiter.                       *)
FutexWakeAll(t) ==
    /\ stage[t] = "user"
    /\ WakeSet(Asleep, "wake")
    /\ futex_wait' = [u \in Tasks |-> IF u \in Asleep THEN 2 ELSE futex_wait[u]]
    /\ owe' = owe \ {t}
    /\ UNCHANGED <<word, present, call, timed_out, sleep_seq, g_sleep_seq, nsleeps, sigVars, res>>

(* FUTEX_WAKE of n.                                                        *)
FutexWakeN(t, n) ==
    /\ stage[t] = "user"
    /\ \E W \in Oldest(n) :
         /\ WakeSet(W, "wake")
         /\ futex_wait' = [u \in Tasks |-> IF u \in W THEN 2 ELSE futex_wait[u]]
    /\ UNCHANGED <<word, present, call, timed_out, sleep_seq, g_sleep_seq, nsleeps, sigVars, res, owe>>

(* proc_exit with the word as clear_child_tid: store 0 if the page is      *)
(* there, and wake every waiter of the process.                            *)
Exit(t) ==
    /\ stage[t] = "user" /\ t \notin owe
    /\ LET W == IF present = 1 THEN Asleep ELSE {} IN
         /\ stage' = [u \in Tasks |->
                        IF u = t THEN "dead" ELSE IF u \in W THEN "woken" ELSE stage[u]]
         /\ wake_tick' = wake_tick \ W
         /\ ended' = [u \in Tasks |-> IF u \in W THEN "exit" ELSE ended[u]]
    /\ word' = IF present = 1 THEN 0 ELSE word
    /\ pending' = pending \ {t}
    /\ UNCHANGED <<present, call, futex_wait, timed_out, sleep_seq, g_sleep_seq, nsleeps,
                   shared, res, owe>>

(* scheduler_tick finds a sleeper's deadline passed.                       *)
Tick(t) ==
    /\ stage[t] = "asleep" /\ t \in wake_tick
    /\ WakeSet({t}, "deadline")
    /\ timed_out' = timed_out \cup {t}
    /\ UNCHANGED <<word, present, call, futex_wait, sleep_seq, g_sleep_seq, nsleeps,
                   sigVars, res, owe>>

(* signal_send and signal_send_group: queue it, and wake the thread it is  *)
(* for if that sleeps.                                                     *)
SigWake(t) ==
    /\ WakeSet({t} \cap Asleep, "signal")
    /\ UNCHANGED <<word, present, call, futex_wait, timed_out, sleep_seq, g_sleep_seq, nsleeps,
                   res, owe>>

SignalSend(t) ==
    /\ t \in Signalled /\ stage[t] # "dead"
    /\ pending' = pending \cup {t}
    /\ SigWake(t)
    /\ UNCHANGED shared

SignalSendGroup(t) ==
    /\ t \in Signalled /\ stage[t] # "dead"
    /\ shared' = 1
    /\ SigWake(t)
    /\ UNCHANGED pending

(* A return to user mode from another call or an interrupt delivers.       *)
SignalReturn(t) ==
    /\ stage[t] = "user" /\ (t \in pending \/ shared = 1)
    /\ Deliver(t)
    /\ UNCHANGED <<word, present, stage, call, sleepVars, res, ended, owe>>

-----------------------------------------------------------------------------
ThreadStep(t) ==
    \/ \E v \in Vals : Store(t, v) \/ FutexWait(t, v)
    \/ DropPage(t) \/ TouchPage(t)
    \/ Fault0Done(t) \/ Fault1Done(t) \/ Fault2Done(t) \/ Resume(t)
    \/ FutexWakeAll(t) \/ FutexWakeN(t, 1) \/ Exit(t)
    \/ Tick(t) \/ SignalSend(t) \/ SignalSendGroup(t) \/ SignalReturn(t)

FutexNext == \E t \in Tasks : ThreadStep(t)

FutexSpec == FutexInit /\ [][FutexNext]_futexVars

-----------------------------------------------------------------------------
(* "a FUTEX_WAKE that follows the user's store either sees the waiter      *)
(* asleep or ran before the waiter's read, which then sees the new value": *)
(* a thread sleeps on a value the word no longer has only while the thread *)
(* that changed it has yet to call FUTEX_WAKE.                             *)
NoLostWake == \A t \in Asleep : word # val[t] => owe # {}

(* "If we were woken (and unqueued), we succeeded": a waiter that a        *)
(* FUTEX_WAKE has counted returns 0, whatever signal or deadline reaches   *)
(* it before it runs.                                                      *)
WakeNotStolen ==
    [][\A t \in Tasks :
         ended[t] = "wake" /\ stage[t] = "woken" /\ stage'[t] = "user" => res'[t] = "0"]_futexVars

(* "the BITSET timeout MUST be honoured": a wait that was given a timeout  *)
(* goes to sleep with a deadline, through every fault of its copies but    *)
(* the one in the bucket loop, and keeps it until something wakes it.      *)
TimeoutHonoured ==
    [][\A t \in Tasks : stage'[t] = "asleep" /\ t \in timed' =>
          IF stage[t] = "asleep" THEN t \in wake_tick => t \in wake_tick'
          ELSE stage[t] = "fault2" \/ t \in wake_tick']_futexVars

=============================================================================
