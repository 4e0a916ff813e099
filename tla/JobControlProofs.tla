-------------------------- MODULE JobControlProofs --------------------------
(***************************************************************************)
(* What the signals and the stops of a process promise, for any number of  *)
(* threads, any signals sent and any masks.                                *)
(*                                                                         *)
(* A stop reaches every thread whatever comes in between.  The other       *)
(* promises rest on the big kernel lock, which keeps every sender out      *)
(* between a test and the sleep that follows it but one: an interrupt on   *)
(* the CPU of the thread that is about to sleep.  Whom it finds there is   *)
(* in hit, and the invariants say how far the damage goes.                 *)
(***************************************************************************)
EXTENDS JobControl, WellFoundedInduction, TLAPS

States == {"unused", "runnable", "sleeping", "stopped", "zombie"}

(* The masks a signal frame or a sigsuspend puts away.                     *)
Types ==
    /\ TypeOK
    /\ saved \in [Threads -> {<<>>} \cup {<<m>> : m \in Masks}]
    /\ frames \in [Threads -> Seq(Masks)]

-----------------------------------------------------------------------------
(* Operators.                                                              *)

(* The least of a set of numbers.                                          *)
LEMMA MinFacts ==
    ASSUME NEW S \in SUBSET Nat, S # {}
    PROVE  Min(S) \in S /\ \A y \in S : Min(S) <= y
<1>1. PICK x \in S : \A y \in S : ~(<<y, x>> \in OpToRel(<, Nat))
    BY NatLessThanWellFounded, WFMin
<1>2. OpToRel(<, Nat) = {p \in Nat \X Nat : p[1] < p[2]}
    BY DEF OpToRel
<1>3. ASSUME NEW y \in S
      PROVE  x <= y
  <2>1. x \in Nat /\ y \in Nat /\ <<y, x>> \in Nat \X Nat
    OBVIOUS
  <2>2. ~(y < x)
    BY <1>1, <1>2, <2>1
  <2> QED
    BY <2>1, <2>2
<1> QED
    BY <1>3 DEF Min

LEMMA SigNumbers ==
    /\ Sigs \cup {SIGKILL, SIGSEGV} \subseteq Nat
    /\ \A sig \in Sigs \cup {SIGKILL, SIGSEGV} : SIGKILL <= sig
    /\ SIGSEGV # SIGKILL
    /\ Masks = SUBSET (Sigs \ {SIGKILL, SIGSTOP})
    /\ StopSigs = {19, 20} /\ SIGKILL = 9 /\ SIGSTOP = 19 /\ SIGCONT = 18
    /\ SIGKILL \notin Caught \cup IgnoredSigs \cup StopSigs
    /\ sig_default_action(SIGKILL) = "fatal"
BY JobControlAssumption
   DEF SIGKILL, SIGUSR1, SIGSEGV, SIGCONT, SIGSTOP, SIGTSTP, StopSigs, Masks, IgnoredSigs,
       sig_default_action

LEMMA ThreadNumbers ==
    /\ Threads \subseteq Nat /\ Parent \notin Threads /\ Nobody \notin Threads
    /\ Parent # Nobody /\ 1 \in Threads
BY JobControlAssumption DEF Threads, Parent, Nobody

(* The signal that is delivered: the thread does not block it, and it is   *)
(* SIGKILL if that is pending on the thread.                               *)
LEMMA DeliveredFacts ==
    ASSUME Types, NEW t \in Threads, Deliverable(t) # {}
    PROVE  /\ Min(Deliverable(t)) \in (Sigs \cup {SIGKILL, SIGSEGV}) \ blocked[t]
           /\ Own(t) # {} => Min(Deliverable(t)) \in pend[t]
           /\ Own(t) = {} => Min(Deliverable(t)) \in shared
           /\ SIGKILL \in pend[t] => Min(Deliverable(t)) = SIGKILL
<1>1. /\ pend[t] \subseteq Sigs \cup {SIGKILL, SIGSEGV} /\ shared \subseteq Sigs
      /\ blocked[t] \in Masks /\ SIGKILL \notin blocked[t]
    BY SigNumbers DEF Types, TypeOK
<1>2. Deliverable(t) \in SUBSET Nat /\ Deliverable(t) \subseteq Sigs \cup {SIGKILL, SIGSEGV}
    BY <1>1, SigNumbers DEF Deliverable, Own
<1>3. Min(Deliverable(t)) \in Deliverable(t) /\ \A y \in Deliverable(t) : Min(Deliverable(t)) <= y
    BY <1>2, MinFacts
<1>4. SIGKILL \in pend[t] => SIGKILL \in Deliverable(t)
    BY <1>1 DEF Deliverable, Own
<1>5. \A sig \in Deliverable(t) : SIGKILL <= sig /\ sig \in Nat
    BY <1>2, SigNumbers
<1>6. SIGKILL \in pend[t] => Min(Deliverable(t)) = SIGKILL
    BY <1>3, <1>4, <1>5, SigNumbers
<1> QED
    BY <1>2, <1>3, <1>6 DEF Deliverable, Own

(* sig_wake_sleeper wakes, and nothing else.                               *)
LEMMA WakeSleeperFacts ==
    ASSUME NEW st \in [Threads -> States], NEW T, NEW sig
    PROVE  /\ sig_wake_sleeper(st, T, sig) \in [Threads -> States]
           /\ \A q \in Threads :
                /\ \/ sig_wake_sleeper(st, T, sig)[q] = st[q]
                   \/ /\ sig_wake_sleeper(st, T, sig)[q] = "runnable" /\ q \in T
                      /\ st[q] = "sleeping" \/ (st[q] = "stopped" /\ sig = SIGKILL)
                /\ q \in T => sig_wake_sleeper(st, T, sig)[q] # "sleeping"
                /\ q \in T /\ sig = SIGKILL => sig_wake_sleeper(st, T, sig)[q] # "stopped"
BY DEF sig_wake_sleeper, States

(* signal_retarget_shared wakes sleeping siblings, and nothing else.       *)
LEMMA RetargetFacts ==
    ASSUME NEW st \in [Threads -> States], NEW t \in Threads, NEW sh, NEW which
    PROVE  /\ signal_retarget_shared(st, t, sh, which) \in [Threads -> States]
           /\ \A q \in Threads :
                \/ signal_retarget_shared(st, t, sh, which)[q] = st[q]
                \/ /\ signal_retarget_shared(st, t, sh, which)[q] = "runnable"
                   /\ st[q] = "sleeping" /\ q # t
BY DEF signal_retarget_shared, States

(* A signal that a sibling can take and that is not ignored has a sibling  *)
(* awake to take it.                                                       *)
LEMMA RetargetTold ==
    ASSUME Types, NEW st \in [Threads -> States], NEW t \in Threads, NEW sh, NEW which,
           NEW sig \in sh \cap which, sig_default_action(sig) # "ignore",
           NEW q \in Live \ {t}, st[q] # "zombie", sig \notin blocked[q]
    PROVE  \E r \in Live \ {t} :
              /\ st[r] # "zombie" /\ sig \notin blocked[r]
              /\ signal_retarget_shared(st, t, sh, which)[r] # "sleeping"
<1> DEFINE siblings == {r \in Live \ {t} : st[r] # "zombie"}
           can == {r \in siblings : sig \notin blocked[r]}
<1>1. can \in SUBSET Nat /\ q \in can
    BY ThreadNumbers DEF Live
<1>2. Min(can) \in can /\ \A y \in can : Min(can) <= y
    BY <1>1, MinFacts
<1>3. PICK r : r = Min(can)
    OBVIOUS
<1>4. /\ r \in siblings /\ r \in Threads /\ sig \notin blocked[r]
      /\ \A p \in siblings : p < r => sig \in blocked[p]
  <2>1. r \in can /\ \A y \in can : r <= y
    BY <1>2, <1>3
  <2>2. \A p \in siblings : p \in Nat
    BY ThreadNumbers DEF Live
  <2>3. r \in siblings /\ r \in Threads /\ sig \notin blocked[r]
    BY <2>1 DEF Live
  <2>4. ASSUME NEW p \in siblings, p < r
        PROVE  sig \in blocked[p]
    <3>1. p \in Nat /\ r \in Nat
      BY <2>2, <2>3
    <3>2. p \notin can
      BY <2>1, <2>4, <3>1
    <3> QED
      BY <3>2
  <2> QED
    BY <2>3, <2>4
<1>5. sig_wakes(r, sig)
    BY <1>4 DEF sig_wakes, sig_ignored
<1>6. st[r] = "sleeping" => signal_retarget_shared(st, t, sh, which)[r] = "runnable"
    BY <1>4, <1>5 DEF signal_retarget_shared
<1>7. signal_retarget_shared(st, t, sh, which)[r] # "sleeping"
    BY <1>4, <1>6, RetargetFacts
<1> QED
    BY <1>4, <1>7

LEMMA RetargetNow ==
    ASSUME Types, NEW t \in Threads, NEW sh, NEW which, NEW sig \in sh \cap which,
           sig_default_action(sig) # "ignore", NEW q \in Live \ {t}, sig \notin blocked[q]
    PROVE  \E r \in Live \ {t} :
              sig \notin blocked[r] /\ signal_retarget_shared(state, t, sh, which)[r] # "sleeping"
<1>1. state \in [Threads -> States] /\ state[q] # "zombie"
    BY DEF Types, TypeOK, States, Live, proc_live
<1> QED
    BY <1>1, RetargetTold

(* Who is made to notice a signal of the process: a thread that can take   *)
(* it, if there is one.                                                    *)
LEMMA TargetFacts ==
    ASSUME Types, NEW ref, NEW sig
    PROVE  /\ \A q \in Target(ref, sig) : q \in Live /\ sig \notin blocked[q]
           /\ (\E q \in Live : sig \notin blocked[q]) => Target(ref, sig) # {}
<1> DEFINE can == {t \in Live : sig \notin blocked[t]}
<1>1. can \in SUBSET Nat
    BY ThreadNumbers DEF Live
<1>2. can # {} => Min(can) \in can
    BY <1>1, MinFacts
<1> QED
    BY <1>2 DEF Target

-----------------------------------------------------------------------------
(* Types.                                                                  *)

LEMMA InitTypes ==
    ASSUME Init
    PROVE  Types
<1> USE JobControlAssumption
<1>1. Threads \subseteq Nat /\ Nobody \notin Threads
    BY ThreadNumbers
<1>2. {} \in Masks /\ {} \subseteq Sigs
    BY DEF Masks
<1>3. TypeOK
    BY <1>1, <1>2 DEF Init, TypeOK
<1>4. <<>> \in Seq(Masks)
    OBVIOUS
<1> QED
    BY <1>3, <1>4 DEF Init, Types

InKernel == {"sleep", "return", "deliver", "halt"}

(* The thread in the kernel is the one with the lock.                      *)
OneInside == \A t \in Threads : pc[t] \in InKernel <=> bkl = t

LEMMA SavedMaskType ==
    ASSUME Types, NEW t \in Threads
    PROVE  SavedMask(t) \in Masks
<1>1. saved[t] = <<>> \/ \E m \in Masks : saved[t] = <<m>>
    BY DEF Types
<1> QED
    BY <1>1 DEF SavedMask, Types, TypeOK

(* The way to user mode.                                                   *)
LEMMA ToUserTypes ==
    ASSUME Types, NEW st \in [Threads -> States], NEW t \in Threads, NEW sh,
           NEW m \in Masks, bkl \in {t, Nobody}, ToUser(st, t, sh, m)
    PROVE  /\ state' \in [Threads -> States]
           /\ blocked' \in [Threads -> Masks]
           /\ saved' \in [Threads -> {<<>>} \cup {<<x>> : x \in Masks}]
           /\ pc' \in [Threads -> {"user", "sleep", "slept", "return", "deliver", "halt",
                                   "halted", "dead"}]
           /\ irqs' \in BOOLEAN
           /\ bkl' \in Threads \cup {Parent, Nobody}
           /\ OneInside'
<1>1. state' \in [Threads -> States]
    BY RetargetFacts DEF ToUser
<1>2. OneInside'
    BY ThreadNumbers DEF Types, TypeOK, ToUser, OneInside, InKernel
<1> QED
    BY <1>1, <1>2 DEF Types, TypeOK, ToUser

LEMMA StopCheckType ==
    ASSUME Types, NEW st, NEW g
    PROVE  /\ signal_group_stop_check(st, g) \in {"out", "test", "asleep", "woken", "reaped"}
           /\ WakeParent(wait) \in {"out", "test", "asleep", "woken", "reaped"}
BY DEF signal_group_stop_check, WakeParent, Types, TypeOK

(* The end of a thread.                                                    *)
LEMMA ExitTypes ==
    ASSUME Types, NEW st \in [Threads -> States], NEW t \in Threads, bkl \in {t, Nobody},
           Forget(t), proc_exit(st, t)
    PROVE  /\ state' \in [Threads -> States]
           /\ jobctl' \in [Threads -> BOOLEAN]
           /\ blocked' \in [Threads -> Masks]
           /\ saved' \in [Threads -> {<<>>} \cup {<<x>> : x \in Masks}]
           /\ frames' \in [Threads -> Seq(Masks)]
           /\ pc' \in [Threads -> {"user", "sleep", "slept", "return", "deliver", "halt",
                                   "halted", "dead"}]
           /\ wait' \in {"out", "test", "asleep", "woken", "reaped"}
           /\ irqs' \in BOOLEAN
           /\ bkl' \in Threads \cup {Parent, Nobody}
           /\ OneInside'
<1>1. [st EXCEPT ![t] = "zombie"] \in [Threads -> States]
    BY DEF States
<1>2. state' \in [Threads -> States]
    BY <1>1, RetargetFacts DEF proc_exit
<1>3. wait' \in {"out", "test", "asleep", "woken", "reaped"}
    BY StopCheckType DEF proc_exit
<1>4. OneInside'
    BY ThreadNumbers DEF Types, TypeOK, proc_exit, OneInside, InKernel
<1>5. {} \in Masks /\ <<>> \in Seq(Masks)
    BY DEF Masks
<1>6. jobctl' \in [Threads -> BOOLEAN]
    BY DEF Types, TypeOK, Forget
<1> QED
    BY <1>2, <1>3, <1>4, <1>5, <1>6 DEF Types, TypeOK, proc_exit, Forget

(* A signal queued.                                                        *)
LEMMA QueueTypes ==
    ASSUME Types, NEW sig \in Sigs, NEW T, NEW proc \in BOOLEAN, proc => sig # SIGKILL, NEW W,
           Queue(sig, T, proc, W)
    PROVE  /\ state' \in [Threads -> States]
           /\ jobctl' \in [Threads -> BOOLEAN]
           /\ pend' \in [Threads -> SUBSET (Sigs \cup {SIGKILL, SIGSEGV})]
           /\ shared' \subseteq Sigs \ {SIGKILL}
           /\ group' \in [stop : StopSigs \cup {0}, continued : BOOLEAN, reported : BOOLEAN]
           /\ wait' \in {"out", "test", "asleep", "woken", "reaped"}
<1>1. [t \in Threads |-> IF sig = SIGCONT /\ state[t] = "stopped" THEN "runnable" ELSE state[t]]
        \in [Threads -> States]
    BY DEF Types, TypeOK, States
<1>2. state' \in [Threads -> States]
    BY <1>1, WakeSleeperFacts DEF Queue
<1>3. pend' \in [Threads -> SUBSET (Sigs \cup {SIGKILL, SIGSEGV})]
           /\ shared' \subseteq Sigs \ {SIGKILL}
    BY DEF Types, TypeOK, Queue
<1>4. wait' \in {"out", "test", "asleep", "woken", "reaped"}
    BY StopCheckType DEF Queue, prepare_job_control, Types, TypeOK
<1>5. group' \in [stop : StopSigs \cup {0}, continued : BOOLEAN, reported : BOOLEAN]
    BY DEF Queue, prepare_job_control, Types, TypeOK
<1>6. jobctl' \in [Threads -> BOOLEAN]
  <2>1. jobctl' = jobctl \/ jobctl' = [t \in Threads |-> jobctl[t] /\ ~proc_live(t)]
    BY DEF Queue, prepare_job_control
  <2>2. \A t \in Threads : (jobctl[t] /\ ~proc_live(t)) \in BOOLEAN
    OBVIOUS
  <2>3. jobctl \in [Threads -> BOOLEAN]
    BY DEF Types, TypeOK
  <2> QED
    BY <2>1, <2>2, <2>3, Zenon
<1> QED
    BY <1>2, <1>3, <1>4, <1>5, <1>6

LEMMA SendTypes ==
    ASSUME Types, Send
    PROVE  Types'
<1>1. PICK sig \in Sigs, t \in Live : signal_send_group(t, sig) \/ signal_send(t, sig)
    BY DEF Send
<1>3. /\ state' \in [Threads -> States]
      /\ jobctl' \in [Threads -> BOOLEAN]
      /\ pend' \in [Threads -> SUBSET (Sigs \cup {SIGKILL, SIGSEGV})]
           /\ shared' \subseteq Sigs \ {SIGKILL}
      /\ group' \in [stop : StopSigs \cup {0}, continued : BOOLEAN, reported : BOOLEAN]
      /\ wait' \in {"out", "test", "asleep", "woken", "reaped"}
  <2>1. CASE signal_send(t, sig)
    BY <2>1, QueueTypes DEF signal_send
  <2>2. CASE signal_send_group(t, sig)
    <3>1. (sig # SIGKILL /\ ~sig_ignored(t, sig)) \in BOOLEAN
      OBVIOUS
    <3> QED
      BY <2>2, <3>1, QueueTypes DEF signal_send_group
  <2> QED
    BY <1>1, <2>1, <2>2
<1>4. UNCHANGED <<pc, asked, blocked, saved, frames, irqs, bkl, late>> /\ missed' \subseteq missed
    BY DEF Send
<1>5. hit' \subseteq Threads \cup {Parent}
    BY DEF Send, AboutToSleep, Types, TypeOK
<1> QED
    BY <1>3, <1>4, <1>5 DEF Types, TypeOK, States

(* An entry from user mode.                                                *)
LEMMA EnterTypes ==
    ASSUME Types, NEW t \in Threads, NEW where \in {"return", "sleep"}, Enter(t, where)
    PROVE  /\ pc' \in [Threads -> {"user", "sleep", "slept", "return", "deliver", "halt",
                                   "halted", "dead"}]
           /\ bkl' \in Threads \cup {Parent, Nobody}
           /\ OneInside'
<1>1. OneInside'
    BY ThreadNumbers DEF Types, TypeOK, Enter, OneInside, InKernel
<1> QED
    BY <1>1 DEF Types, TypeOK, Enter

LEMMA UserTypes ==
    ASSUME Types, NEW t \in Threads, User(t)
    PROVE  Types'
<1>1. CASE Block(t)
  <2>1. Enter(t, "return") \/ Enter(t, "sleep")
    BY <1>1 DEF Block
  <2> QED
    BY <1>1, <2>1, EnterTypes DEF Block, Types, TypeOK, OneInside, InKernel
<1>2. CASE Event(t)
    BY <1>2 DEF Event, Types, TypeOK
<1>3. CASE sys_rt_sigprocmask(t)
  <2>1. PICK m \in SUBSET Maskable :
          /\ Enter(t, "return")
          /\ state' = signal_retarget_shared(state, t, shared, m \ blocked[t])
          /\ blocked' = [blocked EXCEPT ![t] = m]
    BY <1>3 DEF sys_rt_sigprocmask
  <2>2. m \in Masks
    BY JobControlAssumption DEF Masks
  <2>3. state' \in [Threads -> States]
    BY <2>1, RetargetFacts DEF Types, TypeOK, States
  <2>4. blocked' \in [Threads -> Masks]
    BY <2>1, <2>2 DEF Types, TypeOK
  <2>5. UNCHANGED <<asked, jobctl, pend, saved, frames, irqs, shared, group, wait, late, missed, hit>>
    BY <1>3 DEF sys_rt_sigprocmask
  <2> QED
    BY <2>1, <2>3, <2>4, <2>5, EnterTypes DEF Types, TypeOK, OneInside, InKernel, States
<1>4. CASE sys_rt_sigsuspend(t)
  <2>1. PICK m \in SUBSET Maskable :
          /\ Enter(t, "return") \/ Enter(t, "sleep")
          /\ state' = signal_retarget_shared(state, t, shared, m \ blocked[t])
          /\ blocked' = [blocked EXCEPT ![t] = m]
          /\ saved' = [saved EXCEPT ![t] = <<blocked[t]>>]
    BY <1>4 DEF sys_rt_sigsuspend
  <2>2. m \in Masks /\ blocked[t] \in Masks
    BY JobControlAssumption DEF Masks, Types, TypeOK
  <2>3. state' \in [Threads -> States]
    BY <2>1, RetargetFacts DEF Types, TypeOK, States
  <2>4. saved' \in [Threads -> {<<>>} \cup {<<x>> : x \in Masks}]
    BY <2>1, <2>2 DEF Types
  <2> QED
    BY <1>4, <2>1, <2>2, <2>3, <2>4, EnterTypes, ZenonT(40)
       DEF sys_rt_sigsuspend, Types, TypeOK, OneInside, InKernel, States
<1>5. CASE sys_sigreturn(t)
  <2>1. frames[t] \in Seq(Masks) /\ frames[t] # <<>>
    BY <1>5 DEF sys_sigreturn, Types
  <2>2. Head(frames[t]) \in Masks /\ Tail(frames[t]) \in Seq(Masks)
    BY <2>1
  <2>3. frames' \in [Threads -> Seq(Masks)] /\ blocked' \in [Threads -> Masks]
    BY <1>5, <2>2 DEF sys_sigreturn, Types, TypeOK
  <2> QED
    BY <1>5, <2>3, EnterTypes DEF sys_sigreturn, Types, TypeOK, OneInside, InKernel
<1>6. CASE sys_clone(t)
  <2>1. PICK c \in Threads :
          /\ Enter(t, "return")
          /\ state' = [state EXCEPT ![c] = "runnable"]
          /\ blocked' = [blocked EXCEPT ![c] = blocked[t]]
          /\ late' \subseteq late \cup {c}
    BY <1>6 DEF sys_clone
  <2> QED
    BY <1>6, <2>1, EnterTypes DEF sys_clone, Types, TypeOK, OneInside, InKernel
<1>7. CASE sys_exit(t)
  <2>1. pend' \in [Threads -> SUBSET (Sigs \cup {SIGKILL, SIGSEGV})]
    BY <1>7 DEF sys_exit, Types, TypeOK
  <2> QED
    BY <1>7, <2>1, ExitTypes, ZenonT(40) DEF sys_exit, Types, TypeOK, OneInside, InKernel, States
<1> QED
    BY <1>1, <1>2, <1>3, <1>4, <1>5, <1>6, <1>7 DEF User

LEMMA StopTypes ==
    ASSUME Types, NEW st \in [Threads -> States], NEW g, NEW t \in Threads,
           NEW byOther \in BOOLEAN, bkl = t, bkl' = bkl, group_stop_participate(st, g, t, byOther)
    PROVE  /\ state' \in [Threads -> States]
           /\ asked' \in [Threads -> BOOLEAN]
           /\ pc' \in [Threads -> {"user", "sleep", "slept", "return", "deliver", "halt",
                                   "halted", "dead"}]
           /\ wait' \in {"out", "test", "asleep", "woken", "reaped"}
           /\ OneInside'
<1>1. wait' \in {"out", "test", "asleep", "woken", "reaped"}
    BY StopCheckType DEF group_stop_participate
<1>2. OneInside'
    BY DEF Types, TypeOK, group_stop_participate, OneInside, InKernel
<1>3. asked' \in [Threads -> BOOLEAN]
    BY DEF Types, TypeOK, group_stop_participate
<1> QED
    BY <1>1, <1>2, <1>3 DEF Types, TypeOK, group_stop_participate, States

LEMMA KeptType ==
    ASSUME Types, NEW t \in Threads
    PROVE  Kept(t) \in [Threads -> BOOLEAN]
<1>1. (jobctl[t] /\ pc[t] = "deliver") \in BOOLEAN
    OBVIOUS
<1> QED
    BY <1>1, Zenon DEF Kept, Types, TypeOK

(* What becomes of thread t with the signal sig: the group ends, t goes to *)
(* user mode, in a handler perhaps, it starts again with a SIGSEGV, or it  *)
(* stops the group.                                                        *)
Dies(t) == proc_group_exit(t) /\ UNCHANGED <<asked, group, late>>

GoesOn(t, sig) ==
    /\ jobctl' = Kept(t) /\ UNCHANGED <<asked, group, wait, late>>
    /\ pend' = [pend EXCEPT ![t] = IF Own(t) # {} THEN pend[t] \ {sig} ELSE pend[t]]
    /\ sig_default_action(sig) # "fatal"
    /\ \/ /\ ToUser(state, t, shared', SavedMask(t)) /\ frames' = frames
          /\ sig_default_action(sig) = "ignore"
       \/ /\ ToUser(state, t, shared', blocked[t] \cup {sig})
          /\ sig_default_action(sig) = "handler"
          /\ frames' = [frames EXCEPT ![t] = <<SavedMask(t)>> \o frames[t]]

Faults(t, sig) ==
    /\ sig_default_action(sig) = "handler"
    /\ pend' = [pend EXCEPT ![t] =
                  (IF Own(t) # {} THEN pend[t] \ {sig} ELSE pend[t]) \cup {SIGSEGV}]
    /\ jobctl' = Kept(t)
    /\ pc' = [pc EXCEPT ![t] = "return"]
    /\ UNCHANGED <<state, asked, blocked, saved, frames, irqs, group, wait, bkl, late>>

Stops(t, sig) ==
    /\ sig_default_action(sig) = "stop" /\ do_group_stop(t, sig) /\ late' = {}
    /\ pend' = [pend EXCEPT ![t] = IF Own(t) # {} THEN pend[t] \ {sig} ELSE pend[t]]
    /\ UNCHANGED <<blocked, saved, frames, irqs, bkl>>

LEMMA DeliverCases ==
    ASSUME Types, NEW t \in Threads, Deliver(t), NEW sig, sig = Min(Deliverable(t))
    PROVE  /\ Dies(t) \/ GoesOn(t, sig) \/ Faults(t, sig) \/ Stops(t, sig)
           /\ sig \in (Sigs \cup {SIGKILL, SIGSEGV}) \ blocked[t] /\ bkl = t
           /\ hit' = hit /\ used' = used
           /\ shared' = IF Own(t) # {} THEN shared ELSE shared \ {sig}
           /\ missed' = missed \ {sig}
           /\ Own(t) # {} => sig \in pend[t]
           /\ Own(t) = {} => sig \in shared
           /\ SIGKILL \in pend[t] => sig = SIGKILL
           /\ pc[t] \in {"deliver", "return"} /\ (pc[t] = "return" /\ jobctl[t] => SIGKILL \in pend[t])
<1>1. Dies(t) \/ GoesOn(t, sig) \/ Faults(t, sig) \/ Stops(t, sig)
    BY DEF Deliver, Dies, GoesOn, Faults, Stops
<1> QED
    BY <1>1, DeliveredFacts DEF Deliver, AtDelivery

(* jobctl_stop is cleared only where it was clear.                         *)
LEMMA KeptSame ==
    ASSUME Types, NEW t \in Threads, pc[t] = "deliver" \/ ~jobctl[t]
    PROVE  \A q \in Threads : Kept(t)[q] = jobctl[q]
<1>1. jobctl[t] \in BOOLEAN /\ (jobctl[t] /\ pc[t] = "deliver") = jobctl[t]
    BY DEF Types, TypeOK
<1> QED
    BY <1>1 DEF Kept, Types, TypeOK

LEMMA DeliverTypes ==
    ASSUME Types, NEW t \in Threads, Deliver(t)
    PROVE  Types'
<1>1. PICK sig : sig = Min(Deliverable(t))
    OBVIOUS
<1>2. sig \in Sigs \cup {SIGKILL, SIGSEGV} /\ bkl = t
    BY <1>1, DeliveredFacts DEF Deliver, AtDelivery
<1>3. /\ shared' \subseteq Sigs \ {SIGKILL} /\ missed' \subseteq Sigs /\ SavedMask(t) \in Masks
      /\ blocked[t] \in Masks /\ state \in [Threads -> States] /\ hit' = hit /\ used' = used
    BY SavedMaskType DEF Deliver, Types, TypeOK, States
<1>4. CASE proc_group_exit(t) /\ UNCHANGED <<asked, group, late>>
  <2> DEFINE others == Live \ {t}
  <2>1. sig_wake_sleeper(state, others, SIGKILL) \in [Threads -> States]
    BY <1>3, WakeSleeperFacts
  <2>2. pend' \in [Threads -> SUBSET (Sigs \cup {SIGKILL, SIGSEGV})]
    BY <1>4 DEF proc_group_exit, Types, TypeOK
  <2>3. Forget(t) /\ proc_exit(sig_wake_sleeper(state, others, SIGKILL), t)
    BY <1>4 DEF proc_group_exit
  <2> HIDE DEF others
  <2> QED
    BY <1>2, <1>3, <1>4, <2>1, <2>2, <2>3, ExitTypes, ZenonT(40)
       DEF Types, TypeOK, OneInside, InKernel, States
<1>5. CASE /\ jobctl' = Kept(t)
           /\ UNCHANGED <<asked, group, wait, late>>
           /\ \E own \in SUBSET pend[t] : pend' = [pend EXCEPT ![t] = own]
           /\ frames' \in [Threads -> Seq(Masks)]
           /\ \E m \in Masks : ToUser(state, t, shared', m)
  <2>1. pend' \in [Threads -> SUBSET (Sigs \cup {SIGKILL, SIGSEGV})]
    BY <1>5 DEF Types, TypeOK
  <2> QED
    BY <1>2, <1>3, <1>5, <2>1, ToUserTypes, KeptType
       DEF Types, TypeOK, OneInside, InKernel, States
<1>6. CASE /\ sig \in StopSigs /\ do_group_stop(t, sig) /\ late' = {}
           /\ \E own \in SUBSET pend[t] : pend' = [pend EXCEPT ![t] = own]
           /\ UNCHANGED <<blocked, saved, frames, irqs, bkl>>
  <2> DEFINE others == {q \in Live \ {t} : state[q] # "stopped"}
             g == [stop |-> sig, continued |-> FALSE, reported |-> FALSE]
  <2>1. pend' \in [Threads -> SUBSET (Sigs \cup {SIGKILL, SIGSEGV})]
    BY <1>6 DEF Types, TypeOK
  <2>2. sig_wake_sleeper(state, others, sig) \in [Threads -> States]
    BY <1>3, WakeSleeperFacts
  <2>3. /\ group' = g /\ jobctl' = [q \in Threads |-> q # t /\ (jobctl[q] \/ q \in others)]
        /\ group_stop_participate(sig_wake_sleeper(state, others, sig), g, t, FALSE)
    BY <1>6 DEF do_group_stop
  <2>4. group' \in [stop : StopSigs \cup {0}, continued : BOOLEAN, reported : BOOLEAN]
    BY <1>6, <2>3
  <2>5. jobctl' \in [Threads -> BOOLEAN]
    <3>1. \A q \in Threads : (q # t /\ (jobctl[q] \/ q \in others)) \in BOOLEAN
      OBVIOUS
    <3> QED
      BY <2>3, <3>1, Zenon
  <2> HIDE DEF others, g
  <2> QED
    BY <1>2, <1>3, <1>6, <2>1, <2>2, <2>3, <2>4, <2>5, StopTypes
       DEF Types, TypeOK, OneInside, InKernel, States
<1>7. sig_default_action(sig) = "stop" => sig \in StopSigs
    BY DEF sig_default_action
<1>8. sig_default_action(sig) = "handler" => sig \in Sigs /\ blocked[t] \cup {sig} \in Masks
    BY <1>3, JobControlAssumption DEF sig_default_action, Masks
<1>9. <<SavedMask(t)>> \o frames[t] \in Seq(Masks)
    BY <1>3 DEF Types
<1>10. CASE GoesOn(t, sig)
  <2>1. frames' \in [Threads -> Seq(Masks)]
    BY <1>9, <1>10 DEF Types, GoesOn
  <2>2. \E m \in Masks : ToUser(state, t, shared', m)
    BY <1>3, <1>8, <1>10 DEF GoesOn
  <2>3. \E own \in SUBSET pend[t] : pend' = [pend EXCEPT ![t] = own]
    BY <1>10 DEF GoesOn
  <2> QED
    BY <1>5, <1>10, <2>1, <2>2, <2>3 DEF GoesOn
<1>11. CASE Stops(t, sig)
    BY <1>6, <1>7, <1>11 DEF Stops
<1>12. CASE Faults(t, sig)
  <2>1. pend' \in [Threads -> SUBSET (Sigs \cup {SIGKILL, SIGSEGV})]
    BY <1>12 DEF Faults, Types, TypeOK
  <2>2. pc' = [pc EXCEPT ![t] = "return"] /\ UNCHANGED <<state, asked, blocked, saved, frames>>
    BY <1>12 DEF Faults
  <2>3. OneInside' /\ UNCHANGED <<irqs, group, wait, bkl, late>> /\ jobctl' = Kept(t)
    BY <1>2, <1>12, <2>2 DEF Faults, Types, TypeOK, OneInside, InKernel
  <2> QED
    BY <1>3, <2>1, <2>2, <2>3, KeptType DEF Types, TypeOK, OneInside, InKernel
<1> QED
    BY <1>1, <1>4, <1>10, <1>11, <1>12, DeliverCases DEF Dies

LEMMA KernelTypes ==
    ASSUME Types, NEW t \in Threads, Kernel(t)
    PROVE  Types'
<1>0. state \in [Threads -> States] /\ SavedMask(t) \in Masks
    BY SavedMaskType DEF Types, TypeOK, States
<1>1. CASE StopAsked(t)
  <2>1. group_stop_participate(state, group, t, TRUE) /\ bkl = t /\ bkl' = bkl
    BY <1>1 DEF StopAsked
  <2>2. jobctl' \in [Threads -> BOOLEAN]
    BY <1>1 DEF StopAsked, Types, TypeOK
  <2>3. UNCHANGED <<pend, blocked, saved, frames, irqs, shared, group, bkl, late, missed, hit>>
    BY <1>1 DEF StopAsked
  <2> QED
    BY <1>0, <2>1, <2>2, <2>3, StopTypes, ZenonT(40) DEF Types, TypeOK, OneInside, InKernel, States
<1>2. CASE DeliverNothing(t)
  <2>1. ToUser(state, t, shared, SavedMask(t)) /\ bkl = t /\ jobctl' = Kept(t)
    BY <1>2 DEF DeliverNothing, AtDelivery
  <2>2. UNCHANGED <<asked, pend, frames, shared, group, wait, late, missed, hit>>
    BY <1>2 DEF DeliverNothing
  <2> QED
    BY <1>0, <2>1, <2>2, ToUserTypes, KeptType DEF Types, TypeOK, OneInside, InKernel, States
<1>3. CASE Deliver(t)
    BY <1>3, DeliverTypes
<1>4. CASE proc_stop_self(t)
    BY <1>4, ThreadNumbers DEF proc_stop_self, Types, TypeOK
<1>5. CASE Resume(t)
  <2>1. asked' \in [Threads -> BOOLEAN]
    BY <1>5 DEF Resume, Types, TypeOK
  <2>2. /\ UNCHANGED <<jobctl, pend, frames, shared, group, wait, late, missed>> /\ bkl = Nobody
        /\ hit' \subseteq hit
    BY <1>5 DEF Resume
  <2>3. CASE ToUser(state, t, shared, SavedMask(t))
    BY <1>0, <2>1, <2>2, <2>3, ToUserTypes DEF Types, TypeOK, OneInside, InKernel, States
  <2>4. CASE /\ bkl' = t /\ pc' = [pc EXCEPT ![t] = "deliver"]
             /\ irqs' = TRUE
             /\ UNCHANGED <<state, blocked, saved>>
    BY <2>1, <2>2, <2>4, ThreadNumbers, JobControlAssumption DEF Types, TypeOK
  <2> QED
    BY <1>5, <2>3, <2>4 DEF Resume
<1>6. CASE Interrupt(t)
    BY <1>6, EnterTypes DEF Interrupt, Types, TypeOK, OneInside, InKernel
<1>7. CASE Sleep(t)
    BY <1>7, ThreadNumbers DEF Sleep, Types, TypeOK
<1>8. CASE Slept(t)
    BY <1>8, ThreadNumbers, JobControlAssumption DEF Slept, Types, TypeOK
<1> QED
    BY <1>1, <1>2, <1>3, <1>4, <1>5, <1>6, <1>7, <1>8 DEF Kernel

LEMMA ParentTypes ==
    ASSUME Types, sys_waitpid \/ WaitSleep
    PROVE  Types'
<1>1. CASE sys_waitpid
  <2>1. /\ group' \in [stop : StopSigs \cup {0}, continued : BOOLEAN, reported : BOOLEAN]
        /\ wait' \in {"out", "test", "asleep", "woken", "reaped"}
    BY <1>1 DEF sys_waitpid, Scan, Types, TypeOK
  <2>2. bkl = Nobody /\ bkl' \in {Nobody, Parent}
    BY <1>1 DEF sys_waitpid, Scan
  <2>3. irqs' \in BOOLEAN /\ hit' \subseteq hit
    BY <1>1 DEF sys_waitpid
  <2>4. UNCHANGED <<state, pc, asked, jobctl, pend, blocked, saved, frames, shared, late, missed>>
    BY <1>1 DEF sys_waitpid, thread
  <2> QED
    BY <2>1, <2>2, <2>3, <2>4, ThreadNumbers DEF Types, TypeOK
<1>2. CASE WaitSleep
    BY <1>2, ThreadNumbers DEF WaitSleep, thread, Types, TypeOK
<1> QED
    BY <1>1, <1>2

LEMMA NextTypes ==
    ASSUME Types, [Next]_vars
    PROVE  Types'
<1>1. CASE UNCHANGED vars
    BY <1>1 DEF vars, thread, Types, TypeOK
<1>2. CASE Next
    BY <1>2, SendTypes, ParentTypes, KernelTypes, UserTypes DEF Next
<1> QED
    BY <1>1, <1>2

-----------------------------------------------------------------------------
(* States of the threads in the kernel.                                    *)

(* A thread in the kernel runs; one between group_stop_participate and the *)
(* end of proc_stop_self is stopped, unless an interrupt has resumed it.   *)
WhereOK(t) ==
    /\ pc[t] \in {"sleep", "return", "deliver"} => state[t] = "runnable"
    /\ pc[t] = "halt" => state[t] = "stopped" \/ (state[t] = "runnable" /\ t \in hit)

Where == \A t \in Threads : WhereOK(t)

(* Only the thread with the lock matters.                                  *)
LEMMA WhereOne ==
    ASSUME Types, NEW t \in Threads, bkl \in {t, Nobody},
           \A q \in Threads \ {t} : pc'[q] = pc[q], WhereOK(t)'
    PROVE  Where'
<1>1. \A q \in Threads \ {t} : pc[q] \notin {"sleep", "return", "deliver", "halt"}
    BY ThreadNumbers DEF Types, TypeOK
<1> QED
    BY <1>1 DEF Where, WhereOK

LEMMA SendWhere ==
    ASSUME Types, Where, Send
    PROVE  Where'
<1>1. PICK sig \in Sigs, t \in Live : signal_send_group(t, sig) \/ signal_send(t, sig)
    BY DEF Send
<1>2. ASSUME NEW T, NEW proc, NEW W, Queue(sig, T, proc, W)
      PROVE  \A q \in Threads :
                /\ state[q] = "runnable" => state'[q] = "runnable"
                /\ state[q] = "stopped" => state'[q] \in {"stopped", "runnable"}
  <2> DEFINE resumed == [q \in Threads |-> IF sig = SIGCONT /\ state[q] = "stopped"
                                           THEN "runnable" ELSE state[q]]
  <2>1. resumed \in [Threads -> States] /\ state' = sig_wake_sleeper(resumed, W, sig)
    BY <1>2 DEF Queue, Types, TypeOK, States
  <2>2. \A q \in Threads : /\ state[q] = "runnable" => resumed[q] = "runnable"
                           /\ state[q] = "stopped" => resumed[q] \in {"stopped", "runnable"}
    OBVIOUS
  <2> HIDE DEF resumed
  <2> QED
    BY <2>1, <2>2, WakeSleeperFacts
<1>3. \A q \in Threads : /\ state[q] = "runnable" => state'[q] = "runnable"
                         /\ state[q] = "stopped" => state'[q] \in {"stopped", "runnable"}
    BY <1>1, <1>2 DEF signal_send, signal_send_group
<1>4. pc' = pc /\ hit \subseteq hit'
    BY DEF Send
<1>5. \A q \in Threads : pc[q] = "halt" => q \in hit'
  <2>1. \A q \in Threads : pc[q] = "halt" => bkl = q
    BY DEF Types, TypeOK
  <2> QED
    BY <2>1 DEF Send, AboutToSleep
<1> QED
    BY <1>3, <1>4, <1>5 DEF Where, WhereOK

LEMMA UserWhere ==
    ASSUME Types, Where, NEW t \in Threads, User(t)
    PROVE  Where'
<1>0. state \in [Threads -> States]
    BY DEF Types, TypeOK, States
<1>1. ASSUME NEW where \in {"sleep", "return"}, Enter(t, where), state'[t] = "runnable"
      PROVE  Where'
  <2>1. bkl = Nobody /\ \A q \in Threads \ {t} : pc'[q] = pc[q]
    BY <1>1 DEF Enter, Types, TypeOK
  <2>2. pc'[t] \in {"sleep", "return"}
    BY <1>1 DEF Enter, Types, TypeOK
  <2>3. WhereOK(t)'
    BY <1>1, <2>2 DEF WhereOK
  <2> QED
    BY <2>1, <2>3, WhereOne
<1>2. CASE Block(t)
    BY <1>1, <1>2 DEF Block, Enter
<1>3. CASE Event(t)
    BY <1>3 DEF Event, Types, TypeOK, Where, WhereOK
<1>4. CASE sys_rt_sigprocmask(t)
    BY <1>0, <1>1, <1>4, RetargetFacts DEF sys_rt_sigprocmask, Enter
<1>5. CASE sys_rt_sigsuspend(t)
  <2>1. Enter(t, "return") \/ Enter(t, "sleep")
    BY <1>5 DEF sys_rt_sigsuspend
  <2>2. state[t] = "runnable"
    BY <2>1 DEF Enter
  <2>3. state'[t] = "runnable"
    BY <1>0, <1>5, <2>2, RetargetFacts DEF sys_rt_sigsuspend
  <2> QED
    BY <1>1, <2>1, <2>3
<1>6. CASE sys_sigreturn(t)
    BY <1>1, <1>6 DEF sys_sigreturn, Enter
<1>7. CASE sys_clone(t)
    BY <1>0, <1>1, <1>7 DEF sys_clone, Enter
<1>8. CASE sys_exit(t)
  <2>1. bkl = Nobody /\ pc' = [pc EXCEPT ![t] = "dead"]
    BY <1>8 DEF sys_exit, proc_exit
  <2>2. WhereOK(t)' /\ \A q \in Threads \ {t} : pc'[q] = pc[q]
    BY <2>1 DEF WhereOK, Types, TypeOK
  <2> QED
    BY <2>1, <2>2, WhereOne
<1> QED
    BY <1>2, <1>3, <1>4, <1>5, <1>6, <1>7, <1>8 DEF User

LEMMA KernelWhere ==
    ASSUME Types, Where, NEW t \in Threads, Kernel(t)
    PROVE  Where'
<1>0. pc \in [Threads -> {"user", "sleep", "slept", "return", "deliver", "halt", "halted", "dead"}]
      /\ state \in [Threads -> States]
    BY DEF Types, TypeOK, States
<1>1. ASSUME bkl \in {t, Nobody}, NEW x \in {"user", "slept", "halted", "dead"},
             pc' = [pc EXCEPT ![t] = x]
      PROVE  Where'
    BY <1>0, <1>1, WhereOne DEF WhereOK
<1>2. CASE StopAsked(t)
    BY <1>0, <1>2, WhereOne DEF StopAsked, group_stop_participate, WhereOK
<1>3. CASE DeliverNothing(t)
    BY <1>1, <1>3 DEF DeliverNothing, AtDelivery, ToUser
<1>4. CASE Deliver(t)
  <2>1. PICK sig : sig = Min(Deliverable(t))
    OBVIOUS
  <2>2. (Dies(t) \/ GoesOn(t, sig) \/ Faults(t, sig) \/ Stops(t, sig)) /\ bkl = t
    BY <1>4, <2>1, DeliverCases
  <2>3. CASE Dies(t)
    BY <1>1, <2>2, <2>3 DEF Dies, proc_group_exit, proc_exit
  <2>4. CASE GoesOn(t, sig)
    BY <1>1, <2>2, <2>4 DEF GoesOn, ToUser
  <2>5. CASE Stops(t, sig)
    <3>1. PICK st \in [Threads -> States] : state' = [st EXCEPT ![t] = "stopped"]
      BY <1>0, <2>5, WakeSleeperFacts DEF Stops, do_group_stop, group_stop_participate
    <3>2. pc' = [pc EXCEPT ![t] = "halt"]
      BY <2>5 DEF Stops, do_group_stop, group_stop_participate
    <3> QED
      BY <1>0, <2>2, <3>1, <3>2, WhereOne DEF WhereOK
  <2>6. CASE Faults(t, sig)
    <3>1. state[t] = "runnable"
      BY <1>4 DEF Deliver, AtDelivery, Where, WhereOK
    <3> QED
      BY <1>0, <2>2, <2>6, <3>1, WhereOne DEF Faults, WhereOK
  <2> QED
    BY <2>2, <2>3, <2>4, <2>5, <2>6
<1>5. CASE proc_stop_self(t)
    BY <1>1, <1>5 DEF proc_stop_self
<1>6. CASE Resume(t)
  <2>1. CASE ToUser(state, t, shared, SavedMask(t))
    BY <1>1, <1>6, <2>1 DEF Resume, ToUser
  <2>2. CASE pc' = [pc EXCEPT ![t] = "deliver"] /\ UNCHANGED state
    BY <1>0, <1>6, <2>2, WhereOne DEF Resume, WhereOK
  <2> QED
    BY <1>6, <2>1, <2>2 DEF Resume
<1>7. CASE Interrupt(t)
    BY <1>0, <1>7, WhereOne DEF Interrupt, Enter, WhereOK
<1>8. CASE Sleep(t)
    BY <1>1, <1>8 DEF Sleep
<1>9. CASE Slept(t)
    BY <1>0, <1>9, WhereOne DEF Slept, WhereOK
<1> QED
    BY <1>2, <1>3, <1>4, <1>5, <1>6, <1>7, <1>8, <1>9 DEF Kernel

LEMMA NextWhere ==
    ASSUME Types, Where, [Next]_vars
    PROVE  Where'
<1>1. CASE UNCHANGED vars \/ WaitSleep
    BY <1>1 DEF vars, thread, WaitSleep, Where, WhereOK
<1>2. CASE sys_waitpid
  <2>1. \A q \in Threads : q \in hit' <=> q \in hit
    BY <1>2, ThreadNumbers DEF sys_waitpid
  <2> QED
    BY <1>2, <2>1 DEF sys_waitpid, thread, Where, WhereOK
<1> QED
    BY <1>1, <1>2, SendWhere, KernelWhere, UserWhere DEF Next

-----------------------------------------------------------------------------
(* A stop reaches every thread.                                            *)

LEMMA SendReaches ==
    ASSUME Types, StopReachesAll, Send
    PROVE  StopReachesAll'
<1>1. PICK sig \in Sigs, t \in Live : signal_send_group(t, sig) \/ signal_send(t, sig)
    BY DEF Send
<1>2. ASSUME NEW T, NEW proc, NEW W, Queue(sig, T, proc, W), sig = SIGKILL => W \subseteq T
      PROVE  StopReachesAll'
  <2> DEFINE resumed == [q \in Threads |-> IF sig = SIGCONT /\ state[q] = "stopped"
                                           THEN "runnable" ELSE state[q]]
  <2>1. resumed \in [Threads -> States] /\ state' = sig_wake_sleeper(resumed, W, sig)
    BY <1>2 DEF Queue, Types, TypeOK, States
  <2>2. \A q \in Threads : q \in Live' => q \in Live
    <3>1. \A q \in Threads : state[q] \in {"unused", "zombie"} => resumed[q] = state[q]
      OBVIOUS
    <3> HIDE DEF resumed
    <3>2. \A q \in Threads : state[q] \in {"unused", "zombie"} => state'[q] = state[q]
      BY <2>1, <3>1, WakeSleeperFacts
    <3> QED
      BY <3>2 DEF Live, proc_live
  <2>3. CASE sig = SIGCONT
    <3>1. group'.stop = 0
      BY <1>2, <2>3 DEF Queue, prepare_job_control, Types, TypeOK
    <3> QED
      BY <3>1 DEF StopReachesAll
  <2>4. CASE sig # SIGCONT
    <3>1. group' = group /\ jobctl' = jobctl /\ late' = late
      BY <1>2, <2>4 DEF Queue, prepare_job_control, Send
    <3>2. \A q \in Threads : SIGKILL \in pend[q] => SIGKILL \in pend'[q]
      BY <1>2, SigNumbers DEF Queue, Dropped
    <3>3. \A q \in Threads : state[q] = "stopped" =>
            state'[q] = "stopped" \/ (sig = SIGKILL /\ q \in W)
      BY <2>1, <2>4, WakeSleeperFacts
    <3>4. sig = SIGKILL => \A q \in W \cap Threads : SIGKILL \in pend'[q]
      BY <1>2 DEF Queue
    <3> QED
      BY <2>2, <3>1, <3>2, <3>3, <3>4 DEF StopReachesAll, Live
  <2> QED
    BY <2>3, <2>4
<1>3. CASE signal_send(t, sig)
    BY <1>2, <1>3 DEF signal_send
<1>4. CASE signal_send_group(t, sig)
    BY <1>2, <1>4 DEF signal_send_group
<1> QED
    BY <1>1, <1>3, <1>4

LEMMA ToUserReaches ==
    ASSUME Types, StopReachesAll, NEW t \in Threads, NEW sh, NEW m,
           ToUser(state, t, sh, m), group' = group, late' = late,
           \A q \in Threads : jobctl'[q] = jobctl[q],
           \A q \in Threads : SIGKILL \in pend[q] => SIGKILL \in pend'[q]
    PROVE  StopReachesAll'
<1>1. \A q \in Threads : state'[q] = state[q] \/ (state[q] = "sleeping" /\ state'[q] = "runnable")
  <2>1. state \in [Threads -> States] /\ state' = signal_retarget_shared(state, t, sh, m \ blocked[t])
    BY DEF ToUser, Types, TypeOK, States
  <2> QED
    BY <2>1, RetargetFacts
<1> QED
    BY <1>1 DEF StopReachesAll, Live, proc_live

LEMMA ExitReaches ==
    ASSUME Types, StopReachesAll, NEW t \in Threads, NEW st \in [Threads -> States],
           \A q \in Threads : \/ st[q] = state[q]
                              \/ state[q] \in {"sleeping", "stopped"} /\ st[q] = "runnable",
           \A q \in Threads \ {t} : state[q] = "stopped" => st[q] = "stopped" \/ SIGKILL \in pend'[q],
           \A q \in Threads \ {t} : SIGKILL \in pend[q] => SIGKILL \in pend'[q],
           Forget(t), proc_exit(st, t), group' = group, late' = late
    PROVE  StopReachesAll'
<1> DEFINE left == [st EXCEPT ![t] = "zombie"]
<1>1. left \in [Threads -> States]
    BY DEF States
<1>2. state' = signal_retarget_shared(left, t, shared', Sigs)
    BY DEF proc_exit
<1>3. left[t] = "zombie" /\ \A q \in Threads \ {t} : left[q] = st[q]
    OBVIOUS
<1> HIDE DEF left
<1>4. /\ state'[t] = "zombie"
      /\ \A q \in Threads \ {t} : state'[q] = st[q] \/ (st[q] = "sleeping" /\ state'[q] = "runnable")
    BY <1>1, <1>2, <1>3, RetargetFacts
<1>5. \A q \in Threads \ {t} : jobctl'[q] = jobctl[q]
    BY DEF Forget, Types, TypeOK
<1> QED
    BY <1>4, <1>5 DEF StopReachesAll, Live, proc_live

LEMMA UserReaches ==
    ASSUME Types, StopReachesAll, NEW t \in Threads, User(t)
    PROVE  StopReachesAll'
<1>0. state \in [Threads -> States]
    BY DEF Types, TypeOK, States
<1>1. CASE Block(t)
    BY <1>1 DEF Block, StopReachesAll, Live, proc_live
<1>2. CASE Event(t)
    BY <1>2 DEF Event, StopReachesAll, Live, proc_live, Types, TypeOK
<1>3. CASE sys_rt_sigprocmask(t)
  <2>1. \A q \in Threads : state'[q] = state[q] \/ (state[q] = "sleeping" /\ state'[q] = "runnable")
    BY <1>0, <1>3, RetargetFacts DEF sys_rt_sigprocmask
  <2> QED
    BY <1>3, <2>1 DEF sys_rt_sigprocmask, StopReachesAll, Live, proc_live
<1>4. CASE sys_rt_sigsuspend(t)
  <2>1. \A q \in Threads : state'[q] = state[q] \/ (state[q] = "sleeping" /\ state'[q] = "runnable")
    BY <1>0, <1>4, RetargetFacts DEF sys_rt_sigsuspend
  <2> QED
    BY <1>4, <2>1 DEF sys_rt_sigsuspend, StopReachesAll, Live, proc_live
<1>5. CASE sys_sigreturn(t)
    BY <1>5 DEF sys_sigreturn, StopReachesAll, Live, proc_live
<1>6. CASE sys_clone(t)
    BY <1>6 DEF sys_clone, StopReachesAll, Live, proc_live, Types, TypeOK
<1>7. CASE sys_exit(t)
    BY <1>0, <1>7, ExitReaches DEF sys_exit, Types, TypeOK
<1> QED
    BY <1>1, <1>2, <1>3, <1>4, <1>5, <1>6, <1>7 DEF User

LEMMA KernelReaches ==
    ASSUME Types, Where, StopReachesAll, NEW t \in Threads, Kernel(t)
    PROVE  StopReachesAll'
<1>0. state \in [Threads -> States]
    BY DEF Types, TypeOK, States
<1>1. CASE StopAsked(t)
    BY <1>1 DEF StopAsked, group_stop_participate, StopReachesAll, Live, proc_live, Types, TypeOK
<1>2. CASE DeliverNothing(t)
  <2>1. SIGKILL \notin pend[t]
    <3>1. pend[t] \ blocked[t] = {} /\ SIGKILL \notin blocked[t]
      BY <1>2, SigNumbers DEF DeliverNothing, Deliverable, Own, Types, TypeOK
    <3> QED
      BY <3>1
  <2>2. \A q \in Threads : jobctl'[q] = jobctl[q]
    BY <1>2, <2>1 DEF DeliverNothing, AtDelivery, Kept, Types, TypeOK
  <2> QED
    BY <1>2, <2>2, ToUserReaches DEF DeliverNothing
<1>3. CASE Deliver(t)
  <2>1. PICK sig : sig = Min(Deliverable(t))
    OBVIOUS
  <2>2. CASE Dies(t)
    <3> DEFINE others == Live \ {t}
               st == sig_wake_sleeper(state, others, SIGKILL)
    <3>1. Forget(t) /\ proc_exit(st, t) /\ group' = group /\ late' = late
      BY <2>2 DEF Dies, proc_group_exit
    <3>2. \A q \in Threads : q \in others => SIGKILL \in pend'[q]
      BY <2>2 DEF Dies, proc_group_exit
    <3>3. \A q \in Threads : state[q] \notin {"unused", "zombie"} /\ q # t => q \in others
      BY DEF Live, proc_live
    <3>4. /\ st \in [Threads -> States]
          /\ \A q \in Threads : \/ st[q] = state[q]
                                \/ state[q] \in {"sleeping", "stopped"} /\ st[q] = "runnable"
      BY <1>0, WakeSleeperFacts
    <3> HIDE DEF others, st
    <3>5. state'[t] = "zombie" /\ \A q \in Threads : state[q] \in {"unused", "zombie"} =>
                                                     state'[q] = "zombie" \/ state'[q] = state[q]
      <4> DEFINE left == [st EXCEPT ![t] = "zombie"]
      <4>1. left \in [Threads -> States] /\ state' = signal_retarget_shared(left, t, shared', Sigs)
        BY <3>1, <3>4 DEF proc_exit, States
      <4>2. left[t] = "zombie" /\ \A q \in Threads \ {t} : left[q] = st[q]
        BY <3>4
      <4> HIDE DEF left
      <4> QED
        BY <3>4, <4>1, <4>2, RetargetFacts
    <3> QED
      BY <3>2, <3>3, <3>5 DEF StopReachesAll, Live, proc_live
  <2>3. CASE GoesOn(t, sig)
    <3>1. SIGKILL \notin pend[t]
      BY <1>3, <2>1, <2>3, DeliverCases, SigNumbers DEF GoesOn
    <3>2. \A q \in Threads : jobctl'[q] = jobctl[q]
      <4>1. pc[t] = "deliver" \/ ~jobctl[t]
        BY <1>3, <2>1, <3>1, DeliverCases
      <4> QED
        BY <2>3, <4>1, KeptSame DEF GoesOn
    <3>3. \A q \in Threads : SIGKILL \in pend[q] => SIGKILL \in pend'[q]
      BY <2>3, <3>1 DEF GoesOn, Types, TypeOK
    <3> QED
      BY <2>3, <3>2, <3>3, ToUserReaches DEF GoesOn
  <2>4. CASE Stops(t, sig)
    <3> DEFINE others == {q \in Live \ {t} : state[q] # "stopped"}
    <3>1. /\ state' = [sig_wake_sleeper(state, others, sig) EXCEPT ![t] = "stopped"]
          /\ jobctl' = [q \in Threads |-> q # t /\ (jobctl[q] \/ q \in others)]
      BY <2>4 DEF Stops, do_group_stop, group_stop_participate
    <3>2. sig # SIGKILL
      BY <2>4, SigNumbers DEF Stops
    <3>3. /\ state'[t] = "stopped"
          /\ \A q \in Threads \ {t} : state'[q] = state[q]
                                      \/ (state[q] = "sleeping" /\ state'[q] = "runnable")
      BY <1>0, <3>1, <3>2, WakeSleeperFacts
    <3>4. \A q \in Threads \ {t} : q \in Live /\ state[q] # "stopped" => jobctl'[q]
      BY <3>1
    <3> QED
      BY <3>3, <3>4 DEF StopReachesAll, Live, proc_live
  <2>5. CASE Faults(t, sig)
    <3>1. SIGKILL \notin pend[t]
      BY <1>3, <2>1, <2>5, DeliverCases, SigNumbers DEF Faults
    <3>2. \A q \in Threads : jobctl'[q] = jobctl[q]
      <4>1. pc[t] = "deliver" \/ ~jobctl[t]
        BY <1>3, <2>1, <3>1, DeliverCases
      <4> QED
        BY <2>5, <4>1, KeptSame DEF Faults
    <3>3. \A q \in Threads : SIGKILL \in pend[q] => SIGKILL \in pend'[q]
      BY <2>5, <3>1 DEF Faults, Types, TypeOK
    <3> QED
      BY <2>5, <3>2, <3>3 DEF Faults, StopReachesAll, Live, proc_live
  <2> QED
    BY <1>3, <2>1, <2>2, <2>3, <2>4, <2>5, DeliverCases
<1>4. CASE proc_stop_self(t)
    BY <1>4 DEF proc_stop_self, StopReachesAll, Live, proc_live, Types, TypeOK
<1>5. CASE Resume(t)
    BY <1>5, ToUserReaches DEF Resume, StopReachesAll, Live, proc_live
<1>6. CASE Interrupt(t)
    BY <1>6 DEF Interrupt, StopReachesAll, Live, proc_live
<1>7. CASE Sleep(t)
    BY <1>7 DEF Sleep, StopReachesAll, Live, proc_live, Types, TypeOK, Where, WhereOK
<1>8. CASE Slept(t)
    BY <1>8 DEF Slept, StopReachesAll, Live, proc_live
<1> QED
    BY <1>1, <1>2, <1>3, <1>4, <1>5, <1>6, <1>7, <1>8 DEF Kernel

LEMMA NextReaches ==
    ASSUME Types, Where, StopReachesAll, [Next]_vars
    PROVE  StopReachesAll'
<1>1. CASE UNCHANGED vars
    BY <1>1 DEF vars, thread, StopReachesAll, Live, proc_live
<1>2. CASE sys_waitpid
    BY <1>2 DEF sys_waitpid, thread, Scan, StopReachesAll, Live, proc_live, Types, TypeOK
<1>3. CASE WaitSleep
    BY <1>3 DEF WaitSleep, thread, StopReachesAll, Live, proc_live
<1> QED
    BY <1>1, <1>2, <1>3, SendReaches, KernelReaches, UserReaches DEF Next

-----------------------------------------------------------------------------
(* Only a stop in force holds a thread, but for one that an interrupt      *)
(* resumed too early.                                                      *)

StopHeld ==
    /\ \A t \in Threads : jobctl[t] => group.stop # 0 /\ proc_live(t)
    /\ \A t \in Threads \ hit : state[t] = "stopped" => group.stop # 0 /\ SIGKILL \notin pend[t]

LEMMA SendHeld ==
    ASSUME Types, StopHeld, Send
    PROVE  StopHeld'
<1>0. hit \subseteq hit'
    BY DEF Send
<1>1. PICK sig \in Sigs, t \in Live : signal_send_group(t, sig) \/ signal_send(t, sig)
    BY DEF Send
<1>2. ASSUME NEW T, NEW proc, NEW W, Queue(sig, T, proc, W), sig = SIGKILL => T \subseteq W
      PROVE  StopHeld'
  <2> DEFINE resumed == [q \in Threads |-> IF sig = SIGCONT /\ state[q] = "stopped"
                                           THEN "runnable" ELSE state[q]]
  <2>1. /\ resumed \in [Threads -> States] /\ state' = sig_wake_sleeper(resumed, W, sig)
        /\ jobctl \in [Threads -> BOOLEAN]
    BY <1>2 DEF Queue, Types, TypeOK, States
  <2>2. /\ \A q \in Threads : resumed[q] = state[q] \/ (state[q] = "stopped" /\ resumed[q] = "runnable")
        /\ sig = SIGCONT => \A q \in Threads : resumed[q] # "stopped"
    BY SigNumbers
  <2> HIDE DEF resumed
  <2>3. \A q \in Threads : /\ state'[q] = "stopped" => resumed[q] = "stopped" /\ state[q] = "stopped"
                           /\ proc_live(q) => proc_live(q)'
                           /\ sig = SIGKILL /\ state'[q] = "stopped" => q \notin W
    BY <2>1, <2>2, WakeSleeperFacts DEF proc_live
  <2>4. CASE sig = SIGCONT
    <3>1. \A q \in Threads : ~jobctl'[q]
      <4>1. jobctl' = [q \in Threads |-> jobctl[q] /\ ~proc_live(q)]
        BY <1>2, <2>4 DEF Queue, prepare_job_control
      <4> QED
        BY <4>1 DEF StopHeld
    <3> QED
      BY <1>0, <2>2, <2>3, <2>4, <3>1 DEF StopHeld
  <2>5. CASE sig # SIGCONT
    <3>1. group' = group /\ jobctl' = jobctl
      BY <1>2, <2>5 DEF Queue, prepare_job_control
    <3>2. \A q \in Threads : SIGKILL \in pend'[q] => SIGKILL \in pend[q] \/ (sig = SIGKILL /\ q \in T)
      BY <1>2 DEF Queue
    <3> QED
      BY <1>0, <1>2, <2>3, <3>1, <3>2 DEF StopHeld
  <2> QED
    BY <2>4, <2>5
<1>3. CASE signal_send(t, sig)
  <2>1. sig = SIGKILL => \A u : sig_wakes(u, sig)
    BY DEF sig_wakes
  <2> QED
    BY <1>2, <1>3, <2>1 DEF signal_send
<1>4. CASE signal_send_group(t, sig)
    BY <1>2, <1>4 DEF signal_send_group
<1> QED
    BY <1>1, <1>3, <1>4

LEMMA ExitHeld ==
    ASSUME Types, StopHeld, NEW t \in Threads, NEW st \in [Threads -> States],
           \A q \in Threads : \/ st[q] = state[q]
                              \/ state[q] \in {"sleeping", "stopped"} /\ st[q] = "runnable",
           \A q \in Threads \ {t} : SIGKILL \in pend'[q] => SIGKILL \in pend[q] \/ st[q] # "stopped",
           Forget(t), proc_exit(st, t), group' = group, hit' = hit
    PROVE  StopHeld'
<1> DEFINE left == [st EXCEPT ![t] = "zombie"]
<1>1. left \in [Threads -> States]
    BY DEF States
<1>2. state' = signal_retarget_shared(left, t, shared', Sigs)
    BY DEF proc_exit
<1>3. left[t] = "zombie" /\ \A q \in Threads \ {t} : left[q] = st[q]
    OBVIOUS
<1> HIDE DEF left
<1>4. /\ state'[t] = "zombie"
      /\ \A q \in Threads \ {t} : state'[q] = st[q] \/ (st[q] = "sleeping" /\ state'[q] = "runnable")
    BY <1>1, <1>2, <1>3, RetargetFacts
<1>5. ~jobctl'[t] /\ \A q \in Threads \ {t} : jobctl'[q] = jobctl[q]
    BY DEF Forget, Types, TypeOK
<1> QED
    BY <1>4, <1>5 DEF StopHeld, proc_live

LEMMA ToUserHeld ==
    ASSUME Types, StopHeld, NEW t \in Threads, NEW sh, NEW m,
           ToUser(state, t, sh, m), group' = group, hit \subseteq hit' \cup {t}, state[t] # "stopped",
           \A q \in Threads : jobctl'[q] => jobctl[q],
           \A q \in Threads : SIGKILL \in pend'[q] => SIGKILL \in pend[q]
    PROVE  StopHeld'
<1>1. state \in [Threads -> States] /\ state' = signal_retarget_shared(state, t, sh, m \ blocked[t])
    BY DEF ToUser, Types, TypeOK, States
<1>2. \A q \in Threads : state'[q] = state[q] \/ (state[q] = "sleeping" /\ state'[q] = "runnable")
    BY <1>1, RetargetFacts
<1> QED
    BY <1>2 DEF StopHeld, proc_live

LEMMA UserHeld ==
    ASSUME Types, StopHeld, NEW t \in Threads, User(t)
    PROVE  StopHeld'
<1>0. state \in [Threads -> States]
    BY DEF Types, TypeOK, States
<1>1. CASE Block(t)
    BY <1>1 DEF Block, StopHeld, proc_live
<1>2. CASE Event(t)
    BY <1>0, <1>2 DEF Event, StopHeld, proc_live
<1>3. CASE sys_rt_sigprocmask(t)
  <2>1. \A q \in Threads : state'[q] = state[q] \/ (state[q] = "sleeping" /\ state'[q] = "runnable")
    BY <1>0, <1>3, RetargetFacts DEF sys_rt_sigprocmask
  <2> QED
    BY <1>3, <2>1 DEF sys_rt_sigprocmask, StopHeld, proc_live
<1>4. CASE sys_rt_sigsuspend(t)
  <2>1. \A q \in Threads : state'[q] = state[q] \/ (state[q] = "sleeping" /\ state'[q] = "runnable")
    BY <1>0, <1>4, RetargetFacts DEF sys_rt_sigsuspend
  <2> QED
    BY <1>4, <2>1 DEF sys_rt_sigsuspend, StopHeld, proc_live
<1>5. CASE sys_sigreturn(t)
    BY <1>5 DEF sys_sigreturn, StopHeld, proc_live
<1>6. CASE sys_clone(t)
    BY <1>0, <1>6 DEF sys_clone, StopHeld, proc_live
<1>7. CASE sys_exit(t)
  <2>1. \A q \in Threads \ {t} : pend'[q] = pend[q]
    BY <1>7 DEF sys_exit, Types, TypeOK
  <2> QED
    BY <1>0, <1>7, <2>1, ExitHeld DEF sys_exit
<1> QED
    BY <1>1, <1>2, <1>3, <1>4, <1>5, <1>6, <1>7 DEF User

LEMMA KernelHeld ==
    ASSUME Types, Where, StopHeld, NEW t \in Threads, Kernel(t)
    PROVE  StopHeld'
<1>0. state \in [Threads -> States] /\ jobctl \in [Threads -> BOOLEAN]
    BY DEF Types, TypeOK, States
<1>1. CASE StopAsked(t)
    BY <1>0, <1>1 DEF StopAsked, group_stop_participate, StopHeld, proc_live
<1>2. CASE DeliverNothing(t)
  <2>1. \A q \in Threads : jobctl'[q] => jobctl[q]
    BY <1>0, <1>2 DEF DeliverNothing, Kept
  <2>2. state[t] = "runnable"
    BY <1>2 DEF DeliverNothing, AtDelivery, Where, WhereOK
  <2> QED
    BY <1>2, <2>1, <2>2, ToUserHeld DEF DeliverNothing
<1>3. CASE Deliver(t)
  <2>1. PICK sig : sig = Min(Deliverable(t))
    OBVIOUS
  <2>0. hit' = hit /\ state[t] = "runnable"
    BY <1>3 DEF Deliver, AtDelivery, Where, WhereOK
  <2>2. CASE Dies(t)
    <3> DEFINE others == Live \ {t}
               st == sig_wake_sleeper(state, others, SIGKILL)
    <3>1. Forget(t) /\ proc_exit(st, t) /\ group' = group
      BY <2>2 DEF Dies, proc_group_exit
    <3>2. \A q \in Threads \ {t} : SIGKILL \in pend'[q] => q \in others
      BY <2>2 DEF Dies, proc_group_exit
    <3>3. /\ st \in [Threads -> States]
          /\ \A q \in Threads : \/ st[q] = state[q]
                                \/ state[q] \in {"sleeping", "stopped"} /\ st[q] = "runnable"
          /\ \A q \in Threads : q \in others => st[q] # "stopped"
      BY <1>0, WakeSleeperFacts
    <3> HIDE DEF others, st
    <3> QED
      BY <2>0, <3>1, <3>2, <3>3, ExitHeld
  <2>3. CASE GoesOn(t, sig)
    <3>1. \A q \in Threads : jobctl'[q] => jobctl[q]
      BY <1>0, <2>3 DEF GoesOn, Kept
    <3>2. \A q \in Threads : SIGKILL \in pend'[q] => SIGKILL \in pend[q]
      BY <2>3 DEF GoesOn, Types, TypeOK
    <3> QED
      BY <2>0, <2>3, <3>1, <3>2, ToUserHeld DEF GoesOn
  <2>4. CASE Stops(t, sig)
    <3> DEFINE others == {q \in Live \ {t} : state[q] # "stopped"}
    <3>1. /\ state' = [sig_wake_sleeper(state, others, sig) EXCEPT ![t] = "stopped"]
          /\ jobctl' = [q \in Threads |-> q # t /\ (jobctl[q] \/ q \in others)]
          /\ group' = [stop |-> sig, continued |-> FALSE, reported |-> FALSE]
      BY <2>4 DEF Stops, do_group_stop, group_stop_participate
    <3>2. sig \in StopSigs /\ sig # 0 /\ group'.stop # 0
      BY <2>4, <3>1, SigNumbers DEF Stops, sig_default_action
    <3>3. /\ state'[t] = "stopped"
          /\ \A q \in Threads \ {t} : state'[q] = state[q]
                                      \/ (state[q] = "sleeping" /\ state'[q] = "runnable")
      BY <1>0, <3>1, <3>2, WakeSleeperFacts, SigNumbers
    <3>4. SIGKILL \notin pend[t]
      BY <1>3, <2>1, <3>2, DeliverCases, SigNumbers
    <3>5. \A q \in Threads : SIGKILL \in pend'[q] => SIGKILL \in pend[q]
      BY <2>4 DEF Stops, Types, TypeOK
    <3>6. \A q \in Threads : jobctl'[q] => q # t /\ proc_live(q)
      BY <3>1 DEF StopHeld, Live
    <3> QED
      BY <2>0, <3>2, <3>3, <3>4, <3>5, <3>6 DEF StopHeld, proc_live
  <2>5. CASE Faults(t, sig)
    <3>1. \A q \in Threads : jobctl'[q] => jobctl[q]
      BY <1>0, <2>5 DEF Faults, Kept
    <3>2. \A q \in Threads : SIGKILL \in pend'[q] => SIGKILL \in pend[q]
      BY <2>5, SigNumbers DEF Faults, Types, TypeOK
    <3> QED
      BY <2>0, <2>5, <3>1, <3>2 DEF Faults, StopHeld, proc_live
  <2> QED
    BY <1>3, <2>1, <2>2, <2>3, <2>4, <2>5, DeliverCases
<1>4. CASE proc_stop_self(t)
    BY <1>0, <1>4 DEF proc_stop_self, StopHeld, proc_live, Where, WhereOK
<1>5. CASE Resume(t)
    BY <1>5, ToUserHeld DEF Resume, StopHeld, proc_live
<1>6. CASE Interrupt(t)
    BY <1>6 DEF Interrupt, StopHeld, proc_live
<1>7. CASE Sleep(t)
    BY <1>0, <1>7 DEF Sleep, StopHeld, proc_live
<1>8. CASE Slept(t)
    BY <1>8 DEF Slept, StopHeld, proc_live
<1> QED
    BY <1>1, <1>2, <1>3, <1>4, <1>5, <1>6, <1>7, <1>8 DEF Kernel

LEMMA NextHeld ==
    ASSUME Types, Where, StopHeld, [Next]_vars
    PROVE  StopHeld'
<1>1. CASE UNCHANGED vars \/ WaitSleep
    BY <1>1 DEF vars, thread, WaitSleep, StopHeld, proc_live
<1>2. CASE sys_waitpid
  <2>1. group'.stop = group.stop
    BY <1>2 DEF sys_waitpid, Scan, Types, TypeOK
  <2>2. \A q \in Threads : q \in hit' <=> q \in hit
    BY <1>2, ThreadNumbers DEF sys_waitpid
  <2> QED
    BY <1>2, <2>1, <2>2 DEF sys_waitpid, thread, StopHeld, proc_live
<1> QED
    BY <1>1, <1>2, SendHeld, KernelHeld, UserHeld DEF Next

-----------------------------------------------------------------------------
(* The parent.                                                             *)

(* The whole group has stopped, or is about to have.  What a thread told   *)
(* the parent before it gives up the CPU holds when it has, also when an   *)
(* interrupt resumes it in between.                                        *)
Stopping ==
    /\ group.stop # 0
    /\ \A q \in Threads : proc_live(q) => state[q] = "stopped" \/ pc[q] = "halt"

(* Told, once the parent has looked: it keeps the lock until it sleeps.    *)
Told ==
    /\ wait = "test" <=> bkl = Parent
    /\ wait \in {"asleep", "test"} =>
          /\ Live # {}
          /\ group.continued => Parent \in hit
          /\ Stopping => group.reported

(* A stop of the whole group is one of Stopping.                           *)
LEMMA StoppedStopping ==
    ASSUME proc_group_stopped(state, group)
    PROVE  Stopping
BY DEF proc_group_stopped, Stopping, proc_live

(* Threads that wake, or begin to live, take nothing from what it knows.   *)
LEMMA WokenTold ==
    ASSUME Told, wait' = wait, group' = group, bkl = Parent <=> bkl' = Parent,
           Parent \in hit => Parent \in hit',
           \A q \in Threads : /\ state'[q] = state[q] \/ state'[q] = "runnable"
                              /\ pc'[q] = "halt" => pc[q] = "halt"
    PROVE  Told'
<1>1. \A q \in Threads : /\ proc_live(q) => proc_live(q)'
                         /\ state'[q] = "stopped" => state[q] = "stopped"
    BY DEF proc_live
<1>2. Live # {} => Live' # {}
    BY <1>1 DEF Live
<1>3. Stopping' => Stopping
    BY <1>1 DEF Stopping
<1> QED
    BY <1>2, <1>3 DEF Told

(* A change that may complete a stop tells the parent if it does.          *)
LEMMA CheckTold ==
    ASSUME Types, Told, bkl # Parent, bkl' # Parent, Live' # {},
           wait' = signal_group_stop_check(state', group'),
           group.continued \/ ~group'.continued, Parent \in hit => Parent \in hit',
           \A q \in Threads : pc'[q] = "halt" => state'[q] = "stopped"
    PROVE  Told'
<1>1. wait # "test"
    BY DEF Told
<1>2. wait' # "test" /\ (wait' = "asleep" => wait = "asleep")
    BY <1>1 DEF signal_group_stop_check, WakeParent
<1>3. wait' = "asleep" => (proc_group_stopped(state', group') => group'.reported)
    BY DEF signal_group_stop_check, WakeParent
<1>4. Stopping' => proc_group_stopped(state', group')
    BY DEF Stopping, proc_group_stopped, Live, proc_live
<1> QED
    BY <1>1, <1>2, <1>3, <1>4 DEF Told

LEMMA ExitTold ==
    ASSUME Types, Told, NEW t \in Threads, bkl \in {t, Nobody}, NEW st \in [Threads -> States],
           proc_exit(st, t), group' = group, hit' = hit
    PROVE  Told'
<1> DEFINE left == [st EXCEPT ![t] = "zombie"]
<1>1. left \in [Threads -> States] /\ bkl # Parent /\ bkl' # Parent
    BY ThreadNumbers DEF States, proc_exit
<1>2. /\ state' = signal_retarget_shared(left, t, shared', Sigs)
      /\ wait' = IF \A q \in Threads : left[q] \in {"unused", "zombie"}
                 THEN WakeParent(wait) ELSE signal_group_stop_check(state', group')
    BY DEF proc_exit
<1> HIDE DEF left
<1>3. CASE \A q \in Threads : left[q] \in {"unused", "zombie"}
  <2>1. wait' = WakeParent(wait) /\ wait # "test"
    BY <1>1, <1>2, <1>3 DEF Told
  <2> QED
    BY <1>1, <2>1 DEF Told, WakeParent
<1>4. CASE \E q \in Threads : left[q] \notin {"unused", "zombie"}
  <2>1. PICK q \in Threads : left[q] \notin {"unused", "zombie"}
    BY <1>4
  <2>2. state'[q] \notin {"unused", "zombie"}
    BY <1>1, <1>2, <2>1, RetargetFacts
  <2>3. Live' # {}
    BY <2>2 DEF Live, proc_live
  <2>4. wait' = signal_group_stop_check(state', group')
    BY <1>2, <1>4
  <2>5. \A r \in Threads : pc'[r] # "halt"
    BY ThreadNumbers DEF proc_exit, Types, TypeOK
  <2> QED
    BY <1>1, <2>3, <2>4, <2>5, CheckTold
<1> QED
    BY <1>3, <1>4

LEMMA SendTold ==
    ASSUME Types, Told, Send
    PROVE  Told'
<1>1. PICK sig \in Sigs, t \in Live : signal_send_group(t, sig) \/ signal_send(t, sig)
    BY DEF Send
<1>2. /\ bkl' = bkl /\ pc' = pc /\ hit \subseteq hit' /\ (bkl = Parent => Parent \in hit')
      /\ wait = "test" <=> bkl = Parent
    BY DEF Send, AboutToSleep, Told
<1>3. ASSUME NEW T, NEW proc, NEW W, Queue(sig, T, proc, W)
      PROVE  Told'
  <2> DEFINE ends == group.stop # 0 \/ \E u \in Live : state[u] = "stopped"
             resumed == [q \in Threads |-> IF sig = SIGCONT /\ state[q] = "stopped"
                                           THEN "runnable" ELSE state[q]]
  <2>1. resumed \in [Threads -> States] /\ state' = sig_wake_sleeper(resumed, W, sig)
    BY <1>3 DEF Queue, Types, TypeOK, States
  <2>2. \A q \in Threads : resumed[q] = state[q] \/ resumed[q] = "runnable"
    OBVIOUS
  <2>3. sig = SIGCONT /\ ends => /\ wait' = WakeParent(wait)
                                 /\ group' = [group EXCEPT !.stop = 0, !.continued = TRUE]
    BY <1>3 DEF Queue, prepare_job_control
  <2>4. ~(sig = SIGCONT /\ ends) => wait' = wait /\ group' = group
    BY <1>3 DEF Queue, prepare_job_control
  <2> HIDE DEF ends, resumed
  <2>5. \A q \in Threads : state'[q] = state[q] \/ state'[q] = "runnable"
    BY <2>1, <2>2, WakeSleeperFacts
  <2>6. CASE sig = SIGCONT /\ ends
    <3>1. wait' # "asleep" /\ (wait' = "test" <=> wait = "test")
      BY <2>3, <2>6 DEF WakeParent
    <3>2. group'.stop = 0
      BY <2>3, <2>6 DEF Types, TypeOK
    <3>3. Live # {} => Live' # {}
      BY <2>5 DEF Live, proc_live
    <3> QED
      BY <1>2, <3>1, <3>2, <3>3 DEF Told, Stopping
  <2>7. CASE ~(sig = SIGCONT /\ ends)
    BY <1>2, <2>4, <2>5, <2>7, WokenTold
  <2> QED
    BY <2>6, <2>7
<1> QED
    BY <1>1, <1>3 DEF signal_send, signal_send_group

LEMMA UserTold ==
    ASSUME Types, Told, NEW t \in Threads, User(t)
    PROVE  Told'
<1>0. state \in [Threads -> States] /\ t # Parent /\ Nobody # Parent
    BY ThreadNumbers DEF Types, TypeOK, States
<1>1. ASSUME NEW where \in {"return", "sleep"}, Enter(t, where), UNCHANGED <<wait, group, hit>>,
             \A q \in Threads : state'[q] = state[q] \/ state'[q] = "runnable"
      PROVE  Told'
  <2>1. /\ bkl # Parent /\ bkl' # Parent
        /\ \A q \in Threads : pc'[q] = "halt" => pc[q] = "halt"
    BY <1>0, <1>1 DEF Enter, Types, TypeOK
  <2> QED
    BY <1>1, <2>1, WokenTold
<1>2. CASE Block(t)
    BY <1>2, <1>1 DEF Block
<1>3. CASE Event(t)
    BY <1>0, <1>3, WokenTold DEF Event
<1>4. CASE sys_rt_sigprocmask(t)
  <2>1. \A q \in Threads : state'[q] = state[q] \/ state'[q] = "runnable"
    BY <1>0, <1>4, RetargetFacts DEF sys_rt_sigprocmask
  <2> QED
    BY <1>4, <1>1, <2>1 DEF sys_rt_sigprocmask
<1>5. CASE sys_rt_sigsuspend(t)
  <2>1. \A q \in Threads : state'[q] = state[q] \/ state'[q] = "runnable"
    BY <1>0, <1>5, RetargetFacts DEF sys_rt_sigsuspend
  <2> QED
    BY <1>5, <1>1, <2>1 DEF sys_rt_sigsuspend
<1>6. CASE sys_sigreturn(t)
    BY <1>6, <1>1 DEF sys_sigreturn
<1>7. CASE sys_clone(t)
    BY <1>0, <1>7, <1>1 DEF sys_clone
<1>8. CASE sys_exit(t)
    BY <1>0, <1>8, ExitTold DEF sys_exit
<1> QED
    BY <1>2, <1>3, <1>4, <1>5, <1>6, <1>7, <1>8 DEF User

LEMMA KernelTold ==
    ASSUME Types, Where, Told, NEW t \in Threads, Kernel(t)
    PROVE  Told'
<1>0. state \in [Threads -> States] /\ t # Parent /\ Nobody # Parent
    BY ThreadNumbers DEF Types, TypeOK, States
<1>1. ASSUME bkl \in {t, Nobody}, NEW sh, NEW m, ToUser(state, t, sh, m), UNCHANGED <<group, wait>>,
             Parent \in hit => Parent \in hit'
      PROVE  Told'
  <2>1. \A q \in Threads : state'[q] = state[q] \/ state'[q] = "runnable"
    BY <1>0, <1>1, RetargetFacts DEF ToUser
  <2>2. \A q \in Threads : pc'[q] = "halt" => pc[q] = "halt"
    BY <1>1 DEF ToUser, Types, TypeOK
  <2> QED
    BY <1>0, <1>1, <2>1, <2>2, WokenTold DEF ToUser
<1>2. CASE StopAsked(t)
  <2>1. state' = [state EXCEPT ![t] = "stopped"] /\ group' = group /\ bkl = t /\ bkl' = t
    BY <1>2 DEF StopAsked, group_stop_participate
  <2>2. wait' = signal_group_stop_check(state', group')
    BY <1>2, <2>1 DEF StopAsked, group_stop_participate
  <2>3. Live' # {}
    BY <1>0, <2>1 DEF Live, proc_live
  <2>4. hit' = hit /\ \A q \in Threads : pc'[q] = "halt" => q = t
    BY <1>2 DEF StopAsked, group_stop_participate, Types, TypeOK
  <2> QED
    BY <1>0, <2>1, <2>2, <2>3, <2>4, CheckTold
<1>3. CASE DeliverNothing(t)
    BY <1>1, <1>3 DEF DeliverNothing, AtDelivery
<1>4. CASE Deliver(t)
  <2>1. PICK sig : sig = Min(Deliverable(t))
    OBVIOUS
  <2>2. (Dies(t) \/ GoesOn(t, sig) \/ Faults(t, sig) \/ Stops(t, sig)) /\ bkl = t /\ hit' = hit
    BY <1>4, <2>1, DeliverCases
  <2>3. CASE Dies(t)
    <3>1. PICK st \in [Threads -> States] : proc_exit(st, t)
      BY <1>0, <2>3, WakeSleeperFacts DEF Dies, proc_group_exit
    <3> QED
      BY <2>2, <2>3, <3>1, ExitTold DEF Dies
  <2>4. CASE GoesOn(t, sig)
    BY <1>1, <2>2, <2>4 DEF GoesOn
  <2>5. CASE Stops(t, sig)
    <3> DEFINE st == sig_wake_sleeper(state, {q \in Live \ {t} : state[q] # "stopped"}, sig)
    <3>1. /\ group' = [stop |-> sig, continued |-> FALSE, reported |-> FALSE]
          /\ state' = [st EXCEPT ![t] = "stopped"] /\ bkl' = bkl
          /\ wait' = signal_group_stop_check(state', group')
      BY <2>5 DEF Stops, do_group_stop, group_stop_participate
    <3>2. st \in [Threads -> States]
      BY <1>0, WakeSleeperFacts
    <3> HIDE DEF st
    <3>3. Live' # {}
      BY <3>1, <3>2 DEF Live, proc_live
    <3>4. \A q \in Threads : pc'[q] = "halt" => q = t
      BY <2>2, <2>5 DEF Stops, do_group_stop, group_stop_participate, Types, TypeOK
    <3>5. state'[t] = "stopped"
      BY <3>1, <3>2
    <3> QED
      BY <1>0, <2>2, <3>1, <3>3, <3>4, <3>5, CheckTold
  <2>6. CASE Faults(t, sig)
    <3>1. \A q \in Threads : pc'[q] = "halt" => pc[q] = "halt"
      BY <2>6 DEF Faults, Types, TypeOK
    <3> QED
      BY <2>2, <2>6, <3>1, WokenTold DEF Faults
  <2> QED
    BY <2>2, <2>3, <2>4, <2>5, <2>6
<1>5. CASE proc_stop_self(t)
  <2>1. /\ state' = [state EXCEPT ![t] = "stopped"] /\ pc[t] = "halt"
        /\ pc' = [pc EXCEPT ![t] = "halted"] /\ bkl = t /\ bkl' = Nobody
        /\ UNCHANGED <<group, wait, hit>>
    BY <1>5 DEF proc_stop_self
  <2>2. state[t] \in {"stopped", "runnable"}
    BY <2>1 DEF Where, WhereOK
  <2>3. \A q \in Threads : /\ proc_live(q)' <=> proc_live(q)
                           /\ state'[q] = "stopped" \/ pc'[q] = "halt"
                                => state[q] = "stopped" \/ pc[q] = "halt"
    BY <1>0, <2>1, <2>2 DEF proc_live, Types, TypeOK
  <2>4. Live' = Live /\ (Stopping' => Stopping)
    BY <2>1, <2>3 DEF Live, Stopping
  <2> QED
    BY <1>0, <2>1, <2>4 DEF Told
<1>6. CASE Resume(t)
  <2>1. /\ bkl = Nobody /\ UNCHANGED <<group, wait>> /\ hit' = hit \ {t}
        /\ \A q \in Threads : pc'[q] = "halt" => pc[q] = "halt"
    BY <1>6 DEF Resume, ToUser, Types, TypeOK
  <2>2. CASE bkl' = t /\ state' = state
    BY <1>0, <2>1, <2>2, WokenTold
  <2>3. CASE ToUser(state, t, shared, SavedMask(t))
    BY <1>0, <1>1, <2>1, <2>3
  <2> QED
    BY <1>6, <2>2, <2>3 DEF Resume
<1>7. CASE Interrupt(t)
  <2>1. \A q \in Threads : pc'[q] = "halt" => pc[q] = "halt"
    BY <1>7 DEF Interrupt, Enter, Types, TypeOK
  <2> QED
    BY <1>0, <1>7, <2>1, WokenTold DEF Interrupt, Enter
<1>8. CASE Sleep(t)
  <2>1. /\ state[t] = "runnable" /\ state' = [state EXCEPT ![t] = "sleeping"]
        /\ pc' = [pc EXCEPT ![t] = "slept"] /\ bkl = t /\ bkl' = Nobody
        /\ UNCHANGED <<group, wait, hit>>
    BY <1>8 DEF Sleep, Where, WhereOK
  <2>2. \A q \in Threads : /\ proc_live(q)' <=> proc_live(q)
                           /\ state'[q] = "stopped" \/ pc'[q] = "halt"
                                => state[q] = "stopped" \/ pc[q] = "halt"
    BY <1>0, <2>1 DEF proc_live, Types, TypeOK
  <2>3. Live' = Live /\ (Stopping' => Stopping)
    BY <2>1, <2>2 DEF Live, Stopping
  <2> QED
    BY <1>0, <2>1, <2>3 DEF Told
<1>9. CASE Slept(t)
  <2>1. \A q \in Threads : pc'[q] = "halt" => pc[q] = "halt"
    BY <1>9 DEF Slept, Types, TypeOK
  <2> QED
    BY <1>0, <1>9, <2>1, WokenTold DEF Slept
<1> QED
    BY <1>2, <1>3, <1>4, <1>5, <1>6, <1>7, <1>8, <1>9 DEF Kernel

LEMMA WaiterTold ==
    ASSUME Types, Told, sys_waitpid \/ WaitSleep
    PROVE  Told'
<1>1. CASE sys_waitpid
  <2>1. state' = state /\ Live' = Live /\ bkl = Nobody /\ Nobody # Parent
    BY <1>1, ThreadNumbers DEF sys_waitpid, thread, Live, proc_live
  <2>2. CASE wait' \in {"reaped", "out"} /\ bkl' = bkl
    BY <2>1, <2>2 DEF Told
  <2>3. CASE /\ wait' = "test" /\ bkl' = Parent /\ group' = group
             /\ Live # {} /\ (proc_group_stopped(state, group) => group.reported)
             /\ ~group.continued
    <3>1. pc' = pc /\ \A q \in Threads : pc[q] # "halt"
      BY <1>1, <2>1, ThreadNumbers DEF sys_waitpid, thread, Types, TypeOK
    <3>2. Stopping' => proc_group_stopped(state, group)
      BY <2>1, <2>3, <3>1 DEF Stopping, proc_group_stopped, Live, proc_live
    <3> QED
      BY <2>1, <2>3, <3>2 DEF Told
  <2> QED
    BY <1>1, <2>2, <2>3 DEF sys_waitpid, Scan
<1>2. CASE WaitSleep
  <2>1. /\ UNCHANGED <<state, pc, group, hit>> /\ Live' = Live /\ wait = "test" /\ Nobody # Parent
        /\ bkl' = Nobody /\ wait' = "asleep"
    BY <1>2, ThreadNumbers DEF WaitSleep, thread, Live, proc_live, Told
  <2>2. Stopping' => Stopping
    BY <2>1 DEF Stopping, proc_live
  <2> QED
    BY <2>1, <2>2 DEF Told
<1> QED
    BY <1>1, <1>2

LEMMA NextTold ==
    ASSUME Types, Where, Told, [Next]_vars
    PROVE  Told'
<1>1. CASE UNCHANGED vars
    BY <1>1, WokenTold DEF vars, thread
<1> QED
    BY <1>1, SendTold, WaiterTold, KernelTold, UserTold DEF Next

-----------------------------------------------------------------------------
(* Signals and sleepers.                                                   *)

(* Whether the signal ends a sleep.                                        *)
Interrupts(sig) == sig_default_action(sig) # "ignore"

(* A thread that may sleep: nothing is there that would interrupt it.      *)
Deaf(t) == \A sig \in (pend[t] \cup shared) \ blocked[t] : ~Interrupts(sig)

(* The test before the sleep still holds when the thread sleeps, unless an *)
(* interrupt came in between; a stop cannot come then.                     *)
SleepTested == \A t \in Threads : pc[t] = "sleep" => ~jobctl[t] /\ (t \in hit \/ Deaf(t))

(* If a thread can take the signal, one that is awake can, or one that an  *)
(* interrupt found about to sleep.                                         *)
Awake(q) == state[q] # "sleeping" \/ q \in hit
Heard(sig) ==
    (\E q \in Live : sig \notin blocked[q]) => \E q \in Live : sig \notin blocked[q] /\ Awake(q)

(* Nothing of its own waits for a sleeper.                                 *)
OwnHeard(t) ==
    /\ state[t] = "sleeping" => ~jobctl[t]
    /\ ~Awake(t) => \A sig \in pend[t] \ blocked[t] : ~Interrupts(sig)

AllHeard ==
    /\ \A t \in Threads : OwnHeard(t)
    /\ \A sig \in shared \ missed : Interrupts(sig) => Heard(sig)

LEMMA HeardEnough ==
    ASSUME AllHeard
    PROVE  NoLostSignal
<1> SUFFICES ASSUME NEW t \in Live, state[t] = "sleeping"
             PROVE  /\ ~jobctl[t]
                    /\ t \notin hit =>
                          \A sig \in pend[t] \ blocked[t] : sig_default_action(sig) = "ignore"
                    /\ \A sig \in shared \ (blocked[t] \cup missed) :
                          \/ sig_default_action(sig) = "ignore"
                          \/ \E q \in Live : sig \notin blocked[q]
                                             /\ (state[q] # "sleeping" \/ q \in hit)
    BY DEF NoLostSignal
<1>1. t \in Threads
    BY DEF Live
<1> QED
    BY <1>1 DEF AllHeard, OwnHeard, Heard, Awake, Interrupts

LEMMA TestedOne ==
    ASSUME Types, NEW t \in Threads, bkl \in {t, Nobody},
           \A q \in Threads \ {t} : pc'[q] = pc[q], pc'[t] = "sleep" => ~jobctl'[t] /\ Deaf(t)'
    PROVE  SleepTested'
<1>1. \A q \in Threads \ {t} : pc[q] # "sleep"
    BY ThreadNumbers DEF Types, TypeOK
<1> QED
    BY <1>1 DEF SleepTested

(* Steps that put nobody to sleep and send nothing.                        *)
LEMMA AwakeHeard ==
    ASSUME AllHeard, blocked' = blocked, shared' \ missed' \subseteq shared \ missed,
           \A q \in Threads : state'[q] = "sleeping" =>
              state[q] = "sleeping" /\ (jobctl'[q] => jobctl[q]) /\ pend'[q] \subseteq pend[q],
           \A q \in Threads : state'[q] = "sleeping" /\ q \in hit => q \in hit',
           \A q \in Threads : proc_live(q)' <=> proc_live(q)
    PROVE  AllHeard'
<1>1. Live' = Live
    BY DEF Live
<1>2. \A sig : Heard(sig) => Heard(sig)'
    BY <1>1 DEF Heard, Awake, Live
<1>3. \A q \in Threads : OwnHeard(q)'
    BY DEF AllHeard, OwnHeard, Awake, Interrupts
<1> QED
    BY <1>2, <1>3 DEF AllHeard, Interrupts

(* Steps that leave nobody asleep.                                         *)
LEMMA NoneAsleep ==
    ASSUME \A q \in Threads : state'[q] # "sleeping"
    PROVE  AllHeard'
BY DEF AllHeard, OwnHeard, Heard, Awake, Live

(* A thread awake changes its mask and passes on what it will not take.    *)
LEMMA MaskHeard ==
    ASSUME Types, NEW t \in Threads, state[t] = "runnable", NEW m,
           state' = signal_retarget_shared(state, t, shared', m \ blocked[t]),
           blocked' = [blocked EXCEPT ![t] = m], hit \subseteq hit' \cup {t}, NEW sig \in shared', Interrupts(sig),
           Heard(sig) \/ sig \notin blocked[t]
    PROVE  Heard(sig)'
<1>1. /\ state \in [Threads -> States]
      /\ \A q \in Threads : blocked'[q] = IF q = t THEN m ELSE blocked[q]
    BY DEF Types, TypeOK, States
<1>2. /\ state'[t] = "runnable"
      /\ \A q \in Threads : state'[q] = state[q] \/ (state[q] = "sleeping" /\ state'[q] = "runnable")
    BY <1>1, RetargetFacts
<1>3. Live' = Live /\ t \in Live
    BY <1>2 DEF Live, proc_live
<1>4. \A q \in Live : q \in Threads /\ state[q] # "zombie"
    BY DEF Live, proc_live
<1>5. CASE sig \notin m
    BY <1>1, <1>2, <1>3, <1>5 DEF Heard, Awake
<1>6. CASE sig \in m /\ sig \in blocked[t]
  <2>1. \A q \in Threads : q # t /\ Awake(q) => Awake(q)'
    BY <1>2 DEF Awake
  <2> QED
    BY <1>1, <1>2, <1>3, <1>4, <1>6, <2>1, ZenonT(40) DEF Heard
<1>7. CASE sig \in m /\ sig \notin blocked[t]
  <2>1. sig \in shared' \cap (m \ blocked[t]) /\ sig_default_action(sig) # "ignore"
    BY <1>7 DEF Interrupts
  <2> SUFFICES ASSUME NEW q \in Live', sig \notin blocked'[q]
               PROVE  \E r \in Live' : sig \notin blocked'[r] /\ state'[r] # "sleeping"
    BY DEF Heard, Awake
  <2>2. q \in Live \ {t} /\ state[q] # "zombie" /\ sig \notin blocked[q]
    BY <1>1, <1>3, <1>4, <1>7
  <2>3. PICK sh, which : sh = shared' /\ which = m \ blocked[t]
    OBVIOUS
  <2>4. PICK r \in Live \ {t} :
           sig \notin blocked[r] /\ signal_retarget_shared(state, t, sh, which)[r] # "sleeping"
    <3>1. sig \in sh \cap which /\ sig_default_action(sig) # "ignore"
      BY <2>1, <2>3
    <3>2. q \in Live \ {t} /\ sig \notin blocked[q]
      BY <2>2
    <3> QED
      BY <3>1, <3>2, RetargetNow, ZenonT(30)
  <2> QED
    BY <1>1, <1>3, <1>4, <2>3, <2>4
<1> QED
    BY <1>5, <1>6, <1>7

LEMMA MaskAllHeard ==
    ASSUME Types, AllHeard, NEW t \in Threads, state[t] = "runnable", NEW m,
           state' = signal_retarget_shared(state, t, shared', m \ blocked[t]),
           blocked' = [blocked EXCEPT ![t] = m], hit \subseteq hit' \cup {t},
           \A q \in Threads \ {t} : (jobctl'[q] => jobctl[q]) /\ pend'[q] \subseteq pend[q],
           \A sig \in shared' \ missed' : sig \in shared \ missed \/ sig \notin blocked[t]
    PROVE  AllHeard'
<1>1. \A sig \in shared' \ missed' : Interrupts(sig) => Heard(sig)'
  <2> SUFFICES ASSUME NEW sig \in shared' \ missed', Interrupts(sig)
               PROVE  Heard(sig)'
    OBVIOUS
  <2>1. Heard(sig) \/ sig \notin blocked[t]
    BY DEF AllHeard
  <2> QED
    BY <2>1, MaskHeard
<1>2. state \in [Threads -> States] /\ \A q \in Threads \ {t} : blocked'[q] = blocked[q]
    BY DEF Types, TypeOK, States
<1>3. /\ state'[t] = "runnable"
      /\ \A q \in Threads : state'[q] = state[q] \/ (state[q] = "sleeping" /\ state'[q] = "runnable")
    BY <1>2, RetargetFacts
<1>4. \A q \in Threads : OwnHeard(q)'
    BY <1>2, <1>3 DEF AllHeard, OwnHeard, Awake, Interrupts
<1> QED
    BY <1>1, <1>4 DEF AllHeard, Interrupts

(* The end of a thread passes on everything.                               *)
LEMMA ExitHeard ==
    ASSUME Types, AllHeard, NEW t \in Threads, shared' \subseteq Sigs,
           Forget(t), proc_exit(state, t),
           \A q \in Threads \ {t} : pend'[q] = pend[q], hit' = hit
    PROVE  AllHeard'
<1> DEFINE left == [state EXCEPT ![t] = "zombie"]
<1>1. /\ left \in [Threads -> States] /\ state \in [Threads -> States]
      /\ state' = signal_retarget_shared(left, t, shared', Sigs)
      /\ left[t] = "zombie" /\ \A q \in Threads \ {t} : left[q] = state[q]
    BY DEF proc_exit, Types, TypeOK, States
<1> HIDE DEF left
<1>2. /\ state'[t] = "zombie"
      /\ \A q \in Threads \ {t} :
            state'[q] = state[q] \/ (state[q] = "sleeping" /\ state'[q] = "runnable")
    BY <1>1, RetargetFacts
<1>3. \A q \in Threads \ {t} : blocked'[q] = blocked[q] /\ jobctl'[q] = jobctl[q]
    BY DEF Forget, Types, TypeOK
<1>4. \A q \in Threads : OwnHeard(q)'
    BY <1>2, <1>3 DEF AllHeard, OwnHeard, Awake, Interrupts
<1>5. ASSUME NEW sig \in shared', Interrupts(sig), NEW q \in Live', sig \notin blocked'[q]
      PROVE  \E r \in Live' : sig \notin blocked'[r] /\ state'[r] # "sleeping"
  <2>1. q \in Live \ {t} /\ sig \notin blocked[q] /\ left[q] # "zombie"
    BY <1>1, <1>2, <1>3, <1>5 DEF Live, proc_live
  <2>2. PICK r \in Live \ {t} :
           /\ sig \notin blocked[r]
           /\ signal_retarget_shared(left, t, shared', Sigs)[r] # "sleeping"
    BY <1>1, <1>5, <2>1, RetargetTold DEF Interrupts
  <2>3. r \in Threads \ {t} /\ r \in Live'
    BY <1>2, <2>2 DEF Live, proc_live
  <2> QED
    BY <1>1, <1>3, <2>2, <2>3
<1>6. \A sig \in shared' : Interrupts(sig) => Heard(sig)'
    BY <1>5 DEF Heard, Awake
<1> QED
    BY <1>4, <1>6 DEF AllHeard, Interrupts

(* A signal sent finds a thread awake, if one can take it.                 *)
LEMMA QueueHeard ==
    ASSUME Types, AllHeard, NEW sig \in Sigs, NEW T, NEW proc \in BOOLEAN, NEW W,
           Queue(sig, T, proc, W), blocked' = blocked, missed' = missed \cap shared',
           hit \subseteq hit',
           \A q \in T \cap Live : q \in W \/ sig \in blocked[q] \/ ~Interrupts(sig),
           proc /\ Interrupts(sig) /\ (\E q \in Live : sig \notin blocked[q]) =>
              \E q \in W \cap Live : sig \notin blocked[q]
    PROVE  AllHeard'
<1> DEFINE resumed == [q \in Threads |-> IF sig = SIGCONT /\ state[q] = "stopped"
                                         THEN "runnable" ELSE state[q]]
<1>1. resumed \in [Threads -> States] /\ state' = sig_wake_sleeper(resumed, W, sig)
    BY DEF Queue, Types, TypeOK, States
<1>2. \A q \in Threads : resumed[q] = state[q] \/ (state[q] = "stopped" /\ resumed[q] = "runnable")
    OBVIOUS
<1> HIDE DEF resumed
<1>3. \A q \in Threads :
         /\ state'[q] = "sleeping" => state[q] = "sleeping" /\ q \notin W
         /\ state[q] \in {"unused", "zombie"} <=> state'[q] \in {"unused", "zombie"}
    BY <1>1, <1>2, WakeSleeperFacts
<1>4. Live' = Live
    BY <1>3 DEF Live, proc_live
<1>5. \A s : Heard(s) => Heard(s)'
    BY <1>3, <1>4 DEF Heard, Awake, Live
<1>6. proc /\ Interrupts(sig) => Heard(sig)'
    BY <1>3, <1>4 DEF Heard, Awake, Live
<1>7. \A s \in shared' \ missed' : s \in shared \ missed \/ (proc /\ s = sig)
    BY DEF Queue
<1>8. \A s \in shared' \ missed' : Interrupts(s) => Heard(s)'
    BY <1>5, <1>6, <1>7 DEF AllHeard
<1>9. \A q \in Threads : jobctl'[q] => jobctl[q]
    BY DEF Queue, prepare_job_control, Types, TypeOK
<1>10. \A q \in Threads : \A s \in pend'[q] : s \in pend[q] \/ (s = sig /\ q \in T)
    BY DEF Queue
<1>11. ASSUME NEW q \in Threads, state'[q] = "sleeping"
       PROVE  ~jobctl'[q] /\ (q \notin hit' => \A s \in pend'[q] \ blocked'[q] : ~Interrupts(s))
  <2>1. state[q] = "sleeping" /\ q \notin W /\ q \in Live
    BY <1>3, <1>11 DEF Live, proc_live
  <2> QED
    BY <1>9, <1>10, <2>1 DEF AllHeard, OwnHeard, Awake
<1>12. \A q \in Threads : OwnHeard(q)'
    BY <1>11 DEF OwnHeard, Awake, Interrupts
<1> QED
    BY <1>8, <1>12 DEF AllHeard, Interrupts

LEMMA SendHeard ==
    ASSUME Types, AllHeard, Send
    PROVE  AllHeard'
<1>1. PICK sig \in Sigs, t \in Live : signal_send_group(t, sig) \/ signal_send(t, sig)
    BY DEF Send
<1>2. blocked' = blocked /\ missed' = missed \cap shared' /\ hit \subseteq hit'
    BY DEF Send
<1>3. \A q : sig \in blocked[q] \/ ~Interrupts(sig) \/ sig_wakes(q, sig)
    BY DEF Interrupts, sig_wakes, sig_ignored
<1>4. CASE signal_send(t, sig)
  <2> DEFINE T == IF sig_ignored(t, sig) THEN {} ELSE {t}
             W == {u \in T : sig_wakes(u, sig)}
  <2>1. Queue(sig, T, FALSE, W)
    BY <1>4 DEF signal_send
  <2>2. \A q \in T : q \in W \/ sig \in blocked[q] \/ ~Interrupts(sig)
    BY <1>3
  <2> HIDE DEF T, W
  <2> QED
    BY <1>2, <2>1, <2>2, QueueHeard
<1>5. CASE signal_send_group(t, sig)
  <2> DEFINE all == IF sig = SIGKILL THEN Live ELSE {}
             proc == sig # SIGKILL /\ ~sig_ignored(t, sig)
             W == all \cup {q \in Target(t, sig) : proc /\ sig_wakes(q, sig)}
  <2>1. Queue(sig, all, proc, W) /\ all \subseteq W /\ proc \in BOOLEAN
    BY <1>5 DEF signal_send_group
  <2>2. \A q \in Target(t, sig) : q \in Live /\ sig \notin blocked[q]
    BY TargetFacts
  <2>3. (\E q \in Live : sig \notin blocked[q]) => \E q \in Target(t, sig) : TRUE
    BY TargetFacts
  <2>4. proc /\ Interrupts(sig) => \A q \in Target(t, sig) : q \in W
    BY <1>3, <2>2
  <2> HIDE DEF all, proc, W
  <2>5. proc /\ Interrupts(sig) /\ (\E q \in Live : sig \notin blocked[q]) =>
              \E q \in W \cap Live : sig \notin blocked[q]
    BY <2>2, <2>3, <2>4
  <2> QED
    BY <1>2, <2>1, <2>5, QueueHeard
<1> QED
    BY <1>1, <1>4, <1>5

LEMMA UserHeard ==
    ASSUME Types, AllHeard, NEW t \in Threads, User(t)
    PROVE  AllHeard' /\ SleepTested'
<1>0. state \in [Threads -> States] /\ pc \in [Threads -> {"user", "sleep", "slept", "return",
                                                           "deliver", "halt", "halted", "dead"}]
    BY DEF Types, TypeOK, States
<1>1. ASSUME Enter(t, "return") \/ (Enter(t, "sleep") /\ ~jobctl'[t] /\ Deaf(t)')
      PROVE  SleepTested' /\ state[t] = "runnable"
    BY <1>0, <1>1, TestedOne DEF Enter
<1>2. CASE Block(t)
  <2>1. UNCHANGED <<state, jobctl, pend, blocked, shared, missed, hit>>
    BY <1>2 DEF Block
  <2>2. ~signal_interrupt_pending(t) => ~jobctl'[t] /\ Deaf(t)'
    BY <2>1 DEF signal_interrupt_pending, Deaf, Interrupts
  <2>3. AllHeard'
    BY <2>1, AwakeHeard DEF proc_live
  <2> QED
    BY <1>1, <1>2, <2>2, <2>3 DEF Block
<1>3. CASE Event(t)
  <2>1. AllHeard'
    BY <1>0, <1>3, AwakeHeard DEF Event, proc_live
  <2>2. SleepTested'
    BY <1>0, <1>3, TestedOne, ThreadNumbers DEF Event, Types, TypeOK
  <2> QED
    BY <2>1, <2>2
<1>4. CASE sys_rt_sigprocmask(t)
  <2>1. PICK m \in SUBSET Maskable :
           /\ Enter(t, "return")
           /\ state' = signal_retarget_shared(state, t, shared, m \ blocked[t])
           /\ blocked' = [blocked EXCEPT ![t] = m]
    BY <1>4 DEF sys_rt_sigprocmask
  <2>2. UNCHANGED <<jobctl, pend, shared, missed, hit>>
    BY <1>4 DEF sys_rt_sigprocmask
  <2>3. SleepTested' /\ state[t] = "runnable"
    BY <1>1, <2>1
  <2> QED
    BY <2>1, <2>2, <2>3, MaskAllHeard
<1>5. CASE sys_rt_sigsuspend(t)
  <2>1. PICK m \in SUBSET Maskable :
           /\ state' = signal_retarget_shared(state, t, shared, m \ blocked[t])
           /\ blocked' = [blocked EXCEPT ![t] = m]
           /\ Enter(t, IF jobctl[t] \/ \E sig \in (pend[t] \cup shared) \ m :
                                          sig_default_action(sig) # "ignore"
                       THEN "return" ELSE "sleep")
    BY <1>5 DEF sys_rt_sigsuspend
  <2>2. UNCHANGED <<jobctl, pend, shared, missed, hit>> /\ blocked'[t] = m
    BY <1>5, <2>1 DEF sys_rt_sigsuspend, Types, TypeOK
  <2>3. \/ Enter(t, "return")
        \/ Enter(t, "sleep") /\ ~jobctl'[t] /\ Deaf(t)'
    BY <2>1, <2>2 DEF Deaf, Interrupts
  <2>4. SleepTested' /\ state[t] = "runnable"
    BY <1>1, <2>3
  <2> QED
    BY <2>1, <2>2, <2>4, MaskAllHeard
<1>6. CASE sys_sigreturn(t)
  <2> DEFINE m == Head(frames[t])
  <2>1. /\ blocked' = [blocked EXCEPT ![t] = m]
        /\ missed' = missed \cup (shared \cap (m \ blocked[t]))
        /\ UNCHANGED <<state, jobctl, pend, shared, hit>>
        /\ Enter(t, "return")
    BY <1>6 DEF sys_sigreturn
  <2> HIDE DEF m
  <2>2. SleepTested' /\ state[t] = "runnable"
    BY <1>1, <2>1
  <2>3. \A q \in Threads : blocked'[q] = IF q = t THEN m ELSE blocked[q]
    BY <2>1 DEF Types, TypeOK
  <2>4. Live' = Live /\ t \in Live /\ Live \subseteq Threads
    BY <2>1, <2>2 DEF Live, proc_live
  <2>5. ASSUME NEW sig \in shared' \ missed', Interrupts(sig)
        PROVE  Heard(sig)'
    <3>1. sig \in shared \ missed /\ (sig \notin m \/ sig \in blocked[t])
      BY <2>1, <2>5
    <3>2. Heard(sig)
      BY <2>5, <3>1 DEF AllHeard
    <3> QED
      BY <2>1, <2>2, <2>3, <2>4, <3>1, <3>2 DEF Heard, Awake
  <2>6. \A q \in Threads : OwnHeard(q)'
    BY <2>1, <2>2, <2>3 DEF AllHeard, OwnHeard, Awake, Interrupts
  <2> QED
    BY <2>2, <2>5, <2>6 DEF AllHeard, Interrupts
<1>7. CASE sys_clone(t)
  <2>1. PICK c \in Threads : /\ state[c] = "unused" /\ state' = [state EXCEPT ![c] = "runnable"]
                             /\ blocked' = [blocked EXCEPT ![c] = blocked[t]]
                             /\ Enter(t, "return")
    BY <1>7 DEF sys_clone
  <2>2. UNCHANGED <<jobctl, pend, shared, missed, hit>>
    BY <1>7 DEF sys_clone
  <2>3. /\ \A q \in Threads \ {c} : blocked'[q] = blocked[q] /\ state'[q] = state[q]
        /\ state'[c] = "runnable"
    BY <1>0, <2>1 DEF Types, TypeOK
  <2>4. Live' = Live \cup {c} /\ c \notin Live /\ Live \subseteq Threads
    BY <2>1, <2>3 DEF Live, proc_live
  <2>5. \A sig : Heard(sig) => Heard(sig)'
    BY <2>2, <2>3, <2>4 DEF Heard, Awake
  <2>6. \A q \in Threads : OwnHeard(q)'
    BY <2>2, <2>3 DEF AllHeard, OwnHeard, Awake, Interrupts
  <2>7. AllHeard'
    BY <2>2, <2>5, <2>6 DEF AllHeard, Interrupts
  <2> QED
    BY <1>1, <2>1, <2>7
<1>8. CASE sys_exit(t)
  <2>1. /\ shared' \subseteq Sigs /\ \A q \in Threads \ {t} : pend'[q] = pend[q]
        /\ Forget(t) /\ proc_exit(state, t) /\ bkl = Nobody /\ hit' = hit
    BY <1>8 DEF sys_exit, Types, TypeOK
  <2>2. pc' = [pc EXCEPT ![t] = "dead"]
    BY <2>1 DEF proc_exit
  <2>3. SleepTested'
    BY <1>0, <2>1, <2>2, TestedOne
  <2> QED
    BY <2>1, <2>3, ExitHeard
<1> QED
    BY <1>2, <1>3, <1>4, <1>5, <1>6, <1>7, <1>8 DEF User

LEMMA KernelHeard ==
    ASSUME Types, Where, AllHeard, SleepTested, NEW t \in Threads, Kernel(t)
    PROVE  AllHeard' /\ SleepTested'
<1>0. /\ state \in [Threads -> States] /\ jobctl \in [Threads -> BOOLEAN]
      /\ pc \in [Threads -> {"user", "sleep", "slept", "return", "deliver", "halt", "halted", "dead"}]
    BY DEF Types, TypeOK, States
<1>1. ASSUME bkl \in {t, Nobody}, NEW x, x # "sleep", pc' = [pc EXCEPT ![t] = x]
      PROVE  SleepTested'
    BY <1>0, <1>1, TestedOne
<1>2. CASE StopAsked(t)
  <2>1. /\ state' = [state EXCEPT ![t] = "stopped"] /\ state[t] = "runnable"
        /\ jobctl' = [jobctl EXCEPT ![t] = FALSE]
        /\ UNCHANGED <<pend, blocked, shared, missed, hit>>
    BY <1>2 DEF StopAsked, group_stop_participate, Where, WhereOK
  <2>2. AllHeard'
    BY <1>0, <2>1, AwakeHeard DEF proc_live
  <2> QED
    BY <1>1, <1>2, <2>2 DEF StopAsked, group_stop_participate
<1>3. ASSUME bkl \in {t, Nobody}, state[t] = "runnable", NEW m, ToUser(state, t, shared', m),
             hit \subseteq hit' \cup {t},
             \A q \in Threads \ {t} : (jobctl'[q] => jobctl[q]) /\ pend'[q] \subseteq pend[q],
             \A sig \in shared' \ missed' : sig \in shared \ missed \/ sig \notin blocked[t]
      PROVE  AllHeard' /\ SleepTested'
  <2>1. /\ state' = signal_retarget_shared(state, t, shared', m \ blocked[t])
        /\ blocked' = [blocked EXCEPT ![t] = m] /\ pc' = [pc EXCEPT ![t] = "user"]
    BY <1>3 DEF ToUser
  <2>2. AllHeard'
    BY <1>3, <2>1, MaskAllHeard
  <2> QED
    BY <1>1, <1>3, <2>1, <2>2
<1>4. CASE DeliverNothing(t)
  <2>1. /\ bkl = t /\ state[t] = "runnable" /\ shared' = shared /\ missed' = missed
        /\ ToUser(state, t, shared', SavedMask(t)) /\ pend' = pend /\ hit' = hit
    BY <1>4 DEF DeliverNothing, AtDelivery, Where, WhereOK
  <2>2. \A q \in Threads : jobctl'[q] => jobctl[q]
    BY <1>0, <1>4 DEF DeliverNothing, Kept
  <2> QED
    BY <1>3, <2>1, <2>2
<1>5. CASE Deliver(t)
  <2>1. PICK sig : sig = Min(Deliverable(t))
    OBVIOUS
  <2>2. /\ Dies(t) \/ GoesOn(t, sig) \/ Faults(t, sig) \/ Stops(t, sig)
        /\ bkl = t /\ pc[t] \in {"deliver", "return"} /\ sig \notin blocked[t]
        /\ shared' \subseteq shared /\ missed' = missed \ {sig} /\ hit' = hit
    BY <1>5, <2>1, DeliverCases
  <2>3. CASE Dies(t)
    <3> DEFINE others == Live \ {t}
               st == sig_wake_sleeper(state, others, SIGKILL)
    <3>1. proc_exit(st, t)
      BY <2>3 DEF Dies, proc_group_exit
    <3>2. \A q \in Threads \ {t} : q \in others \/ state[q] # "sleeping"
      BY DEF Live, proc_live
    <3>3. st \in [Threads -> States] /\ \A q \in Threads \ {t} : st[q] # "sleeping"
      BY <1>0, <3>2, WakeSleeperFacts
    <3> HIDE DEF others, st
    <3>4. \A q \in Threads : state'[q] # "sleeping"
      <4> DEFINE left == [st EXCEPT ![t] = "zombie"]
      <4>1. /\ left \in [Threads -> States] /\ \A q \in Threads : left[q] # "sleeping"
            /\ state' = signal_retarget_shared(left, t, shared', Sigs)
        BY <3>1, <3>3 DEF proc_exit, States
      <4> HIDE DEF left
      <4> QED
        BY <4>1, RetargetFacts
    <3> QED
      BY <1>1, <2>2, <3>1, <3>4, NoneAsleep DEF proc_exit
  <2>4. CASE GoesOn(t, sig)
    <3>1. \A q \in Threads \ {t} : (jobctl'[q] => jobctl[q]) /\ pend'[q] \subseteq pend[q]
      BY <1>0, <2>4 DEF GoesOn, Kept, Types, TypeOK
    <3>2. \A s \in shared' \ missed' : s \in shared \ missed \/ s \notin blocked[t]
      BY <2>2
    <3>3. state[t] = "runnable"
      BY <2>2 DEF Where, WhereOK
    <3> QED
      BY <1>3, <2>2, <2>4, <3>1, <3>2, <3>3 DEF GoesOn
  <2>5. CASE Stops(t, sig)
    <3> DEFINE others == {q \in Live \ {t} : state[q] # "stopped"}
               st == sig_wake_sleeper(state, others, sig)
    <3>1. state' = [st EXCEPT ![t] = "stopped"] /\ pc' = [pc EXCEPT ![t] = "halt"]
      BY <2>5 DEF Stops, do_group_stop, group_stop_participate
    <3>2. \A q \in Threads \ {t} : q \in others \/ state[q] # "sleeping"
      BY DEF Live, proc_live
    <3>3. st \in [Threads -> States] /\ \A q \in Threads \ {t} : st[q] # "sleeping"
      BY <1>0, <3>2, WakeSleeperFacts
    <3> HIDE DEF others, st
    <3>4. \A q \in Threads : state'[q] # "sleeping"
      BY <3>1, <3>3
    <3> QED
      BY <1>1, <2>2, <3>1, <3>4, NoneAsleep
  <2>6. CASE Faults(t, sig)
    <3>1. \A q \in Threads \ {t} : (jobctl'[q] => jobctl[q]) /\ pend'[q] \subseteq pend[q]
      BY <1>0, <2>6 DEF Faults, Kept, Types, TypeOK
    <3>2. /\ UNCHANGED <<state, blocked>> /\ state[t] = "runnable"
          /\ pc' = [pc EXCEPT ![t] = "return"]
      BY <2>2, <2>6 DEF Faults, Where, WhereOK
    <3>3. AllHeard'
      <4>1. Live' = Live /\ t \in Live /\ \A q : Awake(q)' <=> Awake(q)
        BY <2>2, <3>2 DEF Live, proc_live, Awake
      <4>2. \A s : s \notin blocked[t] => Heard(s)'
        BY <3>2, <4>1 DEF Heard, Awake
      <4>3. \A s : Heard(s) => Heard(s)'
        BY <3>2, <4>1 DEF Heard
      <4>4. \A q \in Threads : OwnHeard(q)'
        BY <3>1, <3>2, <4>1 DEF AllHeard, OwnHeard, Awake, Interrupts
      <4>5. \A s \in shared' \ missed' : s \in shared \ missed \/ s \notin blocked[t]
        BY <2>2
      <4> QED
        BY <4>2, <4>3, <4>4, <4>5 DEF AllHeard, Interrupts
    <3> QED
      BY <1>1, <2>2, <3>2, <3>3
  <2> QED
    BY <2>2, <2>3, <2>4, <2>5, <2>6
<1>6. CASE proc_stop_self(t)
  <2>1. bkl = t /\ pc[t] = "halt" /\ pc' = [pc EXCEPT ![t] = "halted"]
    BY <1>6 DEF proc_stop_self
  <2>2. state' = [state EXCEPT ![t] = "stopped"] /\ UNCHANGED <<jobctl, pend, blocked, shared, missed, hit>>
    BY <1>6 DEF proc_stop_self
  <2>3. proc_live(t)
    BY <2>1 DEF Where, WhereOK, proc_live
  <2>4. AllHeard'
    BY <1>0, <2>2, <2>3, AwakeHeard DEF proc_live
  <2> QED
    BY <1>1, <2>1, <2>4
<1>7. CASE Resume(t)
  <2>1. /\ bkl = Nobody /\ state[t] = "runnable" /\ UNCHANGED <<jobctl, pend, shared, missed>>
        /\ hit' = hit \ {t}
    BY <1>7 DEF Resume
  <2>2. CASE ToUser(state, t, shared, SavedMask(t))
    BY <1>3, <2>1, <2>2
  <2>3. CASE pc' = [pc EXCEPT ![t] = "deliver"] /\ UNCHANGED <<state, blocked>>
    BY <1>1, <2>1, <2>3, AwakeHeard DEF proc_live
  <2> QED
    BY <1>7, <2>2, <2>3 DEF Resume
<1>8. CASE Interrupt(t)
  <2>1. AllHeard'
    BY <1>8, AwakeHeard DEF Interrupt, proc_live
  <2> QED
    BY <1>1, <1>8, <2>1 DEF Interrupt, Enter
<1>9. CASE Sleep(t)
  <2>1. /\ state' = [state EXCEPT ![t] = "sleeping"] /\ state[t] = "runnable"
        /\ ~jobctl[t] /\ (t \in hit \/ Deaf(t))
        /\ bkl = t /\ pc' = [pc EXCEPT ![t] = "slept"]
        /\ UNCHANGED <<jobctl, pend, blocked, shared, missed, hit>>
    BY <1>9 DEF Sleep, Where, WhereOK, SleepTested
  <2>2. state'[t] = "sleeping" /\ \A q \in Threads \ {t} : state'[q] = state[q]
    BY <1>0, <2>1
  <2>3. Live' = Live /\ Live \subseteq Threads
    BY <1>0, <2>1 DEF Live, proc_live
  <2>4. ASSUME NEW sig \in shared \ missed, Interrupts(sig)
        PROVE  Heard(sig)'
    <3>1. (sig \in blocked[t] \/ t \in hit) /\ Heard(sig)
      BY <2>1, <2>4 DEF Deaf, AllHeard
    <3> QED
      BY <2>1, <2>2, <2>3, <3>1 DEF Heard, Awake
  <2>5. \A q \in Threads : OwnHeard(q)'
    BY <2>1, <2>2 DEF AllHeard, OwnHeard, Awake, Deaf, Interrupts
  <2> QED
    BY <1>1, <2>1, <2>4, <2>5 DEF AllHeard, Interrupts
<1>10. CASE Slept(t)
  <2>1. /\ UNCHANGED <<state, jobctl, pend, blocked, shared, missed>> /\ bkl = Nobody
        /\ state[t] = "runnable" /\ hit' = hit \ {t}
    BY <1>10 DEF Slept
  <2>2. AllHeard'
    BY <2>1, AwakeHeard DEF proc_live
  <2>3. ~signal_interrupt_pending(t) => ~jobctl'[t] /\ Deaf(t)'
    BY <2>1 DEF signal_interrupt_pending, Deaf, Interrupts
  <2>4. CASE pc' = [pc EXCEPT ![t] = "return"]
    BY <1>1, <2>1, <2>2, <2>4
  <2>5. CASE pc' = [pc EXCEPT ![t] = "sleep"] /\ ~signal_interrupt_pending(t)
    BY <1>0, <2>1, <2>2, <2>3, <2>5, TestedOne
  <2> QED
    BY <1>10, <2>4, <2>5 DEF Slept
<1> QED
    BY <1>2, <1>4, <1>5, <1>6, <1>7, <1>8, <1>9, <1>10 DEF Kernel

LEMMA NextHeard ==
    ASSUME Types, Where, AllHeard, SleepTested, [Next]_vars
    PROVE  AllHeard' /\ SleepTested'
<1>1. CASE UNCHANGED vars \/ sys_waitpid \/ WaitSleep
  <2>1. /\ UNCHANGED <<state, pc, jobctl, pend, blocked, shared, missed>>
        /\ \A q \in Threads : q \in hit => q \in hit'
    BY <1>1, ThreadNumbers DEF vars, thread, sys_waitpid, WaitSleep
  <2>2. AllHeard'
    BY <2>1, AwakeHeard DEF proc_live
  <2> QED
    BY <2>1, <2>2 DEF SleepTested, Deaf, Interrupts
<1>2. CASE Send
  <2>1. pc' = pc /\ (\A q \in Threads : pc[q] = "sleep" => bkl = q)
    BY <1>2 DEF Send, Types, TypeOK
  <2>2. \A q \in Threads : pc[q] = "sleep" => q \in hit'
    BY <1>2, <2>1 DEF Send, AboutToSleep
  <2>3. \A q \in Threads : jobctl'[q] => jobctl[q]
    BY <1>2 DEF Send, signal_send, signal_send_group, Queue, prepare_job_control, Types, TypeOK
  <2> QED
    BY <1>2, <2>1, <2>2, <2>3, SendHeard DEF SleepTested
<1> QED
    BY <1>1, <1>2, KernelHeard, UserHeard DEF Next

-----------------------------------------------------------------------------
(* The theorems.                                                           *)

LEMMA InitAll ==
    ASSUME Init
    PROVE  Types /\ Where /\ StopReachesAll /\ StopHeld /\ Told /\ AllHeard /\ SleepTested
<1>1. Types
    BY InitTypes
<1>2. \A t \in Threads : /\ state[t] \in {"runnable", "unused"} /\ pc[t] = "user"
                         /\ jobctl[t] = FALSE /\ pend[t] = {}
    BY DEF Init
<1>3. group.stop = 0 /\ shared = {} /\ wait = "out" /\ bkl # Parent
    BY ThreadNumbers DEF Init
<1>4. Where /\ StopReachesAll /\ StopHeld
    BY <1>2, <1>3 DEF Where, WhereOK, StopReachesAll, StopHeld
<1>5. Told /\ AllHeard /\ SleepTested
    BY <1>2, <1>3 DEF Told, AllHeard, OwnHeard, SleepTested
<1> QED
    BY <1>1, <1>4, <1>5

(* The state keeps its type, at most one thread is in the kernel and it is *)
(* the one with the lock.                                                  *)
THEOREM TypeCorrect == Spec => []TypeOK
<1>1. Init => Types
    BY InitTypes
<1>2. Types /\ [Next]_vars => Types'
    BY NextTypes
<1>3. Types => TypeOK
    BY DEF Types
<1> QED
    BY <1>1, <1>2, <1>3, PTL DEF Spec

(* A stop reaches every thread, whatever do_group_stop, an exit, a kill or *)
(* an interrupt in the middle of either does to it: each one has stopped,  *)
(* has been asked to, is being killed, or was created since.               *)
THEOREM StopsReachAll == Spec => []StopReachesAll
<1>1. Init => Types /\ Where /\ StopReachesAll
    BY InitAll
<1>2. Types /\ Where /\ StopReachesAll /\ [Next]_vars => (Types /\ Where /\ StopReachesAll)'
    BY NextTypes, NextWhere, NextReaches
<1> QED
    BY <1>1, <1>2, PTL DEF Spec

(* Only a stop in force holds a stopped thread, and never one that is      *)
(* being killed, except a thread that was on its way into proc_stop_self   *)
(* when an interrupt sent the signal; it counts until the thread runs.     *)
THEOREM StopsHold == Spec => []StoppedByStop
<1>1. Init => Types /\ Where /\ StopHeld
    BY InitAll
<1>2. Types /\ Where /\ StopHeld /\ [Next]_vars => (Types /\ Where /\ StopHeld)'
    BY NextTypes, NextWhere, NextHeld
<1>3. StopHeld => StoppedByStop
    BY DEF StopHeld, StoppedByStop
<1> QED
    BY <1>1, <1>2, <1>3, PTL DEF Spec

(* A parent asleep in a wait has a child that lives and has been told of   *)
(* its stop, and of the stop's end but for the one that an interrupt sends *)
(* between the look of sys_waitpid and its sleep.                          *)
THEOREM ParentIsTold == Spec => []ParentTold
<1>1. Init => Types /\ Where /\ Told
    BY InitAll
<1>2. Types /\ Where /\ Told /\ [Next]_vars => (Types /\ Where /\ Told)'
    BY NextTypes, NextWhere, NextTold
<1>3. Told => ParentTold
    BY StoppedStopping DEF Told, ParentTold
<1> QED
    BY <1>1, <1>2, <1>3, PTL DEF Spec

(* No signal that would interrupt a sleep waits for a sleeper alone, with  *)
(* interrupts sending at any point of the kernel, except for a thread that *)
(* had made its test and was about to sleep.                               *)
THEOREM SignalsHeard == Spec => []NoLostSignal
<1>1. Init => Types /\ Where /\ AllHeard /\ SleepTested
    BY InitAll
<1>2. Types /\ Where /\ AllHeard /\ SleepTested /\ [Next]_vars
        => (Types /\ Where /\ AllHeard /\ SleepTested)'
    BY NextTypes, NextWhere, NextHeard
<1>3. AllHeard => NoLostSignal
    BY HeardEnough
<1> QED
    BY <1>1, <1>2, <1>3, PTL DEF Spec
=============================================================================
