-------------------------- MODULE SchedulerProofs ---------------------------
(***************************************************************************)
(* Safety of Scheduler for any set of CPUs and threads.                    *)
(*                                                                         *)
(* The inductive invariant ties each CPU's place in the loop to the lock,  *)
(* to the thread it has and to its idle flag.  Its heart is EmptyOK: while *)
(* a CPU that has scanned and found nothing still holds the lock, every    *)
(* runnable thread that is not in `late' has another CPU that will see it, *)
(* so publishing idle and releasing the lock loses none.                   *)
(***************************************************************************)
EXTENDS Scheduler, TLAPS

(* Where c is, or returns to when its interrupt handler ends.              *)
Where(c) == IF pc[c] = "irq" THEN ret[c] ELSE pc[c]

RetOK == \A c \in CPUs : pc[c] = "irq" <=> ret[c] # None

LockOK == \A c \in CPUs :
    g_bkl = c <=> (pc[c] = "irq" \/ pc[c] \in SchedPC \/ pc[c] \in {"kern", "park"})

ProcOK == \A c \in CPUs : proc[c] # None <=> Where(c) \in ThreadPC

IdleOK == \A c \in CPUs :
    /\ Where(c) \in IdlePC => c \in idle
    /\ c \in idle => Where(c) \in IdlePC \cup {"acquire"}

RunOK == \A c \in CPUs :
    /\ Where(c) \in {"kern", "user"} => state[proc[c]] = "RUNNING"
    /\ Where(c) = "park" => state[proc[c]] # "UNUSED"

DeadOK == \A t \in Threads : state[t] \in {"UNUSED", "ZOMBIE"} => kmap[t] = None

OneOK == \A c, d \in CPUs : proc[c] # None /\ proc[c] = proc[d] => c = d

EmptyOK == \A c \in CPUs : Where(c) = "empty" =>
    \A t \in Threads : state[t] = "RUNNABLE" /\ t \notin late =>
        \E d \in Home(t) : d # c /\ ~Dozing(d)

Inv ==
    /\ TypeOK /\ RetOK /\ LockOK /\ ProcOK /\ IdleOK /\ RunOK /\ OneOK
    /\ DeadOK /\ NoLostKick /\ PinnedAtHome /\ NoForgottenThread /\ EmptyOK

-----------------------------------------------------------------------------
(* Acquire preserves the invariant.                                        *)
LEMMA AcquireInv ==
    ASSUME NEW c \in CPUs, Inv, Acquire(c)
    PROVE  Inv'
<1> USE SchedAssumption DEF Acquire, Goto, PCs, Interruptible, IdlePC, SchedPC, ThreadPC
<1>1. TypeOK'
    BY DEF Inv, TypeOK, RetOK, ProcOK, States, Where
<1>2. RetOK'
    BY DEF Inv, TypeOK, RetOK
<1>3. LockOK'
    BY DEF Inv, TypeOK, RetOK, LockOK, Where
<1>4. ProcOK'
    BY DEF Inv, TypeOK, RetOK, ProcOK, Where
<1>5. IdleOK'
    BY DEF Inv, TypeOK, RetOK, IdleOK, Where
<1>6. RunOK'
    BY DEF Inv, TypeOK, RetOK, LockOK, ProcOK, RunOK, OneOK, Where
<1>7. OneOK'
    BY DEF Inv, TypeOK, ProcOK, OneOK, Where
<1>8. DeadOK'
    BY DEF Inv, TypeOK, RetOK, ProcOK, RunOK, DeadOK, Where
<1>9. NoLostKick'
    BY DEF Inv, TypeOK, RetOK, IdleOK, NoLostKick, Where
<1>10. PinnedAtHome'
    BY DEF Inv, TypeOK, ProcOK, OneOK, PinnedAtHome, RetOK, Where
<1>11. NoForgottenThread'
    BY DEF Inv, TypeOK, RetOK, IdleOK, LockOK, ProcOK, RunOK, OneOK, PinnedAtHome, NoForgottenThread, EmptyOK, Where, Dozing, Home
<1>12. EmptyOK'
    BY DEF Inv, TypeOK, RetOK, IdleOK, LockOK, ProcOK, RunOK, OneOK, PinnedAtHome, NoForgottenThread, EmptyOK, Where, Dozing, Home
<1> QED
    BY <1>1, <1>2, <1>3, <1>4, <1>5, <1>6, <1>7, <1>8, <1>9, <1>10, <1>11, <1>12 DEF Inv

(* LoopTop preserves the invariant.                                        *)
LEMMA LoopTopInv ==
    ASSUME NEW c \in CPUs, Inv, LoopTop(c)
    PROVE  Inv'
<1> USE SchedAssumption DEF LoopTop, Goto, PCs, Interruptible, IdlePC, SchedPC, ThreadPC
<1>1. TypeOK'
    BY DEF Inv, TypeOK, RetOK, ProcOK, States, Where
<1>2. RetOK'
    BY DEF Inv, TypeOK, RetOK
<1>3. LockOK'
    BY DEF Inv, TypeOK, RetOK, LockOK, Where
<1>4. ProcOK'
    BY DEF Inv, TypeOK, RetOK, ProcOK, Where
<1>5. IdleOK'
    BY DEF Inv, TypeOK, RetOK, IdleOK, Where
<1>6. RunOK'
    BY DEF Inv, TypeOK, RetOK, LockOK, ProcOK, RunOK, OneOK, Where
<1>7. OneOK'
    BY DEF Inv, TypeOK, ProcOK, OneOK, Where
<1>8. DeadOK'
    BY DEF Inv, TypeOK, RetOK, ProcOK, RunOK, DeadOK, Where
<1>9. NoLostKick'
    BY DEF Inv, TypeOK, RetOK, IdleOK, NoLostKick, Where
<1>10. PinnedAtHome'
    BY DEF Inv, TypeOK, ProcOK, OneOK, PinnedAtHome, RetOK, Where
<1>11. NoForgottenThread'
  <2> SUFFICES ASSUME NEW u \in Threads, state'[u] = "RUNNABLE", u \notin late'
               PROVE  \E d \in Home(u)' : ~Dozing(d)'
      BY DEF NoForgottenThread
  <2>1. ~Dozing(c)'
      BY DEF Inv, TypeOK, RetOK, Dozing
  <2>2. PICK d \in Home(u) : ~Dozing(d)
      BY DEF Inv, NoForgottenThread, TypeOK
  <2>3. d \in CPUs /\ Home(u)' = Home(u)
      BY DEF Inv, TypeOK, Home
  <2>4. d # c => ~Dozing(d)'
      BY <2>2, <2>3 DEF Inv, TypeOK, Dozing
  <2> QED
      BY <2>1, <2>2, <2>3, <2>4
<1>12. EmptyOK'
    BY DEF Inv, TypeOK, RetOK, IdleOK, LockOK, ProcOK, RunOK, OneOK, PinnedAtHome, NoForgottenThread, EmptyOK, Where, Dozing, Home
<1> QED
    BY <1>1, <1>2, <1>3, <1>4, <1>5, <1>6, <1>7, <1>8, <1>9, <1>10, <1>11, <1>12 DEF Inv

(* Dispatch preserves the invariant.                                       *)
LEMMA DispatchInv ==
    ASSUME NEW c \in CPUs, NEW t \in Threads, Inv, Dispatch(c, t)
    PROVE  Inv'
<1> USE SchedAssumption DEF Dispatch, Goto, PCs, Interruptible, IdlePC, SchedPC, ThreadPC, Eligible, SetState
<1>1. TypeOK'
    BY DEF Inv, TypeOK, RetOK, ProcOK, States, Where
<1>2. RetOK'
    BY DEF Inv, TypeOK, RetOK
<1>3. LockOK'
    BY DEF Inv, TypeOK, RetOK, LockOK, Where
<1>4. ProcOK'
    BY DEF Inv, TypeOK, RetOK, ProcOK, Where
<1>5. IdleOK'
    BY DEF Inv, TypeOK, RetOK, IdleOK, Where
<1>6. RunOK'
    BY DEF Inv, TypeOK, RetOK, LockOK, ProcOK, RunOK, OneOK, Where
<1>7. OneOK'
    BY DEF Inv, TypeOK, ProcOK, OneOK, Where
<1>8. DeadOK'
    BY DEF Inv, TypeOK, RetOK, ProcOK, RunOK, DeadOK, Where
<1>9. NoLostKick'
    BY DEF Inv, TypeOK, RetOK, IdleOK, NoLostKick, Where
<1>10. PinnedAtHome'
    BY DEF Inv, TypeOK, ProcOK, OneOK, PinnedAtHome, RetOK, Where
<1>11. NoForgottenThread'
    BY DEF Inv, TypeOK, RetOK, IdleOK, LockOK, ProcOK, RunOK, OneOK, PinnedAtHome, NoForgottenThread, EmptyOK, Where, Dozing, Home
<1>12. EmptyOK'
    BY DEF Inv, TypeOK, RetOK, IdleOK, LockOK, ProcOK, RunOK, OneOK, PinnedAtHome, NoForgottenThread, EmptyOK, Where, Dozing, Home
<1> QED
    BY <1>1, <1>2, <1>3, <1>4, <1>5, <1>6, <1>7, <1>8, <1>9, <1>10, <1>11, <1>12 DEF Inv

(* PickNone preserves the invariant.                                       *)
LEMMA PickNoneInv ==
    ASSUME NEW c \in CPUs, Inv, PickNone(c)
    PROVE  Inv'
<1> USE SchedAssumption DEF PickNone, Goto, PCs, Interruptible, IdlePC, SchedPC, ThreadPC, Eligible
<1>1. TypeOK'
    BY DEF Inv, TypeOK, RetOK, ProcOK, States, Where
<1>2. RetOK'
    BY DEF Inv, TypeOK, RetOK
<1>3. LockOK'
    BY DEF Inv, TypeOK, RetOK, LockOK, Where
<1>4. ProcOK'
    BY DEF Inv, TypeOK, RetOK, ProcOK, Where
<1>5. IdleOK'
    BY DEF Inv, TypeOK, RetOK, IdleOK, Where
<1>6. RunOK'
    BY DEF Inv, TypeOK, RetOK, LockOK, ProcOK, RunOK, OneOK, Where
<1>7. OneOK'
    BY DEF Inv, TypeOK, ProcOK, OneOK, Where
<1>8. DeadOK'
    BY DEF Inv, TypeOK, RetOK, ProcOK, RunOK, DeadOK, Where
<1>9. NoLostKick'
    BY DEF Inv, TypeOK, RetOK, IdleOK, NoLostKick, Where
<1>10. PinnedAtHome'
    BY DEF Inv, TypeOK, ProcOK, OneOK, PinnedAtHome, RetOK, Where
<1>11. NoForgottenThread'
    BY DEF Inv, TypeOK, RetOK, IdleOK, LockOK, ProcOK, RunOK, OneOK, PinnedAtHome, NoForgottenThread, EmptyOK, Where, Dozing, Home
<1>12. EmptyOK'
    BY DEF Inv, TypeOK, RetOK, IdleOK, LockOK, ProcOK, RunOK, OneOK, PinnedAtHome, NoForgottenThread, EmptyOK, Where, Dozing, Home
<1> QED
    BY <1>1, <1>2, <1>3, <1>4, <1>5, <1>6, <1>7, <1>8, <1>9, <1>10, <1>11, <1>12 DEF Inv

(* GoIdle preserves the invariant.                                         *)
LEMMA GoIdleInv ==
    ASSUME NEW c \in CPUs, Inv, GoIdle(c)
    PROVE  Inv'
<1> USE SchedAssumption DEF GoIdle, Goto, PCs, Interruptible, IdlePC, SchedPC, ThreadPC
<1>1. TypeOK'
    BY DEF Inv, TypeOK, RetOK, ProcOK, States, Where
<1>2. RetOK'
    BY DEF Inv, TypeOK, RetOK
<1>3. LockOK'
    BY DEF Inv, TypeOK, RetOK, LockOK, Where
<1>4. ProcOK'
    BY DEF Inv, TypeOK, RetOK, ProcOK, Where
<1>5. IdleOK'
    BY DEF Inv, TypeOK, RetOK, IdleOK, Where
<1>6. RunOK'
    BY DEF Inv, TypeOK, RetOK, LockOK, ProcOK, RunOK, OneOK, Where
<1>7. OneOK'
    BY DEF Inv, TypeOK, ProcOK, OneOK, Where
<1>8. DeadOK'
    BY DEF Inv, TypeOK, RetOK, ProcOK, RunOK, DeadOK, Where
<1>9. NoLostKick'
    BY DEF Inv, TypeOK, RetOK, IdleOK, NoLostKick, Where
<1>10. PinnedAtHome'
    BY DEF Inv, TypeOK, ProcOK, OneOK, PinnedAtHome, RetOK, Where
<1>11. NoForgottenThread'
    BY DEF Inv, TypeOK, RetOK, IdleOK, LockOK, ProcOK, RunOK, OneOK, PinnedAtHome, NoForgottenThread, EmptyOK, Where, Dozing, Home
<1>12. EmptyOK'
    BY DEF Inv, TypeOK, RetOK, IdleOK, LockOK, ProcOK, RunOK, OneOK, PinnedAtHome, NoForgottenThread, EmptyOK, Where, Dozing, Home
<1> QED
    BY <1>1, <1>2, <1>3, <1>4, <1>5, <1>6, <1>7, <1>8, <1>9, <1>10, <1>11, <1>12 DEF Inv

(* Test preserves the invariant.                                           *)
LEMMA TestInv ==
    ASSUME NEW c \in CPUs, Inv, Test(c)
    PROVE  Inv'
<1> USE SchedAssumption DEF Test, Goto, PCs, Interruptible, IdlePC, SchedPC, ThreadPC
<1>1. TypeOK'
    BY DEF Inv, TypeOK, RetOK, ProcOK, States, Where
<1>2. RetOK'
    BY DEF Inv, TypeOK, RetOK
<1>3. LockOK'
    BY DEF Inv, TypeOK, RetOK, LockOK, Where
<1>4. ProcOK'
    BY DEF Inv, TypeOK, RetOK, ProcOK, Where
<1>5. IdleOK'
    BY DEF Inv, TypeOK, RetOK, IdleOK, Where
<1>6. RunOK'
    BY DEF Inv, TypeOK, RetOK, LockOK, ProcOK, RunOK, OneOK, Where
<1>7. OneOK'
    BY DEF Inv, TypeOK, ProcOK, OneOK, Where
<1>8. DeadOK'
    BY DEF Inv, TypeOK, RetOK, ProcOK, RunOK, DeadOK, Where
<1>9. NoLostKick'
    BY DEF Inv, TypeOK, RetOK, IdleOK, NoLostKick, Where
<1>10. PinnedAtHome'
    BY DEF Inv, TypeOK, ProcOK, OneOK, PinnedAtHome, RetOK, Where
<1>11. NoForgottenThread'
    BY DEF Inv, TypeOK, RetOK, IdleOK, LockOK, ProcOK, RunOK, OneOK, PinnedAtHome, NoForgottenThread, EmptyOK, Where, Dozing, Home
<1>12. EmptyOK'
    BY DEF Inv, TypeOK, RetOK, IdleOK, LockOK, ProcOK, RunOK, OneOK, PinnedAtHome, NoForgottenThread, EmptyOK, Where, Dozing, Home
<1> QED
    BY <1>1, <1>2, <1>3, <1>4, <1>5, <1>6, <1>7, <1>8, <1>9, <1>10, <1>11, <1>12 DEF Inv

(* IdleTick preserves the invariant.                                       *)
LEMMA IdleTickInv ==
    ASSUME NEW c \in CPUs, Inv, IdleTick(c)
    PROVE  Inv'
<1> USE SchedAssumption DEF IdleTick, Goto, PCs, Interruptible, IdlePC, SchedPC, ThreadPC
<1>1. TypeOK'
    BY DEF Inv, TypeOK, RetOK, ProcOK, States, Where
<1>2. RetOK'
    BY DEF Inv, TypeOK, RetOK
<1>3. LockOK'
    BY DEF Inv, TypeOK, RetOK, LockOK, Where
<1>4. ProcOK'
    BY DEF Inv, TypeOK, RetOK, ProcOK, Where
<1>5. IdleOK'
    BY DEF Inv, TypeOK, RetOK, IdleOK, Where
<1>6. RunOK'
    BY DEF Inv, TypeOK, RetOK, LockOK, ProcOK, RunOK, OneOK, Where
<1>7. OneOK'
    BY DEF Inv, TypeOK, ProcOK, OneOK, Where
<1>8. DeadOK'
    BY DEF Inv, TypeOK, RetOK, ProcOK, RunOK, DeadOK, Where
<1>9. NoLostKick'
    BY DEF Inv, TypeOK, RetOK, IdleOK, NoLostKick, Where
<1>10. PinnedAtHome'
    BY DEF Inv, TypeOK, ProcOK, OneOK, PinnedAtHome, RetOK, Where
<1>11. NoForgottenThread'
    BY DEF Inv, TypeOK, RetOK, IdleOK, LockOK, ProcOK, RunOK, OneOK, PinnedAtHome, NoForgottenThread, EmptyOK, Where, Dozing, Home
<1>12. EmptyOK'
    BY DEF Inv, TypeOK, RetOK, IdleOK, LockOK, ProcOK, RunOK, OneOK, PinnedAtHome, NoForgottenThread, EmptyOK, Where, Dozing, Home
<1> QED
    BY <1>1, <1>2, <1>3, <1>4, <1>5, <1>6, <1>7, <1>8, <1>9, <1>10, <1>11, <1>12 DEF Inv

(* IdleIpi preserves the invariant.                                        *)
LEMMA IdleIpiInv ==
    ASSUME NEW c \in CPUs, Inv, IdleIpi(c)
    PROVE  Inv'
<1> USE SchedAssumption DEF IdleIpi, Goto, PCs, Interruptible, IdlePC, SchedPC, ThreadPC
<1>1. TypeOK'
    BY DEF Inv, TypeOK, RetOK, ProcOK, States, Where
<1>2. RetOK'
    BY DEF Inv, TypeOK, RetOK
<1>3. LockOK'
    BY DEF Inv, TypeOK, RetOK, LockOK, Where
<1>4. ProcOK'
    BY DEF Inv, TypeOK, RetOK, ProcOK, Where
<1>5. IdleOK'
    BY DEF Inv, TypeOK, RetOK, IdleOK, Where
<1>6. RunOK'
    BY DEF Inv, TypeOK, RetOK, LockOK, ProcOK, RunOK, OneOK, Where
<1>7. OneOK'
    BY DEF Inv, TypeOK, ProcOK, OneOK, Where
<1>8. DeadOK'
    BY DEF Inv, TypeOK, RetOK, ProcOK, RunOK, DeadOK, Where
<1>9. NoLostKick'
    BY DEF Inv, TypeOK, RetOK, IdleOK, NoLostKick, Where
<1>10. PinnedAtHome'
    BY DEF Inv, TypeOK, ProcOK, OneOK, PinnedAtHome, RetOK, Where
<1>11. NoForgottenThread'
    BY DEF Inv, TypeOK, RetOK, IdleOK, LockOK, ProcOK, RunOK, OneOK, PinnedAtHome, NoForgottenThread, EmptyOK, Where, Dozing, Home
<1>12. EmptyOK'
    BY DEF Inv, TypeOK, RetOK, IdleOK, LockOK, ProcOK, RunOK, OneOK, PinnedAtHome, NoForgottenThread, EmptyOK, Where, Dozing, Home
<1> QED
    BY <1>1, <1>2, <1>3, <1>4, <1>5, <1>6, <1>7, <1>8, <1>9, <1>10, <1>11, <1>12 DEF Inv

(* SwitchOut preserves the invariant.                                      *)
LEMMA SwitchOutInv ==
    ASSUME NEW c \in CPUs, Inv, SwitchOut(c)
    PROVE  Inv'
<1> USE SchedAssumption DEF SwitchOut, SetState, Goto, PCs, Interruptible, IdlePC, SchedPC, ThreadPC
<1>1. TypeOK'
    BY DEF Inv, TypeOK, RetOK, ProcOK, States, Where
<1>2. RetOK'
    BY DEF Inv, TypeOK, RetOK
<1>3. LockOK'
    BY DEF Inv, TypeOK, RetOK, LockOK, Where
<1>4. ProcOK'
    BY DEF Inv, TypeOK, RetOK, ProcOK, Where
<1>5. IdleOK'
    BY DEF Inv, TypeOK, RetOK, IdleOK, Where
<1>6. RunOK'
    BY DEF Inv, TypeOK, RetOK, LockOK, ProcOK, RunOK, OneOK, Where
<1>7. OneOK'
    BY DEF Inv, TypeOK, ProcOK, OneOK, Where
<1>8. DeadOK'
    BY DEF Inv, TypeOK, RetOK, ProcOK, RunOK, DeadOK, Where
<1>9. NoLostKick'
    BY DEF Inv, TypeOK, RetOK, IdleOK, NoLostKick, Where
<1>10. PinnedAtHome'
    BY DEF Inv, TypeOK, ProcOK, OneOK, PinnedAtHome, RetOK, Where
<1>11. NoForgottenThread'
    BY DEF Inv, TypeOK, RetOK, IdleOK, LockOK, ProcOK, RunOK, OneOK, PinnedAtHome, NoForgottenThread, EmptyOK, Where, Dozing, Home
<1>12. EmptyOK'
    BY DEF Inv, TypeOK, RetOK, IdleOK, LockOK, ProcOK, RunOK, OneOK, PinnedAtHome, NoForgottenThread, EmptyOK, Where, Dozing, Home
<1> QED
    BY <1>1, <1>2, <1>3, <1>4, <1>5, <1>6, <1>7, <1>8, <1>9, <1>10, <1>11, <1>12 DEF Inv

(* TrapIn preserves the invariant.                                         *)
LEMMA TrapInInv ==
    ASSUME NEW c \in CPUs, Inv, TrapIn(c)
    PROVE  Inv'
<1> USE SchedAssumption DEF TrapIn, Goto, PCs, Interruptible, IdlePC, SchedPC, ThreadPC
<1>1. TypeOK'
    BY DEF Inv, TypeOK, RetOK, ProcOK, States, Where
<1>2. RetOK'
    BY DEF Inv, TypeOK, RetOK
<1>3. LockOK'
    BY DEF Inv, TypeOK, RetOK, LockOK, Where
<1>4. ProcOK'
    BY DEF Inv, TypeOK, RetOK, ProcOK, Where
<1>5. IdleOK'
    BY DEF Inv, TypeOK, RetOK, IdleOK, Where
<1>6. RunOK'
    BY DEF Inv, TypeOK, RetOK, LockOK, ProcOK, RunOK, OneOK, Where
<1>7. OneOK'
    BY DEF Inv, TypeOK, ProcOK, OneOK, Where
<1>8. DeadOK'
    BY DEF Inv, TypeOK, RetOK, ProcOK, RunOK, DeadOK, Where
<1>9. NoLostKick'
    BY DEF Inv, TypeOK, RetOK, IdleOK, NoLostKick, Where
<1>10. PinnedAtHome'
    BY DEF Inv, TypeOK, ProcOK, OneOK, PinnedAtHome, RetOK, Where
<1>11. NoForgottenThread'
    BY DEF Inv, TypeOK, RetOK, IdleOK, LockOK, ProcOK, RunOK, OneOK, PinnedAtHome, NoForgottenThread, EmptyOK, Where, Dozing, Home
<1>12. EmptyOK'
    BY DEF Inv, TypeOK, RetOK, IdleOK, LockOK, ProcOK, RunOK, OneOK, PinnedAtHome, NoForgottenThread, EmptyOK, Where, Dozing, Home
<1> QED
    BY <1>1, <1>2, <1>3, <1>4, <1>5, <1>6, <1>7, <1>8, <1>9, <1>10, <1>11, <1>12 DEF Inv

(* ReturnToUser preserves the invariant.                                   *)
LEMMA ReturnToUserInv ==
    ASSUME NEW c \in CPUs, Inv, ReturnToUser(c)
    PROVE  Inv'
<1> USE SchedAssumption DEF ReturnToUser, Goto, PCs, Interruptible, IdlePC, SchedPC, ThreadPC, ExitToUser, SetState
<1>1. TypeOK'
    BY DEF Inv, TypeOK, RetOK, ProcOK, States, Where
<1>2. RetOK'
    BY DEF Inv, TypeOK, RetOK
<1>3. LockOK'
    BY DEF Inv, TypeOK, RetOK, LockOK, Where
<1>4. ProcOK'
    BY DEF Inv, TypeOK, RetOK, ProcOK, Where
<1>5. IdleOK'
    BY DEF Inv, TypeOK, RetOK, IdleOK, Where
<1>6. RunOK'
    BY DEF Inv, TypeOK, RetOK, LockOK, ProcOK, RunOK, OneOK, Where
<1>7. OneOK'
    BY DEF Inv, TypeOK, ProcOK, OneOK, Where
<1>8. DeadOK'
    BY DEF Inv, TypeOK, RetOK, ProcOK, RunOK, DeadOK, Where
<1>9. NoLostKick'
    BY DEF Inv, TypeOK, RetOK, IdleOK, NoLostKick, Where
<1>10. PinnedAtHome'
    BY DEF Inv, TypeOK, ProcOK, OneOK, PinnedAtHome, RetOK, Where
<1>11. NoForgottenThread'
  <2> SUFFICES ASSUME NEW u \in Threads, state'[u] = "RUNNABLE", u \notin late'
               PROVE  \E d \in Home(u)' : ~Dozing(d)'
      BY DEF NoForgottenThread
  <2>1. ~Dozing(c)'
      BY DEF Inv, TypeOK, RetOK, Dozing
  <2>2. Home(u)' = Home(u) /\ Home(u) \subseteq CPUs
      BY DEF Inv, TypeOK, Home
  <2>3. CASE u = proc[c]
    <3>1. c \in Home(u)
        BY <2>3 DEF Inv, TypeOK, PinnedAtHome, Home
    <3> QED
        BY <2>1, <2>2, <3>1
  <2>4. CASE u # proc[c]
    <3>1. state[u] = "RUNNABLE" /\ u \notin late
        BY <2>4 DEF Inv, TypeOK
    <3>2. PICK d \in Home(u) : ~Dozing(d)
        BY <3>1 DEF Inv, NoForgottenThread
    <3>3. d # c => ~Dozing(d)'
        BY <2>2, <3>2 DEF Inv, TypeOK, Dozing
    <3> QED
        BY <2>1, <2>2, <3>2, <3>3
  <2> QED
      BY <2>3, <2>4
<1>12. EmptyOK'
    BY DEF Inv, TypeOK, RetOK, IdleOK, LockOK, ProcOK, RunOK, OneOK, PinnedAtHome, NoForgottenThread, EmptyOK, Where, Dozing, Home
<1> QED
    BY <1>1, <1>2, <1>3, <1>4, <1>5, <1>6, <1>7, <1>8, <1>9, <1>10, <1>11, <1>12 DEF Inv

(* A sleep, a yield, a stop or an exit preserves the invariant.            *)
LEMMA LeaveInv ==
    ASSUME NEW c \in CPUs, NEW s \in States \ {"UNUSED"}, Inv, Leave(c, s)
    PROVE  Inv'
<1> USE SchedAssumption DEF Leave, Goto, PCs, Interruptible, IdlePC, SchedPC, ThreadPC, SetState
<1>1. TypeOK'
    BY DEF Inv, TypeOK, RetOK, ProcOK, States, Where
<1>2. RetOK'
    BY DEF Inv, TypeOK, RetOK
<1>3. LockOK'
    BY DEF Inv, TypeOK, RetOK, LockOK, Where
<1>4. ProcOK'
    BY DEF Inv, TypeOK, RetOK, ProcOK, Where
<1>5. IdleOK'
    BY DEF Inv, TypeOK, RetOK, IdleOK, Where
<1>6. RunOK'
    BY DEF Inv, TypeOK, RetOK, LockOK, ProcOK, RunOK, OneOK, Where
<1>7. OneOK'
    BY DEF Inv, TypeOK, ProcOK, OneOK, Where
<1>8. DeadOK'
    BY DEF Inv, TypeOK, RetOK, ProcOK, RunOK, DeadOK, Where
<1>9. NoLostKick'
    BY DEF Inv, TypeOK, RetOK, IdleOK, NoLostKick, Where
<1>10. PinnedAtHome'
    BY DEF Inv, TypeOK, ProcOK, OneOK, PinnedAtHome, RetOK, Where
<1>11. NoForgottenThread'
  <2> SUFFICES ASSUME NEW u \in Threads, state'[u] = "RUNNABLE", u \notin late'
               PROVE  \E d \in Home(u)' : ~Dozing(d)'
      BY DEF NoForgottenThread
  <2>1. ~Dozing(c)'
      BY DEF Inv, TypeOK, RetOK, Dozing
  <2>2. Home(u)' = Home(u) /\ Home(u) \subseteq CPUs
      BY DEF Inv, TypeOK, Home
  <2>3. CASE u = proc[c]
    <3>1. c \in Home(u)
        BY <2>3 DEF Inv, TypeOK, PinnedAtHome, Home
    <3> QED
        BY <2>1, <2>2, <3>1
  <2>4. CASE u # proc[c]
    <3>1. state[u] = "RUNNABLE" /\ u \notin late
        BY <2>4 DEF Inv, TypeOK
    <3>2. PICK d \in Home(u) : ~Dozing(d)
        BY <3>1 DEF Inv, NoForgottenThread
    <3>3. d # c => ~Dozing(d)'
        BY <2>2, <3>2 DEF Inv, TypeOK, Dozing
    <3> QED
        BY <2>1, <2>2, <3>2, <3>3
  <2> QED
      BY <2>3, <2>4
<1>12. EmptyOK'
    BY DEF Inv, TypeOK, RetOK, IdleOK, LockOK, ProcOK, RunOK, OneOK, PinnedAtHome, NoForgottenThread, EmptyOK, Where, Dozing, Home
<1> QED
    BY <1>1, <1>2, <1>3, <1>4, <1>5, <1>6, <1>7, <1>8, <1>9, <1>10, <1>11, <1>12 DEF Inv

(* KernWake preserves the invariant.                                       *)
LEMMA KernWakeInv ==
    ASSUME NEW c \in CPUs, NEW t \in Threads, Inv, KernWake(c, t)
    PROVE  Inv'
<1> USE SchedAssumption DEF KernWake, Goto, PCs, Interruptible, IdlePC, SchedPC, ThreadPC, sched_make_runnable, sched_wakeup, resched_cpu, NoKick, Unkicked, SetState
<1>1. TypeOK'
    BY DEF Inv, TypeOK, RetOK, ProcOK, States, Where
<1>2. RetOK'
    BY DEF Inv, TypeOK, RetOK
<1>3. LockOK'
    BY DEF Inv, TypeOK, RetOK, LockOK, Where
<1>4. ProcOK'
    BY DEF Inv, TypeOK, RetOK, ProcOK, Where
<1>5. IdleOK'
    BY DEF Inv, TypeOK, RetOK, IdleOK, Where
<1>6. RunOK'
    BY DEF Inv, TypeOK, RetOK, LockOK, ProcOK, RunOK, OneOK, Where
<1>7. OneOK'
    BY DEF Inv, TypeOK, ProcOK, OneOK, Where
<1>8. DeadOK'
    BY DEF Inv, TypeOK, RetOK, ProcOK, RunOK, DeadOK, Where
<1>9. NoLostKick'
    BY DEF Inv, TypeOK, RetOK, IdleOK, NoLostKick, Where
<1>10. PinnedAtHome'
    BY DEF Inv, TypeOK, ProcOK, OneOK, PinnedAtHome, RetOK, Where
<1>11. NoForgottenThread'
  <2> SUFFICES ASSUME NEW u \in Threads, state'[u] = "RUNNABLE", u \notin late'
               PROVE  \E d \in Home(u)' : ~Dozing(d)'
      BY DEF NoForgottenThread
  <2>1. Home(u)' = Home(u) /\ Home(u) \subseteq CPUs
      BY DEF Inv, TypeOK, Home
  <2>2. \A d \in CPUs : ~Dozing(d) => ~Dozing(d)'
      BY DEF Inv, TypeOK, Dozing
  <2>3. CASE u = t
    <3>1. ~Dozing(c)'
        BY <2>2 DEF Inv, TypeOK, RetOK, Dozing
    <3>2. CASE kmap[t] = None
        BY <2>1, <2>3, <3>1, <3>2 DEF Home
    <3>3. CASE kmap[t] # None
      <4>1. kmap[t] \in CPUs /\ Home(u) = {kmap[t]}
          BY <2>3, <3>3 DEF Inv, TypeOK, Home
      <4>2. ~Dozing(kmap[t])'
          BY <3>3, <4>1 DEF Inv, TypeOK, IdleOK, RetOK, Where, Dozing
      <4> QED
          BY <2>1, <4>1, <4>2
    <3> QED
        BY <3>2, <3>3
  <2>4. CASE u # t
    <3>1. state[u] = "RUNNABLE" /\ u \notin late
        BY <2>4 DEF Inv, TypeOK
    <3>2. PICK d \in Home(u) : ~Dozing(d)
        BY <3>1 DEF Inv, NoForgottenThread
    <3> QED
        BY <2>1, <2>2, <3>2
  <2> QED
      BY <2>3, <2>4
<1>12. EmptyOK'
    BY DEF Inv, TypeOK, RetOK, IdleOK, LockOK, ProcOK, RunOK, OneOK, PinnedAtHome, NoForgottenThread, EmptyOK, Where, Dozing, Home
<1> QED
    BY <1>1, <1>2, <1>3, <1>4, <1>5, <1>6, <1>7, <1>8, <1>9, <1>10, <1>11, <1>12 DEF Inv

(* Fork preserves the invariant.                                           *)
LEMMA ForkInv ==
    ASSUME NEW c \in CPUs, NEW t \in Threads, Inv, Fork(c, t)
    PROVE  Inv'
<1> USE SchedAssumption DEF Fork, Goto, PCs, Interruptible, IdlePC, SchedPC, ThreadPC, sched_kick_idle, resched_cpu, NoKick, Unkicked, SetState
<1>1. TypeOK'
    BY DEF Inv, TypeOK, RetOK, ProcOK, States, Where
<1>2. RetOK'
    BY DEF Inv, TypeOK, RetOK
<1>3. LockOK'
    BY DEF Inv, TypeOK, RetOK, LockOK, Where
<1>4. ProcOK'
    BY DEF Inv, TypeOK, RetOK, ProcOK, Where
<1>5. IdleOK'
    BY DEF Inv, TypeOK, RetOK, IdleOK, Where
<1>6. RunOK'
    BY DEF Inv, TypeOK, RetOK, LockOK, ProcOK, RunOK, OneOK, Where
<1>7. OneOK'
    BY DEF Inv, TypeOK, ProcOK, OneOK, Where
<1>8. DeadOK'
    BY DEF Inv, TypeOK, RetOK, ProcOK, RunOK, DeadOK, Where
<1>9. NoLostKick'
    BY DEF Inv, TypeOK, RetOK, IdleOK, NoLostKick, Where
<1>10. PinnedAtHome'
    BY DEF Inv, TypeOK, ProcOK, OneOK, PinnedAtHome, RetOK, Where
<1>11. NoForgottenThread'
  <2> SUFFICES ASSUME NEW u \in Threads, state'[u] = "RUNNABLE", u \notin late'
               PROVE  \E d \in Home(u)' : ~Dozing(d)'
      BY DEF NoForgottenThread
  <2>1. Home(u)' = Home(u) /\ Home(u) \subseteq CPUs
      BY DEF Inv, TypeOK, Home
  <2>2. \A d \in CPUs : ~Dozing(d) => ~Dozing(d)'
      BY DEF Inv, TypeOK, Dozing
  <2>3. CASE u = t
    <3>1. ~Dozing(c)'
        BY DEF Inv, TypeOK, RetOK, Dozing
    <3>2. c \in Home(u)
        BY <2>3 DEF Inv, DeadOK, Home
    <3> QED
        BY <2>1, <3>1, <3>2
  <2>4. CASE u # t
    <3>1. state[u] = "RUNNABLE" /\ u \notin late
        BY <2>4 DEF Inv, TypeOK
    <3>2. PICK d \in Home(u) : ~Dozing(d)
        BY <3>1 DEF Inv, NoForgottenThread
    <3> QED
        BY <2>1, <2>2, <3>2
  <2> QED
      BY <2>3, <2>4
<1>12. EmptyOK'
    BY DEF Inv, TypeOK, RetOK, IdleOK, LockOK, ProcOK, RunOK, OneOK, PinnedAtHome, NoForgottenThread, EmptyOK, Where, Dozing, Home
<1> QED
    BY <1>1, <1>2, <1>3, <1>4, <1>5, <1>6, <1>7, <1>8, <1>9, <1>10, <1>11, <1>12 DEF Inv

(* Release preserves the invariant.                                        *)
LEMMA ReleaseInv ==
    ASSUME NEW c \in CPUs, NEW t \in Threads, Inv, Release(c, t)
    PROVE  Inv'
<1> USE SchedAssumption DEF Release, SetState, PCs, Interruptible, IdlePC, SchedPC, ThreadPC
<1>1. TypeOK'
    BY DEF Inv, TypeOK, RetOK, ProcOK, States, Where
<1>2. RetOK'
    BY DEF Inv, TypeOK, RetOK
<1>3. LockOK'
    BY DEF Inv, TypeOK, RetOK, LockOK, Where
<1>4. ProcOK'
    BY DEF Inv, TypeOK, RetOK, ProcOK, Where
<1>5. IdleOK'
    BY DEF Inv, TypeOK, RetOK, IdleOK, Where
<1>6. RunOK'
    BY DEF Inv, TypeOK, RetOK, LockOK, ProcOK, RunOK, OneOK, Where
<1>7. OneOK'
    BY DEF Inv, TypeOK, ProcOK, OneOK, Where
<1>8. DeadOK'
    BY DEF Inv, TypeOK, RetOK, ProcOK, RunOK, DeadOK, Where
<1>9. NoLostKick'
    BY DEF Inv, TypeOK, RetOK, IdleOK, NoLostKick, Where
<1>10. PinnedAtHome'
    BY DEF Inv, TypeOK, ProcOK, OneOK, PinnedAtHome, RetOK, Where
<1>11. NoForgottenThread'
    BY DEF Inv, TypeOK, RetOK, IdleOK, LockOK, ProcOK, RunOK, OneOK, PinnedAtHome, NoForgottenThread, EmptyOK, Where, Dozing, Home
<1>12. EmptyOK'
    BY DEF Inv, TypeOK, RetOK, IdleOK, LockOK, ProcOK, RunOK, OneOK, PinnedAtHome, NoForgottenThread, EmptyOK, Where, Dozing, Home
<1> QED
    BY <1>1, <1>2, <1>3, <1>4, <1>5, <1>6, <1>7, <1>8, <1>9, <1>10, <1>11, <1>12 DEF Inv

(* TempMap preserves the invariant.                                        *)
LEMMA TempMapInv ==
    ASSUME NEW c \in CPUs, Inv, TempMap(c)
    PROVE  Inv'
<1> USE SchedAssumption DEF TempMap, Goto, PCs, Interruptible, IdlePC, SchedPC, ThreadPC
<1>1. TypeOK'
    BY DEF Inv, TypeOK, RetOK, ProcOK, States, Where
<1>2. RetOK'
    BY DEF Inv, TypeOK, RetOK
<1>3. LockOK'
    BY DEF Inv, TypeOK, RetOK, LockOK, Where
<1>4. ProcOK'
    BY DEF Inv, TypeOK, RetOK, ProcOK, Where
<1>5. IdleOK'
    BY DEF Inv, TypeOK, RetOK, IdleOK, Where
<1>6. RunOK'
    BY DEF Inv, TypeOK, RetOK, LockOK, ProcOK, RunOK, OneOK, Where
<1>7. OneOK'
    BY DEF Inv, TypeOK, ProcOK, OneOK, Where
<1>8. DeadOK'
    BY DEF Inv, TypeOK, RetOK, ProcOK, RunOK, DeadOK, Where
<1>9. NoLostKick'
    BY DEF Inv, TypeOK, RetOK, IdleOK, NoLostKick, Where
<1>10. PinnedAtHome'
    BY DEF Inv, TypeOK, ProcOK, OneOK, PinnedAtHome, RetOK, Where
<1>11. NoForgottenThread'
    BY DEF Inv, TypeOK, RetOK, IdleOK, LockOK, ProcOK, RunOK, OneOK, PinnedAtHome, NoForgottenThread, EmptyOK, Where, Dozing, Home
<1>12. EmptyOK'
    BY DEF Inv, TypeOK, RetOK, IdleOK, LockOK, ProcOK, RunOK, OneOK, PinnedAtHome, NoForgottenThread, EmptyOK, Where, Dozing, Home
<1> QED
    BY <1>1, <1>2, <1>3, <1>4, <1>5, <1>6, <1>7, <1>8, <1>9, <1>10, <1>11, <1>12 DEF Inv

(* IrqEnter preserves the invariant.                                       *)
LEMMA IrqEnterInv ==
    ASSUME NEW c \in CPUs, Inv, IrqEnter(c)
    PROVE  Inv'
<1> USE SchedAssumption DEF IrqEnter, Goto, PCs, Interruptible, IdlePC, SchedPC, ThreadPC
<1>1. TypeOK'
    BY DEF Inv, TypeOK, RetOK, ProcOK, States, Where
<1>2. RetOK'
    BY DEF Inv, TypeOK, RetOK
<1>3. LockOK'
    BY DEF Inv, TypeOK, RetOK, LockOK, Where
<1>4. ProcOK'
    BY DEF Inv, TypeOK, RetOK, ProcOK, Where
<1>5. IdleOK'
    BY DEF Inv, TypeOK, RetOK, IdleOK, Where
<1>6. RunOK'
    BY DEF Inv, TypeOK, RetOK, LockOK, ProcOK, RunOK, OneOK, Where
<1>7. OneOK'
    BY DEF Inv, TypeOK, ProcOK, OneOK, Where
<1>8. DeadOK'
    BY DEF Inv, TypeOK, RetOK, ProcOK, RunOK, DeadOK, Where
<1>9. NoLostKick'
    BY DEF Inv, TypeOK, RetOK, IdleOK, NoLostKick, Where
<1>10. PinnedAtHome'
    BY DEF Inv, TypeOK, ProcOK, OneOK, PinnedAtHome, RetOK, Where
<1>11. NoForgottenThread'
    BY DEF Inv, TypeOK, RetOK, IdleOK, LockOK, ProcOK, RunOK, OneOK, PinnedAtHome, NoForgottenThread, EmptyOK, Where, Dozing, Home
<1>12. EmptyOK'
    BY DEF Inv, TypeOK, RetOK, IdleOK, LockOK, ProcOK, RunOK, OneOK, PinnedAtHome, NoForgottenThread, EmptyOK, Where, Dozing, Home
<1> QED
    BY <1>1, <1>2, <1>3, <1>4, <1>5, <1>6, <1>7, <1>8, <1>9, <1>10, <1>11, <1>12 DEF Inv

(* IrqWake preserves the invariant.                                        *)
LEMMA IrqWakeInv ==
    ASSUME NEW c \in CPUs, NEW t \in Threads, Inv, IrqWake(c, t)
    PROVE  Inv'
<1> USE SchedAssumption DEF IrqWake, Goto, PCs, Interruptible, IdlePC, SchedPC, ThreadPC, sched_make_runnable, sched_wakeup, resched_cpu, NoKick, Unkicked, SetState
<1>1. TypeOK'
    BY DEF Inv, TypeOK, RetOK, ProcOK, States, Where
<1>2. RetOK'
    BY DEF Inv, TypeOK, RetOK
<1>3. LockOK'
    BY DEF Inv, TypeOK, RetOK, LockOK, Where
<1>4. ProcOK'
    BY DEF Inv, TypeOK, RetOK, ProcOK, Where
<1>5. IdleOK'
    BY DEF Inv, TypeOK, RetOK, IdleOK, Where
<1>6. RunOK'
    BY DEF Inv, TypeOK, RetOK, LockOK, ProcOK, RunOK, OneOK, Where
<1>7. OneOK'
    BY DEF Inv, TypeOK, ProcOK, OneOK, Where
<1>8. DeadOK'
    BY DEF Inv, TypeOK, RetOK, ProcOK, RunOK, DeadOK, Where
<1>9. NoLostKick'
    BY DEF Inv, TypeOK, RetOK, IdleOK, NoLostKick, Where
<1>10. PinnedAtHome'
    BY DEF Inv, TypeOK, ProcOK, OneOK, PinnedAtHome, RetOK, Where
<1>11. NoForgottenThread'
  <2> SUFFICES ASSUME NEW u \in Threads, state'[u] = "RUNNABLE", u \notin late'
               PROVE  \E d \in Home(u)' : ~Dozing(d)'
      BY DEF NoForgottenThread
  <2>1. Home(u)' = Home(u) /\ Home(u) \subseteq CPUs
      BY DEF Inv, TypeOK, Home
  <2>2. \A d \in CPUs : ~Dozing(d) => ~Dozing(d)'
      BY DEF Inv, TypeOK, Dozing
  <2>3. CASE u = t
    <3>2. CASE kmap[t] = None
      <4>1. ~Dozing(c)'
          BY <3>2 DEF Inv, TypeOK, IdleOK, RetOK, Where, Dozing
      <4> QED
          BY <2>1, <2>3, <3>2, <4>1 DEF Home
    <3>3. CASE kmap[t] # None
      <4>1. kmap[t] \in CPUs /\ Home(u) = {kmap[t]}
          BY <2>3, <3>3 DEF Inv, TypeOK, Home
      <4>2. ~Dozing(kmap[t])'
          BY <3>3, <4>1 DEF Inv, TypeOK, IdleOK, RetOK, Where, Dozing
      <4> QED
          BY <2>1, <4>1, <4>2
    <3> QED
        BY <3>2, <3>3
  <2>4. CASE u # t
    <3>1. state[u] = "RUNNABLE" /\ u \notin late
        BY <2>4 DEF Inv, TypeOK
    <3>2. PICK d \in Home(u) : ~Dozing(d)
        BY <3>1 DEF Inv, NoForgottenThread
    <3> QED
        BY <2>1, <2>2, <3>2
  <2> QED
      BY <2>3, <2>4
<1>12. EmptyOK'
    BY DEF Inv, TypeOK, RetOK, IdleOK, LockOK, ProcOK, RunOK, OneOK, PinnedAtHome, NoForgottenThread, EmptyOK, Where, Dozing, Home
<1> QED
    BY <1>1, <1>2, <1>3, <1>4, <1>5, <1>6, <1>7, <1>8, <1>9, <1>10, <1>11, <1>12 DEF Inv

(* SliceTick preserves the invariant.                                      *)
LEMMA SliceTickInv ==
    ASSUME NEW c \in CPUs, Inv, SliceTick(c)
    PROVE  Inv'
<1> USE SchedAssumption DEF SliceTick, Goto, PCs, Interruptible, IdlePC, SchedPC, ThreadPC
<1>1. TypeOK'
    BY DEF Inv, TypeOK, RetOK, ProcOK, States, Where
<1>2. RetOK'
    BY DEF Inv, TypeOK, RetOK
<1>3. LockOK'
    BY DEF Inv, TypeOK, RetOK, LockOK, Where
<1>4. ProcOK'
    BY DEF Inv, TypeOK, RetOK, ProcOK, Where
<1>5. IdleOK'
    BY DEF Inv, TypeOK, RetOK, IdleOK, Where
<1>6. RunOK'
    BY DEF Inv, TypeOK, RetOK, LockOK, ProcOK, RunOK, OneOK, Where
<1>7. OneOK'
    BY DEF Inv, TypeOK, ProcOK, OneOK, Where
<1>8. DeadOK'
    BY DEF Inv, TypeOK, RetOK, ProcOK, RunOK, DeadOK, Where
<1>9. NoLostKick'
    BY DEF Inv, TypeOK, RetOK, IdleOK, NoLostKick, Where
<1>10. PinnedAtHome'
    BY DEF Inv, TypeOK, ProcOK, OneOK, PinnedAtHome, RetOK, Where
<1>11. NoForgottenThread'
    BY DEF Inv, TypeOK, RetOK, IdleOK, LockOK, ProcOK, RunOK, OneOK, PinnedAtHome, NoForgottenThread, EmptyOK, Where, Dozing, Home
<1>12. EmptyOK'
    BY DEF Inv, TypeOK, RetOK, IdleOK, LockOK, ProcOK, RunOK, OneOK, PinnedAtHome, NoForgottenThread, EmptyOK, Where, Dozing, Home
<1> QED
    BY <1>1, <1>2, <1>3, <1>4, <1>5, <1>6, <1>7, <1>8, <1>9, <1>10, <1>11, <1>12 DEF Inv

(* IrqExit preserves the invariant.                                        *)
LEMMA IrqExitInv ==
    ASSUME NEW c \in CPUs, Inv, IrqExit(c)
    PROVE  Inv'
<1> USE SchedAssumption DEF IrqExit, Goto, PCs, Interruptible, IdlePC, SchedPC, ThreadPC, ExitToUser, SetState
<1>1. TypeOK'
    BY DEF Inv, TypeOK, RetOK, ProcOK, States, Where
<1>2. RetOK'
    BY DEF Inv, TypeOK, RetOK
<1>3. LockOK'
    BY DEF Inv, TypeOK, RetOK, LockOK, Where
<1>4. ProcOK'
    BY DEF Inv, TypeOK, RetOK, ProcOK, Where
<1>5. IdleOK'
    BY DEF Inv, TypeOK, RetOK, IdleOK, Where
<1>6. RunOK'
    BY DEF Inv, TypeOK, RetOK, LockOK, ProcOK, RunOK, OneOK, Where
<1>7. OneOK'
    BY DEF Inv, TypeOK, ProcOK, OneOK, Where
<1>8. DeadOK'
    BY DEF Inv, TypeOK, RetOK, ProcOK, RunOK, DeadOK, Where
<1>9. NoLostKick'
    BY DEF Inv, TypeOK, RetOK, IdleOK, NoLostKick, Where
<1>10. PinnedAtHome'
    BY DEF Inv, TypeOK, ProcOK, OneOK, PinnedAtHome, RetOK, Where
<1>11. NoForgottenThread'
    BY DEF Inv, TypeOK, RetOK, IdleOK, LockOK, ProcOK, RunOK, OneOK, PinnedAtHome, NoForgottenThread, EmptyOK, Where, Dozing, Home
<1>12. EmptyOK'
    BY DEF Inv, TypeOK, RetOK, IdleOK, LockOK, ProcOK, RunOK, OneOK, PinnedAtHome, NoForgottenThread, EmptyOK, Where, Dozing, Home
<1> QED
    BY <1>1, <1>2, <1>3, <1>4, <1>5, <1>6, <1>7, <1>8, <1>9, <1>10, <1>11, <1>12 DEF Inv

(* PitTick preserves the invariant.                                        *)
LEMMA PitTickInv == Inv /\ PitTick => Inv'
<1> SUFFICES ASSUME Inv, PitTick PROVE Inv'
    OBVIOUS
<1>1. TypeOK'
    BY SchedAssumption DEF Inv, TypeOK, PitTick
<1>2. /\ RetOK' /\ LockOK' /\ ProcOK' /\ IdleOK' /\ RunOK' /\ OneOK' /\ DeadOK'
      /\ NoLostKick' /\ PinnedAtHome' /\ NoForgottenThread' /\ EmptyOK'
    BY DEF Inv, PitTick, RetOK, LockOK, ProcOK, IdleOK, RunOK, OneOK, DeadOK,
           NoLostKick, PinnedAtHome, NoForgottenThread, EmptyOK, Where, Dozing, Home
<1> QED
    BY <1>1, <1>2 DEF Inv

-----------------------------------------------------------------------------
(* The initial states satisfy the invariant.                               *)
LEMMA InitInv == Init => Inv
<1> SUFFICES ASSUME Init PROVE Inv
    OBVIOUS
<1> USE SchedAssumption DEF Init, PCs, Interruptible, IdlePC, SchedPC, ThreadPC
<1>1. TypeOK
    BY DEF TypeOK, States
<1>2. RetOK /\ LockOK
    BY DEF RetOK, LockOK
<1>3. ProcOK /\ IdleOK /\ RunOK
    BY DEF ProcOK, IdleOK, RunOK, Where
<1>4. OneOK /\ DeadOK /\ NoLostKick /\ PinnedAtHome
    BY DEF OneOK, DeadOK, NoLostKick, PinnedAtHome
<1>5. NoForgottenThread /\ EmptyOK
    BY DEF NoForgottenThread, EmptyOK, Where, Dozing, Home
<1> QED
    BY <1>1, <1>2, <1>3, <1>4, <1>5 DEF Inv

(* Every step preserves it.                                                *)
LEMMA NextInv == Inv /\ [Next]_vars => Inv'
<1> SUFFICES ASSUME Inv, [Next]_vars PROVE Inv'
    OBVIOUS
<1>1. ASSUME NEW c \in CPUs, CpuStep(c) PROVE Inv'
  <2>1. CASE sleep_common(c) \/ yield(c) \/ proc_stop_self(c) \/ proc_exit(c)
      BY <2>1, LeaveInv DEF sleep_common, yield, proc_stop_self, proc_exit, States
  <2>2. CASE \/ Acquire(c) \/ LoopTop(c) \/ PickNone(c) \/ GoIdle(c) \/ Test(c)
             \/ IdleTick(c) \/ IdleIpi(c) \/ SwitchOut(c)
      BY <2>2, AcquireInv, LoopTopInv, PickNoneInv, GoIdleInv, TestInv,
         IdleTickInv, IdleIpiInv, SwitchOutInv
  <2>3. CASE \/ TrapIn(c) \/ ReturnToUser(c) \/ TempMap(c) \/ IrqEnter(c)
             \/ SliceTick(c) \/ IrqExit(c)
      BY <2>3, TrapInInv, ReturnToUserInv, TempMapInv, IrqEnterInv, SliceTickInv, IrqExitInv
  <2> QED
      BY <1>1, <2>1, <2>2, <2>3 DEF CpuStep
<1>2. ASSUME NEW c \in CPUs, NEW t \in Threads, CpuThreadStep(c, t) PROVE Inv'
    BY <1>2, DispatchInv, KernWakeInv, ForkInv, ReleaseInv, IrqWakeInv DEF CpuThreadStep
<1>3. CASE PitTick
    BY <1>3, PitTickInv
<1>4. CASE UNCHANGED vars
    BY <1>4 DEF vars, Inv, TypeOK, RetOK, LockOK, ProcOK, IdleOK, RunOK, OneOK, DeadOK,
           NoLostKick, PinnedAtHome, NoForgottenThread, EmptyOK, Where, Dozing, Home
<1> QED
    BY <1>1, <1>2, <1>3, <1>4 DEF Next

(* The inductive invariant holds in every state of the scheduler loops.    *)
THEOREM SchedInv == Spec => []Inv
    BY InitInv, NextInv, PTL DEF Spec

(* Type correctness of the scheduler's state (proc/scheduler.c).           *)
THEOREM TypeCorrect == Spec => []TypeOK
<1>1. Inv => TypeOK
    BY DEF Inv
<1> QED
    BY <1>1, SchedInv, PTL

(* sched_pick never gives a thread to a second CPU, whatever wakeups reach *)
(* it while it is on its way out of the first.                             *)
THEOREM ThreadsOnOneCpu == Spec => []OneCpuPerThread
<1>1. Inv => OneCpuPerThread
    BY DEF Inv, OneOK, RunOK, RetOK, Where, OneCpuPerThread
<1> QED
    BY <1>1, SchedInv, PTL

(* A CPU halted in scheduler_start's idle loop with need_resched set has   *)
(* the reschedule IPI coming.                                              *)
THEOREM KicksNotLost == Spec => []NoLostKick
<1>1. Inv => NoLostKick
    BY DEF Inv
<1> QED
    BY <1>1, SchedInv, PTL

(* No thread made runnable under the lock is left to CPUs that all halt    *)
(* unasked, except by an interrupt in the window between a CPU's own scan  *)
(* and its idle flag.                                                      *)
THEOREM NoneForgotten == Spec => []NoForgottenThread
<1>1. Inv => NoForgottenThread
    BY DEF Inv
<1> QED
    BY <1>1, SchedInv, PTL

(* A thread that sleeps holding temp-map slots is resumed on their CPU.    *)
THEOREM SlotsStayHome == Spec => []PinnedAtHome
<1>1. Inv => PinnedAtHome
    BY DEF Inv
<1> QED
    BY <1>1, SchedInv, PTL

=============================================================================
