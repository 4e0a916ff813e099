------------------------------ MODULE ProcLife ------------------------------
(***************************************************************************)
(* The life of processes and threads: fork, clone of a thread, exit,       *)
(* exit_group, waitpid, the reparenting and reaping of orphans             *)
(* (proc/process.c, proc_exit in proc/scheduler.c, thread_group_kill in    *)
(* proc/signal.c, sys_waitpid and reap_orphan_zombies in proc/syscall.c).  *)
(*                                                                         *)
(* A step is what a thread does between two sleeping points (see Pipe):    *)
(* waitpid's sleep_on, the copy of the status to a user page that has to   *)
(* be read from a device, and the close of an unlinked file whose blocks   *)
(* are freed on a device.  Stops and continues (WUNTRACED, WCONTINUED) are *)
(* not modelled here.                                                      *)
(*                                                                         *)
(* tab is ptable.  An entry's pc is where its thread is:                   *)
(*   user   in user mode            ret    a signal to take on return      *)
(*   wait   asleep in waitpid       ready  woken there                     *)
(*   copy   asleep in waitpid's copy of the status                         *)
(*   close  asleep in proc_exit, closing files                             *)
(*   gone   switched out for the last time                                 *)
(***************************************************************************)
EXTENDS Integers, FiniteSets

CONSTANTS
    MAX_PROCS,      \* entries of ptable
    MaxPid,         \* bound: pids ever given out
    Killable,       \* bound: pids that kill(2) sends SIGKILL to
    Codes,          \* exit codes
    Killed,         \* the status of a death by SIGKILL
    CloseSleeps,    \* a close in proc_exit may sleep
    CopySleeps,     \* the copy of the status may sleep
    None            \* the null parent

ASSUME ProcAssumption ==
    /\ MAX_PROCS \in Nat \ {0}
    /\ MaxPid \in Nat \ {0}
    /\ Killable \subseteq Nat
    /\ Codes \subseteq Nat /\ Killed \in Nat \ Codes
    /\ CloseSleeps \in BOOLEAN /\ CopySleeps \in BOOLEAN
    /\ None \notin Nat

Slots == 0..(MAX_PROCS - 1)
Pids == 1..MaxPid
ANY == 0            \* waitpid(-1)

VARIABLES
    tab,            \* ptable
    next_pid,
    told,           \* auxiliary: how often and with what status a wait
                    \* returned each pid
    final,          \* auxiliary: the status each process ends with: the first
                    \* group exit's, or else its last thread's
    misfreed        \* auxiliary: a wait whose copy slept released a process
                    \* other than the one it reports

vars == <<tab, next_pid, told, final, misfreed>>

Free == [state |-> "UNUSED", pid |-> 0, tgid |-> 0, parent |-> None,
         exit_status |-> 0, group_exit |-> FALSE, pc |-> "gone", sig |-> "none",
         want |-> ANY, at |-> 0, child |-> 0, got |-> 0,
         slept |-> FALSE]       \* auxiliary: proc_exit slept in a close

(* allocproc and its callers: what a new entry starts with.                *)
NewProc(pid, tgid, parent) ==
    [Free EXCEPT !.state = "RUNNING", !.pid = pid, !.tgid = tgid,
                 !.parent = parent, !.pc = "user"]

Init ==
    /\ tab = [s \in Slots |-> IF s = 0 THEN NewProc(1, 1, None) ELSE Free]
    /\ next_pid = 2
    /\ told = [p \in Pids |-> [n |-> 0, status |-> 0]]
    /\ final = [p \in Pids |-> [group |-> FALSE, status |-> 0]]
    /\ misfreed = FALSE

-----------------------------------------------------------------------------
(* Reading and changing the table T.                                       *)

Used(T) == {s \in Slots : T[s].state # "UNUSED"}
IsLeader(T, s) == T[s].pid = T[s].tgid
Group(T, s) == {q \in Used(T) : T[q].tgid = T[s].tgid}

(* proc_group_leader.                                                      *)
Leader(T, s) ==
    LET ls == {l \in Used(T) : T[l].pid = T[s].tgid} IN
    IF IsLeader(T, s) \/ ls = {} THEN s ELSE CHOOSE l \in ls : TRUE

(* proc_group_empty: a zombie thread is about to be released.              *)
proc_group_empty(T, l) ==
    \A q \in Group(T, l) \ {l} : T[q].state = "ZOMBIE" /\ ~IsLeader(T, q)

(* proc_release.  A free entry's other fields are never read.              *)
proc_release(T, s) == IF T[s].state = "ZOMBIE" THEN [T EXCEPT ![s] = Free] ELSE T

(* wake_up of a thread asleep in waitpid.                                  *)
Woken(e) == IF e.pc = "wait" THEN [e EXCEPT !.pc = "ready", !.state = "RUNNING"] ELSE e

(* signal_send(q, SIGKILL).  A sleep on a device is not cut short.         *)
Kill(e) ==
    IF e.state = "ZOMBIE" THEN e
    ELSE [Woken(e) EXCEPT !.sig = "kill"]

(* Mutant: every dying thread puts its own status on the leader.           *)
threadGroupKillLast(T, me, status) ==
    LET l == Leader(T, me) IN
    [s \in Slots |->
       LET e == IF s = l THEN [T[s] EXCEPT !.group_exit = TRUE, !.exit_status = status]
                ELSE T[s] IN
       IF s # me /\ s \in Group(T, me) THEN Kill(e) ELSE e]

(* Mutant: sleeping siblings are not woken for their SIGKILL.              *)
threadGroupKillNoWake(T, me, status) ==
    LET l == Leader(T, me) IN
    [s \in Slots |->
       LET e == IF s = l /\ ~T[l].group_exit
                THEN [T[s] EXCEPT !.group_exit = TRUE, !.exit_status = status]
                ELSE T[s] IN
       IF s # me /\ s \in Group(T, me) /\ e.pc # "gone"
       THEN [e EXCEPT !.sig = "kill"] ELSE e]

(* thread_group_kill: the first group exit fixes the status on the leader; *)
(* every other live thread gets SIGKILL.                                   *)
thread_group_kill(T, me, status) ==
    LET l == Leader(T, me) IN
    [s \in Slots |->
       LET e == IF s = l /\ ~T[l].group_exit
                THEN [T[s] EXCEPT !.group_exit = TRUE, !.exit_status = status]
                ELSE T[s] IN
       IF s # me /\ s \in Group(T, me) THEN Kill(e) ELSE e]

-----------------------------------------------------------------------------
(* proc_exit.                                                              *)

InitProc(T) == CHOOSE s \in Used(T) : T[s].pid = 1

(* Mutant: the caller is not spared.                                       *)
reapCallerToo(T, cur, q, parent) ==
    /\ T[q].state = "ZOMBIE" /\ parent = InitProc(T)
    /\ IsLeader(T, q) /\ proc_group_empty(T, q)

(* Whether reap_orphan_zombies, called by the thread in cur, releases q.   *)
reap_orphan_zombies(T, cur, q, parent) ==
    /\ q # cur
    /\ T[q].state = "ZOMBIE" /\ parent = InitProc(T)
    /\ IsLeader(T, q) /\ proc_group_empty(T, q)

(* Mutant: only a leader's own exit tells the parent.                      *)
NotifyLeaderOnly(T, s, l) == l = s /\ proc_group_empty(T, s)

(* Whether this exit makes the process reportable.                         *)
Notify(T, s, l) ==
    IF IsLeader(T, s) THEN proc_group_empty(T, s)
    ELSE l # s /\ T[l].state = "ZOMBIE" /\ proc_group_empty(T, l)

(* The children of leader l go to init, orphan zombies are released, and   *)
(* the parent is woken where its threads wait: on its leader.              *)
ExitNotify(T, s, l) ==
    LET Parent(q) == IF T[q].parent = l THEN InitProc(T) ELSE T[q].parent
        Reaped(q) == reap_orphan_zombies(T, s, q, Parent(q))
        chan == IF Reaped(l) THEN None ELSE Parent(l)
        Kept(q) == [T[q] EXCEPT !.parent = Parent(q)]
    IN  [q \in Slots |->
           IF Reaped(q) THEN Free
           ELSE IF T[q].pc = "wait" /\ Leader(T, q) = chan THEN Woken(Kept(q))
           ELSE Kept(q)]

(* Mutant: the scheduler leaves the entry of a thread to a wait.           *)
SwitchAwayKeeps(T, s) == [T EXCEPT ![s].pc = "gone"]

(* The switch to the scheduler, which releases a thread that exited.       *)
SwitchAway(T, s) ==
    LET U == [T EXCEPT ![s].pc = "gone"] IN
    IF IsLeader(U, s) THEN U ELSE proc_release(U, s)

(* proc_exit from exit_notify on.                                          *)
ExitTail(T, s) ==
    LET l == Leader(T, s)
        notify == Notify(T, s, l)
        U == IF notify /\ l # s /\ ~T[l].group_exit
             THEN [T EXCEPT ![l].exit_status = T[s].exit_status] ELSE T
    IN  SwitchAway(IF notify THEN ExitNotify(U, s, l) ELSE U, s)

(* The descriptor table of the group is put by its last thread.            *)
LastFiles(T, s) == \A q \in Group(T, s) \ {s} : T[q].pc = "gone"

(* proc_exit up to the closing of the files.                               *)
ExitHead(T, s, status) ==
    [T EXCEPT ![s].state = "ZOMBIE",
              ![s].exit_status = IF T[s].group_exit THEN @ ELSE status]

proc_exit(T, s, status) ==
    \E U \in {ExitHead(T, s, status)} :
       \/ tab' = ExitTail(U, s)
       \/ /\ CloseSleeps /\ LastFiles(U, s)
          /\ tab' = [U EXCEPT ![s].state = "SLEEPING", ![s].pc = "close", ![s].slept = TRUE]

(* The close has slept: the thread was dispatched again.                   *)
ExitResume(s) ==
    /\ tab[s].pc = "close"
    /\ \E U \in {[tab EXCEPT ![s].state = "RUNNING"]} : tab' = ExitTail(U, s)
    /\ UNCHANGED <<next_pid, told, final, misfreed>>

-----------------------------------------------------------------------------
(* System calls.  init neither exits nor has threads.                      *)

InUser(s) == s \in Used(tab) /\ tab[s].pc = "user"

(* The end of a system call: a thread with a SIGKILL goes no further; a    *)
(* caught signal is handled.                                               *)
Return(e) == [e EXCEPT !.pc = IF e.sig = "kill" THEN "ret" ELSE "user",
                       !.sig = IF e.sig = "kill" THEN "kill" ELSE "none",
                       !.state = "RUNNING", !.want = ANY, !.at = 0, !.child = 0,
                       !.got = 0]

FreeSlots == Slots \ Used(tab)
FirstFree == CHOOSE s \in FreeSlots : \A r \in FreeSlots : s <= r

(* allocproc for a new process or thread of the caller in s.               *)
Create(s, tgid, parent) ==
    /\ InUser(s) /\ FreeSlots # {} /\ next_pid \in Pids
    /\ tab' = [tab EXCEPT ![FirstFree] = NewProc(next_pid, tgid, parent),
                          ![s] = Return(@)]
    /\ next_pid' = next_pid + 1
    /\ UNCHANGED <<told, final, misfreed>>

Fork(s) == Create(s, next_pid, Leader(tab, s))

CloneThread(s) == tab[s].tgid # 1 /\ Create(s, tab[s].tgid, tab[s].parent)

Ended(s, status, group) ==
    final' = [final EXCEPT ![tab[s].tgid] =
                IF @.group THEN @ ELSE [group |-> group, status |-> status]]

Exit(s, status) ==
    /\ InUser(s) /\ tab[s].tgid # 1
    /\ proc_exit(tab, s, status)
    /\ Ended(s, status, FALSE)
    /\ UNCHANGED <<next_pid, told, misfreed>>

(* proc_group_exit.                                                        *)
GroupExit(s, status) ==
    /\ \E T \in {thread_group_kill(tab, s, status)} : proc_exit(T, s, status)
    /\ Ended(s, status, TRUE)
    /\ UNCHANGED <<next_pid, told, misfreed>>

ExitGroup(s, status) ==
    /\ InUser(s) /\ tab[s].tgid # 1
    /\ GroupExit(s, status)

(* kill(2) with SIGKILL; any thread of the process may get it.             *)
SigKill(s) ==
    /\ tab[s].pid \in Killable /\ tab[s].tgid # 1
    /\ tab[s].pc # "gone" /\ tab[s].sig # "kill"
    /\ tab' = [tab EXCEPT ![s] = Kill(@)]
    /\ UNCHANGED <<next_pid, told, final, misfreed>>

(* Return to user mode with a SIGKILL pending (signal_return_to_user).     *)
Die(s) ==
    /\ tab[s].pc \in {"user", "ret"} /\ tab[s].sig = "kill"
    /\ GroupExit(s, Killed)

-----------------------------------------------------------------------------
(* waitpid.                                                                *)

(* The children of the calling process that the call is for.               *)
Children(T, s, want) ==
    {p \in Used(T) :
       /\ T[p].parent # None /\ T[T[p].parent].tgid = T[s].tgid
       /\ IsLeader(T, p)
       /\ want \in {ANY, T[p].pid}}

Reapable(T, p) == T[p].state = "ZOMBIE" /\ proc_group_empty(T, p)

First(S) == CHOOSE p \in S : \A q \in S : p <= q

(* Mutant: the child is reported and stays a zombie.                       *)
CollectKeeps(s, p, pid, status) ==
    /\ tab' = [tab EXCEPT ![s] = Return(@)]
    /\ told' = [told EXCEPT ![pid] = [n |-> @.n + 1, status |-> status]]

(* The end of a call that collects the child in entry p.                   *)
Collect(s, p, pid, status) ==
    /\ tab' = [proc_release(tab, p) EXCEPT ![s] = Return(@)]
    /\ told' = [told EXCEPT ![pid] = [n |-> @.n + 1, status |-> status]]

(* One round of the loop.  WNOHANG returns where this sleeps and leaves    *)
(* everything as it was.                                                   *)
WaitScan(s, want) ==
    LET cs == Children(tab, s, want)
        zs == {p \in cs : Reapable(tab, p)}
        p == First(zs)
    IN  /\ \/ /\ zs # {}
              /\ Collect(s, p, tab[p].pid, tab[p].exit_status)
           \/ /\ zs # {} /\ CopySleeps
              /\ tab' = [tab EXCEPT ![s].pc = "copy", ![s].state = "SLEEPING",
                                    ![s].at = p, ![s].child = tab[p].pid,
                                    ![s].got = tab[p].exit_status]
              /\ UNCHANGED told
           \/ /\ zs = {}
              /\ tab' = [tab EXCEPT ![s] =
                   IF cs = {} \/ tab[s].sig # "none"      \* -ECHILD, -EINTR
                   THEN Return(@)
                   ELSE [@ EXCEPT !.pc = "wait", !.state = "SLEEPING", !.want = want]]
              /\ UNCHANGED told
        /\ UNCHANGED <<next_pid, final, misfreed>>

(* A wait for a pid that is not a child's fails with -ECHILD.              *)
WaitCall(s) ==
    /\ InUser(s)
    /\ \E want \in {ANY} \cup {tab[p].pid : p \in Children(tab, s, ANY)} :
          WaitScan(s, want)

WaitResume(s) == tab[s].pc = "ready" /\ WaitScan(s, tab[s].want)

(* The copy is done (or has failed: -EFAULT, and the child stays).  The    *)
(* entry may by now be free or another process's.                          *)
WaitCopied(s) ==
    LET p == tab[s].at IN
    /\ tab[s].pc = "copy"
    /\ \/ /\ Collect(s, p, tab[s].child, tab[s].got)
          /\ misfreed' = (misfreed \/ (tab[p].state = "ZOMBIE" /\ tab[p].pid # tab[s].child))
       \/ /\ tab' = [tab EXCEPT ![s] = Return(@)]
          /\ UNCHANGED <<told, misfreed>>
    /\ UNCHANGED <<next_pid, final>>

(* A signal with a handler reaches a thread asleep in waitpid.             *)
Signal(s) ==
    /\ tab[s].pc = "wait"
    /\ tab' = [tab EXCEPT ![s].sig = "caught", ![s].pc = "ready", ![s].state = "RUNNING"]
    /\ UNCHANGED <<next_pid, told, final, misfreed>>

-----------------------------------------------------------------------------
ThreadStep(s) ==
    \/ Fork(s) \/ CloneThread(s) \/ SigKill(s) \/ Die(s) \/ ExitResume(s)
    \/ \E code \in Codes : Exit(s, code) \/ ExitGroup(s, code)
    \/ WaitCall(s) \/ WaitResume(s) \/ WaitCopied(s) \/ Signal(s)

Next == \E s \in Slots : ThreadStep(s)

Spec == Init /\ [][Next]_vars

(* A thread that can run is run, and takes a pending SIGKILL at the latest *)
(* at its next timer interrupt; device I/O ends.  A thread is at one of    *)
(* these points at a time.                                                 *)
Fairness ==
    \A s \in Slots \ {0} : WF_vars(Die(s) \/ ExitResume(s) \/ WaitResume(s) \/ WaitCopied(s))

FairSpec == Spec /\ Fairness

-----------------------------------------------------------------------------
Entries ==
    [state : {"UNUSED", "RUNNING", "SLEEPING", "ZOMBIE"}, pid : 0..MaxPid,
     tgid : 0..MaxPid, parent : Slots \cup {None}, exit_status : Nat,
     group_exit : BOOLEAN, pc : {"user", "ret", "wait", "ready", "copy", "close", "gone"},
     sig : {"none", "caught", "kill"}, want : 0..MaxPid, at : Slots,
     child : 0..MaxPid, got : Nat, slept : BOOLEAN]

(* Every variable has its type, and entries in use have different pids.    *)
TypeOK ==
    /\ tab \in [Slots -> Entries]
    /\ next_pid \in 2..(MaxPid + 1)
    /\ told \in [Pids -> [n : Nat, status : Nat]]
    /\ final \in [Pids -> [group : BOOLEAN, status : Nat]]
    /\ misfreed \in BOOLEAN
    /\ \A s, q \in Used(tab) : tab[q].pid = tab[s].pid => q = s

(* What a thread asleep in waitpid must be able to count on: no child it   *)
(* waits for is ready to be collected, and there is one to wait for.       *)
Waiting(s) == tab[s].pc = "wait"
NothingReady(s) == \A p \in Children(tab, s, tab[s].want) : ~Reapable(tab, p)
HasChild(s) == Children(tab, s, tab[s].want) # {}

(* No exit is missed: while a thread sleeps in waitpid no child it waits   *)
(* for is a zombie with its whole group gone, whichever thread of which    *)
(* process exited last, and, in a process other than init, the call is not *)
(* left asleep with no child at all (proc_exit's wake_up of the parent),   *)
(* until a wait whose copy slept releases another child's entry.           *)
NoLostWait ==
    ~misfreed =>
       \A s \in Slots : Waiting(s) => NothingReady(s) /\ (tab[s].tgid # 1 => HasChild(s))

(* "the process is collected exactly once" (sys_waitpid): no two waits     *)
(* return the same pid, unless both found it before either had copied its  *)
(* status to a page that had to be read from a device.                     *)
CollectedOnce ==
    [][\A p \in Pids : told'[p].n > told[p].n /\ told[p].n > 0 =>
          \E s \in Slots : tab[s].pc = "copy" /\ tab[s].child = p]_vars

(* "and with the group's exit status": the first group exit's status, else *)
(* that of the last thread to exit, however the SIGKILLs it sends and the  *)
(* leader's own exit fall.                                                 *)
StatusTold == \A p \in Pids : told[p].n > 0 => told[p].status = final[p].status

(* A thread that has switched out for the last time leaves a zombie if it  *)
(* is a leader ("only the group leader is" reported by wait) and nothing   *)
(* if it is not: no exit leaves an entry that no wait can ever collect,    *)
(* unless a close slept in it, which undoes the state ZOMBIE.              *)
ExitedReapable ==
    \A s \in Used(tab) : tab[s].pc = "gone" /\ ~tab[s].slept =>
        IsLeader(tab, s) /\ tab[s].state = "ZOMBIE"

(* A leader's entry, and the kernel stack it owns, is freed only after the *)
(* leader has switched away from it: "never reap the caller mid-exit".     *)
ReleasedGone ==
    [][\A s \in Used(tab) : s \notin Used(tab)' /\ IsLeader(tab, s) => tab[s].pc = "gone"]_vars

(* A group exit or a fatal signal ends every thread of the process, also   *)
(* one asleep in waitpid and one cloned while the SIGKILLs were pending.   *)
GroupExitEnds ==
    \A p \in Pids \ {1} :
       final[p].group ~> \A s \in Used(tab) : tab[s].tgid = p => tab[s].pc = "gone"
=============================================================================
