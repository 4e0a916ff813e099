--------------------------- MODULE ProcLifeProofs ---------------------------
(***************************************************************************)
(* What the life of processes promises, for any number of table entries,   *)
(* pids, threads and exit codes.                                           *)
(*                                                                         *)
(* An exit works on the table in stages (thread_group_kill, the head of    *)
(* proc_exit, exit_notify, the switch away), so the invariant is stated of *)
(* a table in which one entry may be that of the thread that exits.        *)
(***************************************************************************)
EXTENDS ProcLife, WellFoundedInduction, TLAPS

Tables == [Slots -> Entries]

-----------------------------------------------------------------------------
(* Operators.                                                              *)

(* The first of a set of entries.                                          *)
LEMMA LeastSlot ==
    ASSUME NEW S \in SUBSET Nat, S # {}
    PROVE  \E x \in S : \A y \in S : x <= y
<1>1. PICK x \in S : \A y \in S : ~(<<y, x>> \in OpToRel(<, Nat))
  BY NatLessThanWellFounded, WFMin
<1>2. OpToRel(<, Nat) = {p \in Nat \X Nat : p[1] < p[2]}
  BY DEF OpToRel
<1>3. ASSUME NEW y \in S PROVE x <= y
  <2>1. x \in Nat /\ y \in Nat /\ <<y, x>> \in Nat \X Nat
    OBVIOUS
  <2>2. ~(y < x)
    BY <1>1, <1>2, <2>1
  <2> QED
    BY <2>1, <2>2
<1> QED
  BY <1>3

LEMMA SlotFacts == 0 \in Slots /\ Slots \subseteq Nat /\ None \notin Slots
BY ProcAssumption DEF Slots

LEMMA FirstFacts ==
    ASSUME NEW S \in SUBSET Slots, S # {}
    PROVE  First(S) \in S
<1>1. S \subseteq Nat
  BY SlotFacts
<1>2. \E p \in S : \A q \in S : p <= q
  BY <1>1, LeastSlot
<1> QED
  BY <1>2 DEF First

LEMMA FreeFacts ==
    /\ Free \in Entries
    /\ Free.state = "UNUSED" /\ Free.pc = "gone"
    /\ \A pid, tgid \in 0..MaxPid, parent \in Slots \cup {None} :
         LET e == NewProc(pid, tgid, parent) IN
         /\ e \in Entries
         /\ e.pid = pid /\ e.tgid = tgid /\ e.parent = parent
         /\ e.state = "RUNNING" /\ e.pc = "user" /\ e.sig = "none"
         /\ ~e.group_exit /\ ~e.slept
<1>1. 0 \in 0..MaxPid /\ 0 \in Nat /\ 0 \in Slots
  BY ProcAssumption DEF Slots
<1>2. Free \in Entries
  BY <1>1 DEF Free, Entries, ANY
<1>3. Free.state = "UNUSED" /\ Free.pc = "gone"
  BY DEF Free
<1>4. ASSUME NEW pid \in 0..MaxPid, NEW tgid \in 0..MaxPid, NEW parent \in Slots \cup {None}
      PROVE  /\ NewProc(pid, tgid, parent) \in Entries
             /\ NewProc(pid, tgid, parent).pid = pid /\ NewProc(pid, tgid, parent).tgid = tgid
             /\ NewProc(pid, tgid, parent).parent = parent
             /\ NewProc(pid, tgid, parent).state = "RUNNING"
             /\ NewProc(pid, tgid, parent).pc = "user" /\ NewProc(pid, tgid, parent).sig = "none"
             /\ ~NewProc(pid, tgid, parent).group_exit /\ ~NewProc(pid, tgid, parent).slept
  BY <1>1, <1>2 DEF NewProc, Free, Entries, ANY
<1> QED
  BY <1>2, <1>3, <1>4

(* What an entry keeps while its thread is woken, killed or returns.       *)
Same(e, f) ==
    /\ f.pid = e.pid /\ f.tgid = e.tgid /\ f.parent = e.parent
    /\ f.exit_status = e.exit_status /\ f.group_exit = e.group_exit /\ f.slept = e.slept

SameCall(e, f) == f.want = e.want /\ f.at = e.at /\ f.child = e.child /\ f.got = e.got

Wakes(e, f) ==
    \/ f.pc = e.pc /\ f.state = e.state
    \/ e.pc = "wait" /\ f.pc = "ready" /\ f.state = "RUNNING"

LEMMA WokenFacts ==
    ASSUME NEW e \in Entries
    PROVE  /\ Woken(e) \in Entries /\ Same(e, Woken(e)) /\ SameCall(e, Woken(e))
           /\ Wakes(e, Woken(e)) /\ Woken(e).sig = e.sig /\ Woken(e).pc # "wait"
BY ZenonT(40) DEF Woken, Entries, Same, SameCall, Wakes

LEMMA KillFacts ==
    ASSUME NEW e \in Entries
    PROVE  /\ Kill(e) \in Entries /\ Same(e, Kill(e)) /\ SameCall(e, Kill(e))
           /\ Wakes(e, Kill(e)) /\ (e.state # "ZOMBIE" => Kill(e).pc # "wait")
<1>1. Woken(e) \in Entries /\ Same(e, Woken(e)) /\ SameCall(e, Woken(e)) /\ Wakes(e, Woken(e))
      /\ Woken(e).pc # "wait"
  BY WokenFacts
<1>2. PICK w \in Entries : w = Woken(e)
  BY <1>1
<1>3. /\ [w EXCEPT !.sig = "kill"] \in Entries /\ Same(w, [w EXCEPT !.sig = "kill"])
      /\ SameCall(w, [w EXCEPT !.sig = "kill"])
      /\ [w EXCEPT !.sig = "kill"].pc = w.pc /\ [w EXCEPT !.sig = "kill"].state = w.state
  BY DEF Entries, Same, SameCall
<1>4. CASE e.state = "ZOMBIE"
  BY <1>4 DEF Kill, Same, SameCall, Wakes
<1>5. CASE e.state # "ZOMBIE"
  BY <1>1, <1>2, <1>3, <1>5 DEF Kill, Same, SameCall, Wakes
<1> QED
  BY <1>4, <1>5

LEMMA ReturnFacts ==
    ASSUME NEW e \in Entries
    PROVE  /\ Return(e) \in Entries /\ Same(e, Return(e))
           /\ Return(e).state = "RUNNING" /\ Return(e).pc \in {"user", "ret"}
           /\ Return(e).sig = "kill" <=> e.sig = "kill"
<1>1. 0 \in 0..MaxPid /\ 0 \in Nat /\ 0 \in Slots
  BY ProcAssumption DEF Slots
<1>2. PICK p \in {"user", "ret"}, g \in {"none", "kill"} :
        /\ p = IF e.sig = "kill" THEN "ret" ELSE "user"
        /\ g = IF e.sig = "kill" THEN "kill" ELSE "none"
  OBVIOUS
<1>3. Return(e) = [e EXCEPT !.pc = p, !.sig = g, !.state = "RUNNING", !.want = 0, !.at = 0,
                            !.child = 0, !.got = 0]
  BY <1>2 DEF Return, ANY
<1>4. g = "kill" <=> e.sig = "kill"
  BY <1>2
<1> QED
  BY <1>1, <1>3, <1>4, ZenonT(40) DEF Entries, Same

(* The questions asked of a table depend on states and numbers only.       *)
Alike(T, V) ==
    \A q \in Slots : V[q].pid = T[q].pid /\ V[q].tgid = T[q].tgid /\ V[q].state = T[q].state

SameParents(T, V) == \A q \in Slots : V[q].parent = T[q].parent

LEMMA AlikeFacts ==
    ASSUME NEW T, NEW V, Alike(T, V)
    PROVE  /\ Used(V) = Used(T) /\ InitProc(V) = InitProc(T)
           /\ \A q \in Slots :
                 /\ IsLeader(V, q) <=> IsLeader(T, q)
                 /\ Group(V, q) = Group(T, q) /\ Leader(V, q) = Leader(T, q)
                 /\ proc_group_empty(V, q) <=> proc_group_empty(T, q)
<1>1. Used(V) = Used(T)
  BY DEF Alike, Used
<1>2. {s \in Used(V) : V[s].pid = 1} = {s \in Used(T) : T[s].pid = 1}
  BY <1>1 DEF Alike, Used
<1>3. InitProc(V) = InitProc(T)
  <2>1. \A s : (s \in Used(V) /\ V[s].pid = 1) <=> (s \in Used(T) /\ T[s].pid = 1)
    BY <1>1 DEF Alike, Used
  <2> QED
    BY <2>1 DEF InitProc
<1>4. ASSUME NEW q \in Slots
      PROVE  /\ IsLeader(V, q) <=> IsLeader(T, q)
             /\ Group(V, q) = Group(T, q) /\ Leader(V, q) = Leader(T, q)
             /\ proc_group_empty(V, q) <=> proc_group_empty(T, q)
  <2>1. IsLeader(V, q) <=> IsLeader(T, q)
    BY DEF Alike, IsLeader
  <2>2. Group(V, q) = Group(T, q)
    BY <1>1 DEF Alike, Used, Group
  <2>3. {l \in Used(V) : V[l].pid = V[q].tgid} = {l \in Used(T) : T[l].pid = T[q].tgid}
    BY <1>1 DEF Alike, Used
  <2>4. Leader(V, q) = Leader(T, q)
    <3> DEFINE A == {l \in Used(V) : V[l].pid = V[q].tgid}
               B == {l \in Used(T) : T[l].pid = T[q].tgid}
    <3>1. Leader(V, q) = IF IsLeader(V, q) \/ A = {} THEN q ELSE CHOOSE l \in A : TRUE
      BY DEF Leader
    <3>2. Leader(T, q) = IF IsLeader(T, q) \/ B = {} THEN q ELSE CHOOSE l \in B : TRUE
      BY DEF Leader
    <3>3. A = B
      BY <2>3
    <3> HIDE DEF A, B
    <3> QED
      BY <2>1, <3>1, <3>2, <3>3
  <2>5. proc_group_empty(V, q) <=> proc_group_empty(T, q)
    BY <2>2 DEF proc_group_empty, Alike, IsLeader, Group, Used
  <2> QED
    BY <2>1, <2>2, <2>4, <2>5
<1> QED
  BY <1>1, <1>3, <1>4

(* The group's leader: the thread itself if the leader's entry is gone.    *)
LEMMA LeaderFacts ==
    ASSUME NEW T, NEW s \in Used(T)
    PROVE  /\ Leader(T, s) \in Used(T)
           /\ IsLeader(T, s) => Leader(T, s) = s
           /\ Leader(T, s) # s => T[Leader(T, s)].pid = T[s].tgid
           /\ \A l \in Used(T) :
                 T[l].pid = T[s].tgid /\ (\A r \in Used(T) : T[r].pid = T[l].pid => r = l)
                    => Leader(T, s) = l
<1> DEFINE ls == {l \in Used(T) : T[l].pid = T[s].tgid}
<1>1. ls # {} => (CHOOSE l \in ls : TRUE) \in ls
  OBVIOUS
<1>2. Leader(T, s) = IF IsLeader(T, s) \/ ls = {} THEN s ELSE CHOOSE l \in ls : TRUE
  BY DEF Leader
<1>3. ASSUME NEW l \in Used(T), T[l].pid = T[s].tgid,
             \A r \in Used(T) : T[r].pid = T[l].pid => r = l
      PROVE  Leader(T, s) = l
  <2>1. ls = {l}
    BY <1>3
  <2>2. IsLeader(T, s) => s = l
    BY <1>3 DEF IsLeader
  <2> QED
    BY <1>1, <1>2, <2>1, <2>2
<1> QED
  BY <1>1, <1>2, <1>3

-----------------------------------------------------------------------------
(* The table, but for an entry x whose thread is in the middle of exiting, *)
(* when n is the next pid: free entries are blank, pids are given once,    *)
(* a group is named by its leader's pid, init is in entry 0 and alone in   *)
(* its group, and a zombie is a leader that has switched away.             *)
Init0(T) ==
    /\ T[0].pid = 1 /\ T[0].tgid = 1 /\ T[0].parent = None /\ T[0].sig # "kill"
    /\ T[0].state \in {"RUNNING", "SLEEPING"} /\ T[0].pc \notin {"gone", "close"}
    /\ \A q \in Used(T) : T[q].tgid = 1 => q = 0

Base(T, n, x) ==
    /\ T \in Tables /\ n \in 2..(MaxPid + 1)
    /\ \A q \in Slots : T[q].state = "UNUSED" => T[q] = Free
    /\ \A q \in Used(T) : T[q].pid \in 1..(n - 1) /\ T[q].tgid \in 1..(n - 1)
    /\ \A q, r \in Used(T) : T[r].pid = T[q].pid => r = q
    /\ \A q, r \in Used(T) : T[r].pid = T[q].tgid => IsLeader(T, r)
    /\ Init0(T)
    /\ \A q \in Slots \ {x} : T[q].state = "ZOMBIE" => T[q].pc = "gone" /\ IsLeader(T, q)
    /\ \A q \in Used(T) \ {x} : T[q].pc = "gone" /\ ~T[q].slept =>
                                 IsLeader(T, q) /\ T[q].state = "ZOMBIE"
    /\ \A q \in Slots : T[q].pc = "close" => T[q].slept

(* The thread in s is past the head of proc_exit.                          *)
Exiting(T, s) ==
    /\ s \in Used(T) \ {0} /\ T[s].pc \in {"user", "ret", "close"}
    /\ T[s].state = "ZOMBIE" \/ (T[s].state = "RUNNING" /\ T[s].slept)

LEMMA InitProcFacts ==
    ASSUME NEW T, NEW n, NEW x, Base(T, n, x)
    PROVE  InitProc(T) = 0 /\ 0 \in Used(T)
<1>1. 0 \in Used(T) /\ T[0].pid = 1
  BY SlotFacts DEF Base, Init0, Used
<1>2. \A s \in Used(T) : T[s].pid = 1 => s = 0
  BY <1>1 DEF Base
<1> QED
  BY <1>1, <1>2 DEF InitProc

(* What proc_exit's tail does to the other entries: the ones it frees, and *)
(* the parent of the others.                                               *)
Freed(T, s, l, q) ==
    /\ Notify(T, s, l) /\ q # s
    /\ T[q].state = "ZOMBIE" /\ IsLeader(T, q) /\ proc_group_empty(T, q)
    /\ T[q].parent \in {0, l}

After(T, s, l, q) == IF Notify(T, s, l) /\ T[q].parent = l THEN 0 ELSE T[q].parent

Moved(e, f) ==
    /\ f.pid = e.pid /\ f.tgid = e.tgid /\ f.group_exit = e.group_exit /\ f.slept = e.slept
    /\ f.sig = e.sig /\ SameCall(e, f)

Leads(T, s, l) == l = Leader(T, s)

(* exit_notify, entry by entry: V is T but for the status on the leader.   *)
NotifyEntry(T, V, s, l, q, f) ==
    /\ Freed(T, s, l, q) => f = Free
    /\ ~Freed(T, s, l, q) =>
          f = IF V[q].pc = "wait" /\ ~Freed(T, s, l, l) /\ Leader(T, q) = After(T, s, l, l)
              THEN Woken([V[q] EXCEPT !.parent = After(T, s, l, q)])
              ELSE [V[q] EXCEPT !.parent = After(T, s, l, q)]

LEMMA NotifyShape ==
    ASSUME NEW T, NEW s, NEW l \in Slots, Notify(T, s, l), InitProc(T) = 0,
           NEW V, Alike(T, V), SameParents(T, V), NEW q \in Slots
    PROVE  NotifyEntry(T, V, s, l, q, ExitNotify(V, s, l)[q])
<1>0. \A r \in Slots :
        /\ IsLeader(V, r) <=> IsLeader(T, r)
        /\ Leader(V, r) = Leader(T, r)
        /\ proc_group_empty(V, r) <=> proc_group_empty(T, r)
  BY AlikeFacts
<1>1. InitProc(V) = 0 /\ Used(V) = Used(T)
  BY AlikeFacts
<1>2. l \in Slots /\ None \notin Slots
  BY SlotFacts
<1> DEFINE Parent(r) == IF V[r].parent = l THEN InitProc(V) ELSE V[r].parent
           Reaped(r) == reap_orphan_zombies(V, s, r, Parent(r))
           chan == IF Reaped(l) THEN None ELSE Parent(l)
           Kept(r) == [V[r] EXCEPT !.parent = Parent(r)]
<1>3. \A r \in Slots : Parent(r) = After(T, s, l, r)
  BY <1>1 DEF After, SameParents
<1>4. ASSUME NEW r \in Slots PROVE Reaped(r) <=> Freed(T, s, l, r)
  <2>1. After(T, s, l, r) = 0 <=> T[r].parent \in {0, l}
    BY DEF After
  <2>2. V[r].state = T[r].state /\ (IsLeader(V, r) <=> IsLeader(T, r))
        /\ (proc_group_empty(V, r) <=> proc_group_empty(T, r))
    BY <1>0 DEF Alike
  <2>3. Reaped(r) <=> /\ r # s /\ V[r].state = "ZOMBIE" /\ Parent(r) = 0
                      /\ IsLeader(V, r) /\ proc_group_empty(V, r)
    BY <1>1 DEF reap_orphan_zombies
  <2> HIDE DEF Reaped, Parent
  <2> QED
    BY <1>3, <2>1, <2>2, <2>3 DEF Freed
<1>5. ExitNotify(V, s, l)[q] = IF Reaped(q) THEN Free
                               ELSE IF V[q].pc = "wait" /\ Leader(V, q) = chan THEN Woken(Kept(q))
                               ELSE Kept(q)
  BY DEF ExitNotify
<1>6. Leader(V, q) = Leader(T, q)
  BY <1>0
<1>7. Kept(q) = [V[q] EXCEPT !.parent = After(T, s, l, q)]
  BY <1>3
<1>8. Leader(T, q) # None
  <2>1. Leader(T, q) \in Slots
    BY DEF Leader, Used
  <2> QED
    BY <1>2, <2>1
<1>9. Leader(V, q) = chan <=> ~Freed(T, s, l, l) /\ Leader(T, q) = After(T, s, l, l)
  <2>1. chan = IF Freed(T, s, l, l) THEN None ELSE After(T, s, l, l)
    BY <1>2, <1>3, <1>4
  <2> HIDE DEF chan
  <2> QED
    BY <1>6, <1>8, <2>1
<1> HIDE DEF Reaped, chan, Kept, Parent
<1> QED
  BY <1>4, <1>5, <1>7, <1>9 DEF NotifyEntry

(* The table after the exit, entry by entry.                               *)
TailStays(T, s, l, q, f) ==
    /\ Moved(T[q], f) /\ f.parent = After(T, s, l, q)
    /\ f.exit_status = IF Notify(T, s, l) /\ q = l /\ l # s /\ ~T[l].group_exit
                       THEN T[s].exit_status ELSE T[q].exit_status
    /\ Wakes(T[q], f)
    /\ (Notify(T, s, l) /\ ~Freed(T, s, l, l) /\ Leader(T, q) = After(T, s, l, l)) => f.pc # "wait"

LEMMA TailShape ==
    ASSUME NEW T, NEW n, NEW s, Base(T, n, s), Exiting(T, s), NEW l, Leads(T, s, l)
    PROVE  /\ ExitTail(T, s) \in Tables
           /\ \A q \in Slots \ {s} : Freed(T, s, l, q) => ExitTail(T, s)[q] = Free
           /\ \A q \in Slots \ {s} : ~Freed(T, s, l, q) => TailStays(T, s, l, q, ExitTail(T, s)[q])
           /\ ~IsLeader(T, s) /\ T[s].state = "ZOMBIE" => ExitTail(T, s)[s] = Free
           /\ IsLeader(T, s) \/ T[s].state # "ZOMBIE" =>
                 /\ Moved(T[s], ExitTail(T, s)[s]) /\ ExitTail(T, s)[s].parent = After(T, s, l, s)
                 /\ ExitTail(T, s)[s].exit_status = T[s].exit_status
                 /\ ExitTail(T, s)[s].state = T[s].state /\ ExitTail(T, s)[s].pc = "gone"
<1>1. s \in Slots /\ l \in Slots /\ T \in Tables /\ T[s].pc # "wait" /\ 0 \in Slots
  BY LeaderFacts, SlotFacts DEF Exiting, Used, Base, Leads
<1>2. PICK V : V = IF Notify(T, s, l) /\ l # s /\ ~T[l].group_exit
                   THEN [T EXCEPT ![l].exit_status = T[s].exit_status] ELSE T
  OBVIOUS
<1>3. PICK W : W = IF Notify(T, s, l) THEN ExitNotify(V, s, l) ELSE V
  OBVIOUS
<1>4. ExitTail(T, s) = SwitchAway(W, s)
  BY <1>2, <1>3 DEF ExitTail, Leads
<1>5. V \in Tables
  BY <1>1, <1>2 DEF Tables, Entries
<1>6. /\ V[l].exit_status = IF Notify(T, s, l) /\ l # s /\ ~T[l].group_exit
                            THEN T[s].exit_status ELSE T[l].exit_status
      /\ \A q \in Slots \ {l} : V[q] = T[q]
      /\ Moved(T[l], V[l]) /\ V[l].parent = T[l].parent /\ V[l].state = T[l].state
      /\ V[l].pc = T[l].pc
  BY <1>1, <1>2 DEF Tables, Entries, Moved, SameCall
<1>7. \A q \in Slots : /\ Moved(T[q], V[q]) /\ V[q].parent = T[q].parent
                       /\ V[q].state = T[q].state /\ V[q].pc = T[q].pc
                       /\ V[q].exit_status = IF Notify(T, s, l) /\ q = l /\ l # s /\ ~T[l].group_exit
                                             THEN T[s].exit_status ELSE T[q].exit_status
  <2>1. ASSUME NEW q \in Slots \ {l}
        PROVE  /\ Moved(T[q], V[q]) /\ V[q].parent = T[q].parent
               /\ V[q].state = T[q].state /\ V[q].pc = T[q].pc
               /\ V[q].exit_status = T[q].exit_status
    BY <1>6, <2>1 DEF Moved, SameCall
  <2> QED
    BY <1>6, <2>1
<1>8. Alike(T, V) /\ SameParents(T, V)
  BY <1>7 DEF Alike, SameParents, Moved
<1>9. ASSUME NEW q \in Slots
      PROVE  /\ Freed(T, s, l, q) => W[q] = Free
             /\ ~Freed(T, s, l, q) => W[q] \in Entries /\ TailStays(T, s, l, q, W[q])
  <2>1. V[q] \in Entries /\ After(T, s, l, q) \in Slots \cup {None}
    BY <1>1, <1>5 DEF Tables, Entries, After
  <2>2. CASE ~Notify(T, s, l)
    <3>1. W = V /\ ~Freed(T, s, l, q) /\ After(T, s, l, q) = T[q].parent
      BY <1>3, <2>2 DEF Freed, After
    <3> QED
      BY <1>7, <2>1, <2>2, <3>1 DEF TailStays, Wakes
  <2>3. CASE Notify(T, s, l)
    <3>1. W = ExitNotify(V, s, l)
      BY <1>3, <2>3
    <3>0. InitProc(T) = 0
      BY InitProcFacts
    <3>4. NotifyEntry(T, V, s, l, q, W[q])
      BY <1>1, <1>8, <2>3, <3>0, <3>1, NotifyShape
    <3>2. Freed(T, s, l, q) => W[q] = Free
      BY <3>4 DEF NotifyEntry
    <3>3. CASE ~Freed(T, s, l, q)
      <4>1. PICK e : /\ e = [V[q] EXCEPT !.parent = After(T, s, l, q)]
                     /\ W[q] = IF /\ V[q].pc = "wait" /\ ~Freed(T, s, l, l)
                                  /\ Leader(T, q) = After(T, s, l, l)
                               THEN Woken(e) ELSE e
        BY <3>3, <3>4 DEF NotifyEntry
      <4>0. V[q].exit_status = IF Notify(T, s, l) /\ q = l /\ l # s /\ ~T[l].group_exit
                               THEN T[s].exit_status ELSE T[q].exit_status
        BY <1>7
      <4>2. /\ e \in Entries /\ Moved(V[q], e) /\ e.parent = After(T, s, l, q)
            /\ e.exit_status = V[q].exit_status /\ e.pc = V[q].pc /\ e.state = V[q].state
        BY <2>1, <4>1 DEF Entries, Moved, SameCall
      <4>3. /\ Woken(e) \in Entries /\ Same(e, Woken(e)) /\ SameCall(e, Woken(e))
            /\ Wakes(e, Woken(e)) /\ Woken(e).sig = e.sig /\ Woken(e).pc # "wait"
        BY <4>2, WokenFacts
      <4>4. CASE /\ V[q].pc = "wait" /\ ~Freed(T, s, l, l)
                 /\ Leader(T, q) = After(T, s, l, l)
        <5>1. W[q] = Woken(e)
          BY <4>1, <4>4
        <5>2. Moved(T[q], Woken(e)) /\ Wakes(T[q], Woken(e))
          BY <1>7, <4>2, <4>3 DEF Moved, Same, SameCall, Wakes
        <5>3. Woken(e).parent = After(T, s, l, q) /\ Woken(e).exit_status = V[q].exit_status
          BY <4>2, <4>3 DEF Same
        <5> QED
          BY <3>3, <4>0, <4>3, <5>1, <5>2, <5>3 DEF TailStays
      <4>5. CASE ~(/\ V[q].pc = "wait" /\ ~Freed(T, s, l, l)
                   /\ Leader(T, q) = After(T, s, l, l))
        <5>1. W[q] = e
          BY <4>1, <4>5
        <5>2. Moved(T[q], e) /\ Wakes(T[q], e)
          BY <1>7, <4>2 DEF Moved, SameCall, Wakes
        <5>3. (~Freed(T, s, l, l) /\ Leader(T, q) = After(T, s, l, l)) => e.pc # "wait"
          BY <4>2, <4>5
        <5> QED
          BY <3>3, <4>0, <4>2, <5>1, <5>2, <5>3 DEF TailStays
      <4> QED
        BY <4>4, <4>5
    <3> QED
      BY <3>2, <3>3
  <2> QED
    BY <2>2, <2>3
<1>a. W \in Tables
  <2>1. \A q \in Slots : W[q] \in Entries
    BY <1>9, FreeFacts
  <2>2. W = [q \in Slots |-> W[q]]
    <3>1. CASE ~Notify(T, s, l)
      BY <1>3, <1>5, <3>1 DEF Tables
    <3>2. CASE Notify(T, s, l)
      <4>1. W = ExitNotify(V, s, l)
        BY <1>3, <3>2
      <4>2. DOMAIN W = Slots /\ W = [q \in DOMAIN W |-> W[q]]
        BY <4>1 DEF ExitNotify
      <4> QED
        BY <4>2
    <3> QED
      BY <3>1, <3>2
  <2> QED
    BY <2>1, <2>2 DEF Tables
<1>b. ~Freed(T, s, l, s)
  BY DEF Freed
<1>c. PICK f : f = [W[s] EXCEPT !.pc = "gone"]
  OBVIOUS
<1>d. /\ f \in Entries /\ Moved(W[s], f) /\ f.parent = W[s].parent
      /\ f.exit_status = W[s].exit_status /\ f.pc = "gone" /\ f.state = W[s].state
  BY <1>1, <1>a, <1>c DEF Tables, Entries, Moved, SameCall
<1>e. /\ Moved(T[s], f) /\ f.parent = After(T, s, l, s) /\ f.exit_status = T[s].exit_status
      /\ f.state = T[s].state
  <2>1. TailStays(T, s, l, s, W[s])
    BY <1>1, <1>9, <1>b
  <2> QED
    BY <1>1, <1>d, <2>1 DEF TailStays, Moved, SameCall, Wakes
<1>f. PICK Y : Y = [W EXCEPT ![s].pc = "gone"]
  OBVIOUS
<1>g. Y \in Tables /\ Y[s] = f /\ \A q \in Slots \ {s} : Y[q] = W[q]
  BY <1>1, <1>a, <1>c, <1>d, <1>f DEF Tables
<1>h. IsLeader(Y, s) <=> IsLeader(T, s)
  BY <1>e, <1>g DEF IsLeader, Moved
<1>i. ExitTail(T, s) = IF IsLeader(T, s) \/ T[s].state # "ZOMBIE" THEN Y
                       ELSE [Y EXCEPT ![s] = Free]
  BY <1>4, <1>e, <1>f, <1>g, <1>h DEF SwitchAway, proc_release
<1>j. CASE IsLeader(T, s) \/ T[s].state # "ZOMBIE"
  <2>1. ExitTail(T, s) = Y
    BY <1>i, <1>j
  <2> QED
    BY <1>9, <1>d, <1>e, <1>g, <1>j, <2>1
<1>k. CASE ~(IsLeader(T, s) \/ T[s].state # "ZOMBIE")
  <2>1. PICK Z : Z = [Y EXCEPT ![s] = Free]
    OBVIOUS
  <2>2. Z \in Tables /\ Z[s] = Free /\ \A q \in Slots \ {s} : Z[q] = W[q]
    BY <1>1, <1>g, <2>1, FreeFacts DEF Tables
  <2>3. ExitTail(T, s) = Z
    BY <1>i, <1>k, <2>1
  <2> QED
    BY <1>9, <1>k, <2>2, <2>3
<1> QED
  BY <1>j, <1>k

-----------------------------------------------------------------------------
(* Base is kept.                                                           *)

(* What is asked of an entry f in s of a table that leaves y open.         *)
EntryOK(s, y, f) ==
    /\ f.state = "ZOMBIE" => s = y \/ (f.pc = "gone" /\ f.pid = f.tgid)
    /\ f.pc = "gone" /\ ~f.slept => s = y \/ (f.pid = f.tgid /\ f.state = "ZOMBIE")
    /\ f.pc = "close" => f.slept
    /\ s = 0 => /\ f.parent = None /\ f.sig # "kill" /\ f.state \in {"RUNNING", "SLEEPING"}
                /\ f.pc \notin {"gone", "close"}

(* A step that changes one entry.                                          *)
LEMMA OneEntry ==
    ASSUME NEW T, NEW n, NEW x, NEW y, Base(T, n, x), NEW s \in Used(T),
           x \in {s, None}, y \in {s, None}, NEW f \in Entries,
           f.pid = T[s].pid, f.tgid = T[s].tgid, f.state # "UNUSED", EntryOK(s, y, f)
    PROVE  Base([T EXCEPT ![s] = f], n, y)
<1>1. PICK V : V = [T EXCEPT ![s] = f]
  OBVIOUS
<1>2. T \in Tables /\ s \in Slots /\ 0 \in Slots
  BY SlotFacts DEF Base, Used
<1>3. V \in Tables /\ V[s] = f /\ \A q \in Slots \ {s} : V[q] = T[q]
  BY <1>1, <1>2 DEF Tables
<1>4. Used(V) = Used(T) /\ \A q \in Slots : V[q].pid = T[q].pid /\ V[q].tgid = T[q].tgid
  BY <1>3 DEF Used
<1>5. \A q \in Slots : V[q].state = "UNUSED" => V[q] = Free
  BY <1>3 DEF Base
<1>6. \A q \in Used(V) : V[q].pid \in 1..(n - 1) /\ V[q].tgid \in 1..(n - 1)
  BY <1>4 DEF Base, Used
<1>7. \A q, r \in Used(V) : V[r].pid = V[q].pid => r = q
  BY <1>4 DEF Base, Used
<1>8. Init0(V)
  BY <1>2, <1>3, <1>4 DEF Base, Init0, EntryOK, Used
<1>9. \A q \in Slots \ {y} : V[q].state = "ZOMBIE" => V[q].pc = "gone" /\ IsLeader(V, q)
  BY <1>3, SlotFacts DEF Base, EntryOK, IsLeader
<1>10. \A q \in Used(V) \ {y} : V[q].pc = "gone" /\ ~V[q].slept =>
                                 IsLeader(V, q) /\ V[q].state = "ZOMBIE"
  BY <1>3, <1>4, SlotFacts DEF Base, EntryOK, IsLeader, Used
<1>11. \A q \in Slots : V[q].pc = "close" => V[q].slept
  BY <1>3 DEF Base, EntryOK
<1>12. \A q, r \in Used(V) : V[r].pid = V[q].tgid => IsLeader(V, r)
  BY <1>4 DEF Base, Used, IsLeader
<1>13. n \in 2..(MaxPid + 1)
  BY DEF Base
<1>14. Base(V, n, y)
  BY ONLY <1>3, <1>5, <1>6, <1>7, <1>8, <1>9, <1>10, <1>11, <1>12, <1>13 DEF Base
<1> QED
  BY <1>1, <1>14

(* A step that frees entries or wakes threads, and finishes with x.        *)
Carried(e, f) ==
    /\ f.pid = e.pid /\ f.tgid = e.tgid /\ f.slept = e.slept /\ Wakes(e, f)
    /\ e.state = "UNUSED" => f = Free

From(T, V, x) ==
    /\ \A q \in Slots \ {x} : V[q] = Free \/ Carried(T[q], V[q])
    /\ x \in Slots => \/ V[x] = Free
                      \/ /\ V[x].pid = T[x].pid /\ V[x].tgid = T[x].tgid
                         /\ x \in Used(T) /\ V[x].state # "UNUSED" /\ EntryOK(x, None, V[x])
    /\ Carried(T[0], V[0]) /\ V[0].parent = None /\ V[0].sig # "kill"

LEMMA BaseFrom ==
    ASSUME NEW T, NEW n, NEW x, Base(T, n, x), x # 0, NEW V, V \in Tables, From(T, V, x)
    PROVE  Base(V, n, None)
<1>1. T \in Tables /\ 0 \in Slots /\ None \notin Slots /\ Free.state = "UNUSED" /\ Free.pc = "gone"
  BY SlotFacts, FreeFacts DEF Base
<1>2. \A q \in Used(V) : /\ q \in Used(T) /\ V[q].pid = T[q].pid /\ V[q].tgid = T[q].tgid
                         /\ q # x => Carried(T[q], V[q])
  BY <1>1 DEF From, Carried, Wakes, Used
<1>3. \A q \in Slots : V[q].state = "UNUSED" => V[q] = Free
  BY <1>1 DEF From, Carried, Wakes, Base
<1>4. \A q \in Used(V) : V[q].pid \in 1..(n - 1) /\ V[q].tgid \in 1..(n - 1)
  BY <1>2 DEF Base
<1>5. \A q, r \in Used(V) : V[r].pid = V[q].pid => r = q
  BY <1>2 DEF Base
<1>6. Init0(V)
  <2>1. /\ V[0].pid = 1 /\ V[0].tgid = 1 /\ V[0].parent = None /\ V[0].sig # "kill"
        /\ V[0].state \in {"RUNNING", "SLEEPING"} /\ V[0].pc \notin {"gone", "close"}
    BY <1>1 DEF Base, Init0, From, Carried, Wakes
  <2>2. \A q \in Used(V) : V[q].tgid = 1 => q = 0
    BY <1>2 DEF Base, Init0
  <2> QED
    BY <2>1, <2>2 DEF Init0
<1>7. \A q \in Slots \ {None} : V[q].state = "ZOMBIE" => V[q].pc = "gone" /\ IsLeader(V, q)
  <2> SUFFICES ASSUME NEW q \in Slots, V[q].state = "ZOMBIE"
               PROVE  V[q].pc = "gone" /\ V[q].pid = V[q].tgid
    BY DEF IsLeader
  <2>1. CASE q = x
    BY <1>1, <2>1 DEF From, EntryOK
  <2>2. CASE q # x
    <3>1. q \in Used(V)
      BY DEF Used
    <3>2. Carried(T[q], V[q])
      BY <1>2, <2>2, <3>1
    <3>3. T[q].state = "ZOMBIE" /\ V[q].pc = T[q].pc
      BY <3>2 DEF Carried, Wakes
    <3> QED
      BY <2>2, <3>2, <3>3 DEF Base, Carried, IsLeader
  <2> QED
    BY <2>1, <2>2
<1>8. \A q \in Used(V) \ {None} : V[q].pc = "gone" /\ ~V[q].slept =>
                                   IsLeader(V, q) /\ V[q].state = "ZOMBIE"
  <2> SUFFICES ASSUME NEW q \in Used(V), V[q].pc = "gone", ~V[q].slept
               PROVE  V[q].pid = V[q].tgid /\ V[q].state = "ZOMBIE"
    BY DEF IsLeader
  <2>0. q \in Slots /\ V[q].state # "UNUSED"
    BY DEF Used
  <2>1. CASE q = x
    BY <1>1, <2>0, <2>1 DEF From, EntryOK
  <2>2. CASE q # x
    <3>2. Carried(T[q], V[q]) /\ q \in Used(T)
      BY <1>2, <2>2
    <3>3. T[q].pc = "gone" /\ V[q].state = T[q].state /\ ~T[q].slept
      BY <3>2 DEF Carried, Wakes
    <3> QED
      BY <2>2, <3>2, <3>3 DEF Base, Carried, IsLeader
  <2> QED
    BY <2>1, <2>2
<1>9. \A q \in Slots : V[q].pc = "close" => V[q].slept
  BY <1>1 DEF From, Carried, Wakes, Base, EntryOK
<1>10. \A q, r \in Used(V) : V[r].pid = V[q].tgid => IsLeader(V, r)
  BY <1>2 DEF Base, IsLeader
<1> QED
  BY <1>3, <1>4, <1>5, <1>6, <1>7, <1>8, <1>9, <1>10 DEF Base

(* thread_group_kill, entry by entry.                                      *)
KillEntry(T, s, l, status, q, f) ==
    /\ f \in Entries /\ f.pid = T[q].pid /\ f.tgid = T[q].tgid /\ f.parent = T[q].parent
    /\ f.slept = T[q].slept /\ SameCall(T[q], f) /\ Wakes(T[q], f)
    /\ f.group_exit <=> (T[q].group_exit \/ q = l)
    /\ f.exit_status = IF q = l /\ ~T[l].group_exit THEN status ELSE T[q].exit_status
    /\ q = s \/ T[q].tgid # T[s].tgid => f.pc = T[q].pc /\ f.state = T[q].state /\ f.sig = T[q].sig
    /\ T[q].state = "UNUSED" => f = T[q]

LEMMA KillShape ==
    ASSUME NEW T \in Tables, NEW s \in Used(T), NEW status \in Nat, NEW l, Leads(T, s, l),
           NEW q \in Slots
    PROVE  KillEntry(T, s, l, status, q, thread_group_kill(T, s, status)[q])
<1>1. s \in Slots /\ l \in Used(T) /\ T[q] \in Entries /\ T[l] \in Entries /\ l \in Slots
  BY LeaderFacts DEF Used, Leads, Tables
<1>2. PICK e : e = IF q = l /\ ~T[l].group_exit
                   THEN [T[q] EXCEPT !.group_exit = TRUE, !.exit_status = status] ELSE T[q]
  OBVIOUS
<1>3. /\ e \in Entries /\ e.pid = T[q].pid /\ e.tgid = T[q].tgid /\ e.parent = T[q].parent
      /\ e.slept = T[q].slept /\ SameCall(T[q], e) /\ e.pc = T[q].pc /\ e.state = T[q].state
      /\ e.sig = T[q].sig
      /\ e.exit_status = IF q = l /\ ~T[l].group_exit THEN status ELSE T[q].exit_status
  BY <1>1, <1>2 DEF Entries, SameCall
<1>4. e.group_exit <=> (T[q].group_exit \/ q = l)
  <2>1. CASE q = l /\ ~T[l].group_exit
    BY <1>1, <1>2, <2>1 DEF Entries
  <2>2. CASE ~(q = l /\ ~T[l].group_exit)
    BY <1>2, <2>2
  <2> QED
    BY <2>1, <2>2
<1>5. thread_group_kill(T, s, status)[q] = IF q # s /\ q \in Group(T, s) THEN Kill(e) ELSE e
  BY <1>2 DEF thread_group_kill, Leads
<1>6. /\ Kill(e) \in Entries /\ Same(e, Kill(e)) /\ SameCall(e, Kill(e)) /\ Wakes(e, Kill(e))
  BY <1>3, KillFacts
<1>7. CASE q # s /\ q \in Group(T, s)
  <2>1. thread_group_kill(T, s, status)[q] = Kill(e) /\ T[q].tgid = T[s].tgid
        /\ T[q].state # "UNUSED"
    BY <1>5, <1>7 DEF Group, Used
  <2> QED
    BY <1>3, <1>4, <1>6, <1>7, <2>1 DEF KillEntry, Same, SameCall, Wakes
<1>8. CASE ~(q # s /\ q \in Group(T, s))
  <2>1. thread_group_kill(T, s, status)[q] = e
    BY <1>5, <1>8
  <2>2. T[q].state = "UNUSED" => e = T[q]
    BY <1>1, <1>2 DEF Used
  <2> QED
    BY <1>3, <1>4, <2>1, <2>2 DEF KillEntry, SameCall, Wakes
<1> QED
  BY <1>7, <1>8

(* From the table to the one in which the thread in s is past the head of  *)
(* proc_exit, with the leader in l.                                        *)
Heads(T, U, s) ==
    /\ s \in Used(T) \ {0} /\ T[s].pc \in {"user", "ret", "close"} /\ T[s].state # "ZOMBIE"
    /\ \A q \in Slots : /\ U[q].pid = T[q].pid /\ U[q].tgid = T[q].tgid
                        /\ U[q].parent = T[q].parent /\ U[q].slept = T[q].slept
                        /\ SameCall(T[q], U[q])
    /\ \A q \in Slots \ {s} : Wakes(T[q], U[q])
    /\ U[s].pc = T[s].pc

(* The thread exits: U is the table in which it has died and V the one in  *)
(* which it has switched away.                                             *)
ExitsBy(T, U, V, s, n) ==
    /\ Base(T, n, None) /\ Base(U, n, s) /\ Heads(T, U, s) /\ Exiting(U, s)
    /\ V = ExitTail(U, s)

(* The close in the exit sleeps.                                           *)
ClosesBy(T, V, s, n) ==
    /\ Base(T, n, None) /\ Base(V, n, None)
    /\ s \in Used(T) \ {0} /\ T[s].pc \in {"user", "ret"} /\ T[s].state # "ZOMBIE"
    /\ \A q \in Slots : /\ V[q].pid = T[q].pid /\ V[q].tgid = T[q].tgid
                        /\ V[q].parent = T[q].parent /\ SameCall(T[q], V[q])
    /\ \A q \in Slots \ {s} : V[q].slept = T[q].slept /\ Wakes(T[q], V[q])
    /\ V[s].pc = "close" /\ V[s].slept /\ V[s].state = "SLEEPING"

LEMMA TailBase ==
    ASSUME NEW T, NEW n, NEW s, Base(T, n, s), Exiting(T, s)
    PROVE  Base(ExitTail(T, s), n, None)
<1>1. PICK l : l = Leader(T, s)
  OBVIOUS
<1>2. PICK V : V = ExitTail(T, s)
  OBVIOUS
<1>3. /\ V \in Tables
      /\ \A q \in Slots \ {s} : Freed(T, s, l, q) => V[q] = Free
      /\ \A q \in Slots \ {s} : ~Freed(T, s, l, q) => TailStays(T, s, l, q, V[q])
      /\ ~IsLeader(T, s) /\ T[s].state = "ZOMBIE" => V[s] = Free
      /\ IsLeader(T, s) \/ T[s].state # "ZOMBIE" =>
            /\ Moved(T[s], V[s]) /\ V[s].parent = After(T, s, l, s)
            /\ V[s].exit_status = T[s].exit_status
            /\ V[s].state = T[s].state /\ V[s].pc = "gone"
  BY <1>1, <1>2, TailShape DEF Leads
<1>4. s \in Slots \ {0} /\ 0 \in Slots /\ l \in Slots /\ None \notin Slots /\ T \in Tables /\ s \in Used(T)
  BY <1>1, LeaderFacts, SlotFacts DEF Exiting, Used, Base
<1>5. Free.state = "UNUSED" /\ Free.pc = "gone"
  BY FreeFacts
<1>6. ASSUME NEW q \in Slots \ {s} PROVE V[q] = Free \/ Carried(T[q], V[q])
  <2>1. CASE Freed(T, s, l, q)
    BY <1>3, <2>1
  <2>2. CASE ~Freed(T, s, l, q)
    <3>1. TailStays(T, s, l, q, V[q])
      BY <1>3, <2>2
    <3>2. T[q].state = "UNUSED" => V[q] = Free
      <4> SUFFICES ASSUME T[q].state = "UNUSED" PROVE V[q] = Free
        OBVIOUS
      <4>1. T[q] = Free
        BY DEF Base
      <4>2. V[q].state = "UNUSED" /\ V[q] \in Entries /\ V[q].pc = "gone"
        BY <1>3, <1>5, <3>1, <4>1 DEF TailStays, Wakes, Tables
      <4>3. After(T, s, l, q) = None
        BY <1>4, <4>1 DEF After, Free
      <4>4. q # l
        BY <1>1, <1>4, LeaderFacts DEF Used
      <4>5. V[q].exit_status = 0 /\ V[q].parent = None
        BY <3>1, <4>1, <4>3, <4>4 DEF TailStays, Free
      <4>6. Moved(Free, V[q])
        BY <3>1, <4>1 DEF TailStays
      <4> QED
        BY <4>2, <4>5, <4>6 DEF Moved, SameCall, Free, Entries
    <3> QED
      BY <3>1, <3>2 DEF TailStays, Moved, Carried
  <2> QED
    BY <2>1, <2>2
<1>7. \/ V[s] = Free
      \/ /\ V[s].pid = T[s].pid /\ V[s].tgid = T[s].tgid
         /\ s \in Used(T) /\ V[s].state # "UNUSED" /\ EntryOK(s, None, V[s])
  <2>1. CASE ~IsLeader(T, s) /\ T[s].state = "ZOMBIE"
    BY <1>3, <2>1
  <2>2. CASE IsLeader(T, s) \/ T[s].state # "ZOMBIE"
    <3>1. Moved(T[s], V[s]) /\ V[s].state = T[s].state /\ V[s].pc = "gone"
      BY <1>3, <2>2
    <3>2. T[s].state = "ZOMBIE" \/ (T[s].state = "RUNNING" /\ T[s].slept)
      BY DEF Exiting
    <3> QED
      BY <1>4, <2>2, <3>1, <3>2 DEF Moved, EntryOK, IsLeader
  <2> QED
    BY <2>1, <2>2
<1>8. Carried(T[0], V[0]) /\ V[0].parent = None /\ V[0].sig # "kill"
  <2>0. Init0(T)
    BY DEF Base
  <2>1. ~Freed(T, s, l, 0)
    BY <2>0 DEF Freed, Init0
  <2>2. TailStays(T, s, l, 0, V[0])
    BY <1>3, <1>4, <2>1
  <2>3. V[0] # Free
    BY <1>5, <2>0, <2>2 DEF TailStays, Wakes, Init0
  <2> QED
    BY <1>4, <1>6, <2>0, <2>2, <2>3 DEF TailStays, Moved, After, Init0
<1>9. From(T, V, s)
  BY <1>6, <1>7, <1>8 DEF From
<1> QED
  BY <1>2, <1>3, <1>4, <1>9, BaseFrom

-----------------------------------------------------------------------------
(* The steps that end a thread.                                            *)

(* The table proc_exit is called on: as it was, or after the SIGKILLs of a *)
(* group exit, which also put its status on the leader l.                  *)
Struck(T, W, s, n, l, group, status) ==
    /\ Base(W, n, None)
    /\ \A q \in Slots : /\ W[q].pid = T[q].pid /\ W[q].tgid = T[q].tgid
                        /\ W[q].parent = T[q].parent /\ W[q].slept = T[q].slept
                        /\ SameCall(T[q], W[q]) /\ Wakes(T[q], W[q])
                        /\ W[q].group_exit <=> (T[q].group_exit \/ (group /\ q = l))
                        /\ W[q].exit_status = IF group /\ q = l /\ ~T[l].group_exit
                                              THEN status ELSE T[q].exit_status
    /\ W[s].pc = T[s].pc /\ W[s].state = T[s].state

(* What the head of proc_exit leaves of group_exit and exit_status.        *)
HeadStatus(T, U, s, l, group, status) ==
    /\ \A q \in Slots : U[q].group_exit <=> (T[q].group_exit \/ (group /\ q = l))
    /\ \A q \in Slots \ {s} :
          U[q].exit_status = IF group /\ q = l /\ ~T[l].group_exit
                             THEN status ELSE T[q].exit_status
    /\ U[s].exit_status = IF T[s].group_exit THEN T[s].exit_status ELSE status

LEMMA NotStruck ==
    ASSUME NEW T, NEW n, Base(T, n, None), NEW s, NEW l, NEW status
    PROVE  Struck(T, T, s, n, l, FALSE, status)
BY DEF Struck, SameCall, Wakes

LEMMA KillStruck ==
    ASSUME NEW T, NEW n, Base(T, n, None), NEW s \in Used(T), T[s].tgid # 1,
           NEW l, Leads(T, s, l), NEW status \in Nat
    PROVE  Struck(T, thread_group_kill(T, s, status), s, n, l, TRUE, status)
<1>1. PICK V : V = thread_group_kill(T, s, status)
  OBVIOUS
<1>2. T \in Tables /\ s \in Slots /\ 0 \in Slots /\ None \notin Slots /\ Init0(T) /\ None # 0
  BY SlotFacts DEF Base, Used
<1>3. \A q \in Slots : KillEntry(T, s, l, status, q, V[q])
  BY <1>1, <1>2, KillShape
<1>4. V \in Tables
  <2>1. V = [q \in Slots |-> V[q]]
    BY <1>1 DEF thread_group_kill
  <2> QED
    BY <1>3, <2>1 DEF KillEntry, Tables
<1>5. ASSUME NEW q \in Slots PROVE Carried(T[q], V[q])
  <2>1. KillEntry(T, s, l, status, q, V[q])
    BY <1>3
  <2>2. T[q].state = "UNUSED" => T[q] = Free
    BY DEF Base
  <2> QED
    BY <2>1, <2>2 DEF KillEntry, Carried
<1>6. V[0].parent = None /\ V[0].sig # "kill"
  <2>1. KillEntry(T, s, l, status, 0, V[0])
    BY <1>2, <1>3
  <2> QED
    BY <1>2, <2>1 DEF KillEntry, Init0
<1>7. From(T, V, None)
  BY <1>2, <1>5, <1>6 DEF From
<1>8. Base(V, n, None)
  BY <1>2, <1>4, <1>7, BaseFrom
<1>9. V[s].pc = T[s].pc /\ V[s].state = T[s].state
  BY <1>2, <1>3 DEF KillEntry
<1>10. \A q \in Slots : /\ V[q].pid = T[q].pid /\ V[q].tgid = T[q].tgid
                        /\ V[q].parent = T[q].parent /\ V[q].slept = T[q].slept
                        /\ SameCall(T[q], V[q]) /\ Wakes(T[q], V[q])
                        /\ V[q].group_exit <=> (T[q].group_exit \/ q = l)
                        /\ V[q].exit_status = IF q = l /\ ~T[l].group_exit
                                              THEN status ELSE T[q].exit_status
  BY <1>3 DEF KillEntry
<1>11. Struck(T, V, s, n, l, TRUE, status)
  BY <1>8, <1>9, <1>10 DEF Struck
<1> QED
  BY <1>1, <1>11

(* proc_exit up to where it goes on to exit_notify, or sleeps in a close.  *)
Closing(U, s) == [U EXCEPT ![s].state = "SLEEPING", ![s].pc = "close", ![s].slept = TRUE]

HeadsTo(T, U, s, n, l, group, status) ==
    /\ ExitsBy(T, U, ExitTail(U, s), s, n) /\ HeadStatus(T, U, s, l, group, status)
    /\ ClosesBy(T, Closing(U, s), s, n) /\ HeadStatus(T, Closing(U, s), s, l, group, status)

LEMMA HeadBase ==
    ASSUME NEW T, NEW n, Base(T, n, None), NEW W, NEW s \in Used(T) \ {0},
           T[s].pc \in {"user", "ret"}, NEW l, NEW group \in BOOLEAN, NEW status \in Nat,
           Leads(T, s, l), Struck(T, W, s, n, l, group, status)
    PROVE  HeadsTo(T, ExitHead(W, s, status), s, n, l, group, status)
<1>0. PICK U : U = ExitHead(W, s, status)
  OBVIOUS
<1>1. s \in Slots /\ s # 0 /\ W \in Tables /\ Base(W, n, None) /\ s \in Used(T) /\ None \notin Slots
  BY SlotFacts DEF Struck, Base, Used
<1>2. W[s] \in Entries /\ W[s].pc = T[s].pc /\ W[s].state = T[s].state /\ T[s].state # "ZOMBIE"
      /\ T[s].state # "UNUSED" /\ s \in Used(W) /\ W[s].pc \in {"user", "ret"}
  BY <1>1 DEF Struck, Tables, Base, Used
<1>3. PICK f : f = [W[s] EXCEPT !.state = "ZOMBIE",
                                !.exit_status = IF W[s].group_exit THEN @ ELSE status]
  OBVIOUS
<1>4. U = [W EXCEPT ![s] = f]
  BY <1>0, <1>1, <1>2, <1>3 DEF ExitHead, Tables
<1>5. /\ f \in Entries /\ f.pid = W[s].pid /\ f.tgid = W[s].tgid /\ f.parent = W[s].parent
      /\ f.state = "ZOMBIE" /\ f.pc = W[s].pc /\ f.slept = W[s].slept /\ SameCall(W[s], f)
      /\ f.exit_status = IF W[s].group_exit THEN W[s].exit_status ELSE status
      /\ f.group_exit = W[s].group_exit /\ f.sig = W[s].sig
  BY <1>2, <1>3 DEF Entries, SameCall
<1>6. Base(U, n, s)
  <2>1. EntryOK(s, s, f)
    BY <1>1, <1>2, <1>5 DEF EntryOK
  <2> QED
    <3>1. Base([W EXCEPT ![s] = f], n, s)
      BY <1>1, <1>2, <1>5, <2>1, OneEntry
    <3> QED
      BY <1>4, <3>1
<1>7. U \in Tables /\ U[s] = f /\ \A q \in Slots \ {s} : U[q] = W[q]
  BY <1>1, <1>4, <1>5 DEF Tables
<1>8. Heads(T, U, s) /\ Exiting(U, s)
  <2>1. \A q \in Slots : /\ U[q].pid = T[q].pid /\ U[q].tgid = T[q].tgid
                         /\ U[q].parent = T[q].parent /\ U[q].slept = T[q].slept
                         /\ SameCall(T[q], U[q])
    BY <1>1, <1>5, <1>7 DEF Struck, SameCall
  <2>2. \A q \in Slots \ {s} : Wakes(T[q], U[q])
    BY <1>7 DEF Struck
  <2>3. s \in Used(U)
    BY <1>1, <1>5, <1>7 DEF Used
  <2> QED
    BY <1>1, <1>2, <1>5, <1>7, <2>1, <2>2, <2>3 DEF Heads, Exiting
<1>9. W[s].exit_status = IF group /\ s = l /\ ~T[l].group_exit THEN status ELSE T[s].exit_status
  BY <1>1 DEF Struck
<1>10. W[s].group_exit <=> (T[s].group_exit \/ (group /\ s = l))
  BY <1>1 DEF Struck
<1>11. f.exit_status = IF T[s].group_exit THEN T[s].exit_status ELSE status
  <2>1. CASE T[s].group_exit
    BY <1>5, <1>9, <1>10, <2>1
  <2>2. CASE ~T[s].group_exit
    BY <1>5, <1>9, <1>10, <2>2
  <2> QED
    BY <2>1, <2>2
<1>12. \A q \in Slots : U[q].group_exit <=> (T[q].group_exit \/ (group /\ q = l))
  <2>1. ASSUME NEW q \in Slots PROVE U[q].group_exit = W[q].group_exit
    BY <1>5, <1>7
  <2>2. ASSUME NEW q \in Slots PROVE W[q].group_exit <=> (T[q].group_exit \/ (group /\ q = l))
    BY DEF Struck
  <2> QED
    BY <2>1, <2>2
<1>13. HeadStatus(T, U, s, l, group, status)
  BY <1>1, <1>7, <1>11, <1>12 DEF HeadStatus, Struck
<1>14. PICK g : g = [f EXCEPT !.state = "SLEEPING", !.pc = "close", !.slept = TRUE]
  OBVIOUS
<1>15. PICK V : V = Closing(U, s)
  OBVIOUS
<1>16. /\ g \in Entries /\ g.pid = f.pid /\ g.tgid = f.tgid /\ g.parent = f.parent
       /\ g.state = "SLEEPING" /\ g.pc = "close" /\ g.slept /\ SameCall(f, g)
       /\ g.exit_status = f.exit_status /\ g.group_exit = f.group_exit /\ g.sig = f.sig
  BY <1>5, <1>14 DEF Entries, SameCall
<1>17. V = [U EXCEPT ![s] = g] /\ V[s] = g /\ \A q \in Slots \ {s} : V[q] = U[q]
  BY <1>1, <1>7, <1>14, <1>15 DEF Tables, Closing
<1>18. Base(V, n, None)
  <2>1. EntryOK(s, None, g) /\ s \in Used(U)
    BY <1>1, <1>5, <1>7, <1>16 DEF EntryOK, Used
  <2> QED
    BY <1>6, <1>7, <1>16, <1>17, <2>1, OneEntry
<1>19. ClosesBy(T, V, s, n)
  <2>1. \A q \in Slots : /\ V[q].pid = T[q].pid /\ V[q].tgid = T[q].tgid
                         /\ V[q].parent = T[q].parent /\ SameCall(T[q], V[q])
    BY <1>7, <1>8, <1>16, <1>17 DEF Heads, SameCall
  <2>2. \A q \in Slots \ {s} : V[q].slept = T[q].slept /\ Wakes(T[q], V[q])
    BY <1>8, <1>17 DEF Heads
  <2> QED
    BY <1>2, <1>16, <1>17, <1>18, <2>1, <2>2 DEF ClosesBy
<1>20. HeadStatus(T, V, s, l, group, status)
  <2>1. \A q \in Slots : V[q].exit_status = U[q].exit_status /\ V[q].group_exit = U[q].group_exit
    BY <1>7, <1>16, <1>17
  <2> QED
    BY <1>1, <1>13, <2>1 DEF HeadStatus
<1> QED
  BY <1>0, <1>6, <1>8, <1>13, <1>15, <1>19, <1>20 DEF ExitsBy, HeadsTo

SameStatus(T, V) ==
    \A q \in Slots : /\ V[q].exit_status = T[q].exit_status
                     /\ V[q].group_exit <=> T[q].group_exit

Resuming(T, s) == [T EXCEPT ![s].state = "RUNNING"]

ResumesTo(T, U, s, n) ==
    ExitsBy(T, U, ExitTail(U, s), s, n) /\ SameStatus(T, U) /\ U[s].state # "ZOMBIE"

LEMMA ResumeBase ==
    ASSUME NEW T, NEW n, Base(T, n, None), NEW s \in Slots, T[s].pc = "close"
    PROVE  ResumesTo(T, Resuming(T, s), s, n)
<1>0. PICK U : U = Resuming(T, s)
  OBVIOUS
<1>1. T \in Tables /\ T[s] \in Entries /\ s # 0 /\ T[s].state # "ZOMBIE" /\ T[s].slept
      /\ None \notin Slots
  BY SlotFacts DEF Base, Tables, Init0
<1>2. T[s].state # "UNUSED" /\ s \in Used(T)
  <2>1. T[s] # Free
    BY FreeFacts
  <2> QED
    BY <2>1 DEF Base, Used
<1>3. PICK f : f = [T[s] EXCEPT !.state = "RUNNING"]
  OBVIOUS
<1>4. U = [T EXCEPT ![s] = f] /\ U[s] = f /\ \A q \in Slots \ {s} : U[q] = T[q]
  BY <1>0, <1>1, <1>3 DEF Tables, Resuming
<1>5. /\ f \in Entries /\ f.pid = T[s].pid /\ f.tgid = T[s].tgid /\ f.parent = T[s].parent
      /\ f.state = "RUNNING" /\ f.pc = "close" /\ f.slept = T[s].slept /\ SameCall(T[s], f)
      /\ f.exit_status = T[s].exit_status /\ f.group_exit = T[s].group_exit
  BY <1>1, <1>3 DEF Entries, SameCall
<1>6. EntryOK(s, s, f)
  BY <1>1, <1>5 DEF EntryOK
<1>7. Base(U, n, s)
  <2>1. Base([T EXCEPT ![s] = f], n, s)
    BY <1>1, <1>2, <1>5, <1>6, OneEntry
  <2> QED
    BY <1>4, <2>1
<1>8. Heads(T, U, s)
  <2>1. \A q \in Slots : /\ U[q].pid = T[q].pid /\ U[q].tgid = T[q].tgid
                         /\ U[q].parent = T[q].parent /\ U[q].slept = T[q].slept
                         /\ SameCall(T[q], U[q])
    BY <1>4, <1>5 DEF SameCall
  <2>2. \A q \in Slots \ {s} : Wakes(T[q], U[q])
    BY <1>4 DEF Wakes
  <2> QED
    BY <1>1, <1>2, <1>4, <1>5, <2>1, <2>2 DEF Heads
<1>9. Exiting(U, s)
  <2>1. s \in Used(U)
    BY <1>4, <1>5 DEF Used
  <2> QED
    BY <1>1, <1>4, <1>5, <2>1 DEF Exiting
<1>10. \A q \in Slots : /\ U[q].exit_status = T[q].exit_status
                        /\ U[q].group_exit <=> T[q].group_exit
  BY <1>4, <1>5
<1> QED
  BY <1>0, <1>4, <1>5, <1>7, <1>8, <1>9, <1>10 DEF ExitsBy, ResumesTo, SameStatus

-----------------------------------------------------------------------------
(* An exit as one step.                                                    *)

(* A zombie is a leader, so a group is empty when no other thread is left, *)
(* but for the one that is exiting.                                        *)
Alone(T, p) == \A q \in Used(T) : T[q].tgid = T[p].tgid => q = p

LEMMA EmptyFacts ==
    ASSUME NEW T, NEW n, NEW x, Base(T, n, x), NEW p \in Used(T)
    PROVE  proc_group_empty(T, p) <=>
              \A q \in Used(T) : T[q].tgid = T[p].tgid =>
                 q = p \/ (q = x /\ T[q].state = "ZOMBIE" /\ ~IsLeader(T, q))
BY DEF proc_group_empty, Group, Base, Used

LEMMA AloneFacts ==
    ASSUME NEW T, NEW n, Base(T, n, None), NEW p \in Used(T)
    PROVE  /\ proc_group_empty(T, p) <=> Alone(T, p)
           /\ Reapable(T, p) <=> T[p].state = "ZOMBIE" /\ Alone(T, p)
<1>1. \A q \in Used(T) : q # None
  BY SlotFacts DEF Used
<1>2. proc_group_empty(T, p) <=>
              \A q \in Used(T) : T[q].tgid = T[p].tgid =>
                 q = p \/ (q = None /\ T[q].state = "ZOMBIE" /\ ~IsLeader(T, q))
  BY EmptyFacts
<1> QED
  BY <1>1, <1>2 DEF Alone, Reapable

(* k: the exit makes the process reportable.                               *)
(* What an entry that is still in use has become.                          *)
ExitKept(T, U, V, s, l, k, q) ==
    /\ q \in Used(T) /\ V[q].pid = T[q].pid /\ V[q].tgid = T[q].tgid /\ V[q].slept = T[q].slept
    /\ SameCall(T[q], V[q])
    /\ V[q].parent = IF k /\ T[q].parent = l THEN 0 ELSE T[q].parent
    /\ V[q].group_exit <=> U[q].group_exit
    /\ q # s => /\ V[q].state = "ZOMBIE" <=> T[q].state = "ZOMBIE"
                /\ Wakes(T[q], V[q])
                /\ (k /\ l \in Used(V) /\ Leader(T, q) = V[l].parent) => V[q].pc # "wait"
                /\ V[q].exit_status = IF k /\ q = l /\ ~U[l].group_exit
                                      THEN U[s].exit_status ELSE U[q].exit_status
    /\ q = s => /\ V[q].pc = "gone" /\ V[q].state = U[q].state
                /\ V[q].exit_status = U[q].exit_status

(* Which entries are freed.                                                *)
ExitFreed(T, s, l, k, q) ==
    /\ k /\ q # s /\ T[q].state = "ZOMBIE" /\ IsLeader(T, q)
    /\ T[q].parent \in {0, l} /\ (Alone(T, q) \/ q = l)

LastTwo(T, s, l) == \A q \in Used(T) : T[q].tgid = T[s].tgid => q \in {l, s}

ExitStep(T, U, V, s, l, k) ==
    /\ \A q \in Used(V) : ExitKept(T, U, V, s, l, k, q)
    /\ \A q \in Used(T) \ {s} : q \notin Used(V) => ExitFreed(T, s, l, k, q)
    /\ \A q \in Used(T) : ExitFreed(T, s, l, k, q) => q \notin Used(V)
    /\ IsLeader(T, s) \/ U[s].state # "ZOMBIE" => s \in Used(V)
    /\ k => \/ l = s /\ IsLeader(T, s) /\ Alone(T, s)
            \/ /\ l # s /\ s \notin Used(V) /\ LastTwo(T, s, l)
               /\ T[l].state = "ZOMBIE" /\ IsLeader(T, l)
    /\ \A p \in Used(V) : IsLeader(V, p) /\ Reapable(V, p) =>
                             (p # s /\ Reapable(T, p)) \/ (k /\ p = l)

LEMMA ExitShape ==
    ASSUME NEW T, NEW U, NEW V, NEW s, NEW n, ExitsBy(T, U, V, s, n), NEW l, Leads(T, s, l),
           NEW k, k = Notify(U, s, l)
    PROVE  /\ Base(V, n, None) /\ l \in Used(T) /\ T[l].tgid = T[s].tgid
           /\ ExitStep(T, U, V, s, l, k)
<1>1. /\ Base(T, n, None) /\ Base(U, n, s) /\ Heads(T, U, s) /\ Exiting(U, s)
      /\ V = ExitTail(U, s)
  BY DEF ExitsBy
<1>2. Base(V, n, None)
  BY <1>1, TailBase
<1>3. /\ s \in Slots /\ s # 0 /\ s \in Used(T) /\ T[s].state # "ZOMBIE" /\ T[s].pc # "gone"
      /\ T[s].pc # "wait" /\ 0 \in Slots /\ None \notin Slots
      /\ T \in Tables /\ U \in Tables /\ V \in Tables
  BY <1>1, <1>2, SlotFacts DEF Heads, Base, Used
<1>4. \A q \in Slots : /\ U[q].pid = T[q].pid /\ U[q].tgid = T[q].tgid
                       /\ U[q].parent = T[q].parent /\ U[q].slept = T[q].slept
                       /\ SameCall(T[q], U[q])
  BY <1>1 DEF Heads
<1>5. \A q \in Slots : T[q].state = "ZOMBIE" => T[q].pc # "wait"
  BY <1>1, <1>3 DEF Base
<1>6. \A q \in Slots \ {s} : /\ Wakes(T[q], U[q])
                             /\ U[q].state = "ZOMBIE" <=> T[q].state = "ZOMBIE"
  BY <1>1, <1>5 DEF Heads, Wakes
<1>7. Used(U) = Used(T)
  <2>1. \A q \in Slots : T[q].pc = "wait" => T[q].state # "UNUSED"
    BY <1>1, FreeFacts DEF Base
  <2>2. \A q \in Slots \ {s} : U[q].state = "UNUSED" <=> T[q].state = "UNUSED"
    BY <1>6, <2>1 DEF Wakes
  <2>3. s \in Used(U)
    BY <1>1 DEF Exiting
  <2> QED
    BY <1>3, <2>2, <2>3 DEF Used
<1>8. \A q \in Slots : (IsLeader(U, q) <=> IsLeader(T, q)) /\ Leader(U, q) = Leader(T, q)
  <2> SUFFICES ASSUME NEW q \in Slots
               PROVE  (IsLeader(U, q) <=> IsLeader(T, q)) /\ Leader(U, q) = Leader(T, q)
    OBVIOUS
  <2> DEFINE A == {r \in Used(U) : U[r].pid = U[q].tgid}
             B == {r \in Used(T) : T[r].pid = T[q].tgid}
  <2>1. IsLeader(U, q) <=> IsLeader(T, q)
    BY <1>4 DEF IsLeader
  <2>2. Leader(U, q) = IF IsLeader(U, q) \/ A = {} THEN q ELSE CHOOSE r \in A : TRUE
    BY DEF Leader
  <2>3. Leader(T, q) = IF IsLeader(T, q) \/ B = {} THEN q ELSE CHOOSE r \in B : TRUE
    BY DEF Leader
  <2>4. A = B
    BY <1>4, <1>7 DEF Used
  <2> HIDE DEF A, B
  <2> QED
    BY <2>1, <2>2, <2>3, <2>4
<1>9. Leads(U, s, l) /\ l \in Used(T) /\ l \in Slots
  BY <1>3, <1>8, LeaderFacts DEF Leads, Used
<1>10. T[l].tgid = T[s].tgid /\ (l # s => IsLeader(T, l) /\ ~IsLeader(T, s) /\ T[l].pid = T[s].tgid)
  <2>1. CASE l = s
    BY <2>1
  <2>2. CASE l # s
    <3>1. T[l].pid = T[s].tgid /\ ~IsLeader(T, s)
      BY <1>3, <2>2, LeaderFacts DEF Leads
    <3>2. IsLeader(T, l)
      BY <1>1, <1>3, <1>9, <3>1 DEF Base
    <3> QED
      BY <3>1, <3>2 DEF IsLeader
  <2> QED
    BY <2>1, <2>2
<1>11. /\ \A q \in Slots \ {s} : Freed(U, s, l, q) => V[q] = Free
       /\ \A q \in Slots \ {s} : ~Freed(U, s, l, q) => TailStays(U, s, l, q, V[q])
       /\ ~IsLeader(U, s) /\ U[s].state = "ZOMBIE" => V[s] = Free
       /\ IsLeader(U, s) \/ U[s].state # "ZOMBIE" =>
             /\ Moved(U[s], V[s]) /\ V[s].parent = After(U, s, l, s)
             /\ V[s].exit_status = U[s].exit_status
             /\ V[s].state = U[s].state /\ V[s].pc = "gone"
  BY <1>1, <1>9, TailShape
<1>12. ASSUME NEW p \in Used(T)
       PROVE  proc_group_empty(U, p) <=>
                 \A q \in Used(T) : T[q].tgid = T[p].tgid =>
                    q = p \/ (q = s /\ U[s].state = "ZOMBIE" /\ ~IsLeader(T, s))
  <2>1. proc_group_empty(U, p) <=>
                 \A q \in Used(U) : U[q].tgid = U[p].tgid =>
                    q = p \/ (q = s /\ U[q].state = "ZOMBIE" /\ ~IsLeader(U, q))
    BY <1>1, <1>7, EmptyFacts
  <2>2. \A q \in Used(T) : U[q].tgid = T[q].tgid
    BY <1>4 DEF Used
  <2>3. IsLeader(U, s) <=> IsLeader(T, s)
    BY <1>3, <1>8
  <2> QED
    BY <1>7, <2>1, <2>2, <2>3
<1>13. Free.state = "UNUSED"
  BY FreeFacts
<1>14. k => \/ l = s /\ IsLeader(T, s) /\ Alone(T, s)
            \/ /\ l # s /\ V[s] = Free /\ LastTwo(T, s, l)
               /\ T[l].state = "ZOMBIE" /\ IsLeader(T, l)
  <2> SUFFICES ASSUME Notify(U, s, l)
               PROVE  \/ l = s /\ IsLeader(T, s) /\ Alone(T, s)
                      \/ /\ l # s /\ V[s] = Free /\ LastTwo(T, s, l)
                         /\ T[l].state = "ZOMBIE" /\ IsLeader(T, l)
    OBVIOUS
  <2>1. CASE IsLeader(T, s)
    <3>1. l = s
      BY <1>10, <2>1
    <3>2. proc_group_empty(U, s)
      BY <1>3, <1>8, <2>1 DEF Notify
    <3> QED
      BY <1>3, <1>12, <2>1, <3>1, <3>2 DEF Alone
  <2>2. CASE ~IsLeader(T, s)
    <3>1. l # s /\ U[l].state = "ZOMBIE" /\ proc_group_empty(U, l)
      BY <1>3, <1>8, <2>2 DEF Notify
    <3>2. \A q \in Used(T) : T[q].tgid = T[l].tgid =>
             q = l \/ (q = s /\ U[s].state = "ZOMBIE" /\ ~IsLeader(T, s))
      BY <1>9, <1>12, <3>1
    <3>3. U[s].state = "ZOMBIE" /\ LastTwo(T, s, l)
      BY <1>3, <1>10, <3>1, <3>2 DEF LastTwo
    <3>4. V[s] = Free
      BY <1>3, <1>8, <1>11, <2>2, <3>3
    <3> QED
      BY <1>6, <1>9, <1>10, <3>1, <3>3, <3>4
  <2> QED
    BY <2>1, <2>2
<1>15. ASSUME NEW q \in Used(T)
       PROVE  Freed(U, s, l, q) <=> ExitFreed(T, s, l, k, q)
  <2>0. q \in Slots
    BY DEF Used
  <2>1. CASE q = s
    BY <2>1 DEF Freed, ExitFreed
  <2>2. CASE q # s
    <3>1. (U[q].state = "ZOMBIE" <=> T[q].state = "ZOMBIE") /\ U[q].parent = T[q].parent
          /\ (IsLeader(U, q) <=> IsLeader(T, q))
      BY <1>4, <1>6, <1>8, <2>0, <2>2
    <3>2. ASSUME k, IsLeader(T, q), T[q].state = "ZOMBIE"
          PROVE  proc_group_empty(U, q) <=> (Alone(T, q) \/ q = l)
      <4>1. CASE q = l
        <5>1. l # s /\ V[s] = Free /\ LastTwo(T, s, l)
          BY <1>14, <2>2, <3>2, <4>1
        <5>2. U[s].state = "ZOMBIE"
          BY <1>3, <1>11, <1>13, <1>1, <5>1 DEF Exiting
        <5>3. ~IsLeader(T, s)
          BY <1>10, <5>1
        <5> QED
          BY <1>9, <1>10, <1>12, <4>1, <5>1, <5>2, <5>3 DEF LastTwo
      <4>2. CASE q # l
        <5>1. T[s].tgid # T[q].tgid
          <6> SUFFICES ASSUME T[s].tgid = T[q].tgid PROVE FALSE
            OBVIOUS
          <6>1. T[q].pid = T[s].tgid
            BY <3>2 DEF IsLeader
          <6>2. \A r \in Used(T) : T[r].pid = T[q].pid => r = q
            BY <1>1 DEF Base
          <6>3. Leader(T, s) = q
            BY <1>3, <6>1, <6>2, LeaderFacts
          <6> QED
            BY <4>2, <6>3 DEF Leads
        <5> QED
          BY <1>12, <4>2, <5>1 DEF Alone
      <4> QED
        BY <4>1, <4>2
    <3> QED
      BY <2>2, <3>1, <3>2 DEF Freed, ExitFreed
  <2> QED
    BY <2>1, <2>2
<1>16. ASSUME NEW q \in Slots \ {s}, Freed(U, s, l, q)
       PROVE  q \notin Used(V)
  BY <1>11, <1>13, <1>16 DEF Used
<1>17. ASSUME NEW q \in Slots
       PROVE  After(U, s, l, q) = IF k /\ T[q].parent = l THEN 0 ELSE T[q].parent
  BY <1>4 DEF After
<1>18. ASSUME NEW q \in Slots \ {s}, ~Freed(U, s, l, q)
       PROVE  V[q].state = "UNUSED" <=> T[q].state = "UNUSED"
  <2>1. Wakes(U[q], V[q])
    BY <1>11, <1>18 DEF TailStays
  <2>2. U[q].pc = "wait" => U[q].state # "UNUSED"
    BY <1>1, <1>3, FreeFacts DEF Base
  <2>3. U[q].state = "UNUSED" <=> T[q].state = "UNUSED"
    BY <1>7 DEF Used
  <2> QED
    BY <2>1, <2>2, <2>3 DEF Wakes
<1>19. ASSUME NEW q \in Used(V) PROVE ExitKept(T, U, V, s, l, k, q)
  <2>0. q \in Slots /\ V[q].state # "UNUSED"
    BY DEF Used
  <2>1. CASE q = s
    <3>1. V[s] # Free
      BY <1>13, <2>0, <2>1
    <3>2. /\ Moved(U[s], V[s]) /\ V[s].parent = After(U, s, l, s)
          /\ V[s].exit_status = U[s].exit_status /\ V[s].pc = "gone" /\ V[s].state = U[s].state
      BY <1>11, <3>1
    <3>3. V[s].pid = T[s].pid /\ V[s].tgid = T[s].tgid /\ V[s].slept = T[s].slept
          /\ SameCall(T[s], V[s]) /\ V[s].group_exit = U[s].group_exit
      BY <1>3, <1>4, <3>2 DEF Moved, SameCall
    <3>4. V[s].parent = IF k /\ T[s].parent = l THEN 0 ELSE T[s].parent
      BY <1>3, <1>17, <3>2
    <3> QED
      BY <1>3, <2>1, <3>2, <3>3, <3>4 DEF ExitKept
  <2>2. CASE q # s
    <3>1. ~Freed(U, s, l, q)
      BY <1>16, <2>0, <2>2
    <3>2. TailStays(U, s, l, q, V[q])
      BY <1>11, <2>0, <2>2, <3>1
    <3>3. q \in Used(T)
      BY <1>18, <2>0, <2>2, <3>1 DEF Used
    <3>4. V[q].pid = T[q].pid /\ V[q].tgid = T[q].tgid /\ V[q].slept = T[q].slept
          /\ SameCall(T[q], V[q]) /\ V[q].group_exit = U[q].group_exit
      BY <1>4, <2>0, <3>2 DEF TailStays, Moved, SameCall
    <3>5. Wakes(T[q], V[q]) /\ (V[q].state = "ZOMBIE" <=> T[q].state = "ZOMBIE")
      BY <1>5, <1>6, <2>0, <2>2, <3>2 DEF TailStays, Wakes
    <3>6. V[q].parent = IF k /\ T[q].parent = l THEN 0 ELSE T[q].parent
      BY <1>17, <2>0, <3>2 DEF TailStays
    <3>7. V[q].exit_status = IF k /\ q = l /\ ~U[l].group_exit
                             THEN U[s].exit_status ELSE U[q].exit_status
      BY <2>2, <3>2 DEF TailStays
    <3>8. ASSUME k, l \in Used(V), Leader(T, q) = V[l].parent PROVE V[q].pc # "wait"
      <4>1. ~Freed(U, s, l, l)
        BY <1>9, <1>16, <3>8 DEF Freed
      <4>2. V[l].parent = After(U, s, l, l)
        <5>1. CASE l = s
          <6>1. V[s] # Free
            BY <1>13, <3>8, <5>1 DEF Used
          <6> QED
            BY <1>11, <5>1, <6>1
        <5>2. CASE l # s
          <6>1. TailStays(U, s, l, l, V[l])
            BY <1>9, <1>11, <4>1, <5>2
          <6> QED
            BY <6>1 DEF TailStays
        <5> QED
          BY <5>1, <5>2
      <4>3. Leader(U, q) = After(U, s, l, l) /\ Notify(U, s, l)
        BY <1>8, <2>0, <3>8, <4>2
      <4> QED
        BY <3>2, <4>1, <4>3 DEF TailStays
    <3> QED
      BY <2>2, <3>3, <3>4, <3>5, <3>6, <3>7, <3>8 DEF ExitKept
  <2> QED
    BY <2>1, <2>2
<1>20. \A q \in Used(T) \ {s} : q \notin Used(V) => ExitFreed(T, s, l, k, q)
  BY <1>15, <1>18 DEF Used
<1>21. \A q \in Used(T) : ExitFreed(T, s, l, k, q) => q \notin Used(V)
  <2> SUFFICES ASSUME NEW q \in Used(T), ExitFreed(T, s, l, k, q) PROVE q \notin Used(V)
    OBVIOUS
  <2>1. q \in Slots \ {s}
    BY DEF Used, ExitFreed
  <2> QED
    BY <1>15, <1>16, <2>1
<1>22. IsLeader(T, s) \/ U[s].state # "ZOMBIE" => s \in Used(V)
  <2>1. IsLeader(T, s) \/ U[s].state # "ZOMBIE" => V[s].state = U[s].state
    BY <1>3, <1>8, <1>11
  <2> QED
    BY <1>1, <1>3, <2>1 DEF Exiting, Used
<1>23. ASSUME NEW p \in Used(V), IsLeader(V, p), Reapable(V, p)
       PROVE  (p # s /\ Reapable(T, p)) \/ (k /\ p = l)
  <2>1. V[p].state = "ZOMBIE" /\ Alone(V, p)
    BY <1>2, <1>23, AloneFacts
  <2>2. p \in Used(T) /\ p \in Slots /\ IsLeader(T, p)
    BY <1>19, <1>23 DEF ExitKept, IsLeader, Used
  <2>3. ASSUME NEW q \in Used(T), q # s, q # p, T[q].tgid = T[p].tgid PROVE FALSE
    <3>1. CASE q \in Used(V)
      <4>1. V[q].tgid = V[p].tgid
        BY <1>19, <2>3, <3>1 DEF ExitKept
      <4> QED
        BY <2>1, <2>3, <3>1, <4>1 DEF Alone
    <3>2. CASE q \notin Used(V)
      <4>1. IsLeader(T, q)
        BY <1>20, <2>3, <3>2 DEF ExitFreed
      <4>2. T[q].pid = T[p].pid
        BY <2>2, <2>3, <4>1 DEF IsLeader
      <4> QED
        BY <1>1, <2>2, <2>3, <4>2 DEF Base
    <3> QED
      BY <3>1, <3>2
  <2>4. CASE p = s
    <3>1. l = s
      BY <1>10, <2>2, <2>4
    <3>2. proc_group_empty(U, s)
      BY <1>3, <1>12, <2>3, <2>4
    <3>3. Notify(U, s, l)
      BY <1>3, <1>8, <2>2, <2>4, <3>2 DEF Notify
    <3> QED
      BY <2>4, <3>1, <3>3
  <2>5. CASE p # s
    <3>1. T[p].state = "ZOMBIE"
      BY <1>19, <2>1, <2>5 DEF ExitKept
    <3>2. CASE T[s].tgid # T[p].tgid
      <4>1. Alone(T, p)
        BY <2>3, <3>2 DEF Alone
      <4> QED
        BY <1>1, <2>2, <2>5, <3>1, <4>1, AloneFacts
    <3>3. CASE T[s].tgid = T[p].tgid
      <4>1. T[p].pid = T[s].tgid
        BY <2>2, <3>3 DEF IsLeader
      <4>2. \A r \in Used(T) : T[r].pid = T[p].pid => r = p
        BY <1>1, <2>2 DEF Base
      <4>3. l = p
        <5>1. Leader(T, s) = p
          BY <1>3, <2>2, <4>1, <4>2, LeaderFacts
        <5> QED
          BY <5>1 DEF Leads
      <4>4. s \notin Used(V)
        <5> SUFFICES ASSUME s \in Used(V) PROVE FALSE
          OBVIOUS
        <5>1. V[s].tgid = V[p].tgid
          BY <1>19, <3>3 DEF ExitKept
        <5> QED
          BY <2>1, <2>5, <5>1 DEF Alone
      <4>5. U[s].state = "ZOMBIE" /\ ~IsLeader(T, s)
        BY <1>1, <1>3, <1>10, <1>11, <2>5, <4>3, <4>4 DEF Exiting, Used
      <4>6. proc_group_empty(U, p)
        BY <1>12, <2>2, <2>3, <4>5
      <4>7. U[l].state = "ZOMBIE"
        BY <1>6, <2>2, <2>5, <3>1, <4>3
      <4>8. Notify(U, s, l)
        BY <1>3, <1>8, <2>5, <4>3, <4>5, <4>6, <4>7 DEF Notify
      <4> QED
        BY <4>3, <4>8
    <3> QED
      BY <3>2, <3>3
  <2> QED
    BY <2>4, <2>5
<1>24. V[s] = Free => s \notin Used(V)
  BY <1>13 DEF Used
<1> QED
  BY <1>2, <1>9, <1>10, <1>14, <1>19, <1>20, <1>21, <1>22, <1>23, <1>24 DEF ExitStep

-----------------------------------------------------------------------------
(* The other steps.                                                        *)

(* A step that creates and ends nothing.                                   *)
Quiet(T, V) ==
    \A q \in Slots :
       /\ V[q].pid = T[q].pid /\ V[q].tgid = T[q].tgid /\ V[q].parent = T[q].parent
       /\ V[q].state = "UNUSED" <=> T[q].state = "UNUSED"
       /\ V[q].state = "ZOMBIE" <=> T[q].state = "ZOMBIE"
       /\ V[q].pc = "gone" <=> T[q].pc = "gone"

(* A status being copied is a child's that was ready to be collected.      *)
CopyFrom(T, V) ==
    \A q \in Slots : V[q].pc = "copy" =>
       \/ T[q].pc = "copy" /\ SameCall(T[q], V[q])
       \/ /\ CopySleeps
          /\ V[q].at \in Used(T) /\ IsLeader(T, V[q].at) /\ Reapable(T, V[q].at)
          /\ V[q].child = T[V[q].at].pid /\ V[q].got = T[V[q].at].exit_status

(* A thread goes to sleep in waitpid when no child is ready.               *)
WaitFrom(T, V) ==
    \A q \in Slots : V[q].pc = "wait" =>
       \/ T[q].pc = "wait" /\ SameCall(T[q], V[q])
       \/ /\ Children(T, q, V[q].want) # {}
          /\ \A p \in Children(T, q, V[q].want) : ~Reapable(T, p)

QuietStep(T, V, n) == Base(V, n, None) /\ Quiet(T, V) /\ CopyFrom(T, V) /\ WaitFrom(T, V)

(* The thread in s creates a process or a thread in entry f.               *)
Creates(T, V, n, s, f, tgid, parent) ==
    /\ Base(V, n + 1, None) /\ n \in Pids
    /\ s \in Used(T) /\ T[s].pc = "user" /\ f \in Slots \ Used(T)
    /\ V[f] = NewProc(n, tgid, parent) /\ V[s] = Return(T[s])
    /\ \A q \in Slots \ {s, f} : V[q] = T[q]
    /\ \/ tgid = n /\ parent = Leader(T, s)
       \/ tgid = T[s].tgid /\ tgid # 1 /\ parent = T[s].parent

(* The thread in s ends a wait that releases the entry p if it is a zombie.*)
Collects(T, V, n, s, p) ==
    /\ Base(V, n, None) /\ p \in Slots
    /\ s \in Used(T) /\ T[s].state # "ZOMBIE" /\ T[s].pc # "gone" /\ V[s] = Return(T[s])
    /\ \A q \in Slots \ {s, p} : V[q] = T[q]
    /\ p # s => V[p] = IF T[p].state = "ZOMBIE" THEN Free ELSE T[p]

LEMMA LiveFacts ==
    ASSUME NEW T, NEW n, Base(T, n, None), NEW s \in Slots, T[s].pc # "gone"
    PROVE  s \in Used(T) /\ T[s].state # "ZOMBIE" /\ T[s] \in Entries
BY SlotFacts, FreeFacts DEF Base, Used, Tables

(* A step of one thread that stays in the kernel or in user mode.          *)
QuietEntry(s, e, f) ==
    /\ f \in Entries /\ f.pid = e.pid /\ f.tgid = e.tgid /\ f.parent = e.parent
    /\ f.state \in {"RUNNING", "SLEEPING"} /\ f.pc # "gone" /\ f.slept = e.slept
    /\ f.exit_status = e.exit_status /\ f.group_exit = e.group_exit
    /\ f.pc = "close" => e.pc = "close"
    /\ s = 0 => f.sig # "kill" /\ f.pc # "close"

LEMMA QuietOne ==
    ASSUME Base(tab, next_pid, None), NEW s \in Slots, tab[s].pc # "gone",
           NEW f, QuietEntry(s, tab[s], f), tab' = [tab EXCEPT ![s] = f]
    PROVE  /\ Base(tab', next_pid, None) /\ Quiet(tab, tab') /\ SameStatus(tab, tab')
           /\ tab'[s] = f /\ \A q \in Slots \ {s} : tab'[q] = tab[q]
<1>1. s \in Used(tab) /\ tab[s].state # "ZOMBIE" /\ tab[s] \in Entries /\ tab[s].state # "UNUSED"
  BY LiveFacts DEF Used
<1>2. tab \in Tables /\ (tab[s].pc = "close" => tab[s].slept) /\ Init0(tab)
  BY DEF Base
<1>3. EntryOK(s, None, f)
  BY <1>2 DEF EntryOK, Init0, QuietEntry
<1>4. f \in Entries /\ f.pid = tab[s].pid /\ f.tgid = tab[s].tgid /\ f.state # "UNUSED"
  BY DEF QuietEntry
<1>5. Base([tab EXCEPT ![s] = f], next_pid, None)
  BY <1>1, <1>3, <1>4, OneEntry
<1>6. tab'[s] = f /\ \A q \in Slots \ {s} : tab'[q] = tab[q]
  BY <1>2 DEF Tables
<1>7. Quiet(tab, tab')
  BY <1>1, <1>6 DEF Quiet, QuietEntry
<1>8. SameStatus(tab, tab')
  BY <1>6 DEF SameStatus, QuietEntry
<1> QED
  BY <1>5, <1>6, <1>7, <1>8

LEMMA SigKillStep ==
    ASSUME Base(tab, next_pid, None), NEW s \in Slots, SigKill(s)
    PROVE  QuietStep(tab, tab', next_pid) /\ SameStatus(tab, tab')
<1>1. tab[s].pc # "gone" /\ tab[s].tgid # 1 /\ tab' = [tab EXCEPT ![s] = Kill(tab[s])]
  BY DEF SigKill
<1>2. s \in Used(tab) /\ tab[s].state # "ZOMBIE" /\ tab[s] \in Entries /\ tab[s].state # "UNUSED"
  BY <1>1, LiveFacts DEF Used
<1>3. PICK f : f = Kill(tab[s])
  OBVIOUS
<1>4. /\ f \in Entries /\ Same(tab[s], f) /\ SameCall(tab[s], f) /\ Wakes(tab[s], f) /\ f.pc # "wait"
  BY <1>2, <1>3, KillFacts
<1>5. s # 0 /\ f.state \in {"RUNNING", "SLEEPING"}
  BY <1>1, <1>2, <1>4 DEF Base, Init0, Wakes, Entries
<1>6. /\ Base(tab', next_pid, None) /\ Quiet(tab, tab') /\ SameStatus(tab, tab')
      /\ tab'[s] = f /\ \A q \in Slots \ {s} : tab'[q] = tab[q]
  <2>1. QuietEntry(s, tab[s], f)
    BY <1>1, <1>4, <1>5 DEF Same, Wakes, QuietEntry
  <2> QED
    BY <1>1, <1>3, <2>1, QuietOne
<1>7. CopyFrom(tab, tab')
  BY <1>4, <1>6 DEF CopyFrom, SameCall, Wakes
<1>8. WaitFrom(tab, tab')
  BY <1>4, <1>6 DEF WaitFrom, SameCall
<1> QED
  BY <1>6, <1>7, <1>8 DEF QuietStep

LEMMA SignalStep ==
    ASSUME Base(tab, next_pid, None), NEW s \in Slots, Signal(s)
    PROVE  QuietStep(tab, tab', next_pid) /\ SameStatus(tab, tab')
<1>1. tab[s].pc = "wait" /\ tab \in Tables
      /\ tab' = [tab EXCEPT ![s].sig = "caught", ![s].pc = "ready", ![s].state = "RUNNING"]
  BY DEF Signal, Base
<1>2. s \in Used(tab) /\ tab[s].state # "ZOMBIE" /\ tab[s] \in Entries /\ tab[s].state # "UNUSED"
  BY <1>1, LiveFacts DEF Used
<1>3. PICK f : f = [tab[s] EXCEPT !.sig = "caught", !.pc = "ready", !.state = "RUNNING"]
  OBVIOUS
<1>4. /\ f \in Entries /\ f.pid = tab[s].pid /\ f.tgid = tab[s].tgid /\ f.parent = tab[s].parent
      /\ f.slept = tab[s].slept /\ f.exit_status = tab[s].exit_status
      /\ f.group_exit = tab[s].group_exit /\ f.pc = "ready" /\ f.state = "RUNNING"
      /\ f.sig = "caught"
  BY <1>2, <1>3 DEF Entries
<1>5. tab' = [tab EXCEPT ![s] = f]
  BY <1>1, <1>3 DEF Tables
<1>6. /\ Base(tab', next_pid, None) /\ Quiet(tab, tab') /\ SameStatus(tab, tab')
      /\ tab'[s] = f /\ \A q \in Slots \ {s} : tab'[q] = tab[q]
  <2>1. QuietEntry(s, tab[s], f)
    BY <1>4 DEF QuietEntry
  <2> QED
    BY <1>1, <1>5, <2>1, QuietOne
<1>7. CopyFrom(tab, tab')
  BY <1>4, <1>6 DEF CopyFrom, SameCall
<1>8. WaitFrom(tab, tab')
  BY <1>4, <1>6 DEF WaitFrom, SameCall
<1> QED
  BY <1>6, <1>7, <1>8 DEF QuietStep

(* The end of a call that collects nothing.                                *)
LEMMA ReturnStep ==
    ASSUME Base(tab, next_pid, None), NEW s \in Slots, tab[s].pc # "gone",
           tab' = [tab EXCEPT ![s] = Return(tab[s])]
    PROVE  QuietStep(tab, tab', next_pid) /\ SameStatus(tab, tab')
<1>2. s \in Used(tab) /\ tab[s].state # "ZOMBIE" /\ tab[s] \in Entries /\ tab[s].state # "UNUSED"
      /\ Init0(tab)
  BY LiveFacts DEF Used, Base
<1>3. PICK f : f = Return(tab[s])
  OBVIOUS
<1>4. /\ f \in Entries /\ Same(tab[s], f) /\ f.state = "RUNNING" /\ f.pc \in {"user", "ret"}
      /\ f.sig = "kill" <=> tab[s].sig = "kill"
  BY <1>2, <1>3, ReturnFacts
<1>5. s = 0 => f.sig # "kill"
  BY <1>2, <1>4 DEF Init0
<1>6. /\ Base(tab', next_pid, None) /\ Quiet(tab, tab') /\ SameStatus(tab, tab')
      /\ tab'[s] = f /\ \A q \in Slots \ {s} : tab'[q] = tab[q]
  <2>1. QuietEntry(s, tab[s], f)
    BY <1>4, <1>5 DEF Same, QuietEntry
  <2> QED
    BY <1>3, <2>1, QuietOne
<1>7. CopyFrom(tab, tab')
  BY <1>4, <1>6 DEF CopyFrom, SameCall
<1>8. WaitFrom(tab, tab')
  BY <1>4, <1>6 DEF WaitFrom, SameCall
<1> QED
  BY <1>6, <1>7, <1>8 DEF QuietStep

LEMMA CollectStep ==
    ASSUME Base(tab, next_pid, None), NEW s \in Slots, tab[s].pc # "gone", NEW p \in Slots,
           tab' = [proc_release(tab, p) EXCEPT ![s] = Return(@)]
    PROVE  Collects(tab, tab', next_pid, s, p)
<1>1. s \in Used(tab) /\ tab[s].state # "ZOMBIE" /\ tab[s] \in Entries /\ tab[s].state # "UNUSED"
      /\ Init0(tab) /\ tab \in Tables /\ 0 \in Slots /\ None \notin Slots /\ None # 0
  BY LiveFacts, SlotFacts DEF Used, Base
<1>2. PICK R : R = proc_release(tab, p)
  OBVIOUS
<1>3. /\ R \in Tables /\ \A q \in Slots \ {p} : R[q] = tab[q]
      /\ R[p] = IF tab[p].state = "ZOMBIE" THEN Free ELSE tab[p]
  BY <1>1, <1>2, FreeFacts DEF proc_release, Tables
<1>4. \A q \in Slots : R[q] = Free \/ Carried(tab[q], R[q])
  BY <1>3 DEF Base, Carried, Wakes
<1>5. R[0] = tab[0] /\ Carried(tab[0], R[0])
  BY <1>1, <1>3 DEF Init0, Carried, Wakes
<1>6. From(tab, R, None)
  BY <1>1, <1>4, <1>5 DEF From, Init0
<1>7. Base(R, next_pid, None)
  BY <1>1, <1>3, <1>6, BaseFrom
<1>8. R[s] = tab[s] /\ s \in Used(R)
  BY <1>1, <1>3 DEF Used
<1>9. PICK f : f = Return(tab[s])
  OBVIOUS
<1>10. /\ f \in Entries /\ Same(tab[s], f) /\ f.state = "RUNNING" /\ f.pc \in {"user", "ret"}
       /\ f.sig = "kill" <=> tab[s].sig = "kill"
  BY <1>1, <1>9, ReturnFacts
<1>11. tab' = [R EXCEPT ![s] = f]
  BY <1>2, <1>3, <1>8, <1>9 DEF Tables
<1>12. EntryOK(s, None, f)
  BY <1>1, <1>10 DEF EntryOK, Same, Init0
<1>13. Base(tab', next_pid, None)
  <2>1. f.pid = R[s].pid /\ f.tgid = R[s].tgid /\ f.state # "UNUSED"
    BY <1>8, <1>10 DEF Same
  <2>2. Base([R EXCEPT ![s] = f], next_pid, None)
    BY <1>7, <1>8, <1>10, <1>12, <2>1, OneEntry
  <2> QED
    BY <1>11, <2>2
<1>14. tab'[s] = f /\ \A q \in Slots \ {s} : tab'[q] = R[q]
  BY <1>3, <1>11 DEF Tables
<1> QED
  BY <1>1, <1>3, <1>9, <1>13, <1>14 DEF Collects

(* One round of waitpid's loop.                                            *)
ScanQuiet == QuietStep(tab, tab', next_pid) /\ SameStatus(tab, tab') /\ UNCHANGED told

ScanCollects(s) ==
    \E p \in Used(tab) :
       /\ IsLeader(tab, p) /\ Reapable(tab, p) /\ Collects(tab, tab', next_pid, s, p)
       /\ told' = [told EXCEPT ![tab[p].pid] = [n |-> @.n + 1, status |-> tab[p].exit_status]]

LEMMA WaitScanStep ==
    ASSUME Base(tab, next_pid, None), NEW s \in Slots, tab[s].pc \in {"user", "ready"},
           NEW want \in 0..MaxPid, WaitScan(s, want)
    PROVE  (ScanQuiet \/ ScanCollects(s)) /\ UNCHANGED <<next_pid, final, misfreed>>
<1>1. s \in Used(tab) /\ tab[s].state # "ZOMBIE" /\ tab[s] \in Entries /\ tab[s].state # "UNUSED"
      /\ Init0(tab) /\ tab \in Tables /\ tab[s].pc # "gone" /\ tab[s].pc # "close"
  BY LiveFacts DEF Used, Base
<1>2. PICK cs : cs = Children(tab, s, want)
  OBVIOUS
<1>3. PICK zs : zs = {q \in cs : Reapable(tab, q)}
  OBVIOUS
<1>4. PICK p : p = First(zs)
  OBVIOUS
<1>5. zs # {} => p \in zs /\ p \in Used(tab) /\ IsLeader(tab, p) /\ Reapable(tab, p) /\ p \in Slots
  <2>1. zs \in SUBSET Slots
    BY <1>2, <1>3 DEF Children, Used
  <2>2. zs # {} => p \in zs
    BY <1>4, <2>1, FirstFacts
  <2> QED
    BY <1>2, <1>3, <2>2 DEF Children, Used
<1>6. /\ \/ zs # {} /\ Collect(s, p, tab[p].pid, tab[p].exit_status)
         \/ /\ zs # {} /\ CopySleeps
            /\ tab' = [tab EXCEPT ![s].pc = "copy", ![s].state = "SLEEPING",
                                  ![s].at = p, ![s].child = tab[p].pid,
                                  ![s].got = tab[p].exit_status]
            /\ UNCHANGED told
         \/ /\ zs = {}
            /\ tab' = [tab EXCEPT ![s] =
                 IF cs = {} \/ tab[s].sig # "none"
                 THEN Return(@)
                 ELSE [@ EXCEPT !.pc = "wait", !.state = "SLEEPING", !.want = want]]
            /\ UNCHANGED told
      /\ UNCHANGED <<next_pid, final, misfreed>>
  BY <1>2, <1>3, <1>4 DEF WaitScan
<1>7. CASE zs # {} /\ Collect(s, p, tab[p].pid, tab[p].exit_status)
  <2>1. /\ tab' = [proc_release(tab, p) EXCEPT ![s] = Return(@)]
        /\ told' = [told EXCEPT ![tab[p].pid] = [n |-> @.n + 1, status |-> tab[p].exit_status]]
    BY <1>7 DEF Collect
  <2>2. Collects(tab, tab', next_pid, s, p)
    BY <1>1, <1>5, <1>7, <2>1, CollectStep
  <2>3. ScanCollects(s)
    BY <1>5, <1>7, <2>1, <2>2 DEF ScanCollects
  <2> QED
    BY <1>6, <2>3
<1>8. CASE /\ zs # {} /\ CopySleeps
           /\ tab' = [tab EXCEPT ![s].pc = "copy", ![s].state = "SLEEPING",
                                 ![s].at = p, ![s].child = tab[p].pid,
                                 ![s].got = tab[p].exit_status]
           /\ UNCHANGED told
  <2>1. PICK f : f = [tab[s] EXCEPT !.pc = "copy", !.state = "SLEEPING", !.at = p,
                                    !.child = tab[p].pid, !.got = tab[p].exit_status]
    OBVIOUS
  <2>2. tab[p].pid \in 0..MaxPid /\ tab[p].exit_status \in Nat
    BY <1>1, <1>5, <1>8 DEF Tables, Entries
  <2>3. tab' = [tab EXCEPT ![s] = f]
    BY <1>1, <1>8, <2>1 DEF Tables
  <2>4. /\ f \in Entries /\ f.pid = tab[s].pid /\ f.tgid = tab[s].tgid /\ f.parent = tab[s].parent
        /\ f.slept = tab[s].slept /\ f.exit_status = tab[s].exit_status
        /\ f.group_exit = tab[s].group_exit /\ f.pc = "copy" /\ f.state = "SLEEPING"
        /\ f.sig = tab[s].sig /\ f.at = p /\ f.child = tab[p].pid /\ f.got = tab[p].exit_status
    BY <1>1, <1>5, <1>8, <2>1, <2>2 DEF Entries
  <2>5. QuietEntry(s, tab[s], f)
    BY <1>1, <2>4 DEF QuietEntry, Init0
  <2>6. /\ Base(tab', next_pid, None) /\ Quiet(tab, tab') /\ SameStatus(tab, tab')
        /\ tab'[s] = f /\ \A q \in Slots \ {s} : tab'[q] = tab[q]
    BY <1>1, <2>3, <2>5, QuietOne
  <2>7. CopyFrom(tab, tab')
    <3> SUFFICES ASSUME NEW q \in Slots, tab'[q].pc = "copy"
                 PROVE  \/ tab[q].pc = "copy" /\ SameCall(tab[q], tab'[q])
                        \/ /\ CopySleeps /\ tab'[q].at \in Used(tab) /\ IsLeader(tab, tab'[q].at)
                           /\ Reapable(tab, tab'[q].at)
                           /\ tab'[q].child = tab[tab'[q].at].pid
                           /\ tab'[q].got = tab[tab'[q].at].exit_status
      BY DEF CopyFrom
    <3>1. CASE q = s
      BY <1>5, <1>8, <2>4, <2>6, <3>1
    <3>2. CASE q # s
      BY <2>6, <3>2 DEF SameCall
    <3> QED
      BY <3>1, <3>2
  <2>8. WaitFrom(tab, tab')
    BY <2>4, <2>6 DEF WaitFrom, SameCall
  <2> QED
    BY <1>6, <1>8, <2>6, <2>7, <2>8 DEF ScanQuiet, QuietStep
<1>9. CASE zs = {} /\ UNCHANGED told /\ (cs = {} \/ tab[s].sig # "none")
           /\ tab' = [tab EXCEPT ![s] = Return(@)]
  <2>1. tab' = [tab EXCEPT ![s] = Return(tab[s])]
    BY <1>1, <1>9 DEF Tables
  <2> QED
    BY <1>1, <1>6, <1>9, <2>1, ReturnStep DEF ScanQuiet
<1>10. CASE zs = {} /\ UNCHANGED told /\ ~(cs = {} \/ tab[s].sig # "none")
            /\ tab' = [tab EXCEPT ![s] =
                          [@ EXCEPT !.pc = "wait", !.state = "SLEEPING", !.want = want]]
  <2>1. PICK f : f = [tab[s] EXCEPT !.pc = "wait", !.state = "SLEEPING", !.want = want]
    OBVIOUS
  <2>3. tab' = [tab EXCEPT ![s] = f]
    BY <1>1, <1>10, <2>1 DEF Tables
  <2>4. /\ f \in Entries /\ f.pid = tab[s].pid /\ f.tgid = tab[s].tgid /\ f.parent = tab[s].parent
        /\ f.slept = tab[s].slept /\ f.exit_status = tab[s].exit_status
        /\ f.group_exit = tab[s].group_exit /\ f.pc = "wait" /\ f.state = "SLEEPING"
        /\ f.sig = tab[s].sig /\ f.want = want
    BY <1>1, <2>1 DEF Entries
  <2>5. QuietEntry(s, tab[s], f)
    BY <1>1, <2>4 DEF QuietEntry, Init0
  <2>6. /\ Base(tab', next_pid, None) /\ Quiet(tab, tab') /\ SameStatus(tab, tab')
        /\ tab'[s] = f /\ \A q \in Slots \ {s} : tab'[q] = tab[q]
    BY <1>1, <2>3, <2>5, QuietOne
  <2>7. CopyFrom(tab, tab')
    BY <2>4, <2>6 DEF CopyFrom, SameCall
  <2>8. WaitFrom(tab, tab')
    <3>1. cs # {} /\ \A q \in cs : ~Reapable(tab, q)
      BY <1>3, <1>10
    <3> QED
      BY <1>2, <2>4, <2>6, <3>1 DEF WaitFrom, SameCall
  <2> QED
    BY <1>6, <1>10, <2>6, <2>7, <2>8 DEF ScanQuiet, QuietStep
<1> QED
  BY <1>6, <1>7, <1>8, <1>9, <1>10

(* allocproc: the first pid that was never given.                          *)
LEMMA AddBase ==
    ASSUME NEW T, NEW n \in Pids, Base(T, n, None), NEW f \in Slots \ Used(T),
           NEW tgid, tgid = n \/ (tgid # 1 /\ \E q \in Used(T) : T[q].tgid = tgid),
           NEW parent \in Slots \cup {None}
    PROVE  Base([T EXCEPT ![f] = NewProc(n, tgid, parent)], n + 1, None)
<1>1. T \in Tables /\ Init0(T) /\ f \in Slots /\ 0 \in Used(T) /\ f # 0 /\ n \in 2..(MaxPid + 1)
      /\ n \in 2..MaxPid /\ 0 \in Slots /\ MaxPid \in Nat
  <2>1. T \in Tables /\ Init0(T) /\ f \in Slots /\ n \in 2..(MaxPid + 1) /\ n \in 1..MaxPid
    BY DEF Base, Pids
  <2>2. 0 \in Used(T) /\ f # 0 /\ 0 \in Slots /\ MaxPid \in Nat
    BY InitProcFacts, SlotFacts, ProcAssumption
  <2> QED
    BY <2>1, <2>2
<1>2. tgid \in 1..n /\ tgid # 1 /\ tgid \in 0..MaxPid /\ n \in 0..MaxPid
  BY <1>1 DEF Base, Pids
<1>3. PICK e : e = NewProc(n, tgid, parent)
  OBVIOUS
<1>4. /\ e \in Entries /\ e.pid = n /\ e.tgid = tgid /\ e.parent = parent
      /\ e.state = "RUNNING" /\ e.pc = "user" /\ e.sig = "none" /\ ~e.group_exit /\ ~e.slept
  BY <1>2, <1>3, FreeFacts
<1>5. PICK V : V = [T EXCEPT ![f] = e]
  OBVIOUS
<1>6. V \in Tables /\ V[f] = e /\ \A q \in Slots \ {f} : V[q] = T[q]
  BY <1>1, <1>4, <1>5 DEF Tables
<1>7. Used(V) = Used(T) \cup {f}
  BY <1>1, <1>4, <1>6 DEF Used
<1>8. \A q \in Used(T) : q # f /\ V[q] = T[q] /\ q \in Slots
  BY <1>6 DEF Used
<1>9. \A q \in Used(T) : T[q].pid \in 1..(n - 1) /\ T[q].tgid \in 1..(n - 1)
  BY DEF Base
<1>10. \A q \in Used(V) : V[q].pid \in 1..n /\ V[q].tgid \in 1..n
  BY <1>1, <1>2, <1>4, <1>6, <1>7, <1>8, <1>9
<1>11. (n + 1) - 1 = n /\ n + 1 \in 2..(MaxPid + 1)
  BY <1>1
<1>12. \A q \in Slots : V[q].state = "UNUSED" => V[q] = Free
  BY <1>4, <1>6 DEF Base
<1>13. \A q \in Used(T) : T[q].pid # n /\ T[q].tgid # n
  BY <1>1, <1>9
<1>14. \A q, r \in Used(V) : V[r].pid = V[q].pid => r = q
  BY <1>4, <1>6, <1>7, <1>8, <1>13 DEF Base
<1>15. \A q, r \in Used(V) : V[r].pid = V[q].tgid => V[r].pid = V[r].tgid
  <2> SUFFICES ASSUME NEW q \in Used(V), NEW r \in Used(V), V[r].pid = V[q].tgid
               PROVE  V[r].pid = V[r].tgid
    OBVIOUS
  <2>1. CASE r = f
    <3>1. V[q].tgid = n
      BY <1>4, <1>6, <2>1
    <3>2. q = f
      BY <1>7, <1>8, <1>13, <3>1
    <3> QED
      BY <2>1, <3>2
  <2>2. CASE r # f
    <3>1. r \in Used(T) /\ V[r] = T[r]
      BY <1>7, <1>8, <2>2
    <3>2. CASE q = f
      <4>1. T[r].pid = tgid
        BY <1>4, <1>6, <3>1, <3>2
      <4>2. PICK t \in Used(T) : T[t].tgid = tgid
        BY <1>13, <3>1, <4>1
      <4> QED
        BY <3>1, <4>1, <4>2 DEF Base, IsLeader
    <3>3. CASE q # f
      <4>1. q \in Used(T) /\ V[q] = T[q]
        BY <1>7, <1>8, <3>3
      <4> QED
        BY <3>1, <4>1 DEF Base, IsLeader
    <3> QED
      BY <3>2, <3>3
  <2> QED
    BY <2>1, <2>2
<1>16. Init0(V)
  <2>1. V[0] = T[0]
    BY <1>1, <1>8
  <2>2. \A q \in Used(V) : V[q].tgid = 1 => q = 0
    BY <1>1, <1>2, <1>4, <1>6, <1>7, <1>8 DEF Init0
  <2> QED
    BY <1>1, <2>1, <2>2 DEF Init0
<1>17. \A q \in Slots \ {None} : V[q].state = "ZOMBIE" => V[q].pc = "gone" /\ IsLeader(V, q)
  BY <1>4, <1>6 DEF Base, IsLeader
<1>18. \A q \in Used(V) \ {None} : V[q].pc = "gone" /\ ~V[q].slept =>
                                    IsLeader(V, q) /\ V[q].state = "ZOMBIE"
  <2>1. \A q \in Used(T) : T[q].pc = "gone" /\ ~T[q].slept =>
                             T[q].pid = T[q].tgid /\ T[q].state = "ZOMBIE"
    BY SlotFacts DEF Base, IsLeader, Used
  <2> QED
    BY <1>4, <1>6, <1>7, <1>8, <2>1 DEF IsLeader
<1>19. \A q \in Slots : V[q].pc = "close" => V[q].slept
  BY <1>4, <1>6 DEF Base
<1>20. Base(V, n + 1, None)
  BY ONLY <1>6, <1>10, <1>11, <1>12, <1>14, <1>15, <1>16, <1>17, <1>18, <1>19 DEF Base, IsLeader
<1> QED
  BY <1>3, <1>5, <1>20

LEMMA CreateStep ==
    ASSUME Base(tab, next_pid, None), NEW s \in Slots, NEW tgid, NEW parent,
           Create(s, tgid, parent), parent \in Slots \cup {None},
           \/ tgid = next_pid /\ parent = Leader(tab, s)
           \/ tgid = tab[s].tgid /\ tgid # 1 /\ parent = tab[s].parent
    PROVE  \E f \in Slots : Creates(tab, tab', next_pid, s, f, tgid, parent)
<1>1. /\ InUser(s) /\ FreeSlots # {} /\ next_pid \in Pids
      /\ tab' = [tab EXCEPT ![FirstFree] = NewProc(next_pid, tgid, parent), ![s] = Return(@)]
  BY DEF Create
<1>2. s \in Used(tab) /\ tab[s].pc = "user" /\ tab \in Tables /\ tab[s] \in Entries /\ Init0(tab)
      /\ tab[s].state # "UNUSED"
  BY <1>1 DEF InUser, Base, Tables, Used
<1>3. PICK f \in FreeSlots : f = FirstFree
  <2>1. FreeSlots \in SUBSET Nat
    BY SlotFacts DEF FreeSlots
  <2>2. \E x \in FreeSlots : \A y \in FreeSlots : x <= y
    BY <1>1, <2>1, LeastSlot
  <2> QED
    BY <2>2 DEF FirstFree
<1>4. f \in Slots \ Used(tab) /\ f # s
  BY <1>2, <1>3 DEF FreeSlots
<1>5. PICK e : e = NewProc(next_pid, tgid, parent)
  OBVIOUS
<1>6. PICK A : A = [tab EXCEPT ![f] = e]
  OBVIOUS
<1>7. tgid = next_pid \/ (tgid # 1 /\ \E q \in Used(tab) : tab[q].tgid = tgid)
  BY <1>2
<1>8. Base(A, next_pid + 1, None)
  <2>1. Base([tab EXCEPT ![f] = NewProc(next_pid, tgid, parent)], next_pid + 1, None)
    BY <1>1, <1>4, <1>7, AddBase
  <2> QED
    BY <1>5, <1>6, <2>1
<1>9. A \in Tables /\ A[f] = e /\ \A q \in Slots \ {f} : A[q] = tab[q]
  <2>1. A \in Tables
    BY <1>8 DEF Base
  <2>2. A[f] = e /\ \A q \in Slots \ {f} : A[q] = tab[q]
    BY <1>2, <1>4, <1>6 DEF Tables
  <2> QED
    BY <2>1, <2>2
<1>10. A[s] = tab[s] /\ s \in Used(A)
  BY <1>2, <1>4, <1>9 DEF Used
<1>11. PICK g : g = Return(tab[s])
  OBVIOUS
<1>12. /\ g \in Entries /\ Same(tab[s], g) /\ g.state = "RUNNING" /\ g.pc \in {"user", "ret"}
       /\ g.sig = "kill" <=> tab[s].sig = "kill"
  BY <1>2, <1>11, ReturnFacts
<1>13. EntryOK(s, None, g)
  BY <1>2, <1>12 DEF EntryOK, Same, Init0
<1>14. tab' = [A EXCEPT ![s] = g]
  <2>1. tab' = [tab EXCEPT ![f] = e, ![s] = Return(@)]
    BY <1>1, <1>3, <1>5
  <2>2. tab' = [A EXCEPT ![s] = Return(A[s])]
    BY <1>2, <1>4, <1>6, <1>9, <1>10, <2>1 DEF Tables
  <2> QED
    BY <1>10, <1>11, <2>2
<1>15. Base(tab', next_pid + 1, None)
  <2>1. g.pid = A[s].pid /\ g.tgid = A[s].tgid /\ g.state # "UNUSED"
    BY <1>10, <1>12 DEF Same
  <2>2. Base([A EXCEPT ![s] = g], next_pid + 1, None)
    BY <1>8, <1>10, <1>12, <1>13, <2>1, OneEntry
  <2> QED
    BY <1>14, <2>2
<1>16. tab'[s] = g /\ tab'[f] = e /\ \A q \in Slots \ {s, f} : tab'[q] = tab[q]
  BY <1>4, <1>9, <1>14 DEF Tables
<1>17. Creates(tab, tab', next_pid, s, f, tgid, parent)
  BY <1>1, <1>2, <1>4, <1>5, <1>11, <1>15, <1>16 DEF Creates
<1> QED
  BY <1>4, <1>17

-----------------------------------------------------------------------------
(* Every step is of one of these kinds.                                    *)

StepQuiet ==
    /\ QuietStep(tab, tab', next_pid) /\ SameStatus(tab, tab')
    /\ UNCHANGED <<next_pid, told, final, misfreed>>

StepCreate(s) ==
    /\ \E f \in Slots : \E tgid, parent : Creates(tab, tab', next_pid, s, f, tgid, parent)
    /\ next_pid' = next_pid + 1 /\ UNCHANGED <<told, final, misfreed>>

StepCollect(s) == ScanCollects(s) /\ UNCHANGED <<next_pid, final, misfreed>>

StepCopied(s) ==
    /\ tab[s].pc = "copy" /\ Collects(tab, tab', next_pid, s, tab[s].at)
    /\ told' = [told EXCEPT ![tab[s].child] = [n |-> @.n + 1, status |-> tab[s].got]]
    /\ misfreed' = (misfreed \/ (/\ tab[tab[s].at].state = "ZOMBIE"
                                 /\ tab[tab[s].at].pid # tab[s].child))
    /\ UNCHANGED <<next_pid, final>>

StepExit(s) ==
    /\ \E U : /\ ExitsBy(tab, U, tab', s, next_pid)
              /\ \/ \E status \in Nat, group \in BOOLEAN :
                       /\ HeadStatus(tab, U, s, Leader(tab, s), group, status)
                       /\ Ended(s, status, group)
                 \/ SameStatus(tab, U) /\ U[s].state # "ZOMBIE" /\ UNCHANGED final
    /\ UNCHANGED <<next_pid, told, misfreed>>

StepClose(s) ==
    /\ ClosesBy(tab, tab', s, next_pid)
    /\ \E status \in Nat, group \in BOOLEAN :
          HeadStatus(tab, tab', s, Leader(tab, s), group, status) /\ Ended(s, status, group)
    /\ UNCHANGED <<next_pid, told, misfreed>>

LEMMA ProcExitStep ==
    ASSUME Base(tab, next_pid, None), NEW s \in Used(tab), tab[s].tgid # 1,
           tab[s].pc \in {"user", "ret"}, NEW status \in Nat, NEW group \in BOOLEAN, NEW W,
           Struck(tab, W, s, next_pid, Leader(tab, s), group, status), proc_exit(W, s, status),
           Ended(s, status, group), UNCHANGED <<next_pid, told, misfreed>>
    PROVE  StepExit(s) \/ StepClose(s)
<1>1. PICK l : l = Leader(tab, s)
  OBVIOUS
<1>2. s # 0
  BY DEF Base, Init0
<1>3. PICK U : U = ExitHead(W, s, status)
  OBVIOUS
<1>4. PICK Z : Z = Closing(U, s)
  OBVIOUS
<1>5. tab' = ExitTail(U, s) \/ tab' = Z
  BY <1>3, <1>4 DEF proc_exit, Closing
<1>6. /\ ExitsBy(tab, U, ExitTail(U, s), s, next_pid)
      /\ HeadStatus(tab, U, s, l, group, status)
      /\ ClosesBy(tab, Z, s, next_pid)
      /\ HeadStatus(tab, Z, s, l, group, status)
  <2>1. s \in Used(tab) \ {0} /\ Leads(tab, s, l)
    BY <1>1, <1>2 DEF Leads
  <2>2. Struck(tab, W, s, next_pid, l, group, status)
    BY <1>1
  <2>3. HeadsTo(tab, ExitHead(W, s, status), s, next_pid, l, group, status)
    BY <2>1, <2>2, HeadBase
  <2> QED
    BY <1>3, <1>4, <2>3 DEF HeadsTo
<1>7. CASE tab' = ExitTail(U, s)
  BY <1>1, <1>6, <1>7 DEF StepExit
<1>8. CASE tab' = Z
  BY <1>1, <1>6, <1>8 DEF StepClose
<1> QED
  BY <1>5, <1>7, <1>8

LEMMA GroupExitStep ==
    ASSUME Base(tab, next_pid, None), NEW s \in Used(tab), tab[s].tgid # 1,
           tab[s].pc \in {"user", "ret"}, NEW status \in Nat, GroupExit(s, status)
    PROVE  StepExit(s) \/ StepClose(s)
<1>1. PICK W : W = thread_group_kill(tab, s, status)
  OBVIOUS
<1>2. proc_exit(W, s, status) /\ Ended(s, status, TRUE) /\ UNCHANGED <<next_pid, told, misfreed>>
  BY <1>1 DEF GroupExit
<1>3. Struck(tab, W, s, next_pid, Leader(tab, s), TRUE, status)
  <2>1. PICK l : Leads(tab, s, l)
    BY DEF Leads
  <2>2. Struck(tab, thread_group_kill(tab, s, status), s, next_pid, l, TRUE, status)
    BY <2>1, KillStruck
  <2> QED
    BY <1>1, <2>1, <2>2 DEF Leads
<1> QED
  BY <1>2, <1>3, ProcExitStep

Steps ==
    \/ StepQuiet
    \/ \E s \in Slots : \/ StepCreate(s) \/ StepCollect(s) \/ StepCopied(s)
                        \/ StepExit(s) \/ StepClose(s)

LEMMA NextSteps ==
    ASSUME Base(tab, next_pid, None), [Next]_vars
    PROVE  Steps
<1>1. CASE UNCHANGED vars
  <2>1. tab' = tab /\ UNCHANGED <<next_pid, told, final, misfreed>>
    BY <1>1 DEF vars
  <2>2. QuietStep(tab, tab, next_pid) /\ SameStatus(tab, tab)
    BY DEF QuietStep, Quiet, CopyFrom, WaitFrom, SameCall, SameStatus
  <2> QED
    BY <2>1, <2>2 DEF Steps, StepQuiet
<1>2. ASSUME NEW s \in Slots, ThreadStep(s) PROVE Steps
  <2>1. tab \in Tables /\ tab[s] \in Entries /\ Init0(tab)
    BY DEF Base, Tables
  <2>2. CASE Fork(s)
    <3>1. Create(s, next_pid, Leader(tab, s))
      BY <2>2 DEF Fork
    <3>2. Leader(tab, s) \in Slots
      BY <3>1, LeaderFacts DEF Create, InUser, Used
    <3>3. \E f \in Slots : Creates(tab, tab', next_pid, s, f, next_pid, Leader(tab, s))
      BY <3>1, <3>2, CreateStep
    <3> QED
      BY <3>1, <3>3 DEF Steps, StepCreate, Create
  <2>3. CASE CloneThread(s)
    <3>1. Create(s, tab[s].tgid, tab[s].parent) /\ tab[s].tgid # 1
      BY <2>3 DEF CloneThread
    <3>2. tab[s].parent \in Slots \cup {None}
      BY <2>1 DEF Entries
    <3>3. \E f \in Slots : Creates(tab, tab', next_pid, s, f, tab[s].tgid, tab[s].parent)
      BY <3>1, <3>2, CreateStep
    <3> QED
      BY <3>1, <3>3 DEF Steps, StepCreate, Create
  <2>4. CASE SigKill(s)
    <3>1. QuietStep(tab, tab', next_pid) /\ SameStatus(tab, tab')
      BY <2>4, SigKillStep
    <3> QED
      BY <2>4, <3>1 DEF Steps, StepQuiet, SigKill
  <2>5. CASE Signal(s)
    <3>1. QuietStep(tab, tab', next_pid) /\ SameStatus(tab, tab')
      BY <2>5, SignalStep
    <3> QED
      BY <2>5, <3>1 DEF Steps, StepQuiet, Signal
  <2>6. CASE Die(s)
    <3>1. tab[s].pc \in {"user", "ret"} /\ tab[s].sig = "kill" /\ GroupExit(s, Killed)
      BY <2>6 DEF Die
    <3>2. s \in Used(tab)
      BY <3>1, LiveFacts
    <3>3. tab[s].tgid # 1 /\ Killed \in Nat
      BY <2>1, <3>1, <3>2, ProcAssumption DEF Init0
    <3> QED
      BY <3>1, <3>2, <3>3, GroupExitStep DEF Steps
  <2>7. CASE ExitResume(s)
    <3>1. PICK U : U = Resuming(tab, s)
      OBVIOUS
    <3>2. /\ tab[s].pc = "close" /\ tab' = ExitTail(U, s)
          /\ UNCHANGED <<next_pid, told, final, misfreed>>
      BY <2>7, <3>1 DEF ExitResume, Resuming
    <3>3. ResumesTo(tab, Resuming(tab, s), s, next_pid)
      BY <3>2, ResumeBase
    <3> QED
      BY <3>1, <3>2, <3>3 DEF Steps, StepExit, ResumesTo
  <2>8. ASSUME NEW code \in Codes, Exit(s, code) PROVE Steps
    <3>1. /\ InUser(s) /\ tab[s].tgid # 1 /\ proc_exit(tab, s, code) /\ Ended(s, code, FALSE)
          /\ UNCHANGED <<next_pid, told, misfreed>>
      BY <2>8 DEF Exit
    <3>2. s \in Used(tab) /\ tab[s].pc = "user" /\ code \in Nat
      BY <3>1, ProcAssumption DEF InUser
    <3>3. Struck(tab, tab, s, next_pid, Leader(tab, s), FALSE, code)
      BY NotStruck
    <3> QED
      BY <3>1, <3>2, <3>3, ProcExitStep DEF Steps
  <2>9. ASSUME NEW code \in Codes, ExitGroup(s, code) PROVE Steps
    <3>1. InUser(s) /\ tab[s].tgid # 1 /\ GroupExit(s, code)
      BY <2>9 DEF ExitGroup
    <3>2. s \in Used(tab) /\ tab[s].pc = "user" /\ code \in Nat
      BY <3>1, ProcAssumption DEF InUser
    <3> QED
      BY <3>1, <3>2, GroupExitStep DEF Steps
  <2>10. ASSUME NEW want \in 0..MaxPid, WaitScan(s, want), tab[s].pc \in {"user", "ready"}
         PROVE  Steps
    <3>1. (ScanQuiet \/ ScanCollects(s)) /\ UNCHANGED <<next_pid, final, misfreed>>
      BY <2>10, WaitScanStep
    <3> QED
      BY <3>1 DEF Steps, StepQuiet, StepCollect, ScanQuiet
  <2>11. CASE WaitCall(s)
    <3>1. PICK want \in {ANY} \cup {tab[p].pid : p \in Children(tab, s, ANY)} : WaitScan(s, want)
      BY <2>11 DEF WaitCall
    <3>2. want \in 0..MaxPid
      BY <2>1, <3>1, ProcAssumption DEF ANY, Children, Used, Tables, Entries
    <3> QED
      BY <2>10, <2>11, <3>1, <3>2 DEF WaitCall, InUser
  <2>12. CASE WaitResume(s)
    BY <2>1, <2>10, <2>12 DEF WaitResume, Entries
  <2>13. CASE WaitCopied(s)
    <3>1. tab[s].pc = "copy" /\ UNCHANGED <<next_pid, final>> /\ tab[s].at \in Slots
      BY <2>1, <2>13 DEF WaitCopied, Entries
    <3>2. CASE /\ Collect(s, tab[s].at, tab[s].child, tab[s].got)
               /\ misfreed' = (misfreed \/ (/\ tab[tab[s].at].state = "ZOMBIE"
                                            /\ tab[tab[s].at].pid # tab[s].child))
      <4>1. Collects(tab, tab', next_pid, s, tab[s].at)
        BY <3>1, <3>2, CollectStep DEF Collect
      <4> QED
        BY <3>1, <3>2, <4>1 DEF Steps, StepCopied, Collect
    <3>3. CASE tab' = [tab EXCEPT ![s] = Return(@)] /\ UNCHANGED <<told, misfreed>>
      <4>1. tab' = [tab EXCEPT ![s] = Return(tab[s])]
        BY <2>1, <3>3 DEF Tables
      <4>2. QuietStep(tab, tab', next_pid) /\ SameStatus(tab, tab')
        BY <3>1, <4>1, ReturnStep
      <4> QED
        BY <3>1, <3>3, <4>2 DEF Steps, StepQuiet
    <3> QED
      BY <2>13, <3>2, <3>3 DEF WaitCopied
  <2> QED
    BY <1>2, <2>2, <2>3, <2>4, <2>5, <2>6, <2>7, <2>8, <2>9, <2>11, <2>12, <2>13 DEF ThreadStep
<1> QED
  BY <1>1, <1>2 DEF Next

-----------------------------------------------------------------------------
(* What every step keeps: an entry in use has the process it had, or one   *)
(* with a pid never given before, in a group that is not over.             *)
Evolves(T, V, n) ==
    /\ \A r \in Used(V) :
          \/ /\ r \in Used(T) /\ V[r].pid = T[r].pid /\ V[r].tgid = T[r].tgid
             /\ T[r].state = "ZOMBIE" => V[r].state = "ZOMBIE"
             /\ T[r].pc = "gone" => V[r].pc = "gone"
          \/ /\ r \notin Used(T) /\ V[r].pid = n
             /\ \/ V[r].tgid = n
                \/ \E s \in Used(T) : T[s].tgid = V[r].tgid /\ T[s].pc # "gone"
    /\ \A r \in Used(T) : r \notin Used(V) /\ IsLeader(T, r) => T[r].pc = "gone"

LEMMA QuietEvolves ==
    ASSUME NEW T, NEW V, NEW n, Quiet(T, V)
    PROVE  Evolves(T, V, n) /\ Used(V) = Used(T)
<1>1. Used(V) = Used(T)
  BY DEF Quiet, Used
<1> QED
  BY <1>1 DEF Quiet, Evolves, Used

CreatesTo(T, V, n, s, f, tgid, parent) ==
    /\ Used(V) = Used(T) \cup {f}
    /\ V[f].pid = n /\ V[f].tgid = tgid /\ V[f].parent = parent /\ V[f].state = "RUNNING"
    /\ V[f].pc = "user" /\ ~V[f].group_exit
    /\ Same(T[s], V[s]) /\ V[s].state = "RUNNING" /\ V[s].pc \in {"user", "ret"}

LEMMA CreateEvolves ==
    ASSUME NEW T, NEW V, NEW n, Base(T, n, None), NEW s, NEW f, NEW tgid, NEW parent,
           Creates(T, V, n, s, f, tgid, parent), parent \in Slots \cup {None}, tgid \in 0..MaxPid
    PROVE  /\ Evolves(T, V, n) /\ CopyFrom(T, V)
           /\ CreatesTo(T, V, n, s, f, tgid, parent)
<1>1. /\ n \in Pids /\ s \in Used(T) /\ s \in Slots /\ T[s].pc = "user" /\ f \in Slots \ Used(T)
      /\ V[f] = NewProc(n, tgid, parent) /\ V[s] = Return(T[s])
      /\ \A q \in Slots \ {s, f} : V[q] = T[q]
      /\ tgid = n \/ tgid = T[s].tgid
      /\ T[s].state # "UNUSED" /\ f # s /\ T[s] \in Entries
  BY DEF Creates, Used, Base, Tables
<1>2. n \in 0..MaxPid
  BY <1>1 DEF Pids
<1>3. /\ V[f].pid = n /\ V[f].tgid = tgid /\ V[f].parent = parent /\ V[f].state = "RUNNING"
      /\ V[f].pc = "user" /\ ~V[f].group_exit
  BY <1>1, <1>2, FreeFacts
<1>4. Same(T[s], V[s]) /\ V[s].state = "RUNNING" /\ V[s].pc \in {"user", "ret"}
  BY <1>1, ReturnFacts
<1>5. Used(V) = Used(T) \cup {f}
  BY <1>1, <1>3, <1>4 DEF Used
<1>6. T[s].state # "ZOMBIE"
  BY <1>1, LiveFacts
<1>7. Evolves(T, V, n)
  BY <1>1, <1>3, <1>4, <1>5, <1>6 DEF Evolves, Same, Used
<1>8. CopyFrom(T, V)
  BY <1>1, <1>3, <1>4 DEF CopyFrom, SameCall
<1> QED
  BY <1>3, <1>4, <1>5, <1>7, <1>8 DEF CreatesTo

CollectsTo(T, V, s, p) ==
    /\ Used(V) = IF T[p].state = "ZOMBIE" THEN Used(T) \ {p} ELSE Used(T)
    /\ \A q \in Used(V) \ {s} : V[q] = T[q]
    /\ Same(T[s], V[s]) /\ V[s].state = "RUNNING" /\ V[s].pc \in {"user", "ret"}
    /\ T[p].state = "ZOMBIE" => p # s

LEMMA CollectEvolves ==
    ASSUME NEW T, NEW V, NEW n, Base(T, n, None), NEW s, NEW p, Collects(T, V, n, s, p)
    PROVE  Evolves(T, V, n) /\ CopyFrom(T, V) /\ CollectsTo(T, V, s, p)
<1>1. /\ p \in Slots /\ s \in Used(T) /\ s \in Slots /\ T[s].state # "ZOMBIE" /\ T[s].pc # "gone"
      /\ V[s] = Return(T[s]) /\ T[s].state # "UNUSED" /\ T[s] \in Entries
      /\ \A q \in Slots \ {s, p} : V[q] = T[q]
      /\ p # s => V[p] = IF T[p].state = "ZOMBIE" THEN Free ELSE T[p]
  BY DEF Collects, Used, Base, Tables
<1>2. Same(T[s], V[s]) /\ V[s].state = "RUNNING" /\ V[s].pc \in {"user", "ret"}
  BY <1>1, ReturnFacts
<1>3. Free.state = "UNUSED" /\ Free.pc = "gone"
  BY FreeFacts
<1>4. Used(V) = IF T[p].state = "ZOMBIE" THEN Used(T) \ {p} ELSE Used(T)
  BY <1>1, <1>2, <1>3 DEF Used
<1>5. \A q \in Used(V) \ {s} : V[q] = T[q]
  BY <1>1, <1>3 DEF Used
<1>6. T[p].state = "ZOMBIE" => T[p].pc = "gone"
  BY <1>1, SlotFacts DEF Base
<1>7. Evolves(T, V, n)
  BY <1>1, <1>2, <1>4, <1>5, <1>6 DEF Evolves, Same
<1>8. CopyFrom(T, V)
  BY <1>1, <1>2, <1>3 DEF CopyFrom, SameCall
<1> QED
  BY <1>1, <1>2, <1>4, <1>5, <1>7, <1>8 DEF CollectsTo

LEMMA ExitEvolves ==
    ASSUME NEW T, NEW U, NEW V, NEW s, NEW n, ExitsBy(T, U, V, s, n)
    PROVE  Evolves(T, V, n) /\ CopyFrom(T, V) /\ Base(V, n, None)
<1>1. PICK l : Leads(T, s, l)
  BY DEF Leads
<1>2. PICK k : k = Notify(U, s, l)
  OBVIOUS
<1>3. Base(V, n, None) /\ ExitStep(T, U, V, s, l, k)
  BY <1>1, <1>2, ExitShape
<1>4. Base(T, n, None) /\ s \in Used(T) /\ T[s].state # "ZOMBIE" /\ T[s].pc # "gone" /\ s \in Slots
  BY DEF ExitsBy, Heads, Used
<1>5. \A q \in Used(V) : ExitKept(T, U, V, s, l, k, q)
  BY <1>3 DEF ExitStep
<1>6. Evolves(T, V, n)
  <2>1. ASSUME NEW r \in Used(V)
        PROVE  /\ r \in Used(T) /\ V[r].pid = T[r].pid /\ V[r].tgid = T[r].tgid
               /\ T[r].state = "ZOMBIE" => V[r].state = "ZOMBIE"
               /\ T[r].pc = "gone" => V[r].pc = "gone"
    <3>1. ExitKept(T, U, V, s, l, k, r)
      BY <1>5
    <3> QED
      BY <1>4, <3>1 DEF ExitKept, Wakes
  <2>2. ASSUME NEW r \in Used(T), r \notin Used(V), IsLeader(T, r) PROVE T[r].pc = "gone"
    <3>1. r # s
      BY <1>3, <2>2 DEF ExitStep
    <3>2. ExitFreed(T, s, l, k, r)
      BY <1>3, <2>2, <3>1 DEF ExitStep
    <3> QED
      BY <1>4, <3>2, SlotFacts DEF ExitFreed, Base, Used
  <2> QED
    BY <2>1, <2>2 DEF Evolves
<1>7. CopyFrom(T, V)
  <2> SUFFICES ASSUME NEW q \in Slots, V[q].pc = "copy"
               PROVE  T[q].pc = "copy" /\ SameCall(T[q], V[q])
    BY DEF CopyFrom
  <2>1. q \in Used(V)
    BY <1>3, LiveFacts
  <2>2. ExitKept(T, U, V, s, l, k, q)
    BY <1>5, <2>1
  <2> QED
    BY <2>2 DEF ExitKept, Wakes
<1> QED
  BY <1>3, <1>6, <1>7

LEMMA CloseQuiet ==
    ASSUME NEW T, NEW V, NEW s, NEW n, ClosesBy(T, V, s, n)
    PROVE  QuietStep(T, V, n)
<1>1. /\ Base(T, n, None) /\ Base(V, n, None) /\ s \in Used(T) /\ s \in Slots
      /\ T[s].pc \in {"user", "ret"} /\ T[s].state # "ZOMBIE" /\ T[s].state # "UNUSED"
      /\ \A q \in Slots : /\ V[q].pid = T[q].pid /\ V[q].tgid = T[q].tgid
                          /\ V[q].parent = T[q].parent /\ SameCall(T[q], V[q])
      /\ \A q \in Slots \ {s} : Wakes(T[q], V[q])
      /\ V[s].pc = "close" /\ V[s].state = "SLEEPING"
  BY DEF ClosesBy, Used
<1>2. \A q \in Slots : T[q].pc = "wait" => T[q].state # "ZOMBIE" /\ T[q].state # "UNUSED"
  BY <1>1, LiveFacts DEF Used
<1>3. Quiet(T, V)
  BY <1>1, <1>2 DEF Quiet, Wakes
<1>4. CopyFrom(T, V)
  BY <1>1 DEF CopyFrom, Wakes
<1>5. WaitFrom(T, V)
  BY <1>1 DEF WaitFrom, Wakes
<1> QED
  BY <1>1, <1>3, <1>4, <1>5 DEF QuietStep

(* The creation of a step, with its typing.                                *)
LEMMA CreatesTyped ==
    ASSUME NEW T, NEW V, NEW n, Base(T, n, None), NEW s, NEW f, NEW tgid, NEW parent,
           Creates(T, V, n, s, f, tgid, parent)
    PROVE  parent \in Slots \cup {None} /\ tgid \in 0..MaxPid
<1>1. s \in Used(T) /\ s \in Slots /\ T[s] \in Entries /\ n \in Pids
  BY DEF Creates, Used, Base, Tables
<1>2. Leader(T, s) \in Slots
  BY <1>1, LeaderFacts DEF Used
<1> QED
  BY <1>1, <1>2 DEF Creates, Entries, Pids

LEMMA StepsEvolve ==
    ASSUME Base(tab, next_pid, None), Steps
    PROVE  /\ Evolves(tab, tab', next_pid) /\ CopyFrom(tab, tab')
           /\ Base(tab', next_pid', None) /\ next_pid' \in {next_pid, next_pid + 1}
<1>1. CASE StepQuiet
  BY <1>1, QuietEvolves DEF StepQuiet, QuietStep
<1>2. ASSUME NEW s \in Slots, StepCreate(s)
      PROVE  /\ Evolves(tab, tab', next_pid) /\ CopyFrom(tab, tab')
             /\ Base(tab', next_pid', None) /\ next_pid' \in {next_pid, next_pid + 1}
  <2>1. PICK f, tgid, parent : Creates(tab, tab', next_pid, s, f, tgid, parent)
    BY <1>2 DEF StepCreate
  <2>2. parent \in Slots \cup {None} /\ tgid \in 0..MaxPid
    BY <2>1, CreatesTyped
  <2>3. Evolves(tab, tab', next_pid) /\ CopyFrom(tab, tab')
    BY <2>1, <2>2, CreateEvolves
  <2>4. Base(tab', next_pid + 1, None)
    BY <2>1 DEF Creates
  <2> QED
    BY <1>2, <2>3, <2>4 DEF StepCreate
<1>3. ASSUME NEW s \in Slots, NEW p, Collects(tab, tab', next_pid, s, p), next_pid' = next_pid
      PROVE  /\ Evolves(tab, tab', next_pid) /\ CopyFrom(tab, tab')
             /\ Base(tab', next_pid', None) /\ next_pid' \in {next_pid, next_pid + 1}
  <2>1. Evolves(tab, tab', next_pid) /\ CopyFrom(tab, tab')
    BY <1>3, CollectEvolves
  <2>2. Base(tab', next_pid, None)
    BY <1>3 DEF Collects
  <2> QED
    BY <1>3, <2>1, <2>2
<1>4. ASSUME NEW s \in Slots, StepCollect(s) \/ StepCopied(s)
      PROVE  /\ Evolves(tab, tab', next_pid) /\ CopyFrom(tab, tab')
             /\ Base(tab', next_pid', None) /\ next_pid' \in {next_pid, next_pid + 1}
  BY <1>3, <1>4 DEF StepCollect, ScanCollects, StepCopied
<1>5. ASSUME NEW s \in Slots, StepExit(s)
      PROVE  /\ Evolves(tab, tab', next_pid) /\ CopyFrom(tab, tab')
             /\ Base(tab', next_pid', None) /\ next_pid' \in {next_pid, next_pid + 1}
  BY <1>5, ExitEvolves DEF StepExit
<1>6. ASSUME NEW s \in Slots, StepClose(s)
      PROVE  /\ Evolves(tab, tab', next_pid) /\ CopyFrom(tab, tab')
             /\ Base(tab', next_pid', None) /\ next_pid' \in {next_pid, next_pid + 1}
  <2>1. QuietStep(tab, tab', next_pid)
    BY <1>6, CloseQuiet DEF StepClose
  <2> QED
    BY <1>6, <2>1, QuietEvolves DEF StepClose, QuietStep
<1> QED
  BY <1>1, <1>2, <1>4, <1>5, <1>6 DEF Steps

-----------------------------------------------------------------------------
(* Collecting: a status that is being copied is that of a process which    *)
(* still has its entry, ready to be collected, or was collected meanwhile. *)
CopyOK(T, n) ==
    \A s \in Slots : T[s].pc = "copy" =>
       /\ T[s].child \in 1..(n - 1)
       /\ \A r \in Used(T) : T[r].pid = T[s].child =>
             r = T[s].at /\ IsLeader(T, r) /\ Reapable(T, r)

(* No entry is that of process p any more.                                 *)
Collected(T, n, p) == p < n /\ \A r \in Used(T) : T[r].pid # p

ToldOK(T, n, d) == \A p \in Pids : d[p].n > 0 => Collected(T, n, p)

Records ==
    /\ told \in [Pids -> [n : Nat, status : Nat]]
    /\ final \in [Pids -> [group : BOOLEAN, status : Nat]]
    /\ misfreed \in BOOLEAN

LifeInv ==
    /\ Base(tab, next_pid, None) /\ Records
    /\ CopyOK(tab, next_pid) /\ ToldOK(tab, next_pid, told)

(* A process ready to be collected stays so until its entry is released.   *)
LEMMA ReapableKept ==
    ASSUME NEW T, NEW V, NEW n, NEW m, Base(T, n, None), Base(V, m, None), Evolves(T, V, n),
           NEW r \in Used(V), r \in Used(T), Reapable(T, r)
    PROVE  Reapable(V, r)
<1>1. T[r].state = "ZOMBIE" /\ Alone(T, r) /\ T[r].pc = "gone"
  BY AloneFacts, SlotFacts DEF Base, Used
<1>2. V[r].state = "ZOMBIE" /\ V[r].tgid = T[r].tgid
  BY <1>1 DEF Evolves
<1>3. T[r].tgid \in 1..(n - 1) /\ n \in Nat
  BY ProcAssumption DEF Base
<1>4. ASSUME NEW q \in Used(V), V[q].tgid = V[r].tgid PROVE q = r
  BY <1>1, <1>2, <1>3, <1>4 DEF Evolves, Alone
<1> QED
  BY <1>2, <1>4, AloneFacts DEF Alone

LEMMA CopyKept ==
    ASSUME NEW T, NEW V, NEW n, NEW m, Base(T, n, None), Base(V, m, None), m \in {n, n + 1},
           Evolves(T, V, n), CopyFrom(T, V), CopyOK(T, n)
    PROVE  CopyOK(V, m)
<1>1. n \in Nat /\ m \in Nat /\ n <= m
  BY ProcAssumption DEF Base
<1>2. ASSUME NEW s \in Slots, V[s].pc = "copy"
      PROVE  /\ V[s].child \in 1..(n - 1)
             /\ \A r \in Used(T) : T[r].pid = V[s].child =>
                   r = V[s].at /\ IsLeader(T, r) /\ Reapable(T, r)
  <2>1. CASE T[s].pc = "copy" /\ SameCall(T[s], V[s])
    BY <2>1 DEF CopyOK, SameCall
  <2>2. CASE /\ V[s].at \in Used(T) /\ IsLeader(T, V[s].at) /\ Reapable(T, V[s].at)
             /\ V[s].child = T[V[s].at].pid
    BY <2>2 DEF Base
  <2> QED
    BY <1>2, <2>1, <2>2 DEF CopyFrom
<1>3. ASSUME NEW s \in Slots, V[s].pc = "copy", NEW r \in Used(V), V[r].pid = V[s].child
      PROVE  r = V[s].at /\ IsLeader(V, r) /\ Reapable(V, r)
  <2>1. V[r].pid # n
    BY <1>1, <1>2, <1>3
  <2>2. r \in Used(T) /\ V[r].pid = T[r].pid /\ V[r].tgid = T[r].tgid
    BY <2>1 DEF Evolves
  <2>3. r = V[s].at /\ IsLeader(T, r) /\ Reapable(T, r)
    BY <1>2, <1>3, <2>2
  <2>4. Reapable(V, r)
    BY <2>2, <2>3, ReapableKept
  <2> QED
    BY <2>2, <2>3, <2>4 DEF IsLeader
<1>4. \A s \in Slots : V[s].pc = "copy" => V[s].child \in 1..(m - 1)
  BY <1>1, <1>2
<1> QED
  BY <1>3, <1>4 DEF CopyOK

LEMMA CollectedKept ==
    ASSUME NEW T, NEW V, NEW n \in Int, NEW m \in {n, n + 1}, Evolves(T, V, n),
           NEW p \in Pids, Collected(T, n, p)
    PROVE  Collected(V, m, p)
<1>1. p \in Int /\ p < n
  BY DEF Pids, Collected
<1> QED
  BY <1>1 DEF Collected, Evolves

(* What a wait that ends has collected.                                    *)
LEMMA ToldNext ==
    ASSUME LifeInv, Steps
    PROVE  /\ Records' /\ ToldOK(tab', next_pid', told')
           /\ \A p \in Pids : told'[p].n > told[p].n /\ told[p].n > 0 =>
                 \E s \in Slots : tab[s].pc = "copy" /\ tab[s].child = p
<1>1. /\ Base(tab, next_pid, None) /\ Records /\ CopyOK(tab, next_pid)
      /\ ToldOK(tab, next_pid, told) /\ tab \in Tables /\ next_pid \in 2..(MaxPid + 1)
      /\ next_pid \in Int /\ MaxPid \in Nat
  BY ProcAssumption DEF LifeInv, Base
<1>2. /\ Evolves(tab, tab', next_pid) /\ next_pid' \in {next_pid, next_pid + 1}
  BY <1>1, StepsEvolve
<1>3. \A p \in Pids : told[p].n > 0 => Collected(tab', next_pid', p)
  BY <1>1, <1>2, CollectedKept DEF ToldOK
<1>4. ASSUME NEW s \in Slots, NEW status \in Nat, NEW group \in BOOLEAN, Ended(s, status, group)
      PROVE  final' \in [Pids -> [group : BOOLEAN, status : Nat]]
  <2>1. [group |-> group, status |-> status] \in [group : BOOLEAN, status : Nat]
    OBVIOUS
  <2> QED
    BY <1>1, <1>4, <2>1 DEF Ended, Records
<1>5. CASE UNCHANGED <<told, final, misfreed>>
  BY <1>1, <1>3, <1>5 DEF Records, ToldOK
<1>6. ASSUME NEW s \in Slots, StepExit(s) \/ StepClose(s)
      PROVE  final' \in [Pids -> [group : BOOLEAN, status : Nat]] /\ UNCHANGED <<told, misfreed>>
  BY <1>1, <1>4, <1>6 DEF StepExit, StepClose, Records
<1>7. CASE \E s \in Slots : StepExit(s) \/ StepClose(s)
  BY <1>1, <1>3, <1>6, <1>7 DEF Records, ToldOK
<1>8. ASSUME NEW s \in Slots, NEW p \in Slots, Collects(tab, tab', next_pid, s, p),
             NEW pid \in Pids, NEW status \in Nat, UNCHANGED next_pid,
             told' = [told EXCEPT ![pid] = [n |-> @.n + 1, status |-> status]],
             pid < next_pid, \A r \in Used(tab) : tab[r].pid = pid => r = p /\ tab[p].state = "ZOMBIE"
      PROVE  /\ told' \in [Pids -> [n : Nat, status : Nat]] /\ ToldOK(tab', next_pid', told')
             /\ \A q \in Pids \ {pid} : told'[q] = told[q]
  <2>1. told' \in [Pids -> [n : Nat, status : Nat]] /\ \A q \in Pids \ {pid} : told'[q] = told[q]
    <3>1. told[pid].n \in Nat
      BY <1>1 DEF Records
    <3>2. [n |-> told[pid].n + 1, status |-> status] \in [n : Nat, status : Nat]
      BY <3>1
    <3>3. told' = [told EXCEPT ![pid] = [n |-> told[pid].n + 1, status |-> status]]
      BY <1>1, <1>8 DEF Records
    <3> QED
      BY <1>1, <3>2, <3>3 DEF Records
  <2>2. Collected(tab', next_pid', pid)
    <3>0. Collects(tab, tab', next_pid, s, p) /\ Base(tab, next_pid, None)
      BY <1>1, <1>8
    <3>3. CollectsTo(tab, tab', s, p)
      BY <3>0, CollectEvolves
    <3>1. Used(tab') = IF tab[p].state = "ZOMBIE" THEN Used(tab) \ {p} ELSE Used(tab)
      BY <3>3 DEF CollectsTo
    <3>2. \A r \in Used(tab') : tab'[r].pid = tab[r].pid
      BY <1>1, <1>2, <3>1 DEF Evolves
    <3> QED
      BY <1>8, <3>1, <3>2 DEF Collected
  <2> QED
    BY <1>3, <2>1, <2>2 DEF ToldOK
<1>9. ASSUME NEW s \in Slots, StepCollect(s)
      PROVE  /\ Records' /\ ToldOK(tab', next_pid', told')
             /\ \A p \in Pids : told[p].n > 0 => told'[p] = told[p]
  <2>1. PICK p \in Used(tab) :
           /\ IsLeader(tab, p) /\ Reapable(tab, p) /\ Collects(tab, tab', next_pid, s, p)
           /\ told' = [told EXCEPT ![tab[p].pid] = [n |-> @.n + 1, status |-> tab[p].exit_status]]
    BY <1>9 DEF StepCollect, ScanCollects
  <2>2. /\ tab[p].pid \in 1..(next_pid - 1) /\ tab[p].exit_status \in Nat /\ p \in Slots
        /\ tab[p].state = "ZOMBIE" /\ \A r \in Used(tab) : tab[r].pid = tab[p].pid => r = p
    BY <1>1, <2>1 DEF Base, Reapable, Tables, Entries, Used
  <2>3. tab[p].pid \in Pids /\ tab[p].pid < next_pid
    BY <1>1, <2>2 DEF Pids
  <2>4. UNCHANGED <<next_pid, final, misfreed>>
    BY <1>9 DEF StepCollect
  <2>5. /\ told' \in [Pids -> [n : Nat, status : Nat]] /\ ToldOK(tab', next_pid', told')
        /\ \A q \in Pids \ {tab[p].pid} : told'[q] = told[q]
    BY <1>8, <2>1, <2>2, <2>3, <2>4
  <2>6. ~(told[tab[p].pid].n > 0)
    BY <1>1, <2>1, <2>3 DEF ToldOK, Collected
  <2> QED
    BY <1>1, <2>3, <2>4, <2>5, <2>6 DEF Records
<1>10. ASSUME NEW s \in Slots, StepCopied(s)
       PROVE  /\ Records' /\ ToldOK(tab', next_pid', told')
              /\ \A p \in Pids : told'[p] # told[p] => p = tab[s].child
  <2>1. PICK p, c, g : p = tab[s].at /\ c = tab[s].child /\ g = tab[s].got
    OBVIOUS
  <2>2. /\ tab[s].pc = "copy" /\ Collects(tab, tab', next_pid, s, p)
        /\ told' = [told EXCEPT ![c] = [n |-> @.n + 1, status |-> g]]
        /\ UNCHANGED <<next_pid, final>> /\ misfreed' \in BOOLEAN
    BY <1>10, <2>1 DEF StepCopied
  <2>3. p \in Slots /\ g \in Nat /\ c \in 1..(next_pid - 1)
        /\ \A r \in Used(tab) : tab[r].pid = c => r = p /\ tab[p].state = "ZOMBIE"
    BY <1>1, <2>1, <2>2 DEF Tables, Entries, CopyOK, Reapable
  <2>4. c \in Pids /\ c < next_pid
    BY <1>1, <2>3 DEF Pids
  <2>5. /\ told' \in [Pids -> [n : Nat, status : Nat]] /\ ToldOK(tab', next_pid', told')
        /\ \A q \in Pids \ {c} : told'[q] = told[q]
    BY <1>8, <2>2, <2>3, <2>4
  <2> QED
    BY <1>1, <2>1, <2>2, <2>5 DEF Records
<1>11. CASE \E s \in Slots : StepCollect(s)
  BY <1>1, <1>9, <1>11 DEF Records
<1>12. CASE \E s \in Slots : StepCopied(s)
  <2>1. PICK s \in Slots : StepCopied(s)
    BY <1>12
  <2>2. tab[s].pc = "copy"
    BY <2>1 DEF StepCopied
  <2>3. \A p \in Pids : told'[p].n > told[p].n => p = tab[s].child
    BY <1>1, <1>10, <2>1 DEF Records
  <2> QED
    BY <1>10, <2>1, <2>2, <2>3
<1> QED
  BY <1>5, <1>7, <1>11, <1>12 DEF Steps, StepQuiet, StepCreate

LEMMA LifeInit ==
    ASSUME Init
    PROVE  LifeInv
<1>1. /\ tab = [s \in Slots |-> IF s = 0 THEN NewProc(1, 1, None) ELSE Free]
      /\ next_pid = 2
      /\ told = [p \in Pids |-> [n |-> 0, status |-> 0]]
      /\ final = [p \in Pids |-> [group |-> FALSE, status |-> 0]]
      /\ misfreed = FALSE
  BY DEF Init
<1>2. 0 \in Slots /\ None \notin Slots /\ MaxPid \in Nat \ {0} /\ 1 \in 0..MaxPid
  BY SlotFacts, ProcAssumption
<1>3. PICK e : e = NewProc(1, 1, None)
  OBVIOUS
<1>4. /\ e \in Entries /\ e.pid = 1 /\ e.tgid = 1 /\ e.parent = None
      /\ e.state = "RUNNING" /\ e.pc = "user" /\ e.sig = "none" /\ ~e.slept
  BY <1>2, <1>3, FreeFacts
<1>5. Free \in Entries /\ Free.state = "UNUSED" /\ Free.pc = "gone"
  BY FreeFacts
<1>6. tab \in Tables /\ tab[0] = e /\ \A s \in Slots \ {0} : tab[s] = Free
  BY <1>1, <1>2, <1>3, <1>4, <1>5 DEF Tables
<1>7. Used(tab) = {0}
  BY <1>2, <1>4, <1>5, <1>6 DEF Used
<1>8. Base(tab, 2, None)
  <2>1. 2 \in 2..(MaxPid + 1) /\ 1 \in 1..(2 - 1)
    BY <1>2
  <2>2. Init0(tab)
    BY <1>4, <1>6, <1>7 DEF Init0
  <2>3. \A q \in Slots : tab[q].state = "UNUSED" => tab[q] = Free
    BY <1>4, <1>6
  <2>4. \A q \in Used(tab) : tab[q].pid \in 1..(2 - 1) /\ tab[q].tgid \in 1..(2 - 1)
    BY <1>4, <1>6, <1>7, <2>1
  <2>5. \A q \in Slots : /\ tab[q].state # "ZOMBIE" /\ tab[q].pc # "close"
                         /\ q \in Used(tab) => tab[q].pc # "gone"
    BY <1>4, <1>5, <1>6, <1>7
  <2>6. \A q, r \in Used(tab) : r = q /\ IsLeader(tab, r)
    BY <1>4, <1>6, <1>7 DEF IsLeader
  <2> QED
    BY <1>6, <2>1, <2>2, <2>3, <2>4, <2>5, <2>6 DEF Base, Used
<1>9. Records
  <2>1. [n |-> 0, status |-> 0] \in [n : Nat, status : Nat]
        /\ [group |-> FALSE, status |-> 0] \in [group : BOOLEAN, status : Nat]
    OBVIOUS
  <2> QED
    BY <1>1, <2>1 DEF Records
<1>10. CopyOK(tab, 2)
  BY <1>4, <1>5, <1>6 DEF CopyOK
<1>11. ToldOK(tab, 2, told)
  BY <1>1 DEF ToldOK
<1> QED
  BY <1>1, <1>8, <1>9, <1>10, <1>11 DEF LifeInv

LEMMA LifeNext ==
    ASSUME LifeInv, [Next]_vars
    PROVE  LifeInv'
<1>1. Base(tab, next_pid, None) /\ CopyOK(tab, next_pid)
  BY DEF LifeInv
<1>2. Steps
  BY <1>1, NextSteps
<1>3. /\ Evolves(tab, tab', next_pid) /\ CopyFrom(tab, tab')
      /\ Base(tab', next_pid', None) /\ next_pid' \in {next_pid, next_pid + 1}
  BY <1>1, <1>2, StepsEvolve
<1>4. Records' /\ ToldOK(tab', next_pid', told')
  BY <1>2, ToldNext
<1>5. CopyOK(tab', next_pid')
  BY <1>1, <1>3, CopyKept
<1> QED
  BY <1>3, <1>4, <1>5 DEF LifeInv

(* The inductive invariant of the table, the statuses being copied and the *)
(* processes collected.                                                    *)
THEOREM LifeInvariant == Spec => []LifeInv
<1>1. Init => LifeInv
  BY LifeInit
<1>2. LifeInv /\ [Next]_vars => LifeInv'
  BY LifeNext
<1> QED
  BY <1>1, <1>2, PTL DEF Spec

(* Every variable keeps its type and entries in use have different pids,   *)
(* for any size of ptable.                                                 *)
THEOREM TypeCorrect == Spec => []TypeOK
<1>1. LifeInv => TypeOK
  <2> SUFFICES ASSUME LifeInv PROVE TypeOK
    OBVIOUS
  <2>1. /\ tab \in Tables /\ next_pid \in 2..(MaxPid + 1) /\ Records
        /\ \A q, r \in Used(tab) : tab[r].pid = tab[q].pid => r = q
    BY DEF LifeInv, Base
  <2> QED
    BY <2>1 DEF TypeOK, Records, Tables
<1> QED
  BY <1>1, LifeInvariant, PTL

(* A thread that has switched out for the last time leaves a zombie if it  *)
(* is a leader and nothing if it is not, unless a close slept in its exit. *)
THEOREM ExitsReapable == Spec => []ExitedReapable
<1>1. LifeInv => ExitedReapable
  BY SlotFacts DEF LifeInv, Base, ExitedReapable, Used
<1> QED
  BY <1>1, LifeInvariant, PTL

(* A leader's entry is freed only after the leader has switched away.      *)
THEOREM FreedWhenGone == Spec => ReleasedGone
<1>1. LifeInv /\ [Next]_vars =>
        [\A s \in Used(tab) : s \notin Used(tab)' /\ IsLeader(tab, s) => tab[s].pc = "gone"]_vars
  <2> SUFFICES ASSUME LifeInv, [Next]_vars, NEW s \in Used(tab), s \notin Used(tab)',
                      IsLeader(tab, s)
               PROVE  tab[s].pc = "gone"
    OBVIOUS
  <2>1. Evolves(tab, tab', next_pid)
    BY NextSteps, StepsEvolve DEF LifeInv
  <2>2. s \notin Used(tab')
    BY DEF Used
  <2> QED
    BY <2>1, <2>2 DEF Evolves
<1> QED
  BY <1>1, LifeInvariant, PTL DEF Spec, ReleasedGone

(* "the process is collected exactly once": no two waits return the same   *)
(* pid, unless both found it before either had copied its status.          *)
THEOREM WaitsOnce == Spec => CollectedOnce
<1>1. LifeInv /\ [Next]_vars =>
        [\A p \in Pids : told'[p].n > told[p].n /\ told[p].n > 0 =>
            \E s \in Slots : tab[s].pc = "copy" /\ tab[s].child = p]_vars
  BY NextSteps, ToldNext DEF LifeInv
<1> QED
  BY <1>1, LifeInvariant, PTL DEF Spec, CollectedOnce

-----------------------------------------------------------------------------
(* The status a wait returns.                                              *)

(* No thread of process p runs any more.                                   *)
Settled(T, p) == \A q \in Used(T) : T[q].tgid = p => T[q].pc = "gone"

(* The leader's entry holds the status of a group exit from the first one  *)
(* on, and that of the last thread once the process can be collected.      *)
StatusOf(T, F, q) ==
    /\ F[T[q].pid].group <=> T[q].group_exit
    /\ T[q].group_exit \/ Reapable(T, q) => T[q].exit_status = F[T[q].pid].status

Leaders(T, F) == \A q \in Used(T) : IsLeader(T, q) => StatusOf(T, F, q)

(* A group exit is marked on the leader while there is one.                *)
Seconds(T) == \A q, l \in Used(T) : T[l].pid = T[q].tgid /\ l # q => ~T[q].group_exit

StatusOK(T, n, d, F) ==
    /\ Leaders(T, F) /\ Seconds(T)
    /\ \A p \in Pids : p >= n => ~F[p].group
    /\ \A p \in Pids : d[p].n > 0 => d[p].status = F[p].status /\ Settled(T, p)
    /\ \A s \in Slots : T[s].pc = "copy" =>
          T[s].got = F[T[s].child].status /\ Settled(T, T[s].child)

LEMMA SettledKept ==
    ASSUME NEW T, NEW V, NEW n \in Int, Evolves(T, V, n), NEW p \in Int, p < n, Settled(T, p)
    PROVE  Settled(V, p)
BY DEF Settled, Evolves

LEMMA ReapableSettled ==
    ASSUME NEW T, NEW n, Base(T, n, None), NEW q \in Used(T), IsLeader(T, q), Reapable(T, q)
    PROVE  Settled(T, T[q].pid)
<1>1. T[q].state = "ZOMBIE" /\ Alone(T, q) /\ q \in Slots
  BY AloneFacts DEF Used
<1>2. T[q].pc = "gone" /\ T[q].pid = T[q].tgid
  BY <1>1, SlotFacts DEF Base, IsLeader
<1> QED
  BY <1>1, <1>2 DEF Settled, Alone

(* An exit changes the status of a process that still had a thread.        *)
LEMMA EndedFacts ==
    ASSUME Base(tab, next_pid, None), Records, NEW s \in Used(tab), tab[s].pc # "gone",
           NEW status \in Nat, NEW group \in BOOLEAN, Ended(s, status, group)
    PROVE  /\ \A p \in Pids : Settled(tab, p) \/ p >= next_pid => final'[p] = final[p]
           /\ \A p \in Pids : p # tab[s].tgid => final'[p] = final[p]
           /\ final'[tab[s].tgid].group <=> (final[tab[s].tgid].group \/ group)
           /\ final[tab[s].tgid].group => final'[tab[s].tgid].status = final[tab[s].tgid].status
           /\ ~final[tab[s].tgid].group => final'[tab[s].tgid].status = status
<1>1. tab[s].tgid \in 1..(next_pid - 1) /\ next_pid \in 2..(MaxPid + 1) /\ MaxPid \in Nat
  BY ProcAssumption DEF Base
<1>2. PICK t \in Pids : t = tab[s].tgid
  BY <1>1 DEF Pids
<1>3. final' = [final EXCEPT ![t] = IF final[t].group THEN final[t]
                                    ELSE [group |-> group, status |-> status]]
  BY <1>2 DEF Ended, Records
<1>4. \A p \in Pids : p # t => final'[p] = final[p]
  BY <1>3 DEF Records
<1>5. final'[t] = IF final[t].group THEN final[t] ELSE [group |-> group, status |-> status]
  BY <1>3 DEF Records
<1>6. ~Settled(tab, t) /\ ~(t >= next_pid)
  BY <1>1, <1>2 DEF Settled
<1>7. final'[t].group <=> (final[t].group \/ group)
  <2>1. CASE final[t].group
    BY <1>5, <2>1
  <2>2. CASE ~final[t].group
    <3>1. final'[t] = [group |-> group, status |-> status]
      BY <1>5, <2>2
    <3>2. final'[t].group = group
      BY <3>1
    <3> QED
      BY <2>2, <3>2
  <2> QED
    BY <2>1, <2>2
<1> QED
  BY <1>2, <1>4, <1>5, <1>6, <1>7

LEMMA FinalKept ==
    ASSUME Base(tab, next_pid, None), Records, Steps
    PROVE  \A p \in Pids : Settled(tab, p) \/ p >= next_pid => final'[p] = final[p]
<1>1. ASSUME NEW s \in Slots, StepExit(s) \/ StepClose(s), ~(UNCHANGED final)
      PROVE  /\ s \in Used(tab) /\ tab[s].pc # "gone"
             /\ \E status \in Nat, group \in BOOLEAN : Ended(s, status, group)
  BY <1>1 DEF StepExit, StepClose, ExitsBy, ClosesBy, Heads
<1>2. CASE UNCHANGED final
  BY <1>2
<1>3. CASE ~(UNCHANGED final)
  <2>1. PICK s \in Slots : StepExit(s) \/ StepClose(s)
    BY <1>3 DEF Steps, StepQuiet, StepCreate, StepCollect, StepCopied
  <2> QED
    BY <1>1, <1>3, <2>1, EndedFacts
<1> QED
  BY <1>2, <1>3

LEMMA TheLeader ==
    ASSUME NEW T, NEW n, Base(T, n, None), NEW s \in Used(T), NEW l, Leads(T, s, l)
    PROVE  /\ l \in Used(T) /\ T[l].tgid = T[s].tgid
           /\ \A q \in Used(T) : T[q].pid = T[s].tgid => q = l
           /\ l # s => IsLeader(T, l) /\ ~IsLeader(T, s) /\ T[l].pid = T[s].tgid
<1>1. l \in Used(T) /\ l = Leader(T, s)
  BY LeaderFacts DEF Leads
<1>2. ASSUME NEW q \in Used(T), T[q].pid = T[s].tgid PROVE q = l
  <2>1. \A r \in Used(T) : T[r].pid = T[q].pid => r = q
    BY DEF Base
  <2>2. Leader(T, s) = q
    BY <1>2, <2>1, LeaderFacts
  <2> QED
    BY <1>1, <2>2
<1>3. l # s => T[l].pid = T[s].tgid /\ ~IsLeader(T, s)
  BY <1>1, LeaderFacts
<1>4. l # s => IsLeader(T, l)
  BY <1>1, <1>3 DEF Base
<1> QED
  BY <1>1, <1>2, <1>3, <1>4 DEF IsLeader

LEMMA QuietReapable ==
    ASSUME NEW T, NEW V, NEW n, Base(T, n, None), Base(V, n, None), Quiet(T, V)
    PROVE  /\ Used(V) = Used(T)
           /\ \A q \in Used(T) : (IsLeader(V, q) <=> IsLeader(T, q)) /\ (Reapable(V, q) <=> Reapable(T, q))
<1>1. Used(V) = Used(T)
  BY QuietEvolves
<1>2. \A q \in Used(T) : V[q].tgid = T[q].tgid /\ V[q].pid = T[q].pid
                         /\ (V[q].state = "ZOMBIE" <=> T[q].state = "ZOMBIE")
  BY DEF Quiet, Used
<1>3. ASSUME NEW q \in Used(T) PROVE Reapable(V, q) <=> Reapable(T, q)
  <2>1. Reapable(V, q) <=> V[q].state = "ZOMBIE" /\ Alone(V, q)
    BY <1>1, AloneFacts
  <2>2. Reapable(T, q) <=> T[q].state = "ZOMBIE" /\ Alone(T, q)
    BY AloneFacts
  <2>3. Alone(V, q) <=> Alone(T, q)
    BY <1>1, <1>2 DEF Alone
  <2> QED
    BY <1>2, <2>1, <2>2, <2>3
<1> QED
  BY <1>1, <1>2, <1>3 DEF IsLeader

LEMMA QuietStatus ==
    ASSUME NEW T, NEW V, NEW n, NEW F, Base(T, n, None), Base(V, n, None), Quiet(T, V),
           SameStatus(T, V), Leaders(T, F), Seconds(T)
    PROVE  Leaders(V, F) /\ Seconds(V)
<1>1. /\ Used(V) = Used(T)
      /\ \A q \in Used(T) : (IsLeader(V, q) <=> IsLeader(T, q)) /\ (Reapable(V, q) <=> Reapable(T, q))
  BY QuietReapable
<1>2. \A q \in Used(T) : /\ V[q].tgid = T[q].tgid /\ V[q].pid = T[q].pid
                         /\ V[q].exit_status = T[q].exit_status
                         /\ V[q].group_exit <=> T[q].group_exit
  BY DEF Quiet, SameStatus, Used
<1>3. Leaders(V, F)
  BY <1>1, <1>2 DEF Leaders, StatusOf
<1>4. Seconds(V)
  BY <1>1, <1>2 DEF Seconds
<1> QED
  BY <1>3, <1>4

LEMMA CreateStatus ==
    ASSUME NEW T, NEW V, NEW n, NEW F, Base(T, n, None), NEW s, NEW f, NEW tgid, NEW parent,
           Creates(T, V, n, s, f, tgid, parent), Leaders(T, F), Seconds(T), ~F[n].group
    PROVE  Leaders(V, F) /\ Seconds(V)
<1>1. /\ Used(V) = Used(T) \cup {f}
      /\ V[f].pid = n /\ V[f].tgid = tgid /\ V[f].state = "RUNNING" /\ ~V[f].group_exit
      /\ Same(T[s], V[s]) /\ V[s].state = "RUNNING"
  <2>1. parent \in Slots \cup {None} /\ tgid \in 0..MaxPid
    BY CreatesTyped
  <2>2. CreatesTo(T, V, n, s, f, tgid, parent)
    BY <2>1, CreateEvolves
  <2> QED
    BY <2>2 DEF CreatesTo
<1>2. /\ Base(V, n + 1, None) /\ s \in Used(T) /\ f \in Slots \ Used(T)
      /\ \A q \in Slots \ {s, f} : V[q] = T[q]
  BY DEF Creates
<1>3. \A q \in Used(T) : /\ V[q].tgid = T[q].tgid /\ V[q].pid = T[q].pid
                         /\ V[q].exit_status = T[q].exit_status
                         /\ V[q].group_exit = T[q].group_exit
                         /\ V[q].state = "ZOMBIE" => T[q].state = "ZOMBIE"
  BY <1>1, <1>2 DEF Same, Used
<1>4. \A q \in Used(T) : T[q].tgid \in 1..(n - 1) /\ n \in Nat
  BY ProcAssumption DEF Base
<1>5. ASSUME NEW q \in Used(T), Reapable(V, q) PROVE Reapable(T, q)
  <2>1. V[q].state = "ZOMBIE" /\ Alone(V, q)
    BY <1>1, <1>2, <1>5, AloneFacts
  <2>2. T[q].state = "ZOMBIE" /\ Alone(T, q)
    BY <1>1, <1>3, <2>1 DEF Alone
  <2> QED
    BY <2>2, AloneFacts
<1>6. ~Reapable(V, f)
  BY <1>1 DEF Reapable
<1>7. Leaders(V, F)
  <2> SUFFICES ASSUME NEW q \in Used(V), IsLeader(V, q) PROVE StatusOf(V, F, q)
    BY DEF Leaders
  <2>1. CASE q = f
    BY <1>1, <1>6, <2>1 DEF StatusOf
  <2>2. CASE q # f
    <3>1. q \in Used(T) /\ IsLeader(T, q)
      BY <1>1, <1>3, <2>2 DEF IsLeader
    <3>2. StatusOf(T, F, q)
      BY <3>1 DEF Leaders
    <3> QED
      BY <1>3, <1>5, <3>1, <3>2 DEF StatusOf
  <2> QED
    BY <2>1, <2>2
<1>8. Seconds(V)
  <2> SUFFICES ASSUME NEW q \in Used(V), NEW l \in Used(V), V[l].pid = V[q].tgid, l # q
               PROVE  ~V[q].group_exit
    BY DEF Seconds
  <2>1. CASE q = f
    BY <1>1, <2>1
  <2>2. CASE q # f
    <3>1. q \in Used(T) /\ l # f /\ l \in Used(T)
      BY <1>1, <1>3, <1>4, <2>2
    <3> QED
      BY <1>3, <3>1 DEF Seconds
  <2> QED
    BY <2>1, <2>2
<1> QED
  BY <1>7, <1>8

LEMMA CollectStatus ==
    ASSUME NEW T, NEW V, NEW n, NEW F, Base(T, n, None), NEW s, NEW p,
           Collects(T, V, n, s, p), Leaders(T, F), Seconds(T)
    PROVE  Leaders(V, F) /\ Seconds(V)
<1>1. /\ Used(V) = IF T[p].state = "ZOMBIE" THEN Used(T) \ {p} ELSE Used(T)
      /\ \A q \in Used(V) \ {s} : V[q] = T[q]
      /\ Same(T[s], V[s]) /\ V[s].state = "RUNNING"
  <2>1. CollectsTo(T, V, s, p)
    BY CollectEvolves
  <2> QED
    BY <2>1 DEF CollectsTo
<1>2. Base(V, n, None) /\ s \in Used(T) /\ p \in Slots
  BY DEF Collects
<1>3. \A q \in Used(V) : /\ q \in Used(T) /\ V[q].tgid = T[q].tgid /\ V[q].pid = T[q].pid
                         /\ V[q].exit_status = T[q].exit_status
                         /\ V[q].group_exit = T[q].group_exit
                         /\ V[q].state = "ZOMBIE" => T[q].state = "ZOMBIE"
  BY <1>1 DEF Same
<1>4. ASSUME NEW q \in Used(V), IsLeader(V, q), Reapable(V, q) PROVE Reapable(T, q)
  <2>1. V[q].state = "ZOMBIE" /\ Alone(V, q)
    BY <1>2, <1>4, AloneFacts
  <2>2. T[q].state = "ZOMBIE" /\ q \in Used(T) /\ T[q].pid = T[q].tgid
    BY <1>3, <1>4, <2>1 DEF IsLeader
  <2>3. ASSUME NEW r \in Used(T), T[r].tgid = T[q].tgid PROVE r = q
    <3>1. CASE r \in Used(V)
      BY <1>3, <2>1, <2>3, <3>1 DEF Alone
    <3>2. CASE r \notin Used(V)
      <4>1. r = p /\ T[p].state = "ZOMBIE"
        BY <1>1, <3>2
      <4>2. T[r].pid = T[r].tgid
        BY <1>2, <4>1, SlotFacts DEF Base, IsLeader
      <4> QED
        BY <2>2, <2>3, <4>2 DEF Base
    <3> QED
      BY <3>1, <3>2
  <2> QED
    BY <2>2, <2>3, AloneFacts DEF Alone
<1>5. Leaders(V, F)
  <2> SUFFICES ASSUME NEW q \in Used(V), IsLeader(V, q) PROVE StatusOf(V, F, q)
    BY DEF Leaders
  <2>1. q \in Used(T) /\ IsLeader(T, q)
    BY <1>3 DEF IsLeader
  <2>2. StatusOf(T, F, q)
    BY <2>1 DEF Leaders
  <2> QED
    BY <1>3, <1>4, <2>2 DEF StatusOf
<1>6. Seconds(V)
  BY <1>3 DEF Seconds
<1> QED
  BY <1>5, <1>6

(* An exit: only the exiting thread's process changes its status, and its  *)
(* leader's entry follows.                                                 *)
LEMMA ExitSeconds ==
    ASSUME NEW T, NEW U, NEW V, NEW n, NEW s, ExitsBy(T, U, V, s, n), Seconds(T),
           NEW l, Leads(T, s, l), NEW group \in BOOLEAN,
           \A q \in Slots : U[q].group_exit <=> (T[q].group_exit \/ (group /\ q = l))
    PROVE  Seconds(V)
<1>1. PICK k : k = Notify(U, s, l)
  OBVIOUS
<1>2. ExitStep(T, U, V, s, l, k)
  BY <1>1, ExitShape
<1>3. Base(T, n, None) /\ s \in Used(T)
  BY DEF ExitsBy, Heads
<1>4. \A q \in Used(V) : /\ q \in Used(T) /\ V[q].pid = T[q].pid /\ V[q].tgid = T[q].tgid
                         /\ V[q].group_exit <=> U[q].group_exit
  BY <1>2 DEF ExitStep, ExitKept
<1>5. /\ \A q \in Used(T) : T[q].pid = T[s].tgid => q = l
      /\ l \in Used(T) /\ T[l].tgid = T[s].tgid
  BY <1>3, TheLeader
<1> SUFFICES ASSUME NEW q \in Used(V), NEW r \in Used(V), V[r].pid = V[q].tgid, r # q
             PROVE  ~V[q].group_exit
  BY DEF Seconds
<1>6. ~T[q].group_exit
  BY <1>4 DEF Seconds
<1>7. q # l
  BY <1>4, <1>5
<1> QED
  BY <1>4, <1>6, <1>7 DEF Used

LEMMA EndStatus ==
    ASSUME Base(tab, next_pid, None), Records, Leaders(tab, final), Seconds(tab),
           NEW s, NEW U, ExitsBy(tab, U, tab', s, next_pid),
           NEW status \in Nat, NEW group \in BOOLEAN,
           HeadStatus(tab, U, s, Leader(tab, s), group, status), Ended(s, status, group)
    PROVE  Leaders(tab', final') /\ Seconds(tab')
<1>1. PICK l : l = Leader(tab, s)
  OBVIOUS
<1>2. PICK k : k = Notify(U, s, l)
  OBVIOUS
<1>3. Leads(tab, s, l) /\ HeadStatus(tab, U, s, l, group, status)
  BY <1>1 DEF Leads
<1>4. Base(tab', next_pid, None) /\ ExitStep(tab, U, tab', s, l, k) /\ l \in Used(tab)
  BY <1>2, <1>3, ExitShape
<1>5. s \in Used(tab) /\ s \in Slots /\ tab[s].pc # "gone" /\ tab[s].state # "ZOMBIE"
  BY DEF ExitsBy, Heads, Used
<1>6. /\ \A q \in Used(tab) : tab[q].pid = tab[s].tgid => q = l
      /\ l # s => IsLeader(tab, l) /\ ~IsLeader(tab, s) /\ tab[l].pid = tab[s].tgid
      /\ tab[l].tgid = tab[s].tgid
  BY <1>3, <1>5, TheLeader
<1>7. Seconds(tab')
  BY <1>3, ExitSeconds DEF HeadStatus
<1>8. /\ \A p \in Pids : p # tab[s].tgid => final'[p] = final[p]
      /\ final'[tab[s].tgid].group <=> (final[tab[s].tgid].group \/ group)
      /\ final[tab[s].tgid].group => final'[tab[s].tgid].status = final[tab[s].tgid].status
      /\ ~final[tab[s].tgid].group => final'[tab[s].tgid].status = status
  BY <1>5, EndedFacts
<1>9. ASSUME NEW q \in Used(tab'), IsLeader(tab', q) PROVE StatusOf(tab', final', q)
  <2>1. ExitKept(tab, U, tab', s, l, k, q)
    BY <1>4 DEF ExitStep
  <2>2. /\ q \in Used(tab) /\ q \in Slots /\ tab'[q].pid = tab[q].pid /\ tab'[q].tgid = tab[q].tgid
        /\ tab'[q].group_exit <=> (tab[q].group_exit \/ (group /\ q = l))
    BY <1>3, <2>1 DEF ExitKept, HeadStatus, Used
  <2>3. IsLeader(tab, q) /\ tab[q].pid = tab[q].tgid
    BY <1>9, <2>2 DEF IsLeader
  <2>4. StatusOf(tab, final, q)
    BY <2>2, <2>3 DEF Leaders
  <2>5. tab[q].pid \in Pids
    BY <2>2, ProcAssumption DEF Base, Pids
  <2>6. Reapable(tab', q) => (q # s /\ Reapable(tab, q)) \/ (k /\ q = l)
    BY <1>4, <1>9 DEF ExitStep
  <2>7. CASE tab[q].pid # tab[s].tgid
    <3>1. q # s /\ q # l
      BY <1>6, <2>3, <2>7 DEF IsLeader
    <3>2. /\ final'[tab[q].pid] = final[tab[q].pid] /\ tab'[q].exit_status = tab[q].exit_status
          /\ tab'[q].group_exit <=> tab[q].group_exit
          /\ Reapable(tab', q) => Reapable(tab, q)
      BY <1>3, <1>8, <2>1, <2>2, <2>5, <2>6, <2>7, <3>1 DEF ExitKept, HeadStatus
    <3> QED
      BY <2>2, <2>4, <3>2 DEF StatusOf
  <2>8. CASE tab[q].pid = tab[s].tgid
    <3>1. q = l
      BY <1>6, <2>2, <2>8
    <3>2. tab'[q].group_exit <=> (final[tab[q].pid].group \/ group)
      BY <2>2, <2>4, <3>1 DEF StatusOf
    <3>3. final'[tab[q].pid].group <=> tab'[q].group_exit
      BY <1>8, <2>8, <3>2
    <3>4. CASE tab[q].group_exit
      <4>1. tab[q].exit_status = final[tab[q].pid].status /\ final[tab[q].pid].group
        BY <2>4, <3>4 DEF StatusOf
      <4>2. final'[tab[q].pid].status = final[tab[q].pid].status
        BY <1>8, <2>8, <4>1
      <4>3. U[q].group_exit /\ U[q].exit_status = tab[q].exit_status
        BY <1>3, <2>2, <3>1, <3>4 DEF HeadStatus
      <4>4. tab'[q].exit_status = U[q].exit_status
        BY <2>1, <3>1, <4>3 DEF ExitKept
      <4> QED
        BY <2>2, <3>3, <4>1, <4>2, <4>3, <4>4 DEF StatusOf
    <3>5. CASE ~tab[q].group_exit
      <4>1. ~final[tab[q].pid].group /\ final'[tab[q].pid].status = status
        BY <1>8, <2>4, <2>8, <3>5 DEF StatusOf
      <4>2. CASE q = s
        <5>1. tab'[q].exit_status = status
          BY <1>3, <2>1, <3>5, <4>2 DEF ExitKept, HeadStatus
        <5> QED
          BY <2>2, <3>3, <4>1, <5>1 DEF StatusOf
      <4>3. CASE q # s /\ group
        <5>1. U[q].exit_status = status /\ U[q].group_exit
          BY <1>3, <2>2, <3>1, <3>5, <4>3 DEF HeadStatus
        <5>2. tab'[q].exit_status = status
          BY <2>1, <3>1, <4>3, <5>1 DEF ExitKept
        <5> QED
          BY <2>2, <3>3, <4>1, <5>2 DEF StatusOf
      <4>4. CASE q # s /\ ~group
        <5>1. ~tab'[q].group_exit
          BY <2>2, <3>5, <4>4
        <5>2. ASSUME Reapable(tab', q) PROVE tab'[q].exit_status = status
          <6>1. ~Reapable(tab, q)
            BY <1>5, <1>6, <2>2, <3>1, <4>4, AloneFacts DEF Alone
          <6>2. k
            BY <2>6, <5>2, <6>1
          <6>3. ~U[q].group_exit
            BY <1>3, <2>2, <3>5, <4>4 DEF HeadStatus
          <6>4. tab'[q].exit_status = U[s].exit_status
            BY <2>1, <3>1, <4>4, <6>2, <6>3 DEF ExitKept
          <6>5. ~tab[s].group_exit
            BY <1>5, <2>2, <2>8, <4>4 DEF Seconds
          <6> QED
            BY <1>3, <6>4, <6>5 DEF HeadStatus
        <5> QED
          BY <2>2, <3>3, <4>1, <5>1, <5>2 DEF StatusOf
      <4> QED
        BY <4>2, <4>3, <4>4
    <3> QED
      BY <3>4, <3>5
  <2> QED
    BY <2>7, <2>8
<1> QED
  BY <1>7, <1>9 DEF Leaders

LEMMA ResumeStatus ==
    ASSUME NEW T, NEW U, NEW V, NEW n, NEW s, NEW F, ExitsBy(T, U, V, s, n),
           Leaders(T, F), Seconds(T), SameStatus(T, U), U[s].state # "ZOMBIE"
    PROVE  Leaders(V, F) /\ Seconds(V)
<1>1. PICK l : Leads(T, s, l)
  BY DEF Leads
<1>2. PICK k : k = Notify(U, s, l)
  OBVIOUS
<1>3. Base(V, n, None) /\ ExitStep(T, U, V, s, l, k)
  BY <1>1, <1>2, ExitShape
<1>4. Seconds(V)
  <2>1. \A q \in Slots : U[q].group_exit <=> (T[q].group_exit \/ (FALSE /\ q = l))
    BY DEF SameStatus
  <2> QED
    BY <1>1, <2>1, ExitSeconds
<1>5. k => l = s
  BY <1>3 DEF ExitStep
<1>6. ASSUME NEW q \in Used(V), IsLeader(V, q) PROVE StatusOf(V, F, q)
  <2>1. ExitKept(T, U, V, s, l, k, q)
    BY <1>3 DEF ExitStep
  <2>2. /\ q \in Used(T) /\ q \in Slots /\ V[q].pid = T[q].pid /\ V[q].tgid = T[q].tgid
        /\ V[q].group_exit <=> T[q].group_exit
        /\ V[q].exit_status = T[q].exit_status
    BY <1>5, <2>1 DEF ExitKept, SameStatus, Used
  <2>3. IsLeader(T, q)
    BY <1>6, <2>2 DEF IsLeader
  <2>4. StatusOf(T, F, q)
    BY <2>2, <2>3 DEF Leaders
  <2>5. Reapable(V, q) => (q # s /\ Reapable(T, q)) \/ (k /\ q = l)
    BY <1>3, <1>6 DEF ExitStep
  <2>6. q = s => ~Reapable(V, q)
    BY <2>1 DEF ExitKept, Reapable
  <2> QED
    BY <1>5, <2>2, <2>4, <2>5, <2>6 DEF StatusOf
<1> QED
  BY <1>4, <1>6 DEF Leaders

LEMMA CloseStatus ==
    ASSUME Base(tab, next_pid, None), Records, Leaders(tab, final), Seconds(tab),
           NEW s, ClosesBy(tab, tab', s, next_pid), NEW status \in Nat, NEW group \in BOOLEAN,
           HeadStatus(tab, tab', s, Leader(tab, s), group, status), Ended(s, status, group)
    PROVE  Leaders(tab', final') /\ Seconds(tab')
<1>1. PICK l : l = Leader(tab, s)
  OBVIOUS
<1>2. Leads(tab, s, l) /\ HeadStatus(tab, tab', s, l, group, status)
  BY <1>1 DEF Leads
<1>3. s \in Used(tab) /\ s \in Slots /\ tab[s].pc # "gone" /\ tab[s].state # "ZOMBIE"
  BY DEF ClosesBy, Used
<1>4. /\ \A q \in Used(tab) : tab[q].pid = tab[s].tgid => q = l
      /\ l # s => IsLeader(tab, l) /\ ~IsLeader(tab, s) /\ tab[l].pid = tab[s].tgid
      /\ l \in Used(tab) /\ tab[l].tgid = tab[s].tgid
  BY <1>2, <1>3, TheLeader
<1>5. Base(tab', next_pid, None) /\ Quiet(tab, tab')
  BY CloseQuiet DEF QuietStep
<1>6. /\ Used(tab') = Used(tab)
      /\ \A q \in Used(tab) : /\ IsLeader(tab', q) <=> IsLeader(tab, q)
                              /\ Reapable(tab', q) <=> Reapable(tab, q)
  BY <1>5, QuietReapable
<1>7. /\ \A p \in Pids : p # tab[s].tgid => final'[p] = final[p]
      /\ final'[tab[s].tgid].group <=> (final[tab[s].tgid].group \/ group)
      /\ final[tab[s].tgid].group => final'[tab[s].tgid].status = final[tab[s].tgid].status
      /\ ~final[tab[s].tgid].group => final'[tab[s].tgid].status = status
  BY <1>3, EndedFacts
<1>8. \A q \in Used(tab) : /\ q \in Slots /\ tab'[q].pid = tab[q].pid /\ tab'[q].tgid = tab[q].tgid
                           /\ tab'[q].group_exit <=> (tab[q].group_exit \/ (group /\ q = l))
  BY <1>2, <1>5 DEF Quiet, HeadStatus, Used
<1>9. Seconds(tab')
  <2> SUFFICES ASSUME NEW q \in Used(tab), NEW r \in Used(tab), tab'[r].pid = tab'[q].tgid, r # q
               PROVE  ~tab'[q].group_exit
    BY <1>6 DEF Seconds
  <2>1. ~tab[q].group_exit /\ tab[r].pid = tab[q].tgid
    BY <1>8 DEF Seconds
  <2>2. q # l
    BY <1>4, <2>1
  <2> QED
    BY <1>8, <2>1, <2>2
<1>10. ASSUME NEW q \in Used(tab'), IsLeader(tab', q) PROVE StatusOf(tab', final', q)
  <2>1. q \in Used(tab) /\ IsLeader(tab, q) /\ tab[q].pid = tab[q].tgid
    BY <1>6, <1>10 DEF IsLeader
  <2>2. StatusOf(tab, final, q)
    BY <2>1 DEF Leaders
  <2>3. tab[q].pid \in Pids
    BY <2>1, ProcAssumption DEF Base, Pids
  <2>4. CASE tab[q].pid # tab[s].tgid
    <3>1. q # s /\ q # l
      BY <1>4, <2>1, <2>4 DEF IsLeader
    <3>2. /\ final'[tab[q].pid] = final[tab[q].pid] /\ tab'[q].exit_status = tab[q].exit_status
          /\ tab'[q].group_exit <=> tab[q].group_exit
      BY <1>2, <1>7, <1>8, <2>1, <2>3, <2>4, <3>1 DEF HeadStatus
    <3> QED
      BY <1>6, <1>8, <2>1, <2>2, <3>2 DEF StatusOf
  <2>5. CASE tab[q].pid = tab[s].tgid
    <3>1. q = l
      BY <1>4, <2>1, <2>5
    <3>2. ~Reapable(tab', q)
      <4>1. ~Reapable(tab, q)
        BY <1>3, <2>1, <2>5, AloneFacts DEF Alone
      <4> QED
        BY <1>6, <2>1, <4>1
    <3>3. tab'[q].group_exit <=> (final[tab[q].pid].group \/ group)
      BY <1>8, <2>1, <2>2, <3>1 DEF StatusOf
    <3>4. final'[tab[q].pid].group <=> tab'[q].group_exit
      BY <1>7, <2>5, <3>3
    <3>5. CASE tab[q].group_exit
      <4>1. tab[q].exit_status = final[tab[q].pid].status /\ final[tab[q].pid].group
        BY <2>2, <3>5 DEF StatusOf
      <4>2. final'[tab[q].pid].status = final[tab[q].pid].status
        BY <1>7, <2>5, <4>1
      <4>3. tab'[q].exit_status = tab[q].exit_status
        BY <1>2, <1>8, <2>1, <3>1, <3>5 DEF HeadStatus
      <4> QED
        BY <1>8, <2>1, <3>4, <4>1, <4>2, <4>3 DEF StatusOf
    <3>6. CASE ~tab[q].group_exit
      <4>1. final'[tab[q].pid].status = status
        BY <1>7, <2>2, <2>5, <3>6 DEF StatusOf
      <4>2. tab'[q].group_exit => tab'[q].exit_status = status
        BY <1>2, <1>8, <2>1, <3>1, <3>6 DEF HeadStatus
      <4> QED
        BY <1>8, <2>1, <3>2, <3>4, <4>1, <4>2 DEF StatusOf
    <3> QED
      BY <3>5, <3>6
  <2> QED
    BY <2>4, <2>5
<1> QED
  BY <1>9, <1>10 DEF Leaders

LEMMA StatusNext ==
    ASSUME LifeInv, StatusOK(tab, next_pid, told, final), Steps
    PROVE  StatusOK(tab', next_pid', told', final')
<1>1. /\ Base(tab, next_pid, None) /\ Records /\ CopyOK(tab, next_pid)
      /\ ToldOK(tab, next_pid, told) /\ tab \in Tables /\ next_pid \in 2..(MaxPid + 1)
      /\ next_pid \in Int /\ MaxPid \in Nat
  BY ProcAssumption DEF LifeInv, Base
<1>2. /\ Leaders(tab, final) /\ Seconds(tab)
      /\ \A p \in Pids : p >= next_pid => ~final[p].group
      /\ \A p \in Pids : told[p].n > 0 => told[p].status = final[p].status /\ Settled(tab, p)
      /\ \A s \in Slots : tab[s].pc = "copy" =>
            tab[s].got = final[tab[s].child].status /\ Settled(tab, tab[s].child)
  BY DEF StatusOK
<1>3. /\ Evolves(tab, tab', next_pid) /\ CopyFrom(tab, tab')
      /\ Base(tab', next_pid', None) /\ next_pid' \in {next_pid, next_pid + 1}
  BY <1>1, StepsEvolve
<1>4. \A p \in Pids : Settled(tab, p) \/ p >= next_pid => final'[p] = final[p]
  BY <1>1, FinalKept
<1>5. Leaders(tab', final') /\ Seconds(tab')
  <2>1. CASE StepQuiet
    BY <1>1, <1>2, <2>1, QuietStatus DEF StepQuiet, QuietStep
  <2>2. ASSUME NEW s \in Slots, StepCreate(s) PROVE Leaders(tab', final') /\ Seconds(tab')
    <3>1. PICK f, tgid, parent : Creates(tab, tab', next_pid, s, f, tgid, parent)
      BY <2>2 DEF StepCreate
    <3>2. ~final[next_pid].group /\ final' = final
      BY <1>1, <1>2, <2>2, <3>1 DEF Creates, StepCreate
    <3>3. Leaders(tab', final) /\ Seconds(tab')
      BY <1>1, <1>2, <3>1, <3>2, CreateStatus
    <3> QED
      BY <3>2, <3>3
  <2>3. ASSUME NEW s \in Slots, NEW p, Collects(tab, tab', next_pid, s, p), final' = final
        PROVE  Leaders(tab', final') /\ Seconds(tab')
    <3>1. Leaders(tab', final) /\ Seconds(tab')
      BY <1>1, <1>2, <2>3, CollectStatus
    <3> QED
      BY <2>3, <3>1
  <2>4. ASSUME NEW s \in Slots, StepCollect(s) \/ StepCopied(s)
        PROVE  Leaders(tab', final') /\ Seconds(tab')
    BY <2>3, <2>4 DEF StepCollect, ScanCollects, StepCopied
  <2>5. ASSUME NEW s \in Slots, StepExit(s) PROVE Leaders(tab', final') /\ Seconds(tab')
    <3>1. PICK U : /\ ExitsBy(tab, U, tab', s, next_pid)
                   /\ \/ \E status \in Nat, group \in BOOLEAN :
                            /\ HeadStatus(tab, U, s, Leader(tab, s), group, status)
                            /\ Ended(s, status, group)
                      \/ SameStatus(tab, U) /\ U[s].state # "ZOMBIE" /\ UNCHANGED final
      BY <2>5 DEF StepExit
    <3>2. CASE SameStatus(tab, U) /\ U[s].state # "ZOMBIE" /\ UNCHANGED final
      <4>1. Leaders(tab', final) /\ Seconds(tab')
        BY <1>2, <3>1, <3>2, ResumeStatus
      <4> QED
        BY <3>2, <4>1
    <3>3. CASE \E status \in Nat, group \in BOOLEAN :
                  /\ HeadStatus(tab, U, s, Leader(tab, s), group, status)
                  /\ Ended(s, status, group)
      BY <1>1, <1>2, <3>1, <3>3, EndStatus
    <3> QED
      BY <3>1, <3>2, <3>3
  <2>6. ASSUME NEW s \in Slots, StepClose(s) PROVE Leaders(tab', final') /\ Seconds(tab')
    BY <1>1, <1>2, <2>6, CloseStatus DEF StepClose
  <2> QED
    BY <2>1, <2>2, <2>4, <2>5, <2>6 DEF Steps
<1>6. \A p \in Pids : p >= next_pid' => ~final'[p].group
  <2>1. \A p \in Pids : p >= next_pid' => p >= next_pid
    BY <1>1, <1>3 DEF Pids
  <2> QED
    BY <1>2, <1>4, <2>1
<1>7. ASSUME NEW p \in Pids, p < next_pid, Settled(tab, p)
      PROVE  Settled(tab', p) /\ final'[p] = final[p]
  BY <1>1, <1>3, <1>4, <1>7, SettledKept DEF Pids
<1>8. ASSUME NEW q \in Used(tab), IsLeader(tab, q), Reapable(tab, q)
      PROVE  /\ tab[q].pid \in Pids /\ Settled(tab', tab[q].pid)
             /\ final'[tab[q].pid].status = tab[q].exit_status
  <2>1. tab[q].pid \in Pids /\ tab[q].pid < next_pid
    BY <1>1 DEF Base, Pids
  <2>2. Settled(tab, tab[q].pid)
    BY <1>1, <1>8, ReapableSettled
  <2>3. tab[q].exit_status = final[tab[q].pid].status
    BY <1>2, <1>8 DEF Leaders, StatusOf
  <2> QED
    BY <1>7, <2>1, <2>2, <2>3
<1>9. ASSUME NEW s \in Slots, tab[s].pc = "copy"
      PROVE  /\ tab[s].child \in Pids /\ Settled(tab', tab[s].child)
             /\ final'[tab[s].child].status = tab[s].got
  <2>1. tab[s].child \in Pids /\ tab[s].child < next_pid
    BY <1>1, <1>9 DEF CopyOK, Pids
  <2> QED
    BY <1>2, <1>7, <1>9, <2>1
<1>10. ASSUME NEW s \in Slots, tab'[s].pc = "copy"
       PROVE  tab'[s].got = final'[tab'[s].child].status /\ Settled(tab', tab'[s].child)
  <2>1. CASE tab[s].pc = "copy" /\ SameCall(tab[s], tab'[s])
    BY <1>9, <2>1 DEF SameCall
  <2>2. CASE /\ tab'[s].at \in Used(tab) /\ IsLeader(tab, tab'[s].at) /\ Reapable(tab, tab'[s].at)
             /\ tab'[s].child = tab[tab'[s].at].pid /\ tab'[s].got = tab[tab'[s].at].exit_status
    BY <1>8, <2>2
  <2> QED
    BY <1>3, <1>10, <2>1, <2>2 DEF CopyFrom
<1>11. ASSUME NEW p \in Pids, told[p].n > 0
       PROVE  told[p].status = final'[p].status /\ Settled(tab', p)
  <2>1. p < next_pid
    BY <1>1, <1>11 DEF ToldOK, Collected
  <2> QED
    BY <1>2, <1>7, <1>11, <2>1
<1>12. ASSUME NEW pid \in Pids, NEW status,
              told' = [told EXCEPT ![pid] = [n |-> @.n + 1, status |-> status]],
              Settled(tab', pid), final'[pid].status = status
       PROVE  \A p \in Pids : told'[p].n > 0 => told'[p].status = final'[p].status /\ Settled(tab', p)
  <2>1. told'[pid].status = status /\ \A p \in Pids \ {pid} : told'[p] = told[p]
    BY <1>1, <1>12 DEF Records
  <2> QED
    BY <1>11, <1>12, <2>1
<1>13. \A p \in Pids : told'[p].n > 0 => told'[p].status = final'[p].status /\ Settled(tab', p)
  <2>1. CASE told' = told
    BY <1>11, <2>1
  <2>2. ASSUME NEW s \in Slots, StepCollect(s)
        PROVE  \A p \in Pids : told'[p].n > 0 =>
                  told'[p].status = final'[p].status /\ Settled(tab', p)
    <3>1. PICK p \in Used(tab) :
            /\ IsLeader(tab, p) /\ Reapable(tab, p)
            /\ told' = [told EXCEPT ![tab[p].pid] = [n |-> @.n + 1, status |-> tab[p].exit_status]]
      BY <2>2 DEF StepCollect, ScanCollects
    <3> QED
      BY <1>8, <1>12, <3>1
  <2>3. ASSUME NEW s \in Slots, StepCopied(s)
        PROVE  \A p \in Pids : told'[p].n > 0 =>
                  told'[p].status = final'[p].status /\ Settled(tab', p)
    <3>1. /\ tab[s].pc = "copy"
          /\ told' = [told EXCEPT ![tab[s].child] = [n |-> @.n + 1, status |-> tab[s].got]]
      BY <2>3 DEF StepCopied
    <3> QED
      BY <1>9, <1>12, <3>1
  <2> QED
    BY <2>1, <2>2, <2>3 DEF Steps, StepQuiet, StepCreate, StepExit, StepClose
<1> QED
  BY <1>5, <1>6, <1>10, <1>13 DEF StatusOK

LEMMA StatusInit ==
    ASSUME Init
    PROVE  StatusOK(tab, next_pid, told, final)
<1>1. LifeInv /\ next_pid = 2
  BY LifeInit DEF Init
<1>2. /\ told = [p \in Pids |-> [n |-> 0, status |-> 0]]
      /\ final = [p \in Pids |-> [group |-> FALSE, status |-> 0]]
  BY DEF Init
<1>3. 0 \in Slots /\ None \notin Slots /\ 1 \in 0..MaxPid /\ 1 \in Pids
  BY SlotFacts, ProcAssumption DEF Pids
<1>4. tab = [s \in Slots |-> IF s = 0 THEN NewProc(1, 1, None) ELSE Free]
  BY DEF Init
<1>5. PICK e : e = NewProc(1, 1, None)
  OBVIOUS
<1>6. e.pid = 1 /\ e.state = "RUNNING" /\ e.pc = "user" /\ ~e.group_exit
  BY <1>3, <1>5, FreeFacts
<1>7. Free.state = "UNUSED" /\ Free.pc = "gone"
  BY FreeFacts
<1>8. tab[0] = e /\ \A s \in Slots \ {0} : tab[s] = Free
  BY <1>3, <1>4, <1>5
<1>9. Used(tab) = {0}
  BY <1>3, <1>6, <1>7, <1>8 DEF Used
<1>10. \A p \in Pids : ~final[p].group /\ ~(told[p].n > 0)
  BY <1>2
<1>11. Leaders(tab, final)
  BY <1>3, <1>6, <1>8, <1>9, <1>10 DEF Leaders, StatusOf, Reapable
<1>12. Seconds(tab)
  BY <1>9 DEF Seconds
<1>13. \A s \in Slots : tab[s].pc # "copy"
  BY <1>6, <1>7, <1>8
<1> QED
  BY <1>10, <1>11, <1>12, <1>13 DEF StatusOK

(* "and with the group's exit status": whatever a wait has returned for a  *)
(* process is the first group exit's status, or else the last thread's.    *)
THEOREM StatusesRight == Spec => []StatusTold
<1>1. Init => StatusOK(tab, next_pid, told, final)
  BY StatusInit
<1>2. LifeInv /\ StatusOK(tab, next_pid, told, final) /\ [Next]_vars
        => StatusOK(tab, next_pid, told, final)'
  <2> SUFFICES ASSUME LifeInv, StatusOK(tab, next_pid, told, final), [Next]_vars
               PROVE  StatusOK(tab', next_pid', told', final')
    OBVIOUS
  <2>1. Steps
    BY NextSteps DEF LifeInv
  <2> QED
    BY <2>1, StatusNext
<1>3. StatusOK(tab, next_pid, told, final) => StatusTold
  BY DEF StatusOK, StatusTold
<1> QED
  BY <1>1, <1>2, <1>3, LifeInvariant, PTL DEF Spec

-----------------------------------------------------------------------------
(* No exit is missed.                                                      *)

(* Every thread's leader still has its entry; the parent of a process is a *)
(* process's leader; one that can be collected has no children left.       *)
Rooted(T) == \A s \in Used(T) : \E l \in Used(T) : T[l].pid = T[s].tgid

Parents(T) == \A s \in Used(T) \ {0} : T[s].parent \in Used(T) /\ IsLeader(T, T[s].parent)

Orphaned(T) ==
    \A p \in Used(T) : IsLeader(T, p) /\ Reapable(T, p) => \A q \in Used(T) : T[q].parent # p

WaitOK(T, s) ==
    /\ \A p \in Children(T, s, T[s].want) : ~Reapable(T, p)
    /\ T[s].tgid # 1 => Children(T, s, T[s].want) # {}

Waits(T) == \A s \in Slots : T[s].pc = "wait" => WaitOK(T, s)

Tree(T) == Rooted(T) /\ Parents(T) /\ Orphaned(T) /\ Waits(T)

LEMMA TreeQuiet ==
    ASSUME NEW T, NEW V, NEW n, Base(T, n, None), QuietStep(T, V, n), Tree(T)
    PROVE  Tree(V)
<1>1. Base(V, n, None) /\ Quiet(T, V) /\ WaitFrom(T, V)
  BY DEF QuietStep
<1>2. /\ Used(V) = Used(T)
      /\ \A q \in Used(T) : (IsLeader(V, q) <=> IsLeader(T, q)) /\ (Reapable(V, q) <=> Reapable(T, q))
  BY <1>1, QuietReapable
<1>3. \A q \in Slots : V[q].pid = T[q].pid /\ V[q].tgid = T[q].tgid /\ V[q].parent = T[q].parent
  BY <1>1 DEF Quiet
<1>4. Rooted(V) /\ Parents(V) /\ Orphaned(V)
  BY <1>2, <1>3 DEF Tree, Rooted, Parents, Orphaned, Used
<1>5. ASSUME NEW s \in Slots, NEW want PROVE Children(V, s, want) = Children(T, s, want)
  <2>1. T \in Tables
    BY DEF Base
  <2>2. \A p \in Used(T) : T[p].parent \in Slots \cup {None}
    BY <2>1 DEF Tables, Entries, Used
  <2>3. ASSUME NEW p \in Used(T)
        PROVE  (V[p].parent # None /\ V[V[p].parent].tgid = V[s].tgid) <=>
               (T[p].parent # None /\ T[T[p].parent].tgid = T[s].tgid)
    BY <1>3, <2>2 DEF Used
  <2>4. \A p \in Used(T) : V[p].pid = T[p].pid
    BY <1>3 DEF Used
  <2> QED
    BY <1>2, <2>3, <2>4 DEF Children
<1>6. ASSUME NEW s \in Slots, V[s].pc = "wait" PROVE WaitOK(V, s)
  <2>1. PICK cs : cs = Children(T, s, V[s].want)
    OBVIOUS
  <2>2. Children(V, s, V[s].want) = cs
    BY <1>5, <2>1
  <2>3. /\ \A p \in cs : ~Reapable(T, p)
        /\ T[s].tgid # 1 => cs # {}
    <3>1. CASE T[s].pc = "wait" /\ SameCall(T[s], V[s])
      BY <2>1, <3>1 DEF Tree, Waits, WaitOK, SameCall
    <3>2. CASE /\ Children(T, s, V[s].want) # {}
               /\ \A p \in Children(T, s, V[s].want) : ~Reapable(T, p)
      BY <2>1, <3>2
    <3> QED
      BY <1>1, <1>6, <3>1, <3>2 DEF WaitFrom
  <2>4. cs \subseteq Used(T)
    BY <2>1 DEF Children
  <2> QED
    BY <1>2, <1>3, <2>2, <2>3, <2>4 DEF WaitOK
<1> QED
  BY <1>4, <1>6 DEF Tree, Waits

LEMMA TreeCreate ==
    ASSUME NEW T, NEW V, NEW n, Base(T, n, None), NEW s, NEW f, NEW tgid, NEW parent,
           Creates(T, V, n, s, f, tgid, parent), Tree(T)
    PROVE  Tree(V)
<1>1. /\ Used(V) = Used(T) \cup {f}
      /\ V[f].pid = n /\ V[f].tgid = tgid /\ V[f].parent = parent /\ V[f].state = "RUNNING"
      /\ V[f].pc = "user" /\ Same(T[s], V[s]) /\ V[s].state = "RUNNING"
      /\ V[s].pc \in {"user", "ret"}
  <2>1. parent \in Slots \cup {None} /\ tgid \in 0..MaxPid
    BY CreatesTyped
  <2>2. CreatesTo(T, V, n, s, f, tgid, parent)
    BY <2>1, CreateEvolves
  <2> QED
    BY <2>2 DEF CreatesTo
<1>2. /\ Base(V, n + 1, None) /\ s \in Used(T) /\ f \in Slots \ Used(T) /\ T[s].pc = "user"
      /\ \A q \in Slots \ {s, f} : V[q] = T[q]
      /\ \/ tgid = n /\ parent = Leader(T, s)
         \/ tgid = T[s].tgid /\ tgid # 1 /\ parent = T[s].parent
  BY DEF Creates
<1>3. \A q \in Used(T) : /\ V[q].tgid = T[q].tgid /\ V[q].pid = T[q].pid
                         /\ V[q].parent = T[q].parent /\ q \in Slots
                         /\ V[q].state = "ZOMBIE" => T[q].state = "ZOMBIE"
                         /\ V[q].pc = "wait" => V[q] = T[q]
  BY <1>1, <1>2 DEF Same, Used
<1>4. ASSUME NEW q \in Used(T), Reapable(V, q) PROVE Reapable(T, q)
  <2>1. V[q].state = "ZOMBIE" /\ Alone(V, q)
    BY <1>1, <1>2, <1>4, AloneFacts
  <2>2. T[q].state = "ZOMBIE" /\ Alone(T, q)
    BY <1>1, <1>3, <2>1 DEF Alone
  <2> QED
    BY <2>2, AloneFacts
<1>5. ~Reapable(V, f) /\ s \in Slots /\ T[s].state # "ZOMBIE" /\ 0 \in Used(T) /\ f # 0
  BY <1>1, <1>2, LiveFacts, InitProcFacts DEF Reapable, Used
<1>6. Rooted(T) /\ Parents(T) /\ Orphaned(T) /\ Waits(T)
  BY DEF Tree
<1>7. Rooted(V)
  <2> SUFFICES ASSUME NEW q \in Used(V) PROVE \E l \in Used(V) : V[l].pid = V[q].tgid
    BY DEF Rooted
  <2>1. CASE q \in Used(T)
    BY <1>1, <1>3, <1>6, <2>1 DEF Rooted
  <2>2. CASE q = f /\ tgid = n
    BY <1>1, <2>2
  <2>3. CASE q = f /\ tgid = T[s].tgid
    <3>1. \E l \in Used(T) : T[l].pid = tgid
      BY <1>2, <1>6, <2>3 DEF Rooted
    <3> QED
      BY <1>1, <1>3, <2>3, <3>1
  <2> QED
    BY <1>1, <1>2, <2>1, <2>2, <2>3
<1>8. /\ parent \in Used(T) /\ IsLeader(T, parent)
      /\ ~Reapable(T, parent)
  <2>1. CASE parent = Leader(T, s)
    <3>1. PICK r \in Used(T) : T[r].pid = T[s].tgid
      BY <1>2, <1>6 DEF Rooted
    <3>2. Leads(T, s, parent)
      BY <2>1 DEF Leads
    <3>3. parent \in Used(T) /\ T[parent].tgid = T[s].tgid /\ r = parent
      BY <1>2, <3>1, <3>2, TheLeader
    <3>4. ~Reapable(T, parent)
      <4> SUFFICES ASSUME Reapable(T, parent) PROVE FALSE
        OBVIOUS
      <4>1. T[parent].state = "ZOMBIE" /\ Alone(T, parent)
        BY <3>3, AloneFacts
      <4> QED
        BY <1>2, <1>5, <3>3, <4>1 DEF Alone
    <3> QED
      BY <3>1, <3>3, <3>4 DEF IsLeader
  <2>2. CASE tgid = T[s].tgid /\ tgid # 1 /\ parent = T[s].parent
    <3>1. s # 0
      BY <2>2 DEF Base, Init0
    <3>2. parent \in Used(T) /\ IsLeader(T, parent)
      BY <1>2, <1>6, <2>2, <3>1 DEF Parents
    <3> QED
      BY <1>2, <1>6, <2>2, <3>2 DEF Orphaned
  <2> QED
    BY <1>2, <2>1, <2>2
<1>9. Parents(V)
  BY <1>1, <1>3, <1>6, <1>8 DEF Parents, IsLeader
<1>10. Orphaned(V)
  <2> SUFFICES ASSUME NEW p \in Used(V), IsLeader(V, p), Reapable(V, p), NEW q \in Used(V)
               PROVE  V[q].parent # p
    BY DEF Orphaned
  <2>1. p \in Used(T) /\ IsLeader(T, p) /\ Reapable(T, p)
    BY <1>1, <1>3, <1>4, <1>5 DEF IsLeader
  <2>2. CASE q \in Used(T)
    BY <1>3, <1>6, <2>1, <2>2 DEF Orphaned
  <2>3. CASE q = f
    BY <1>1, <1>8, <2>1, <2>3
  <2> QED
    BY <1>1, <2>2, <2>3
<1>11. ASSUME NEW w \in Slots, V[w].pc = "wait" PROVE WaitOK(V, w)
  <2>1. w \in Used(T) /\ V[w] = T[w] /\ w # f /\ w # s
    <3>1. w \in Used(V)
      BY <1>2, <1>11, LiveFacts
    <3> QED
      BY <1>1, <1>3, <1>11, <3>1
  <2>2. WaitOK(T, w)
    BY <1>6, <1>11, <2>1 DEF Waits
  <2>3. PICK want : want = T[w].want
    OBVIOUS
  <2>4. Children(T, w, want) \subseteq Children(V, w, want)
    <3> SUFFICES ASSUME NEW p \in Children(T, w, want) PROVE p \in Children(V, w, want)
      OBVIOUS
    <3>1. /\ p \in Used(T) /\ T[p].parent # None /\ T[T[p].parent].tgid = T[w].tgid
          /\ IsLeader(T, p) /\ want \in {ANY, T[p].pid}
      BY DEF Children
    <3>2. p # 0
      BY <3>1 DEF Base, Init0
    <3>3. T[p].parent \in Used(T)
      BY <1>6, <3>1, <3>2 DEF Parents
    <3> QED
      BY <1>1, <1>3, <2>1, <3>1, <3>3 DEF Children, IsLeader
  <2>5. ASSUME NEW p \in Children(V, w, want) PROVE ~Reapable(V, p)
    <3>1. /\ p \in Used(V) /\ V[p].parent # None /\ V[V[p].parent].tgid = V[w].tgid
          /\ IsLeader(V, p) /\ want \in {ANY, V[p].pid}
      BY <2>5 DEF Children
    <3>2. CASE p = f
      BY <1>5, <3>2
    <3>3. CASE p # f
      <4>1. p \in Used(T) /\ p # 0 /\ IsLeader(T, p)
        BY <1>1, <1>3, <3>1, <3>3 DEF Base, Init0, IsLeader
      <4>2. T[p].parent \in Used(T)
        BY <1>6, <4>1 DEF Parents
      <4>3. p \in Children(T, w, want)
        BY <1>3, <2>1, <3>1, <4>1, <4>2 DEF Children
      <4>4. ~Reapable(T, p)
        BY <2>2, <2>3, <4>3 DEF WaitOK
      <4> QED
        BY <1>4, <4>1, <4>4
    <3> QED
      BY <3>2, <3>3
  <2> QED
    BY <2>1, <2>2, <2>3, <2>4, <2>5 DEF WaitOK
<1> QED
  BY <1>7, <1>9, <1>10, <1>11 DEF Tree, Waits

(* The entry a wait releases is a child's that was ready to be collected.  *)
LEMMA TreeCollect ==
    ASSUME NEW T, NEW V, NEW n, Base(T, n, None), NEW s, NEW p, Collects(T, V, n, s, p), Tree(T),
           T[p].state = "ZOMBIE" => Reapable(T, p)
    PROVE  Tree(V)
<1>1. /\ Used(V) = IF T[p].state = "ZOMBIE" THEN Used(T) \ {p} ELSE Used(T)
      /\ \A q \in Used(V) \ {s} : V[q] = T[q]
      /\ Same(T[s], V[s]) /\ V[s].state = "RUNNING" /\ V[s].pc \in {"user", "ret"}
  <2>1. CollectsTo(T, V, s, p)
    BY CollectEvolves
  <2> QED
    BY <2>1 DEF CollectsTo
<1>2. Base(V, n, None) /\ s \in Used(T) /\ p \in Slots /\ T[s].state # "ZOMBIE" /\ None \notin Slots
      /\ 0 \in Used(T) /\ Init0(T)
  BY SlotFacts, InitProcFacts DEF Collects, Base
<1>3. \A q \in Used(V) : /\ q \in Used(T) /\ V[q].tgid = T[q].tgid /\ V[q].pid = T[q].pid
                         /\ V[q].parent = T[q].parent /\ q \in Slots
                         /\ V[q].state = "ZOMBIE" <=> T[q].state = "ZOMBIE"
                         /\ V[q].pc = "wait" => V[q] = T[q]
  BY <1>1, <1>2 DEF Same, Used
<1>4. Rooted(T) /\ Parents(T) /\ Orphaned(T) /\ Waits(T)
  BY DEF Tree
<1>5. ASSUME NEW q \in Used(T), q \notin Used(V)
      PROVE  /\ q = p /\ Reapable(T, p) /\ IsLeader(T, p) /\ Alone(T, p) /\ T[p].state = "ZOMBIE"
             /\ \A r \in Used(T) : T[r].parent # p
  <2>1. q = p /\ T[p].state = "ZOMBIE"
    BY <1>1, <1>5
  <2>2. Reapable(T, p) /\ IsLeader(T, p) /\ Alone(T, p)
    BY <1>2, <1>5, <2>1, AloneFacts DEF Base
  <2> QED
    BY <1>4, <1>5, <2>1, <2>2 DEF Orphaned
<1>6. ASSUME NEW q \in Used(T), q # p PROVE q \in Used(V)
  BY <1>1, <1>6
<1>7. Rooted(V)
  <2> SUFFICES ASSUME NEW q \in Used(V) PROVE \E l \in Used(V) : V[l].pid = V[q].tgid
    BY DEF Rooted
  <2>1. PICK l \in Used(T) : T[l].pid = T[q].tgid
    BY <1>3, <1>4 DEF Rooted
  <2>2. l \in Used(V)
    <3> SUFFICES ASSUME l \notin Used(V) PROVE FALSE
      OBVIOUS
    <3>1. l = p /\ IsLeader(T, p) /\ Alone(T, p)
      BY <1>5
    <3>2. q = p
      BY <1>3, <2>1, <3>1 DEF Alone, IsLeader
    <3> QED
      BY <3>1, <3>2
  <2> QED
    BY <1>3, <2>1, <2>2
<1>8. ASSUME NEW q \in Used(V), q # 0
      PROVE  T[q].parent \in Used(V) /\ IsLeader(V, T[q].parent)
  <2>1. T[q].parent \in Used(T) /\ IsLeader(T, T[q].parent)
    BY <1>3, <1>4, <1>8 DEF Parents
  <2>2. T[q].parent \in Used(V)
    BY <1>3, <1>5, <2>1
  <2> QED
    BY <1>3, <2>1, <2>2 DEF IsLeader
<1>9. Parents(V)
  BY <1>3, <1>8 DEF Parents
<1>10. ASSUME NEW q \in Used(V), IsLeader(V, q), Reapable(V, q)
       PROVE  IsLeader(T, q) /\ Reapable(T, q)
  <2>1. V[q].state = "ZOMBIE" /\ Alone(V, q)
    BY <1>2, <1>10, AloneFacts
  <2>2. T[q].state = "ZOMBIE" /\ q \in Used(T) /\ T[q].pid = T[q].tgid
    BY <1>3, <1>10, <2>1 DEF IsLeader
  <2>3. ASSUME NEW r \in Used(T), T[r].tgid = T[q].tgid PROVE r = q
    <3>1. CASE r \in Used(V)
      BY <1>3, <2>1, <2>3, <3>1 DEF Alone
    <3>2. CASE r \notin Used(V)
      BY <1>5, <2>2, <2>3, <3>2 DEF Alone
    <3> QED
      BY <3>1, <3>2
  <2> QED
    BY <2>2, <2>3, AloneFacts DEF Alone, IsLeader
<1>11. Orphaned(V)
  BY <1>3, <1>4, <1>10 DEF Orphaned
<1>12. ASSUME NEW w \in Slots, V[w].pc = "wait" PROVE WaitOK(V, w)
  <2>1. w \in Used(V) /\ w \in Used(T) /\ V[w] = T[w]
    <3>1. w \in Used(V)
      BY <1>2, <1>12, LiveFacts
    <3> QED
      BY <1>3, <1>12, <3>1
  <2>2. WaitOK(T, w)
    BY <1>4, <1>12, <2>1 DEF Waits
  <2>3. PICK want : want = T[w].want
    OBVIOUS
  <2>4. ASSUME NEW c \in Used(V)
        PROVE  c \in Children(V, w, want) <=> c \in Children(T, w, want)
    <3>1. CASE c = 0
      BY <1>2, <1>3, <2>4, <3>1 DEF Children, Init0
    <3>2. CASE c # 0
      <4>1. T[c].parent \in Used(V)
        BY <1>8, <2>4, <3>2
      <4>2. V[T[c].parent].tgid = T[T[c].parent].tgid
        BY <1>3, <4>1
      <4> QED
        BY <1>3, <2>1, <2>4, <4>2 DEF Children, IsLeader
    <3> QED
      BY <3>1, <3>2
  <2>5. ASSUME NEW c \in Children(T, w, want) PROVE c \in Used(V)
    <3>1. c \in Used(T) /\ ~Reapable(T, c)
      BY <2>2, <2>3 DEF Children, WaitOK
    <3> QED
      BY <1>5, <3>1
  <2>6. ASSUME NEW c \in Children(V, w, want) PROVE ~Reapable(V, c)
    <3>1. c \in Used(V) /\ IsLeader(V, c)
      BY DEF Children
    <3>2. c \in Children(T, w, want)
      BY <2>4, <3>1
    <3>3. ~Reapable(T, c)
      BY <2>2, <2>3, <3>2 DEF WaitOK
    <3> QED
      BY <1>10, <3>1, <3>3
  <2> QED
    BY <2>1, <2>2, <2>3, <2>4, <2>5, <2>6 DEF WaitOK
<1> QED
  BY <1>7, <1>9, <1>11, <1>12 DEF Tree, Waits

(* An exit: what it frees leads nobody and has no children left, and the   *)
(* parent of the process it ends does not sleep in waitpid.                *)
LEMMA TreeExit ==
    ASSUME NEW T, NEW U, NEW V, NEW s, NEW n, ExitsBy(T, U, V, s, n), Tree(T)
    PROVE  Tree(V)
<1>1. PICK l : Leads(T, s, l)
  BY DEF Leads
<1>2. PICK k : k = Notify(U, s, l)
  OBVIOUS
<1>3. /\ Base(V, n, None) /\ l \in Used(T) /\ T[l].tgid = T[s].tgid
      /\ ExitStep(T, U, V, s, l, k)
  BY <1>1, <1>2, ExitShape
<1>4. /\ Base(T, n, None) /\ s \in Used(T) /\ s \in Slots /\ T[s].pc # "wait"
      /\ Rooted(T) /\ Parents(T) /\ Orphaned(T) /\ Waits(T) /\ None \notin Slots
  BY SlotFacts DEF ExitsBy, Heads, Used, Tree
<1>5. /\ 0 \in Used(V) /\ 0 \in Used(T) /\ Init0(V) /\ Init0(T)
  BY <1>3, <1>4, InitProcFacts DEF Base
<1>6. ASSUME NEW q \in Used(V)
      PROVE  /\ q \in Used(T) /\ q \in Slots /\ V[q].pid = T[q].pid /\ V[q].tgid = T[q].tgid
             /\ V[q].parent = IF k /\ T[q].parent = l THEN 0 ELSE T[q].parent
             /\ IsLeader(V, q) <=> IsLeader(T, q)
  <2>1. ExitKept(T, U, V, s, l, k, q)
    BY <1>3 DEF ExitStep
  <2> QED
    BY <2>1 DEF ExitKept, IsLeader, Used
<1>7. ASSUME NEW q \in Used(T), q \notin Used(V), IsLeader(T, q)
      PROVE  /\ k /\ q # s /\ T[q].parent \in {0, l}
             /\ q = l \/ (Reapable(T, q) /\ Alone(T, q))
  <2>1. q # s
    BY <1>3, <1>7 DEF ExitStep
  <2>2. ExitFreed(T, s, l, k, q)
    BY <1>3, <1>7, <2>1 DEF ExitStep
  <2> QED
    BY <1>4, <2>1, <2>2, AloneFacts DEF ExitFreed
<1>8. ASSUME k, NEW w \in Used(V), w # s, T[w].tgid = T[l].tgid PROVE w = l /\ l # s
  BY <1>3, <1>6, <1>8 DEF ExitStep, LastTwo, Alone
<1>9. k /\ l # s => s \notin Used(V)
  BY <1>3 DEF ExitStep
<1>10. Rooted(V)
  <2> SUFFICES ASSUME NEW q \in Used(V) PROVE \E r \in Used(V) : V[r].pid = V[q].tgid
    BY DEF Rooted
  <2>1. PICK r \in Used(T) : T[r].pid = T[q].tgid
    BY <1>4, <1>6 DEF Rooted
  <2>2. IsLeader(T, r) /\ T[r].tgid = T[q].tgid
    BY <1>4, <1>6, <2>1 DEF Base, IsLeader
  <2>3. r \in Used(V)
    <3> SUFFICES ASSUME r \notin Used(V) PROVE FALSE
      OBVIOUS
    <3>1. k /\ r # s /\ (r = l \/ Alone(T, r))
      BY <1>7, <2>2
    <3>2. q # r
      OBVIOUS
    <3>3. r = l
      BY <1>6, <2>2, <3>1, <3>2 DEF Alone
    <3>4. q # s
      BY <1>9, <3>1, <3>3
    <3> QED
      BY <1>8, <2>2, <3>1, <3>2, <3>3, <3>4
  <2> QED
    BY <1>6, <2>1, <2>3
<1>11. ASSUME NEW q \in Used(V), q # 0
       PROVE  /\ V[q].parent \in Used(V) /\ IsLeader(V, V[q].parent)
              /\ T[q].parent \in Used(T) /\ IsLeader(T, T[q].parent)
  <2>1. T[q].parent \in Used(T) /\ IsLeader(T, T[q].parent)
    BY <1>4, <1>6, <1>11 DEF Parents
  <2>2. CASE k /\ T[q].parent = l
    BY <1>5, <1>6, <2>1, <2>2 DEF Init0, IsLeader
  <2>3. CASE ~(k /\ T[q].parent = l)
    <3>1. V[q].parent = T[q].parent
      BY <1>6, <2>3
    <3>2. T[q].parent \in Used(V)
      <4> SUFFICES ASSUME T[q].parent \notin Used(V) PROVE FALSE
        OBVIOUS
      <4>1. Reapable(T, T[q].parent)
        BY <1>7, <2>1, <2>3
      <4> QED
        BY <1>4, <1>6, <2>1, <4>1 DEF Orphaned
    <3> QED
      BY <1>6, <2>1, <3>1, <3>2
  <2> QED
    BY <2>1, <2>2, <2>3
<1>12. Parents(V)
  BY <1>11 DEF Parents
<1>13. ASSUME NEW p \in Used(V), IsLeader(V, p), Reapable(V, p)
       PROVE  p # 0 /\ IsLeader(T, p) /\ (Reapable(T, p) \/ (k /\ p = l))
  <2>1. Reapable(T, p) \/ (k /\ p = l)
    BY <1>3, <1>13 DEF ExitStep
  <2>2. p # 0
    BY <1>5, <1>13 DEF Init0, Reapable
  <2> QED
    BY <1>6, <1>13, <2>1, <2>2
<1>14. Orphaned(V)
  <2> SUFFICES ASSUME NEW p \in Used(V), IsLeader(V, p), Reapable(V, p), NEW q \in Used(V)
               PROVE  V[q].parent # p
    BY DEF Orphaned
  <2>1. p # 0 /\ IsLeader(T, p) /\ (Reapable(T, p) \/ (k /\ p = l)) /\ p \in Used(T)
    BY <1>6, <1>13
  <2>2. q \in Used(T) /\ V[q].parent = IF k /\ T[q].parent = l THEN 0 ELSE T[q].parent
    BY <1>6
  <2>3. Reapable(T, p) => T[q].parent # p
    BY <1>4, <2>1, <2>2 DEF Orphaned
  <2> QED
    BY <2>1, <2>2, <2>3
<1>15. ASSUME NEW w \in Slots, V[w].pc = "wait" PROVE WaitOK(V, w)
  <2>1. w \in Used(V)
    BY <1>3, <1>15, LiveFacts
  <2>2. ExitKept(T, U, V, s, l, k, w)
    BY <1>3, <2>1 DEF ExitStep
  <2>3. /\ w \in Used(T) /\ w # s /\ T[w].pc = "wait" /\ V[w].want = T[w].want
        /\ V[w].tgid = T[w].tgid
        /\ ~(k /\ l \in Used(V) /\ Leader(T, w) = V[l].parent)
    BY <1>15, <2>2 DEF ExitKept, Wakes, SameCall
  <2>4. WaitOK(T, w)
    BY <1>4, <1>15, <2>3 DEF Waits
  <2>5. PICK want : want = T[w].want
    OBVIOUS
  <2>6. ASSUME NEW c \in Children(V, w, want) PROVE ~Reapable(V, c)
    <3> SUFFICES ASSUME Reapable(V, c) PROVE FALSE
      OBVIOUS
    <3>1. /\ c \in Used(V) /\ V[c].parent # None /\ V[V[c].parent].tgid = V[w].tgid
          /\ IsLeader(V, c) /\ want \in {ANY, V[c].pid}
      BY <2>6 DEF Children
    <3>2. c # 0 /\ IsLeader(T, c) /\ (Reapable(T, c) \/ (k /\ c = l)) /\ c \in Used(T)
      BY <1>6, <1>13, <3>1
    <3>3. /\ V[c].parent \in Used(V) /\ IsLeader(V, V[c].parent)
          /\ T[c].parent \in Used(T)
      BY <1>11, <3>1, <3>2
    <3>4. /\ V[c].parent \in Used(T) /\ IsLeader(T, V[c].parent)
          /\ T[V[c].parent].tgid = T[w].tgid
      BY <1>6, <2>3, <3>1, <3>3
    <3>5. CASE k /\ c = l
      <4>1. PICK m : Leads(T, w, m)
        BY DEF Leads
      <4>2. V[c].parent = m
        BY <1>4, <2>3, <3>4, <4>1, TheLeader DEF IsLeader
      <4> QED
        BY <2>3, <3>1, <3>5, <4>1, <4>2 DEF Leads
    <3>6. CASE Reapable(T, c) /\ ~(k /\ T[c].parent = l)
      <4>1. V[c].parent = T[c].parent /\ V[c].pid = T[c].pid
        BY <1>6, <3>1, <3>6
      <4>2. c \in Children(T, w, want)
        BY <3>1, <3>2, <3>4, <4>1 DEF Children
      <4> QED
        BY <2>4, <2>5, <3>6, <4>2 DEF WaitOK
    <3>7. CASE Reapable(T, c) /\ k /\ T[c].parent = l /\ c # l
      <4>1. T[c].state = "ZOMBIE" /\ Alone(T, c) /\ c # s
        <5>1. T[c].state = "ZOMBIE" /\ Alone(T, c)
          BY <1>4, <3>2, <3>7, AloneFacts
        <5>2. T[s].state # "ZOMBIE"
          BY DEF ExitsBy, Heads
        <5> QED
          BY <5>1, <5>2
      <4>2. ExitFreed(T, s, l, k, c)
        BY <3>2, <3>7, <4>1 DEF ExitFreed
      <4> QED
        BY <1>3, <3>1, <3>2, <4>2 DEF ExitStep
    <3> QED
      BY <3>2, <3>5, <3>6, <3>7
  <2>7. ASSUME T[w].tgid # 1, NEW c \in Children(T, w, want) PROVE c \in Children(V, w, want)
    <3>1. /\ c \in Used(T) /\ T[c].parent # None /\ T[T[c].parent].tgid = T[w].tgid
          /\ IsLeader(T, c) /\ want \in {ANY, T[c].pid}
      BY <2>7 DEF Children
    <3>2. c # 0
      BY <1>5, <3>1 DEF Init0
    <3>3. T[c].parent \in Used(T) /\ IsLeader(T, T[c].parent) /\ T[c].parent # 0
      BY <1>4, <1>5, <2>7, <3>1, <3>2 DEF Parents, Init0
    <3>4. ASSUME k, T[c].parent = l PROVE FALSE
      <4>1. w = l /\ l # s
        BY <1>8, <2>1, <2>3, <3>1, <3>4
      <4>2. T[l].state = "ZOMBIE"
        BY <1>3, <3>4, <4>1 DEF ExitStep
      <4> QED
        BY <1>4, <2>3, <4>1, <4>2, LiveFacts DEF Base
    <3>5. c \in Used(V)
      <4> SUFFICES ASSUME c \notin Used(V) PROVE FALSE
        OBVIOUS
      <4> QED
        BY <1>7, <3>1, <3>3, <3>4
    <3>6. V[c].parent = T[c].parent /\ V[c].pid = T[c].pid /\ IsLeader(V, c)
      BY <1>6, <3>1, <3>4, <3>5
    <3>7. V[c].parent \in Used(V)
      BY <1>11, <3>2, <3>5
    <3> QED
      BY <1>6, <2>3, <3>1, <3>5, <3>6, <3>7 DEF Children
  <2> QED
    BY <2>3, <2>4, <2>5, <2>6, <2>7 DEF WaitOK
<1> QED
  BY <1>10, <1>12, <1>14, <1>15 DEF Tree, Waits

LEMMA TreeNext ==
    ASSUME LifeInv, ~misfreed => Tree(tab), Steps, ~misfreed'
    PROVE  Tree(tab')
<1>1. Base(tab, next_pid, None) /\ CopyOK(tab, next_pid)
  BY DEF LifeInv
<1>2. ~misfreed
  BY DEF Steps, StepQuiet, StepCreate, StepCollect, StepCopied, StepExit, StepClose
<1>3. Tree(tab)
  BY <1>2
<1>4. CASE StepQuiet
  BY <1>1, <1>3, <1>4, TreeQuiet DEF StepQuiet
<1>5. ASSUME NEW s \in Slots, StepCreate(s) PROVE Tree(tab')
  BY <1>1, <1>3, <1>5, TreeCreate DEF StepCreate
<1>6. ASSUME NEW s \in Slots, StepCollect(s) PROVE Tree(tab')
  <2>1. PICK p \in Used(tab) : Collects(tab, tab', next_pid, s, p) /\ Reapable(tab, p)
    BY <1>6 DEF StepCollect, ScanCollects
  <2> QED
    BY <1>1, <1>3, <2>1, TreeCollect
<1>7. ASSUME NEW s \in Slots, StepCopied(s) PROVE Tree(tab')
  <2>1. PICK p : p = tab[s].at
    OBVIOUS
  <2>2. /\ tab[s].pc = "copy" /\ Collects(tab, tab', next_pid, s, p)
        /\ tab[p].state = "ZOMBIE" => tab[p].pid = tab[s].child
    BY <1>7, <2>1 DEF StepCopied
  <2>3. tab[p].state = "ZOMBIE" => Reapable(tab, p)
    BY <1>1, <2>2 DEF CopyOK, Used, Collects
  <2> QED
    BY <1>1, <1>3, <2>2, <2>3, TreeCollect
<1>8. ASSUME NEW s \in Slots, StepExit(s) PROVE Tree(tab')
  BY <1>3, <1>8, TreeExit DEF StepExit
<1>9. ASSUME NEW s \in Slots, StepClose(s) PROVE Tree(tab')
  <2>1. QuietStep(tab, tab', next_pid)
    BY <1>9, CloseQuiet DEF StepClose
  <2> QED
    BY <1>1, <1>3, <2>1, TreeQuiet
<1> QED
  BY <1>4, <1>5, <1>6, <1>7, <1>8, <1>9 DEF Steps

LEMMA TreeInit ==
    ASSUME Init
    PROVE  Tree(tab)
<1>1. 0 \in Slots /\ None \notin Slots /\ 1 \in 0..MaxPid
  BY SlotFacts, ProcAssumption
<1>2. tab = [s \in Slots |-> IF s = 0 THEN NewProc(1, 1, None) ELSE Free]
  BY DEF Init
<1>3. PICK e : e = NewProc(1, 1, None)
  OBVIOUS
<1>4. e.pid = 1 /\ e.tgid = 1 /\ e.state = "RUNNING" /\ e.pc = "user"
  BY <1>1, <1>3, FreeFacts
<1>5. Free.state = "UNUSED" /\ Free.pc = "gone"
  BY FreeFacts
<1>6. tab[0] = e /\ \A s \in Slots \ {0} : tab[s] = Free
  BY <1>1, <1>2, <1>3
<1>7. Used(tab) = {0}
  BY <1>1, <1>4, <1>5, <1>6 DEF Used
<1> QED
  BY <1>1, <1>4, <1>5, <1>6, <1>7 DEF Tree, Rooted, Parents, Orphaned, Waits, Reapable

(* No exit is missed by a thread asleep in waitpid, until a wait whose     *)
(* copy slept has released the entry of another child (sys_waitpid's       *)
(* proc_release after copy_to_user).                                       *)
THEOREM NoWaitLost == Spec => []NoLostWait
<1> DEFINE Good == ~misfreed => Tree(tab)
<1>1. Init => Good
  BY TreeInit
<1>2. LifeInv /\ Good /\ [Next]_vars => Good'
  <2> SUFFICES ASSUME LifeInv, ~misfreed => Tree(tab), [Next]_vars, ~misfreed'
               PROVE  Tree(tab')
    OBVIOUS
  <2>1. Steps
    BY NextSteps DEF LifeInv
  <2> QED
    BY <2>1, TreeNext
<1>3. Good => NoLostWait
  BY DEF Tree, Waits, WaitOK, NoLostWait, Waiting, NothingReady, HasChild
<1> QED
  BY <1>1, <1>2, <1>3, LifeInvariant, PTL DEF Spec
=============================================================================
