----------------------------- MODULE FileLocks ------------------------------
(***************************************************************************)
(* Advisory locks of one file (proc/flock.c): flock(2), POSIX record locks *)
(* and OFD locks, the calls that take and wait for them, and the closing,  *)
(* copying and end of the descriptors and tables they belong to.           *)
(*                                                                         *)
(* A thread is <<table, number>>: the threads of a process share its       *)
(* descriptor table.  flock_lock is held from a call's test for a conflict *)
(* to its sleep or its insertion, so those are one step; a thread asleep   *)
(* on lock_wq is asleep, and runs again once woken.  Locks of other files  *)
(* share only the counts.                                                  *)
(***************************************************************************)
EXTENDS Integers, Sequences, FiniteSets

CONSTANTS
    NTables, NSlots,            \* descriptor tables, and descriptors in each
    ThreadIds,                  \* the threads that share a table
    Uids,                       \* real uids; 0 is root
    OFF_MAX,                    \* the last offset of a file
    Bases, Starts, Lens,        \* what l_whence, l_start and l_len may give
    LOCKS_MAX, LOCKS_PER_UID,
    CloseSleeps,                \* whether a close may wait for the file system
    MaxFids, MaxOps             \* bounds

ASSUME FileLocksAssumption ==
    /\ {NTables, NSlots} \subseteq Nat \ {0}
    /\ Uids \subseteq Nat /\ Uids # {}
    /\ OFF_MAX \in Nat /\ Bases \subseteq 0..OFF_MAX
    /\ Starts \subseteq Int /\ Lens \subseteq Int
    /\ LOCKS_MAX \in Nat /\ LOCKS_PER_UID \in Nat
    /\ CloseSleeps \in BOOLEAN
    /\ MaxFids \in Nat /\ MaxOps \in Nat

Tables == 1..NTables
Threads == Tables \X ThreadIds
Slots == 1..NSlots
None == -1                      \* FD_NONE

VARIABLES
    desc,       \* fid of each descriptor; 0: it has none yet
    alive,      \* tables in use
    uid,        \* real uid of each table's process
    nextFid,    \* next_fid
    locks,      \* the file's list
    nlocks,     \* nlocks
    charged,    \* lock_uids
    pc,         \* a thread is "idle", "asleep", "woken" or "closing"
    req,        \* the lock it waits for, or the descriptor it closes
    raced,      \* auxiliary: owners whose locks a close in progress missed
    ops         \* calls made so far

files == <<desc, alive, uid, nextFid>>
table == <<locks, nlocks, charged>>
vars == <<files, table, pc, req, raced, ops>>

(* A request: as a lock, with the descriptor it came through.              *)
NoReq == [kind |-> "none", owner |-> 0, type |-> "r", s |-> 0, e |-> 0, slot |-> 0, fid |-> 0]

Init ==
    /\ desc = [t \in Tables |-> [f \in Slots |-> IF t = 1 /\ f = 1 THEN 0 ELSE None]]
    /\ alive = {1}
    /\ uid \in {[t \in Tables |-> u] : u \in Uids}
    /\ nextFid = 1
    /\ locks = {} /\ nlocks = 0 /\ charged = [u \in Uids \ {0} |-> 0]
    /\ pc = [th \in Threads |-> "idle"] /\ req = [th \in Threads |-> NoReq]
    /\ raced = {}
    /\ ops = 0

-----------------------------------------------------------------------------
(* The bytes an fcntl call names, as <<first, last>>; none is an error.    *)
LockRange(base, start, len) ==
    LET s == base + start IN
    IF start > 0 /\ base > OFF_MAX - start THEN {}
    ELSE IF s < 0 THEN {}
    ELSE IF len > 0 THEN IF len - 1 > OFF_MAX - s THEN {} ELSE {<<s, s + len - 1>>}
    ELSE IF len < 0 THEN IF len < -s THEN {} ELSE {<<s + len, s - 1>>}
    ELSE {<<s, OFF_MAX>>}

Overlap(l, s, e) == l.s <= e /\ s <= l.e

conflicts(l, r) ==
    /\ (l.kind = "flock") = (r.kind = "flock")
    /\ ~(l.kind = r.kind /\ l.owner = r.owner)
    /\ ~(l.type = "r" /\ r.type = "r")
    /\ Overlap(l, r.s, r.e)

find_conflict(r) == \E l \in locks : conflicts(l, r)

(* The owner's locks over [s, e], and what unlock_range leaves of one.     *)
Hit(kind, owner, s, e) == {l \in locks : l.kind = kind /\ l.owner = owner /\ Overlap(l, s, e)}

(* Mutant: what is left in front reaches one byte too far.                 *)
leftOneMore(l, s, e) ==
    (IF l.s < s THEN {[l EXCEPT !.e = s]} ELSE {})
      \cup (IF l.e > e THEN {[l EXCEPT !.s = e + 1]} ELSE {})

Left(l, s, e) ==
    (IF l.s < s THEN {[l EXCEPT !.e = s - 1]} ELSE {})
      \cup (IF l.e > e THEN {[l EXCEPT !.s = e + 1]} ELSE {})

Punched(hit, s, e) == {l \in hit : l.s < s /\ l.e > e}

(* lock_charge: room for one more of uid u, with n locks and c per uid.    *)
lock_charge(n, c, u) ==
    /\ n < LOCKS_MAX
    /\ u # 0 => c[u] < LOCKS_PER_UID

(* The counts c after d more of uid u.                                     *)
Charge(c, u, d) == [v \in DOMAIN c |-> IF v = u THEN c[v] + d ELSE c[v]]

Count(S, u) == Cardinality({l \in S : l.uid = u})

(* Mutant: waiters are not woken when a lock shrinks.                      *)
wakeOnFree(hit, s, e) ==
    IF \E l \in hit : Left(l, s, e) = {}
    THEN [th \in Threads |-> IF pc[th] = "asleep" THEN "woken" ELSE pc[th]] ELSE pc

(* wake_up(&lock_wq) if a lock went or shrank.                             *)
WakeIf(hit, s, e) ==
    IF hit # {}
    THEN [th \in Threads |-> IF pc[th] = "asleep" THEN "woken" ELSE pc[th]] ELSE pc

(* unlock_range that succeeds, adding the locks new: the pieces come in    *)
(* place of the hit ones, a punched one's tail is charged to its uid.      *)
Replace(hit, s, e, new) ==
    LET pieces == UNION {Left(l, s, e) : l \in hit}
        tails == Punched(hit, s, e)
        gone == {l \in hit : Left(l, s, e) = {}}
    IN  /\ locks' = (locks \ hit) \cup pieces \cup new
        /\ nlocks' = nlocks + Cardinality(tails) + Cardinality(new) - Cardinality(gone)
        /\ charged' = [u \in Uids \ {0} |->
              charged[u] + Count(tails, u) + Count(new, u) - Count(gone, u)]

-----------------------------------------------------------------------------
(* set_lock_locked for the request r of thread th.                         *)

AsLock(th, r) ==
    [kind |-> r.kind, owner |-> r.owner, type |-> r.type, s |-> r.s, e |-> r.e,
     uid |-> uid[th[1]]]

(* Descriptor f of table t is between flock_fd_closed and FD_NONE.         *)
Closing(t, f) == \E i \in ThreadIds : pc[<<t, i>>] = "closing" /\ req[<<t, i>>].slot = f

Raced(th, r) == IF Closing(th[1], r.slot) THEN raced \cup {<<r.kind, r.owner>>} ELSE raced

(* The locks of description fid, which a close that raced may leave.       *)
LeftBy(fid) == {<<k, fid>> : k \in {"flock", "ofd"}}

(* The call returns without a lock.                                        *)
Return(th) ==
    /\ pc' = [pc EXCEPT ![th] = "idle"] /\ req' = [req EXCEPT ![th] = NoReq]
    /\ UNCHANGED <<table, raced>>

(* Mutant: the split of the owner's old lock is not charged.               *)
insertUncharged(th, r) ==
    LET hit == Hit(r.kind, r.owner, r.s, r.e)
        room == lock_charge(nlocks, charged, uid[th[1]])
    IN  \/ ~room /\ Return(th)
        \/ /\ room
           /\ Replace(hit, r.s, r.e, {AsLock(th, r)})
           /\ pc' = [WakeIf(hit, r.s, r.e) EXCEPT ![th] = "idle"]
           /\ req' = [req EXCEPT ![th] = NoReq]
           /\ raced' = Raced(th, r)

(* The new lock is charged first, then what it splits of the old ones.     *)
Insert(th, r) ==
    LET hit == Hit(r.kind, r.owner, r.s, r.e)
        u == uid[th[1]]
        room == /\ lock_charge(nlocks, charged, u)
                /\ \A l \in Punched(hit, r.s, r.e) :
                      lock_charge(nlocks + 1, Charge(charged, u, 1), l.uid)
    IN  \/ ~room /\ Return(th)                          \* -ENOLCK
        \/ /\ room
           /\ Replace(hit, r.s, r.e, {AsLock(th, r)})
           /\ pc' = [WakeIf(hit, r.s, r.e) EXCEPT ![th] = "idle"]
           /\ req' = [req EXCEPT ![th] = NoReq]
           /\ raced' = Raced(th, r)

(* With a conflict: -EAGAIN or -EINTR, or the wait.                        *)
set_lock(th, r) ==
    \/ ~find_conflict(r) /\ Insert(th, r)
    \/ find_conflict(r) /\ Return(th)
    \/ /\ find_conflict(r)
       /\ pc' = [pc EXCEPT ![th] = "asleep"] /\ req' = [req EXCEPT ![th] = r]
       /\ UNCHANGED <<table, raced>>

Unlock(th, kind, owner, s, e) ==
    LET hit == Hit(kind, owner, s, e) IN
    \/ /\ \A l \in Punched(hit, s, e) : lock_charge(nlocks, charged, l.uid)
       /\ Replace(hit, s, e, {})
       /\ pc' = WakeIf(hit, s, e)
       /\ UNCHANGED <<req, raced>>
    \/ /\ \E l \in Punched(hit, s, e) : ~lock_charge(nlocks, charged, l.uid)      \* -ENOLCK
       /\ UNCHANGED <<table, pc, req, raced>>

-----------------------------------------------------------------------------
(* The calls.                                                              *)

Call(th) == th[1] \in alive /\ pc[th] = "idle" /\ ops < MaxOps
Counted == ops' = ops + 1

(* The descriptor's fid, given to it now if it has none and needs one.     *)
Fid(t, f) == IF desc[t][f] = 0 THEN nextFid ELSE desc[t][f]
GiveFid(t, f) ==
    /\ desc[t][f] = 0 => nextFid <= MaxFids
    /\ desc' = [desc EXCEPT ![t][f] = Fid(t, f)]
    /\ nextFid' = IF desc[t][f] = 0 THEN nextFid + 1 ELSE nextFid
    /\ UNCHANGED <<alive, uid>>

(* flock(LOCK_SH or LOCK_EX): a lock of the other type goes first, whether *)
(* or not the new one can be had.                                          *)
flock_bsd(th, f, type) ==
    LET fid == Fid(th[1], f)
        old == Hit("flock", fid, 0, OFF_MAX)
        r == [kind |-> "flock", owner |-> fid, type |-> type, s |-> 0, e |-> OFF_MAX,
              slot |-> f, fid |-> fid]
        blocked == \E l \in locks \ old : conflicts(l, r)
        room == lock_charge(nlocks - Cardinality(old),
                            [u \in Uids \ {0} |-> charged[u] - Count(old, u)], uid[th[1]])
        woken == WakeIf(old, 0, OFF_MAX)
    IN
    /\ Call(th) /\ desc[th[1]][f] # None
    /\ GiveFid(th[1], f)
    /\ \/ /\ \E l \in old : l.type = type
          /\ UNCHANGED <<table, pc, req, raced>>
       \/ /\ \A l \in old : l.type # type
          /\ \/ /\ ~blocked /\ room
                /\ Replace(old, 0, OFF_MAX, {AsLock(th, r)})
                /\ pc' = woken /\ raced' = Raced(th, r) /\ UNCHANGED req
             \/ /\ blocked \/ ~room                     \* -EAGAIN, -EINTR, -ENOLCK
                /\ Replace(old, 0, OFF_MAX, {})
                /\ pc' = woken /\ UNCHANGED <<req, raced>>
             \/ /\ blocked
                /\ Replace(old, 0, OFF_MAX, {})
                /\ pc' = [woken EXCEPT ![th] = "asleep"]
                /\ req' = [req EXCEPT ![th] = r] /\ UNCHANGED raced
    /\ Counted

flock_unlock(th, f) ==
    /\ Call(th) /\ desc[th[1]][f] \notin {None, 0}
    /\ LET hit == Hit("flock", desc[th[1]][f], 0, OFF_MAX) IN
          /\ Replace(hit, 0, OFF_MAX, {})
          /\ pc' = WakeIf(hit, 0, OFF_MAX)
    /\ UNCHANGED <<files, req, raced>>
    /\ Counted

(* fcntl F_SETLK, F_SETLKW and the F_OFD forms.  Only a wait gives a POSIX *)
(* caller's descriptor an fid; giving it one always tells nothing apart.   *)
flock_fcntl(th, f, kind) ==
    \E base \in Bases, start \in Starts, len \in Lens :
      \E g \in LockRange(base, start, len) :
        LET owner == IF kind = "ofd" THEN Fid(th[1], f) ELSE th[1] IN
        /\ Call(th) /\ desc[th[1]][f] # None
        /\ GiveFid(th[1], f)
        /\ \/ Unlock(th, kind, owner, g[1], g[2])
           \/ \E type \in {"r", "w"} :
                set_lock(th, [kind |-> kind, owner |-> owner, type |-> type,
                              s |-> g[1], e |-> g[2], slot |-> f, fid |-> Fid(th[1], f)])
        /\ Counted

(* Mutant: the descriptor is still open, whatever it is open on now.       *)
fdStillOpen(th) == desc[th[1]][req[th].slot] # None

fd_unchanged(th) == desc[th[1]][req[th].slot] = req[th].fid

(* A signal ends the sleep.                                                *)
Interrupted(th) ==
    /\ pc[th] = "asleep"
    /\ pc' = [pc EXCEPT ![th] = "woken"]
    /\ UNCHANGED <<files, table, req, raced, ops>>

(* Mutant: the woken thread takes the lock without another look.           *)
retryNoLook(th) ==
    /\ pc[th] = "woken"
    /\ \/ ~fd_unchanged(th) /\ Return(th)
       \/ fd_unchanged(th) /\ Insert(th, req[th])
    /\ UNCHANGED <<files, ops>>

(* Back from sleep_locked.                                                 *)
Retry(th) ==
    /\ pc[th] = "woken"
    /\ \/ ~fd_unchanged(th) /\ Return(th)               \* -EBADF
       \/ fd_unchanged(th) /\ set_lock(th, req[th])
    /\ UNCHANGED <<files, ops>>

-----------------------------------------------------------------------------
(* Descriptors.                                                            *)

(* fid_in_use, but for descriptor f of table t.                            *)
fid_in_use(d, t, f) ==
    \E q \in alive, g \in Slots : <<q, g>> # <<t, f>> /\ d[q][g] = d[t][f]

(* flock_fd_closed: the table's POSIX locks, and with the description's    *)
(* last descriptor those of its fid.                                       *)
DroppedBy(t, f) ==
    {l \in locks :
        \/ l.kind = "posix" /\ l.owner = t
        \/ l.kind # "posix" /\ l.owner = desc[t][f] /\ ~fid_in_use(desc, t, f)}

(* The descriptor is the last but for ones being closed.                   *)
OthersClosing(t, f) ==
    \A q \in alive, g \in Slots :
        <<q, g>> # <<t, f>> /\ desc[q][g] = desc[t][f] => Closing(q, g)

sys_close(th, f) ==
    LET t == th[1]
        drop == DroppedBy(t, f)
    IN
    /\ Call(th) /\ desc[t][f] # None
    /\ Replace(drop, 0, OFF_MAX, {})
    /\ raced' = IF fid_in_use(desc, t, f) /\ OthersClosing(t, f)
                THEN raced \cup LeftBy(desc[t][f]) ELSE raced
    /\ \/ /\ desc' = [desc EXCEPT ![t][f] = None]
          /\ pc' = WakeIf(drop, 0, OFF_MAX) /\ UNCHANGED req
       \/ /\ CloseSleeps
          /\ pc' = [WakeIf(drop, 0, OFF_MAX) EXCEPT ![th] = "closing"]
          /\ req' = [req EXCEPT ![th] = [NoReq EXCEPT !.slot = f, !.fid = desc[t][f]]]
          /\ UNCHANGED desc
    /\ UNCHANGED <<alive, uid, nextFid>>
    /\ Counted

(* fd_release after vfs_close: the slot is cleared, whatever it is now.    *)
CloseEnd(th) ==
    LET now == desc[th[1]][req[th].slot] IN
    /\ pc[th] = "closing"
    /\ desc' = [desc EXCEPT ![th[1]][req[th].slot] = None]
    /\ pc' = [pc EXCEPT ![th] = "idle"] /\ req' = [req EXCEPT ![th] = NoReq]
    /\ raced' = IF now = req[th].fid THEN raced ELSE raced \cup LeftBy(now)
    /\ UNCHANGED <<alive, uid, nextFid, table, ops>>

sys_open(th, f) ==
    /\ Call(th) /\ desc[th[1]][f] = None
    /\ desc' = [desc EXCEPT ![th[1]][f] = 0]
    /\ UNCHANGED <<alive, uid, nextFid, table, pc, req, raced>>
    /\ Counted

(* dup: fd_copy gives the source an fid first.                             *)
sys_dup(th, f, g) ==
    LET t == th[1] IN
    /\ Call(th) /\ desc[t][f] # None /\ desc[t][g] = None
    /\ desc[t][f] = 0 => nextFid <= MaxFids
    /\ desc' = [desc EXCEPT ![t][f] = Fid(t, f), ![t][g] = Fid(t, f)]
    /\ nextFid' = IF desc[t][f] = 0 THEN nextFid + 1 ELSE nextFid
    /\ UNCHANGED <<alive, uid, table, pc, req, raced>>
    /\ Counted

(* fork: every descriptor is copied, in order, into a table of its own.    *)
do_fork(th, c) ==
    LET t == th[1]
        fresh == {f \in Slots : desc[t][f] = 0}
        given == [f \in Slots |->
                    IF f \in fresh THEN nextFid + Cardinality({g \in fresh : g < f})
                    ELSE desc[t][f]]
    IN
    /\ Call(th) /\ c \notin alive
    /\ nextFid + Cardinality(fresh) <= MaxFids + 1
    /\ desc' = [desc EXCEPT ![t] = given, ![c] = given]
    /\ nextFid' = nextFid + Cardinality(fresh)
    /\ alive' = alive \cup {c} /\ uid' = [uid EXCEPT ![c] = uid[t]]
    /\ UNCHANGED <<table, pc, req, raced>>
    /\ Counted

(* setresuid and its kin: the real uid becomes another of the process's.   *)
do_setresuid(th, u) ==
    /\ Call(th) /\ u # uid[th[1]]
    /\ uid' = [uid EXCEPT ![th[1]] = u]
    /\ UNCHANGED <<desc, alive, nextFid, table, pc, req, raced>>
    /\ Counted

(* What goes with a table: its POSIX locks, and those of descriptions that *)
(* are open nowhere else.                                                  *)
TableDrop(t) ==
    {l \in locks :
        \/ l.kind = "posix" /\ l.owner = t
        \/ /\ l.kind # "posix"
           /\ l.owner \in {desc[t][f] : f \in Slots}
           /\ ~\E q \in alive \ {t}, g \in Slots : desc[q][g] = l.owner}

(* fdtable_put by the last thread of a process: nothing else reaches the   *)
(* table any more, so its closes are one step.                             *)
fdtable_put(t) ==
    LET drop == TableDrop(t) IN
    /\ t \in alive /\ \A i \in ThreadIds : pc[<<t, i>>] = "idle"
    /\ ops < MaxOps
    /\ Replace(drop, 0, OFF_MAX, {})
    /\ raced' = raced \cup UNION {LeftBy(desc[t][f]) : f \in {g \in Slots :
                   /\ desc[t][g] \notin {None, 0}
                   /\ \E q \in alive \ {t}, h \in Slots : desc[q][h] = desc[t][g]
                   /\ \A q \in alive \ {t}, h \in Slots :
                         desc[q][h] = desc[t][g] => Closing(q, h)}}
    /\ pc' = WakeIf(drop, 0, OFF_MAX)
    /\ desc' = [desc EXCEPT ![t] = [f \in Slots |-> None]]
    /\ alive' = alive \ {t}
    /\ UNCHANGED <<uid, nextFid, req>>
    /\ Counted

-----------------------------------------------------------------------------
Next ==
    \/ \E th \in Threads, f \in Slots :
          \/ \E type \in {"r", "w"} : flock_bsd(th, f, type)
          \/ flock_unlock(th, f)
          \/ \E kind \in {"posix", "ofd"} : flock_fcntl(th, f, kind)
          \/ sys_close(th, f) \/ sys_open(th, f)
          \/ \E g \in Slots : sys_dup(th, f, g)
    \/ \E th \in Threads :
          \/ Interrupted(th) \/ Retry(th) \/ CloseEnd(th)
          \/ \E c \in Tables : do_fork(th, c)
          \/ \E u \in Uids : do_setresuid(th, u)
    \/ \E t \in Tables : fdtable_put(t)

Spec == Init /\ [][Next]_vars

-----------------------------------------------------------------------------
Kinds == {"flock", "posix", "ofd"}

(* The type of the state; every lock covers bytes of the file.             *)
TypeOK ==
    /\ desc \in [Tables -> [Slots -> None..MaxFids]]
    /\ alive \subseteq Tables /\ uid \in [Tables -> Uids]
    /\ nextFid \in 1..MaxFids + 1
    /\ \A l \in locks :
          /\ l.kind \in Kinds /\ l.owner \in Nat \ {0} /\ l.type \in {"r", "w"}
          /\ l.uid \in Uids
          /\ 0 <= l.s /\ l.s <= l.e /\ l.e <= OFF_MAX
    /\ pc \in [Threads -> {"idle", "asleep", "woken", "closing"}]
    /\ \A th \in Threads : req[th] = NoReq <=> pc[th] = "idle"
    /\ nlocks \in Nat /\ charged \in [Uids \ {0} -> Nat]

(* No two locks that conflict are held, whatever was waited for, split,    *)
(* converted or inherited on the way.                                      *)
NoConflict == \A l, m \in locks : ~conflicts(l, m)

(* Every lock covers bytes of the file, and an owner's locks of a kind     *)
(* never overlap: a byte has one state.                                    *)
OwnerDisjoint ==
    /\ \A l \in locks : 0 <= l.s /\ l.s <= l.e /\ l.e <= OFF_MAX
    /\ \A l, m \in locks :
          l # m /\ l.kind = m.kind /\ l.owner = m.owner => ~Overlap(l, m.s, m.e)

(* The counts are those of the list and within the limits: nothing leaks   *)
(* charges, whoever's uid changed since.                                   *)
CountsExact ==
    /\ nlocks = Cardinality(locks) /\ nlocks <= LOCKS_MAX
    /\ \A u \in Uids \ {0} : charged[u] = Count(locks, u) /\ charged[u] <= LOCKS_PER_UID

(* A thread sleeps for a lock only while something conflicts with it.      *)
WaiterBlocked == \A th \in Threads : pc[th] = "asleep" => find_conflict(req[th])

(* A lock of an open file description goes with its last descriptor, one   *)
(* of a table with the table.                                              *)
Held(l) ==
    IF l.kind = "posix" THEN l.owner \in alive
    ELSE \E t \in alive, f \in Slots : desc[t][f] = l.owner

(* No lock outlives its owner, through every order of waits, closes,       *)
(* copies, forks and exits, except where a close in progress was raced.    *)
NoStrandedLock == \A l \in locks : Held(l) \/ <<l.kind, l.owner>> \in raced
=============================================================================
