------------------------------ MODULE Orphans -------------------------------
(***************************************************************************)
(* Orphans on disk (fs/ext2.c): files whose last name goes while they are  *)
(* open, files deleted or cut over several journal transactions, the       *)
(* record of them (the orphan file, and when that is full the list from    *)
(* s_last_orphan through i_dtime), and the mount that finishes them.       *)
(*                                                                         *)
(* The journal is what Journal shows it to be: operations change cur, a    *)
(* commit makes cur durable, a crash goes back to dur.  A large operation  *)
(* commits at its own safe points (ext2_jnl_step), so a crash can fall     *)
(* into the middle of one.  fs->lock is held over an operation; job is the *)
(* inode being freed, with the copy of it in memory.                       *)
(*                                                                         *)
(* Sizes are in halves of a block, so that a last block can be partial,    *)
(* and every block is an extent of its own.                                *)
(***************************************************************************)
EXTENDS Integers, FiniteSets

CONSTANTS
    Inodes,         \* inode numbers of files, never 0
    NSlots,         \* entries of the orphan file
    Blocks,         \* blocks of a new file
    MaxOps, MaxCrashes      \* bounds

ASSUME OrphansAssumption ==
    /\ 0 \notin Inodes /\ IsFiniteSet(Inodes)
    /\ NSlots \in Nat /\ Blocks \in Nat \ {0}
    /\ MaxOps \in Nat /\ MaxCrashes \in Nat

Slots == 1..NSlots

VARIABLES
    cur,        \* the metadata with the running transaction
    dur,        \* the metadata as of the last commit
    found,      \* a path led to it, and it is not retained yet
    open,       \* e->refs > 0
    orphan,     \* e->orphan
    closing,    \* closed for the last time, ext2_release_orphan to come
    pc,         \* "idle", "job" (freeing blocks) or "mount"
    job,        \* the inode whose blocks are being freed
    at,         \* where x4_orphan_cleanup is: a slot, or past them the list
    cutoff,     \* auxiliary: inodes whose link in the list a step erased
    stale,      \* auxiliary: retained when their last name had gone
    used        \* how much of each bound is used up

vars == <<cur, dur, found, open, orphan, closing, pc, job, at, cutoff, stale, used>>

(* Blocks of a size, and whole ones (i_size / block_size).                 *)
Ceil(size) == (size + 1) \div 2
Floor(size) == size \div 2

(* torn is auxiliary: a step wrote the inode in the middle of a cut that   *)
(* is not on the record.                                                   *)
File(size) == [used |-> TRUE, links |-> 1, size |-> size, n |-> Ceil(size), next |-> 0,
               torn |-> FALSE]
NoFile == [used |-> FALSE, links |-> 0, size |-> 0, n |-> 0, next |-> 0, torn |-> FALSE]

(* New files fill their last block, or half of it.                         *)
NewFiles == {File(2 * Blocks), File(2 * Blocks - 1)}

(* kind: what the job does at its end; ino, in: the inode and its copy in  *)
(* memory; size: what is left; link: the list after it, as read first.     *)
NoJob == [kind |-> "none", ino |-> 0, in |-> NoFile, size |-> 0, link |-> 0]

Init ==
    /\ \E f \in NewFiles :
          cur = [ino |-> [i \in Inodes |-> f], slot |-> [s \in Slots |-> 0], last |-> 0]
    /\ dur = cur
    /\ open \in SUBSET Inodes /\ found = {} /\ orphan = {} /\ closing = {}
    /\ pc = "idle" /\ job = NoJob /\ at = 0
    /\ cutoff = {} /\ stale = {}
    /\ used = [ops |-> 0, crashes |-> 0]

-----------------------------------------------------------------------------
(* The record.                                                             *)

SlotsOf(M, i) == {s \in Slots : M.slot[s] = i}
First(S) == CHOOSE s \in S : \A t \in S : s <= t

(* The list from inode i on: what every set with i in it that the links do *)
(* not leave has in common.                                                *)
Linked(M, S) == \A j \in S : M.ino[j].next \in Inodes => M.ino[j].next \in S
Chain(M, i) ==
    {j \in Inodes : i \in Inodes /\ \A S \in SUBSET Inodes : i \in S /\ Linked(M, S) => j \in S}

OnRecord(M, i) == SlotsOf(M, i) # {} \/ i \in Chain(M, M.last)

(* x4_orphan_add, and the caller's write of the inode in.                  *)
x4_orphan_add(M, i, in) ==
    IF SlotsOf(M, 0) # {}
    THEN [M EXCEPT !.slot[First(SlotsOf(M, 0))] = i, !.ino[i] = in]
    ELSE [M EXCEPT !.last = i, !.ino[i] = [in EXCEPT !.next = M.last]]

(* Mutant: an inode in the middle of the list is not unlinked from it.     *)
orphanDelHeadOnly(M, i, in) ==
    IF SlotsOf(M, i) # {} THEN [M EXCEPT !.slot[First(SlotsOf(M, i))] = 0]
    ELSE IF M.last = i THEN [M EXCEPT !.last = in.next]
    ELSE M

(* x4_orphan_del.                                                          *)
x4_orphan_del(M, i, in) ==
    IF SlotsOf(M, i) # {} THEN [M EXCEPT !.slot[First(SlotsOf(M, i))] = 0]
    ELSE IF M.last = i THEN [M EXCEPT !.last = in.next]
    ELSE [M EXCEPT !.ino = [j \in Inodes |->
            IF j \in Chain(M, M.last) /\ M.ino[j].next = i
            THEN [M.ino[j] EXCEPT !.next = in.next] ELSE M.ino[j]]]

-----------------------------------------------------------------------------
(* Operations.                                                             *)

CountOp == used.ops < MaxOps /\ used' = [used EXCEPT !.ops = @ + 1]
Idle == pc = "idle" /\ CountOp

(* ext2_op_end: the transaction may be due.                                *)
OpEnd == dur' \in {dur, cur'}

(* The file system is mounted: what needs no more than that does not wait  *)
(* for fs->lock.                                                           *)
MountDone == pc # "mount" /\ job.kind \notin {"fdelete", "fcut"}

(* ext2_create and the write of the file.                                  *)
Create(i) ==
    /\ Idle /\ ~cur.ino[i].used
    /\ \E f \in NewFiles : cur' = [cur EXCEPT !.ino[i] = f]
    /\ stale' = stale \ {i}
    /\ OpEnd
    /\ UNCHANGED <<found, open, orphan, closing, pc, job, at, cutoff>>

(* ext2_finddir finds the file by its name.                                *)
Lookup(i) ==
    /\ MountDone /\ CountOp /\ cur.ino[i].links = 1 /\ i \notin found
    /\ found' = found \cup {i}
    /\ UNCHANGED <<cur, dur, open, orphan, closing, pc, job, at, cutoff, stale>>

(* ext2_retain_node, whatever has become of the file since.                *)
Retain(i) ==
    /\ MountDone /\ i \in found
    /\ found' = found \ {i} /\ open' = open \cup {i}
    /\ stale' = IF i \in open \/ cur.ino[i].links = 1 THEN stale ELSE stale \cup {i}
    /\ UNCHANGED <<cur, dur, orphan, closing, pc, job, at, cutoff, used>>

StartJob(kind, i, in, size) ==
    /\ job' = [kind |-> kind, ino |-> i, in |-> in, size |-> size, link |-> cur.ino[i].next]
    /\ pc' = "job"

(* ext2_put_unlinked: an orphan until the last close, or until its blocks  *)
(* are freed.                                                              *)
ext2_put_unlinked(i, in) ==
    /\ cur' = x4_orphan_add(cur, i, in)
    /\ IF i \in open
       THEN orphan' = orphan \cup {i} /\ OpEnd /\ UNCHANGED <<pc, job>>
       ELSE StartJob("delete", i, cur'.ino[i], 0) /\ UNCHANGED <<dur, orphan>>

Unlink(i) ==
    /\ Idle /\ cur.ino[i].used /\ cur.ino[i].links = 1
    /\ ext2_put_unlinked(i, [cur.ino[i] EXCEPT !.links = 0])
    /\ UNCHANGED <<found, open, closing, at, cutoff, stale>>

(* ext2_close_node, the last reference: up to fs->lock, and with it.       *)
Close(i) ==
    /\ MountDone /\ i \in open
    /\ open' = open \ {i} /\ orphan' = orphan \ {i} /\ stale' = stale \ {i}
    /\ closing' = IF i \in orphan THEN closing \cup {i} ELSE closing
    /\ UNCHANGED <<cur, dur, found, pc, job, at, cutoff, used>>

Release(i) ==
    /\ pc = "idle" /\ i \in closing
    /\ closing' = closing \ {i}
    /\ StartJob("delete", i, cur.ino[i], 0)
    /\ UNCHANGED <<cur, dur, found, open, orphan, at, cutoff, stale, used>>

(* ext2_truncate to size, by somebody who has found or opened the file.  A *)
(* cut of more than a block of a file with a name is recorded first.       *)
Truncate(i, size) ==
    /\ Idle /\ i \in found \cup open /\ size < cur.ino[i].size
    /\ LET orph == /\ cur.ino[i].links = 1 /\ i \notin orphan
                   /\ Floor(size) + 1 < Floor(cur.ino[i].size) IN
       /\ cur' = IF orph THEN x4_orphan_add(cur, i, cur.ino[i]) ELSE cur
       /\ StartJob(IF orph THEN "cut" ELSE "shrink", i, cur'.ino[i], size)
    /\ UNCHANGED <<dur, found, open, orphan, closing, at, cutoff, stale>>

(* sync(2) and the flusher.                                                *)
Sync ==
    /\ pc = "idle" /\ dur # cur
    /\ dur' = cur
    /\ UNCHANGED <<cur, found, open, orphan, closing, pc, job, at, cutoff, stale, used>>

-----------------------------------------------------------------------------
(* Freeing blocks: x4_ext_free_from, from the end backwards.               *)

Keep == Ceil(job.size)
Freed == [job.in EXCEPT !.n = @ - 1]

CutBlock ==
    /\ pc = "job" /\ job.in.n > Keep
    /\ job' = [job EXCEPT !.in = Freed]
    /\ UNCHANGED <<cur, dur, found, open, orphan, closing, pc, at, cutoff, stale, used>>

(* Mutant: the inode of a step keeps the old size.                         *)
writeInodeStepOldSize(in) == in

(* ext2_write_inode_step: the inode of a cut carries the new size.         *)
ext2_write_inode_step(in) == IF job.kind = "cut" THEN [in EXCEPT !.size = job.size] ELSE in

(* The transaction is full and blocks are left to free: the tree is cut    *)
(* back, the inode written and the step committed.                         *)
CutStep ==
    /\ pc = "job" /\ job.in.n > Keep + 1
    /\ job' = [job EXCEPT !.in = Freed]
    /\ cur' = [cur EXCEPT !.ino[job.ino] =
                 [ext2_write_inode_step(Freed) EXCEPT !.torn = (job.kind = "shrink")]]
    /\ dur' = cur'
    /\ cutoff' = IF job.kind = "fcut" /\ at > NSlots
                 THEN cutoff \cup Chain(cur, job.link) ELSE cutoff
    /\ UNCHANGED <<found, open, orphan, closing, pc, at, stale, used>>

(* The rest of ext2_delete_inode; M is cur with the record changed.        *)
Deleted(M) == [M EXCEPT !.ino[job.ino] = NoFile]

(* The rest of ext2_truncate: the inode with the new size.                 *)
Truncated(M, next) ==
    [M EXCEPT !.ino[job.ino] =
        [job.in EXCEPT !.size = job.size, !.next = next, !.torn = FALSE]]

JobEnd ==
    /\ pc = "job" /\ job.in.n <= Keep
    /\ job.kind \in {"delete", "cut", "shrink"}
    /\ cur' = CASE job.kind = "delete" -> Deleted(x4_orphan_del(cur, job.ino, job.in))
                [] job.kind = "cut"    -> Truncated(x4_orphan_del(cur, job.ino, job.in), 0)
                [] job.kind = "shrink" -> Truncated(cur, job.in.next)
    /\ OpEnd
    /\ pc' = "idle" /\ job' = NoJob
    /\ UNCHANGED <<found, open, orphan, closing, at, cutoff, stale, used>>

-----------------------------------------------------------------------------
(* Crash, and x4_orphan_cleanup of the mount: the slots, then the list.    *)

Crash ==
    /\ used.crashes < MaxCrashes
    /\ used' = [used EXCEPT !.crashes = @ + 1]
    /\ cur' = dur
    /\ found' = {} /\ open' = {} /\ orphan' = {} /\ closing' = {} /\ stale' = {}
    /\ job' = NoJob
    /\ pc' = "mount" /\ at' = 1
    /\ UNCHANGED <<dur, cutoff>>

InList == at > NSlots

(* The orphan the cleanup is at, and the record without it.                *)
Entry == IF InList THEN cur.last ELSE cur.slot[at]
Past(M, link) == IF InList THEN [M EXCEPT !.last = link] ELSE [M EXCEPT !.slot[at] = 0]

(* x4_orphan_finish: nothing to do for an inode not in use; one without    *)
(* links is deleted, one with links is cut to its size.                    *)
Finish ==
    /\ pc = "mount" /\ Entry # 0
    /\ LET in == cur.ino[Entry] IN
       /\ cur' = IF in.used THEN cur ELSE Past(cur, in.next)
       /\ IF ~in.used THEN UNCHANGED <<pc, job>>
          ELSE IF in.links = 0 THEN StartJob("fdelete", Entry, in, 0)
          ELSE StartJob("fcut", Entry, [in EXCEPT !.next = 0], in.size)
    /\ UNCHANGED <<dur, found, open, orphan, closing, at, cutoff, stale, used>>

FinishEnd ==
    /\ pc = "job" /\ job.in.n <= Keep
    /\ job.kind \in {"fdelete", "fcut"}
    /\ cur' = Past(IF job.kind = "fdelete" THEN Deleted(cur)
                   ELSE [cur EXCEPT !.ino[job.ino] = job.in], job.link)
    /\ pc' = "mount" /\ job' = NoJob
    /\ UNCHANGED <<dur, found, open, orphan, closing, at, cutoff, stale, used>>

NextSlot ==
    /\ pc = "mount" /\ ~InList /\ Entry = 0
    /\ at' = at + 1
    /\ UNCHANGED <<cur, dur, found, open, orphan, closing, pc, job, cutoff, stale, used>>

(* Mutant: only the orphan file is worked off.                             *)
CleanupEndNoList ==
    /\ pc = "mount" /\ InList
    /\ dur' = cur
    /\ pc' = "idle" /\ at' = 0
    /\ UNCHANGED <<cur, found, open, orphan, closing, job, cutoff, stale, used>>

(* Both records are empty: commit.                                         *)
CleanupEnd ==
    /\ pc = "mount" /\ InList /\ Entry = 0
    /\ dur' = cur
    /\ pc' = "idle" /\ at' = 0
    /\ UNCHANGED <<cur, found, open, orphan, closing, job, cutoff, stale, used>>

-----------------------------------------------------------------------------
Next ==
    \/ \E i \in Inodes : Create(i) \/ Lookup(i) \/ Retain(i) \/ Unlink(i) \/ Close(i) \/ Release(i)
    \/ \E i \in Inodes, size \in 0..(2 * Blocks - 1) : Truncate(i, size)
    \/ Sync \/ CutBlock \/ CutStep \/ JobEnd
    \/ Crash \/ Finish \/ FinishEnd \/ NextSlot \/ CleanupEnd

Spec == Init /\ [][Next]_vars

-----------------------------------------------------------------------------
InodeT == [used : BOOLEAN, links : {0, 1}, size : 0..(2 * Blocks), n : 0..Blocks,
           next : Inodes \cup {0}, torn : BOOLEAN]
MetaT == [ino : [Inodes -> InodeT], slot : [Slots -> Inodes \cup {0}], last : Inodes \cup {0}]

JobT == [kind : {"none", "delete", "cut", "shrink", "fdelete", "fcut"}, ino : Inodes \cup {0},
         in : InodeT, size : 0..(2 * Blocks), link : Inodes \cup {0}]

(* Every variable has its type; a job has its inode.                       *)
TypeOK ==
    /\ cur \in MetaT /\ dur \in MetaT
    /\ orphan \subseteq open /\ open \subseteq Inodes /\ stale \subseteq open
    /\ found \subseteq Inodes /\ closing \subseteq Inodes /\ cutoff \subseteq Inodes
    /\ pc \in {"idle", "job", "mount"} /\ at \in 0..(NSlots + 1)
    /\ job \in JobT
    /\ pc = "job" => job.kind # "none" /\ job.ino # 0
    /\ used \in [ops : 0..MaxOps, crashes : 0..MaxCrashes]

(* An inode that is to be deleted, or has blocks past its size.            *)
Unfinished(in) == in.used /\ (in.links = 0 \/ in.n > Ceil(in.size))

(* "recorded on disk until that is finished": in what a crash goes back    *)
(* to, every inode that is to be deleted or cut is on the record, also in  *)
(* the middle of the mount that works the record off (but for those of     *)
(* cutoff: see NothingLeaked), and the record names no inode that has been *)
(* freed, which a new file may have got since.                             *)
RecordExact ==
    \A i \in Inodes :
        /\ i \notin cutoff /\ Unfinished(dur.ino[i]) => OnRecord(dur, i)
        /\ OnRecord(dur, i) => dur.ino[i].used

(* "nor half-frees them": a file with a name is durable with all the       *)
(* blocks of the size it shows.  The one exception is a cut of two blocks, *)
(* of which the last is partial: it is not recorded (new_size / block_size *)
(* + 1 < isize / block_size is false), and a step in the middle of it      *)
(* leaves the old size with the last, partial block gone, and no more.     *)
NeverHalfFreed ==
    \A i \in Inodes : LET in == dur.ino[i] IN
        in.used /\ in.links > 0 =>
            \/ in.n >= Ceil(in.size)
            \/ in.torn /\ in.n >= Floor(in.size)

(* An unlinked file keeps its inode and its blocks as long as it is open,  *)
(* unless the open that holds it found its name and retained it only after *)
(* the name had gone (stale); and between operations nothing else is       *)
(* unfinished but what a last close is about to release, whatever crashes  *)
(* and mounts came before.                                                 *)
HeldOrFinished ==
    \A i \in Inodes \ cutoff :
       /\ i \in open \ stale => cur.ino[i].used
       /\ pc = "idle" /\ Unfinished(cur.ino[i]) => i \in (open \ stale) \cup closing

(* "so a crash in between neither leaks nor half-frees them".              *)
NothingLeaked ==
    \A i \in Inodes : pc = "idle" /\ Unfinished(cur.ino[i]) => i \in (open \ stale) \cup closing
=============================================================================
