------------------------------ MODULE Journal -------------------------------
(***************************************************************************)
(* The jbd2 journal of fs/ext2.c: metadata collected in a running          *)
(* transaction, the commit (log, commit block, checkpoint), and the replay *)
(* of a mount after a crash, at any block write, of the replay itself too. *)
(*                                                                         *)
(* A step is one block written.  The block layer writes in program order   *)
(* and every write is durable when it returns (the drivers flush the disk  *)
(* cache).  fs->lock is held over a whole operation with its commit, so    *)
(* there is one writer at a time: phase is where it is.                    *)
(*                                                                         *)
(* Metadata is cut down to one block per name, which holds the number of   *)
(* the block with the contents (directory entry and inode in one), and one *)
(* bitmap.  Files are one block long; the steps in which a larger one is   *)
(* cut are in Orphans.                                                     *)
(***************************************************************************)
EXTENDS Integers, Sequences, FiniteSets, FiniteSetsExt

CONSTANTS
    Files,
    DataBlocks,         \* data blocks
    Vers,           \* contents
    None, Bitmap,
    Cap,            \* j->cap
    TagsPer,        \* tags that fit into one descriptor block
    ReplayWrites,   \* outcomes of a block write of the replay
    MaxCalls, MaxCuts, MaxFaults   \* bounds

ASSUME JournalAssumption ==
    /\ IsFiniteSet(Files) /\ Bitmap \notin Files
    /\ None \notin DataBlocks \cup Vers /\ Vers # {}
    /\ Cap \in Nat \ {0} /\ TagsPer \in Nat \ {0}
    /\ ReplayWrites \subseteq BOOLEAN
    /\ MaxCalls \in Nat /\ MaxCuts \in Nat /\ MaxFaults \in Nat

Meta == Files \cup {Bitmap}

VARIABLES
    disk,       \* the metadata blocks in place
    data,       \* the data blocks
    jsb,        \* s_start and s_sequence of the journal superblock
    log,        \* the journal blocks from j->first on
    tx,         \* j->tblk, j->tdata: the running transaction, in order
    freed,      \* j->fstart, j->flen: blocks it freed
    seq,        \* j->seq
    ro,
    phase, k,      \* the writer, and the block it writes next
    op, todo,   \* the operation in progress, and its steps still to do
    seen,       \* auxiliary: the tree as of the last finished operation
    spent       \* how much of each bound is used up

jnlVars == <<disk, data, jsb, log, tx, freed, seq, ro, phase, k, op, todo, seen, spent>>

persistent == <<disk, data, jsb, log>>
volatile   == <<tx, freed, seq, ro>>

-----------------------------------------------------------------------------
(* Contents of the metadata.                                               *)

(* The writes w, in order, over the metadata M.                            *)
Overlay(M, w) ==
    [m \in Meta |->
       LET at == {i \in DOMAIN w : w[i].blk = m}
       IN  IF at = {} THEN M[m] ELSE w[Max(at)].val]

(* ext2_read_block looks into the running transaction first.               *)
Cur == Overlay(disk, tx)

Tree(M) == [f \in Files |-> M[f]]

-----------------------------------------------------------------------------
(* The log.                                                                *)

Record(t, s, tags, val) == [t |-> t, seq |-> s, tags |-> tags, val |-> val]
NoRecord == Record("none", 0, <<>>, None)

LogLen == 2 * Cardinality(Meta) + 1

(* What ext2_jnl_commit writes: descriptors, each followed by the copies   *)
(* of the up to TagsPer blocks it names, and the commit block.             *)
Descriptors(n) == (n + TagsPer - 1) \div TagsPer
LogSize(w) == Len(w) + Descriptors(Len(w)) + 1

Tags(w, done) == [x \in 1..Min({TagsPer, Len(w) - done}) |-> w[done + x].blk]

LogImage(w, s) ==
    [p \in 1..LogSize(w) |->
       LET done == TagsPer * ((p - 1) \div (TagsPer + 1))
           x == (p - 1) % (TagsPer + 1)
       IN  IF p = LogSize(w) THEN Record("commit", s, <<>>, None)
           ELSE IF x = 0 THEN Record("desc", s, Tags(w, done), None)
           ELSE Record("data", 0, <<>>, w[done + x].val)]

(* Mutant: the scan takes a block of any transaction.                      *)
IsHeaderAnySeq(L, p, t, s) == p <= LogLen /\ L[p].t = t

(* A header of transaction s at p.  A copy is never taken for one: a block *)
(* that begins with the magic is escaped.                                  *)
IsHeader(L, p, t, s) == p <= LogLen /\ L[p].t = t /\ L[p].seq = s

(* The blocks the descriptor at p names.                                   *)
NTags(L, p) == Len(L[p].tags)

(* ext2_jnl_scan, pass 0: the transaction after the last complete one, at  *)
(* block p in transaction s with g rounds of the guard left.               *)
ScanEnd(L, s0) ==
    LET scan[g \in 0..LogLen] == [p \in Nat |-> [s \in Nat |->
          IF g = 0 THEN s
          ELSE IF IsHeader(L, p, "desc", s) THEN scan[g - 1][p + 1 + NTags(L, p)][s]
          ELSE IF IsHeader(L, p, "commit", s) THEN scan[g - 1][p + 1][s + 1]
          ELSE s]]
    IN  scan[LogLen][1][s0]

(* Pass 1: the blocks it writes, up to transaction end.                    *)
Copies(L, p) == [x \in 1..NTags(L, p) |-> [blk |-> L[p].tags[x], val |-> L[p + x].val]]

Replays(L, s0, end) ==
    LET scan[g \in 0..LogLen] == [p \in Nat |-> [s \in Nat |->
          IF g = 0 \/ s = end THEN <<>>
          ELSE IF IsHeader(L, p, "desc", s)
          THEN Copies(L, p) \o scan[g - 1][p + 1 + NTags(L, p)][s]
          ELSE IF IsHeader(L, p, "commit", s) THEN scan[g - 1][p + 1][s + 1]
          ELSE <<>>]]
    IN  scan[LogLen][1][s0]

(* ext2_jnl_recover: an empty log has no start.                            *)
RecoverWrites ==
    IF jsb.start = 0 THEN <<>> ELSE Replays(log, jsb.seq, ScanEnd(log, jsb.seq))

(* The metadata a mount would find now.                                    *)
Recovered == Overlay(disk, RecoverWrites)

-----------------------------------------------------------------------------
NoOp == [kind |-> "none"]

JnlInit ==
    /\ disk = [m \in Meta |-> IF m = Bitmap THEN {} ELSE None]
    /\ data \in [DataBlocks -> {CHOOSE v \in Vers : TRUE}]
    /\ jsb = [start |-> 0, seq |-> 1]
    /\ log = [p \in 1..LogLen |-> NoRecord]
    /\ tx = <<>> /\ freed = {} /\ seq = 1 /\ ro = FALSE
    /\ phase = "idle" /\ k = 0
    /\ op = NoOp /\ todo = <<>>
    /\ seen = Tree(disk)
    /\ spent = [ops |-> 0, crashes |-> 0, faults |-> 0]

Fault == spent.faults < MaxFaults /\ spent' = [spent EXCEPT !.faults = @ + 1]

-----------------------------------------------------------------------------
(* Operations, as the steps they take under fs->lock.                      *)

Put(m, val)  == [s |-> "put", blk |-> m, val |-> val]
Write(b, v)  == [s |-> "data", blk |-> b, val |-> v]
Free(b)      == [s |-> "free", blk |-> b, val |-> Cur[Bitmap] \ {b}]

(* Mutant: blocks freed by the running transaction are taken again.        *)
FreeBlocksAll == DataBlocks \ Cur[Bitmap]

(* ext2_alloc_block_goal_once: not a block the running transaction freed,  *)
(* which the last committed state may still point at.                      *)
FreeBlocks == (DataBlocks \ Cur[Bitmap]) \ freed

(* ext2_write_node_do: the contents go straight to the disk.               *)
WriteSteps(f, v) ==
    IF Cur[f] # None THEN {<<Write(Cur[f], v), Put(f, Cur[f])>>}
    ELSE {<<Put(Bitmap, Cur[Bitmap] \cup {b}), Write(b, v), Put(f, b)>> : b \in FreeBlocks}

(* ext2_truncate_do, to nothing.                                           *)
TruncateSteps(f) == <<Free(Cur[f]), Put(f, None)>>

(* ext2_rename_do: the new name, the old name, the replaced object.        *)
RenameSteps(f, g) ==
    <<Put(g, Cur[f]), Put(f, None)>> \o (IF Cur[g] = None THEN <<>> ELSE <<Free(Cur[g])>>)

Begin(o, steps) ==
    /\ phase = "idle" /\ ~ro
    /\ spent.ops < MaxCalls
    /\ spent' = [spent EXCEPT !.ops = @ + 1]
    /\ op' = o /\ todo' = steps /\ phase' = "op"
    /\ UNCHANGED <<persistent, volatile, k, seen>>

BeginWrite(f, v) ==
    \E steps \in WriteSteps(f, v) : Begin([kind |-> "write", f |-> f, v |-> v], steps)

BeginTruncate(f) ==
    /\ Cur[f] # None
    /\ Begin([kind |-> "truncate", f |-> f], TruncateSteps(f))

BeginRename(f, g) ==
    /\ f # g /\ Cur[f] # None
    /\ Begin([kind |-> "rename", f |-> f, g |-> g], RenameSteps(f, g))

(* ext2_write_node: full but for what the running transaction freed, so    *)
(* commit and try once more.                                               *)
BeginReclaim(f, v) ==
    /\ phase = "idle" /\ ~ro
    /\ WriteSteps(f, v) = {} /\ freed # {} /\ tx # <<>>
    /\ spent.ops < MaxCalls
    /\ spent' = [spent EXCEPT !.ops = @ + 1]
    /\ op' = [kind |-> "write", f |-> f, v |-> v]
    /\ phase' = "sb1"
    /\ UNCHANGED <<persistent, volatile, k, todo, seen>>

Retry ==
    /\ phase = "retry"
    /\ \E steps \in WriteSteps(op.f, op.v) : todo' = steps
    /\ phase' = "op"
    /\ UNCHANGED <<persistent, volatile, k, op, seen, spent>>

(* ext2_jt_put.                                                            *)
JtPut(m, val) ==
    LET at == {i \in DOMAIN tx : tx[i].blk = m} IN
    IF at = {} THEN Append(tx, [blk |-> m, val |-> val])
    ELSE [tx EXCEPT ![Max(at)].val = val]

StepPut ==
    /\ phase = "op" /\ todo # <<>> /\ Head(todo).s \in {"put", "free"}
    /\ tx' = JtPut(IF Head(todo).s = "free" THEN Bitmap ELSE Head(todo).blk, Head(todo).val)
    /\ freed' = IF Head(todo).s = "free" THEN freed \cup {Head(todo).blk} ELSE freed
    /\ todo' = Tail(todo)
    /\ UNCHANGED <<persistent, seq, ro, phase, k, op, seen, spent>>

(* ext2_write_data.                                                        *)
StepData ==
    /\ phase = "op" /\ todo # <<>> /\ Head(todo).s = "data"
    /\ data' = [data EXCEPT ![Head(todo).blk] = Head(todo).val]
    /\ todo' = Tail(todo)
    /\ UNCHANGED <<disk, jsb, log, volatile, phase, k, op, seen, spent>>

(* No memory for the block, or no room for it in the journal: the journal  *)
(* aborts and the operation fails; what it has put is never written.       *)
StepFails ==
    /\ phase = "op" /\ todo # <<>> /\ Head(todo).s \in {"put", "free"}
    /\ Fault
    /\ ro' = TRUE /\ phase' = "idle"
    /\ op' = NoOp /\ todo' = <<>>
    /\ UNCHANGED <<persistent, tx, freed, seq, k, seen>>

(* ext2_op_end: the transaction is committed when it is full or a second   *)
(* old.                                                                    *)
EndOp ==
    /\ phase = "op" /\ todo = <<>>
    /\ seen' = Tree(Cur)
    /\ op' = NoOp
    /\ \E old \in BOOLEAN : phase' = IF old \/ Len(tx) >= Cap THEN "sb1" ELSE "idle"
    /\ UNCHANGED <<persistent, volatile, k, todo, spent>>

(* ext2_sync_all and ext2_flusher.                                         *)
SyncAll ==
    /\ phase = "idle" /\ ~ro /\ tx # <<>>
    /\ phase' = "sb1"
    /\ UNCHANGED <<persistent, volatile, k, op, todo, seen, spent>>

-----------------------------------------------------------------------------
(* ext2_jnl_commit, one block write at a time.                             *)

(* The block the commit writes next, landed on the disk.                   *)
StartLog == jsb' = [start |-> 1, seq |-> seq] /\ UNCHANGED <<disk, data, log>>
LogBlock == log' = [log EXCEPT ![k] = LogImage(tx, seq)[k]] /\ UNCHANGED <<disk, data, jsb>>
CkptBlock == disk' = [disk EXCEPT ![tx[k].blk] = tx[k].val] /\ UNCHANGED <<data, jsb, log>>
EmptyLog(s) == jsb' = [start |-> 0, seq |-> s] /\ UNCHANGED <<disk, data, log>>

LogStart ==
    /\ phase = "sb1"
    /\ StartLog
    /\ phase' = "log" /\ k' = 1
    /\ UNCHANGED <<volatile, op, todo, seen, spent>>

LogWrite ==
    /\ phase = "log"
    /\ LogBlock
    /\ LET last == k = LogSize(tx) IN
       /\ phase' = IF last THEN "ckpt" ELSE "log"
       /\ k' = IF last THEN 1 ELSE k + 1
    /\ UNCHANGED <<volatile, op, todo, seen, spent>>

Checkpoint ==
    /\ phase = "ckpt"
    /\ CkptBlock
    /\ phase' = IF k = Len(tx) THEN "sb0" ELSE "ckpt"
    /\ k' = k + 1
    /\ UNCHANGED <<volatile, op, todo, seen, spent>>

CommitEnd ==
    /\ phase = "sb0"
    /\ EmptyLog(seq + 1)
    /\ seq' = seq + 1
    /\ tx' = <<>> /\ freed' = {}
    /\ phase' = IF op = NoOp THEN "idle" ELSE "retry"
    /\ k' = 0
    /\ UNCHANGED <<ro, op, todo, seen, spent>>

(* A write fails, whether it reached the disk or not: the journal aborts   *)
(* and the transaction is dropped.  With the log started but not complete, *)
(* or complete but not checkpointed, the next mount settles it.            *)
CommitFails ==
    /\ phase \in {"sb1", "log", "ckpt", "sb0"}
    /\ Fault
    /\ \/ UNCHANGED persistent
       \/ phase = "sb1" /\ StartLog
       \/ phase = "log" /\ LogBlock
       \/ phase = "ckpt" /\ CkptBlock
       \/ phase = "sb0" /\ EmptyLog(seq + 1)
    /\ ro' = TRUE
    /\ seq' = IF phase = "sb0" THEN seq + 1 ELSE seq
    /\ tx' = <<>> /\ freed' = {}
    /\ phase' = "idle" /\ k' = 0
    /\ op' = NoOp
    /\ UNCHANGED <<todo, seen>>

-----------------------------------------------------------------------------
(* The power fails.                                                        *)
PowerCut ==
    /\ phase # "down"
    /\ spent.crashes < MaxCuts
    /\ spent' = [spent EXCEPT !.crashes = @ + 1]
    /\ phase' = "down" /\ k' = 0
    /\ tx' = <<>> /\ freed' = {} /\ ro' = FALSE
    /\ op' = NoOp /\ todo' = <<>>
    /\ UNCHANGED <<persistent, seq, seen>>

(* ext2_jnl_open and, for a log that is not empty, ext2_jnl_recover.       *)
Mount ==
    /\ phase = "down"
    /\ seq' = IF jsb.start = 0 THEN jsb.seq ELSE ScanEnd(log, jsb.seq)
    /\ todo' = RecoverWrites
    /\ phase' = IF jsb.start = 0 THEN "mounted" ELSE "replay"
    /\ UNCHANGED <<persistent, tx, freed, ro, k, op, seen, spent>>

(* A block that cannot be written ends the replay, and nothing else.       *)
Replay ==
    /\ phase = "replay" /\ todo # <<>>
    /\ \E ok \in ReplayWrites :
          /\ disk' = IF ok THEN [disk EXCEPT ![Head(todo).blk] = Head(todo).val] ELSE disk
          /\ todo' = IF ok THEN Tail(todo) ELSE <<>>
    /\ UNCHANGED <<data, jsb, log, volatile, phase, k, op, seen, spent>>

ReplayEnd ==
    /\ phase = "replay" /\ todo = <<>>
    /\ EmptyLog(seq)
    /\ phase' = "mounted"
    /\ UNCHANGED <<volatile, k, op, todo, seen, spent>>

(* The mount is done: the file system can be used.                         *)
Mounted ==
    /\ phase = "mounted"
    /\ phase' = "idle"
    /\ seen' = Tree(disk)
    /\ UNCHANGED <<persistent, volatile, k, op, todo, spent>>

-----------------------------------------------------------------------------
JnlNext ==
    \/ \E f \in Files, v \in Vers : BeginWrite(f, v) \/ BeginReclaim(f, v)
    \/ \E f \in Files : BeginTruncate(f)
    \/ \E f, g \in Files : BeginRename(f, g)
    \/ Retry \/ StepPut \/ StepData \/ StepFails \/ EndOp \/ SyncAll
    \/ LogStart \/ LogWrite \/ Checkpoint \/ CommitEnd \/ CommitFails
    \/ PowerCut \/ Mount \/ Replay \/ ReplayEnd \/ Mounted

JnlSpec == JnlInit /\ [][JnlNext]_jnlVars

-----------------------------------------------------------------------------
St == IF phase \in {"down", "replay", "mounted"} THEN "down" ELSE IF ro THEN "ro" ELSE "up"

Atomic == INSTANCE AtomicFs WITH
    Objects <- DataBlocks, cur <- seen, dur <- Tree(Recovered),
    content <- data, op <- op, st <- St

BlockVals == (SUBSET DataBlocks) \cup DataBlocks \cup {None}

(* The bitmap is a set of blocks, and a name has a block or none.          *)
Fits(m, val) == val \in (IF m = Bitmap THEN SUBSET DataBlocks ELSE DataBlocks \cup {None})

IsMeta(M) == M \in [Meta -> BlockVals] /\ \A m \in Meta : Fits(m, M[m])

(* A transaction, and a log.                                               *)
IsTx(w) ==
    /\ w \in Seq([blk : Meta, val : BlockVals])
    /\ \A i \in DOMAIN w : Fits(w[i].blk, w[i].val)
    /\ \A i, j \in DOMAIN w : w[i].blk = w[j].blk => i = j

RecordT == [t : {"none", "desc", "data", "commit"}, seq : Nat, tags : Seq(Meta), val : BlockVals]

Phases == {"idle", "op", "retry", "sb1", "log", "ckpt", "sb0", "down", "replay", "mounted"}

(* Every variable has its type; a transaction holds a block once.          *)
JnlTypeOK ==
    /\ IsMeta(disk) /\ data \in [DataBlocks -> Vers]
    /\ jsb \in [start : {0, 1}, seq : Nat]
    /\ log \in [1..LogLen -> RecordT]
    /\ IsTx(tx) /\ freed \subseteq DataBlocks
    /\ seq \in Nat /\ ro \in BOOLEAN /\ phase \in Phases /\ k \in Nat
    /\ op \in Atomic!Ops
    /\ seen \in [Files -> DataBlocks \cup {None}]
    /\ spent \in [ops : 0..MaxCalls, crashes : 0..MaxCuts, faults : 0..MaxFaults]

(* The blocks that the files of M hold.                                    *)
Held(M) == {M[f] : f \in Files} \ {None}

(* The metadata M agrees with itself: the bitmap marks exactly the blocks  *)
(* in use, and no block is in two files.                                   *)
Consistent(M) ==
    /\ M[Bitmap] = Held(M)
    /\ \A f, g \in Files : M[f] = M[g] /\ M[f] # None => f = g

(* Whenever the power fails, in an operation, at any block of a commit, in *)
(* a replay, after a failed write, the next mount finds a bitmap and       *)
(* inodes that agree: no block both free and in use, none lost.            *)
DurableConsistent == Consistent(Recovered)

(* Operations are atomic and durable as of the last commit, and what is    *)
(* durable is neither overwritten nor lost before the next: the journal    *)
(* implements AtomicFs.                                                    *)
ImplementsAtomicFs == Atomic!Spec
=============================================================================
