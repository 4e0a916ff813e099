------------------------------ MODULE AtomicFs ------------------------------
(***************************************************************************)
(* What the journal of fs/ext2.c promises its callers.  The tree is a map  *)
(* from names to objects with contents.  An operation changes the tree at  *)
(* once or not at all; a commit makes the tree durable as of the last      *)
(* finished operation; a crash goes back to what is durable.  Contents are *)
(* not journaled (ordered mode): those of a new object are on the disk     *)
(* before a tree that has it is durable, those of an old one are           *)
(* overwritten in place, and only by a write to that object.               *)
(***************************************************************************)
CONSTANTS Files, Objects, Vers, None

VARIABLES
    cur,        \* the tree as the last finished operation left it
    dur,        \* the tree a mount after a crash would show
    content,    \* the contents of each object
    op,         \* the operation in progress
    st          \* "up", "ro" (the journal aborted) or "down"

vars == <<cur, dur, content, op, st>>

Trees == [Files -> Objects \cup {None}]

NoOp == [kind |-> "none"]

Ops ==
    {NoOp} \cup [kind : {"write"}, f : Files, v : Vers]
           \cup [kind : {"truncate"}, f : Files]
           \cup [kind : {"rename"}, f : Files, g : Files]

Reachable(t) == {t[f] : f \in Files} \ {None}

(* The objects a write to f may change: the file's own, or for a new file  *)
(* one that neither the current nor the durable tree can reach.            *)
Target(f) ==
    IF cur[f] # None THEN {cur[f]}
    ELSE Objects \ (Reachable(cur) \cup Reachable(dur))

Init ==
    /\ cur \in Trees /\ dur = cur /\ content \in [Objects -> Vers]
    /\ op = NoOp /\ st = "up"

Start ==
    /\ st = "up" /\ op = NoOp
    /\ op' \in Ops \ {NoOp}
    /\ UNCHANGED <<cur, dur, content, st>>

WriteData ==
    /\ st = "up" /\ op.kind = "write"
    /\ \E o \in Target(op.f) : content' = [content EXCEPT ![o] = op.v]
    /\ UNCHANGED <<cur, dur, op, st>>

Effects ==
    CASE op.kind = "write"    -> {[cur EXCEPT ![op.f] = o] : o \in {x \in Target(op.f) : content[x] = op.v}}
      [] op.kind = "truncate" -> {[cur EXCEPT ![op.f] = None]}
      [] op.kind = "rename"   -> {[cur EXCEPT ![op.g] = cur[op.f], ![op.f] = None]}
      [] OTHER                -> {}

Finish ==
    /\ st = "up" /\ op # NoOp
    /\ cur' \in Effects
    /\ op' = NoOp
    /\ UNCHANGED <<dur, content, st>>

Commit ==
    /\ st = "up"
    /\ dur' = cur
    /\ \/ st' = "up" /\ op' = op
       \/ st' = "ro" /\ op' = NoOp       \* the write was reported as failed
    /\ UNCHANGED <<cur, content>>

(* The journal gives up; an operation in progress fails.                   *)
Abort ==
    /\ st = "up"
    /\ st' = "ro" /\ op' = NoOp
    /\ UNCHANGED <<cur, dur, content>>

Crash ==
    /\ st' = "down" /\ op' = NoOp
    /\ UNCHANGED <<cur, dur, content>>

Mount ==
    /\ st = "down"
    /\ st' = "up" /\ cur' = dur
    /\ UNCHANGED <<dur, content, op>>

Next == Start \/ WriteData \/ Finish \/ Commit \/ Abort \/ Crash \/ Mount

Spec == Init /\ [][Next]_vars
=============================================================================
