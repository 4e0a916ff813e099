----------------------------- MODULE Ext2Proofs ------------------------------
(***************************************************************************)
(* Proofs about fs/ext2.c.                                                 *)
(*                                                                         *)
(* Orphans: the record of orphans is exact, a file with a name keeps its   *)
(* blocks but for one that a torn cut may take, and an unlinked file is    *)
(* held until it is closed or finished but for one retained too late, for  *)
(* any number of inodes, slots, blocks, operations and crashes.  The       *)
(* list is described by what its links do locally: no member points back   *)
(* at the head, and no two at the same inode.  With the list as the least  *)
(* set that the links do not leave, that is all the proofs need of its     *)
(* being a path.                                                           *)
(*                                                                         *)
(* Journal: a mount finds consistent metadata whenever the power fails,    *)
(* and the journal implements AtomicFs, for any number of files, blocks,   *)
(* tags in a descriptor, operations, crashes and faults.  The log is       *)
(* described by what a scan of it finds: no complete transaction, or the   *)
(* one whose image it holds.                                               *)
(***************************************************************************)
EXTENDS Orphans, Journal, FiniteSetTheorems, SequenceTheorems, WellFoundedInduction, TLAPS

Listed(M) == Chain(M, M.last)

(* No inode is on the record twice, and the list is a path.                *)
WellFormed(M) ==
    /\ \A s, t \in Slots : M.slot[s] # 0 /\ M.slot[s] = M.slot[t] => s = t
    /\ \A i \in Listed(M) : SlotsOf(M, i) = {} /\ M.ino[i].next # M.last
    /\ \A i, j \in Listed(M) : M.ino[i].next # 0 /\ M.ino[i].next = M.ino[j].next => i = j

(* RecordExact and NeverHalfFreed, of any metadata.                        *)
Recorded(M, C) == \A i \in Inodes \ C : Unfinished(M.ino[i]) => OnRecord(M, i)
NoneFreed(M) == \A i \in Inodes : OnRecord(M, i) => M.ino[i].used
FitsSize(in) ==
    \/ in.n >= Ceil(in.size)
    \/ in.torn /\ in.n >= Floor(in.size)
WholeFile(in) ==
    /\ in.used /\ in.links > 0 => FitsSize(in)
    /\ ~in.used => in.size = 0 /\ in.links = 0
Whole(M) == \A i \in Inodes : WholeFile(M.ino[i])

Good(M, C) == WellFormed(M) /\ Recorded(M, C) /\ NoneFreed(M) /\ Whole(M)

(* The mount works on an orphan.                                           *)
Finishing == pc = "job" /\ job.kind \in {"fdelete", "fcut"}
Mounting == pc = "mount" \/ Finishing

(* The metadata with the link that a cut of the mount takes out of its     *)
(* inode before the list has moved on to it.                               *)
Relinked == [cur EXCEPT !.ino[job.ino].next = job.link]
Mended == IF Finishing /\ InList THEN Relinked ELSE cur

(* The copy in memory of the inode a job works on, and its record.         *)
CopyOK ==
    LET in == job.in  on == cur.ino[job.ino] IN
    pc = "job" =>
      /\ in.used /\ on.used /\ in.links = on.links /\ in.n <= on.n
      /\ job.kind # "cut" => in.size = on.size
      /\ ~Finishing => in.next = on.next
      /\ in.links > 0 => IF job.kind = "fcut" THEN FitsSize(in) ELSE Keep <= in.n

(* Unlinked and held until a last close has released it.                   *)
HeldInodes == orphan \cup closing

JobOK ==
    LET in == job.in IN
    pc = "job" =>
      CASE job.kind = "delete"  -> /\ in.links = 0 /\ OnRecord(cur, job.ino)
                                   /\ job.size = 0 /\ job.ino \notin HeldInodes
        [] job.kind = "cut"     -> /\ in.links = 1 /\ OnRecord(cur, job.ino)
        [] job.kind = "shrink"  -> IF in.links = 0 THEN job.ino \in HeldInodes
                                   ELSE Floor(in.size) <= Floor(job.size) + 1
        [] job.kind = "fdelete" -> in.links = 0 /\ job.size = 0 /\ in.next = job.link
        [] job.kind = "fcut"    -> in.links = 1 /\ job.size = in.size /\ in.next = 0
        [] OTHER                -> FALSE

(* What is open has a name or is held, but for what was retained too late; *)
(* what is held is on the record.                                          *)
HoldersOK ==
    /\ \A i \in open \ stale : cur.ino[i].used /\ (i \in orphan \/ cur.ino[i].links = 1)
    /\ \A i \in stale : cur.ino[i].links = 0
    /\ \A i \in HeldInodes : cur.ino[i].links = 0 /\ OnRecord(cur, i)
    /\ orphan \cap closing = {} /\ orphan \cap stale = {}

(* Who else is on the record outside a mount: the inode of a job.          *)
Worked(i) == pc = "job" /\ job.kind \in {"delete", "cut"} /\ job.ino = i

OpenOK ==
    /\ HoldersOK
    /\ ~Mounting => \A i \in Inodes : OnRecord(cur, i) => i \in HeldInodes \/ Worked(i)
    /\ \A i \in found \cup open :
          cur.ino[i].used /\ cur.ino[i].links = 0 => i \in HeldInodes \/ Worked(i)

(* Where the mount is: what it has passed is clear, and what is left of    *)
(* the list is on the durable one.                                         *)
MountOK ==
    Mounting =>
      /\ found = {} /\ open = {} /\ closing = {} /\ at > 0
      /\ \A s \in Slots : s < at => cur.slot[s] = 0
      /\ Listed(Mended) \subseteq Listed(dur) \cup cutoff
      /\ Finishing => Entry = job.ino

Inv ==
    /\ TypeOK /\ CopyOK /\ JobOK /\ OpenOK /\ MountOK
    /\ Good(Mended, cutoff) /\ Good(dur, cutoff)

-----------------------------------------------------------------------------
(* Sets of naturals have a least member, so x4_orphan_add and              *)
(* x4_orphan_del find the first slot they look for.                        *)
LEMMA LeastNat ==
    ASSUME NEW S \in SUBSET Nat, S # {}
    PROVE  \E n \in S : \A m \in S : n <= m
<1> DEFINE R == {ss \in Nat \X Nat : ss[1] < ss[2]}
<1>1. IsWellFoundedOn(R, Nat)
    BY NatLessThanWellFounded, Zenon DEF OpToRel
<1> HIDE DEF R
<1>2. PICK n \in S : \A m \in S : <<m, n>> \notin R
    BY <1>1, WFMin, Zenon
<1>3. \A m \in S : ~(m < n)
    BY <1>2 DEF R
<1> QED
    BY <1>3

(* First(S) is one of the slots of S.                                      *)
LEMMA FirstIn ==
    ASSUME NEW S \in SUBSET Slots, S # {}
    PROVE  First(S) \in S
<1>1. \E s \in S : \A t \in S : s <= t
    BY LeastNat, OrphansAssumption DEF Slots
<1> QED
    BY <1>1, Zenon DEF First

(* Blocks of a size, whole and all: a smaller size has no more blocks than *)
(* a larger one has whole blocks.                                          *)
LEMMA SizeFacts ==
    ASSUME NEW s \in 0..(2 * Blocks)
    PROVE  /\ s \in Nat /\ Ceil(s) \in 0..Blocks /\ Floor(s) \in 0..Blocks
           /\ Floor(s) <= Ceil(s)
           /\ \A t \in 0..(2 * Blocks) : s < t => Ceil(s) <= Floor(t)
           /\ Ceil(0) = 0
    BY OrphansAssumption DEF Ceil, Floor

-----------------------------------------------------------------------------
(* The list as a least set: it has its head, the links do not leave it,    *)
(* and it is within every such set.                                        *)
LEMMA ChainHead ==
    ASSUME NEW M, NEW i
    PROVE  /\ Chain(M, i) \subseteq Inodes
           /\ i \in Inodes => i \in Chain(M, i)
           /\ i \notin Inodes => Chain(M, i) = {}
    BY DEF Chain

LEMMA ChainLinked ==
    ASSUME NEW M, NEW i
    PROVE  Linked(M, Chain(M, i))
    BY DEF Chain, Linked

LEMMA ChainLeast ==
    ASSUME NEW M, NEW i, NEW S \in SUBSET Inodes, i \in Inodes => i \in S, Linked(M, S)
    PROVE  Chain(M, i) \subseteq S
    BY DEF Chain

(* The inodes of S have the links in N that they have in M.                *)
SameLinks(M, N, S) == \A j \in S : N.ino[j].next = M.ino[j].next

(* A list does not change where its members keep their links.              *)
LEMMA ChainSame ==
    ASSUME NEW M, NEW N, NEW i, SameLinks(M, N, Chain(M, i))
    PROVE  Chain(N, i) = Chain(M, i)
<1> DEFINE C == Chain(M, i)  D == Chain(N, i)
<1>1. C \subseteq Inodes /\ D \subseteq Inodes
    BY ChainHead
<1>2. D \subseteq C
  <2>1. Linked(N, C)
    BY ChainLinked DEF Linked, SameLinks
  <2> QED
    BY <1>1, <2>1, ChainHead, ChainLeast
<1>3. C \subseteq C \cap D
  <2>1. Linked(N, D)
    BY ChainLinked
  <2>2. Linked(M, C \cap D)
    BY <2>1, ChainLinked DEF Linked, SameLinks
  <2>3. i \in Inodes => i \in C \cap D
    BY ChainHead
  <2> QED
    BY <1>1, <2>2, <2>3, ChainLeast
<1> QED
    BY <1>2, <1>3

(* Putting an inode in front of the list.                                  *)
LEMMA ListPush ==
    ASSUME NEW M, NEW N, NEW i \in Inodes, i \notin Listed(M),
           N.last = i, N.ino[i].next = M.last, SameLinks(M, N, Listed(M))
    PROVE  Listed(N) = Listed(M) \cup {i}
<1> DEFINE C == Listed(M)  D == Listed(N)
<1>1. C \subseteq Inodes /\ D \subseteq Inodes /\ i \in D /\ (M.last \in Inodes => M.last \in C)
    BY ChainHead DEF Listed
<1>2. D \subseteq C \cup {i}
  <2>1. Linked(N, C \cup {i})
    BY <1>1, ChainLinked DEF Linked, Listed, SameLinks
  <2> QED
    BY <1>1, <2>1, ChainLeast DEF Listed
<1>3. C \subseteq C \cap D
  <2>1. Linked(N, D)
    BY ChainLinked DEF Listed
  <2>2. Linked(M, C)
    BY ChainLinked DEF Listed
  <2>3. Linked(M, C \cap D)
    BY <2>1, <2>2 DEF Linked, SameLinks
  <2>4. M.last \in Inodes => M.last \in C \cap D
    BY <1>1, <2>1 DEF Linked
  <2> QED
    BY <1>1, <2>3, <2>4, ChainLeast DEF Listed
<1> QED
    BY <1>1, <1>2, <1>3

(* Taking the head off the list.                                           *)
LEMMA ListPop ==
    ASSUME NEW M, NEW N, NEW i \in Inodes, WellFormed(M),
           M.last = i, N.last = M.ino[i].next, SameLinks(M, N, Listed(M) \ {i})
    PROVE  Listed(N) = Listed(M) \ {i}
<1> DEFINE C == Listed(M)  D == Listed(N)
<1>1. C \subseteq Inodes /\ D \subseteq Inodes /\ i \in C
    BY ChainHead DEF Listed
<1>2. Linked(M, C) /\ Linked(N, D)
    BY ChainLinked DEF Listed
<1>3. \A j \in C : M.ino[j].next # i
    BY DEF WellFormed
<1>4. D \subseteq C \ {i}
  <2>1. Linked(N, C \ {i})
    BY <1>2, <1>3 DEF Linked, SameLinks
  <2>2. N.last \in Inodes => N.last \in C \ {i}
    BY <1>1, <1>2, <1>3 DEF Linked
  <2> QED
    BY <1>1, <2>1, <2>2, ChainLeast DEF Listed
<1>5. C \subseteq D \cup {i}
  <2>1. N.last \in Inodes => N.last \in D
    BY ChainHead DEF Listed
  <2>2. Linked(M, D \cup {i})
    BY <1>2, <1>4, <2>1 DEF Linked, SameLinks
  <2> QED
    BY <1>1, <2>2, ChainLeast DEF Listed
<1> QED
    BY <1>1, <1>4, <1>5

(* Taking an inode out of the middle: the one before it gets its link.     *)
LEMMA ListUnlink ==
    ASSUME NEW M, NEW N, NEW i \in Listed(M), WellFormed(M),
           M.last # i, M.last \in Inodes, N.last = M.last,
           \A j \in Listed(M) \ {i} :
              N.ino[j].next = IF M.ino[j].next = i THEN M.ino[i].next ELSE M.ino[j].next
    PROVE  Listed(N) = Listed(M) \ {i}
<1> DEFINE C == Listed(M)  D == Listed(N)
<1>1. C \subseteq Inodes /\ D \subseteq Inodes /\ i \in Inodes /\ M.last \in C /\ M.last \in D
    BY ChainHead DEF Listed
<1>2. Linked(M, C) /\ Linked(N, D)
    BY ChainLinked DEF Listed
<1>3. PICK p \in C \ {i} : M.ino[p].next = i
  <2>1. SUFFICES ASSUME \A p \in C \ {i} : M.ino[p].next # i PROVE FALSE
    OBVIOUS
  <2>2. Linked(M, C \ {i})
    BY <1>2, <2>1 DEF Linked
  <2>3. C \subseteq C \ {i}
    BY <1>1, <2>2, ChainLeast DEF Listed
  <2> QED
    BY <2>3
<1>4. \A j \in C : M.ino[j].next = i => j = p
  <2>1. i # 0
    BY <1>1, OrphansAssumption
  <2> QED
    BY <1>3, <2>1 DEF WellFormed
<1>5. D \subseteq C \ {i}
  <2>1. Linked(N, C \ {i})
    BY <1>1, <1>2, <1>3, <1>4 DEF Linked
  <2> QED
    BY <1>1, <2>1, ChainLeast DEF Listed
<1>6. p \in D
  <2>1. SUFFICES ASSUME p \notin D PROVE FALSE
    OBVIOUS
  <2>2. Linked(M, D)
    BY <1>2, <1>4, <1>5, <2>1 DEF Linked
  <2>3. C \subseteq D
    BY <1>1, <2>2, ChainLeast DEF Listed
  <2> QED
    BY <1>3, <2>1, <2>3
<1>7. C \subseteq D \cup {i}
  <2>1. Linked(M, D \cup {i})
    BY <1>2, <1>3, <1>4, <1>5, <1>6 DEF Linked
  <2> QED
    BY <1>1, <2>1, ChainLeast DEF Listed
<1> QED
    BY <1>5, <1>7

-----------------------------------------------------------------------------
(* What taking inode i off the record and putting it on it do: the record  *)
(* is still well formed and the other files are as they were.              *)
SameFile(a, b) == a.used = b.used /\ a.links = b.links /\ a.size = b.size /\ a.n = b.n /\ a.torn = b.torn

OthersSame(M, N, i) == \A j \in Inodes \ {i} : SameFile(N.ino[j], M.ino[j])

Removed(M, N, i) ==
    /\ WellFormed(N) /\ OthersSame(M, N, i) /\ Listed(N) \subseteq Listed(M)
    /\ \A j \in Inodes : OnRecord(N, j) <=> OnRecord(M, j) /\ j # i

Added(M, N, i) ==
    /\ WellFormed(N) /\ OthersSame(M, N, i)
    /\ \A j \in Inodes : OnRecord(N, j) <=> OnRecord(M, j) \/ j = i

(* A slot is cleared, and its inode written.                               *)
LEMMA ClearSlot ==
    ASSUME NEW M \in MetaT, NEW N \in MetaT, NEW i \in Inodes, NEW s \in Slots, NEW in \in InodeT,
           WellFormed(M), M.slot[s] = i, N.last = M.last,
           N.slot = [M.slot EXCEPT ![s] = 0], N.ino = [M.ino EXCEPT ![i] = in]
    PROVE  Removed(M, N, i)
<1>1. i # 0
    BY OrphansAssumption
<1>2. \A j \in Listed(M) : j # i
    BY DEF WellFormed, SlotsOf
<1>3. Listed(M) \subseteq Inodes
    BY ChainHead DEF Listed
<1>4. \A j \in Inodes \ {i} : N.ino[j] = M.ino[j]
    BY DEF MetaT
<1>5. Listed(N) = Listed(M)
  <2>1. SameLinks(M, N, Chain(M, M.last))
    BY <1>2, <1>3, <1>4 DEF Listed, SameLinks
  <2>2. Chain(N, M.last) = Chain(M, M.last)
    BY <2>1, ChainSame
  <2> QED
    BY <2>2 DEF Listed
<1>6. \A t \in Slots : N.slot[t] = IF t = s THEN 0 ELSE M.slot[t]
    BY DEF MetaT
<1>7. \A t \in Slots : M.slot[t] = i => t = s
    BY <1>1 DEF WellFormed
<1>8. \A j \in Inodes : SlotsOf(N, j) = IF j = i THEN {} ELSE SlotsOf(M, j)
    BY <1>6, <1>7, OrphansAssumption DEF SlotsOf
<1>9. WellFormed(N)
    BY <1>2, <1>3, <1>4, <1>5, <1>6, <1>8 DEF WellFormed
<1>10. \A j \in Inodes : OnRecord(N, j) <=> OnRecord(M, j) /\ j # i
    BY <1>2, <1>5, <1>8 DEF OnRecord, Listed
<1> QED
    BY <1>4, <1>5, <1>9, <1>10 DEF Removed, OthersSame, SameFile

(* The head of the list is taken off it, and written.                      *)
LEMMA PopHead ==
    ASSUME NEW M \in MetaT, NEW N \in MetaT, NEW i \in Inodes, NEW in \in InodeT,
           WellFormed(M), M.last = i, N.last = M.ino[i].next,
           N.slot = M.slot, N.ino = [M.ino EXCEPT ![i] = in]
    PROVE  Removed(M, N, i)
<1>1. i # 0 /\ i \in Listed(M)
    BY OrphansAssumption, ChainHead DEF Listed
<1>2. Listed(M) \subseteq Inodes
    BY ChainHead DEF Listed
<1>3. \A j \in Inodes \ {i} : N.ino[j] = M.ino[j]
    BY DEF MetaT
<1>4. Listed(N) = Listed(M) \ {i}
  <2>1. SameLinks(M, N, Listed(M) \ {i})
    BY <1>2, <1>3 DEF SameLinks
  <2> QED
    BY <2>1, ListPop
<1>5. \A j \in Inodes : SlotsOf(N, j) = SlotsOf(M, j)
    BY DEF SlotsOf
<1>6. \A j \in Listed(N) : M.ino[j].next # N.last
  <2>1. SUFFICES ASSUME NEW j \in Listed(N), M.ino[j].next = N.last PROVE FALSE
    OBVIOUS
  <2>2. CASE N.last = 0
    BY <2>2, <1>4, <2>1, ChainHead, OrphansAssumption DEF Listed
  <2>3. CASE N.last # 0
    BY <2>3, <1>1, <1>4, <2>1 DEF WellFormed
  <2> QED
    BY <2>2, <2>3
<1>7. WellFormed(N)
    BY <1>2, <1>3, <1>4, <1>5, <1>6 DEF WellFormed
<1>8. SlotsOf(M, i) = {}
    BY <1>1 DEF WellFormed
<1>9. \A j \in Inodes : OnRecord(N, j) <=> OnRecord(M, j) /\ j # i
    BY <1>4, <1>5, <1>8 DEF OnRecord, Listed
<1> QED
    BY <1>3, <1>4, <1>7, <1>9 DEF Removed, OthersSame, SameFile

(* An inode is taken out of the middle of the list, and written.           *)
LEMMA UnlinkMiddle ==
    ASSUME NEW M \in MetaT, NEW N \in MetaT, NEW i \in Listed(M),
           WellFormed(M), M.last # i, N.last = M.last, N.slot = M.slot,
           \A j \in Inodes \ {i} :
              N.ino[j] = IF j \in Listed(M) /\ M.ino[j].next = i
                         THEN [M.ino[j] EXCEPT !.next = M.ino[i].next] ELSE M.ino[j]
    PROVE  Removed(M, N, i)
<1>1. Listed(M) \subseteq Inodes /\ i \in Inodes /\ M.last \in Inodes
    BY ChainHead DEF Listed, MetaT
<1>2. i # 0
    BY <1>1, OrphansAssumption
<1>3. \A j \in Inodes \ {i} : SameFile(N.ino[j], M.ino[j])
    BY ZenonT(60) DEF SameFile, MetaT, InodeT
<1>4. \A j \in Listed(M) \ {i} :
         N.ino[j].next = IF M.ino[j].next = i THEN M.ino[i].next ELSE M.ino[j].next
    BY <1>1 DEF MetaT, InodeT
<1>5. Listed(N) = Listed(M) \ {i}
    BY <1>1, <1>4, ListUnlink
<1>6. \A j \in Inodes : SlotsOf(N, j) = SlotsOf(M, j)
    BY DEF SlotsOf
<1>7. \A j \in Listed(N) : N.ino[j].next # N.last
    BY <1>4, <1>5 DEF WellFormed
<1>8. \A j, l \in Listed(N) : N.ino[j].next # 0 /\ N.ino[j].next = N.ino[l].next => j = l
  <2>1. SUFFICES ASSUME NEW j \in Listed(N), NEW l \in Listed(N),
                        N.ino[j].next # 0, N.ino[j].next = N.ino[l].next
                 PROVE  j = l
    OBVIOUS
  <2>2. j \in Listed(M) \ {i} /\ l \in Listed(M) \ {i}
    BY <1>5, <2>1
  <2>3. CASE M.ino[j].next = i /\ M.ino[l].next = i
    BY <2>3, <2>2, <1>2 DEF WellFormed
  <2>4. CASE M.ino[j].next = i /\ M.ino[l].next # i
    BY <2>4, <2>1, <2>2, <1>4 DEF WellFormed
  <2>5. CASE M.ino[j].next # i /\ M.ino[l].next = i
    BY <2>5, <2>1, <2>2, <1>4 DEF WellFormed
  <2>6. CASE M.ino[j].next # i /\ M.ino[l].next # i
    BY <2>6, <2>1, <2>2, <1>4 DEF WellFormed
  <2> QED
    BY <2>3, <2>4, <2>5, <2>6
<1>9. WellFormed(N)
  <2>1. \A j \in Listed(N) : SlotsOf(N, j) = {}
    BY <1>1, <1>5, <1>6 DEF WellFormed
  <2>2. \A s, t \in Slots : N.slot[s] # 0 /\ N.slot[s] = N.slot[t] => s = t
    BY DEF WellFormed
  <2> QED
    BY <1>7, <1>8, <2>1, <2>2 DEF WellFormed
<1>10. SlotsOf(M, i) = {}
    BY DEF WellFormed
<1>11. \A j \in Inodes : OnRecord(N, j) <=> OnRecord(M, j) /\ j # i
    BY <1>5, <1>6, <1>10 DEF OnRecord, Listed
<1> QED
    BY <1>3, <1>5, <1>9, <1>11 DEF Removed, OthersSame

-----------------------------------------------------------------------------
(* x4_orphan_del and the write of the inode take exactly that inode off    *)
(* the record.                                                             *)
LEMMA DelRecord ==
    ASSUME NEW M \in MetaT, NEW i \in Inodes, NEW in, NEW new \in InodeT,
           WellFormed(M), OnRecord(M, i), in.next = M.ino[i].next
    PROVE  LET N == [x4_orphan_del(M, i, in) EXCEPT !.ino[i] = new]
           IN  N \in MetaT /\ Removed(M, N, i) /\ N.ino[i] = new
<1> DEFINE D == x4_orphan_del(M, i, in)
           N == [D EXCEPT !.ino[i] = new]
<1>1. CASE SlotsOf(M, i) # {}
  <2>1. PICK s \in Slots : s = First(SlotsOf(M, i)) /\ M.slot[s] = i
    BY <1>1, FirstIn DEF SlotsOf
  <2>2. D = [M EXCEPT !.slot[s] = 0]
    BY <1>1, <2>1 DEF x4_orphan_del
  <2>3. N.slot = [M.slot EXCEPT ![s] = 0] /\ N.last = M.last /\ N.ino = [M.ino EXCEPT ![i] = new]
    BY <2>2 DEF MetaT
  <2>4. N \in MetaT /\ N.ino[i] = new
    BY <2>2, ZenonT(60) DEF MetaT
  <2> HIDE DEF N, D
  <2>5. Removed(M, N, i)
    BY <2>1, <2>3, <2>4, ClearSlot
  <2> QED
    BY <2>4, <2>5 DEF N, D
<1>2. CASE SlotsOf(M, i) = {} /\ M.last = i
  <2>1. D = [M EXCEPT !.last = M.ino[i].next]
    BY <1>2 DEF x4_orphan_del
  <2>2. N.slot = M.slot /\ N.last = M.ino[i].next /\ N.ino = [M.ino EXCEPT ![i] = new]
    BY <2>1 DEF MetaT
  <2>3. N \in MetaT /\ N.ino[i] = new
    BY <2>1 DEF MetaT, InodeT
  <2> HIDE DEF N, D
  <2>4. Removed(M, N, i)
    BY <1>2, <2>2, <2>3, PopHead
  <2> QED
    BY <2>3, <2>4 DEF N, D
<1>3. CASE SlotsOf(M, i) = {} /\ M.last # i
  <2>1. i \in Listed(M)
    BY <1>3 DEF OnRecord, Listed
  <2> DEFINE I == [j \in Inodes |->
                     IF j \in Listed(M) /\ M.ino[j].next = i
                     THEN [M.ino[j] EXCEPT !.next = M.ino[i].next] ELSE M.ino[j]]
  <2>2. D = [M EXCEPT !.ino = I]
    BY <1>3 DEF x4_orphan_del, Listed
  <2>3. I \in [Inodes -> InodeT]
    BY DEF MetaT, InodeT
  <2>4. N.slot = M.slot /\ N.last = M.last /\ N.ino = [I EXCEPT ![i] = new]
    BY <2>2 DEF MetaT
  <2>5. N \in MetaT /\ N.ino[i] = new
    BY <2>2, <2>3 DEF MetaT
  <2>6. \A j \in Inodes \ {i} :
           N.ino[j] = IF j \in Listed(M) /\ M.ino[j].next = i
                      THEN [M.ino[j] EXCEPT !.next = M.ino[i].next] ELSE M.ino[j]
    BY <2>4
  <2> HIDE DEF N, D, I
  <2>7. Removed(M, N, i)
    BY <1>3, <2>1, <2>4, <2>5, <2>6, UnlinkMiddle
  <2> QED
    BY <2>5, <2>7 DEF N, D
<1> QED
    BY <1>1, <1>2, <1>3

(* x4_orphan_add puts an inode on the record.                              *)
LEMMA AddRecord ==
    ASSUME NEW M \in MetaT, NEW i \in Inodes, NEW in \in InodeT,
           WellFormed(M), ~OnRecord(M, i)
    PROVE  LET N == x4_orphan_add(M, i, in)
           IN  N \in MetaT /\ Added(M, N, i) /\ SameFile(N.ino[i], in)
<1> DEFINE N == x4_orphan_add(M, i, in)
<1>1. i \notin Listed(M) /\ SlotsOf(M, i) = {} /\ i # 0
    BY OrphansAssumption DEF OnRecord, Listed
<1>2. Listed(M) \subseteq Inodes
    BY ChainHead DEF Listed
<1>3. CASE SlotsOf(M, 0) # {}
  <2>1. PICK s \in Slots : s = First(SlotsOf(M, 0)) /\ M.slot[s] = 0
    BY <1>3, FirstIn DEF SlotsOf
  <2>2. N = [M EXCEPT !.slot[s] = i, !.ino[i] = in]
    BY <1>3, <2>1 DEF x4_orphan_add
  <2>3. N.slot = [M.slot EXCEPT ![s] = i] /\ N.last = M.last /\ N.ino = [M.ino EXCEPT ![i] = in]
    BY <2>2 DEF MetaT
  <2>4. N \in MetaT
    <3>1. [M.slot EXCEPT ![s] = i] \in [Slots -> Inodes \cup {0}] /\ [M.ino EXCEPT ![i] = in] \in [Inodes -> InodeT]
      BY DEF MetaT
    <3>2. N = [ino |-> [M.ino EXCEPT ![i] = in], slot |-> [M.slot EXCEPT ![s] = i], last |-> M.last]
      BY <2>2 DEF MetaT
    <3> HIDE DEF N
    <3> QED
      BY <3>1, <3>2 DEF MetaT
  <2> HIDE DEF N
  <2>5. \A j \in Inodes \ {i} : N.ino[j] = M.ino[j]
    BY <2>3 DEF MetaT
  <2>6. \A t \in Slots : N.slot[t] = IF t = s THEN i ELSE M.slot[t]
    BY <2>3 DEF MetaT
  <2>7. \A j \in Inodes \ {i} : SlotsOf(N, j) = SlotsOf(M, j)
    BY <2>1, <2>6, OrphansAssumption DEF SlotsOf
  <2>8. s \in SlotsOf(N, i)
    BY <2>6 DEF SlotsOf
  <2>9. SameLinks(M, N, Chain(M, M.last))
    BY <1>1, <1>2, <2>5 DEF Listed, SameLinks
  <2>10. Chain(N, M.last) = Chain(M, M.last)
    BY <2>9, ChainSame
  <2>11. Listed(N) = Listed(M)
    BY <2>3, <2>10 DEF Listed
  <2>12. \A r, t \in Slots : N.slot[r] # 0 /\ N.slot[r] = N.slot[t] => r = t
    BY <1>1, <2>1, <2>6 DEF WellFormed, SlotsOf
  <2>13. \A j \in Listed(N) : SlotsOf(N, j) = {} /\ N.ino[j].next # N.last
    BY <1>1, <1>2, <2>3, <2>5, <2>7, <2>11 DEF WellFormed
  <2>14. WellFormed(N)
    BY <1>1, <1>2, <2>5, <2>11, <2>12, <2>13 DEF WellFormed
  <2>15. \A j \in Inodes : OnRecord(N, j) <=> OnRecord(M, j) \/ j = i
    BY <1>1, <2>7, <2>8, <2>11 DEF OnRecord, Listed
  <2>16. SameFile(N.ino[i], in)
    BY <2>3 DEF MetaT, SameFile
  <2> QED
    BY <2>4, <2>5, <2>14, <2>15, <2>16 DEF Added, OthersSame, SameFile, N
<1>4. CASE SlotsOf(M, 0) = {}
  <2>1. N = [M EXCEPT !.last = i, !.ino[i] = [in EXCEPT !.next = M.last]]
    BY <1>4 DEF x4_orphan_add
  <2>2. N.slot = M.slot /\ N.last = i /\ N.ino = [M.ino EXCEPT ![i] = [in EXCEPT !.next = M.last]]
    BY <2>1 DEF MetaT
  <2>3. N \in MetaT
    <3> DEFINE J == [in EXCEPT !.next = M.last]
    <3>1. J \in InodeT
      BY DEF MetaT, InodeT
    <3>2. [M.ino EXCEPT ![i] = J] \in [Inodes -> InodeT]
      BY <3>1 DEF MetaT
    <3>3. N = [ino |-> [M.ino EXCEPT ![i] = J], slot |-> M.slot, last |-> i]
      BY <2>1 DEF MetaT
    <3> HIDE DEF N, J
    <3> QED
      BY <3>2, <3>3 DEF MetaT
  <2> HIDE DEF N
  <2>4. \A j \in Inodes \ {i} : N.ino[j] = M.ino[j]
    BY <2>2 DEF MetaT
  <2>5. N.ino[i].next = M.last /\ SameFile(N.ino[i], in)
    BY <2>2 DEF MetaT, InodeT, SameFile
  <2>6. \A j \in Inodes : SlotsOf(N, j) = SlotsOf(M, j)
    BY <2>2 DEF SlotsOf
  <2>7. SameLinks(M, N, Listed(M))
    BY <1>1, <1>2, <2>4 DEF SameLinks
  <2>8. Listed(N) = Listed(M) \cup {i}
    BY <1>1, <2>2, <2>5, <2>7, ListPush
  <2>10. \A j \in Listed(M) : N.ino[j].next = M.ino[j].next /\ M.ino[j].next # i
    <3>1. Linked(M, Listed(M))
      BY ChainLinked DEF Listed
    <3> QED
      BY <1>1, <2>7, <3>1 DEF SameLinks, Linked
  <2>11. M.last # i
    BY <1>1, ChainHead DEF Listed
  <2>12. \A j \in Listed(N) : SlotsOf(N, j) = {} /\ N.ino[j].next # N.last
    BY <1>1, <1>2, <2>2, <2>5, <2>6, <2>8, <2>10, <2>11 DEF WellFormed
  <2>13. \A j, l \in Listed(N) : N.ino[j].next # 0 /\ N.ino[j].next = N.ino[l].next => j = l
    BY <2>5, <2>8, <2>10 DEF WellFormed
  <2>14. WellFormed(N)
    BY <2>2, <2>12, <2>13 DEF WellFormed
  <2>15. \A j \in Inodes : OnRecord(N, j) <=> OnRecord(M, j) \/ j = i
    BY <1>1, <2>6, <2>8 DEF OnRecord, Listed
  <2> QED
    BY <2>3, <2>4, <2>5, <2>14, <2>15 DEF Added, OthersSame, SameFile, N
<1> QED
    BY <1>3, <1>4

-----------------------------------------------------------------------------
(* Inode i is written and the record stays as it is.                       *)
Kept(M, N, i) ==
    /\ WellFormed(N) /\ OthersSame(M, N, i) /\ Listed(N) = Listed(M)
    /\ \A j \in Inodes : OnRecord(N, j) <=> OnRecord(M, j)

(* Writing an inode keeps the record if it keeps the inode's link, or if   *)
(* the inode is not on the list.                                           *)
LEMMA WriteInode ==
    ASSUME NEW M \in MetaT, NEW i \in Inodes, NEW in \in InodeT,
           WellFormed(M), in.next = M.ino[i].next \/ i \notin Listed(M)
    PROVE  LET N == [M EXCEPT !.ino[i] = in]
           IN  N \in MetaT /\ Kept(M, N, i) /\ N.ino[i] = in
<1> DEFINE N == [M EXCEPT !.ino[i] = in]
<1>1. N \in MetaT /\ N.ino[i] = in
    BY DEF MetaT
<1>2. N.slot = M.slot /\ N.last = M.last
    BY DEF MetaT
<1>3. \A j \in Inodes \ {i} : N.ino[j] = M.ino[j]
    BY DEF MetaT
<1> HIDE DEF N
<1>4. Listed(M) \subseteq Inodes
    BY ChainHead DEF Listed
<1>5. SameLinks(M, N, Chain(M, M.last))
    BY <1>1, <1>3, <1>4 DEF SameLinks, Listed
<1>6. Chain(N, M.last) = Chain(M, M.last)
    BY <1>5, ChainSame
<1>7. Listed(N) = Listed(M)
    BY <1>2, <1>6 DEF Listed
<1>8. \A j \in Inodes : SlotsOf(N, j) = SlotsOf(M, j)
    BY <1>2 DEF SlotsOf
<1>9. \A j \in Listed(N) : N.ino[j].next = M.ino[j].next
    BY <1>5, <1>7 DEF SameLinks, Listed
<1>10. WellFormed(N)
    BY <1>2, <1>4, <1>7, <1>8, <1>9 DEF WellFormed
<1>11. \A j \in Inodes : OnRecord(N, j) <=> OnRecord(M, j)
    BY <1>7, <1>8 DEF OnRecord, Listed
<1> QED
    BY <1>1, <1>3, <1>7, <1>10, <1>11 DEF Kept, OthersSame, SameFile, N

(* What Good says of one inode.                                            *)
GoodAt(N, C, i) ==
    /\ i \notin C /\ Unfinished(N.ino[i]) => OnRecord(N, i)
    /\ OnRecord(N, i) => N.ino[i].used
    /\ WholeFile(N.ino[i])

(* A step that changes one inode and its record has to be good for that    *)
(* inode alone.                                                            *)
LEMMA GoodAfter ==
    ASSUME NEW M, NEW N, NEW C, NEW i \in Inodes, Good(M, C), WellFormed(N), OthersSame(M, N, i),
           \A j \in Inodes \ {i} : OnRecord(N, j) <=> OnRecord(M, j),
           GoodAt(N, C, i)
    PROVE  Good(N, C)
<1>1. \A j \in Inodes \ {i} : Unfinished(N.ino[j]) <=> Unfinished(M.ino[j])
    BY DEF OthersSame, SameFile, Unfinished
<1>2. Recorded(N, C)
    BY <1>1 DEF Good, Recorded, GoodAt
<1>3. NoneFreed(N)
    BY DEF Good, NoneFreed, GoodAt, OthersSame, SameFile
<1>4. Whole(N)
  <2>1. SUFFICES ASSUME NEW j \in Inodes, j # i
                 PROVE  WholeFile(N.ino[j])
    BY DEF Whole, GoodAt
  <2> QED
    BY <2>1 DEF Good, Whole, OthersSame, SameFile, WholeFile, FitsSize
<1> QED
    BY <1>2, <1>3, <1>4 DEF Good

LEMMA GoodRemoved ==
    ASSUME NEW M, NEW N, NEW C, NEW i \in Inodes, Good(M, C), Removed(M, N, i), GoodAt(N, C, i)
    PROVE  Good(N, C)
    BY GoodAfter DEF Removed

LEMMA GoodAdded ==
    ASSUME NEW M, NEW N, NEW C, NEW i \in Inodes, Good(M, C), Added(M, N, i), GoodAt(N, C, i)
    PROVE  Good(N, C)
    BY GoodAfter DEF Added

LEMMA GoodKept ==
    ASSUME NEW M, NEW N, NEW C, NEW i \in Inodes, Good(M, C), Kept(M, N, i), GoodAt(N, C, i)
    PROVE  Good(N, C)
    BY GoodAfter DEF Kept

-----------------------------------------------------------------------------
(* Outside a mount there is nothing to mend.                               *)
LEMMA NothingToMend ==
    /\ ~Finishing => Mended = cur
    /\ ~Finishing' => Mended' = cur'
    BY DEF Mended

(* A new file is whole.                                                    *)
LEMMA NewFileFacts ==
    ASSUME NEW f \in NewFiles
    PROVE  f \in InodeT /\ f.used /\ f.links = 1 /\ ~Unfinished(f) /\ WholeFile(f)
<1>1. PICK size \in 0..(2 * Blocks) : f = File(size)
    BY OrphansAssumption DEF NewFiles
<1>2. Ceil(size) \in 0..Blocks
    BY SizeFacts
<1>3. /\ f \in InodeT /\ f.used /\ f.links = 1 /\ f.size = size /\ f.n = Ceil(size)
    BY <1>1, <1>2 DEF File, InodeT
<1> QED
    BY <1>2, <1>3 DEF Unfinished, WholeFile, FitsSize

(* The initial states satisfy the invariant.                               *)
LEMMA InitInv == Init => Inv
<1> SUFFICES ASSUME Init PROVE Inv
    OBVIOUS
<1>1. PICK f \in NewFiles :
         cur = [ino |-> [i \in Inodes |-> f], slot |-> [s \in Slots |-> 0], last |-> 0]
    BY DEF Init
<1>2. cur \in MetaT
    BY <1>1, NewFileFacts DEF MetaT
<1>3. TypeOK
  <2>1. NoJob \in JobT
    BY OrphansAssumption DEF NoJob, JobT, NoFile, InodeT
  <2> QED
    BY <1>2, <2>1, OrphansAssumption DEF Init, TypeOK
<1>4. Listed(cur) = {}
    BY <1>1, ChainHead, OrphansAssumption DEF Listed
<1>5. \A i \in Inodes : SlotsOf(cur, i) = {} /\ ~OnRecord(cur, i) /\ cur.ino[i] = f
    BY <1>1, <1>4, OrphansAssumption DEF SlotsOf, OnRecord, Listed
<1>6. WellFormed(cur)
    BY <1>1, <1>4 DEF WellFormed
<1>7. Good(cur, cutoff)
    BY <1>5, <1>6, NewFileFacts DEF Good, Recorded, NoneFreed, Whole
<1>8. Mended = cur /\ dur = cur
    BY DEF Init, Mended, Finishing
<1>9. CopyOK /\ JobOK /\ MountOK
    BY DEF Init, CopyOK, JobOK, MountOK, Mounting, Finishing
<1>10. OpenOK
    BY <1>5, NewFileFacts DEF Init, OpenOK, HoldersOK, HeldInodes
<1> QED
    BY <1>3, <1>7, <1>8, <1>9, <1>10 DEF Inv

-----------------------------------------------------------------------------
(* Operations.  The step of the bound changes nothing else.                *)
LEMMA OpCounted ==
    ASSUME TypeOK, CountOp
    PROVE  used' \in [ops : 0..MaxOps, crashes : 0..MaxCrashes]
    BY OrphansAssumption DEF TypeOK, CountOp

(* Between operations the metadata is good, and what is on the record is   *)
(* held.                                                                   *)
LEMMA IdleFacts ==
    ASSUME Inv, pc = "idle"
    PROVE  /\ cur \in MetaT /\ Good(cur, cutoff) /\ WellFormed(cur) /\ ~Mounting /\ ~Finishing
           /\ HoldersOK
           /\ \A i \in Inodes : OnRecord(cur, i) => i \in HeldInodes
           /\ \A i \in found \cup open : cur.ino[i].used /\ cur.ino[i].links = 0 => i \in HeldInodes
<1>1. ~Finishing /\ ~Mounting
    BY DEF Finishing, Mounting
<1>2. Good(cur, cutoff)
    BY <1>1, NothingToMend DEF Inv
<1> QED
    BY <1>1, <1>2 DEF Inv, TypeOK, OpenOK, Worked, Good

(* A step that keeps who holds what, the links and the record of the held. *)
LEMMA HoldersKept ==
    ASSUME TypeOK, HoldersOK, UNCHANGED <<open, orphan, closing, stale>>,
           \A j \in Inodes : /\ cur'.ino[j].links = cur.ino[j].links
                             /\ cur.ino[j].used => cur'.ino[j].used,
           \A j \in HeldInodes : OnRecord(cur', j)
    PROVE  HoldersOK'
<1>1. open \subseteq Inodes /\ stale \subseteq Inodes /\ HeldInodes \subseteq Inodes /\ HeldInodes' = HeldInodes
    BY DEF TypeOK, HeldInodes
<1> QED
    BY <1>1 DEF HoldersOK

(* Create preserves the invariant.                                         *)
LEMMA CreateInv ==
    ASSUME NEW i \in Inodes, Inv, Create(i)
    PROVE  Inv'
<1>1. pc = "idle" /\ pc' = "idle" /\ ~cur.ino[i].used
    BY DEF Create, Idle
<1>2. PICK f \in NewFiles : cur' = [cur EXCEPT !.ino[i] = f]
    BY DEF Create
<1>3. /\ stale' = stale \ {i} /\ (dur' = dur \/ dur' = cur')
      /\ UNCHANGED <<found, open, orphan, closing, job, at, cutoff>>
    BY DEF Create, OpEnd
<1>4. ~OnRecord(cur, i) /\ i \notin Listed(cur)
    BY <1>1, IdleFacts DEF Good, NoneFreed, OnRecord, Listed
<1>5. f \in InodeT /\ f.used /\ f.links = 1 /\ ~Unfinished(f) /\ WholeFile(f)
    BY NewFileFacts
<1>6. cur' \in MetaT /\ Kept(cur, cur', i) /\ cur'.ino[i] = f
    BY <1>1, <1>2, <1>4, <1>5, IdleFacts, WriteInode
<1>7. GoodAt(cur', cutoff, i)
    BY <1>5, <1>6 DEF GoodAt
<1>8. Good(cur', cutoff')
    BY <1>1, <1>3, <1>6, <1>7, IdleFacts, GoodKept
<1>9. Good(dur', cutoff')
    BY <1>3, <1>8 DEF Inv
<1>10. TypeOK'
    BY <1>1, <1>3, <1>6, OpCounted DEF Inv, TypeOK, Create, Idle
<1>11. ~Finishing' /\ ~Mounting'
    BY <1>1 DEF Finishing, Mounting
<1>12. CopyOK' /\ JobOK' /\ MountOK'
    BY <1>1, <1>11 DEF CopyOK, JobOK, MountOK
<1>13. OpenOK'
  <2>1. \A j \in Inodes \ {i} : cur'.ino[j].used = cur.ino[j].used /\ cur'.ino[j].links = cur.ino[j].links
    BY <1>6 DEF Kept, OthersSame, SameFile
  <2>2. /\ open \subseteq Inodes /\ found \subseteq Inodes /\ stale \subseteq Inodes /\ HeldInodes \subseteq Inodes
        /\ i \notin HeldInodes /\ HeldInodes' = HeldInodes
    BY <1>1, <1>3, <1>4, IdleFacts DEF Inv, TypeOK, HoldersOK, HeldInodes
  <2>3. \A j \in Inodes : OnRecord(cur', j) <=> OnRecord(cur, j)
    BY <1>6 DEF Kept
  <2>4. \A j \in open \ stale' : cur'.ino[j].used /\ (j \in orphan \/ cur'.ino[j].links = 1)
    BY <1>1, <1>3, <1>5, <1>6, <2>1, <2>2, IdleFacts DEF HoldersOK
  <2>5. HoldersOK'
    BY <1>1, <1>3, <2>1, <2>2, <2>3, <2>4, IdleFacts DEF HoldersOK
  <2> QED
    BY <1>1, <1>3, <1>5, <1>6, <2>1, <2>2, <2>3, <2>5, IdleFacts DEF OpenOK
<1> QED
    BY <1>8, <1>9, <1>10, <1>11, <1>12, <1>13, NothingToMend DEF Inv

(* Looking up, retaining and closing change only who holds the file, and   *)
(* wait for no operation.                                                  *)
LEMMA HolderStep ==
    ASSUME Inv, MountDone, UNCHANGED <<cur, dur, pc, job, at, cutoff>>, TypeOK', HeldInodes' = HeldInodes,
           HoldersOK',
           \A i \in (found \cup open)' \ (found \cup open) : cur.ino[i].links # 0
    PROVE  Inv'
<1>1. ~Finishing /\ ~Mounting /\ ~Finishing' /\ ~Mounting'
    BY DEF MountDone, Finishing, Mounting
<1>2. /\ CopyOK' /\ MountOK' /\ Good(cur', cutoff') /\ Good(dur', cutoff')
    BY <1>1, NothingToMend DEF Inv, CopyOK, MountOK, Keep
<1>3. JobOK'
    BY DEF Inv, JobOK
<1>4. OpenOK'
    BY <1>1 DEF Inv, OpenOK, Worked
<1> QED
    BY <1>1, <1>2, <1>3, <1>4, NothingToMend DEF Inv

(* Lookup preserves the invariant.                                         *)
LEMMA LookupInv ==
    ASSUME NEW i \in Inodes, Inv, Lookup(i)
    PROVE  Inv'
<1>1. /\ MountDone /\ CountOp /\ cur.ino[i].links = 1 /\ found' = found \cup {i}
      /\ UNCHANGED <<cur, dur, open, orphan, closing, pc, job, at, cutoff, stale>>
    BY DEF Lookup
<1>2. TypeOK' /\ HeldInodes' = HeldInodes
    BY <1>1, OpCounted DEF Inv, TypeOK, HeldInodes
<1>3. HoldersOK'
    BY <1>1, <1>2 DEF Inv, OpenOK, HoldersOK
<1> QED
    BY <1>1, <1>2, <1>3, HolderStep

(* Retain preserves the invariant: what has lost its last name is stale.   *)
LEMMA RetainInv ==
    ASSUME NEW i \in Inodes, Inv, Retain(i)
    PROVE  Inv'
<1>1. /\ MountDone /\ i \in found /\ found' = found \ {i} /\ open' = open \cup {i}
      /\ stale' = IF i \in open \/ cur.ino[i].links = 1 THEN stale ELSE stale \cup {i}
      /\ UNCHANGED <<cur, dur, orphan, closing, pc, job, at, cutoff, used>>
    BY DEF Retain
<1>2. TypeOK' /\ HeldInodes' = HeldInodes
    BY <1>1 DEF Inv, TypeOK, HeldInodes
<1>3. cur.ino[i].links \in {0, 1} /\ (cur.ino[i].links = 1 => cur.ino[i].used)
  <2>1. ~Finishing
    BY <1>1 DEF MountDone, Finishing
  <2> QED
    BY <2>1, NothingToMend DEF Inv, TypeOK, MetaT, InodeT, Good, Whole, WholeFile
<1>4. HoldersOK'
    BY <1>1, <1>2, <1>3 DEF Inv, OpenOK, HoldersOK, TypeOK
<1> QED
    BY <1>1, <1>2, <1>4, HolderStep

(* Close preserves the invariant: an orphan is held until it is released.  *)
LEMMA CloseInv ==
    ASSUME NEW i \in Inodes, Inv, Close(i)
    PROVE  Inv'
<1>1. /\ MountDone /\ i \in open /\ open' = open \ {i} /\ orphan' = orphan \ {i} /\ stale' = stale \ {i}
      /\ closing' = IF i \in orphan THEN closing \cup {i} ELSE closing
      /\ UNCHANGED <<cur, dur, found, pc, job, at, cutoff, used>>
    BY DEF Close
<1>2. TypeOK'
    BY <1>1 DEF Inv, TypeOK
<1>3. HeldInodes' = HeldInodes
    BY <1>1 DEF HeldInodes
<1>4. HoldersOK'
    BY <1>1, <1>3 DEF Inv, OpenOK, HoldersOK
<1> QED
    BY <1>1, <1>2, <1>3, <1>4, HolderStep

(* Sync preserves the invariant.                                           *)
LEMMA SyncInv ==
    ASSUME Inv, Sync
    PROVE  Inv'
<1>1. pc = "idle" /\ pc' = "idle" /\ dur' = cur
    BY DEF Sync
<1>2. UNCHANGED <<cur, found, open, orphan, closing, job, at, cutoff, stale, used>>
    BY DEF Sync
<1>3. ~Finishing' /\ ~Mounting'
    BY <1>1 DEF Finishing, Mounting
<1>4. TypeOK'
    BY <1>1, <1>2 DEF Inv, TypeOK
<1>5. CopyOK' /\ JobOK' /\ MountOK'
    BY <1>1, <1>3 DEF CopyOK, JobOK, MountOK
<1>6. OpenOK'
    BY <1>1, <1>2, <1>3 DEF Inv, OpenOK, HoldersOK, HeldInodes, Worked, Mounting, Finishing
<1>7. Good(cur', cutoff') /\ Good(dur', cutoff')
    BY <1>1, <1>2, IdleFacts
<1> QED
    BY <1>3, <1>4, <1>5, <1>6, <1>7, NothingToMend DEF Inv

(* Unlink preserves the invariant: the file goes on the record before its  *)
(* name is gone.                                                           *)
LEMMA UnlinkInv ==
    ASSUME NEW i \in Inodes, Inv, Unlink(i)
    PROVE  Inv'
<1> DEFINE in == [cur.ino[i] EXCEPT !.links = 0]
<1>1. pc = "idle" /\ cur.ino[i].used /\ cur.ino[i].links = 1
    BY DEF Unlink, Idle
<1>2. cur' = x4_orphan_add(cur, i, in) /\ UNCHANGED <<found, open, closing, at, cutoff, stale>>
    BY DEF Unlink, ext2_put_unlinked
<1>3. ~OnRecord(cur, i) /\ i \notin HeldInodes /\ i \notin stale
    BY <1>1, IdleFacts DEF HoldersOK
<1>4. in \in InodeT /\ in.used /\ in.links = 0
    BY <1>1, IdleFacts DEF MetaT, InodeT
<1> HIDE DEF in
<1>5. cur' \in MetaT /\ Added(cur, cur', i) /\ SameFile(cur'.ino[i], in)
    BY <1>1, <1>2, <1>3, <1>4, IdleFacts, AddRecord
<1>6. cur'.ino[i].used /\ cur'.ino[i].links = 0 /\ OnRecord(cur', i)
    BY <1>4, <1>5 DEF Added, SameFile
<1>7. GoodAt(cur', cutoff, i)
    BY <1>6 DEF GoodAt, WholeFile
<1>8. Good(cur', cutoff')
    BY <1>1, <1>2, <1>5, <1>7, IdleFacts, GoodAdded
<1>9. /\ \A j \in Inodes \ {i} : cur'.ino[j].used = cur.ino[j].used /\ cur'.ino[j].links = cur.ino[j].links
      /\ \A j \in Inodes : OnRecord(cur', j) <=> OnRecord(cur, j) \/ j = i
    BY <1>5 DEF Added, OthersSame, SameFile
<1>10. open \subseteq Inodes /\ found \subseteq Inodes /\ stale \subseteq open /\ HeldInodes \subseteq Inodes
    BY DEF Inv, TypeOK, HeldInodes
<1>11. /\ HoldersOK /\ (\A j \in Inodes : OnRecord(cur, j) => j \in HeldInodes)
       /\ \A j \in found \cup open : cur.ino[j].used /\ cur.ino[j].links = 0 => j \in HeldInodes
    BY <1>1, IdleFacts
<1>12. CASE i \in open
  <2>1. orphan' = orphan \cup {i} /\ pc' = "idle" /\ job' = job /\ (dur' = dur \/ dur' = cur')
    BY <1>1, <1>12 DEF Unlink, ext2_put_unlinked, OpEnd
  <2>2. ~Finishing' /\ ~Mounting'
    BY <2>1 DEF Finishing, Mounting
  <2>3. TypeOK'
    BY <1>2, <1>5, <1>12, <2>1, OpCounted DEF Inv, TypeOK, Unlink, Idle
  <2>4. CopyOK' /\ JobOK' /\ MountOK'
    BY <2>1, <2>2 DEF CopyOK, JobOK, MountOK
  <2>5. OpenOK'
    <3>1. HeldInodes' = HeldInodes \cup {i}
      BY <1>2, <2>1 DEF HeldInodes
    <3>2. HoldersOK'
      BY <1>2, <1>3, <1>6, <1>9, <1>10, <1>11, <2>1, <3>1 DEF HoldersOK, HeldInodes
    <3> QED
      BY <1>2, <1>9, <1>10, <1>11, <2>1, <3>1, <3>2 DEF OpenOK
  <2>6. Good(dur', cutoff')
    BY <1>2, <1>8, <2>1 DEF Inv
  <2> QED
    BY <1>8, <2>2, <2>3, <2>4, <2>5, <2>6, NothingToMend DEF Inv
<1>13. CASE i \notin open
  <2>1. orphan' = orphan /\ dur' = dur /\ StartJob("delete", i, cur'.ino[i], 0)
    BY <1>13 DEF Unlink, ext2_put_unlinked
  <2>2. /\ pc' = "job" /\ job'.kind = "delete" /\ job'.ino = i /\ job'.in = cur'.ino[i]
        /\ job'.size = 0 /\ job'.link = cur.ino[i].next
    BY <2>1 DEF StartJob
  <2>3. job' \in JobT
    <3>1. cur.ino[i].next \in Inodes \cup {0} /\ cur'.ino[i] \in InodeT
      BY <1>1, <1>5, IdleFacts DEF MetaT, InodeT
    <3> QED
      BY <2>1, <3>1, OrphansAssumption DEF StartJob, JobT
  <2>4. ~Finishing' /\ ~Mounting'
    BY <2>2 DEF Finishing, Mounting
  <2>5. TypeOK'
    BY <1>2, <1>5, <2>1, <2>2, <2>3, OpCounted, OrphansAssumption DEF Inv, TypeOK, Unlink, Idle
  <2>6. CopyOK'
    <3>1. cur'.ino[i] \in InodeT
      BY <1>5 DEF MetaT
    <3> QED
      BY <1>6, <2>2, <2>4, <3>1 DEF CopyOK, InodeT
  <2>7. JobOK'
    BY <1>2, <1>3, <1>6, <2>1, <2>2 DEF JobOK, HeldInodes
  <2>8. MountOK'
    BY <2>4 DEF MountOK
  <2>9. OpenOK'
    <3>1. HeldInodes' = HeldInodes
      BY <1>2, <2>1 DEF HeldInodes
    <3>2. HoldersOK'
      BY <1>2, <1>3, <1>9, <1>10, <1>11, <1>13, <2>1, <3>1 DEF HoldersOK
    <3> QED
      BY <1>2, <1>9, <1>10, <1>11, <2>2, <3>1, <3>2 DEF OpenOK, Worked
  <2>10. Good(dur', cutoff')
    BY <1>2, <2>1 DEF Inv
  <2> QED
    BY <1>8, <2>4, <2>5, <2>6, <2>7, <2>8, <2>9, <2>10, NothingToMend DEF Inv
<1> QED
    BY <1>12, <1>13

(* Release preserves the invariant: the inode stays on the record.         *)
LEMMA ReleaseInv ==
    ASSUME NEW i \in Inodes, Inv, Release(i)
    PROVE  Inv'
<1>1. pc = "idle" /\ i \in closing /\ closing' = closing \ {i} /\ StartJob("delete", i, cur.ino[i], 0)
    BY DEF Release
<1>2. UNCHANGED <<cur, dur, found, open, orphan, at, cutoff, stale, used>>
    BY DEF Release
<1>3. Good(cur', cutoff') /\ Good(dur', cutoff')
    BY <1>1, <1>2, IdleFacts DEF Inv
<1>4. /\ pc' = "job" /\ job'.kind = "delete" /\ job'.ino = i /\ job'.in = cur.ino[i]
      /\ job'.size = 0 /\ job'.link = cur.ino[i].next
    BY <1>1 DEF StartJob
<1>5. cur.ino[i] \in InodeT /\ cur.ino[i].next \in Inodes \cup {0}
    BY <1>1, IdleFacts DEF MetaT, InodeT
<1>6. job' \in JobT
    BY <1>1, <1>5, OrphansAssumption DEF StartJob, JobT
<1>7. ~Finishing' /\ ~Mounting'
    BY <1>4 DEF Finishing, Mounting
<1>8. TypeOK'
    BY <1>1, <1>2, <1>4, <1>6, OrphansAssumption DEF Inv, TypeOK
<1>9. cur.ino[i].links = 0 /\ OnRecord(cur, i) /\ cur.ino[i].used
    BY <1>1, IdleFacts DEF HoldersOK, HeldInodes, Good, NoneFreed
<1>10. HeldInodes' = HeldInodes \ {i}
    BY <1>1, <1>2, IdleFacts DEF HoldersOK, HeldInodes
<1>11. CopyOK'
    BY <1>2, <1>4, <1>5, <1>7, <1>9 DEF CopyOK, InodeT
<1>12. JobOK' /\ MountOK'
    BY <1>2, <1>4, <1>7, <1>9, <1>10 DEF JobOK, MountOK
<1>13. HoldersOK'
    BY <1>1, <1>2, <1>10, IdleFacts DEF HoldersOK
<1>14. OpenOK'
    BY <1>1, <1>2, <1>4, <1>10, <1>13, IdleFacts DEF OpenOK, Worked
<1> QED
    BY <1>3, <1>7, <1>8, <1>11, <1>12, <1>14, NothingToMend DEF Inv

(* Truncate preserves the invariant: a long cut is on the record first; a  *)
(* step of another can take no more than the last, partial block too much. *)
LEMMA TruncateInv ==
    ASSUME NEW i \in Inodes, NEW size \in 0..(2 * Blocks - 1), Inv, Truncate(i, size)
    PROVE  Inv'
<1> DEFINE on == cur.ino[i]
           orph == on.links = 1 /\ i \notin orphan /\ Floor(size) + 1 < Floor(on.size)
<1>1. pc = "idle" /\ i \in found \cup open /\ size < on.size
    BY DEF Truncate, Idle
<1>2. UNCHANGED <<dur, found, open, orphan, closing, at, cutoff, stale>> /\ HeldInodes' = HeldInodes
    BY DEF Truncate, HeldInodes
<1>3. on \in InodeT
    BY <1>1, IdleFacts DEF MetaT
<1>4. size \in 0..(2 * Blocks) /\ on.size \in 0..(2 * Blocks) /\ on.n \in Nat /\ on.links \in {0, 1}
    BY <1>3, OrphansAssumption DEF InodeT
<1>5. on.used
    BY <1>1, <1>4, IdleFacts DEF Good, Whole, WholeFile
<1>6. /\ Ceil(size) \in Nat /\ Floor(size) \in Nat /\ Floor(on.size) \in Nat
      /\ Ceil(size) <= Floor(on.size) /\ Floor(on.size) <= Ceil(on.size) /\ Ceil(on.size) \in Nat
    BY <1>1, <1>4, SizeFacts
<1>7. on.links = 1 => WholeFile(on) /\ Ceil(size) <= on.n
    BY <1>1, <1>4, <1>5, <1>6, IdleFacts DEF Good, Whole, WholeFile, FitsSize
<1>8. on.links = 0 => i \in HeldInodes
    BY <1>1, <1>5, IdleFacts
<1>9. i \in HeldInodes => on.links = 0
    BY <1>1, IdleFacts DEF HoldersOK
<1>10. CASE orph
  <2>1. cur' = x4_orphan_add(cur, i, on) /\ StartJob("cut", i, cur'.ino[i], size)
    BY <1>10 DEF Truncate
  <2>2. ~OnRecord(cur, i) /\ on.links = 1
    BY <1>1, <1>9, <1>10, IdleFacts
  <2> HIDE DEF on
  <2>3. cur' \in MetaT /\ Added(cur, cur', i) /\ SameFile(cur'.ino[i], on)
    BY <1>1, <1>3, <2>1, <2>2, IdleFacts, AddRecord
  <2>4. /\ cur'.ino[i] \in InodeT /\ cur'.ino[i].used /\ cur'.ino[i].links = 1
        /\ OnRecord(cur', i) /\ Ceil(size) <= cur'.ino[i].n
    BY <1>5, <1>7, <2>2, <2>3 DEF MetaT, Added, SameFile
  <2>5. WholeFile(cur'.ino[i])
    BY <1>7, <2>2, <2>3 DEF WholeFile, FitsSize, SameFile
  <2>6. GoodAt(cur', cutoff, i)
    BY <2>4, <2>5 DEF GoodAt
  <2>7. Good(cur', cutoff')
    BY <1>1, <1>2, <2>3, <2>6, IdleFacts, GoodAdded
  <2>8. /\ pc' = "job" /\ job'.kind = "cut" /\ job'.ino = i /\ job'.in = cur'.ino[i]
        /\ job'.size = size /\ job'.link = on.next
    BY <2>1 DEF StartJob, on
  <2>9. job' \in JobT
    <3>1. on.next \in Inodes \cup {0}
      BY <1>3 DEF InodeT
    <3> QED
      BY <1>4, <2>1, <2>4, <3>1 DEF StartJob, JobT, on
  <2>10. ~Finishing' /\ ~Mounting'
    BY <2>8 DEF Finishing, Mounting
  <2>11. TypeOK'
    BY <1>2, <2>3, <2>8, <2>9, OpCounted, OrphansAssumption DEF Inv, TypeOK, Truncate, Idle
  <2>12. CopyOK'
    BY <2>4, <2>8, <2>10 DEF CopyOK, InodeT, Keep
  <2>13. JobOK' /\ MountOK'
    BY <2>4, <2>8, <2>10 DEF JobOK, MountOK
  <2>14. OpenOK'
    <3>1. /\ \A j \in Inodes : /\ cur'.ino[j].links = cur.ino[j].links
                               /\ cur.ino[j].used => cur'.ino[j].used
          /\ \A j \in Inodes : OnRecord(cur', j) <=> OnRecord(cur, j) \/ j = i
      BY <2>2, <2>3, <2>4 DEF Added, OthersSame, SameFile, on
    <3>2. found \cup open \subseteq Inodes /\ HeldInodes \subseteq Inodes
      BY DEF Inv, TypeOK, HeldInodes
    <3>3. HoldersOK'
      BY <1>1, <1>2, <3>1, <3>2, IdleFacts, HoldersKept DEF Inv, HoldersOK
    <3>4. \A j \in found \cup open : cur'.ino[j].used /\ cur'.ino[j].links = 0 => j \in HeldInodes
      BY <1>1, <2>3, <2>4, <3>2, IdleFacts DEF Added, OthersSame, SameFile
    <3> QED
      BY <1>1, <1>2, <2>8, <3>1, <3>3, <3>4, IdleFacts DEF OpenOK, Worked
  <2>15. Good(dur', cutoff')
    BY <1>2 DEF Inv
  <2> QED
    BY <2>7, <2>10, <2>11, <2>12, <2>13, <2>14, <2>15, NothingToMend DEF Inv
<1>11. CASE ~orph
  <2>1. cur' = cur /\ StartJob("shrink", i, cur'.ino[i], size)
    BY <1>11 DEF Truncate
  <2>2. /\ pc' = "job" /\ job'.kind = "shrink" /\ job'.ino = i /\ job'.in = on
        /\ job'.size = size /\ job'.link = on.next
    BY <2>1 DEF StartJob
  <2>3. job' \in JobT
    <3>1. on.next \in Inodes \cup {0}
      BY <1>3 DEF InodeT
    <3> QED
      BY <1>3, <1>4, <2>1, <3>1 DEF StartJob, JobT
  <2>4. ~Finishing' /\ ~Mounting'
    BY <2>2 DEF Finishing, Mounting
  <2>5. TypeOK'
    BY <1>2, <2>1, <2>2, <2>3, OpCounted, OrphansAssumption DEF Inv, TypeOK, Truncate, Idle
  <2>6. CopyOK'
    BY <1>3, <1>4, <1>5, <1>7, <2>1, <2>2, <2>4 DEF CopyOK, InodeT, Keep
  <2>7. JobOK'
    <3>1. on.links # 0 => Floor(on.size) <= Floor(size) + 1
      BY <1>4, <1>6, <1>9, <1>11 DEF HeldInodes
    <3> QED
      BY <1>2, <1>8, <2>2, <3>1 DEF JobOK
  <2>8. MountOK'
    BY <2>4 DEF MountOK
  <2>9. OpenOK'
    <3>1. HoldersOK'
      BY <1>1, <1>2, <2>1, IdleFacts DEF HoldersOK
    <3> QED
      BY <1>1, <1>2, <2>1, <3>1, IdleFacts DEF OpenOK
  <2>10. Good(cur', cutoff') /\ Good(dur', cutoff')
    BY <1>1, <1>2, <2>1, IdleFacts DEF Inv
  <2> QED
    BY <2>4, <2>5, <2>6, <2>7, <2>8, <2>9, <2>10, NothingToMend DEF Inv
<1> QED
    BY <1>10, <1>11

-----------------------------------------------------------------------------
(* What a job knows of its inode.                                          *)
LEMMA JobFacts ==
    ASSUME Inv, pc = "job"
    PROVE  /\ cur \in MetaT /\ dur \in MetaT /\ job \in JobT /\ job.kind # "none"
           /\ job.ino \in Inodes /\ job.in \in InodeT /\ cur.ino[job.ino] \in InodeT
           /\ job.size \in 0..(2 * Blocks) /\ Keep \in 0..Blocks /\ job.link \in Inodes \cup {0}
           /\ job.in.used /\ cur.ino[job.ino].used /\ job.in.links = cur.ino[job.ino].links
           /\ job.in.n <= cur.ino[job.ino].n
           /\ job.in.links > 0 => IF job.kind = "fcut" THEN FitsSize(job.in) ELSE Keep <= job.in.n
<1>1. job.size \in 0..(2 * Blocks)
    BY DEF Inv, TypeOK, JobT
<1>2. Keep \in 0..Blocks
    BY <1>1, SizeFacts DEF Keep
<1> QED
    BY <1>1, <1>2 DEF Inv, TypeOK, CopyOK, JobT, MetaT

(* One block less in memory.                                               *)
LEMMA FreedFacts ==
    ASSUME Inv, pc = "job", job.in.n > Keep
    PROVE  /\ Freed \in InodeT /\ Freed.n = job.in.n - 1 /\ Freed.used
           /\ Freed.links = job.in.links /\ Freed.size = job.in.size /\ Freed.next = job.in.next
<1>1. job.in \in InodeT /\ Keep \in 0..Blocks /\ job.in.used
    BY JobFacts
<1>2. job.in.n - 1 \in 0..Blocks
    BY <1>1, OrphansAssumption DEF InodeT
<1> QED
    BY <1>1, <1>2 DEF Freed, InodeT

(* CutBlock preserves the invariant.                                       *)
LEMMA CutBlockInv ==
    ASSUME Inv, CutBlock
    PROVE  Inv'
<1>1. pc = "job" /\ job.in.n > Keep /\ job' = [job EXCEPT !.in = Freed]
    BY DEF CutBlock
<1>2. UNCHANGED <<cur, dur, found, open, orphan, closing, pc, at, cutoff, stale, used>> /\ HeldInodes' = HeldInodes
    BY DEF CutBlock, HeldInodes
<1>3. /\ job' \in JobT /\ job'.kind = job.kind /\ job'.ino = job.ino /\ job'.size = job.size
      /\ job'.link = job.link /\ job'.in = Freed /\ Keep' = Keep
    BY <1>1, JobFacts, FreedFacts DEF JobT, Keep
<1>4. Finishing' = Finishing /\ Mounting' = Mounting /\ InList' = InList /\ Entry' = Entry
    BY <1>2, <1>3 DEF Finishing, Mounting, InList, Entry
<1>5. Mended' = Mended
    BY <1>2, <1>3, <1>4 DEF Mended, Relinked
<1>6. TypeOK'
    BY <1>1, <1>2, <1>3 DEF Inv, TypeOK
<1>7. CopyOK'
  <2>1. job.in.n \in Nat /\ Keep \in Nat /\ cur.ino[job.ino].n \in Nat
    BY <1>1, JobFacts DEF InodeT
  <2>2. job'.in.n <= cur.ino[job.ino].n /\ Keep <= job'.in.n
    BY <1>1, <1>3, <2>1, JobFacts, FreedFacts
  <2>3. job.kind = "fcut" => Keep = Ceil(job'.in.size)
    BY <1>1, <1>3, FreedFacts DEF Inv, JobOK, Keep
  <2>4. job.kind = "fcut" => FitsSize(job'.in)
    BY <2>2, <2>3 DEF FitsSize
  <2> QED
    BY <1>1, <1>2, <1>3, <1>4, <2>2, <2>4, FreedFacts DEF Inv, CopyOK
<1>8. JobOK'
    BY <1>1, <1>2, <1>3, FreedFacts DEF Inv, JobOK
<1>9. OpenOK'
    BY <1>2, <1>3, <1>4 DEF Inv, OpenOK, HoldersOK, Worked
<1>10. MountOK'
    BY <1>2, <1>3, <1>4, <1>5 DEF Inv, MountOK
<1> QED
    BY <1>2, <1>5, <1>6, <1>7, <1>8, <1>9, <1>10 DEF Inv

(* What is on the record of a job outside a mount.                         *)
LEMMA WorkFacts ==
    ASSUME Inv, pc = "job", ~Finishing
    PROVE  /\ Good(cur, cutoff) /\ WellFormed(cur) /\ ~Mounting
           /\ job.kind \in {"delete", "cut", "shrink"}
           /\ job.in.next = cur.ino[job.ino].next
           /\ HoldersOK
           /\ \A i \in Inodes : OnRecord(cur, i) => i \in HeldInodes \/ Worked(i)
           /\ \A i \in found \cup open :
                 cur.ino[i].used /\ cur.ino[i].links = 0 => i \in HeldInodes \/ Worked(i)
<1>1. ~Mounting
    BY DEF Mounting
<1>2. Good(cur, cutoff)
    BY NothingToMend DEF Inv
<1>3. job.kind \in {"delete", "cut", "shrink"}
    BY JobFacts DEF Finishing, JobT
<1> QED
    BY <1>1, <1>2, <1>3 DEF Inv, OpenOK, CopyOK, Good

(* What the mount knows of the orphan it works on.                         *)
LEMMA FinishFacts ==
    ASSUME Inv, Finishing
    PROVE  /\ pc = "job" /\ Mounting /\ at \in 1..(NSlots + 1)
           /\ found = {} /\ open = {} /\ orphan = {} /\ closing = {} /\ stale = {}
           /\ \A s \in Slots : s < at => cur.slot[s] = 0
           /\ Listed(Mended) \subseteq Listed(dur) \cup cutoff
           /\ Entry = job.ino /\ Good(Mended, cutoff) /\ WellFormed(Mended)
           /\ job.kind = "fdelete" \/ job.kind = "fcut"
           /\ job.kind = "fdelete" => job.in.links = 0 /\ job.size = 0 /\ job.in.next = job.link
           /\ job.kind = "fcut" => job.in.links = 1 /\ job.size = job.in.size /\ job.in.next = 0
           /\ job.in.size = cur.ino[job.ino].size
<1>1. pc = "job" /\ Mounting /\ (job.kind = "fdelete" \/ job.kind = "fcut")
    BY DEF Finishing, Mounting
<1>2. at \in 1..(NSlots + 1)
    BY <1>1, OrphansAssumption DEF Inv, MountOK, TypeOK
<1>3. /\ job.kind = "fdelete" => job.in.links = 0 /\ job.size = 0 /\ job.in.next = job.link
      /\ job.kind = "fcut" => job.in.links = 1 /\ job.size = job.in.size /\ job.in.next = 0
    BY <1>1 DEF Inv, JobOK
<1> QED
    BY <1>1, <1>2, <1>3 DEF Inv, MountOK, TypeOK, CopyOK, Good

(* The mended metadata: the inode being finished has its link back.        *)
LEMMA MendedFacts ==
    ASSUME Inv, Finishing, InList
    PROVE  /\ Mended = [cur EXCEPT !.ino[job.ino] = [cur.ino[job.ino] EXCEPT !.next = job.link]]
           /\ Mended \in MetaT /\ Mended.slot = cur.slot /\ Mended.last = cur.last
           /\ cur.last = job.ino /\ Mended.ino[job.ino].next = job.link
           /\ SameFile(Mended.ino[job.ino], cur.ino[job.ino])
           /\ \A j \in Inodes \ {job.ino} : Mended.ino[j] = cur.ino[j]
<1> DEFINE J == [cur.ino[job.ino] EXCEPT !.next = job.link]
<1>1. Mended = [cur EXCEPT !.ino[job.ino] = J]
    BY DEF Mended, Relinked
<1>2. cur \in MetaT /\ job.ino \in Inodes /\ J \in InodeT /\ J.next = job.link
    BY FinishFacts, JobFacts DEF InodeT
<1>3. SameFile(J, cur.ino[job.ino])
    BY FinishFacts, JobFacts DEF InodeT, SameFile
<1>4. cur.last = job.ino
    BY FinishFacts DEF Entry
<1> HIDE DEF J
<1>5. /\ Mended \in MetaT /\ Mended.slot = cur.slot /\ Mended.last = cur.last /\ Mended.ino[job.ino] = J
      /\ \A j \in Inodes \ {job.ino} : Mended.ino[j] = cur.ino[j]
    BY <1>1, <1>2 DEF MetaT
<1> QED
    BY <1>1, <1>2, <1>3, <1>4, <1>5 DEF J

(* In the slots, the inode being finished is not on the list.              *)
LEMMA InSlotFacts ==
    ASSUME Inv, Finishing, ~InList
    PROVE  /\ Mended = cur /\ Good(cur, cutoff) /\ WellFormed(cur)
           /\ at \in Slots /\ cur.slot[at] = job.ino /\ job.ino \notin Listed(cur)
<1>1. Mended = cur /\ at \in Slots /\ cur.slot[at] = job.ino
    BY FinishFacts, OrphansAssumption DEF Mended, InList, Slots, Entry
<1>2. Good(cur, cutoff) /\ WellFormed(cur)
    BY <1>1, FinishFacts DEF Good
<1>3. job.ino \notin Listed(cur)
    BY <1>1, <1>2 DEF WellFormed, SlotsOf
<1> QED
    BY <1>1, <1>2, <1>3

(* What a step writes.                                                     *)
Stepped == [ext2_write_inode_step(Freed) EXCEPT !.torn = (job.kind = "shrink")]

LEMMA StepFacts ==
    ASSUME Inv, pc = "job", job.in.n > Keep + 1
    PROVE  /\ Stepped \in InodeT /\ Stepped.used /\ Stepped.links = job.in.links
           /\ Stepped.next = job.in.next /\ Stepped.n = job.in.n - 1
           /\ Stepped.size = IF job.kind = "cut" THEN job.size ELSE job.in.size
           /\ Stepped.torn = (job.kind = "shrink")
<1>1. job.in.n > Keep
    BY JobFacts DEF InodeT
<1>2. /\ Freed \in InodeT /\ Freed.n = job.in.n - 1 /\ Freed.used
      /\ Freed.links = job.in.links /\ Freed.size = job.in.size /\ Freed.next = job.in.next
    BY <1>1, FreedFacts
<1>3. job.size \in 0..(2 * Blocks)
    BY JobFacts
<1> DEFINE w == ext2_write_inode_step(Freed)
<1>4. /\ w \in InodeT /\ w.used /\ w.links = job.in.links /\ w.next = job.in.next
      /\ w.n = job.in.n - 1 /\ w.size = IF job.kind = "cut" THEN job.size ELSE job.in.size
    BY <1>2, <1>3 DEF ext2_write_inode_step, InodeT
<1> HIDE DEF w
<1>5. Stepped = [w EXCEPT !.torn = (job.kind = "shrink")]
    BY DEF Stepped, w
<1> QED
    BY <1>4, <1>5 DEF InodeT

(* CutStep preserves the invariant: whatever a step of a job commits, the  *)
(* next mount finds what is left to do on the record, but for the list     *)
(* behind a file that the mount itself cuts.                               *)
LEMMA CutStepInv ==
    ASSUME Inv, CutStep
    PROVE  Inv'
<1> DEFINE i == job.ino  w == Stepped
<1>1. /\ pc = "job" /\ job.in.n > Keep + 1 /\ job' = [job EXCEPT !.in = Freed]
      /\ cur' = [cur EXCEPT !.ino[i] = w] /\ dur' = cur'
    BY DEF CutStep, Stepped
<1>2. UNCHANGED <<found, open, orphan, closing, pc, at, stale, used>> /\ HeldInodes' = HeldInodes
    BY DEF CutStep, HeldInodes
<1>3. cutoff' = IF job.kind = "fcut" /\ InList THEN cutoff \cup Chain(cur, job.link) ELSE cutoff
    BY DEF CutStep, InList
<1>4. /\ w \in InodeT /\ w.used /\ w.links = job.in.links /\ w.next = job.in.next
      /\ w.n = job.in.n - 1 /\ w.size = IF job.kind = "cut" THEN job.size ELSE job.in.size
      /\ w.torn = (job.kind = "shrink")
    BY <1>1, StepFacts
<1> HIDE DEF w
<1>5. /\ job.in.n \in Nat /\ Keep \in Nat /\ cur.ino[i].n \in Nat /\ i \in Inodes /\ cur \in MetaT
      /\ job.in.size \in 0..(2 * Blocks) /\ job.size \in 0..(2 * Blocks)
    BY <1>1, JobFacts DEF InodeT
<1>6. job.in.n > Keep /\ w.n \in Nat /\ w.n > Keep
    BY <1>1, <1>4, <1>5
<1>7. /\ job' \in JobT /\ job'.kind = job.kind /\ job'.ino = job.ino /\ job'.size = job.size
      /\ job'.link = job.link /\ job'.in = Freed /\ Keep' = Keep
    BY <1>1, <1>6, JobFacts, FreedFacts DEF JobT, Keep
<1>8. cur' \in MetaT /\ cur'.ino[i] = w /\ cur'.slot = cur.slot /\ cur'.last = cur.last
    BY <1>1, <1>4, <1>5 DEF MetaT
<1>9. \A j \in Inodes \ {i} : cur'.ino[j] = cur.ino[j]
    BY <1>1, <1>5 DEF MetaT
<1>10. Finishing' = Finishing /\ Mounting' = Mounting /\ InList' = InList
    BY <1>2, <1>7 DEF Finishing, Mounting, InList
<1>11. TypeOK'
  <2>1. cutoff' \subseteq Inodes
    BY <1>3, ChainHead DEF Inv, TypeOK
  <2> QED
    BY <1>1, <1>2, <1>7, <1>8, <2>1 DEF Inv, TypeOK
<1>12. CopyOK'
  <2>1. /\ Freed.n = job.in.n - 1 /\ Freed.used
        /\ Freed.links = job.in.links /\ Freed.size = job.in.size /\ Freed.next = job.in.next
    BY <1>1, <1>6, FreedFacts
  <2>2. job.kind = "fcut" => Keep = Ceil(Freed.size)
    BY <1>1, <2>1 DEF Inv, JobOK, Keep
  <2>3. job.kind = "fcut" => FitsSize(Freed)
    BY <1>4, <1>5, <1>6, <2>1, <2>2 DEF FitsSize
  <2> QED
    BY <1>2, <1>4, <1>5, <1>6, <1>7, <1>8, <1>10, <2>1, <2>3 DEF CopyOK
<1>13. Freed.links = job.in.links /\ Freed.size = job.in.size /\ Freed.next = job.in.next
    BY <1>1, <1>6, FreedFacts
<1>14. CASE ~Finishing
  <2>1. cutoff' = cutoff
    BY <1>1, <1>3, <1>14 DEF Finishing
  <2>2. Kept(cur, cur', i)
    BY <1>1, <1>4, <1>5, <1>14, WorkFacts, WriteInode
  <2>3. OnRecord(cur', i) <=> OnRecord(cur, i)
    BY <1>5, <2>2 DEF Kept
  <2>4. GoodAt(cur', cutoff, i)
    <3>1. WholeFile(w)
      <4>1. ASSUME job.kind = "shrink", job.in.links # 0 PROVE FitsSize(w)
        <5>1. Floor(job.in.size) <= Floor(job.size) + 1
          BY <1>1, <4>1 DEF Inv, JobOK
        <5>2. Floor(job.in.size) \in Nat /\ Floor(job.size) \in Nat /\ Floor(job.size) <= Keep
          BY <1>5, SizeFacts DEF Keep
        <5>3. w.torn
          BY <1>4, <4>1, Zenon
        <5>4. w.size = job.in.size /\ w.n > Keep
          BY <1>4, <1>6, <4>1
        <5>5. w.n >= Floor(w.size)
          BY <1>5, <1>6, <5>1, <5>2, <5>4
        <5> QED
          BY <5>3, <5>5 DEF FitsSize
      <4>2. job.kind = "delete" => job.in.links = 0
        BY <1>1 DEF Inv, JobOK
      <4>3. job.kind = "cut" => FitsSize(w)
        BY <1>4, <1>5, <1>6 DEF FitsSize, Keep
      <4> QED
        BY <1>1, <1>4, <1>14, <4>1, <4>2, <4>3, WorkFacts DEF WholeFile
    <3>2. i \notin cutoff /\ Unfinished(w) => OnRecord(cur, i)
      <4>1. job.kind \in {"delete", "cut"} => OnRecord(cur, i)
        BY <1>1 DEF Inv, JobOK
      <4>2. job.kind = "shrink" /\ job.in.links = 0 => OnRecord(cur, i)
        BY <1>1, <1>14, WorkFacts DEF Inv, JobOK, HoldersOK
      <4>3. ASSUME job.kind = "shrink", job.in.links # 0, Unfinished(w), i \notin cutoff
            PROVE  OnRecord(cur, i)
        <5>1. job.in.size = cur.ino[i].size /\ job.in.n <= cur.ino[i].n /\ cur.ino[i].used
          BY <1>1, <4>3 DEF Inv, CopyOK
        <5>2. w.n > Ceil(w.size) /\ Ceil(w.size) \in Nat /\ w.size = job.in.size
          BY <1>4, <1>5, <4>3, SizeFacts DEF Unfinished
        <5>3. Unfinished(cur.ino[i])
          BY <1>4, <1>5, <4>3, <5>1, <5>2 DEF Unfinished
        <5> QED
          BY <1>1, <1>5, <1>14, <4>3, <5>3, WorkFacts DEF Good, Recorded
      <4> QED
        BY <1>1, <1>14, <4>1, <4>2, <4>3, WorkFacts
    <3> QED
      BY <1>4, <1>8, <2>3, <3>1, <3>2 DEF GoodAt
  <2>5. Good(cur', cutoff')
    BY <1>1, <1>5, <1>14, <2>1, <2>2, <2>4, WorkFacts, GoodKept
  <2>6. JobOK'
    BY <1>1, <1>2, <1>7, <1>13, <1>14, <2>3, WorkFacts DEF Inv, JobOK
  <2>7. MountOK'
    BY <1>1, <1>10, <1>14, WorkFacts DEF MountOK
  <2>8. OpenOK'
    <3>1. \A j \in Inodes : /\ cur'.ino[j].links = cur.ino[j].links
                            /\ cur.ino[j].used => cur'.ino[j].used
                            /\ cur'.ino[j].used => cur.ino[j].used
                            /\ OnRecord(cur', j) <=> OnRecord(cur, j)
      BY <1>1, <1>4, <1>8, <1>9, <2>2, JobFacts DEF Kept
    <3>2. found \cup open \subseteq Inodes /\ HeldInodes \subseteq Inodes
      BY DEF Inv, TypeOK, HeldInodes
    <3>3. HoldersOK'
      BY <1>1, <1>2, <1>14, <3>1, <3>2, WorkFacts, HoldersKept DEF Inv, HoldersOK
    <3>4. \A j \in Inodes : Worked(j) => Worked(j)'
      BY <1>2, <1>7 DEF Worked
    <3> QED
      BY <1>1, <1>2, <1>14, <3>1, <3>2, <3>3, <3>4, WorkFacts DEF OpenOK
  <2> QED
    BY <1>1, <1>10, <1>11, <1>12, <1>14, <2>5, <2>6, <2>7, <2>8, NothingToMend DEF Inv
<1>15. CASE Finishing
  <2>1. JobOK'
    BY <1>2, <1>7, <1>13, <1>15 DEF Inv, JobOK, Finishing
  <2>2. OpenOK'
    BY <1>2, <1>10, <1>15, FinishFacts DEF OpenOK, HoldersOK, HeldInodes
  <2>3. Entry' = job'.ino
    BY <1>2, <1>7, <1>8, <1>15, FinishFacts DEF Entry, InList
  <2>4. WholeFile(w)
    BY <1>4, <1>5, <1>6, <1>15, FinishFacts DEF WholeFile, FitsSize, Keep
  <2>5. CASE ~InList
    <3>1. Mended = cur /\ Mended' = cur' /\ cutoff' = cutoff
      BY <1>3, <1>10, <2>5 DEF Mended
    <3>2. Kept(cur, cur', i)
      BY <1>1, <1>4, <1>5, <1>15, <2>5, InSlotFacts, WriteInode
    <3>3. OnRecord(cur', i)
      <4>1. at \in SlotsOf(cur', i)
        BY <1>8, <1>15, <2>5, InSlotFacts DEF SlotsOf
      <4> QED
        BY <4>1 DEF OnRecord
    <3>4. GoodAt(cur', cutoff, i)
      BY <1>4, <1>8, <2>4, <3>3 DEF GoodAt
    <3>5. Good(cur', cutoff')
      BY <1>5, <1>15, <2>5, <3>1, <3>2, <3>4, InSlotFacts, GoodKept
    <3>6. MountOK'
      BY <1>1, <1>2, <1>8, <1>15, <2>3, <3>1, FinishFacts DEF MountOK
    <3> QED
      BY <1>1, <1>11, <1>12, <2>1, <2>2, <3>1, <3>5, <3>6 DEF Inv
  <2>6. CASE InList
    <3> DEFINE v == [w EXCEPT !.next = job.link]
    <3>1. v \in InodeT /\ v.next = job.link /\ SameFile(v, w)
      BY <1>1, <1>4, JobFacts DEF InodeT, SameFile
    <3>2. Mended' = [cur' EXCEPT !.ino[i] = v]
      BY <1>7, <1>8, <1>10, <1>15, <2>6 DEF Mended, Relinked
    <3>3. Mended' = [Mended EXCEPT !.ino[i] = v]
      <4>1. Mended' = [cur EXCEPT !.ino[i] = v]
        BY <1>1, <1>5, <3>2 DEF MetaT
      <4>2. Mended = [cur EXCEPT !.ino[i] = [cur.ino[i] EXCEPT !.next = job.link]]
        BY <1>15, <2>6, MendedFacts
      <4> HIDE DEF v
      <4> QED
        BY <1>5, <4>1, <4>2 DEF MetaT
    <3> HIDE DEF v
    <3>4. Mended' \in MetaT /\ Kept(Mended, Mended', i) /\ Mended'.ino[i] = v
      BY <1>5, <1>15, <2>6, <3>1, <3>3, MendedFacts, FinishFacts, WriteInode
    <3>5. Mended'.last = i /\ i \in Listed(Mended')
      <4>1. Mended'.last = Mended.last
        BY <1>15, <2>6, <3>3, MendedFacts DEF MetaT
      <4> QED
        BY <1>5, <1>15, <2>6, <4>1, MendedFacts, ChainHead DEF Listed
    <3>6. OnRecord(Mended', i)
      BY <3>5 DEF OnRecord, Listed
    <3>7. GoodAt(Mended', cutoff, i)
      BY <1>4, <2>4, <3>1, <3>4, <3>6 DEF GoodAt, SameFile, WholeFile, FitsSize
    <3>8. Good(Mended', cutoff)
      BY <1>5, <1>15, <3>4, <3>7, FinishFacts, GoodKept
    <3>9. Listed(Mended') \subseteq Listed(dur) \cup cutoff
      BY <1>15, <3>4, FinishFacts DEF Kept
    <3>10. \A s \in Slots : s < at' => cur'.slot[s] = 0
      BY <1>2, <1>8, <1>15, FinishFacts
    <3>11. CASE job.kind = "fdelete"
      <4>1. v = w
        BY <1>4, <1>15, <3>11, FinishFacts DEF v, InodeT
      <4>2. Mended' = cur' /\ cutoff' = cutoff
        BY <1>3, <1>8, <3>2, <3>11, <4>1 DEF MetaT
      <4>3. MountOK'
        BY <1>1, <1>2, <1>15, <2>3, <3>10, <4>2, FinishFacts DEF MountOK
      <4> QED
        BY <1>1, <1>11, <1>12, <2>1, <2>2, <3>8, <4>2, <4>3 DEF Inv
    <3>12. CASE job.kind = "fcut"
      <4>1. cutoff' = cutoff \cup Chain(cur, job.link) /\ w.next = 0
        BY <1>3, <1>4, <1>15, <2>6, <3>12, FinishFacts
      <4>0. Listed(Mended) \subseteq {i} \cup Chain(cur, job.link)
        <5>1. Linked(cur, Chain(cur, job.link)) /\ Chain(cur, job.link) \subseteq Inodes
          BY ChainLinked, ChainHead
        <5>2. Linked(Mended, {i} \cup Chain(cur, job.link))
          BY <1>5, <1>15, <2>6, <5>1, MendedFacts, ChainHead DEF Linked
        <5> QED
          BY <1>5, <1>15, <2>6, <5>1, <5>2, MendedFacts, ChainLeast DEF Listed
      <4>2. cur'.last = i
        BY <1>8, <1>15, <2>6, MendedFacts
      <4>3. Listed(cur') = {i}
        <5>1. Linked(cur', {i})
          BY <1>8, <4>1, OrphansAssumption DEF Linked
        <5> QED
          BY <1>5, <4>2, <5>1, ChainHead, ChainLeast DEF Listed
      <4>4. i \in Listed(Mended) /\ (\A s, t \in Slots : cur.slot[s] # 0 /\ cur.slot[s] = cur.slot[t] => s = t)
        BY <1>15, <2>6, <3>4, <3>5, MendedFacts, FinishFacts DEF Kept, WellFormed
      <4>5. SlotsOf(cur', i) = {}
        <5>1. SlotsOf(Mended, i) = {}
          BY <1>15, <4>4, FinishFacts DEF WellFormed
        <5> QED
          BY <1>8, <1>15, <2>6, <5>1, MendedFacts DEF SlotsOf
      <4>6. WellFormed(cur')
        BY <1>5, <1>8, <4>1, <4>2, <4>3, <4>4, <4>5, OrphansAssumption DEF WellFormed
      <4>7. \A j \in Inodes \ {i} : SameFile(Mended.ino[j], cur'.ino[j]) /\ SlotsOf(cur', j) = SlotsOf(Mended, j)
        BY <1>8, <1>9, <1>15, <2>6, MendedFacts DEF SameFile, SlotsOf
      <4>8. OnRecord(cur', i)
        BY <4>3 DEF OnRecord, Listed
      <4>9. Recorded(cur', cutoff')
        <5>1. SUFFICES ASSUME NEW j \in Inodes \ cutoff', Unfinished(cur'.ino[j]), j # i
                       PROVE  OnRecord(cur', j)
          BY <4>8 DEF Recorded
        <5>2. Unfinished(Mended.ino[j]) /\ j \notin cutoff
          BY <4>1, <4>7, <5>1 DEF Unfinished, SameFile
        <5>3. OnRecord(Mended, j)
          BY <1>15, <5>1, <5>2, FinishFacts DEF Good, Recorded
        <5>4. j \notin Listed(Mended)
          BY <4>0, <4>1, <5>1
        <5> QED
          BY <4>7, <5>1, <5>3, <5>4 DEF OnRecord, Listed
      <4>10. NoneFreed(cur')
        <5>1. SUFFICES ASSUME NEW j \in Inodes, OnRecord(cur', j), j # i
                       PROVE  cur'.ino[j].used
          BY <1>4, <1>8 DEF NoneFreed
        <5>2. SlotsOf(Mended, j) # {}
          BY <4>3, <4>7, <5>1 DEF OnRecord, Listed
        <5>3. Mended.ino[j].used
          BY <1>15, <5>1, <5>2, FinishFacts DEF Good, NoneFreed, OnRecord
        <5> QED
          BY <4>7, <5>1, <5>3 DEF SameFile
      <4>11. Whole(cur')
        <5>1. SUFFICES ASSUME NEW j \in Inodes, j # i PROVE WholeFile(cur'.ino[j])
          BY <1>8, <2>4 DEF Whole
        <5> QED
          BY <1>15, <4>7, <5>1, FinishFacts DEF Good, Whole, SameFile, WholeFile, FitsSize
      <4>12. Good(dur', cutoff')
        BY <1>1, <4>6, <4>9, <4>10, <4>11 DEF Good
      <4>13. Good(Mended', cutoff')
        BY <3>8, <4>1 DEF Good, Recorded
      <4>14. Listed(Mended') \subseteq Listed(dur') \cup cutoff'
        BY <1>1, <3>4, <4>0, <4>1, <4>3 DEF Kept
      <4>15. MountOK'
        BY <1>2, <1>10, <1>15, <2>3, <3>10, <4>14, FinishFacts DEF MountOK
      <4> QED
        BY <1>11, <1>12, <2>1, <2>2, <4>12, <4>13, <4>15 DEF Inv
    <3> QED
      BY <1>15, <3>11, <3>12, FinishFacts
  <2> QED
    BY <2>5, <2>6
<1> QED
    BY <1>14, <1>15

(* JobEnd preserves the invariant: the job is done when its inode leaves   *)
(* the record.                                                             *)
LEMMA JobEndInv ==
    ASSUME Inv, JobEnd
    PROVE  Inv'
<1> DEFINE i == job.ino
<1>1. /\ pc = "job" /\ job.in.n <= Keep /\ job.kind \in {"delete", "cut", "shrink"}
      /\ (dur' = dur \/ dur' = cur') /\ pc' = "idle" /\ job' = NoJob
    BY DEF JobEnd, OpEnd
<1>2. UNCHANGED <<found, open, orphan, closing, at, cutoff, stale, used>> /\ HeldInodes' = HeldInodes
    BY DEF JobEnd, HeldInodes
<1>3. ~Finishing /\ ~Finishing' /\ ~Mounting'
    BY <1>1 DEF Finishing, Mounting
<1>4. /\ job.in.n \in Nat /\ Keep \in Nat /\ i \in Inodes /\ cur \in MetaT
      /\ job.size \in 0..(2 * Blocks) /\ (job.in.links > 0 => job.in.n = Keep)
    BY <1>1, JobFacts DEF InodeT
<1>5. found \cup open \subseteq Inodes /\ HeldInodes \subseteq Inodes /\ stale \subseteq open
    BY DEF Inv, TypeOK, HeldInodes
<1>6. HoldersOK
    BY <1>1, <1>3, WorkFacts
<1>7. ASSUME cur' \in MetaT, Good(cur', cutoff), OpenOK'
      PROVE  Inv'
  <2>1. NoJob \in JobT
    BY OrphansAssumption DEF NoJob, JobT, NoFile, InodeT
  <2>2. TypeOK'
    BY <1>1, <1>2, <1>7, <2>1 DEF Inv, TypeOK
  <2>3. Good(cur', cutoff') /\ Good(dur', cutoff')
    BY <1>1, <1>2, <1>7 DEF Inv
  <2>4. CopyOK' /\ JobOK' /\ MountOK'
    BY <1>1, <1>3 DEF CopyOK, JobOK, MountOK
  <2> QED
    BY <1>3, <1>7, <2>2, <2>3, <2>4, NothingToMend DEF Inv
<1>8. CASE job.kind = "delete"
  <2>1. cur' = [x4_orphan_del(cur, i, job.in) EXCEPT !.ino[i] = NoFile]
    BY <1>8 DEF JobEnd, Deleted
  <2>2. OnRecord(cur, i) /\ i \notin HeldInodes /\ cur.ino[i].links = 0
    BY <1>1, <1>8, JobFacts DEF Inv, JobOK
  <2>3. NoFile \in InodeT /\ ~NoFile.used /\ NoFile.links = 0 /\ NoFile.size = 0
    BY OrphansAssumption DEF NoFile, InodeT
  <2>4. cur' \in MetaT /\ Removed(cur, cur', i) /\ cur'.ino[i] = NoFile
    BY <1>1, <1>3, <1>4, <2>1, <2>2, <2>3, WorkFacts, DelRecord
  <2>5. GoodAt(cur', cutoff, i)
    BY <1>4, <2>3, <2>4 DEF GoodAt, Removed, Unfinished, WholeFile
  <2>6. Good(cur', cutoff)
    BY <1>1, <1>3, <1>4, <2>4, <2>5, WorkFacts, GoodRemoved
  <2>7. /\ \A j \in Inodes \ {i} : cur'.ino[j].used = cur.ino[j].used /\ cur'.ino[j].links = cur.ino[j].links
        /\ \A j \in Inodes : OnRecord(cur', j) <=> OnRecord(cur, j) /\ j # i
    BY <2>4 DEF Removed, OthersSame, SameFile
  <2>8. i \notin open \ stale
    BY <1>6, <2>2 DEF HoldersOK, HeldInodes
  <2>9. HoldersOK'
    BY <1>2, <1>5, <1>6, <2>2, <2>3, <2>4, <2>7, <2>8 DEF HoldersOK
  <2>10. \A j \in Inodes : Worked(j) => j = i
    BY DEF Worked
  <2>11. OpenOK'
    BY <1>1, <1>2, <1>3, <1>5, <2>3, <2>4, <2>7, <2>9, <2>10, WorkFacts DEF OpenOK
  <2> QED
    BY <1>7, <2>4, <2>6, <2>11
<1>9. CASE job.kind = "cut"
  <2> DEFINE new == [job.in EXCEPT !.size = job.size, !.next = 0, !.torn = FALSE]
  <2>1. cur' = [x4_orphan_del(cur, i, job.in) EXCEPT !.ino[i] = new]
    BY <1>9 DEF JobEnd, Truncated
  <2>2. OnRecord(cur, i) /\ job.in.links = 1 /\ cur.ino[i].links = 1
    BY <1>1, <1>9, JobFacts DEF Inv, JobOK
  <2>3. /\ new \in InodeT /\ new.used /\ new.links = 1
        /\ new.n = job.in.n /\ new.size = job.size
    BY <1>1, <2>2, JobFacts DEF InodeT
  <2> HIDE DEF new
  <2>4. WholeFile(new) /\ ~Unfinished(new)
    BY <1>4, <2>2, <2>3 DEF Unfinished, WholeFile, FitsSize, Keep
  <2>5. cur' \in MetaT /\ Removed(cur, cur', i) /\ cur'.ino[i] = new
    <3>1. WellFormed(cur) /\ job.in.next = cur.ino[i].next
      BY <1>1, <1>3, WorkFacts
    <3> DEFINE N == [x4_orphan_del(cur, i, job.in) EXCEPT !.ino[i] = new]
    <3>2. N \in MetaT /\ Removed(cur, N, i) /\ N.ino[i] = new
      <4> HIDE DEF i
      <4> QED
        BY <1>4, <2>2, <2>3, <3>1, DelRecord
    <3>3. cur' = N
      BY <2>1
    <3> HIDE DEF N
    <3> QED
      BY <3>2, <3>3
  <2>6. GoodAt(cur', cutoff, i)
    BY <1>4, <2>3, <2>4, <2>5 DEF GoodAt, Removed
  <2>7. Good(cur', cutoff)
    BY <1>1, <1>3, <1>4, <2>5, <2>6, WorkFacts, GoodRemoved
  <2>8. i \notin HeldInodes
    BY <1>6, <2>2 DEF HoldersOK
  <2>9. \A j \in Inodes : /\ cur'.ino[j].links = cur.ino[j].links
                          /\ cur.ino[j].used => cur'.ino[j].used
                          /\ OnRecord(cur', j) <=> OnRecord(cur, j) /\ j # i
    BY <2>2, <2>3, <2>5 DEF Removed, OthersSame, SameFile
  <2>10. HoldersOK'
    BY <1>2, <1>5, <1>6, <2>8, <2>9, HoldersKept DEF Inv, HoldersOK
  <2>11. \A j \in Inodes \ {i} : cur'.ino[j].used = cur.ino[j].used
    BY <2>5 DEF Removed, OthersSame, SameFile
  <2>12. \A j \in Inodes : Worked(j) => j = i
    BY DEF Worked
  <2>13. OpenOK'
    BY <1>1, <1>2, <1>3, <1>5, <2>2, <2>9, <2>10, <2>11, <2>12, WorkFacts DEF OpenOK
  <2> QED
    BY <1>7, <2>5, <2>7, <2>13
<1>10. CASE job.kind = "shrink"
  <2> DEFINE new == [job.in EXCEPT !.size = job.size, !.next = job.in.next, !.torn = FALSE]
  <2>1. cur' = [cur EXCEPT !.ino[i] = new]
    BY <1>10 DEF JobEnd, Truncated
  <2>2. /\ new \in InodeT /\ new.used /\ new.links = job.in.links /\ new.n = job.in.n
        /\ new.size = job.size /\ new.next = job.in.next
    BY <1>1, JobFacts DEF InodeT
  <2>3. new.next = cur.ino[i].next
    BY <1>1, <1>3, <2>2, WorkFacts
  <2>4. job.in.links = 0 => i \in HeldInodes
    BY <1>1, <1>10 DEF Inv, JobOK
  <2>5. job.in.links \in {0, 1}
    BY <1>1, JobFacts DEF InodeT
  <2> HIDE DEF new
  <2>6. WholeFile(new) /\ (job.in.links # 0 => ~Unfinished(new))
    BY <1>4, <2>2, <2>5 DEF Unfinished, WholeFile, FitsSize, Keep
  <2>7. cur' \in MetaT /\ Kept(cur, cur', i) /\ cur'.ino[i] = new
    BY <1>1, <1>3, <1>4, <2>1, <2>2, <2>3, WorkFacts, WriteInode
  <2>8. GoodAt(cur', cutoff, i)
    BY <1>4, <1>6, <2>2, <2>4, <2>5, <2>6, <2>7 DEF GoodAt, Kept, HoldersOK
  <2>9. Good(cur', cutoff)
    BY <1>1, <1>3, <1>4, <2>7, <2>8, WorkFacts, GoodKept
  <2>10. \A j \in Inodes : /\ cur'.ino[j].links = cur.ino[j].links
                           /\ cur.ino[j].used => cur'.ino[j].used
                           /\ cur'.ino[j].used => cur.ino[j].used
                           /\ OnRecord(cur', j) <=> OnRecord(cur, j)
    BY <1>1, <2>2, <2>7, JobFacts DEF Kept, OthersSame, SameFile
  <2>11. HoldersOK'
    BY <1>2, <1>5, <1>6, <2>10, HoldersKept DEF Inv, HoldersOK
  <2>12. \A j \in Inodes : ~Worked(j)
    BY <1>10 DEF Worked
  <2>13. OpenOK'
    BY <1>1, <1>2, <1>3, <1>5, <2>10, <2>11, <2>12, WorkFacts DEF OpenOK
  <2> QED
    BY <1>7, <2>7, <2>9, <2>13
<1> QED
    BY <1>1, <1>8, <1>9, <1>10

-----------------------------------------------------------------------------
(* The mount.  A crash goes back to what is durable.                       *)
LEMMA CrashInv ==
    ASSUME Inv, Crash
    PROVE  Inv'
<1>1. /\ cur' = dur /\ dur' = dur /\ cutoff' = cutoff /\ found' = {} /\ open' = {} /\ orphan' = {}
      /\ closing' = {} /\ stale' = {} /\ job' = NoJob /\ pc' = "mount" /\ at' = 1
    BY DEF Crash
<1>2. used' \in [ops : 0..MaxOps, crashes : 0..MaxCrashes]
    BY OrphansAssumption DEF Inv, TypeOK, Crash
<1>3. NoJob \in JobT
    BY OrphansAssumption DEF NoJob, JobT, NoFile, InodeT
<1>4. ~Finishing' /\ Mounting' /\ Mended' = dur
    BY <1>1 DEF Finishing, Mounting, Mended
<1>5. TypeOK'
    BY <1>1, <1>2, <1>3, OrphansAssumption DEF Inv, TypeOK
<1>6. CopyOK' /\ JobOK'
    BY <1>1 DEF CopyOK, JobOK
<1>7. OpenOK'
    BY <1>1, <1>4 DEF OpenOK, HoldersOK, HeldInodes
<1>8. MountOK'
  <2>1. \A s \in Slots : ~(s < at')
    BY <1>1, OrphansAssumption DEF Slots
  <2> QED
    BY <1>1, <1>4, <2>1 DEF MountOK
<1> QED
    BY <1>1, <1>4, <1>5, <1>6, <1>7, <1>8 DEF Inv

(* Between two orphans of the mount.                                       *)
LEMMA MountFacts ==
    ASSUME Inv, pc = "mount"
    PROVE  /\ cur \in MetaT /\ Good(cur, cutoff) /\ WellFormed(cur) /\ Mounting /\ ~Finishing /\ Mended = cur
           /\ found = {} /\ open = {} /\ orphan = {} /\ closing = {} /\ stale = {}
           /\ at \in 1..(NSlots + 1)
           /\ \A s \in Slots : s < at => cur.slot[s] = 0
           /\ Listed(cur) \subseteq Listed(dur) \cup cutoff
<1>1. Mounting /\ ~Finishing /\ Mended = cur
    BY DEF Mounting, Finishing, Mended
<1>2. at \in 1..(NSlots + 1)
    BY <1>1, OrphansAssumption DEF Inv, MountOK, TypeOK
<1> QED
    BY <1>1, <1>2 DEF Inv, MountOK, TypeOK, Good

(* Finish preserves the invariant: what the cleanup is at is on the record *)
(* and in use.                                                             *)
LEMMA FinishInv ==
    ASSUME Inv, Finish
    PROVE  Inv'
<1> DEFINE i == Entry  in == cur.ino[i]
<1>1. /\ pc = "mount" /\ i # 0
      /\ UNCHANGED <<dur, found, open, orphan, closing, at, cutoff, stale, used>>
    BY DEF Finish
<1>2. i \in Inodes /\ OnRecord(cur, i)
  <2>1. CASE InList
    <3>1. i \in Inodes /\ i \in Chain(cur, cur.last)
      BY <1>1, <2>1, MountFacts, ChainHead DEF Entry, MetaT
    <3> QED
      BY <3>1 DEF OnRecord
  <2>2. CASE ~InList
    <3>1. at \in Slots
      BY <1>1, <2>2, MountFacts, OrphansAssumption DEF InList, Slots
    <3>2. i \in Inodes /\ at \in SlotsOf(cur, i)
      BY <1>1, <2>2, <3>1, MountFacts DEF Entry, SlotsOf, MetaT
    <3> QED
      BY <3>2 DEF OnRecord
  <2> QED
    BY <2>1, <2>2
<1>3. in \in InodeT /\ in.used
    BY <1>1, <1>2, MountFacts DEF Good, NoneFreed, MetaT
<1>4. cur' = cur /\ Entry' = Entry /\ InList' = InList
    BY <1>1, <1>3 DEF Finish, Entry, InList
<1>5. in.next \in Inodes \cup {0} /\ in.size \in 0..(2 * Blocks) /\ in.n \in 0..Blocks /\ in.links \in {0, 1}
    BY <1>3 DEF InodeT
<1>6. in.links > 0 => FitsSize(in)
    BY <1>1, <1>2, <1>3, MountFacts DEF Good, Whole, WholeFile
<1>7. Good(cur', cutoff') /\ Good(dur', cutoff')
    BY <1>1, <1>4, MountFacts DEF Inv
<1>8. PICK copy \in InodeT, kind \in {"fdelete", "fcut"}, size \in 0..(2 * Blocks) :
         /\ StartJob(kind, i, copy, size)
         /\ copy.used /\ copy.links = in.links /\ copy.n = in.n /\ copy.size = in.size
         /\ copy.torn = in.torn
         /\ kind = "fdelete" => copy.links = 0 /\ size = 0 /\ copy.next = in.next
         /\ kind = "fcut" => copy.links = 1 /\ size = copy.size /\ copy.next = 0
  <2>1. CASE in.links = 0
    <3>1. StartJob("fdelete", i, in, 0)
      BY <1>3, <2>1 DEF Finish
    <3> HIDE DEF in
    <3> QED
      BY <1>3, <2>1, <3>1, OrphansAssumption
  <2>2. CASE in.links # 0
    <3> DEFINE c == [in EXCEPT !.next = 0]
    <3>1. StartJob("fcut", i, c, in.size)
      BY <1>3, <2>2 DEF Finish
    <3>2. /\ c \in InodeT /\ c.used /\ c.links = in.links /\ c.n = in.n /\ c.size = in.size
          /\ c.next = 0 /\ c.links = 1 /\ c.torn = in.torn
      BY <1>3, <1>5, <2>2 DEF InodeT
    <3> HIDE DEF c, in
    <3> QED
      BY <1>5, <3>1, <3>2
  <2> QED
    BY <2>1, <2>2
<1>9. /\ pc' = "job" /\ job'.kind = kind /\ job'.ino = i /\ job'.in = copy
      /\ job'.size = size /\ job'.link = in.next
    BY <1>8 DEF StartJob
<1>10. job' \in JobT
    BY <1>2, <1>5, <1>8 DEF StartJob, JobT
<1>11. Finishing' /\ Mounting'
    BY <1>8, <1>9 DEF Finishing, Mounting
<1>12. Mended' = cur
  <2>1. CASE InList
    <3>1. Mended' = [cur EXCEPT !.ino[i].next = in.next]
      BY <1>4, <1>9, <1>11, <2>1 DEF Mended, Relinked
    <3>2. [in EXCEPT !.next = in.next] = in
      BY <1>3 DEF InodeT
    <3>3. [cur EXCEPT !.ino[i] = in] = cur
      BY <1>1, <1>2, MountFacts DEF MetaT
    <3> QED
      BY <3>1, <3>2, <3>3
  <2>2. CASE ~InList
    BY <1>4, <2>2 DEF Mended
  <2> QED
    BY <2>1, <2>2
<1>13. TypeOK'
    BY <1>1, <1>2, <1>4, <1>8, <1>9, <1>10 DEF Inv, TypeOK
<1>14. CopyOK'
  <2>1. in.links > 0 => kind = "fcut"
    BY <1>8
  <2>2. in.links > 0 => FitsSize(copy)
    BY <1>6, <1>8 DEF FitsSize
  <2> QED
    BY <1>3, <1>4, <1>5, <1>8, <1>9, <1>11, <2>1, <2>2 DEF CopyOK
<1>15. JobOK'
    BY <1>8, <1>9 DEF JobOK
<1>16. OpenOK'
    BY <1>1, <1>11, MountFacts DEF OpenOK, HoldersOK, HeldInodes
<1>17. MountOK'
    BY <1>1, <1>4, <1>9, <1>12, MountFacts DEF MountOK
<1> QED
    BY <1>4, <1>7, <1>12, <1>13, <1>14, <1>15, <1>16, <1>17 DEF Inv

(* FinishEnd preserves the invariant: the orphan is finished when it is    *)
(* taken out of its slot or the list moves past it.                        *)
LEMMA FinishEndInv ==
    ASSUME Inv, FinishEnd
    PROVE  Inv'
<1> DEFINE i == job.ino
           new == IF job.kind = "fdelete" THEN NoFile ELSE job.in
           X == [cur EXCEPT !.ino[i] = new]
<1>1. /\ pc = "job" /\ job.in.n <= Keep /\ job.kind \in {"fdelete", "fcut"}
      /\ pc' = "mount" /\ job' = NoJob
      /\ UNCHANGED <<dur, found, open, orphan, closing, at, cutoff, stale, used>>
    BY DEF FinishEnd
<1>2. Finishing /\ ~Finishing' /\ Mounting' /\ Mended' = cur'
    BY <1>1 DEF Finishing, Mounting, Mended
<1>3. /\ job.in.n \in Nat /\ Keep \in Nat /\ i \in Inodes /\ cur \in MetaT
      /\ job.link \in Inodes \cup {0}
    BY <1>1, JobFacts DEF InodeT
<1>4. cur' = Past(X, job.link)
    BY <1>1 DEF FinishEnd, Deleted
<1>5. new \in InodeT
    BY <1>1, JobFacts, OrphansAssumption DEF NoFile, InodeT
<1>6. ~Unfinished(new) /\ WholeFile(new)
  <2>1. CASE job.kind = "fdelete"
    BY <2>1 DEF NoFile, Unfinished, WholeFile
  <2>2. CASE job.kind = "fcut"
    <3>1. job.in.links = 1 /\ Keep = Ceil(job.in.size) /\ FitsSize(job.in) /\ job.in.used
      BY <1>1, <1>2, <2>2, FinishFacts, JobFacts DEF Keep
    <3> QED
      BY <1>1, <1>3, <2>2, <3>1 DEF Unfinished, WholeFile
  <2> QED
    BY <1>1, <2>1, <2>2
<1> HIDE DEF new
<1>7. X \in MetaT /\ X.slot = cur.slot /\ X.last = cur.last /\ X.ino = [cur.ino EXCEPT ![i] = new]
    BY <1>3, <1>5 DEF MetaT
<1> HIDE DEF X
<1>8. cur' \in MetaT /\ Removed(Mended, cur', i) /\ cur'.ino[i] = new /\ (\A s \in Slots : s < at => cur'.slot[s] = 0)
  <2>1. CASE InList
    <3>1. cur' = [X EXCEPT !.last = job.link]
      BY <1>4, <2>1 DEF Past
    <3>2. cur' \in MetaT /\ cur'.slot = cur.slot /\ cur'.last = job.link /\ cur'.ino = X.ino
      BY <1>3, <1>7, <3>1 DEF MetaT
    <3>3. cur'.ino = [Mended.ino EXCEPT ![i] = new]
      <4>1. Mended \in MetaT /\ (\A j \in Inodes \ {i} : Mended.ino[j] = cur.ino[j])
        BY <1>2, <2>1, MendedFacts
      <4> QED
        BY <1>3, <1>7, <3>2, <4>1 DEF MetaT
    <3>4. /\ Mended \in MetaT /\ Mended.last = i /\ WellFormed(Mended)
          /\ cur'.last = Mended.ino[i].next /\ cur'.slot = Mended.slot
      BY <1>2, <2>1, <3>2, MendedFacts, FinishFacts
    <3>5. Removed(Mended, cur', i)
      BY <1>3, <1>5, <3>2, <3>3, <3>4, PopHead
    <3>6. cur'.ino[i] = new
      BY <1>3, <1>7, <3>2 DEF MetaT
    <3> QED
      BY <1>2, <3>2, <3>5, <3>6, FinishFacts
  <2>2. CASE ~InList
    <3>1. cur' = [X EXCEPT !.slot[at] = 0]
      BY <1>4, <2>2 DEF Past
    <3>2. at \in Slots /\ cur.slot[at] = i /\ Mended = cur /\ WellFormed(cur)
      BY <1>2, <2>2, InSlotFacts
    <3>3. cur' \in MetaT /\ cur'.slot = [cur.slot EXCEPT ![at] = 0] /\ cur'.last = cur.last /\ cur'.ino = X.ino
      BY <1>7, <3>1, <3>2 DEF MetaT
    <3>4. Removed(cur, cur', i)
      BY <1>3, <1>5, <1>7, <3>2, <3>3, ClearSlot, SMTT(30)
    <3>5. cur'.ino[i] = new
      BY <1>3, <1>7, <3>3 DEF MetaT
    <3>6. \A s \in Slots : s < at => cur'.slot[s] = 0
      BY <1>2, <1>3, <3>3, FinishFacts DEF MetaT
    <3> QED
      BY <3>2, <3>3, <3>4, <3>5, <3>6
  <2> QED
    BY <2>1, <2>2
<1>9. GoodAt(cur', cutoff, i)
    BY <1>3, <1>6, <1>8 DEF GoodAt, Removed
<1>10. Good(cur', cutoff)
    BY <1>2, <1>3, <1>8, <1>9, FinishFacts, GoodRemoved
<1>11. NoJob \in JobT
    BY OrphansAssumption DEF NoJob, JobT, NoFile, InodeT
<1>12. TypeOK'
    BY <1>1, <1>8, <1>11 DEF Inv, TypeOK
<1>13. CopyOK' /\ JobOK'
    BY <1>1 DEF CopyOK, JobOK
<1>14. OpenOK'
    BY <1>1, <1>2, FinishFacts DEF OpenOK, HoldersOK, HeldInodes
<1>15. Listed(cur') \subseteq Listed(dur) \cup cutoff
    BY <1>2, <1>8, FinishFacts DEF Removed
<1>16. MountOK'
    BY <1>1, <1>2, <1>8, <1>15, FinishFacts DEF MountOK
<1> QED
    BY <1>1, <1>2, <1>10, <1>12, <1>13, <1>14, <1>16 DEF Inv

(* NextSlot preserves the invariant.                                       *)
LEMMA NextSlotInv ==
    ASSUME Inv, NextSlot
    PROVE  Inv'
<1>1. /\ pc = "mount" /\ ~InList /\ Entry = 0 /\ at' = at + 1
      /\ UNCHANGED <<cur, dur, found, open, orphan, closing, pc, job, cutoff, stale, used>>
    BY DEF NextSlot
<1>2. at \in 1..NSlots /\ cur.slot[at] = 0
    BY <1>1, MountFacts, OrphansAssumption DEF InList, Entry
<1>3. ~Finishing' /\ Mounting' /\ Mended' = cur
    BY <1>1 DEF Finishing, Mounting, Mended
<1>4. TypeOK'
    BY <1>1, <1>2, OrphansAssumption DEF Inv, TypeOK
<1>5. CopyOK' /\ JobOK'
    BY <1>1 DEF CopyOK, JobOK
<1>6. OpenOK'
    BY <1>1, <1>3, MountFacts DEF OpenOK, HoldersOK, HeldInodes
<1>7. MountOK'
  <2>1. \A s \in Slots : s < at' => cur'.slot[s] = 0
    BY <1>1, <1>2, MountFacts, OrphansAssumption DEF Slots
  <2> QED
    BY <1>1, <1>2, <1>3, <2>1, MountFacts DEF MountOK
<1> QED
    BY <1>1, <1>3, <1>4, <1>5, <1>6, <1>7, MountFacts DEF Inv

(* CleanupEnd preserves the invariant: both records are empty.             *)
LEMMA CleanupEndInv ==
    ASSUME Inv, CleanupEnd
    PROVE  Inv'
<1>1. /\ pc = "mount" /\ InList /\ Entry = 0 /\ dur' = cur /\ pc' = "idle" /\ at' = 0
      /\ UNCHANGED <<cur, found, open, orphan, closing, job, cutoff, stale, used>>
    BY DEF CleanupEnd
<1>2. ~Finishing' /\ ~Mounting'
    BY <1>1 DEF Finishing, Mounting
<1>3. \A i \in Inodes : ~OnRecord(cur, i)
  <2>1. cur.last = 0
    BY <1>1 DEF Entry
  <2>2. Chain(cur, cur.last) = {}
    BY <2>1, ChainHead, OrphansAssumption
  <2>3. \A s \in Slots : cur.slot[s] = 0
    BY <1>1, MountFacts, OrphansAssumption DEF InList, Slots
  <2> QED
    BY <2>2, <2>3, OrphansAssumption DEF OnRecord, SlotsOf
<1>4. TypeOK'
    BY <1>1, OrphansAssumption DEF Inv, TypeOK
<1>5. CopyOK' /\ JobOK' /\ MountOK'
    BY <1>1, <1>2 DEF CopyOK, JobOK, MountOK
<1>6. OpenOK'
    BY <1>1, <1>3, MountFacts DEF OpenOK, HoldersOK, HeldInodes
<1>7. Good(cur', cutoff') /\ Good(dur', cutoff')
    BY <1>1, MountFacts
<1> QED
    BY <1>2, <1>4, <1>5, <1>6, <1>7, NothingToMend DEF Inv

(* Every step preserves the invariant.                                     *)
LEMMA NextInv ==
    ASSUME Inv, [Next]_vars
    PROVE  Inv'
<1>1. CASE \E i \in Inodes :
             Create(i) \/ Lookup(i) \/ Retain(i) \/ Unlink(i) \/ Close(i) \/ Release(i)
    BY <1>1, CreateInv, LookupInv, RetainInv, UnlinkInv, CloseInv, ReleaseInv
<1>2. CASE \E i \in Inodes, size \in 0..(2 * Blocks - 1) : Truncate(i, size)
    BY <1>2, TruncateInv
<1>3. CASE Sync \/ CutBlock \/ CutStep \/ JobEnd
    BY <1>3, SyncInv, CutBlockInv, CutStepInv, JobEndInv
<1>4. CASE Crash \/ Finish \/ FinishEnd \/ NextSlot \/ CleanupEnd
    BY <1>4, CrashInv, FinishInv, FinishEndInv, NextSlotInv, CleanupEndInv
<1>5. CASE UNCHANGED vars
  <2>1. Finishing' = Finishing /\ Mounting' = Mounting /\ InList' = InList /\ Entry' = Entry
    BY <1>5 DEF vars, Finishing, Mounting, InList, Entry
  <2>2. Mended' = Mended
    BY <1>5, <2>1 DEF vars, Mended, Relinked
  <2>3. TypeOK' /\ CopyOK' /\ JobOK'
    BY <1>5, <2>1 DEF vars, Inv, TypeOK, CopyOK, JobOK, Keep, HeldInodes
  <2>4. OpenOK' /\ MountOK'
    BY <1>5, <2>1, <2>2 DEF vars, Inv, OpenOK, HoldersOK, HeldInodes, Worked, MountOK
  <2> QED
    BY <1>5, <2>2, <2>3, <2>4 DEF vars, Inv
<1> QED
    BY <1>1, <1>2, <1>3, <1>4, <1>5 DEF Next

(* The invariant gives the properties.                                     *)
LEMMA InvProperties == Inv => TypeOK /\ RecordExact /\ NeverHalfFreed /\ HeldOrFinished
<1> SUFFICES ASSUME Inv PROVE TypeOK /\ RecordExact /\ NeverHalfFreed /\ HeldOrFinished
    OBVIOUS
<1>1. RecordExact
    BY DEF Inv, Good, Recorded, NoneFreed, RecordExact
<1>2. NeverHalfFreed
    BY DEF Inv, Good, Whole, WholeFile, FitsSize, NeverHalfFreed
<1>3. HeldOrFinished
  <2>1. \A i \in open \ stale : cur.ino[i].used
    BY DEF Inv, OpenOK, HoldersOK
  <2>2. ASSUME NEW i \in Inodes \ cutoff, pc = "idle", Unfinished(cur.ino[i])
        PROVE  i \in (open \ stale) \cup closing
    BY <2>2, IdleFacts DEF Good, Recorded, Inv, TypeOK, HoldersOK, HeldInodes
  <2> QED
    BY <2>1, <2>2 DEF HeldOrFinished
<1> QED
    BY <1>1, <1>2, <1>3 DEF Inv

(* The invariant holds in every state of every behaviour.                  *)
LEMMA InvHolds == Spec => []Inv
    BY InitInv, NextInv, PTL DEF Spec

(* Every variable keeps its type, through any operation, crash and mount.  *)
THEOREM OrphansTypeCorrect == Spec => []TypeOK
    BY InvHolds, InvProperties, PTL

(* "recorded on disk until that is finished": whatever commits, what a     *)
(* crash goes back to has every unfinished inode on its record (but those  *)
(* of cutoff), and no freed inode on it.                                   *)
THEOREM RecordIsExact == Spec => []RecordExact
    BY InvHolds, InvProperties, PTL

(* "nor half-frees them": a file with a name is durable with the blocks of *)
(* its size, in the middle of ext2_truncate and of the mount too; a cut    *)
(* that ext2_truncate does not record (two blocks, the last one partial)   *)
(* can take no more than that partial block before it is complete.         *)
THEOREM NothingHalfFreed == Spec => []NeverHalfFreed
    BY InvHolds, InvProperties, PTL

(* An unlinked file is held as long as it is open, unless the open that    *)
(* holds it retained the inode when its last name had gone (stale), and    *)
(* between operations nothing else is unfinished but what a last close is  *)
(* about to release and what cutoff has.                                   *)
THEOREM OrphansHeldOrFinished == Spec => []HeldOrFinished
    BY InvHolds, InvProperties, PTL

-----------------------------------------------------------------------------
(* The two passes of the scan, one round: what scan[g] is, given           *)
(* scan[g - 1].                                                            *)
EndRound(L, h, g) == [p \in Nat |-> [s \in Nat |->
    IF g = 0 THEN s
    ELSE IF IsHeader(L, p, "desc", s) THEN h[p + 1 + NTags(L, p)][s]
    ELSE IF IsHeader(L, p, "commit", s) THEN h[p + 1][s + 1]
    ELSE s]]

WriteRound(L, end, h, g) == [p \in Nat |-> [s \in Nat |->
    IF g = 0 \/ s = end THEN <<>>
    ELSE IF IsHeader(L, p, "desc", s)
    THEN Copies(L, p) \o h[p + 1 + NTags(L, p)][s]
    ELSE IF IsHeader(L, p, "commit", s) THEN h[p + 1][s + 1]
    ELSE <<>>]]

EndRounds(L, n, f) == f = [g \in 0..n |-> EndRound(L, f[g - 1], g)]
WriteRounds(L, end, n, f) == f = [g \in 0..n |-> WriteRound(L, end, f[g - 1], g)]

(* The rounds exist.                                                       *)
LEMMA EndRoundsExist ==
    ASSUME NEW L, NEW n \in Nat
    PROVE  \E f : EndRounds(L, n, f)
<1> DEFINE Bad == {m \in Nat : ~ \E f : EndRounds(L, m, f)}
<1>1. CASE Bad = {}
    BY <1>1
<1>2. CASE Bad # {}
  <2>1. PICK m \in Bad : \A i \in Bad : m <= i
      BY <1>2, LeastNat
  <2>2. CASE m = 0
    <3> DEFINE f == [g \in 0..0 |-> EndRound(L, 0, 0)]
    <3>1. EndRound(L, f[0 - 1], 0) = EndRound(L, 0, 0)
        BY DEF EndRound
    <3>2. EndRounds(L, 0, f)
        BY <3>1 DEF EndRounds
    <3> QED
        BY <3>2, <2>2, <2>1
  <2>3. CASE m # 0
    <3>1. PICK f : EndRounds(L, m - 1, f)
        BY <2>1, <2>3
    <3> DEFINE h == [g \in 0..m |-> IF g = m THEN EndRound(L, f[m - 1], m) ELSE f[g]]
    <3>2. ASSUME NEW g \in 0..m PROVE h[g] = EndRound(L, h[g - 1], g)
      <4>1. CASE g = 0
        <5>1. h[0] = EndRound(L, f[0 - 1], 0)
            BY <3>1, <2>3 DEF EndRounds
        <5>2. EndRound(L, f[0 - 1], 0) = EndRound(L, h[0 - 1], 0)
            BY DEF EndRound
        <5> QED
            BY <4>1, <5>1, <5>2
      <4>2. CASE g # 0
        <5>1. h[g - 1] = f[g - 1]
            BY <4>2
        <5>2. g # m => f[g] = EndRound(L, f[g - 1], g)
            BY <3>1, <4>2 DEF EndRounds
        <5> QED
            BY <5>1, <5>2
      <4> QED
          BY <4>1, <4>2
    <3>3. EndRounds(L, m, h)
        BY <3>2 DEF EndRounds
    <3> QED
        BY <3>3, <2>1
  <2> QED
      BY <2>2, <2>3
<1> QED
    BY <1>1, <1>2

(* ScanEnd through its rounds.                                             *)
LEMMA ScanEndRounds ==
    ASSUME NEW L, NEW s0
    PROVE  \E f : EndRounds(L, LogLen, f) /\ ScanEnd(L, s0) = f[LogLen][1][s0]
<1> DEFINE F == CHOOSE f : EndRounds(L, LogLen, f)
<1>1. LogLen \in Nat
    BY JournalAssumption, FS_CardinalityType, FS_AddElement DEF LogLen, Meta
<1>2. EndRounds(L, LogLen, F)
    BY <1>1, EndRoundsExist
<1>3. ScanEnd(L, s0) = F[LogLen][1][s0]
    BY DEF ScanEnd, EndRounds, EndRound
<1> QED
    BY <1>2, <1>3

LEMMA WriteRoundsExist ==
    ASSUME NEW L, NEW end, NEW n \in Nat
    PROVE  \E f : WriteRounds(L, end, n, f)
<1> DEFINE Bad == {m \in Nat : ~ \E f : WriteRounds(L, end, m, f)}
<1>1. CASE Bad = {}
    BY <1>1
<1>2. CASE Bad # {}
  <2>1. PICK m \in Bad : \A i \in Bad : m <= i
      BY <1>2, LeastNat
  <2>2. CASE m = 0
    <3> DEFINE f == [g \in 0..0 |-> WriteRound(L, end, 0, 0)]
    <3>1. WriteRound(L, end, f[0 - 1], 0) = WriteRound(L, end, 0, 0)
        BY DEF WriteRound
    <3>2. WriteRounds(L, end, 0, f)
        BY <3>1 DEF WriteRounds
    <3> QED
        BY <3>2, <2>2, <2>1
  <2>3. CASE m # 0
    <3>1. PICK f : WriteRounds(L, end, m - 1, f)
        BY <2>1, <2>3
    <3> DEFINE h == [g \in 0..m |-> IF g = m THEN WriteRound(L, end, f[m - 1], m) ELSE f[g]]
    <3>2. ASSUME NEW g \in 0..m PROVE h[g] = WriteRound(L, end, h[g - 1], g)
      <4>1. CASE g = 0
        <5>1. h[0] = WriteRound(L, end, f[0 - 1], 0)
            BY <3>1, <2>3 DEF WriteRounds
        <5>2. WriteRound(L, end, f[0 - 1], 0) = WriteRound(L, end, h[0 - 1], 0)
            BY DEF WriteRound
        <5> QED
            BY <4>1, <5>1, <5>2
      <4>2. CASE g # 0
        <5>1. h[g - 1] = f[g - 1]
            BY <4>2
        <5>2. g # m => f[g] = WriteRound(L, end, f[g - 1], g)
            BY <3>1, <4>2 DEF WriteRounds
        <5> QED
            BY <5>1, <5>2
      <4> QED
          BY <4>1, <4>2
    <3>3. WriteRounds(L, end, m, h)
        BY <3>2 DEF WriteRounds
    <3> QED
        BY <3>3, <2>1
  <2> QED
      BY <2>2, <2>3
<1> QED
    BY <1>1, <1>2

LEMMA LogLenType == LogLen \in Nat /\ Cardinality(Meta) \in Nat /\ IsFiniteSet(Meta)
    BY JournalAssumption, FS_CardinalityType, FS_AddElement DEF LogLen, Meta

(* Replays through its rounds.                                             *)
LEMMA ReplaysRounds ==
    ASSUME NEW L, NEW s0, NEW end
    PROVE  \E f : WriteRounds(L, end, LogLen, f) /\ Replays(L, s0, end) = f[LogLen][1][s0]
<1> DEFINE F == CHOOSE f : WriteRounds(L, end, LogLen, f)
<1>2. WriteRounds(L, end, LogLen, F)
    BY LogLenType, WriteRoundsExist
<1>3. Replays(L, s0, end) = F[LogLen][1][s0]
    BY DEF Replays, WriteRounds, WriteRound
<1> QED
    BY <1>2, <1>3

-----------------------------------------------------------------------------
(* A scan for a transaction of which the log has no commit block.          *)
NoCommit(L, s) == \A p \in 1..LogLen : L[p].t = "commit" => L[p].seq < s

IsLog(L) == L \in [1..LogLen -> RecordT]

LEMMA EndUnfold ==
    ASSUME NEW L, NEW f, EndRounds(L, LogLen, f), NEW g \in 0..LogLen, NEW p \in Nat, NEW s \in Nat
    PROVE  f[g][p][s] = IF g = 0 THEN s
                        ELSE IF IsHeader(L, p, "desc", s) THEN f[g - 1][p + 1 + NTags(L, p)][s]
                        ELSE IF IsHeader(L, p, "commit", s) THEN f[g - 1][p + 1][s + 1]
                        ELSE s
<1>1. f[g] = EndRound(L, f[g - 1], g)
    BY DEF EndRounds
<1> QED
    BY <1>1 DEF EndRound

(* Concatenation and the empty sequence, to keep them folded.              *)
NoWrites == <<>>
Then(u, v) == u \o v

LEMMA WriteUnfold ==
    ASSUME NEW L, NEW end, NEW f, WriteRounds(L, end, LogLen, f),
           NEW g \in 0..LogLen, NEW p \in Nat, NEW s \in Nat
    PROVE  /\ g = 0 \/ s = end => f[g][p][s] = NoWrites
           /\ g # 0 /\ s # end /\ IsHeader(L, p, "desc", s) =>
                 f[g][p][s] = Then(Copies(L, p), f[g - 1][p + 1 + NTags(L, p)][s])
           /\ g # 0 /\ s # end /\ ~IsHeader(L, p, "desc", s) /\ IsHeader(L, p, "commit", s) =>
                 f[g][p][s] = f[g - 1][p + 1][s + 1]
<1>1. f[g] = WriteRound(L, end, f[g - 1], g)
    BY DEF WriteRounds
<1> QED
    BY <1>1 DEF WriteRound, NoWrites, Then

(* A header is in the log, and a descriptor has a number of tags.          *)
LEMMA HeaderIn ==
    ASSUME NEW L, IsLog(L), NEW p \in Nat, p > 0, NEW t, NEW s, IsHeader(L, p, t, s)
    PROVE  p \in 1..LogLen /\ NTags(L, p) \in Nat
<1>1. p \in 1..LogLen
    BY LogLenType DEF IsHeader
<1>2. L[p].tags \in Seq(Meta)
    BY <1>1 DEF IsLog, RecordT
<1> QED
    BY <1>1, <1>2, LenProperties DEF NTags

LEMMA EndNoCommit ==
    ASSUME NEW L, IsLog(L), NEW s \in Nat, NoCommit(L, s), NEW f, EndRounds(L, LogLen, f),
           NEW g \in 0..LogLen, NEW p \in Nat, p > 0
    PROVE  f[g][p][s] = s
<1> DEFINE Bad == {m \in 0..LogLen : \E q \in Nat : q > 0 /\ f[m][q][s] # s}
<1>1. CASE Bad = {}
    BY <1>1
<1>2. CASE Bad # {}
  <2>0. Bad \in SUBSET Nat
      BY LogLenType
  <2>1. PICK m \in Bad : \A i \in Bad : m <= i
      BY <1>2, <2>0, LeastNat
  <2>2. PICK q \in Nat : q > 0 /\ f[m][q][s] # s
      BY <2>1
  <2> DEFINE next == q + 1 + NTags(L, q)
  <2>3. m \in 0..LogLen /\ m \in Nat
      BY <2>1, LogLenType
  <2>4. f[m][q][s] = IF m = 0 THEN s
                     ELSE IF IsHeader(L, q, "desc", s) THEN f[m - 1][next][s]
                     ELSE IF IsHeader(L, q, "commit", s) THEN f[m - 1][q + 1][s + 1]
                     ELSE s
      BY <2>2, <2>3, EndUnfold
  <2>5. ~IsHeader(L, q, "commit", s)
      BY <2>2, LogLenType DEF IsHeader, NoCommit
  <2>6. m # 0 /\ IsHeader(L, q, "desc", s) /\ f[m - 1][next][s] # s
      BY <2>2, <2>4, <2>5
  <2>7. NTags(L, q) \in Nat
      BY <2>2, <2>6, HeaderIn
  <2>8. next \in Nat /\ next > 0
      BY <2>2, <2>7
  <2> HIDE DEF next
  <2>9. m - 1 \in 0..LogLen
      BY <2>3, <2>6, LogLenType
  <2>10. m - 1 \in Bad
      BY <2>6, <2>8, <2>9
  <2> QED
      BY <2>10, <2>1, <2>3
<1> QED
    BY <1>1, <1>2

LEMMA ScanNoCommit ==
    ASSUME NEW L, IsLog(L), NEW s \in Nat, NoCommit(L, s)
    PROVE  ScanEnd(L, s) = s /\ Replays(L, s, s) = <<>>
<1>1. PICK f : EndRounds(L, LogLen, f) /\ ScanEnd(L, s) = f[LogLen][1][s]
    BY ScanEndRounds
<1>2. ScanEnd(L, s) = s
    BY <1>1, EndNoCommit, LogLenType
<1>3. PICK h : WriteRounds(L, s, LogLen, h) /\ Replays(L, s, s) = h[LogLen][1][s]
    BY ReplaysRounds
<1>4. Replays(L, s, s) = <<>>
  <2>1. LogLen \in 0..LogLen
      BY LogLenType
  <2>2. h[LogLen][1][s] = NoWrites
      BY <2>1, <1>3, WriteUnfold
  <2> QED
      BY <2>2, <1>3 DEF NoWrites
<1> QED
    BY <1>2, <1>4

-----------------------------------------------------------------------------
(* Arithmetic of the layout of the log.                                    *)
LEMMA DivMod ==
    ASSUME NEW t \in Nat \ {0}, NEW a \in Nat
    PROVE  /\ a \div t \in Nat /\ a % t \in 0..(t - 1)
           /\ a = t * (a \div t) + (a % t)
    OBVIOUS

LEMMA DivModSucc ==
    ASSUME NEW t \in Nat, NEW a \in Nat
    PROVE  /\ a \div (t + 1) \in Nat /\ a % (t + 1) \in 0..t
           /\ a = (t + 1) * (a \div (t + 1)) + (a % (t + 1))
<1> DEFINE u == t + 1
<1>1. u \in Nat \ {0} /\ u - 1 = t
    OBVIOUS
<1> HIDE DEF u
<1>2. a \div u \in Nat /\ a % u \in 0..t /\ a = u * (a \div u) + (a % u)
    BY <1>1, DivMod
<1> QED
    BY <1>2 DEF u

LEMMA TimesMono ==
    ASSUME NEW a \in Int, NEW b \in Int, NEW t \in Nat, a <= b
    PROVE  t * a <= t * b
    OBVIOUS

LEMMA TimesSucc ==
    ASSUME NEW a \in Int, NEW t \in Int
    PROVE  t * a \in Int /\ t * (a + 1) = t * a + t /\ (t + 1) * a = t * a + a
    OBVIOUS

LEMMA DivModUnique ==
    ASSUME NEW t \in Nat \ {0}, NEW g \in Nat, NEW h \in Nat,
           NEW x \in 0..(t - 1), NEW y \in 0..(t - 1), t * g + x = t * h + y
    PROVE  g = h /\ x = y
<1>1. CASE g < h
  <2>1. t * (g + 1) <= t * h
      BY <1>1, TimesMono
  <2> QED
      BY <2>1, TimesSucc
<1>2. CASE h < g
  <2>1. t * (h + 1) <= t * g
      BY <1>2, TimesMono
  <2> QED
      BY <2>1, TimesSucc
<1>3. CASE h = g
    BY <1>3
<1> QED
    BY <1>1, <1>2, <1>3

LEMMA DivModOf ==
    ASSUME NEW t \in Nat \ {0}, NEW g \in Nat, NEW x \in 0..(t - 1)
    PROVE  (t * g + x) \div t = g /\ (t * g + x) % t = x
<1> DEFINE a == t * g + x
<1>1. a \in Nat
    OBVIOUS
<1>2. a \div t \in Nat /\ a % t \in 0..(t - 1) /\ a = t * (a \div t) + (a % t)
    BY <1>1, DivMod
<1> QED
    BY <1>2, DivModUnique

LEMMA MinPair ==
    ASSUME NEW a \in Int, NEW b \in Int
    PROVE  Min({a, b}) = IF a <= b THEN a ELSE b
    BY DEF Min

(* As many descriptors as are needed, and no more.                         *)
LEMMA DescriptorsBound ==
    ASSUME NEW n \in Nat
    PROVE  /\ Descriptors(n) \in 0..n
           /\ n <= TagsPer * Descriptors(n)
           /\ n > 0 => TagsPer * Descriptors(n) < n + TagsPer
           /\ n > 0 => Descriptors(n) > 0
<1> DEFINE T == TagsPer
           D == Descriptors(n)
<1>1. T \in Nat \ {0}
    BY JournalAssumption
<1>2. n + T - 1 \in Nat
    BY <1>1
<1>3. D \in Nat /\ (n + T - 1) % T \in 0..(T - 1) /\ n + T - 1 = T * D + ((n + T - 1) % T)
    BY <1>1, <1>2, DivMod DEF Descriptors
<1>4. T * D \in Int /\ T * D <= n + T - 1 /\ n <= T * D
    BY <1>1, <1>3
<1>5. D <= n
  <2> SUFFICES ASSUME n + 1 <= D PROVE FALSE
      BY <1>3
  <2>1. T * (n + 1) <= T * D
      BY <1>1, <1>3, TimesMono
  <2>2. T * n + T <= n + T - 1
      BY <2>1, <1>1, <1>4, TimesSucc
  <2>3. n * 1 <= n * T
      BY <1>1, TimesMono
  <2> QED
      BY <1>1, <2>2, <2>3
<1>6. n > 0 => D > 0
  <2> SUFFICES ASSUME n > 0, D = 0 PROVE FALSE
      BY <1>3
  <2> QED
      BY <1>1, <1>4
<1> HIDE DEF T, D
<1> QED
    BY <1>1, <1>3, <1>4, <1>5, <1>6 DEF T, D

(* The blocks named by the first j descriptors, and where the next one     *)
(* (or the commit block) is.                                               *)
Done(n, j) == IF j < Descriptors(n) THEN TagsPer * j ELSE n
Pos(n, j) == Done(n, j) + j + 1

LEMMA DoneStep ==
    ASSUME NEW n \in Nat, NEW j \in Nat, j < Descriptors(n)
    PROVE  /\ Done(n, j) = TagsPer * j /\ TagsPer * j \in Nat
           /\ Done(n, j + 1) \in (TagsPer * j + 1)..n
           /\ Done(n, j + 1) = TagsPer * j + Min({TagsPer, n - TagsPer * j})
           /\ Done(n, j + 1) - TagsPer * j <= TagsPer
<1> DEFINE T == TagsPer
           D == Descriptors(n)
           a == T * j
           b == T * D
           c == T * (j + 1)
<1>1. T \in Nat \ {0} /\ D \in 0..n /\ n <= b /\ b < n + T
    BY JournalAssumption, DescriptorsBound
<1>2. a \in Nat /\ b \in Nat /\ c = a + T
    BY <1>1, TimesSucc
<1>3. j + 1 < D => c + T <= b
  <2>1. j + 1 < D => T * (j + 1 + 1) <= b
      BY <1>1, TimesMono
  <2>2. T * (j + 1 + 1) = c + T
      BY <1>1, TimesSucc
  <2> QED
      BY <2>1, <2>2
<1>4. j + 1 = D => c = b
    OBVIOUS
<1>5. Done(n, j) = a /\ Done(n, j + 1) = IF j + 1 < D THEN c ELSE n
    BY DEF Done
<1>6. j + 1 < D \/ j + 1 = D
    BY <1>1
<1> HIDE DEF T, D, a, b, c
<1>7. Min({T, n - a}) = IF T <= n - a THEN T ELSE n - a
    BY <1>1, <1>2, MinPair
<1>8. Done(n, j) = a /\ Done(n, j + 1) \in (a + 1)..n /\ Done(n, j + 1) = a + Min({T, n - a})
      /\ Done(n, j + 1) - a <= T
  <2>1. CASE j + 1 < D
      BY <2>1, <1>1, <1>2, <1>3, <1>5, <1>7
  <2>2. CASE j + 1 = D
      BY <2>2, <1>1, <1>2, <1>4, <1>5, <1>7
  <2> QED
      BY <2>1, <2>2, <1>6
<1> QED
    BY <1>2, <1>8 DEF T, a

Writes == [blk : Meta, val : BlockVals]

(* The first n blocks of the image of w are in the log L.                  *)
Written(L, w, s, n) == \A p \in 1..n : L[p] = LogImage(w, s)[p]

LEMMA WriteAt ==
    ASSUME NEW w \in Seq(Writes), NEW i \in 1..Len(w)
    PROVE  /\ w[i] \in Writes /\ w[i].blk \in Meta /\ w[i].val \in BlockVals
           /\ w[i] = [blk |-> w[i].blk, val |-> w[i].val]
<1>1. w[i] \in Writes
    BY ElementOfSeq
<1> QED
    BY <1>1 DEF Writes

LEMMA LogSizeType ==
    ASSUME NEW w \in Seq(Writes)
    PROVE  /\ Len(w) \in Nat /\ LogSize(w) \in Nat /\ LogSize(w) > Len(w)
           /\ LogSize(w) = Pos(Len(w), Descriptors(Len(w)))
<1>1. Len(w) \in Nat
    OBVIOUS
<1>2. Descriptors(Len(w)) \in Nat
    BY <1>1, DescriptorsBound
<1> QED
    BY <1>1, <1>2 DEF LogSize, Pos, Done

(* The blocks of the image one by one.                                     *)
LEMMA ImageAt ==
    ASSUME NEW w \in Seq(Writes), NEW s, NEW j \in Nat, j < Descriptors(Len(w)),
           NEW x \in 0..(Done(Len(w), j + 1) - TagsPer * j)
    PROVE  /\ TagsPer * j + j + 1 + x \in 1..(LogSize(w) - 1)
           /\ LogImage(w, s)[TagsPer * j + j + 1 + x] =
                IF x = 0 THEN Record("desc", s, Tags(w, TagsPer * j), None)
                ELSE Record("data", 0, <<>>, w[TagsPer * j + x].val)
<1> DEFINE T == TagsPer
           n == Len(w)
           a == T * j
           p == a + j + 1 + x
<1>1. T \in Nat \ {0} /\ n \in Nat /\ Descriptors(n) \in Nat
    BY JournalAssumption, LogSizeType, DescriptorsBound
<1>2. a \in Nat /\ Done(n, j + 1) \in (a + 1)..n /\ Done(n, j + 1) - a <= T
    BY <1>1, DoneStep
<1>3. LogSize(w) = n + Descriptors(n) + 1
    BY DEF LogSize
<1>4. p \in 1..(LogSize(w) - 1)
    BY <1>1, <1>2, <1>3
<1>5. x \in 0..T /\ x \in 0..((T + 1) - 1) /\ T + 1 \in Nat \ {0}
    BY <1>1, <1>2
<1>6. p - 1 = (T + 1) * j + x
    BY <1>1, <1>2, <1>5, TimesSucc
<1>7. (p - 1) \div (T + 1) = j /\ (p - 1) % (T + 1) = x
    BY <1>5, <1>6, DivModOf
<1>8. p \in 1..LogSize(w) /\ p # LogSize(w)
    BY <1>4, LogSizeType
<1>9. LogImage(w, s)[p] = IF x = 0 THEN Record("desc", s, Tags(w, a), None)
                          ELSE Record("data", 0, <<>>, w[a + x].val)
    BY <1>7, <1>8 DEF LogImage
<1> QED
    BY <1>4, <1>9

LEMMA ImageEnd ==
    ASSUME NEW w \in Seq(Writes), NEW s
    PROVE  LogImage(w, s)[LogSize(w)] = Record("commit", s, <<>>, None)
    BY LogSizeType DEF LogImage

LEMMA ImageCover ==
    ASSUME NEW w \in Seq(Writes), NEW p \in 1..(LogSize(w) - 1)
    PROVE  \E j \in Nat : /\ j < Descriptors(Len(w))
                          /\ \E x \in 0..(Done(Len(w), j + 1) - TagsPer * j) :
                                p = TagsPer * j + j + 1 + x
<1> DEFINE T == TagsPer
           n == Len(w)
           D == Descriptors(n)
           j == (p - 1) \div (T + 1)
           x == (p - 1) % (T + 1)
<1>1. T \in Nat \ {0} /\ n \in Nat /\ D \in Nat /\ n <= T * D
    BY JournalAssumption, LogSizeType, DescriptorsBound
<1>2. LogSize(w) = n + D + 1
    BY DEF LogSize
<1>3. p \in Nat /\ p - 1 \in Nat /\ p <= n + D
    BY <1>1, <1>2
<1>4. j \in Nat /\ x \in 0..T /\ p - 1 = (T + 1) * j + x
    BY <1>1, <1>3, DivModSucc
<1> HIDE DEF j, x, D
<1>5. p - 1 = T * j + j + x /\ T * j \in Nat
    BY <1>1, <1>4, TimesSucc
<1>6. j < D
  <2> SUFFICES ASSUME D <= j PROVE FALSE
      BY <1>1, <1>4
  <2>1. T * D <= T * j
      BY <1>1, <1>4, TimesMono
  <2> QED
      BY <2>1, <1>1, <1>3, <1>4, <1>5
<1>7. x <= Done(n, j + 1) - T * j
  <2>1. CASE j + 1 < D
    <3>1. Done(n, j + 1) = T * j + T
        BY <2>1, <1>1, <1>4, TimesSucc DEF Done, D
    <3> QED
        BY <3>1, <1>1, <1>4, <1>5
  <2>2. CASE j + 1 = D
    <3>1. Done(n, j + 1) = n
        BY <2>2, <1>1 DEF Done, D
    <3> QED
        BY <3>1, <2>2, <1>1, <1>3, <1>4, <1>5
  <2> QED
      BY <2>1, <2>2, <1>1, <1>4, <1>6
<1>8. p = T * j + j + 1 + x
    BY <1>1, <1>3, <1>4, <1>5
<1>9. x \in 0..(Done(n, j + 1) - T * j)
  <2>1. Done(n, j + 1) \in Int
    <3>1. Done(n, j + 1) \in (T * j + 1)..n
        BY <1>1, <1>4, <1>6, DoneStep DEF D
    <3> QED
        BY <3>1, <1>1
  <2> QED
      BY <2>1, <1>1, <1>4, <1>5, <1>7
<1> QED
    BY <1>4, <1>6, <1>8, <1>9 DEF D

(* The tags of a descriptor name the blocks of the transaction.            *)
LEMMA TagsType ==
    ASSUME NEW w \in Seq(Writes), NEW j \in Nat, j < Descriptors(Len(w))
    PROVE  /\ Tags(w, TagsPer * j) \in Seq(Meta)
           /\ Len(Tags(w, TagsPer * j)) = Done(Len(w), j + 1) - TagsPer * j
           /\ \A x \in 1..(Done(Len(w), j + 1) - TagsPer * j) :
                 Tags(w, TagsPer * j)[x] = w[TagsPer * j + x].blk
<1> DEFINE a == TagsPer * j
           c == Done(Len(w), j + 1) - a
           t == [x \in 1..c |-> w[a + x].blk]
<1>1. Len(w) \in Nat
    OBVIOUS
<1>2. a \in Nat /\ Done(Len(w), j + 1) \in (a + 1)..Len(w) /\ c = Min({TagsPer, Len(w) - a})
  <2>1. a \in Nat /\ Done(Len(w), j + 1) \in (a + 1)..Len(w)
        /\ Done(Len(w), j + 1) = a + Min({TagsPer, Len(w) - a})
      BY <1>1, DoneStep
  <2>2. Min({TagsPer, Len(w) - a}) \in Int
      BY <2>1, JournalAssumption, MinPair
  <2> QED
      BY <2>1, <2>2
<1>3. Tags(w, a) = t
    BY <1>2 DEF Tags
<1> HIDE DEF a
<1>4. c \in Nat /\ \A x \in 1..c : a + x \in 1..Len(w)
    BY <1>2
<1>5. \A x \in 1..c : w[a + x].blk \in Meta
    BY <1>4, WriteAt
<1> HIDE DEF c
<1>6. t \in Seq(Meta) /\ Len(t) = c
    BY <1>4, <1>5
<1> QED
    BY <1>3, <1>6 DEF c, a

LEMMA ImageType ==
    ASSUME NEW w \in Seq(Writes), NEW s \in Nat, NEW p \in 1..LogSize(w)
    PROVE  /\ LogImage(w, s)[p] \in RecordT
           /\ p # LogSize(w) => LogImage(w, s)[p].t # "commit"
           /\ LogImage(w, s)[p].t = "commit" => LogImage(w, s)[p].seq = s
<1>0. None \in BlockVals /\ <<>> \in Seq(Meta)
  <2>1. None \in BlockVals
      BY DEF BlockVals
  <2> QED
      BY <2>1
<1>1. CASE p = LogSize(w)
  <2>1. LogImage(w, s)[p] = Record("commit", s, <<>>, None)
      BY <1>1, ImageEnd
  <2>2. Record("commit", s, <<>>, None) \in RecordT
      BY <1>0 DEF Record, RecordT
  <2> QED
      BY <2>1, <2>2, <1>1 DEF Record
<1>2. CASE p # LogSize(w)
  <2>1. p \in 1..(LogSize(w) - 1)
      BY <1>2, LogSizeType
  <2>2. PICK j \in Nat : /\ j < Descriptors(Len(w))
                         /\ \E x \in 0..(Done(Len(w), j + 1) - TagsPer * j) :
                               p = TagsPer * j + j + 1 + x
      BY <2>1, ImageCover
  <2>3. PICK x \in 0..(Done(Len(w), j + 1) - TagsPer * j) : p = TagsPer * j + j + 1 + x
      BY <2>2
  <2>4. LogImage(w, s)[p] = IF x = 0 THEN Record("desc", s, Tags(w, TagsPer * j), None)
                            ELSE Record("data", 0, <<>>, w[TagsPer * j + x].val)
      BY <2>2, <2>3, ImageAt
  <2>5. Tags(w, TagsPer * j) \in Seq(Meta)
      BY <2>2, TagsType
  <2>6. x # 0 => w[TagsPer * j + x].val \in BlockVals
    <3>1. TagsPer * j \in Nat /\ Done(Len(w), j + 1) \in (TagsPer * j + 1)..Len(w)
        BY <2>2, DoneStep, LogSizeType
    <3>2. x # 0 => TagsPer * j + x \in 1..Len(w)
        BY <3>1, <2>3
    <3> QED
        BY <3>2, WriteAt
  <2> QED
      BY <1>0, <1>2, <2>4, <2>5, <2>6 DEF Record, RecordT
<1> QED
    BY <1>1, <1>2

-----------------------------------------------------------------------------
(* A scan of a log that holds the whole image of w.                        *)
Part(w, a, b) == [x \in 1..(b - a) |-> w[a + x]]

LEMMA ScanHeaders ==
    ASSUME NEW L, NEW w \in Seq(Writes), NEW s \in Nat, LogSize(w) <= LogLen,
           Written(L, w, s, LogSize(w)), NEW j \in Nat, j < Descriptors(Len(w))
    PROVE  /\ Pos(Len(w), j) \in Nat /\ Pos(Len(w), j) > 0
           /\ IsHeader(L, Pos(Len(w), j), "desc", s)
           /\ Pos(Len(w), j) + 1 + NTags(L, Pos(Len(w), j)) = Pos(Len(w), j + 1)
           /\ Copies(L, Pos(Len(w), j)) = Part(w, Done(Len(w), j), Done(Len(w), j + 1))
<1> DEFINE a == TagsPer * j
           c == Done(Len(w), j + 1) - a
           p == a + j + 1
<1>1. /\ Len(w) \in Nat /\ a \in Nat /\ Done(Len(w), j) = a
      /\ Done(Len(w), j + 1) \in (a + 1)..Len(w) /\ c \in Nat
  <2>1. /\ Len(w) \in Nat /\ a \in Nat /\ Done(Len(w), j) = a
        /\ Done(Len(w), j + 1) \in (a + 1)..Len(w)
      BY LogSizeType, DoneStep
  <2> QED
      BY <2>1
<1>2. Pos(Len(w), j) = p /\ Pos(Len(w), j + 1) = p + 1 + c
    BY <1>1 DEF Pos
<1>3. ASSUME NEW x \in 0..c
      PROVE  /\ p + x \in 1..LogSize(w) /\ p + x # LogSize(w)
             /\ L[p + x] = IF x = 0 THEN Record("desc", s, Tags(w, a), None)
                           ELSE Record("data", 0, <<>>, w[a + x].val)
  <2>1. /\ a + j + 1 + x \in 1..(LogSize(w) - 1)
        /\ LogImage(w, s)[a + j + 1 + x] =
             IF x = 0 THEN Record("desc", s, Tags(w, a), None)
             ELSE Record("data", 0, <<>>, w[a + x].val)
      BY ImageAt
  <2> QED
      BY <2>1, LogSizeType DEF Written
<1>4. 0 \in 0..c /\ p + 0 = p
    BY <1>1
<1>5. p \in 1..LogSize(w) /\ L[p] = Record("desc", s, Tags(w, a), None)
    BY <1>3, <1>4
<1>6. Len(Tags(w, a)) = c /\ \A x \in 1..c : Tags(w, a)[x] = w[a + x].blk
    BY TagsType
<1> HIDE DEF c, p, a
<1>7. IsHeader(L, p, "desc", s)
    BY <1>5, LogSizeType, LogLenType DEF IsHeader, Record
<1>8. L[p].tags = Tags(w, a)
    BY <1>5 DEF Record
<1>9. NTags(L, p) = c
    BY <1>8, <1>6 DEF NTags
<1>10. ASSUME NEW x \in 1..c PROVE [blk |-> L[p].tags[x], val |-> L[p + x].val] = w[a + x]
  <2>1. L[p + x].val = w[a + x].val
    <3>1. x \in 0..c /\ x # 0
        BY <1>1
    <3>2. L[p + x] = Record("data", 0, <<>>, w[a + x].val)
        BY <3>1, <1>3
    <3> QED
        BY <3>2 DEF Record
  <2>2. L[p].tags[x] = w[a + x].blk
      BY <1>6, <1>8
  <2>3. a + x \in 1..Len(w)
      BY <1>1 DEF c
  <2> QED
      BY <2>1, <2>2, <2>3, WriteAt
<1>11. Copies(L, p) = [x \in 1..c |-> w[a + x]]
    BY <1>9, <1>10 DEF Copies
<1>12. p \in Nat /\ p > 0
    BY <1>5, LogSizeType
<1> QED
    BY <1>1, <1>2, <1>7, <1>9, <1>11, <1>12 DEF c, Part

(* Pass 0 finds the transaction complete.                                  *)
LEMMA EndFull ==
    ASSUME NEW L, IsLog(L), NEW w \in Seq(Writes), NEW s \in Nat, LogSize(w) <= LogLen,
           Written(L, w, s, LogSize(w)), NoCommit(L, s + 1),
           NEW f, EndRounds(L, LogLen, f),
           NEW g \in 0..LogLen, NEW j \in 0..Descriptors(Len(w)), g + j > Descriptors(Len(w))
    PROVE  f[g][Pos(Len(w), j)][s] = s + 1
<1> DEFINE D == Descriptors(Len(w))
           pos(i) == Pos(Len(w), i)
           Bad == {m \in 0..LogLen : \E i \in 0..D : m + i > D /\ f[m][pos(i)][s] # s + 1}
<1>0. D \in Nat /\ Len(w) \in Nat
    BY LogSizeType, DescriptorsBound
<1>1. CASE Bad = {}
    BY <1>1
<1>2. CASE Bad # {}
  <2>0. Bad \in SUBSET Nat
      BY LogLenType
  <2>1. PICK m \in Bad : \A i \in Bad : m <= i
      BY <1>2, <2>0, LeastNat
  <2>2. PICK i \in 0..D : m + i > D /\ f[m][pos(i)][s] # s + 1
      BY <2>1
  <2>3. m \in 0..LogLen /\ m \in Nat /\ m # 0 /\ m - 1 \in 0..LogLen /\ i \in Nat
      BY <2>1, <2>2, <1>0, LogLenType
  <2>4. CASE i < D
    <3>1. /\ pos(i) \in Nat /\ IsHeader(L, pos(i), "desc", s)
          /\ pos(i) + 1 + NTags(L, pos(i)) = pos(i + 1)
        BY <2>3, <2>4, ScanHeaders
    <3> HIDE DEF pos
    <3>2. f[m][pos(i)][s] = f[m - 1][pos(i + 1)][s]
        BY <3>1, <2>3, EndUnfold, SMTT(30)
    <3>3. i + 1 \in 0..D /\ (m - 1) + (i + 1) > D
        BY <2>2, <2>3, <2>4, <1>0
    <3>4. m - 1 \in Bad
        BY <3>2, <3>3, <2>2, <2>3
    <3> QED
        BY <3>4, <2>1, <2>3
  <2>5. CASE i = D
    <3>1. pos(i) = LogSize(w) /\ LogSize(w) \in Nat /\ LogSize(w) > 0
        BY <2>5, LogSizeType
    <3>2. L[LogSize(w)] = Record("commit", s, <<>>, None)
        BY <3>1, ImageEnd DEF Written
    <3> HIDE DEF pos
    <3>3. IsHeader(L, pos(i), "commit", s) /\ ~IsHeader(L, pos(i), "desc", s)
        BY <3>1, <3>2 DEF IsHeader, Record
    <3>4. f[m][pos(i)][s] = f[m - 1][pos(i) + 1][s + 1]
        BY <3>1, <3>3, <2>3, EndUnfold, SMTT(30)
    <3>5. pos(i) + 1 \in Nat /\ pos(i) + 1 > 0 /\ s + 1 \in Nat
        BY <3>1
    <3>6. f[m - 1][pos(i) + 1][s + 1] = s + 1
        BY <3>5, <2>3, EndNoCommit
    <3> QED
        BY <3>4, <3>6, <2>2
  <2> QED
      BY <2>2, <2>4, <2>5, <1>0
<1> QED
    BY <1>1, <1>2

(* Pass 1 writes what is left of it.                                       *)
Rest(w, d) == [x \in 1..(Len(w) - d) |-> w[d + x]]

LEMMA RestStep ==
    ASSUME NEW w \in Seq(Writes), NEW a \in Nat, NEW b \in Nat, a <= b, b <= Len(w)
    PROVE  Then(Part(w, a, b), Rest(w, b)) = Rest(w, a)
<1> DEFINE u == Part(w, a, b)
           v == Rest(w, b)
           n == Len(w)
<1>1. n \in Nat /\ b - a \in Nat /\ n - b \in Nat /\ n - a \in Nat
    BY LogSizeType
<1>2. \A x \in 1..(b - a) : w[a + x] \in Writes
    BY <1>1, WriteAt
<1>3. \A x \in 1..(n - b) : w[b + x] \in Writes
    BY <1>1, WriteAt
<1>4. u \in Seq(Writes) /\ Len(u) = b - a
    BY <1>1, <1>2 DEF Part
<1>5. v \in Seq(Writes) /\ Len(v) = n - b
    BY <1>1, <1>3 DEF Rest
<1>6. \A x \in 1..(n - a) : w[a + x] \in Writes
    BY <1>1, WriteAt
<1>7. Rest(w, a) \in Seq(Writes) /\ Len(Rest(w, a)) = n - a
    BY <1>1, <1>6 DEF Rest
<1> HIDE DEF u, v, n
<1>8. u \o v \in Seq(Writes) /\ Len(u \o v) = n - a
    BY <1>1, <1>4, <1>5
<1>9. ASSUME NEW x \in 1..(n - a) PROVE (u \o v)[x] = Rest(w, a)[x]
  <2>1. (u \o v)[x] = IF x <= b - a THEN u[x] ELSE v[x - (b - a)]
      BY <1>1, <1>4, <1>5
  <2>2. CASE x <= b - a
      BY <2>1, <2>2, <1>1 DEF u, Part, Rest, n
  <2>3. CASE ~(x <= b - a)
    <3>1. x - (b - a) \in 1..(n - b) /\ b + (x - (b - a)) = a + x
        BY <2>3, <1>1
    <3>2. v[x - (b - a)] = w[a + x]
        BY <3>1 DEF v, Rest, n
    <3> QED
        BY <3>2, <2>1, <2>3, <1>1 DEF Rest, n
  <2> QED
      BY <2>2, <2>3
<1> QED
    BY <1>7, <1>8, <1>9, SeqEqual DEF u, v, Then

LEMMA WriteFull ==
    ASSUME NEW L, IsLog(L), NEW w \in Seq(Writes), NEW s \in Nat, LogSize(w) <= LogLen,
           Written(L, w, s, LogSize(w)),
           NEW f, WriteRounds(L, s + 1, LogLen, f),
           NEW g \in 0..LogLen, NEW j \in 0..Descriptors(Len(w)), g + j > Descriptors(Len(w))
    PROVE  f[g][Pos(Len(w), j)][s] = Rest(w, Done(Len(w), j))
<1> DEFINE D == Descriptors(Len(w))
           pos(i) == Pos(Len(w), i)
           dn(i) == Done(Len(w), i)
           Bad == {m \in 0..LogLen : \E i \in 0..D : m + i > D /\ f[m][pos(i)][s] # Rest(w, dn(i))}
<1>0. D \in Nat /\ Len(w) \in Nat /\ s # s + 1
    BY LogSizeType, DescriptorsBound
<1>1. CASE Bad = {}
    BY <1>1
<1>2. CASE Bad # {}
  <2>0. Bad \in SUBSET Nat
      BY LogLenType
  <2>1. PICK m \in Bad : \A i \in Bad : m <= i
      BY <1>2, <2>0, LeastNat
  <2>2. PICK i \in 0..D : m + i > D /\ f[m][pos(i)][s] # Rest(w, dn(i))
      BY <2>1
  <2>3. m \in 0..LogLen /\ m \in Nat /\ m # 0 /\ m - 1 \in 0..LogLen /\ i \in Nat
      BY <2>1, <2>2, <1>0, LogLenType
  <2>4. CASE i < D
    <3>1. /\ pos(i) \in Nat /\ IsHeader(L, pos(i), "desc", s)
          /\ pos(i) + 1 + NTags(L, pos(i)) = pos(i + 1)
        BY <2>3, <2>4, ScanHeaders
    <3>1c. Copies(L, pos(i)) = Part(w, dn(i), dn(i + 1))
        BY <2>3, <2>4, ScanHeaders
    <3>2. dn(i) \in Nat /\ dn(i + 1) \in Nat /\ dn(i) <= dn(i + 1) /\ dn(i + 1) <= Len(w)
      <4>1. dn(i) \in Nat /\ dn(i + 1) \in (dn(i) + 1)..Len(w)
          BY <2>3, <2>4, <1>0, DoneStep
      <4> QED
          BY <4>1, <1>0
    <3> HIDE DEF pos, dn
    <3>3. f[m][pos(i)][s] = Then(Copies(L, pos(i)), f[m - 1][pos(i + 1)][s])
      <4>1. f[m][pos(i)][s] = Then(Copies(L, pos(i)), f[m - 1][pos(i) + 1 + NTags(L, pos(i))][s])
          BY <3>1, <2>3, <1>0, WriteUnfold, SMTT(30)
      <4> QED
          BY <4>1, <3>1
    <3>4. i + 1 \in 0..D /\ (m - 1) + (i + 1) > D
        BY <2>2, <2>3, <2>4, <1>0, SMTT(30)
    <3>5. f[m - 1][pos(i + 1)][s] # Rest(w, dn(i + 1))
      <4> SUFFICES ASSUME f[m - 1][pos(i + 1)][s] = Rest(w, dn(i + 1)) PROVE FALSE
          OBVIOUS
      <4>1. Then(Copies(L, pos(i)), Rest(w, dn(i + 1))) = Rest(w, dn(i))
          BY <3>1c, <3>2, RestStep
      <4> QED
          BY <4>1, <3>3, <2>2
    <3>6. m - 1 \in Bad
        BY <3>4, <3>5, <2>3
    <3> QED
        BY <3>6, <2>1, <2>3
  <2>5. CASE i = D
    <3>1. pos(i) = LogSize(w) /\ LogSize(w) \in Nat /\ LogSize(w) > 0 /\ dn(i) = Len(w)
        BY <2>5, <1>0, LogSizeType DEF Done
    <3>2. L[LogSize(w)] = Record("commit", s, <<>>, None)
        BY <3>1, ImageEnd DEF Written
    <3>3. Rest(w, dn(i)) = NoWrites
        BY <3>1, <1>0 DEF Rest, NoWrites
    <3> HIDE DEF pos, dn
    <3>4. IsHeader(L, pos(i), "commit", s) /\ ~IsHeader(L, pos(i), "desc", s)
        BY <3>1, <3>2 DEF IsHeader, Record
    <3>5. f[m][pos(i)][s] = f[m - 1][pos(i) + 1][s + 1]
      <4>1. pos(i) \in Nat
          BY <3>1
      <4> DEFINE q == pos(i)
      <4> HIDE DEF q
      <4>2. /\ q \in Nat /\ IsHeader(L, q, "commit", s) /\ ~IsHeader(L, q, "desc", s)
          BY <4>1, <3>4 DEF q
      <4>3. f[m][q][s] = f[m - 1][q + 1][s + 1]
          BY <4>2, <2>3, <1>0, WriteUnfold, SMTT(30)
      <4> QED
          BY <4>3 DEF q
    <3>6. pos(i) + 1 \in Nat /\ s + 1 \in Nat
        BY <3>1
    <3>7. f[m - 1][pos(i) + 1][s + 1] = NoWrites
        BY <3>6, <2>3, WriteUnfold
    <3> QED
        BY <3>3, <3>5, <3>7, <2>2
  <2> QED
      BY <2>2, <2>4, <2>5, <1>0
<1> QED
    BY <1>1, <1>2

LEMMA ScanFull ==
    ASSUME NEW L, IsLog(L), NEW w \in Seq(Writes), NEW s \in Nat, LogSize(w) <= LogLen,
           Written(L, w, s, LogSize(w)), NoCommit(L, s + 1)
    PROVE  ScanEnd(L, s) = s + 1 /\ Replays(L, s, s + 1) = w
<1> DEFINE n == Len(w)
           D == Descriptors(n)
<1>1. n \in Nat /\ D \in 0..n /\ (n > 0 => D > 0) /\ LogSize(w) = n + D + 1
    BY LogSizeType, DescriptorsBound DEF LogSize
<1>2. LogLen \in 0..LogLen /\ 0 \in 0..D /\ LogLen + 0 > D
    BY <1>1, LogLenType
<1>3. Done(n, 0) = 0 /\ Pos(n, 0) = 1
    BY <1>1, JournalAssumption DEF Done, Pos
<1> HIDE DEF n, D
<1>4. PICK f : EndRounds(L, LogLen, f) /\ ScanEnd(L, s) = f[LogLen][1][s]
    BY ScanEndRounds
<1>5. ScanEnd(L, s) = s + 1
  <2>1. f[LogLen][Pos(n, 0)][s] = s + 1
      BY <1>2, <1>4, EndFull DEF n, D
  <2> QED
      BY <2>1, <1>3, <1>4
<1>6. PICK h : WriteRounds(L, s + 1, LogLen, h) /\ Replays(L, s, s + 1) = h[LogLen][1][s]
    BY ReplaysRounds
<1>7. h[LogLen][Pos(n, 0)][s] = Rest(w, Done(n, 0))
    BY <1>2, <1>6, WriteFull DEF n, D
<1>8. Rest(w, 0) = w
  <2>1. \A x \in 1..Len(w) : 0 + x = x
      BY <1>1
  <2>2. w = [x \in 1..Len(w) |-> w[x]] /\ Len(w) - 0 = Len(w)
      BY <1>1 DEF n
  <2> QED
      BY <2>1, <2>2 DEF Rest
<1> QED
    BY <1>3, <1>5, <1>6, <1>7, <1>8

(* The log has room for a transaction.                                     *)
LEMMA TxFits ==
    ASSUME NEW w, IsTx(w)
    PROVE  w \in Seq(Writes) /\ Len(w) \in Nat /\ LogSize(w) \in Nat /\ LogSize(w) <= LogLen
<1>1. w \in Seq(Writes) /\ Len(w) \in Nat
    BY DEF IsTx, Writes
<1> DEFINE b == [i \in 1..Len(w) |-> w[i].blk]
<1>2. \A i \in 1..Len(w) : w[i].blk \in Meta
    BY <1>1, WriteAt
<1>3. \A i, j \in 1..Len(w) : w[i].blk = w[j].blk => i = j
    BY <1>1 DEF IsTx
<1>4. b \in Injection(1..Len(w), Meta)
    BY <1>2, <1>3 DEF Injection, IsInjective
<1>5. Cardinality(1..Len(w)) <= Cardinality(Meta)
    BY <1>4, LogLenType, FS_Injection
<1>6. Len(w) <= Cardinality(Meta)
    BY <1>1, <1>5, FS_Interval, SMTT(30)
<1>7. Descriptors(Len(w)) \in 0..Len(w)
    BY <1>1, DescriptorsBound
<1> QED
    BY <1>1, <1>6, <1>7, LogLenType DEF LogSize, LogLen


-----------------------------------------------------------------------------
(* The metadata under a transaction.                                       *)
At(w, m) == {i \in DOMAIN w : w[i].blk = m}

LEMMA MaxOne ==
    ASSUME NEW i \in Int
    PROVE  Max({i}) = i
    BY DEF Max

LEMMA TxDomain ==
    ASSUME NEW w, IsTx(w)
    PROVE  /\ w \in Seq(Writes) /\ Len(w) \in Nat /\ DOMAIN w = 1..Len(w)
           /\ \A i \in 1..Len(w) : /\ w[i].blk \in Meta /\ Fits(w[i].blk, w[i].val)
                                   /\ w[i].val \in BlockVals
           /\ \A i, j \in 1..Len(w) : w[i].blk = w[j].blk => i = j
<1>1. w \in Seq(Writes) /\ Len(w) \in Nat /\ DOMAIN w = 1..Len(w)
    BY DEF IsTx, Writes
<1>2. \A i \in 1..Len(w) : w[i].blk \in Meta /\ w[i].val \in BlockVals
    BY <1>1, WriteAt
<1> QED
    BY <1>1, <1>2 DEF IsTx

(* A block that is in the transaction once.                                *)
LEMMA OverlayAt ==
    ASSUME NEW M, NEW w, IsTx(w), NEW i \in 1..Len(w)
    PROVE  Overlay(M, w)[w[i].blk] = w[i].val
<1>1. At(w, w[i].blk) = {i} /\ i \in Int
    BY TxDomain DEF At
<1>2. w[i].blk \in Meta
    BY TxDomain
<1> QED
    BY <1>1, <1>2, MaxOne DEF Overlay, At

LEMMA OverlayElse ==
    ASSUME NEW M, NEW w, IsTx(w), NEW m \in Meta, \A i \in 1..Len(w) : w[i].blk # m
    PROVE  Overlay(M, w)[m] = M[m]
<1>1. {i \in DOMAIN w : w[i].blk = m} = {}
    BY TxDomain
<1> QED
    BY <1>1 DEF Overlay

LEMMA OverlayShape ==
    ASSUME NEW M, NEW w
    PROVE  Overlay(M, w) = [m \in Meta |-> Overlay(M, w)[m]] /\ DOMAIN Overlay(M, w) = Meta
    BY DEF Overlay

LEMMA OverlayType ==
    ASSUME NEW M, IsMeta(M), NEW w, IsTx(w)
    PROVE  IsMeta(Overlay(M, w))
<1> DEFINE N == Overlay(M, w)
<1>1. ASSUME NEW m \in Meta PROVE N[m] \in BlockVals /\ Fits(m, N[m])
  <2>1. CASE \E i \in 1..Len(w) : w[i].blk = m
    <3>1. PICK i \in 1..Len(w) : w[i].blk = m
        BY <2>1
    <3>2. N[w[i].blk] = w[i].val
        BY OverlayAt
    <3>3. w[i].val \in BlockVals /\ Fits(w[i].blk, w[i].val)
        BY TxDomain
    <3> QED
        BY <3>1, <3>2, <3>3
  <2>2. CASE \A i \in 1..Len(w) : w[i].blk # m
    <3>1. N[m] = M[m]
        BY <2>2, OverlayElse
    <3> QED
        BY <3>1 DEF IsMeta
  <2> QED
      BY <2>1, <2>2
<1>2. N = [m \in Meta |-> N[m]]
    BY OverlayShape
<1> HIDE DEF N
<1>3. N \in [Meta -> BlockVals]
    BY <1>1, <1>2
<1> QED
    BY <1>1, <1>3 DEF IsMeta, N

LEMMA EmptyTx == IsTx(<<>>)
    BY DEF IsTx

(* N shows the transaction w, and M outside it.                            *)
Shows(M, w, N) ==
    /\ \A i \in 1..Len(w) : N[w[i].blk] = w[i].val
    /\ \A m \in Meta : (\A i \in 1..Len(w) : w[i].blk # m) => N[m] = M[m]

LEMMA OverlayIs ==
    ASSUME NEW M, NEW N, IsMeta(N), NEW w, IsTx(w), Shows(M, w, N)
    PROVE  Overlay(M, w) = N
<1>1. ASSUME NEW m \in Meta PROVE Overlay(M, w)[m] = N[m]
  <2>1. CASE \E i \in 1..Len(w) : w[i].blk = m
      BY <2>1, OverlayAt DEF Shows
  <2>2. CASE \A i \in 1..Len(w) : w[i].blk # m
      BY <2>2, OverlayElse DEF Shows
  <2> QED
      BY <2>1, <2>2
<1>2. N \in [Meta -> BlockVals]
    BY DEF IsMeta
<1> QED
    BY <1>1, <1>2, OverlayShape

LEMMA OverlayEmpty ==
    ASSUME NEW M, IsMeta(M)
    PROVE  Overlay(M, <<>>) = M
<1>1. Len(<<>>) = 0
    OBVIOUS
<1>2. Shows(M, <<>>, M)
    BY <1>1 DEF Shows
<1> QED
    BY <1>2, EmptyTx, OverlayIs

(* A block of the transaction is written in place: nothing shows.          *)
LEMMA OverlayWritten ==
    ASSUME NEW M, IsMeta(M), NEW w, IsTx(w), NEW i \in 1..Len(w), NEW v
    PROVE  Overlay([M EXCEPT ![w[i].blk] = v], w) = Overlay(M, w)
<1> DEFINE N == [M EXCEPT ![w[i].blk] = v]
<1>1. \A j \in 1..Len(w) : Overlay(M, w)[w[j].blk] = w[j].val
    BY OverlayAt
<1>2. ASSUME NEW m \in Meta, \A j \in 1..Len(w) : w[j].blk # m
      PROVE  Overlay(M, w)[m] = N[m]
  <2>1. Overlay(M, w)[m] = M[m]
      BY <1>2, OverlayElse
  <2> QED
      BY <2>1, <1>2 DEF IsMeta
<1>3. IsMeta(Overlay(M, w))
    BY OverlayType
<1> DEFINE R == Overlay(M, w)
<1> HIDE DEF N, R
<1>4. Shows(N, w, R)
    BY <1>1, <1>2 DEF R, Shows
<1>5. Overlay(N, w) = R
    BY <1>3, <1>4, OverlayIs DEF R
<1> QED
    BY <1>5 DEF N, R

LEMMA PutType ==
    ASSUME NEW M, IsMeta(M), NEW m \in Meta, NEW v, v \in BlockVals, Fits(m, v)
    PROVE  IsMeta([M EXCEPT ![m] = v])
    BY DEF IsMeta

(* The transaction is all in place.                                        *)
LEMMA OverlayDone ==
    ASSUME NEW M, IsMeta(M), NEW w, IsTx(w), \A i \in 1..Len(w) : M[w[i].blk] = w[i].val
    PROVE  Overlay(M, w) = M
<1>1. Shows(M, w, M)
    BY DEF Shows
<1> QED
    BY <1>1, OverlayIs

(* The first block of the transaction is written in place.                 *)
LEMMA OverlayTail ==
    ASSUME NEW M, IsMeta(M), NEW w, IsTx(w), w # <<>>
    PROVE  /\ IsTx(Tail(w))
           /\ Head(w).blk \in Meta /\ Head(w).val \in BlockVals
           /\ Fits(Head(w).blk, Head(w).val)
           /\ Overlay([M EXCEPT ![Head(w).blk] = Head(w).val], Tail(w)) = Overlay(M, w)
<1> DEFINE u == Tail(w)
           N == [M EXCEPT ![Head(w).blk] = Head(w).val]
           R == Overlay(M, w)
<1>1. w \in Seq(Writes) /\ Len(w) \in Nat /\ 1 \in 1..Len(w) /\ Head(w) = w[1]
    BY TxDomain
<1>2. /\ u \in Seq(Writes) /\ Len(u) = Len(w) - 1
      /\ \A i \in 1..Len(u) : u[i] = w[i + 1] /\ i + 1 \in 1..Len(w)
    BY <1>1
<1>3. /\ \A i \in 1..Len(w) : w[i].blk \in Meta /\ Fits(w[i].blk, w[i].val) /\ w[i].val \in BlockVals
      /\ \A i, j \in 1..Len(w) : w[i].blk = w[j].blk => i = j
    BY TxDomain
<1> HIDE DEF u
<1>4. IsTx(u)
  <2>1. DOMAIN u = 1..Len(u)
      BY <1>2
  <2>2. \A i \in 1..Len(u) : Fits(u[i].blk, u[i].val)
      BY <1>2, <1>3
  <2>3. ASSUME NEW i \in 1..Len(u), NEW j \in 1..Len(u), u[i].blk = u[j].blk PROVE i = j
    <3>1. w[i + 1].blk = w[j + 1].blk
        BY <1>2, <2>3
    <3>2. i + 1 = j + 1
        BY <3>1, <1>2, <1>3
    <3> QED
        BY <3>2
  <2> QED
      BY <1>2, <2>1, <2>2, <2>3 DEF IsTx, Writes
<1>5. IsMeta(R) /\ \A i \in 1..Len(w) : R[w[i].blk] = w[i].val
    BY OverlayType, OverlayAt
<1>6. \A i \in 1..Len(u) : R[u[i].blk] = u[i].val
    BY <1>2, <1>5
<1>7. ASSUME NEW m \in Meta, \A i \in 1..Len(u) : u[i].blk # m PROVE R[m] = N[m]
  <2>1. CASE m = w[1].blk
    <3>1. R[m] = w[1].val
        BY <2>1, <1>1, <1>5
    <3> QED
        BY <3>1, <2>1, <1>1 DEF IsMeta
  <2>2. CASE m # w[1].blk
    <3>1. ASSUME NEW i \in 1..Len(w) PROVE w[i].blk # m
      <4>1. CASE i = 1
          BY <4>1, <2>2
      <4>2. CASE i # 1
        <5>1. i - 1 \in 1..Len(u) /\ (i - 1) + 1 = i
            BY <4>2, <1>1, <1>2
        <5> QED
            BY <5>1, <1>2, <1>7
      <4> QED
          BY <4>1, <4>2
    <3>2. R[m] = M[m]
        BY <3>1, OverlayElse
    <3> QED
        BY <3>2, <2>2, <1>1 DEF IsMeta
  <2> QED
      BY <2>1, <2>2
<1> HIDE DEF N, R
<1>8. Overlay(N, u) = R
  <2>1. Shows(N, u, R)
      BY <1>6, <1>7 DEF Shows
  <2> QED
      BY <2>1, <1>4, <1>5, OverlayIs
<1> QED
    BY <1>1, <1>3, <1>4, <1>8 DEF u, N, R


(* ext2_jt_put: the block shows the new value, the others as before.       *)
LEMMA PutShows ==
    ASSUME NEW M, IsMeta(M), IsTx(tx), NEW m \in Meta, NEW v, v \in BlockVals, Fits(m, v)
    PROVE  /\ IsTx(JtPut(m, v)) /\ JtPut(m, v) # <<>>
           /\ Overlay(M, JtPut(m, v)) = [Overlay(M, tx) EXCEPT ![m] = v]
<1> DEFINE n == Len(tx)
           w == JtPut(m, v)
           R == [Overlay(M, tx) EXCEPT ![m] = v]
           e == [blk |-> m, val |-> v]
<1>1. /\ tx \in Seq(Writes) /\ n \in Nat /\ DOMAIN tx = 1..n
      /\ \A i \in 1..n : tx[i].blk \in Meta /\ Fits(tx[i].blk, tx[i].val) /\ tx[i].val \in BlockVals
      /\ \A i, j \in 1..n : tx[i].blk = tx[j].blk => i = j
    BY TxDomain
<1>2. e \in Writes /\ e.blk = m /\ e.val = v
    BY DEF Writes
<1>3. IsMeta(R) /\ R[m] = v /\ \A x \in Meta : x # m => R[x] = Overlay(M, tx)[x]
    BY OverlayType, PutType, OverlayShape
<1>4. CASE \A i \in 1..n : tx[i].blk # m
  <2>1. w = Append(tx, e)
      BY <1>1, <1>4 DEF JtPut
  <2>2. /\ w \in Seq(Writes) /\ Len(w) = n + 1 /\ w # <<>>
        /\ \A i \in 1..n : w[i] = tx[i]
        /\ w[n + 1] = e
      BY <1>1, <1>2, <2>1
  <2> HIDE DEF w, e, n
  <2>3. \A i \in 1..(n + 1) : i \in 1..n \/ i = n + 1
      BY <1>1
  <2>4. IsTx(w)
    <3>1. DOMAIN w = 1..(n + 1)
        BY <2>2
    <3>2. \A i \in 1..(n + 1) : Fits(w[i].blk, w[i].val)
        BY <2>2, <2>3, <1>1, <1>2
    <3>3. \A i, j \in 1..(n + 1) : w[i].blk = w[j].blk => i = j
        BY <2>2, <2>3, <1>1, <1>2, <1>4
    <3> QED
        BY <2>2, <3>1, <3>2, <3>3 DEF IsTx, Writes
  <2>5. \A i \in 1..Len(w) : R[w[i].blk] = w[i].val
    <3>1. \A i \in 1..n : R[tx[i].blk] = tx[i].val
        BY <1>1, <1>3, <1>4, OverlayAt DEF n
    <3> QED
        BY <3>1, <2>2, <2>3, <1>2, <1>3
  <2>6. ASSUME NEW x \in Meta, \A i \in 1..Len(w) : w[i].blk # x PROVE R[x] = M[x]
    <3>1. n + 1 \in 1..Len(w) /\ \A i \in 1..n : i \in 1..Len(w)
        BY <2>2, <1>1
    <3>2. x # m /\ \A i \in 1..n : tx[i].blk # x
        BY <2>6, <3>1, <2>2, <1>2
    <3>3. Overlay(M, tx)[x] = M[x]
        BY <3>2, OverlayElse DEF n
    <3> QED
        BY <3>2, <3>3, <1>3
  <2> HIDE DEF R
  <2>7. Overlay(M, w) = R
    <3>1. Shows(M, w, R)
        BY <2>5, <2>6 DEF Shows
    <3> QED
        BY <3>1, <2>4, <1>3, OverlayIs
  <2> QED
      BY <2>2, <2>4, <2>7 DEF w, R
<1>5. CASE \E i \in 1..n : tx[i].blk = m
  <2>1. PICK i \in 1..n : tx[i].blk = m
      BY <1>5
  <2>2. {j \in DOMAIN tx : tx[j].blk = m} = {i} /\ i \in Int
      BY <2>1, <1>1
  <2>3. w = [tx EXCEPT ![i].val = v]
      BY <2>2, MaxOne DEF JtPut
  <2>4. tx[i] \in Writes /\ tx[i] = [blk |-> m, val |-> tx[i].val]
      BY <2>1, <1>1, WriteAt
  <2>5. [tx[i] EXCEPT !.val = v] = e
      BY <2>4
  <2>6. w = [tx EXCEPT ![i] = e]
      BY <2>3, <2>5
  <2>7. /\ w \in Seq(Writes) /\ Len(w) = n /\ w # <<>>
        /\ \A j \in 1..n : w[j] = IF j = i THEN e ELSE tx[j]
    <3> HIDE DEF e, w
    <3>1. tx = [j \in 1..n |-> tx[j]] /\ \A j \in 1..n : tx[j] \in Writes
        BY <1>1, WriteAt
    <3>2. w = [j \in 1..n |-> IF j = i THEN e ELSE tx[j]]
        BY <2>6, <1>1, <3>1
    <3>3. \A j \in 1..n : (IF j = i THEN e ELSE tx[j]) \in Writes
        BY <3>1, <1>2
    <3>4. w \in [1..n -> Writes] /\ n \in Nat
        BY <3>2, <3>3, <1>1
    <3>5. w \in Seq(Writes) /\ Len(w) = n
        BY <3>4
    <3> QED
        BY <3>2, <3>5, <2>1
  <2> HIDE DEF w, e, n
  <2>8. \A j \in 1..n : w[j].blk = tx[j].blk /\ (j # i => w[j].val = tx[j].val)
      BY <2>7, <2>1, <1>2
  <2>9. w[i].val = v
      BY <2>7, <2>1, <1>2
  <2>10. IsTx(w)
    <3>1. DOMAIN w = 1..n
        BY <2>7
    <3>2. \A j \in 1..n : Fits(w[j].blk, w[j].val)
        BY <2>8, <2>9, <2>1, <1>1
    <3>3. \A a, b \in 1..n : w[a].blk = w[b].blk => a = b
        BY <2>8, <1>1
    <3> QED
        BY <2>7, <3>1, <3>2, <3>3 DEF IsTx, Writes
  <2>11. ASSUME NEW j \in 1..n PROVE R[w[j].blk] = w[j].val
    <3>1. CASE j = i
        BY <3>1, <2>1, <2>8, <2>9, <1>3
    <3>2. CASE j # i
      <4>1. tx[j].blk # m /\ tx[j].blk \in Meta
          BY <3>2, <2>1, <1>1
      <4>2. Overlay(M, tx)[tx[j].blk] = tx[j].val
          BY OverlayAt DEF n
      <4> QED
          BY <4>1, <4>2, <3>2, <2>8, <1>3
    <3> QED
        BY <3>1, <3>2
  <2>12. ASSUME NEW x \in Meta, \A j \in 1..n : w[j].blk # x PROVE R[x] = M[x]
    <3>1. x # m /\ \A j \in 1..n : tx[j].blk # x
        BY <2>12, <2>8, <2>1
    <3>2. Overlay(M, tx)[x] = M[x]
        BY <3>1, OverlayElse DEF n
    <3> QED
        BY <3>1, <3>2, <1>3
  <2> HIDE DEF R
  <2>13. Overlay(M, w) = R
    <3>1. Shows(M, w, R)
        BY <2>7, <2>11, <2>12 DEF Shows
    <3> QED
        BY <3>1, <2>10, <1>3, OverlayIs
  <2> QED
      BY <2>7, <2>10, <2>13 DEF w, R
<1> QED
    BY <1>4, <1>5

-----------------------------------------------------------------------------
(* What a mount would replay, of a journal superblock j and a log L.       *)
ReplayOf(j, L) == IF j.start = 0 THEN <<>> ELSE Replays(L, j.seq, ScanEnd(L, j.seq))

LEMMA ReplayIs == RecoverWrites = ReplayOf(jsb, log) /\ Recovered = Overlay(disk, RecoverWrites)
    BY DEF RecoverWrites, ReplayOf, Recovered

JsbT == [start : {0, 1}, seq : Nat]

LEMMA ReplayNone ==
    ASSUME NEW j \in JsbT, NEW L, IsLog(L), j.start = 0 \/ NoCommit(L, j.seq)
    PROVE  ReplayOf(j, L) = <<>> /\ (NoCommit(L, j.seq) => ScanEnd(L, j.seq) = j.seq)
<1>1. j.seq \in Nat
    BY DEF JsbT
<1>2. CASE j.start = 0
  <2>1. ReplayOf(j, L) = <<>>
      BY <1>2 DEF ReplayOf
  <2>2. NoCommit(L, j.seq) => ScanEnd(L, j.seq) = j.seq
      BY <1>1, ScanNoCommit
  <2> QED
      BY <2>1, <2>2
<1>3. CASE j.start # 0
  <2>1. NoCommit(L, j.seq)
      BY <1>3
  <2>2. ScanEnd(L, j.seq) = j.seq /\ Replays(L, j.seq, j.seq) = <<>>
      BY <1>1, <2>1, ScanNoCommit
  <2> QED
      BY <2>2, <1>3 DEF ReplayOf
<1> QED
    BY <1>2, <1>3

LEMMA ReplayFull ==
    ASSUME NEW j \in JsbT, NEW L, IsLog(L), j.start = 1, NoCommit(L, j.seq + 1),
           NEW w, IsTx(w), Written(L, w, j.seq, LogSize(w))
    PROVE  ReplayOf(j, L) = w /\ ScanEnd(L, j.seq) = j.seq + 1
<1>1. j.seq \in Nat
    BY DEF JsbT
<1>2. w \in Seq(Writes) /\ LogSize(w) <= LogLen
    BY TxFits
<1>3. ScanEnd(L, j.seq) = j.seq + 1 /\ Replays(L, j.seq, j.seq + 1) = w
    BY <1>1, <1>2, ScanFull
<1> QED
    BY <1>3 DEF ReplayOf

(* The next block of the image is written.                                 *)
LEMMA LogGrows ==
    ASSUME NEW L, IsLog(L), NEW w, IsTx(w), NEW s \in Nat, NEW n \in 1..LogSize(w),
           Written(L, w, s, n - 1), NoCommit(L, s)
    PROVE  /\ IsLog([L EXCEPT ![n] = LogImage(w, s)[n]])
           /\ Written([L EXCEPT ![n] = LogImage(w, s)[n]], w, s, n)
           /\ n # LogSize(w) => NoCommit([L EXCEPT ![n] = LogImage(w, s)[n]], s)
           /\ NoCommit([L EXCEPT ![n] = LogImage(w, s)[n]], s + 1)
<1> DEFINE e == LogImage(w, s)[n]
           N == [L EXCEPT ![n] = e]
<1>1. w \in Seq(Writes) /\ LogSize(w) \in Nat /\ LogSize(w) <= LogLen /\ LogLen \in Nat
    BY TxFits, LogLenType
<1>2. /\ e \in RecordT /\ (n # LogSize(w) => e.t # "commit")
      /\ (e.t = "commit" => e.seq = s)
    BY <1>1, ImageType
<1>3. n \in 1..LogLen /\ n \in Nat
    BY <1>1
<1>3a. L \in [1..LogLen -> RecordT]
    BY DEF IsLog
<1> HIDE DEF e
<1>4. N \in [1..LogLen -> RecordT] /\ N[n] = e /\ \A p \in 1..LogLen : p # n => N[p] = L[p]
    BY <1>2, <1>3, <1>3a
<1> HIDE DEF N
<1>5. Written(N, w, s, n)
  <2>1. ASSUME NEW p \in 1..n PROVE N[p] = LogImage(w, s)[p]
    <3>1. p # n => p \in 1..(n - 1) /\ p \in 1..LogLen
        BY <1>1, <1>3
    <3> QED
        BY <3>1, <1>4 DEF Written, e
  <2> QED
      BY <2>1 DEF Written
<1>6. n # LogSize(w) => NoCommit(N, s)
    BY <1>2, <1>4 DEF NoCommit
<1>7. ASSUME NEW p \in 1..LogLen, N[p].t = "commit" PROVE N[p].seq < s + 1
  <2>1. CASE p = n
      BY <2>1, <1>2, <1>4, <1>7
  <2>2. CASE p # n
    <3>1. L[p].seq < s /\ L[p].seq \in Nat
        BY <2>2, <1>3a, <1>4, <1>7 DEF NoCommit, RecordT
    <3> QED
        BY <3>1, <2>2, <1>4
  <2> QED
      BY <2>1, <2>2
<1> QED
    BY <1>4, <1>5, <1>6, <1>7 DEF N, e, IsLog, NoCommit

LEMMA NoCommitLater ==
    ASSUME NEW L, IsLog(L), NEW s \in Nat, NoCommit(L, s)
    PROVE  NoCommit(L, s + 1)
<1>1. \A p \in 1..LogLen : L[p].seq \in Nat
    BY DEF IsLog, RecordT
<1> QED
    BY <1>1 DEF NoCommit


-----------------------------------------------------------------------------
(* The inductive invariant.                                                *)

(* Either no transaction from the one the superblock names on is complete  *)
(* in the log, or exactly that one is.                                     *)
LogOK ==
    \/ NoCommit(log, jsb.seq)
    \/ /\ jsb.start = 1 /\ NoCommit(log, jsb.seq + 1)
       /\ \E w : IsTx(w) /\ Written(log, w, jsb.seq, LogSize(w))

(* The superblock and the transaction, by where the writer is.             *)
JsbAt ==
    /\ ~ro /\ phase \in {"idle", "op", "retry", "sb1", "mounted"} =>
          jsb = [start |-> 0, seq |-> seq]
    /\ phase \in {"log", "ckpt", "sb0"} => jsb = [start |-> 1, seq |-> seq]
    /\ phase \in {"down", "replay", "mounted"} => tx = <<>> /\ freed = {}
    /\ ro => phase = "idle"
    /\ phase \in {"sb1", "log", "ckpt", "sb0"} => tx # <<>>

LogAt ==
    phase = "log" => /\ NoCommit(log, seq)
                     /\ k \in 1..LogSize(tx) /\ Written(log, tx, seq, k - 1)

CkptAt ==
    phase \in {"ckpt", "sb0"} =>
       /\ NoCommit(log, seq + 1) /\ Written(log, tx, seq, LogSize(tx))
       /\ k \in 1..(Len(tx) + 1)
       /\ phase = "ckpt" <=> k <= Len(tx)
       /\ \A i \in 1..(k - 1) : disk[tx[i].blk] = tx[i].val

ReplayAt ==
    phase = "replay" =>
       /\ jsb.start = 1 /\ seq = ScanEnd(log, jsb.seq)
       /\ IsTx(todo) /\ IsTx(RecoverWrites)
       /\ \A i \in 1..Len(todo) : \E j \in 1..Len(RecoverWrites) : todo[i] = RecoverWrites[j]
       /\ Overlay(disk, todo) = Recovered

OpAt ==
    /\ phase \in {"idle", "down", "replay", "mounted"} => op = NoOp
    /\ phase = "op" => op # NoOp
    /\ phase \in {"sb1", "log", "ckpt", "sb0"} => op = NoOp \/ op.kind = "write"
    /\ phase = "retry" => op.kind = "write"

(* Between operations the metadata agrees with itself, and a block that a  *)
(* mount would find in use is in use or kept from being taken.             *)
Settled ==
    ~ro /\ phase \in {"idle", "retry", "sb1", "log", "ckpt", "sb0"} =>
       /\ Consistent(Cur) /\ seen = Tree(Cur)
       /\ Held(Recovered) \subseteq Held(Cur) \cup freed

(* Within an operation: the steps left lead to metadata M that agrees with *)
(* itself and is what the operation is to do.                              *)
Dest(x) == IF x.s = "free" THEN Bitmap ELSE x.blk

Steps == [s : {"put", "data", "free"}, blk : Meta \cup DataBlocks, val : BlockVals \cup Vers]

Pending == {todo[i] : i \in 1..Len(todo)}

Freeing == {x.blk : x \in {y \in Pending : y.s = "free"}}

StepOK(M, x) ==
    /\ x.s # "data" => Dest(x) \in Meta /\ M[Dest(x)] = x.val
    /\ x.s = "free" => x.blk \in DataBlocks
    /\ x.s = "data" => op.kind = "write" /\ x = Write(M[op.f], op.v)

Leads(M) ==
    /\ todo \in Seq(Steps)
    /\ \A x \in Pending : StepOK(M, x)
    /\ \A m \in Meta : M[m] = Cur[m] \/ \E x \in Pending : x.s # "data" /\ Dest(x) = m
    /\ tx # <<>> \/ \E x \in Pending : x.s # "data"

Effect(M) ==
    /\ op.kind = "write" =>
          /\ M[op.f] \in Atomic!Target(op.f)
          /\ Tree(M) = [seen EXCEPT ![op.f] = M[op.f]]
          /\ data[M[op.f]] = op.v \/ Write(M[op.f], op.v) \in Pending
    /\ op.kind = "truncate" => Tree(M) = [seen EXCEPT ![op.f] = None]
    /\ op.kind = "rename" => Tree(M) = [seen EXCEPT ![op.g] = seen[op.f], ![op.f] = None]

Covered(M) == Held(Recovered) \subseteq Held(M) \cup freed \cup Freeing

OpOK == phase = "op" =>
    \E M : IsMeta(M) /\ Consistent(M) /\ Leads(M) /\ Effect(M) /\ Covered(M)

JnlInv ==
    /\ JnlTypeOK /\ LogOK /\ JsbAt /\ LogAt /\ CkptAt /\ ReplayAt
    /\ OpAt /\ Settled /\ OpOK /\ DurableConsistent


-----------------------------------------------------------------------------
LEMMA TypesOf ==
    ASSUME JnlTypeOK
    PROVE  /\ jsb \in JsbT /\ IsLog(log) /\ IsMeta(disk) /\ IsTx(tx)
           /\ seq \in Nat /\ k \in Nat /\ jsb.seq \in Nat /\ IsMeta(Cur)
           /\ Len(tx) \in Nat /\ LogSize(tx) \in Nat /\ LogSize(tx) > 0
<1>1. /\ jsb \in JsbT /\ IsLog(log) /\ IsMeta(disk) /\ IsTx(tx) /\ seq \in Nat /\ k \in Nat
    BY DEF JnlTypeOK, JsbT, IsLog
<1>2. jsb.seq \in Nat
    BY <1>1 DEF JsbT
<1>3. Len(tx) \in Nat /\ LogSize(tx) \in Nat /\ LogSize(tx) > Len(tx)
    BY <1>1, TxFits, LogSizeType
<1>4. IsMeta(Cur)
    BY <1>1, OverlayType DEF Cur
<1> QED
    BY <1>1, <1>2, <1>3, <1>4

(* The disk is as it was: so is what a mount would find.                   *)
LEMMA SameDisk ==
    ASSUME UNCHANGED persistent
    PROVE  /\ RecoverWrites' = RecoverWrites /\ Recovered' = Recovered
           /\ LogOK' = LogOK /\ Cur' = Overlay(disk, tx')
    BY DEF persistent, RecoverWrites, Recovered, LogOK, Cur

(* No log, or none that is complete.                                       *)
LEMMA DiskIsIt ==
    ASSUME JnlTypeOK, jsb.start = 0 \/ NoCommit(log, jsb.seq)
    PROVE  RecoverWrites = <<>> /\ Recovered = disk
<1>1. RecoverWrites = <<>>
    BY TypesOf, ReplayNone, ReplayIs
<1> QED
    BY <1>1, TypesOf, OverlayEmpty, ReplayIs

LEMMA LogIsIt ==
    ASSUME JnlTypeOK, jsb.start = 1, NoCommit(log, jsb.seq + 1),
           NEW w, IsTx(w), Written(log, w, jsb.seq, LogSize(w))
    PROVE  /\ RecoverWrites = w /\ Recovered = Overlay(disk, w)
           /\ ScanEnd(log, jsb.seq) = jsb.seq + 1
<1>1. RecoverWrites = w /\ ScanEnd(log, jsb.seq) = jsb.seq + 1
    BY TypesOf, ReplayFull, ReplayIs
<1> QED
    BY <1>1, ReplayIs

(* What a mount would replay is a transaction, and its end is a sequence   *)
(* number no commit block of the log has.                                  *)
LEMMA ReplayTx ==
    ASSUME JnlTypeOK, LogOK
    PROVE  /\ IsTx(RecoverWrites) /\ ScanEnd(log, jsb.seq) \in Nat
           /\ NoCommit(log, ScanEnd(log, jsb.seq))
           /\ jsb.start = 0 => NoCommit(log, jsb.seq)
<1>1. CASE NoCommit(log, jsb.seq)
  <2>1. RecoverWrites = <<>>
      BY <1>1, DiskIsIt
  <2>2. ScanEnd(log, jsb.seq) = jsb.seq
      BY <1>1, TypesOf, ReplayNone
  <2> QED
      BY <1>1, <2>1, <2>2, EmptyTx, TypesOf
<1>2. CASE jsb.start = 1 /\ NoCommit(log, jsb.seq + 1)
           /\ \E w : IsTx(w) /\ Written(log, w, jsb.seq, LogSize(w))
  <2>1. PICK w : IsTx(w) /\ Written(log, w, jsb.seq, LogSize(w))
      BY <1>2
  <2>2. RecoverWrites = w /\ ScanEnd(log, jsb.seq) = jsb.seq + 1
      BY <1>2, <2>1, LogIsIt
  <2> QED
      BY <1>2, <2>1, <2>2, TypesOf
<1> QED
    BY <1>1, <1>2 DEF LogOK

(* The block writes of a commit.                                           *)
LEMMA StartFacts ==
    ASSUME JnlInv, phase = "sb1", StartLog
    PROVE  /\ jsb' = [start |-> 1, seq |-> seq] /\ jsb' \in JsbT
           /\ NoCommit(log, seq) /\ NoCommit(log', jsb'.seq)
           /\ Recovered' = Recovered /\ LogOK'
<1>1. /\ JnlTypeOK /\ LogOK /\ jsb = [start |-> 0, seq |-> seq]
    BY DEF JnlInv, JsbAt
<1>2. jsb' = [start |-> 1, seq |-> seq] /\ log' = log /\ disk' = disk
    BY DEF StartLog
<1>3. jsb' \in JsbT /\ jsb'.seq = seq /\ jsb.seq = seq
    BY <1>1, <1>2, TypesOf DEF JsbT
<1>4. NoCommit(log, seq)
    BY <1>1, <1>3, ReplayTx
<1>5. NoCommit(log', jsb'.seq)
    BY <1>2, <1>3, <1>4
<1>6. RecoverWrites' = <<>>
  <2>1. RecoverWrites' = ReplayOf(jsb', log')
      BY DEF RecoverWrites, ReplayOf
  <2>2. IsLog(log')
      BY <1>1, <1>2, TypesOf
  <2> QED
      BY <1>3, <1>5, <2>1, <2>2, ReplayNone
<1>7. Recovered' = disk /\ Recovered = disk
  <2>1. Recovered' = Overlay(disk, <<>>)
      BY <1>2, <1>6 DEF Recovered
  <2> QED
      BY <2>1, <1>1, <1>3, <1>4, DiskIsIt, TypesOf, OverlayEmpty
<1> QED
    BY <1>2, <1>3, <1>4, <1>5, <1>7 DEF LogOK

LEMMA LogFacts ==
    ASSUME JnlInv, phase = "log", LogBlock
    PROVE  /\ IsLog(log') /\ jsb' = jsb /\ disk' = disk
           /\ Written(log', tx, seq, k) /\ NoCommit(log', seq + 1)
           /\ k # LogSize(tx) => NoCommit(log', seq) /\ Recovered' = Recovered
           /\ k = LogSize(tx) => Recovered' = Cur
           /\ LogOK'
<1>1. /\ JnlTypeOK /\ jsb = [start |-> 1, seq |-> seq] /\ NoCommit(log, seq)
      /\ k \in 1..LogSize(tx) /\ Written(log, tx, seq, k - 1)
    BY DEF JnlInv, JsbAt, LogAt
<1>2. log' = [log EXCEPT ![k] = LogImage(tx, seq)[k]] /\ disk' = disk /\ jsb' = jsb
    BY DEF LogBlock
<1>3. /\ IsLog(log') /\ Written(log', tx, seq, k) /\ NoCommit(log', seq + 1)
      /\ k # LogSize(tx) => NoCommit(log', seq)
    BY <1>1, <1>2, TypesOf, LogGrows
<1>4. jsb.seq = seq /\ jsb.start = 1 /\ jsb \in JsbT /\ IsTx(tx) /\ IsMeta(disk)
    BY <1>1, TypesOf
<1>5. RecoverWrites' = ReplayOf(jsb, log')
    BY <1>2 DEF RecoverWrites, ReplayOf
<1>6. Recovered' = Overlay(disk, RecoverWrites')
    BY <1>2 DEF Recovered
<1>7. CASE k # LogSize(tx)
  <2>1. NoCommit(log', jsb.seq)
      BY <1>3, <1>4, <1>7
  <2>2. RecoverWrites' = <<>>
      BY <2>1, <1>3, <1>4, <1>5, ReplayNone
  <2>3. Recovered' = disk
      BY <2>2, <1>4, <1>6, OverlayEmpty
  <2>4. Recovered = disk
      BY <1>1, <1>4, DiskIsIt
  <2>5. LogOK'
      BY <2>1, <1>2 DEF LogOK
  <2> QED
      BY <1>2, <1>3, <1>7, <2>3, <2>4, <2>5
<1>8. CASE k = LogSize(tx)
  <2>1. Written(log', tx, jsb.seq, LogSize(tx)) /\ NoCommit(log', jsb.seq + 1)
      BY <1>3, <1>4, <1>8
  <2>2. RecoverWrites' = tx
      BY <2>1, <1>3, <1>4, <1>5, ReplayFull
  <2>3. Recovered' = Cur
      BY <2>2, <1>6 DEF Cur
  <2>4. LogOK'
      BY <2>1, <1>2, <1>4 DEF LogOK
  <2> QED
      BY <1>2, <1>3, <1>8, <2>3, <2>4
<1> QED
    BY <1>7, <1>8

(* In a checkpoint the log has it all.                                     *)
LEMMA CkptIs ==
    ASSUME JnlInv, phase \in {"ckpt", "sb0"}
    PROVE  /\ RecoverWrites = tx /\ Recovered = Cur
           /\ phase = "sb0" => disk = Cur /\ k = Len(tx) + 1
<1>1. /\ JnlTypeOK /\ jsb = [start |-> 1, seq |-> seq] /\ NoCommit(log, seq + 1)
      /\ Written(log, tx, seq, LogSize(tx)) /\ k \in 1..(Len(tx) + 1)
      /\ phase = "ckpt" <=> k <= Len(tx)
      /\ \A i \in 1..(k - 1) : disk[tx[i].blk] = tx[i].val
    BY DEF JnlInv, JsbAt, CkptAt
<1>2. jsb.seq = seq /\ jsb.start = 1
    BY <1>1
<1>3. RecoverWrites = tx /\ Recovered = Overlay(disk, tx)
    BY <1>1, <1>2, TypesOf, LogIsIt
<1>4. ASSUME phase = "sb0" PROVE disk = Overlay(disk, tx) /\ k = Len(tx) + 1
  <2>1. k = Len(tx) + 1 /\ k - 1 = Len(tx)
      BY <1>1, <1>4, TypesOf
  <2> QED
      BY <2>1, <1>1, TypesOf, OverlayDone
<1> QED
    BY <1>3, <1>4 DEF Cur

LEMMA CkptFacts ==
    ASSUME JnlInv, phase = "ckpt", CkptBlock
    PROVE  /\ IsMeta(disk') /\ jsb' = jsb /\ log' = log
           /\ Recovered' = Recovered /\ Overlay(disk', tx) = Cur /\ LogOK'
           /\ \A i \in 1..k : disk'[tx[i].blk] = tx[i].val
<1>1. /\ JnlTypeOK /\ LogOK /\ k \in 1..Len(tx)
      /\ \A i \in 1..(k - 1) : disk[tx[i].blk] = tx[i].val
    BY DEF JnlInv, CkptAt
<1>2. disk' = [disk EXCEPT ![tx[k].blk] = tx[k].val] /\ log' = log /\ jsb' = jsb
    BY DEF CkptBlock
<1>3. /\ tx[k].blk \in Meta /\ tx[k].val \in BlockVals /\ Fits(tx[k].blk, tx[k].val)
      /\ IsMeta(disk) /\ IsTx(tx)
      /\ \A i \in 1..Len(tx) : tx[i].blk \in Meta
    BY <1>1, TypesOf, TxDomain
<1>4. IsMeta(disk')
    BY <1>2, <1>3, PutType
<1>5. Overlay(disk', tx) = Cur
    BY <1>1, <1>2, <1>3, OverlayWritten DEF Cur
<1>6. RecoverWrites = tx /\ Recovered = Cur
    BY CkptIs
<1>7. RecoverWrites' = RecoverWrites
    BY <1>2 DEF RecoverWrites
<1>8. Recovered' = Recovered
    BY <1>5, <1>6, <1>7 DEF Recovered
<1>9. LogOK'
    BY <1>1, <1>2 DEF LogOK
<1>10. ASSUME NEW i \in 1..k PROVE disk'[tx[i].blk] = tx[i].val
  <2>1. i \in 1..Len(tx) /\ (i # k => i \in 1..(k - 1)) /\ DOMAIN disk = Meta
      BY <1>1, <1>3, TypesOf DEF IsMeta
  <2>2. CASE i = k
      BY <2>1, <2>2, <1>2, <1>3
  <2>3. CASE i # k
    <3>1. disk[tx[i].blk] = tx[i].val
        BY <2>1, <2>3, <1>1
    <3>2. tx[i].blk # tx[k].blk
        BY <2>1, <2>3, <1>1, <1>3, TxDomain
    <3> QED
        BY <3>1, <3>2, <2>1, <1>2, <1>3
  <2> QED
      BY <2>2, <2>3
<1> QED
    BY <1>2, <1>4, <1>5, <1>8, <1>9, <1>10

(* The log is emptied, by a commit or by a mount.                          *)
LEMMA EmptyFacts ==
    ASSUME JnlTypeOK, NEW s \in Nat, NoCommit(log, s), EmptyLog(s)
    PROVE  /\ jsb' = [start |-> 0, seq |-> s] /\ jsb' \in JsbT /\ disk' = disk /\ log' = log
           /\ Recovered' = disk /\ LogOK'
<1>1. jsb' = [start |-> 0, seq |-> s] /\ log' = log /\ disk' = disk
    BY DEF EmptyLog
<1>2. jsb' \in JsbT /\ jsb'.start = 0 /\ jsb'.seq = s
    BY <1>1 DEF JsbT
<1>3. RecoverWrites' = <<>>
    BY <1>2 DEF RecoverWrites
<1>4. Recovered' = disk
    BY <1>1, <1>3, TypesOf, OverlayEmpty DEF Recovered
<1> QED
    BY <1>1, <1>2, <1>4 DEF LogOK


-----------------------------------------------------------------------------
(* What the operations do to the metadata C.                               *)
LEMMA MetaIs ==
    ASSUME NEW M, IsMeta(M)
    PROVE  /\ M[Bitmap] \in SUBSET DataBlocks /\ Bitmap \in Meta
           /\ \A f \in Files : f \in Meta /\ f # Bitmap /\ M[f] \in DataBlocks \cup {None}
           /\ \A m \in Meta : m \in Files \/ m = Bitmap
           /\ Held(M) \subseteq DataBlocks
<1>1. Bitmap \in Meta /\ \A f \in Files : f \in Meta /\ f # Bitmap
    BY JournalAssumption DEF Meta
<1>2. \A m \in Meta : m \in Files \/ m = Bitmap
    BY DEF Meta
<1>3. M[Bitmap] \in SUBSET DataBlocks
    BY <1>1 DEF IsMeta, Fits
<1>4. \A f \in Files : M[f] \in DataBlocks \cup {None}
    BY <1>1 DEF IsMeta, Fits
<1> QED
    BY <1>1, <1>2, <1>3, <1>4 DEF Held

LEMMA MakeMeta ==
    ASSUME NEW M, M = [m \in Meta |-> M[m]], M[Bitmap] \in SUBSET DataBlocks,
           \A f \in Files : M[f] \in DataBlocks \cup {None}
    PROVE  IsMeta(M)
<1>1. ASSUME NEW m \in Meta PROVE M[m] \in BlockVals /\ Fits(m, M[m])
  <2>1. CASE m = Bitmap
    <3>1. Fits(m, M[m])
        BY <2>1 DEF Fits
    <3>2. M[m] \in BlockVals
        BY <2>1 DEF BlockVals
    <3> QED
        BY <3>1, <3>2
  <2>2. CASE m # Bitmap
    <3>1. m \in Files
        BY <2>2 DEF Meta
    <3> QED
        BY <3>1, <2>2 DEF BlockVals, Fits
  <2> QED
      BY <2>1, <2>2
<1>2. M \in [Meta -> BlockVals]
    BY <1>1
<1> QED
    BY <1>1, <1>2 DEF IsMeta

(* A new block b for the file f, which has none.                           *)
LEMMA MetaAlloc ==
    ASSUME NEW C, IsMeta(C), Consistent(C), NEW f \in Files, C[f] = None,
           NEW b \in DataBlocks, b \notin C[Bitmap]
    PROVE  \E M : /\ IsMeta(M) /\ Consistent(M) /\ Held(M) = Held(C) \cup {b}
                  /\ M[Bitmap] = C[Bitmap] \cup {b} /\ M[f] = b
                  /\ \A h \in Files : h # f => M[h] = C[h]
                  /\ Tree(M) = [Tree(C) EXCEPT ![f] = b]
<1> DEFINE M == [m \in Meta |-> IF m = Bitmap THEN C[Bitmap] \cup {b} ELSE IF m = f THEN b ELSE C[m]]
<1>1. /\ C[Bitmap] \in SUBSET DataBlocks /\ Bitmap \in Meta
      /\ \A h \in Files : h \in Meta /\ h # Bitmap /\ C[h] \in DataBlocks \cup {None}
    BY MetaIs
<1>2. /\ M[Bitmap] = C[Bitmap] \cup {b} /\ M[f] = b
      /\ \A h \in Files : h # f => M[h] = C[h]
      /\ M = [m \in Meta |-> M[m]]
    BY <1>1
<1> HIDE DEF M
<1>3. IsMeta(M)
    BY <1>1, <1>2, MakeMeta
<1>4. b # None /\ b \notin Held(C) /\ \A h \in Files : C[h] # b
    BY JournalAssumption DEF Consistent, Held
<1>5. Held(M) = Held(C) \cup {b}
    BY <1>2, <1>4 DEF Held
<1>6. Consistent(M)
    BY <1>2, <1>4, <1>5 DEF Consistent
<1>7. Tree(M) = [Tree(C) EXCEPT ![f] = b]
    BY <1>2 DEF Tree
<1> QED
    BY <1>2, <1>3, <1>5, <1>6, <1>7

(* The block of f is freed.                                                *)
LEMMA MetaFree ==
    ASSUME NEW C, IsMeta(C), Consistent(C), NEW f \in Files, C[f] # None
    PROVE  \E M : /\ IsMeta(M) /\ Consistent(M) /\ Held(M) = Held(C) \ {C[f]}
                  /\ M[Bitmap] = C[Bitmap] \ {C[f]} /\ M[f] = None
                  /\ \A h \in Files : h # f => M[h] = C[h]
                  /\ Tree(M) = [Tree(C) EXCEPT ![f] = None]
<1> DEFINE M == [m \in Meta |-> IF m = Bitmap THEN C[Bitmap] \ {C[f]}
                                ELSE IF m = f THEN None ELSE C[m]]
<1>1. /\ C[Bitmap] \in SUBSET DataBlocks /\ Bitmap \in Meta
      /\ \A h \in Files : h \in Meta /\ h # Bitmap /\ C[h] \in DataBlocks \cup {None}
    BY MetaIs
<1>2. /\ M[Bitmap] = C[Bitmap] \ {C[f]} /\ M[f] = None
      /\ \A h \in Files : h # f => M[h] = C[h]
      /\ M = [m \in Meta |-> M[m]]
    BY <1>1
<1> HIDE DEF M
<1>3. IsMeta(M)
    BY <1>1, <1>2, MakeMeta
<1>4. \A h \in Files : h # f => C[h] # C[f]
    BY DEF Consistent
<1>5. Held(M) = Held(C) \ {C[f]}
    BY <1>2, <1>4 DEF Held
<1>6. Consistent(M)
    BY <1>2, <1>5 DEF Consistent
<1>7. Tree(M) = [Tree(C) EXCEPT ![f] = None]
    BY <1>2 DEF Tree
<1> QED
    BY <1>2, <1>3, <1>5, <1>6, <1>7

(* f becomes g, whose block, if it has one, is freed.                      *)
LEMMA MetaMove ==
    ASSUME NEW C, IsMeta(C), Consistent(C), NEW f \in Files, NEW g \in Files, f # g, C[f] # None
    PROVE  \E M : /\ IsMeta(M) /\ Consistent(M) /\ Held(M) = Held(C) \ {C[g]}
                  /\ M[Bitmap] = C[Bitmap] \ {C[g]} /\ M[f] = None /\ M[g] = C[f]
                  /\ \A h \in Files : h # f /\ h # g => M[h] = C[h]
                  /\ Tree(M) = [Tree(C) EXCEPT ![g] = Tree(C)[f], ![f] = None]
<1> DEFINE M == [m \in Meta |-> IF m = Bitmap THEN C[Bitmap] \ {C[g]}
                                ELSE IF m = f THEN None ELSE IF m = g THEN C[f] ELSE C[m]]
<1>1. /\ C[Bitmap] \in SUBSET DataBlocks /\ Bitmap \in Meta
      /\ \A h \in Files : h \in Meta /\ h # Bitmap /\ C[h] \in DataBlocks \cup {None}
    BY MetaIs
<1>2. /\ M[Bitmap] = C[Bitmap] \ {C[g]} /\ M[f] = None /\ M[g] = C[f]
      /\ \A h \in Files : h # f /\ h # g => M[h] = C[h]
      /\ M = [m \in Meta |-> M[m]]
    BY <1>1
<1> HIDE DEF M
<1>3. IsMeta(M)
    BY <1>1, <1>2, MakeMeta
<1>4. /\ \A h \in Files : h # f => C[h] # C[f]
      /\ \A h \in Files : h # g /\ C[h] # None => C[h] # C[g]
    BY DEF Consistent
<1>5. Held(M) = Held(C) \ {C[g]}
  <2>1. ASSUME NEW x PROVE x \in Held(M) => x \in Held(C) \ {C[g]}
    <3>1. SUFFICES ASSUME NEW h \in Files, x = M[h], x # None PROVE x \in Held(C) \ {C[g]}
        BY DEF Held
    <3>2. CASE h = g
        BY <3>1, <3>2, <1>2, <1>4 DEF Held
    <3>3. CASE h # g
        BY <3>1, <3>3, <1>2, <1>4 DEF Held
    <3> QED
        BY <3>2, <3>3
  <2>2. ASSUME NEW x PROVE x \in Held(C) \ {C[g]} => x \in Held(M)
    <3>1. SUFFICES ASSUME NEW h \in Files, x = C[h], x # None, x # C[g] PROVE x \in Held(M)
        BY DEF Held
    <3>2. CASE h = f
        BY <3>1, <3>2, <1>2 DEF Held
    <3>3. CASE h # f
        BY <3>1, <3>3, <1>2 DEF Held
    <3> QED
        BY <3>2, <3>3
  <2> QED
      BY <2>1, <2>2
<1>6. Consistent(M)
  <2>1. M[Bitmap] = Held(M)
      BY <1>2, <1>5 DEF Consistent
  <2>2. ASSUME NEW a \in Files, NEW b \in Files, M[a] = M[b], M[a] # None PROVE a = b
    <3>1. a # f /\ b # f
        BY <2>2, <1>2
    <3>2. CASE a = g \/ b = g
        BY <3>1, <3>2, <2>2, <1>2, <1>4
    <3>3. CASE a # g /\ b # g
        BY <3>1, <3>3, <2>2, <1>2 DEF Consistent
    <3> QED
        BY <3>2, <3>3
  <2> QED
      BY <2>1, <2>2 DEF Consistent
<1>7. Tree(M) = [Tree(C) EXCEPT ![g] = Tree(C)[f], ![f] = None]
    BY <1>2 DEF Tree
<1> QED
    BY <1>2, <1>3, <1>5, <1>6, <1>7

(* Steps as a set.                                                         *)
LEMMA StepsOf ==
    ASSUME NEW a, NEW b, NEW c
    PROVE  /\ {<<a, b>>[i] : i \in 1..Len(<<a, b>>)} = {a, b}
           /\ {<<a, b, c>>[i] : i \in 1..Len(<<a, b, c>>)} = {a, b, c}
<1>1. {<<a, b>>[i] : i \in 1..2} = {a, b}
    OBVIOUS
<1>2. {<<a, b, c>>[i] : i \in 1..3} = {a, b, c}
    OBVIOUS
<1> QED
    BY <1>1, <1>2

LEMMA TailSteps ==
    ASSUME NEW t, t \in Seq(Steps), t # <<>>
    PROVE  /\ Tail(t) \in Seq(Steps) /\ Head(t) \in Steps
           /\ {t[i] : i \in 1..Len(t)} = {Head(t)} \cup {Tail(t)[i] : i \in 1..Len(Tail(t))}
<1> DEFINE u == Tail(t)
<1>1. /\ Len(t) \in Nat /\ Len(t) > 0 /\ u \in Seq(Steps) /\ Len(u) = Len(t) - 1
      /\ Head(t) = t[1] /\ Head(t) \in Steps
      /\ \A i \in 1..(Len(t) - 1) : u[i] = t[i + 1]
    OBVIOUS
<1> HIDE DEF u
<1>2. ASSUME NEW i \in 1..Len(t) PROVE t[i] \in {Head(t)} \cup {u[j] : j \in 1..Len(u)}
  <2>1. CASE i = 1
      BY <2>1, <1>1
  <2>2. CASE i # 1
    <3>1. i - 1 \in 1..(Len(t) - 1) /\ (i - 1) + 1 = i
        BY <2>2, <1>1
    <3>2. u[i - 1] = t[i] /\ i - 1 \in 1..Len(u)
        BY <3>1, <1>1
    <3> QED
        BY <3>2
  <2> QED
      BY <2>1, <2>2
<1>3. ASSUME NEW j \in 1..Len(u) PROVE u[j] \in {t[i] : i \in 1..Len(t)}
  <2>1. j + 1 \in 1..Len(t) /\ u[j] = t[j + 1]
      BY <1>1
  <2> QED
      BY <2>1
<1>4. Head(t) \in {t[i] : i \in 1..Len(t)}
    BY <1>1
<1> QED
    BY <1>1, <1>2, <1>3, <1>4 DEF u


-----------------------------------------------------------------------------
(* An operation begins.                                                    *)
LEMMA SettledIs ==
    ASSUME JnlInv, ~ro, phase \in {"idle", "retry"}, UNCHANGED <<persistent, volatile, seen>>
    PROVE  /\ IsMeta(Cur) /\ Consistent(Cur) /\ seen = Tree(Cur)
           /\ Held(Recovered) \subseteq Held(Cur) \cup freed
           /\ Cur' = Cur /\ Recovered' = Recovered /\ tx' = tx /\ freed' = freed
           /\ data' = data /\ seen' = seen /\ seen \in [Files -> DataBlocks \cup {None}]
<1>1. /\ Consistent(Cur) /\ seen = Tree(Cur) /\ JnlTypeOK
      /\ Held(Recovered) \subseteq Held(Cur) \cup freed
    BY DEF JnlInv, Settled
<1>2. tx' = tx /\ freed' = freed /\ data' = data /\ seen' = seen
    BY DEF volatile, persistent
<1>3. Recovered' = Recovered /\ Cur' = Overlay(disk, tx')
    BY SameDisk
<1>4. Cur' = Cur
    BY <1>2, <1>3 DEF Cur
<1>5. seen \in [Files -> DataBlocks \cup {None}]
    BY <1>1 DEF JnlTypeOK
<1> QED
    BY <1>1, <1>2, <1>3, <1>4, <1>5, TypesOf

LEMMA WriteStarts ==
    ASSUME JnlInv, ~ro, phase \in {"idle", "retry"}, UNCHANGED <<persistent, volatile, seen>>,
           NEW f \in Files, NEW v \in Vers, todo' \in WriteSteps(f, v),
           op' = [kind |-> "write", f |-> f, v |-> v]
    PROVE  OpOK'
<1>1. /\ IsMeta(Cur) /\ Consistent(Cur) /\ seen = Tree(Cur)
      /\ Held(Recovered) \subseteq Held(Cur) \cup freed
      /\ Cur' = Cur /\ Recovered' = Recovered /\ tx' = tx /\ freed' = freed
      /\ data' = data /\ seen' = seen
    BY SettledIs
<1>2. op'.kind = "write" /\ op'.f = f /\ op'.v = v
    OBVIOUS
<1>3. f \in Meta /\ f # Bitmap /\ seen[f] = Cur[f] /\ Cur[f] \in DataBlocks \cup {None}
    BY <1>1, MetaIs DEF Tree
<1>4. CASE Cur[f] # None
  <2>1. PICK M : M = Cur
      OBVIOUS
  <2>2. todo' = <<Write(M[f], v), Put(f, M[f])>>
      BY <1>4, <2>1 DEF WriteSteps
  <2>3. M[f] \in DataBlocks /\ M[f] \in BlockVals
      BY <1>3, <1>4, <2>1 DEF BlockVals
  <2>4. Pending' = {Write(M[f], v), Put(f, M[f])}
      BY <2>2, StepsOf DEF Pending
  <2>5. Write(M[f], v) \in Steps /\ Put(f, M[f]) \in Steps
      BY <2>3, <1>3 DEF Write, Put, Steps
  <2>6. todo' \in Seq(Steps)
      BY <2>2, <2>5
  <2>7. StepOK(M, Write(M[f], v))' /\ StepOK(M, Put(f, M[f]))'
      BY <1>2, <1>3 DEF StepOK, Write, Put, Dest
  <2>8. Leads(M)'
    <3>1. \A m \in Meta : M[m] = Cur'[m]
        BY <1>1, <2>1
    <3>2. Put(f, M[f]).s # "data"
        BY DEF Put
    <3> QED
        BY <2>4, <2>6, <2>7, <3>1, <3>2 DEF Leads
  <2>9. Effect(M)'
    <3>1. M[f] \in Atomic!Target(f)'
        BY <1>1, <1>3, <1>4, <2>1 DEF Atomic!Target
    <3>2. Tree(M) = [seen EXCEPT ![f] = M[f]]
        BY <1>1, <1>3, <2>1 DEF Tree
    <3>3. Write(M[f], v) \in Pending'
        BY <2>4
    <3> QED
        BY <1>1, <1>2, <3>1, <3>2, <3>3 DEF Effect
  <2>10. Covered(M)'
      BY <1>1, <2>1 DEF Covered
  <2> QED
      BY <1>1, <2>1, <2>8, <2>9, <2>10 DEF OpOK
<1>5. CASE Cur[f] = None
  <2>1. PICK b \in FreeBlocks :
           todo' = <<Put(Bitmap, Cur[Bitmap] \cup {b}), Write(b, v), Put(f, b)>>
      BY <1>5 DEF WriteSteps
  <2>2. b \in DataBlocks /\ b \notin Cur[Bitmap] /\ b \notin freed
      BY <2>1 DEF FreeBlocks
  <2>3. PICK M : /\ IsMeta(M) /\ Consistent(M) /\ Held(M) = Held(Cur) \cup {b}
                 /\ M[Bitmap] = Cur[Bitmap] \cup {b} /\ M[f] = b
                 /\ \A h \in Files : h # f => M[h] = Cur[h]
                 /\ Tree(M) = [Tree(Cur) EXCEPT ![f] = b]
      BY <1>1, <1>5, <2>2, MetaAlloc
  <2>4. todo' = <<Put(Bitmap, M[Bitmap]), Write(M[f], v), Put(f, M[f])>>
      BY <2>1, <2>3
  <2>5. Pending' = {Put(Bitmap, M[Bitmap]), Write(M[f], v), Put(f, M[f])}
      BY <2>4, StepsOf DEF Pending
  <2>6. Bitmap \in Meta /\ M[Bitmap] \in BlockVals /\ M[f] \in DataBlocks /\ M[f] \in BlockVals
      BY <1>3, <2>2, <2>3 DEF IsMeta, Meta
  <2>7. Put(Bitmap, M[Bitmap]) \in Steps /\ Write(M[f], v) \in Steps /\ Put(f, M[f]) \in Steps
      BY <2>6, <1>3 DEF Write, Put, Steps
  <2>8. todo' \in Seq(Steps)
      BY <2>4, <2>7
  <2>9. /\ StepOK(M, Put(Bitmap, M[Bitmap]))' /\ StepOK(M, Write(M[f], v))'
        /\ StepOK(M, Put(f, M[f]))'
      BY <1>2, <1>3, <2>6 DEF StepOK, Write, Put, Dest
  <2>10. Leads(M)'
    <3>1. \A m \in Meta : m = Bitmap \/ m = f \/ M[m] = Cur'[m]
        BY <1>1, <2>3 DEF Meta
    <3>2. /\ Put(f, M[f]).s # "data" /\ Dest(Put(f, M[f])) = f
          /\ Put(Bitmap, M[Bitmap]).s # "data" /\ Dest(Put(Bitmap, M[Bitmap])) = Bitmap
        BY DEF Put, Dest
    <3>3. \A m \in Meta : M[m] = Cur'[m] \/ \E x \in Pending' : x.s # "data" /\ Dest(x) = m
        BY <2>5, <3>1, <3>2
    <3> QED
        BY <2>5, <2>8, <2>9, <3>2, <3>3 DEF Leads
  <2>11. Effect(M)'
    <3>1. Atomic!Target(f)' = DataBlocks \ (({seen[h] : h \in Files} \ {None})
                                  \cup ({Tree(Recovered)[h] : h \in Files} \ {None}))
      <4>1. Tree(Recovered)' = Tree(Recovered) /\ seen' = seen /\ seen[f] = None
          BY <1>1, <1>3, <1>5 DEF Tree
      <4> QED
          BY <4>1 DEF Atomic!Target, Atomic!Reachable
    <3>2. {seen[h] : h \in Files} \ {None} = Held(Cur)
        BY <1>1 DEF Tree, Held
    <3>3. {Tree(Recovered)[h] : h \in Files} \ {None} = Held(Recovered)
        BY DEF Tree, Held
    <3>4. b \notin Held(Cur) /\ b \notin Held(Recovered)
        BY <1>1, <2>2 DEF Consistent
    <3>5. M[f] \in Atomic!Target(f)'
        BY <3>1, <3>2, <3>3, <3>4, <2>2, <2>3
    <3>6. Tree(M) = [seen EXCEPT ![f] = M[f]]
        BY <1>1, <2>3
    <3>7. Write(M[f], v) \in Pending'
        BY <2>5
    <3> QED
        BY <1>1, <1>2, <3>5, <3>6, <3>7 DEF Effect
  <2>12. Covered(M)'
      BY <1>1, <2>3 DEF Covered
  <2> QED
      BY <2>3, <2>10, <2>11, <2>12 DEF OpOK
<1> QED
    BY <1>4, <1>5


LEMMA TruncateStarts ==
    ASSUME JnlInv, ~ro, phase \in {"idle", "retry"}, UNCHANGED <<persistent, volatile, seen>>,
           NEW f \in Files, Cur[f] # None, todo' = TruncateSteps(f),
           op' = [kind |-> "truncate", f |-> f]
    PROVE  OpOK'
<1>1. /\ IsMeta(Cur) /\ Consistent(Cur) /\ seen = Tree(Cur)
      /\ Held(Recovered) \subseteq Held(Cur) \cup freed
      /\ Cur' = Cur /\ Recovered' = Recovered /\ tx' = tx /\ freed' = freed
      /\ data' = data /\ seen' = seen
    BY SettledIs
<1>2. op'.kind = "truncate" /\ op'.f = f
    OBVIOUS
<1>3. f \in Meta /\ f # Bitmap /\ Cur[f] \in DataBlocks /\ Bitmap \in Meta
    BY <1>1, MetaIs
<1>4. PICK M : /\ IsMeta(M) /\ Consistent(M) /\ Held(M) = Held(Cur) \ {Cur[f]}
               /\ M[Bitmap] = Cur[Bitmap] \ {Cur[f]} /\ M[f] = None
               /\ \A h \in Files : h # f => M[h] = Cur[h]
               /\ Tree(M) = [Tree(Cur) EXCEPT ![f] = None]
    BY <1>1, MetaFree
<1>5. PICK x : x = Free(Cur[f])
    OBVIOUS
<1>6. x.s = "free" /\ x.blk = Cur[f] /\ x.val = M[Bitmap] /\ Dest(x) = Bitmap
    BY <1>4, <1>5 DEF Free, Dest
<1>7. PICK y : y = Put(f, None)
    OBVIOUS
<1>8. y.s = "put" /\ y.blk = f /\ y.val = None /\ Dest(y) = f
    BY <1>7 DEF Put, Dest
<1>9. todo' = <<x, y>> /\ Pending' = {x, y}
    BY <1>5, <1>7, StepsOf DEF TruncateSteps, Pending
<1>10. x \in Steps /\ y \in Steps
  <2>1. M[Bitmap] \in BlockVals /\ None \in BlockVals
      BY <1>3, <1>4 DEF IsMeta, BlockVals
  <2> QED
      BY <2>1, <1>3, <1>4, <1>5, <1>7 DEF Free, Put, Steps
<1>11. Leads(M)'
  <2>1. todo' \in Seq(Steps)
      BY <1>9, <1>10
  <2>2. StepOK(M, x)' /\ StepOK(M, y)'
      BY <1>3, <1>4, <1>6, <1>8 DEF StepOK
  <2>3. \A m \in Meta : m = Bitmap \/ m = f \/ M[m] = Cur'[m]
      BY <1>1, <1>4 DEF Meta
  <2>4. \A m \in Meta : M[m] = Cur'[m] \/ \E z \in Pending' : z.s # "data" /\ Dest(z) = m
      BY <1>6, <1>8, <1>9, <2>3
  <2> QED
      BY <1>6, <1>9, <2>1, <2>2, <2>4 DEF Leads
<1>12. Effect(M)'
    BY <1>1, <1>2, <1>4 DEF Effect
<1>13. Covered(M)'
  <2>1. Cur[f] \in Freeing'
      BY <1>6, <1>9 DEF Freeing
  <2> QED
      BY <2>1, <1>1, <1>4 DEF Covered
<1> QED
    BY <1>4, <1>11, <1>12, <1>13 DEF OpOK

LEMMA Longer ==
    ASSUME NEW a, NEW b, NEW c
    PROVE  <<a, b>> \o <<>> = <<a, b>> /\ <<a, b>> \o <<c>> = <<a, b, c>>
<1> DEFINE S == {a, b, c}
           u == <<a, b>>
           w == <<c>>
           v == <<a, b, c>>
<1>1. /\ u \in Seq(S) /\ w \in Seq(S) /\ v \in Seq(S)
      /\ Len(u) = 2 /\ Len(w) = 1 /\ Len(v) = 3
      /\ u[1] = a /\ u[2] = b /\ w[1] = c /\ v[1] = a /\ v[2] = b /\ v[3] = c
    OBVIOUS
<1> HIDE DEF S, u, v, w
<1>2. u \o <<>> = u
    BY <1>1
<1>3. /\ u \o w \in Seq(S) /\ Len(u \o w) = Len(u) + Len(w)
      /\ \A i \in 1..(Len(u) + Len(w)) : (u \o w)[i] = IF i <= Len(u) THEN u[i] ELSE w[i - Len(u)]
    BY <1>1, ConcatProperties
<1>4. \A i \in 1..3 : i = 1 \/ i = 2 \/ i = 3
    OBVIOUS
<1>5. Len(u \o w) = 3 /\ \A i \in 1..3 : (u \o w)[i] = v[i]
  <2>1. Len(u) + Len(w) = 3
      BY <1>1
  <2>2. \A i \in 1..3 : (u \o w)[i] = IF i <= 2 THEN u[i] ELSE w[i - 2]
      BY <1>1, <1>3, <2>1
  <2>3. (u \o w)[1] = u[1] /\ (u \o w)[2] = u[2] /\ (u \o w)[3] = w[1]
    <3> DEFINE uw == u \o w
    <3>1. \A i \in 1..3 : uw[i] = IF i <= 2 THEN u[i] ELSE w[i - 2]
        BY <2>2
    <3> HIDE DEF uw
    <3>2. uw[1] = u[1] /\ uw[2] = u[2] /\ uw[3] = w[1]
        BY <3>1
    <3> QED
        BY <3>2 DEF uw
  <2> QED
      BY <2>1, <2>3, <1>1, <1>3, <1>4
<1>6. u \o w = v
    BY <1>1, <1>3, <1>5, SeqEqual
<1> QED
    BY <1>2, <1>6 DEF u, v, w

LEMMA RenameStarts ==
    ASSUME JnlInv, ~ro, phase \in {"idle", "retry"}, UNCHANGED <<persistent, volatile, seen>>,
           NEW f \in Files, NEW g \in Files, f # g, Cur[f] # None, todo' = RenameSteps(f, g),
           op' = [kind |-> "rename", f |-> f, g |-> g]
    PROVE  OpOK'
<1>1. /\ IsMeta(Cur) /\ Consistent(Cur) /\ seen = Tree(Cur)
      /\ Held(Recovered) \subseteq Held(Cur) \cup freed
      /\ Cur' = Cur /\ Recovered' = Recovered /\ tx' = tx /\ freed' = freed
      /\ data' = data /\ seen' = seen
    BY SettledIs
<1>2. op'.kind = "rename" /\ op'.f = f /\ op'.g = g
    OBVIOUS
<1>3. /\ f \in Meta /\ f # Bitmap /\ Cur[f] \in DataBlocks /\ Bitmap \in Meta
      /\ g \in Meta /\ g # Bitmap /\ Cur[g] \in DataBlocks \cup {None}
      /\ Cur[Bitmap] \in SUBSET DataBlocks /\ None \notin DataBlocks
    BY <1>1, MetaIs, JournalAssumption
<1>4. PICK M : /\ IsMeta(M) /\ Consistent(M) /\ Held(M) = Held(Cur) \ {Cur[g]}
               /\ M[Bitmap] = Cur[Bitmap] \ {Cur[g]} /\ M[f] = None /\ M[g] = Cur[f]
               /\ \A h \in Files : h # f /\ h # g => M[h] = Cur[h]
               /\ Tree(M) = [Tree(Cur) EXCEPT ![g] = Tree(Cur)[f], ![f] = None]
    BY <1>1, MetaMove
<1>5. PICK x : x = Put(g, Cur[f])
    OBVIOUS
<1>6. x.s = "put" /\ x.blk = g /\ x.val = M[g] /\ Dest(x) = g
    BY <1>4, <1>5 DEF Put, Dest
<1>7. PICK y : y = Put(f, None)
    OBVIOUS
<1>8. y.s = "put" /\ y.blk = f /\ y.val = M[f] /\ Dest(y) = f
    BY <1>4, <1>7 DEF Put, Dest
<1>9. x \in Steps /\ y \in Steps
    BY <1>3, <1>5, <1>7 DEF Put, Steps, BlockVals
<1>10. StepOK(M, x)' /\ StepOK(M, y)'
    BY <1>3, <1>6, <1>8 DEF StepOK
<1>11. Effect(M)'
    BY <1>1, <1>2, <1>4 DEF Effect
<1>12. \A m \in Meta : m = Bitmap \/ m = f \/ m = g \/ M[m] = Cur'[m]
    BY <1>1, <1>4 DEF Meta
<1>13. CASE Cur[g] = None
  <2>1. todo' = <<x, y>>
      BY <1>5, <1>7, <1>13, Longer DEF RenameSteps
  <2>2. Pending' = {x, y}
      BY <2>1, StepsOf DEF Pending
  <2>3. M[Bitmap] = Cur'[Bitmap]
      BY <1>1, <1>3, <1>4, <1>13
  <2>4. Leads(M)'
    <3>1. todo' \in Seq(Steps)
        BY <1>9, <2>1
    <3>2. \A m \in Meta : M[m] = Cur'[m] \/ \E z \in Pending' : z.s # "data" /\ Dest(z) = m
        BY <1>6, <1>8, <1>12, <2>2, <2>3
    <3> QED
        BY <1>6, <1>10, <2>2, <3>1, <3>2 DEF Leads
  <2>5. Held(M) = Held(Cur)
      BY <1>4, <1>13 DEF Held
  <2>6. Covered(M)'
      BY <1>1, <2>5 DEF Covered
  <2> QED
      BY <1>4, <1>11, <2>4, <2>6 DEF OpOK
<1>14. CASE Cur[g] # None
  <2>1. PICK z : z = Free(Cur[g])
      OBVIOUS
  <2>2. z.s = "free" /\ z.blk = Cur[g] /\ z.val = M[Bitmap] /\ Dest(z) = Bitmap
      BY <1>4, <2>1 DEF Free, Dest
  <2>3. todo' = <<x, y, z>>
      BY <1>5, <1>7, <1>14, <2>1, Longer DEF RenameSteps
  <2>4. Pending' = {x, y, z}
      BY <2>3, StepsOf DEF Pending
  <2>5. z \in Steps
    <3>1. M[Bitmap] \in BlockVals
        BY <1>3, <1>4 DEF IsMeta
    <3> QED
        BY <3>1, <1>3, <1>4, <1>14, <2>1 DEF Free, Steps
  <2>6. StepOK(M, z)'
      BY <2>2, <1>3, <1>14 DEF StepOK
  <2>7. Leads(M)'
    <3>1. todo' \in Seq(Steps)
        BY <1>9, <2>3, <2>5
    <3>2. \A m \in Meta : M[m] = Cur'[m] \/ \E u \in Pending' : u.s # "data" /\ Dest(u) = m
        BY <1>6, <1>8, <1>12, <2>2, <2>4
    <3> QED
        BY <1>6, <1>10, <2>4, <2>6, <3>1, <3>2 DEF Leads
  <2>8. Covered(M)'
    <3>1. Cur[g] \in Freeing'
        BY <2>2, <2>4 DEF Freeing
    <3> QED
        BY <3>1, <1>1, <1>4 DEF Covered
  <2> QED
      BY <1>4, <1>11, <2>7, <2>8 DEF OpOK
<1> QED
    BY <1>13, <1>14


-----------------------------------------------------------------------------
(* The invariant is preserved, action by action.                           *)
LEMMA OpsAre ==
    /\ NoOp \in Atomic!Ops
    /\ \A f \in Files, v \in Vers : [kind |-> "write", f |-> f, v |-> v] \in Atomic!Ops \ {NoOp}
    /\ \A f \in Files : [kind |-> "truncate", f |-> f] \in Atomic!Ops \ {NoOp}
    /\ \A f, g \in Files : [kind |-> "rename", f |-> f, g |-> g] \in Atomic!Ops \ {NoOp}
<1>1. NoOp \in Atomic!Ops /\ NoOp.kind = "none"
    BY DEF NoOp, Atomic!Ops, Atomic!NoOp
<1>2. \A f \in Files, v \in Vers : [kind |-> "write", f |-> f, v |-> v] \in Atomic!Ops
    BY DEF Atomic!Ops
<1>3. \A f \in Files : [kind |-> "truncate", f |-> f] \in Atomic!Ops
    BY DEF Atomic!Ops
<1>4. \A f, g \in Files : [kind |-> "rename", f |-> f, g |-> g] \in Atomic!Ops
    BY DEF Atomic!Ops
<1>5. \A f, v : [kind |-> "write", f |-> f, v |-> v] # NoOp
    BY <1>1
<1>6. \A f : [kind |-> "truncate", f |-> f] # NoOp
    BY <1>1
<1>7. \A f, g : [kind |-> "rename", f |-> f, g |-> g] # NoOp
    BY <1>1
<1> QED
    BY <1>1, <1>2, <1>3, <1>4, <1>5, <1>6, <1>7

LEMMA OpKinds ==
    ASSUME NEW o \in Atomic!Ops
    PROVE  /\ o = NoOp \/ o.kind \in {"write", "truncate", "rename"}
           /\ o.kind = "write" => /\ o.f \in Files /\ o.v \in Vers /\ o # NoOp
                                  /\ o = [kind |-> "write", f |-> o.f, v |-> o.v]
           /\ o.kind = "truncate" => o.f \in Files
           /\ o.kind = "rename" => o.f \in Files /\ o.g \in Files
<1>1. CASE o = NoOp
  <2>1. o.kind = "none"
      BY <1>1 DEF NoOp
  <2> QED
      BY <1>1, <2>1
<1>2. CASE o \in [kind : {"write"}, f : Files, v : Vers]
  <2>1. o.kind = "write" /\ o.f \in Files /\ o.v \in Vers
        /\ o = [kind |-> "write", f |-> o.f, v |-> o.v]
      BY <1>2
  <2>2. o # NoOp
      BY <2>1 DEF NoOp
  <2> QED
      BY <2>1, <2>2
<1>3. CASE o \in [kind : {"truncate"}, f : Files]
    BY <1>3
<1>4. CASE o \in [kind : {"rename"}, f : Files, g : Files]
    BY <1>4
<1> QED
    BY <1>1, <1>2, <1>3, <1>4 DEF Atomic!Ops, Atomic!NoOp, NoOp

LEMMA InvInit ==
    ASSUME JnlInit
    PROVE  JnlInv
<1>1. /\ disk = [m \in Meta |-> IF m = Bitmap THEN {} ELSE None]
      /\ data \in [DataBlocks -> {CHOOSE v \in Vers : TRUE}]
      /\ jsb = [start |-> 0, seq |-> 1]
      /\ log = [p \in 1..LogLen |-> NoRecord]
      /\ tx = <<>> /\ freed = {} /\ seq = 1 /\ ro = FALSE
      /\ phase = "idle" /\ k = 0
      /\ op = NoOp /\ todo = <<>>
      /\ seen = Tree(disk)
      /\ spent = [ops |-> 0, crashes |-> 0, faults |-> 0]
    BY DEF JnlInit
<1>2. /\ Bitmap \in Meta /\ Bitmap \notin Files /\ disk[Bitmap] = {}
      /\ \A f \in Files : f \in Meta /\ disk[f] = None
    BY <1>1, JournalAssumption DEF Meta
<1>3. IsMeta(disk)
  <2>1. disk = [m \in Meta |-> disk[m]]
      BY <1>1
  <2> QED
      BY <1>2, <2>1, MakeMeta
<1>4. IsLog(log) /\ NoCommit(log, 1)
  <2>1. NoRecord \in RecordT /\ NoRecord.t # "commit"
    <3>1. None \in BlockVals /\ <<>> \in Seq(Meta)
        BY DEF BlockVals
    <3> QED
        BY <3>1 DEF NoRecord, Record, RecordT
  <2>2. \A p \in 1..LogLen : log[p] = NoRecord
      BY <1>1
  <2>3. log \in [1..LogLen -> RecordT]
      BY <2>1, <1>1
  <2> QED
      BY <2>1, <2>2, <2>3 DEF IsLog, NoCommit
<1>5. JnlTypeOK
  <2>1. data \in [DataBlocks -> Vers]
    <3>1. (CHOOSE v \in Vers : TRUE) \in Vers
        BY JournalAssumption
    <3> QED
        BY <3>1, <1>1
  <2>2. jsb \in [start : {0, 1}, seq : Nat]
      BY <1>1
  <2>3. seen \in [Files -> DataBlocks \cup {None}]
      BY <1>1, <1>2 DEF Tree
  <2>4. spent \in [ops : 0..MaxCalls, crashes : 0..MaxCuts, faults : 0..MaxFaults]
      BY <1>1, JournalAssumption
  <2>5. /\ IsTx(tx) /\ freed \subseteq DataBlocks /\ seq \in Nat /\ ro \in BOOLEAN
        /\ phase \in Phases /\ k \in Nat /\ op \in Atomic!Ops
      BY <1>1, EmptyTx, OpsAre DEF Phases
  <2> QED
      BY <1>3, <1>4, <2>1, <2>2, <2>3, <2>4, <2>5 DEF JnlTypeOK, IsLog
<1>6. Held(disk) = {} /\ Consistent(disk)
  <2>1. Held(disk) = {}
      BY <1>2 DEF Held
  <2> QED
      BY <2>1, <1>2 DEF Consistent
<1>7. jsb.seq = 1 /\ jsb.start = 0
    BY <1>1
<1>8. Recovered = disk
    BY <1>5, <1>7, DiskIsIt
<1>9. Cur = disk
    BY <1>1, <1>3, OverlayEmpty DEF Cur
<1>10. LogOK
    BY <1>4, <1>7 DEF LogOK
<1>11. JsbAt /\ LogAt /\ CkptAt /\ ReplayAt /\ OpAt /\ OpOK
    BY <1>1 DEF JsbAt, LogAt, CkptAt, ReplayAt, OpAt, OpOK
<1>12. Settled
    BY <1>1, <1>6, <1>8, <1>9 DEF Settled
<1> QED
    BY <1>5, <1>6, <1>8, <1>10, <1>11, <1>12 DEF JnlInv, DurableConsistent

LEMMA BeginInv ==
    ASSUME JnlInv, NEW o \in Atomic!Ops \ {NoOp}, NEW steps, Begin(o, steps), OpOK'
    PROVE  JnlInv'
<1>1. /\ phase = "idle" /\ ~ro /\ spent.ops < MaxCalls
      /\ spent' = [spent EXCEPT !.ops = @ + 1]
      /\ op' = o /\ todo' = steps /\ phase' = "op" /\ k' = k /\ seen' = seen
      /\ UNCHANGED persistent /\ UNCHANGED volatile
    BY DEF Begin
<1>2. /\ disk' = disk /\ data' = data /\ jsb' = jsb /\ log' = log
      /\ tx' = tx /\ freed' = freed /\ seq' = seq /\ ro' = ro
    BY <1>1 DEF persistent, volatile
<1>3. JnlTypeOK'
  <2>1. spent' \in [ops : 0..MaxCalls, crashes : 0..MaxCuts, faults : 0..MaxFaults]
      BY <1>1, JournalAssumption DEF JnlInv, JnlTypeOK
  <2> QED
      BY <1>1, <1>2, <2>1 DEF JnlInv, JnlTypeOK, Phases
<1>4. LogOK' /\ Recovered' = Recovered
    BY <1>1, SameDisk DEF JnlInv
<1>5. JsbAt' /\ LogAt' /\ CkptAt' /\ ReplayAt' /\ OpAt' /\ Settled'
    BY <1>1, <1>2 DEF JnlInv, JsbAt, LogAt, CkptAt, ReplayAt, OpAt, Settled
<1>6. DurableConsistent'
    BY <1>4 DEF JnlInv, DurableConsistent
<1> QED
    BY <1>3, <1>4, <1>5, <1>6 DEF JnlInv

LEMMA BeginsInv ==
    ASSUME JnlInv, NEW f \in Files, NEW g \in Files, NEW v \in Vers,
           BeginWrite(f, v) \/ BeginTruncate(f) \/ BeginRename(f, g)
    PROVE  JnlInv'
<1>1. CASE BeginWrite(f, v)
  <2> DEFINE o == [kind |-> "write", f |-> f, v |-> v]
  <2>1. PICK steps \in WriteSteps(f, v) : Begin(o, steps)
      BY <1>1 DEF BeginWrite
  <2>2. /\ phase = "idle" /\ ~ro /\ todo' = steps /\ op' = o
        /\ UNCHANGED <<persistent, volatile, seen>>
      BY <2>1 DEF Begin
  <2>3. OpOK'
      BY <2>2, WriteStarts
  <2>4. o \in Atomic!Ops \ {NoOp}
      BY OpsAre
  <2> HIDE DEF o
  <2> QED
      BY <2>1, <2>3, <2>4, BeginInv
<1>2. CASE BeginTruncate(f)
  <2> DEFINE o == [kind |-> "truncate", f |-> f]
  <2>1. Cur[f] # None /\ Begin(o, TruncateSteps(f))
      BY <1>2 DEF BeginTruncate
  <2>2. /\ phase = "idle" /\ ~ro /\ todo' = TruncateSteps(f) /\ op' = o
        /\ UNCHANGED <<persistent, volatile, seen>>
      BY <2>1 DEF Begin
  <2>3. OpOK'
      BY <2>1, <2>2, TruncateStarts
  <2>4. o \in Atomic!Ops \ {NoOp}
      BY OpsAre
  <2> HIDE DEF o
  <2> QED
      BY <2>1, <2>3, <2>4, BeginInv
<1>3. CASE BeginRename(f, g)
  <2> DEFINE o == [kind |-> "rename", f |-> f, g |-> g]
  <2>1. f # g /\ Cur[f] # None /\ Begin(o, RenameSteps(f, g))
      BY <1>3 DEF BeginRename
  <2>2. /\ phase = "idle" /\ ~ro /\ todo' = RenameSteps(f, g) /\ op' = o
        /\ UNCHANGED <<persistent, volatile, seen>>
      BY <2>1 DEF Begin
  <2>3. OpOK'
      BY <2>1, <2>2, RenameStarts
  <2>4. o \in Atomic!Ops \ {NoOp}
      BY OpsAre
  <2> HIDE DEF o
  <2> QED
      BY <2>1, <2>3, <2>4, BeginInv
<1> QED
    BY <1>1, <1>2, <1>3

LEMMA ReclaimInv ==
    ASSUME JnlInv, NEW f \in Files, NEW v \in Vers, BeginReclaim(f, v)
    PROVE  JnlInv'
<1>1. /\ phase = "idle" /\ ~ro /\ spent.ops < MaxCalls /\ tx # <<>>
      /\ spent' = [spent EXCEPT !.ops = @ + 1]
      /\ op' = [kind |-> "write", f |-> f, v |-> v] /\ phase' = "sb1"
      /\ k' = k /\ seen' = seen /\ todo' = todo
      /\ UNCHANGED persistent /\ UNCHANGED volatile
    BY DEF BeginReclaim
<1>2. /\ disk' = disk /\ data' = data /\ jsb' = jsb /\ log' = log
      /\ tx' = tx /\ freed' = freed /\ seq' = seq /\ ro' = ro
    BY <1>1 DEF persistent, volatile
<1>3. JnlTypeOK'
  <2>1. spent' \in [ops : 0..MaxCalls, crashes : 0..MaxCuts, faults : 0..MaxFaults]
      BY <1>1, JournalAssumption, SMTT(30) DEF JnlInv, JnlTypeOK
  <2>2. op' \in Atomic!Ops
      BY <1>1, OpsAre
  <2> QED
      BY <1>1, <1>2, <2>1, <2>2 DEF JnlInv, JnlTypeOK, Phases
<1>4. LogOK' /\ Recovered' = Recovered /\ Cur' = Cur
    BY <1>1, <1>2, SameDisk DEF JnlInv, Cur
<1>5. op'.kind = "write"
    BY <1>1
<1>6. JsbAt' /\ LogAt' /\ CkptAt' /\ ReplayAt' /\ OpAt' /\ OpOK'
    BY <1>1, <1>2, <1>5 DEF JnlInv, JsbAt, LogAt, CkptAt, ReplayAt, OpAt, OpOK
<1>7. Settled'
    BY <1>1, <1>2, <1>4 DEF JnlInv, Settled
<1>8. DurableConsistent'
    BY <1>4 DEF JnlInv, DurableConsistent
<1> QED
    BY <1>3, <1>4, <1>6, <1>7, <1>8 DEF JnlInv

LEMMA RetryInv ==
    ASSUME JnlInv, Retry
    PROVE  JnlInv'
<1>1. /\ phase = "retry" /\ phase' = "op" /\ todo' \in WriteSteps(op.f, op.v)
      /\ k' = k /\ seen' = seen /\ op' = op /\ spent' = spent
      /\ UNCHANGED persistent /\ UNCHANGED volatile
    BY DEF Retry
<1>2. /\ disk' = disk /\ data' = data /\ jsb' = jsb /\ log' = log
      /\ tx' = tx /\ freed' = freed /\ seq' = seq /\ ro' = ro
    BY <1>1 DEF persistent, volatile
<1>3. ~ro /\ op.kind = "write" /\ op \in Atomic!Ops
    BY <1>1 DEF JnlInv, JsbAt, OpAt, JnlTypeOK
<1>4. op.f \in Files /\ op.v \in Vers /\ op # NoOp
      /\ op = [kind |-> "write", f |-> op.f, v |-> op.v]
    BY <1>3, OpKinds
<1>5. PICK f \in Files, v \in Vers : f = op.f /\ v = op.v
    BY <1>4
<1>6. OpOK'
  <2>1. todo' \in WriteSteps(f, v) /\ op' = [kind |-> "write", f |-> f, v |-> v]
      BY <1>1, <1>4, <1>5
  <2>2. UNCHANGED <<persistent, volatile, seen>>
      BY <1>1
  <2> QED
      BY <1>1, <1>3, <2>1, <2>2, WriteStarts
<1>7. JnlTypeOK'
    BY <1>1, <1>2 DEF JnlInv, JnlTypeOK, Phases
<1>8. LogOK' /\ Recovered' = Recovered
    BY <1>1, SameDisk DEF JnlInv
<1>9. JsbAt' /\ LogAt' /\ CkptAt' /\ ReplayAt' /\ OpAt' /\ Settled'
    BY <1>1, <1>2, <1>3, <1>4 DEF JnlInv, JsbAt, LogAt, CkptAt, ReplayAt, OpAt, Settled
<1>10. DurableConsistent'
    BY <1>8 DEF JnlInv, DurableConsistent
<1> QED
    BY <1>6, <1>7, <1>8, <1>9, <1>10 DEF JnlInv


(* What is said of an operation while the tree and the disk stay.          *)
LEMMA SameTarget ==
    ASSUME seen' = seen, Recovered' = Recovered, op' = op
    PROVE  /\ Atomic!Target(op.f)' = Atomic!Target(op.f)
           /\ \A M : (Covered(M)' <=> Held(Recovered) \subseteq Held(M) \cup freed' \cup Freeing')
<1>1. Tree(Recovered)' = Tree(Recovered) /\ seen' = seen /\ op' = op
    BY DEF Tree
<1>2. Atomic!Target(op.f)' = Atomic!Target(op.f)
    BY <1>1 DEF Atomic!Target, Atomic!Reachable
<1>3. ASSUME NEW M
      PROVE  Covered(M)' <=> Held(Recovered) \subseteq Held(M) \cup freed' \cup Freeing'
    BY DEF Covered
<1> QED
    BY <1>2, <1>3

LEMMA OpSteps ==
    ASSUME JnlInv, phase = "op", todo # <<>>, todo' = Tail(todo), op' = op,
           NEW M, Leads(M)
    PROVE  /\ todo' \in Seq(Steps) /\ Head(todo) \in Steps
           /\ Pending = {Head(todo)} \cup Pending'
           /\ StepOK(M, Head(todo)) /\ \A y \in Pending' : StepOK(M, y)'
<1>1. todo \in Seq(Steps) /\ \A x \in Pending : StepOK(M, x)
    BY DEF Leads
<1>2. PICK t : t = todo
    OBVIOUS
<1>3. /\ Tail(t) \in Seq(Steps) /\ Head(t) \in Steps
      /\ {t[i] : i \in 1..Len(t)} = {Head(t)} \cup {Tail(t)[i] : i \in 1..Len(Tail(t))}
  <2>1. t \in Seq(Steps) /\ t # <<>>
      BY <1>1, <1>2
  <2> QED
      BY <2>1, TailSteps
<1>4. Pending = {t[i] : i \in 1..Len(t)}
    BY <1>2 DEF Pending
<1>5. Pending' = {Tail(t)[i] : i \in 1..Len(Tail(t))}
    BY <1>2 DEF Pending
<1>6. Pending = {Head(todo)} \cup Pending'
    BY <1>2, <1>3, <1>4, <1>5
<1>7. ASSUME NEW y \in Pending' PROVE StepOK(M, y)'
  <2>1. StepOK(M, y)
      BY <1>1, <1>6
  <2> QED
      BY <2>1 DEF StepOK
<1>8. StepOK(M, Head(todo))
    BY <1>1, <1>6
<1> QED
    BY <1>2, <1>3, <1>6, <1>7, <1>8

LEMMA StepPutInv ==
    ASSUME JnlInv, StepPut
    PROVE  JnlInv'
<1>1. /\ phase = "op" /\ todo # <<>> /\ Head(todo).s \in {"put", "free"}
      /\ tx' = JtPut(Dest(Head(todo)), Head(todo).val)
      /\ freed' = IF Head(todo).s = "free" THEN freed \cup {Head(todo).blk} ELSE freed
      /\ todo' = Tail(todo) /\ phase' = phase /\ op' = op /\ seen' = seen /\ k' = k
      /\ seq' = seq /\ ro' = ro /\ spent' = spent /\ UNCHANGED persistent
    BY DEF StepPut, Dest
<1>2. disk' = disk /\ data' = data /\ jsb' = jsb /\ log' = log
    BY <1>1 DEF persistent
<1>3. PICK M : IsMeta(M) /\ Consistent(M) /\ Leads(M) /\ Effect(M) /\ Covered(M)
    BY <1>1 DEF JnlInv, OpOK
<1>4. PICK x : x = Head(todo)
    OBVIOUS
<1>5. /\ todo' \in Seq(Steps) /\ Pending = {x} \cup Pending'
      /\ StepOK(M, x) /\ \A y \in Pending' : StepOK(M, y)'
    BY <1>1, <1>3, <1>4, OpSteps
<1>6. PICK m \in Meta : m = Dest(x) /\ M[m] = x.val /\ (x.s = "free" => x.blk \in DataBlocks)
    BY <1>1, <1>4, <1>5 DEF StepOK
<1>7. x.val \in BlockVals /\ Fits(m, x.val)
    BY <1>3, <1>6 DEF IsMeta
<1>8. JnlTypeOK /\ IsMeta(disk) /\ IsTx(tx) /\ IsMeta(Cur)
    BY TypesOf DEF JnlInv
<1>9. IsTx(tx') /\ tx' # <<>> /\ Cur' = [Cur EXCEPT ![m] = M[m]]
  <2>1. tx' = JtPut(m, x.val)
      BY <1>1, <1>4, <1>6
  <2>2. /\ IsTx(JtPut(m, x.val)) /\ JtPut(m, x.val) # <<>>
        /\ Overlay(disk, JtPut(m, x.val)) = [Overlay(disk, tx) EXCEPT ![m] = x.val]
      BY <1>7, <1>8, PutShows
  <2> QED
      BY <2>1, <2>2, <1>2, <1>6 DEF Cur
<1>10. JnlTypeOK'
  <2>1. freed' \subseteq DataBlocks
      BY <1>1, <1>4, <1>6, <1>8 DEF JnlTypeOK
  <2>2. IsTx(tx)'
      BY <1>9
  <2> QED
      BY <1>1, <1>2, <1>8, <2>1, <2>2 DEF JnlTypeOK
<1>11. LogOK' /\ Recovered' = Recovered
    BY <1>1, SameDisk DEF JnlInv
<1>12. Leads(M)'
  <2>1. ASSUME NEW a \in Meta
        PROVE  M[a] = Cur'[a] \/ \E y \in Pending' : y.s # "data" /\ Dest(y) = a
    <3>1. CASE a = m
        BY <3>1, <1>8, <1>9 DEF IsMeta
    <3>2. CASE a # m
      <4>1. Cur'[a] = Cur[a]
          BY <3>2, <1>8, <1>9 DEF IsMeta
      <4>2. M[a] = Cur[a] \/ \E y \in Pending : y.s # "data" /\ Dest(y) = a
          BY <1>3 DEF Leads
      <4> QED
          BY <4>1, <4>2, <3>2, <1>5, <1>6
    <3> QED
        BY <3>1, <3>2
  <2> QED
      BY <2>1, <1>5, <1>9 DEF Leads
<1>13. Effect(M)'
  <2>1. Atomic!Target(op.f)' = Atomic!Target(op.f)
      BY <1>1, <1>11, SameTarget
  <2>2. Write(M[op.f], op.v) # x
    <3>1. Write(M[op.f], op.v).s = "data"
        BY DEF Write
    <3> QED
        BY <3>1, <1>1, <1>4
  <2>3. op.kind = "write" => /\ M[op.f] \in Atomic!Target(op.f)
                             /\ Tree(M) = [seen EXCEPT ![op.f] = M[op.f]]
                             /\ data[M[op.f]] = op.v \/ Write(M[op.f], op.v) \in Pending'
      BY <2>2, <1>3, <1>5 DEF Effect
  <2>4. /\ op.kind = "truncate" => Tree(M) = [seen EXCEPT ![op.f] = None]
        /\ op.kind = "rename" => Tree(M) = [seen EXCEPT ![op.g] = seen[op.f], ![op.f] = None]
      BY <1>3 DEF Effect
  <2> QED
      BY <2>1, <2>3, <2>4, <1>1, <1>2 DEF Effect
<1>14. Covered(M)'
  <2>1. Freeing \subseteq Freeing' \cup (IF x.s = "free" THEN {x.blk} ELSE {})
      BY <1>5 DEF Freeing
  <2>2. Held(Recovered) \subseteq Held(M) \cup freed \cup Freeing
      BY <1>3 DEF Covered
  <2>3. Held(Recovered) \subseteq Held(M) \cup freed' \cup Freeing'
      BY <2>1, <2>2, <1>1, <1>4
  <2> QED
      BY <2>3, <1>1, <1>11, SameTarget
<1>15. JsbAt' /\ LogAt' /\ CkptAt' /\ ReplayAt' /\ OpAt' /\ Settled'
    BY <1>1, <1>2 DEF JnlInv, JsbAt, LogAt, CkptAt, ReplayAt, OpAt, Settled
<1>16. OpOK'
    BY <1>3, <1>12, <1>13, <1>14 DEF OpOK
<1>17. DurableConsistent'
    BY <1>11 DEF JnlInv, DurableConsistent
<1> QED
    BY <1>10, <1>11, <1>15, <1>16, <1>17 DEF JnlInv

(* A write goes to a block that the operation may change.                  *)
LEMMA StepDataIs ==
    ASSUME JnlInv, StepData
    PROVE  /\ op.kind = "write" /\ op.f \in Files /\ op.v \in Vers
           /\ Head(todo).blk \in Atomic!Target(op.f) /\ Head(todo).blk \in DataBlocks
           /\ Head(todo).val = op.v
<1>1. phase = "op" /\ todo # <<>> /\ Head(todo).s = "data"
    BY DEF StepData
<1>2. PICK M : IsMeta(M) /\ Leads(M) /\ Effect(M)
    BY <1>1 DEF JnlInv, OpOK
<1>3. PICK t : t = todo
    OBVIOUS
<1>4. t \in Seq(Steps) /\ t # <<>> /\ Pending = {t[i] : i \in 1..Len(t)}
    BY <1>1, <1>2, <1>3 DEF Leads, Pending
<1>5. Head(todo) \in Pending
    BY <1>3, <1>4, TailSteps
<1>6. op.kind = "write" /\ Head(todo) = Write(M[op.f], op.v)
    BY <1>1, <1>2, <1>5 DEF Leads, StepOK
<1>7. op.f \in Files /\ op.v \in Vers
    BY <1>6, OpKinds DEF JnlInv, JnlTypeOK
<1>8. Head(todo).blk = M[op.f] /\ Head(todo).val = op.v
    BY <1>6 DEF Write
<1>9. M[op.f] \in Atomic!Target(op.f)
    BY <1>2, <1>6 DEF Effect
<1>10. M[op.f] \in DataBlocks
  <2>1. seen[op.f] \in DataBlocks \cup {None}
      BY <1>7 DEF JnlInv, JnlTypeOK
  <2> QED
      BY <2>1, <1>9 DEF Atomic!Target
<1> QED
    BY <1>6, <1>7, <1>8, <1>9, <1>10

LEMMA StepDataInv ==
    ASSUME JnlInv, StepData
    PROVE  JnlInv'
<1>1. /\ phase = "op" /\ todo # <<>> /\ Head(todo).s = "data"
      /\ data' = [data EXCEPT ![Head(todo).blk] = Head(todo).val]
      /\ todo' = Tail(todo) /\ phase' = phase /\ op' = op /\ seen' = seen /\ k' = k
      /\ disk' = disk /\ jsb' = jsb /\ log' = log /\ spent' = spent /\ UNCHANGED volatile
    BY DEF StepData
<1>2. tx' = tx /\ freed' = freed /\ seq' = seq /\ ro' = ro
    BY <1>1 DEF volatile
<1>3. PICK M : IsMeta(M) /\ Consistent(M) /\ Leads(M) /\ Effect(M) /\ Covered(M)
    BY <1>1 DEF JnlInv, OpOK
<1>4. PICK x : x = Head(todo)
    OBVIOUS
<1>5. /\ todo' \in Seq(Steps) /\ Pending = {x} \cup Pending'
      /\ StepOK(M, x) /\ \A y \in Pending' : StepOK(M, y)'
    BY <1>1, <1>3, <1>4, OpSteps
<1>6. /\ op.kind = "write" /\ op.f \in Files /\ op.v \in Vers /\ x.blk \in DataBlocks
      /\ x.val = op.v
    BY <1>4, StepDataIs
<1>7. x.blk = M[op.f]
    BY <1>1, <1>4, <1>5 DEF StepOK, Write
<1>8. data \in [DataBlocks -> Vers] /\ data' = [data EXCEPT ![x.blk] = op.v]
    BY <1>1, <1>4, <1>6 DEF JnlInv, JnlTypeOK
<1>9. data' \in [DataBlocks -> Vers] /\ data'[M[op.f]] = op.v
    BY <1>6, <1>7, <1>8
<1>10. JnlTypeOK'
    BY <1>1, <1>2, <1>9 DEF JnlInv, JnlTypeOK
<1>11. LogOK' /\ RecoverWrites' = RecoverWrites /\ Recovered' = Recovered /\ Cur' = Cur
    BY <1>1, <1>2 DEF JnlInv, LogOK, RecoverWrites, Recovered, Cur
<1>12. Leads(M)'
  <2>1. \A a \in Meta : M[a] = Cur[a] \/ \E y \in Pending' : y.s # "data" /\ Dest(y) = a
      BY <1>1, <1>3, <1>4, <1>5 DEF Leads
  <2>2. tx # <<>> \/ \E y \in Pending' : y.s # "data"
      BY <1>1, <1>3, <1>4, <1>5 DEF Leads
  <2> QED
      BY <2>1, <2>2, <1>2, <1>5, <1>11 DEF Leads
<1>13. Effect(M)'
  <2>1. Atomic!Target(op.f)' = Atomic!Target(op.f)
      BY <1>1, <1>11, SameTarget
  <2>2. /\ M[op.f] \in Atomic!Target(op.f)
        /\ Tree(M) = [seen EXCEPT ![op.f] = M[op.f]]
      BY <1>3, <1>6 DEF Effect
  <2> QED
      BY <2>1, <2>2, <1>1, <1>6, <1>9 DEF Effect
<1>14. Covered(M)'
  <2>1. Freeing \subseteq Freeing'
      BY <1>1, <1>4, <1>5 DEF Freeing
  <2>2. Held(Recovered) \subseteq Held(M) \cup freed' \cup Freeing'
      BY <2>1, <1>2, <1>3 DEF Covered
  <2> QED
      BY <2>2, <1>1, <1>11, SameTarget
<1>15. JsbAt' /\ LogAt' /\ CkptAt' /\ ReplayAt' /\ OpAt' /\ Settled'
    BY <1>1, <1>2 DEF JnlInv, JsbAt, LogAt, CkptAt, ReplayAt, OpAt, Settled
<1>16. OpOK'
    BY <1>3, <1>12, <1>13, <1>14 DEF OpOK
<1>17. DurableConsistent'
    BY <1>11 DEF JnlInv, DurableConsistent
<1> QED
    BY <1>10, <1>11, <1>15, <1>16, <1>17 DEF JnlInv


LEMMA FaultType ==
    ASSUME JnlTypeOK, Fault
    PROVE  spent' \in [ops : 0..MaxCalls, crashes : 0..MaxCuts, faults : 0..MaxFaults]
    BY JournalAssumption DEF JnlTypeOK, Fault

(* With the journal aborted, and after a crash, little is claimed.         *)
LEMMA AbortedInv ==
    ASSUME JnlTypeOK', LogOK', DurableConsistent', ro' = TRUE, phase' = "idle", op' = NoOp
    PROVE  JnlInv'
<1>1. JsbAt' /\ LogAt' /\ CkptAt' /\ ReplayAt' /\ OpAt' /\ Settled' /\ OpOK'
    BY DEF JsbAt, LogAt, CkptAt, ReplayAt, OpAt, Settled, OpOK
<1> QED
    BY <1>1 DEF JnlInv

LEMMA StepFailsInv ==
    ASSUME JnlInv, StepFails
    PROVE  JnlInv'
<1>1. /\ Fault /\ ro' = TRUE /\ phase' = "idle" /\ op' = NoOp /\ todo' = <<>>
      /\ tx' = tx /\ freed' = freed /\ seq' = seq /\ k' = k /\ seen' = seen
      /\ UNCHANGED persistent
    BY DEF StepFails
<1>2. disk' = disk /\ data' = data /\ jsb' = jsb /\ log' = log
    BY <1>1 DEF persistent
<1>3. JnlTypeOK'
  <2>1. spent' \in [ops : 0..MaxCalls, crashes : 0..MaxCuts, faults : 0..MaxFaults]
      BY <1>1, FaultType DEF JnlInv
  <2>2. op' \in Atomic!Ops
      BY <1>1, OpsAre
  <2> QED
      BY <1>1, <1>2, <2>1, <2>2 DEF JnlInv, JnlTypeOK, Phases
<1>4. LogOK' /\ Recovered' = Recovered
    BY <1>1, SameDisk DEF JnlInv
<1>5. DurableConsistent'
    BY <1>4 DEF JnlInv, DurableConsistent
<1> QED
    BY <1>1, <1>3, <1>4, <1>5, AbortedInv

(* The last step of an operation has been taken: it has had its effect.    *)
LEMMA OpEnds ==
    ASSUME JnlInv, phase = "op", todo = <<>>
    PROVE  /\ Consistent(Cur) /\ Effect(Cur) /\ tx # <<>> /\ IsMeta(Cur) /\ Pending = {}
           /\ Held(Recovered) \subseteq Held(Cur) \cup freed
<1>1. PICK M : IsMeta(M) /\ Consistent(M) /\ Leads(M) /\ Effect(M) /\ Covered(M)
    BY DEF JnlInv, OpOK
<1>2. Pending = {}
  <2>1. Len(todo) = 0
      OBVIOUS
  <2> QED
      BY <2>1 DEF Pending
<1>3. Freeing = {}
    BY <1>2 DEF Freeing
<1>4. IsMeta(Cur)
    BY TypesOf DEF JnlInv
<1>5. M = Cur
  <2>1. \A m \in Meta : M[m] = Cur[m]
      BY <1>1, <1>2 DEF Leads
  <2> QED
      BY <2>1, <1>1, <1>4 DEF IsMeta
<1> QED
    BY <1>1, <1>2, <1>3, <1>4, <1>5 DEF Leads, Covered

LEMMA TreeType ==
    ASSUME NEW M, IsMeta(M)
    PROVE  Tree(M) \in [Files -> DataBlocks \cup {None}]
    BY MetaIs DEF Tree

LEMMA EndOpInv ==
    ASSUME JnlInv, EndOp
    PROVE  JnlInv'
<1>1. /\ phase = "op" /\ todo = <<>> /\ seen' = Tree(Cur) /\ op' = NoOp
      /\ phase' \in {"sb1", "idle"} /\ k' = k /\ todo' = todo /\ spent' = spent
      /\ UNCHANGED persistent /\ UNCHANGED volatile
    BY DEF EndOp
<1>2. /\ disk' = disk /\ data' = data /\ jsb' = jsb /\ log' = log
      /\ tx' = tx /\ freed' = freed /\ seq' = seq /\ ro' = ro
    BY <1>1 DEF persistent, volatile
<1>3. /\ Consistent(Cur) /\ tx # <<>> /\ IsMeta(Cur)
      /\ Held(Recovered) \subseteq Held(Cur) \cup freed
    BY <1>1, OpEnds
<1>4. JnlTypeOK'
  <2>1. seen' \in [Files -> DataBlocks \cup {None}]
      BY <1>1, <1>3, TreeType
  <2>2. op' \in Atomic!Ops
      BY <1>1, OpsAre
  <2> QED
      BY <1>1, <1>2, <2>1, <2>2 DEF JnlInv, JnlTypeOK, Phases
<1>5. LogOK' /\ Recovered' = Recovered /\ Cur' = Cur
    BY <1>1, <1>2, SameDisk DEF JnlInv, Cur
<1>6. JsbAt' /\ LogAt' /\ CkptAt' /\ ReplayAt' /\ OpAt' /\ OpOK'
    BY <1>1, <1>2, <1>3 DEF JnlInv, JsbAt, LogAt, CkptAt, ReplayAt, OpAt, OpOK
<1>7. Tree(Cur)' = Tree(Cur)
    BY <1>5 DEF Tree
<1>8. Settled'
    BY <1>1, <1>2, <1>3, <1>5, <1>7 DEF Settled
<1>9. DurableConsistent'
    BY <1>5 DEF JnlInv, DurableConsistent
<1> QED
    BY <1>4, <1>5, <1>6, <1>8, <1>9 DEF JnlInv

LEMMA SyncAllInv ==
    ASSUME JnlInv, SyncAll
    PROVE  JnlInv'
<1>1. /\ phase = "idle" /\ ~ro /\ tx # <<>> /\ phase' = "sb1"
      /\ k' = k /\ op' = op /\ todo' = todo /\ seen' = seen /\ spent' = spent
      /\ UNCHANGED persistent /\ UNCHANGED volatile
    BY DEF SyncAll
<1>2. /\ disk' = disk /\ data' = data /\ jsb' = jsb /\ log' = log
      /\ tx' = tx /\ freed' = freed /\ seq' = seq /\ ro' = ro
    BY <1>1 DEF persistent, volatile
<1>3. JnlTypeOK'
    BY <1>1, <1>2 DEF JnlInv, JnlTypeOK, Phases
<1>4. LogOK' /\ Recovered' = Recovered /\ Cur' = Cur
    BY <1>1, <1>2, SameDisk DEF JnlInv, Cur
<1>5. JsbAt' /\ LogAt' /\ CkptAt' /\ ReplayAt' /\ OpAt' /\ OpOK'
    BY <1>1, <1>2 DEF JnlInv, JsbAt, LogAt, CkptAt, ReplayAt, OpAt, OpOK
<1>6. Settled'
    BY <1>1, <1>2, <1>4 DEF JnlInv, Settled
<1>7. DurableConsistent'
    BY <1>4 DEF JnlInv, DurableConsistent
<1> QED
    BY <1>3, <1>4, <1>5, <1>6, <1>7 DEF JnlInv

(* What is settled at every step of a commit.                              *)
LEMMA Committing ==
    ASSUME JnlInv, phase \in {"sb1", "log", "ckpt", "sb0"}
    PROVE  /\ ~ro /\ tx # <<>> /\ (op = NoOp \/ op.kind = "write")
           /\ Consistent(Cur) /\ seen = Tree(Cur)
           /\ Held(Recovered) \subseteq Held(Cur) \cup freed
    BY DEF JnlInv, JsbAt, OpAt, Settled

LEMMA LogStartInv ==
    ASSUME JnlInv, LogStart
    PROVE  JnlInv'
<1>1. /\ phase = "sb1" /\ StartLog /\ phase' = "log" /\ k' = 1
      /\ op' = op /\ todo' = todo /\ seen' = seen /\ spent' = spent /\ UNCHANGED volatile
    BY DEF LogStart
<1>2. /\ disk' = disk /\ data' = data /\ log' = log
      /\ tx' = tx /\ freed' = freed /\ seq' = seq /\ ro' = ro
    BY <1>1 DEF StartLog, volatile
<1>3. /\ jsb' = [start |-> 1, seq |-> seq] /\ jsb' \in JsbT /\ NoCommit(log, seq)
      /\ Recovered' = Recovered /\ LogOK'
    BY <1>1, StartFacts
<1>4. /\ ~ro /\ tx # <<>> /\ (op = NoOp \/ op.kind = "write")
      /\ Consistent(Cur) /\ seen = Tree(Cur)
      /\ Held(Recovered) \subseteq Held(Cur) \cup freed
    BY <1>1, Committing
<1>5. JnlTypeOK'
    BY <1>1, <1>2, <1>3 DEF JnlInv, JnlTypeOK, Phases, JsbT
<1>6. LogAt'
  <2>1. LogSize(tx) \in Nat /\ LogSize(tx) > 0
      BY TypesOf DEF JnlInv
  <2>2. 1 \in 1..LogSize(tx)
      BY <2>1
  <2>3. Written(log, tx, seq, 1 - 1)
      BY DEF Written
  <2> QED
      BY <1>1, <1>2, <1>3, <2>2, <2>3 DEF LogAt
<1>7. JsbAt' /\ CkptAt' /\ ReplayAt' /\ OpAt' /\ OpOK'
    BY <1>1, <1>2, <1>3, <1>4 DEF JsbAt, CkptAt, ReplayAt, OpAt, OpOK
<1>8. Settled'
    BY <1>1, <1>2, <1>3, <1>4 DEF Settled, Cur, Tree, Held, Consistent
<1>9. DurableConsistent'
    BY <1>3 DEF JnlInv, DurableConsistent
<1> QED
    BY <1>3, <1>5, <1>6, <1>7, <1>8, <1>9 DEF JnlInv

LEMMA LogWriteInv ==
    ASSUME JnlInv, LogWrite
    PROVE  JnlInv'
<1>1. /\ phase = "log" /\ LogBlock
      /\ phase' = IF k = LogSize(tx) THEN "ckpt" ELSE "log"
      /\ k' = IF k = LogSize(tx) THEN 1 ELSE k + 1
      /\ op' = op /\ todo' = todo /\ seen' = seen /\ spent' = spent /\ UNCHANGED volatile
    BY DEF LogWrite
<1>2. /\ disk' = disk /\ data' = data /\ jsb' = jsb
      /\ tx' = tx /\ freed' = freed /\ seq' = seq /\ ro' = ro
    BY <1>1 DEF LogBlock, volatile
<1>3. /\ IsLog(log') /\ Written(log', tx, seq, k) /\ NoCommit(log', seq + 1)
      /\ k # LogSize(tx) => NoCommit(log', seq) /\ Recovered' = Recovered
      /\ k = LogSize(tx) => Recovered' = Cur
      /\ LogOK'
    BY <1>1, LogFacts
<1>4. /\ ~ro /\ tx # <<>> /\ (op = NoOp \/ op.kind = "write")
      /\ Consistent(Cur) /\ seen = Tree(Cur)
      /\ Held(Recovered) \subseteq Held(Cur) \cup freed
    BY <1>1, Committing
<1>5. /\ LogSize(tx) \in Nat /\ Len(tx) \in Nat /\ Len(tx) > 0
      /\ k \in Nat /\ k \in 1..LogSize(tx) /\ jsb = [start |-> 1, seq |-> seq]
  <2>1. tx \in Seq(Writes)
      BY TypesOf, TxFits DEF JnlInv
  <2> QED
      BY <1>1, <1>4, <2>1, TypesOf DEF JnlInv, LogAt, JsbAt
<1>6. JnlTypeOK'
  <2>1. k' \in Nat
      BY <1>1, <1>5
  <2> QED
      BY <1>1, <1>2, <1>3, <2>1 DEF JnlInv, JnlTypeOK, Phases, IsLog
<1>7. LogAt'
  <2>1. ASSUME k # LogSize(tx) PROVE LogAt'
    <3>1. k + 1 \in 1..LogSize(tx) /\ (k + 1) - 1 = k
        BY <1>5, <2>1
    <3> QED
        BY <3>1, <2>1, <1>1, <1>2, <1>3 DEF LogAt
  <2>2. ASSUME k = LogSize(tx) PROVE LogAt'
      BY <2>2, <1>1 DEF LogAt
  <2> QED
      BY <2>1, <2>2
<1>8. CkptAt'
  <2>1. ASSUME k # LogSize(tx) PROVE CkptAt'
      BY <2>1, <1>1 DEF CkptAt
  <2>2. ASSUME k = LogSize(tx) PROVE CkptAt'
    <3>1. /\ phase' = "ckpt" /\ k' = 1 /\ k' \in 1..(Len(tx) + 1) /\ k' <= Len(tx)
          /\ 1..(k' - 1) = {}
        BY <2>2, <1>1, <1>5
    <3>2. Written(log', tx, seq, LogSize(tx))
        BY <2>2, <1>3
    <3> QED
        BY <3>1, <3>2, <1>2, <1>3 DEF CkptAt
  <2> QED
      BY <2>1, <2>2
<1>9. JsbAt' /\ ReplayAt' /\ OpAt' /\ OpOK'
    BY <1>1, <1>2, <1>4, <1>5 DEF JsbAt, ReplayAt, OpAt, OpOK
<1>10. Cur' = Cur /\ Tree(Cur)' = Tree(Cur)
    BY <1>2 DEF Cur, Tree
<1>11. Settled' /\ DurableConsistent'
  <2>1. CASE k # LogSize(tx)
    <3>1. Recovered' = Recovered
        BY <2>1, <1>3
    <3> QED
        BY <3>1, <1>1, <1>2, <1>4, <1>10 DEF JnlInv, Settled, DurableConsistent
  <2>2. CASE k = LogSize(tx)
    <3>1. Recovered' = Cur
        BY <2>2, <1>3
    <3> QED
        BY <3>1, <1>1, <1>2, <1>4, <1>10 DEF Settled, DurableConsistent
  <2> QED
      BY <2>1, <2>2
<1> QED
    BY <1>3, <1>6, <1>7, <1>8, <1>9, <1>11 DEF JnlInv

LEMMA CheckpointInv ==
    ASSUME JnlInv, Checkpoint
    PROVE  JnlInv'
<1>1. /\ phase = "ckpt" /\ CkptBlock
      /\ phase' = IF k = Len(tx) THEN "sb0" ELSE "ckpt"
      /\ k' = k + 1
      /\ op' = op /\ todo' = todo /\ seen' = seen /\ spent' = spent /\ UNCHANGED volatile
    BY DEF Checkpoint
<1>2. /\ log' = log /\ data' = data /\ jsb' = jsb
      /\ tx' = tx /\ freed' = freed /\ seq' = seq /\ ro' = ro
    BY <1>1 DEF CkptBlock, volatile
<1>3. /\ IsMeta(disk') /\ Recovered' = Recovered /\ Overlay(disk', tx) = Cur /\ LogOK'
      /\ \A i \in 1..k : disk'[tx[i].blk] = tx[i].val
    BY <1>1, CkptFacts
<1>4. /\ ~ro /\ tx # <<>> /\ (op = NoOp \/ op.kind = "write")
      /\ Consistent(Cur) /\ seen = Tree(Cur)
      /\ Held(Recovered) \subseteq Held(Cur) \cup freed
    BY <1>1, Committing
<1>5. /\ Len(tx) \in Nat /\ k \in Nat /\ k \in 1..Len(tx) /\ jsb = [start |-> 1, seq |-> seq]
      /\ NoCommit(log, seq + 1) /\ Written(log, tx, seq, LogSize(tx))
    BY <1>1, TypesOf DEF JnlInv, CkptAt, JsbAt
<1>6. JnlTypeOK'
  <2>1. k' \in Nat /\ IsMeta(disk)'
      BY <1>1, <1>3, <1>5
  <2> QED
      BY <1>1, <1>2, <2>1 DEF JnlInv, JnlTypeOK, Phases
<1>7. CkptAt'
  <2>1. k' \in 1..(Len(tx) + 1) /\ (phase' = "ckpt" <=> k' <= Len(tx)) /\ k' - 1 = k
      BY <1>1, <1>5
  <2> QED
      BY <2>1, <1>2, <1>3, <1>5 DEF CkptAt
<1>8. JsbAt' /\ LogAt' /\ ReplayAt' /\ OpAt' /\ OpOK'
    BY <1>1, <1>2, <1>4, <1>5 DEF JsbAt, LogAt, ReplayAt, OpAt, OpOK
<1>9. Cur' = Cur
    BY <1>2, <1>3 DEF Cur
<1>10. Tree(Cur)' = Tree(Cur)
    BY <1>9 DEF Tree
<1>11. Settled' /\ DurableConsistent'
    BY <1>1, <1>2, <1>3, <1>4, <1>9, <1>10 DEF JnlInv, Settled, DurableConsistent
<1> QED
    BY <1>3, <1>6, <1>7, <1>8, <1>11 DEF JnlInv


(* The log may be emptied: every block of it is in place.                  *)
LEMMA CommitDone ==
    ASSUME JnlInv, phase = "sb0"
    PROVE  /\ NoCommit(log, seq + 1) /\ seq + 1 \in Nat /\ disk = Cur /\ Recovered = Cur
    BY CkptIs, TypesOf DEF JnlInv, CkptAt

LEMMA CommitEndInv ==
    ASSUME JnlInv, CommitEnd
    PROVE  JnlInv'
<1>1. /\ phase = "sb0" /\ EmptyLog(seq + 1) /\ seq' = seq + 1 /\ tx' = <<>> /\ freed' = {}
      /\ phase' = IF op = NoOp THEN "idle" ELSE "retry"
      /\ k' = 0 /\ ro' = ro
      /\ op' = op /\ todo' = todo /\ seen' = seen /\ spent' = spent
    BY DEF CommitEnd
<1>2. data' = data
    BY <1>1 DEF EmptyLog
<1>3. /\ NoCommit(log, seq + 1) /\ seq + 1 \in Nat /\ disk = Cur /\ Recovered = Cur
    BY <1>1, CommitDone
<1>4. /\ jsb' = [start |-> 0, seq |-> seq + 1] /\ jsb' \in JsbT /\ disk' = disk /\ log' = log
      /\ Recovered' = disk /\ LogOK'
    BY <1>1, <1>3, EmptyFacts DEF JnlInv
<1>5. /\ ~ro /\ (op = NoOp \/ op.kind = "write")
      /\ Consistent(Cur) /\ seen = Tree(Cur)
    BY <1>1, Committing
<1>6. IsTx(tx)'
    BY <1>1, EmptyTx
<1>7. JnlTypeOK'
    BY <1>1, <1>2, <1>3, <1>4, <1>6 DEF JnlInv, JnlTypeOK, Phases, JsbT
<1>8. Cur' = Cur
    BY <1>1, <1>3, <1>4, TypesOf, OverlayEmpty DEF Cur, JnlInv
<1>9. Tree(Cur)' = Tree(Cur)
    BY <1>8 DEF Tree
<1>10. JsbAt' /\ LogAt' /\ CkptAt' /\ ReplayAt' /\ OpAt' /\ OpOK'
    BY <1>1, <1>4, <1>5 DEF JsbAt, LogAt, CkptAt, ReplayAt, OpAt, OpOK
<1>11. Settled' /\ DurableConsistent'
    BY <1>1, <1>3, <1>4, <1>5, <1>8, <1>9 DEF Settled, DurableConsistent
<1> QED
    BY <1>4, <1>7, <1>10, <1>11 DEF JnlInv

(* What a write of the commit that fails may have done.                    *)
LEMMA CommitFailsFacts ==
    ASSUME JnlInv, CommitFails
    PROVE  /\ IsMeta(disk') /\ data' = data /\ jsb' \in JsbT /\ IsLog(log')
           /\ LogOK' /\ (Recovered' = Recovered \/ Recovered' = Cur)
<1>0. IsMeta(disk) /\ jsb \in JsbT /\ IsLog(log) /\ LogOK
    BY TypesOf DEF JnlInv
<1>1. CASE UNCHANGED persistent
  <2>1. disk' = disk /\ data' = data /\ jsb' = jsb /\ log' = log
      BY <1>1 DEF persistent
  <2>2. LogOK' /\ Recovered' = Recovered
      BY <1>0, <1>1, SameDisk
  <2> QED
      BY <1>0, <2>1, <2>2
<1>2. CASE phase = "sb1" /\ StartLog
  <2>1. disk' = disk /\ data' = data /\ log' = log
      BY <1>2 DEF StartLog
  <2> QED
      BY <1>0, <1>2, <2>1, StartFacts
<1>3. CASE phase = "log" /\ LogBlock
  <2>1. data' = data
      BY <1>3 DEF LogBlock
  <2> QED
      BY <1>0, <1>3, <2>1, LogFacts
<1>4. CASE phase = "ckpt" /\ CkptBlock
  <2>1. data' = data
      BY <1>4 DEF CkptBlock
  <2> QED
      BY <1>0, <1>4, <2>1, CkptFacts
<1>5. CASE phase = "sb0" /\ EmptyLog(seq + 1)
  <2>1. data' = data
      BY <1>5 DEF EmptyLog
  <2>2. /\ NoCommit(log, seq + 1) /\ seq + 1 \in Nat /\ disk = Cur /\ Recovered = Cur
      BY <1>5, CommitDone
  <2>3. jsb' \in JsbT /\ disk' = disk /\ log' = log /\ Recovered' = disk /\ LogOK'
      BY <1>5, <2>2, EmptyFacts DEF JnlInv
  <2> QED
      BY <1>0, <2>1, <2>2, <2>3
<1> QED
    BY <1>1, <1>2, <1>3, <1>4, <1>5 DEF CommitFails

LEMMA CommitFailsInv ==
    ASSUME JnlInv, CommitFails
    PROVE  JnlInv'
<1>1. /\ phase \in {"sb1", "log", "ckpt", "sb0"} /\ Fault /\ ro' = TRUE
      /\ seq' = (IF phase = "sb0" THEN seq + 1 ELSE seq) /\ tx' = <<>> /\ freed' = {}
      /\ phase' = "idle" /\ k' = 0 /\ op' = NoOp /\ seen' = seen
    BY DEF CommitFails
<1>2. /\ IsMeta(disk') /\ data' = data /\ jsb' \in JsbT /\ IsLog(log')
      /\ LogOK' /\ (Recovered' = Recovered \/ Recovered' = Cur)
    BY CommitFailsFacts
<1>3. JnlTypeOK'
  <2>1. spent' \in [ops : 0..MaxCalls, crashes : 0..MaxCuts, faults : 0..MaxFaults]
      BY <1>1, FaultType DEF JnlInv
  <2>2. op' \in Atomic!Ops /\ IsTx(tx)' /\ seq' \in Nat /\ IsMeta(disk)'
      BY <1>1, <1>2, OpsAre, EmptyTx, TypesOf DEF JnlInv
  <2> QED
      BY <1>1, <1>2, <2>1, <2>2 DEF JnlInv, JnlTypeOK, Phases, JsbT, IsLog
<1>4. DurableConsistent'
    BY <1>1, <1>2, Committing DEF JnlInv, DurableConsistent
<1> QED
    BY <1>1, <1>2, <1>3, <1>4, AbortedInv

LEMMA PowerCutInv ==
    ASSUME JnlInv, PowerCut
    PROVE  JnlInv'
<1>1. /\ spent.crashes < MaxCuts /\ spent' = [spent EXCEPT !.crashes = @ + 1]
      /\ phase' = "down" /\ k' = 0 /\ tx' = <<>> /\ freed' = {} /\ ro' = FALSE
      /\ op' = NoOp /\ todo' = <<>> /\ seq' = seq /\ seen' = seen
      /\ UNCHANGED persistent
    BY DEF PowerCut
<1>2. disk' = disk /\ data' = data /\ jsb' = jsb /\ log' = log
    BY <1>1 DEF persistent
<1>3. JnlTypeOK'
  <2>1. spent' \in [ops : 0..MaxCalls, crashes : 0..MaxCuts, faults : 0..MaxFaults]
      BY <1>1, JournalAssumption DEF JnlInv, JnlTypeOK
  <2>2. op' \in Atomic!Ops /\ IsTx(tx)'
      BY <1>1, OpsAre, EmptyTx
  <2> QED
      BY <1>1, <1>2, <2>1, <2>2 DEF JnlInv, JnlTypeOK, Phases
<1>4. LogOK' /\ Recovered' = Recovered
    BY <1>1, SameDisk DEF JnlInv
<1>5. JsbAt' /\ LogAt' /\ CkptAt' /\ ReplayAt' /\ OpAt' /\ Settled' /\ OpOK'
    BY <1>1 DEF JsbAt, LogAt, CkptAt, ReplayAt, OpAt, Settled, OpOK
<1>6. DurableConsistent'
    BY <1>4 DEF JnlInv, DurableConsistent
<1> QED
    BY <1>3, <1>4, <1>5, <1>6 DEF JnlInv

LEMMA MountInv ==
    ASSUME JnlInv, Mount
    PROVE  JnlInv'
<1>1. /\ phase = "down"
      /\ seq' = (IF jsb.start = 0 THEN jsb.seq ELSE ScanEnd(log, jsb.seq))
      /\ todo' = RecoverWrites
      /\ phase' = (IF jsb.start = 0 THEN "mounted" ELSE "replay")
      /\ tx' = tx /\ freed' = freed /\ ro' = ro /\ k' = k /\ op' = op /\ seen' = seen
      /\ spent' = spent /\ UNCHANGED persistent
    BY DEF Mount
<1>2. disk' = disk /\ data' = data /\ jsb' = jsb /\ log' = log
    BY <1>1 DEF persistent
<1>3. /\ IsTx(RecoverWrites) /\ ScanEnd(log, jsb.seq) \in Nat
      /\ jsb \in JsbT /\ jsb.seq \in Nat
    BY ReplayTx, TypesOf DEF JnlInv
<1>4. JnlTypeOK'
    BY <1>1, <1>2, <1>3 DEF JnlInv, JnlTypeOK, Phases
<1>5. LogOK' /\ Recovered' = Recovered /\ RecoverWrites' = RecoverWrites
    BY <1>1, SameDisk DEF JnlInv
<1>6. tx = <<>> /\ freed = {} /\ ~ro /\ op = NoOp
    BY <1>1 DEF JnlInv, JsbAt, OpAt
<1>7. jsb.start = 0 \/ jsb.start = 1
    BY <1>3 DEF JsbT
<1>8. JsbAt'
  <2>1. jsb.start = 0 => jsb = [start |-> 0, seq |-> jsb.seq]
      BY <1>3 DEF JsbT
  <2> QED
      BY <2>1, <1>1, <1>2, <1>6 DEF JsbAt
<1>9. ReplayAt'
  <2>1. ASSUME jsb.start = 0 PROVE ReplayAt'
      BY <2>1, <1>1 DEF ReplayAt
  <2>2. ASSUME jsb.start = 1 PROVE ReplayAt'
    <3>1. seq' = ScanEnd(log', jsb'.seq) /\ jsb'.start = 1
        BY <2>2, <1>1, <1>2
    <3>2. todo' = RecoverWrites' /\ IsTx(RecoverWrites)' /\ IsTx(todo)'
        BY <1>1, <1>3, <1>5
    <3>3. Overlay(disk', todo') = Recovered'
        BY <3>2 DEF Recovered
    <3> QED
        BY <3>1, <3>2, <3>3 DEF ReplayAt
  <2> QED
      BY <2>1, <2>2, <1>7
<1>10. LogAt' /\ CkptAt' /\ OpAt' /\ Settled' /\ OpOK'
    BY <1>1, <1>6 DEF LogAt, CkptAt, OpAt, Settled, OpOK
<1>11. DurableConsistent'
    BY <1>5 DEF JnlInv, DurableConsistent
<1> QED
    BY <1>4, <1>5, <1>8, <1>9, <1>10, <1>11 DEF JnlInv

(* A block of the replay, when no write of it fails.                       *)
LEMMA ReplayFacts ==
    ASSUME JnlInv, Replay, ReplayWrites \subseteq {TRUE}
    PROVE  /\ IsMeta(disk') /\ IsTx(todo') /\ todo' = Tail(todo)
           /\ RecoverWrites' = RecoverWrites /\ Recovered' = Recovered /\ LogOK'
           /\ Overlay(disk', todo') = Recovered
           /\ \A i \in 1..Len(todo') : \E j \in 1..Len(RecoverWrites) : todo'[i] = RecoverWrites[j]
<1>1. /\ phase = "replay" /\ todo # <<>>
      /\ disk' = [disk EXCEPT ![Head(todo).blk] = Head(todo).val] /\ todo' = Tail(todo)
      /\ jsb' = jsb /\ log' = log
    BY DEF Replay
<1>2. PICK t : t = todo
    OBVIOUS
<1>3. PICK w : w = RecoverWrites
    OBVIOUS
<1>4. /\ IsTx(t) /\ IsTx(w) /\ t # <<>> /\ Overlay(disk, t) = Recovered
      /\ \A i \in 1..Len(t) : \E j \in 1..Len(w) : t[i] = w[j]
    BY <1>1, <1>2, <1>3 DEF JnlInv, ReplayAt
<1>5. IsMeta(disk) /\ LogOK
    BY TypesOf DEF JnlInv
<1>6. /\ IsTx(Tail(t)) /\ Head(t).blk \in Meta /\ Head(t).val \in BlockVals
      /\ Fits(Head(t).blk, Head(t).val)
      /\ Overlay([disk EXCEPT ![Head(t).blk] = Head(t).val], Tail(t)) = Overlay(disk, t)
    BY <1>4, <1>5, OverlayTail
<1>7. IsMeta(disk')
    BY <1>1, <1>2, <1>5, <1>6, PutType
<1>8. RecoverWrites' = RecoverWrites /\ LogOK'
    BY <1>1, <1>5 DEF RecoverWrites, LogOK
<1>9. t \in Seq(Writes) /\ Len(t) \in Nat /\ Len(t) > 0 /\ Head(t) = t[1]
    BY <1>4, TxFits
<1>10. PICK j \in 1..Len(w) : Head(t) = w[j]
    BY <1>4, <1>9
<1>11. Recovered' = Recovered
  <2>1. Overlay([disk EXCEPT ![w[j].blk] = Head(t).val], w) = Overlay(disk, w)
      BY <1>4, <1>5, OverlayWritten
  <2>2. Recovered' = Overlay([disk EXCEPT ![w[j].blk] = Head(t).val], w)
      BY <1>1, <1>2, <1>3, <1>8, <1>10 DEF Recovered
  <2> QED
      BY <2>1, <2>2, <1>3 DEF Recovered
<1>12. \A i \in 1..Len(Tail(t)) : i + 1 \in 1..Len(t) /\ Tail(t)[i] = t[i + 1]
    BY <1>9
<1> QED
    BY <1>1, <1>2, <1>3, <1>4, <1>6, <1>7, <1>8, <1>11, <1>12

LEMMA ReplayInv ==
    ASSUME JnlInv, Replay, ReplayWrites \subseteq {TRUE}
    PROVE  JnlInv'
<1>1. /\ phase = "replay" /\ phase' = phase /\ data' = data /\ jsb' = jsb /\ log' = log
      /\ k' = k /\ op' = op /\ seen' = seen /\ spent' = spent /\ UNCHANGED volatile
    BY DEF Replay
<1>2. tx' = tx /\ freed' = freed /\ seq' = seq /\ ro' = ro
    BY <1>1 DEF volatile
<1>3. /\ IsMeta(disk') /\ IsTx(todo')
      /\ RecoverWrites' = RecoverWrites /\ Recovered' = Recovered /\ LogOK'
      /\ Overlay(disk', todo') = Recovered
      /\ \A i \in 1..Len(todo') : \E j \in 1..Len(RecoverWrites) : todo'[i] = RecoverWrites[j]
    BY ReplayFacts
<1>4. JnlTypeOK'
  <2>1. IsMeta(disk)'
      BY <1>3
  <2> QED
      BY <1>1, <1>2, <2>1 DEF JnlInv, JnlTypeOK
<1>5. JsbAt' /\ LogAt' /\ CkptAt' /\ OpAt' /\ Settled' /\ OpOK'
    BY <1>1, <1>2 DEF JnlInv, JsbAt, LogAt, CkptAt, OpAt, Settled, OpOK
<1>6. ReplayAt'
  <2>1. jsb.start = 1 /\ seq = ScanEnd(log, jsb.seq) /\ IsTx(RecoverWrites)
      BY <1>1 DEF JnlInv, ReplayAt
  <2> QED
      BY <2>1, <1>1, <1>2, <1>3 DEF ReplayAt
<1>7. DurableConsistent'
    BY <1>3 DEF JnlInv, DurableConsistent
<1> QED
    BY <1>3, <1>4, <1>5, <1>6, <1>7 DEF JnlInv

LEMMA ReplayEndFacts ==
    ASSUME JnlInv, ReplayEnd
    PROVE  /\ jsb' = [start |-> 0, seq |-> seq] /\ jsb' \in JsbT /\ disk' = disk /\ log' = log
           /\ data' = data /\ Recovered' = disk /\ Recovered = disk /\ LogOK'
<1>1. phase = "replay" /\ todo = <<>> /\ EmptyLog(seq)
    BY DEF ReplayEnd
<1>2. seq = ScanEnd(log, jsb.seq) /\ Overlay(disk, todo) = Recovered
    BY <1>1 DEF JnlInv, ReplayAt
<1>3. NoCommit(log, seq) /\ seq \in Nat /\ IsMeta(disk)
    BY <1>2, ReplayTx, TypesOf DEF JnlInv
<1>4. Recovered = disk
    BY <1>1, <1>2, <1>3, OverlayEmpty
<1>5. data' = data
    BY <1>1 DEF EmptyLog
<1> QED
    BY <1>1, <1>3, <1>4, <1>5, EmptyFacts DEF JnlInv

LEMMA ReplayEndInv ==
    ASSUME JnlInv, ReplayEnd
    PROVE  JnlInv'
<1>1. /\ phase = "replay" /\ phase' = "mounted" /\ k' = k /\ op' = op /\ todo' = todo
      /\ seen' = seen /\ spent' = spent /\ UNCHANGED volatile
    BY DEF ReplayEnd
<1>2. tx' = tx /\ freed' = freed /\ seq' = seq /\ ro' = ro
    BY <1>1 DEF volatile
<1>3. /\ jsb' = [start |-> 0, seq |-> seq] /\ jsb' \in JsbT /\ disk' = disk /\ log' = log
      /\ data' = data /\ Recovered' = disk /\ Recovered = disk /\ LogOK'
    BY ReplayEndFacts
<1>4. JnlTypeOK'
    BY <1>1, <1>2, <1>3 DEF JnlInv, JnlTypeOK, Phases, JsbT
<1>5. JsbAt' /\ LogAt' /\ CkptAt' /\ ReplayAt' /\ OpAt' /\ Settled' /\ OpOK'
    BY <1>1, <1>2, <1>3 DEF JnlInv, JsbAt, LogAt, CkptAt, ReplayAt, OpAt, Settled, OpOK
<1>6. DurableConsistent'
    BY <1>3 DEF JnlInv, DurableConsistent
<1> QED
    BY <1>3, <1>4, <1>5, <1>6 DEF JnlInv

(* The mount has left nothing to replay.                                   *)
LEMMA MountedIs ==
    ASSUME JnlInv, phase = "mounted"
    PROVE  /\ Recovered = disk /\ Cur = disk /\ freed = {} /\ ~ro /\ op = NoOp
           /\ jsb = [start |-> 0, seq |-> seq]
<1>1. tx = <<>> /\ freed = {} /\ ~ro /\ op = NoOp /\ jsb = [start |-> 0, seq |-> seq]
    BY DEF JnlInv, JsbAt, OpAt
<1>2. Recovered = disk
    BY <1>1, DiskIsIt DEF JnlInv
<1>3. Cur = disk
    BY <1>1, TypesOf, OverlayEmpty DEF JnlInv, Cur
<1> QED
    BY <1>1, <1>2, <1>3

LEMMA MountedInv ==
    ASSUME JnlInv, Mounted
    PROVE  JnlInv'
<1>1. /\ phase = "mounted" /\ phase' = "idle" /\ seen' = Tree(disk) /\ k' = k /\ op' = op
      /\ todo' = todo /\ spent' = spent /\ UNCHANGED persistent /\ UNCHANGED volatile
    BY DEF Mounted
<1>2. /\ disk' = disk /\ data' = data /\ jsb' = jsb /\ log' = log
      /\ tx' = tx /\ freed' = freed /\ seq' = seq /\ ro' = ro
    BY <1>1 DEF persistent, volatile
<1>3. /\ Recovered = disk /\ Cur = disk /\ freed = {} /\ ~ro /\ op = NoOp
      /\ jsb = [start |-> 0, seq |-> seq]
    BY <1>1, MountedIs
<1>4. LogOK' /\ Recovered' = Recovered /\ Cur' = Cur
    BY <1>1, <1>2, SameDisk DEF JnlInv, Cur
<1>5. JnlTypeOK'
  <2>1. seen' \in [Files -> DataBlocks \cup {None}]
      BY <1>1, TypesOf, TreeType DEF JnlInv
  <2> QED
      BY <1>1, <1>2, <2>1 DEF JnlInv, JnlTypeOK, Phases
<1>6. JsbAt' /\ LogAt' /\ CkptAt' /\ ReplayAt' /\ OpAt' /\ OpOK'
    BY <1>1, <1>2, <1>3 DEF JsbAt, LogAt, CkptAt, ReplayAt, OpAt, OpOK
<1>7. Tree(Cur)' = Tree(disk)
    BY <1>3, <1>4 DEF Tree
<1>8. Settled' /\ DurableConsistent'
    BY <1>1, <1>2, <1>3, <1>4, <1>7 DEF JnlInv, Settled, DurableConsistent
<1> QED
    BY <1>4, <1>5, <1>6, <1>8 DEF JnlInv

LEMMA StutterInv ==
    ASSUME JnlInv, UNCHANGED jnlVars
    PROVE  JnlInv'
<1>1. /\ disk' = disk /\ data' = data /\ jsb' = jsb /\ log' = log /\ tx' = tx /\ freed' = freed
      /\ seq' = seq /\ ro' = ro /\ phase' = phase /\ k' = k /\ op' = op /\ todo' = todo
      /\ seen' = seen /\ spent' = spent
    BY DEF jnlVars
<1>2. JnlTypeOK'
    BY <1>1 DEF JnlInv, JnlTypeOK
<1>3. LogOK' /\ RecoverWrites' = RecoverWrites /\ Recovered' = Recovered /\ Cur' = Cur
    BY <1>1 DEF JnlInv, LogOK, RecoverWrites, Recovered, Cur
<1>4. JsbAt' /\ LogAt' /\ CkptAt' /\ ReplayAt' /\ OpAt'
    BY <1>1, <1>3 DEF JnlInv, JsbAt, LogAt, CkptAt, ReplayAt, OpAt
<1>5. Settled' /\ DurableConsistent'
    BY <1>1, <1>3 DEF JnlInv, Settled, DurableConsistent, Tree
<1>6. OpOK'
  <2>1. SUFFICES ASSUME phase = "op" PROVE OpOK'
      BY <1>1 DEF OpOK
  <2>2. PICK M : IsMeta(M) /\ Consistent(M) /\ Leads(M) /\ Effect(M) /\ Covered(M)
      BY <2>1 DEF JnlInv, OpOK
  <2>3. Pending' = Pending
      BY <1>1 DEF Pending
  <2>4. Freeing' = Freeing
      BY <2>3 DEF Freeing
  <2>5. Leads(M)'
      BY <2>2, <2>3, <1>1, <1>3 DEF Leads, StepOK
  <2>6. Atomic!Target(op.f)' = Atomic!Target(op.f)
      BY <1>1, <1>3, SameTarget
  <2>7. Effect(M)'
      BY <2>2, <2>3, <2>6, <1>1 DEF Effect
  <2>8. Covered(M)'
      BY <2>2, <2>4, <1>1, <1>3 DEF Covered
  <2> QED
      BY <2>2, <2>5, <2>7, <2>8 DEF OpOK
<1> QED
    BY <1>2, <1>3, <1>4, <1>5, <1>6 DEF JnlInv


LEMMA InvNext ==
    ASSUME ReplayWrites \subseteq {TRUE}, JnlInv, [JnlNext]_jnlVars
    PROVE  JnlInv'
<1>1. ASSUME NEW f \in Files, NEW v \in Vers, BeginWrite(f, v) PROVE JnlInv'
    BY <1>1, BeginsInv
<1>2. ASSUME NEW f \in Files, NEW v \in Vers, BeginReclaim(f, v) PROVE JnlInv'
    BY <1>2, ReclaimInv
<1>3. ASSUME NEW f \in Files, BeginTruncate(f) PROVE JnlInv'
  <2>1. PICK v \in Vers : TRUE
      BY JournalAssumption
  <2> QED
      BY <2>1, <1>3, BeginsInv
<1>4. ASSUME NEW f \in Files, NEW g \in Files, BeginRename(f, g) PROVE JnlInv'
  <2>1. PICK v \in Vers : TRUE
      BY JournalAssumption
  <2> QED
      BY <2>1, <1>4, BeginsInv
<1>5. CASE Retry
    BY <1>5, RetryInv
<1>6. CASE StepPut
    BY <1>6, StepPutInv
<1>7. CASE StepData
    BY <1>7, StepDataInv
<1>8. CASE StepFails
    BY <1>8, StepFailsInv
<1>9. CASE EndOp
    BY <1>9, EndOpInv
<1>10. CASE SyncAll
    BY <1>10, SyncAllInv
<1>11. CASE LogStart
    BY <1>11, LogStartInv
<1>12. CASE LogWrite
    BY <1>12, LogWriteInv
<1>13. CASE Checkpoint
    BY <1>13, CheckpointInv
<1>14. CASE CommitEnd
    BY <1>14, CommitEndInv
<1>15. CASE CommitFails
    BY <1>15, CommitFailsInv
<1>16. CASE PowerCut
    BY <1>16, PowerCutInv
<1>17. CASE Mount
    BY <1>17, MountInv
<1>18. CASE Replay
    BY <1>18, ReplayInv
<1>19. CASE ReplayEnd
    BY <1>19, ReplayEndInv
<1>20. CASE Mounted
    BY <1>20, MountedInv
<1>21. CASE UNCHANGED jnlVars
    BY <1>21, StutterInv
<1> QED
    BY <1>1, <1>2, <1>3, <1>4, <1>5, <1>6, <1>7, <1>8, <1>9, <1>10, <1>11, <1>12, <1>13,
       <1>14, <1>15, <1>16, <1>17, <1>18, <1>19, <1>20, <1>21 DEF JnlNext

(* The inductive invariant, as long as no block write of a replay fails.   *)
THEOREM JnlInvariant ==
    ASSUME ReplayWrites \subseteq {TRUE}
    PROVE  JnlSpec => []JnlInv
<1>1. JnlInit => JnlInv
    BY InvInit
<1>2. JnlInv /\ [JnlNext]_jnlVars => JnlInv'
    BY InvNext
<1> QED
    BY <1>1, <1>2, PTL DEF JnlSpec

(* Every variable of the journal keeps its type; in particular the running *)
(* transaction of ext2_jt_put names a block once, so that (TxFits) it fits *)
(* into the log.                                                           *)
THEOREM JnlTypeCorrect ==
    ASSUME ReplayWrites \subseteq {TRUE}
    PROVE  JnlSpec => []JnlTypeOK
<1>1. JnlInv => JnlTypeOK
    BY DEF JnlInv
<1> QED
    BY <1>1, JnlInvariant, PTL

(* Whenever the power fails, in an operation, at any block write of        *)
(* ext2_jnl_commit, in ext2_jnl_recover or after a failed write, the next  *)
(* mount finds a bitmap and inodes that agree, for every number of files,  *)
(* blocks, tags in a descriptor, crashes and faults.                       *)
THEOREM DurablyConsistent ==
    ASSUME ReplayWrites \subseteq {TRUE}
    PROVE  JnlSpec => []DurableConsistent
<1>1. JnlInv => DurableConsistent
    BY DEF JnlInv
<1> QED
    BY <1>1, JnlInvariant, PTL

-----------------------------------------------------------------------------
(* The journal implements AtomicFs.                                        *)
LEMMA StIs ==
    /\ phase \notin {"down", "replay", "mounted"} => St = IF ro THEN "ro" ELSE "up"
    /\ phase \in {"down", "replay", "mounted"} => St = "down"
    /\ phase' \notin {"down", "replay", "mounted"} => St' = IF ro' THEN "ro" ELSE "up"
    /\ phase' \in {"down", "replay", "mounted"} => St' = "down"
    BY DEF St

LEMMA Stutters ==
    ASSUME seen' = seen, Recovered' = Recovered, data' = data, op' = op, St' = St
    PROVE  UNCHANGED Atomic!vars
<1>1. Tree(Recovered)' = Tree(Recovered)
    BY DEF Tree
<1> QED
    BY <1>1 DEF Atomic!vars

LEMMA RefInit ==
    ASSUME JnlInit
    PROVE  Atomic!Init
<1>1. JnlInv
    BY InvInit
<1>2. /\ phase = "idle" /\ ro = FALSE /\ op = NoOp /\ seen = Tree(disk) /\ jsb.start = 0
    BY DEF JnlInit
<1>3. data \in [DataBlocks -> Vers] /\ seen \in [Files -> DataBlocks \cup {None}] /\ JnlTypeOK
    BY <1>1 DEF JnlInv, JnlTypeOK
<1>4. Recovered = disk
    BY <1>2, <1>3, DiskIsIt
<1>5. St = "up"
    BY <1>2, StIs
<1> QED
    BY <1>2, <1>3, <1>4, <1>5 DEF Atomic!Init, Atomic!Trees, Atomic!NoOp, NoOp

LEMMA RefStart ==
    ASSUME JnlInv, phase = "idle", ~ro, ~ro', phase' \in {"op", "sb1"},
           op' \in Atomic!Ops \ {NoOp}, UNCHANGED persistent, seen' = seen
    PROVE  Atomic!Start
<1>1. op = NoOp
    BY DEF JnlInv, OpAt
<1>2. Recovered' = Recovered /\ data' = data
    BY SameDisk DEF persistent
<1>3. Tree(Recovered)' = Tree(Recovered)
    BY <1>2 DEF Tree
<1>4. St = "up" /\ St' = "up"
    BY StIs
<1> QED
    BY <1>1, <1>2, <1>3, <1>4 DEF Atomic!Start, Atomic!NoOp, NoOp

LEMMA RefBegins ==
    ASSUME JnlInv, NEW f \in Files, NEW g \in Files, NEW v \in Vers,
           BeginWrite(f, v) \/ BeginReclaim(f, v) \/ BeginTruncate(f) \/ BeginRename(f, g)
    PROVE  Atomic!Start
<1>1. CASE BeginWrite(f, v)
  <2>1. /\ phase = "idle" /\ ~ro /\ phase' = "op" /\ seen' = seen
        /\ op' = [kind |-> "write", f |-> f, v |-> v]
        /\ UNCHANGED persistent /\ UNCHANGED volatile
      BY <1>1 DEF BeginWrite, Begin
  <2>2. ~ro'
      BY <2>1 DEF volatile
  <2> QED
      BY <2>1, <2>2, OpsAre, RefStart
<1>2. CASE BeginReclaim(f, v)
  <2>1. /\ phase = "idle" /\ ~ro /\ phase' = "sb1" /\ seen' = seen
        /\ op' = [kind |-> "write", f |-> f, v |-> v]
        /\ UNCHANGED persistent /\ UNCHANGED volatile
      BY <1>2 DEF BeginReclaim
  <2>2. ~ro'
      BY <2>1 DEF volatile
  <2> QED
      BY <2>1, <2>2, OpsAre, RefStart
<1>3. CASE BeginTruncate(f)
  <2>1. /\ phase = "idle" /\ ~ro /\ phase' = "op" /\ seen' = seen
        /\ op' = [kind |-> "truncate", f |-> f]
        /\ UNCHANGED persistent /\ UNCHANGED volatile
      BY <1>3 DEF BeginTruncate, Begin
  <2>2. ~ro'
      BY <2>1 DEF volatile
  <2> QED
      BY <2>1, <2>2, OpsAre, RefStart
<1>4. CASE BeginRename(f, g)
  <2>1. /\ phase = "idle" /\ ~ro /\ phase' = "op" /\ seen' = seen
        /\ op' = [kind |-> "rename", f |-> f, g |-> g]
        /\ UNCHANGED persistent /\ UNCHANGED volatile
      BY <1>4 DEF BeginRename, Begin
  <2>2. ~ro'
      BY <2>1 DEF volatile
  <2> QED
      BY <2>1, <2>2, OpsAre, RefStart
<1> QED
    BY <1>1, <1>2, <1>3, <1>4

LEMMA RefStepData ==
    ASSUME JnlInv, StepData
    PROVE  Atomic!WriteData
<1>1. /\ phase = "op" /\ phase' = phase /\ op' = op /\ seen' = seen
      /\ data' = [data EXCEPT ![Head(todo).blk] = Head(todo).val]
      /\ disk' = disk /\ jsb' = jsb /\ log' = log /\ UNCHANGED volatile
    BY DEF StepData
<1>2. op.kind = "write" /\ Head(todo).blk \in Atomic!Target(op.f) /\ Head(todo).val = op.v
    BY StepDataIs
<1>3. ~ro /\ ro' = ro
    BY <1>1 DEF JnlInv, JsbAt, volatile
<1>4. St = "up" /\ St' = St
    BY <1>1, <1>3, StIs
<1>5. Recovered' = Recovered
    BY <1>1 DEF Recovered, RecoverWrites
<1>6. Tree(Recovered)' = Tree(Recovered)
    BY <1>5 DEF Tree
<1> QED
    BY <1>1, <1>2, <1>4, <1>6 DEF Atomic!WriteData

LEMMA RefStepFails ==
    ASSUME JnlInv, StepFails
    PROVE  Atomic!Abort
<1>1. /\ phase = "op" /\ phase' = "idle" /\ ro' = TRUE /\ op' = NoOp /\ seen' = seen
      /\ UNCHANGED persistent
    BY DEF StepFails
<1>2. ~ro
    BY <1>1 DEF JnlInv, JsbAt
<1>3. St = "up" /\ St' = "ro"
    BY <1>1, <1>2, StIs
<1>4. Recovered' = Recovered /\ data' = data
    BY <1>1, SameDisk DEF persistent
<1>5. Tree(Recovered)' = Tree(Recovered)
    BY <1>4 DEF Tree
<1> QED
    BY <1>1, <1>3, <1>4, <1>5 DEF Atomic!Abort, Atomic!NoOp, NoOp

LEMMA RefEndOp ==
    ASSUME JnlInv, EndOp
    PROVE  Atomic!Finish
<1>1. /\ phase = "op" /\ todo = <<>> /\ seen' = Tree(Cur) /\ op' = NoOp
      /\ phase' \in {"sb1", "idle"} /\ UNCHANGED persistent /\ UNCHANGED volatile
    BY DEF EndOp
<1>2. ~ro /\ ro' = ro /\ op # NoOp /\ op \in Atomic!Ops
    BY <1>1 DEF JnlInv, JsbAt, OpAt, JnlTypeOK, volatile
<1>3. St = "up" /\ St' = "up"
    BY <1>1, <1>2, StIs
<1>4. Recovered' = Recovered /\ data' = data
    BY <1>1, SameDisk DEF persistent
<1>5. Tree(Recovered)' = Tree(Recovered)
    BY <1>4 DEF Tree
<1>6. Effect(Cur) /\ Pending = {}
    BY <1>1, OpEnds
<1>7. op.kind \in {"write", "truncate", "rename"}
    BY <1>2, OpKinds
<1>8. seen' \in Atomic!Effects
  <2>1. CASE op.kind = "write"
    <3>1. /\ Cur[op.f] \in Atomic!Target(op.f) /\ data[Cur[op.f]] = op.v
          /\ Tree(Cur) = [seen EXCEPT ![op.f] = Cur[op.f]]
        BY <2>1, <1>6 DEF Effect
    <3>2. Atomic!Effects = {[seen EXCEPT ![op.f] = o] : o \in {x \in Atomic!Target(op.f) : data[x] = op.v}}
        BY <2>1 DEF Atomic!Effects
    <3> QED
        BY <3>1, <3>2, <1>1
  <2>2. CASE op.kind = "truncate"
    <3>1. Atomic!Effects = {[seen EXCEPT ![op.f] = None]}
        BY <2>2 DEF Atomic!Effects
    <3> QED
        BY <3>1, <2>2, <1>1, <1>6 DEF Effect
  <2>3. CASE op.kind = "rename"
    <3>1. Atomic!Effects = {[seen EXCEPT ![op.g] = seen[op.f], ![op.f] = None]}
        BY <2>3 DEF Atomic!Effects
    <3> QED
        BY <3>1, <2>3, <1>1, <1>6 DEF Effect
  <2> QED
      BY <2>1, <2>2, <2>3, <1>7
<1> QED
    BY <1>1, <1>2, <1>3, <1>4, <1>5, <1>8 DEF Atomic!Finish, Atomic!NoOp, NoOp

(* The commit block makes the tree durable.                                *)
LEMMA RefLogWrite ==
    ASSUME JnlInv, LogWrite
    PROVE  Atomic!Commit \/ UNCHANGED Atomic!vars
<1>1. /\ phase = "log" /\ LogBlock /\ phase' \in {"ckpt", "log"}
      /\ op' = op /\ seen' = seen /\ UNCHANGED volatile
    BY DEF LogWrite
<1>2. data' = data /\ ro' = ro /\ ~ro /\ seen = Tree(Cur)
    BY <1>1, Committing DEF LogBlock, volatile
<1>3. St = "up" /\ St' = "up"
    BY <1>1, <1>2, StIs
<1>4. Recovered' = Recovered \/ Recovered' = Cur
    BY <1>1, LogFacts
<1>5. CASE Recovered' = Recovered
    BY <1>1, <1>2, <1>3, <1>5, Stutters
<1>6. CASE Recovered' = Cur
  <2>1. Tree(Recovered)' = seen
      BY <1>2, <1>6 DEF Tree
  <2> QED
      BY <1>1, <1>2, <1>3, <2>1 DEF Atomic!Commit
<1> QED
    BY <1>4, <1>5, <1>6

LEMMA RefCommitFails ==
    ASSUME JnlInv, CommitFails
    PROVE  Atomic!Commit \/ Atomic!Abort
<1>1. /\ phase \in {"sb1", "log", "ckpt", "sb0"} /\ ro' = TRUE /\ phase' = "idle"
      /\ op' = NoOp /\ seen' = seen
    BY DEF CommitFails
<1>2. data' = data /\ (Recovered' = Recovered \/ Recovered' = Cur)
    BY CommitFailsFacts
<1>3. ~ro /\ seen = Tree(Cur)
    BY <1>1, Committing
<1>4. St = "up" /\ St' = "ro"
    BY <1>1, <1>3, StIs
<1>5. CASE Recovered' = Recovered
  <2>1. Tree(Recovered)' = Tree(Recovered)
      BY <1>5 DEF Tree
  <2> QED
      BY <1>1, <1>2, <1>4, <2>1 DEF Atomic!Abort, Atomic!NoOp, NoOp
<1>6. CASE Recovered' = Cur
  <2>1. Tree(Recovered)' = seen
      BY <1>3, <1>6 DEF Tree
  <2> QED
      BY <1>1, <1>2, <1>4, <2>1 DEF Atomic!Commit, Atomic!NoOp, NoOp
<1> QED
    BY <1>2, <1>5, <1>6

LEMMA RefPowerCut ==
    ASSUME JnlInv, PowerCut
    PROVE  Atomic!Crash
<1>1. phase' = "down" /\ op' = NoOp /\ seen' = seen /\ UNCHANGED persistent
    BY DEF PowerCut
<1>2. Recovered' = Recovered /\ data' = data
    BY <1>1, SameDisk DEF persistent
<1>3. Tree(Recovered)' = Tree(Recovered)
    BY <1>2 DEF Tree
<1>4. St' = "down"
    BY <1>1, StIs
<1> QED
    BY <1>1, <1>2, <1>3, <1>4 DEF Atomic!Crash, Atomic!NoOp, NoOp

LEMMA RefMounted ==
    ASSUME JnlInv, Mounted
    PROVE  Atomic!Mount
<1>1. /\ phase = "mounted" /\ phase' = "idle" /\ seen' = Tree(disk) /\ op' = op
      /\ UNCHANGED persistent /\ UNCHANGED volatile
    BY DEF Mounted
<1>2. Recovered' = Recovered /\ data' = data
    BY <1>1, SameDisk DEF persistent
<1>3. Recovered = disk /\ ~ro /\ ro' = ro
    BY <1>1, MountedIs DEF volatile
<1>4. Tree(Recovered)' = Tree(Recovered) /\ seen' = Tree(Recovered)
    BY <1>1, <1>2, <1>3 DEF Tree
<1>5. St = "down" /\ St' = "up"
    BY <1>1, <1>3, StIs
<1> QED
    BY <1>1, <1>2, <1>4, <1>5 DEF Atomic!Mount

(* The other block writes and steps change nothing a caller can tell.      *)
LEMMA RefStutters ==
    ASSUME ReplayWrites \subseteq {TRUE}, JnlInv,
           \/ Retry \/ StepPut \/ SyncAll \/ LogStart \/ Checkpoint \/ CommitEnd
           \/ Mount \/ Replay \/ ReplayEnd \/ UNCHANGED jnlVars
    PROVE  UNCHANGED Atomic!vars
<1>1. CASE Retry \/ StepPut \/ SyncAll
  <2>1. /\ phase \in {"retry", "op", "idle"} /\ phase' \in {"op", "sb1"} /\ ~ro /\ ro' = ro
        /\ op' = op /\ seen' = seen /\ UNCHANGED persistent
      BY <1>1 DEF Retry, StepPut, SyncAll, volatile, JnlInv, JsbAt
  <2>2. Recovered' = Recovered /\ data' = data
      BY <2>1, SameDisk DEF persistent
  <2>3. St' = St
      BY <2>1, StIs
  <2> QED
      BY <2>1, <2>2, <2>3, Stutters
<1>2. CASE LogStart
  <2>1. /\ phase = "sb1" /\ StartLog /\ phase' = "log" /\ op' = op /\ seen' = seen
        /\ data' = data /\ ro' = ro
      BY <1>2 DEF LogStart, StartLog, volatile
  <2>2. Recovered' = Recovered
      BY <2>1, StartFacts
  <2>3. St' = St
      BY <2>1, StIs
  <2> QED
      BY <2>1, <2>2, <2>3, Stutters
<1>3. CASE Checkpoint
  <2>1. /\ phase = "ckpt" /\ CkptBlock /\ phase' \in {"ckpt", "sb0"} /\ op' = op /\ seen' = seen
        /\ data' = data /\ ro' = ro
      BY <1>3 DEF Checkpoint, CkptBlock, volatile
  <2>2. Recovered' = Recovered
      BY <2>1, CkptFacts
  <2>3. St' = St
      BY <2>1, StIs
  <2> QED
      BY <2>1, <2>2, <2>3, Stutters
<1>4. CASE CommitEnd
  <2>1. /\ phase = "sb0" /\ EmptyLog(seq + 1) /\ phase' \in {"idle", "retry"} /\ op' = op
        /\ seen' = seen /\ data' = data /\ ro' = ro
      BY <1>4 DEF CommitEnd, EmptyLog
  <2>2. NoCommit(log, seq + 1) /\ seq + 1 \in Nat /\ disk = Cur /\ Recovered = Cur
      BY <2>1, CommitDone
  <2>3. Recovered' = Recovered
      BY <2>1, <2>2, EmptyFacts DEF JnlInv
  <2>4. St' = St
      BY <2>1, StIs
  <2> QED
      BY <2>1, <2>3, <2>4, Stutters
<1>5. CASE Mount
  <2>1. /\ phase = "down" /\ phase' \in {"mounted", "replay"} /\ op' = op /\ seen' = seen
        /\ UNCHANGED persistent
      BY <1>5 DEF Mount
  <2>2. Recovered' = Recovered /\ data' = data
      BY <2>1, SameDisk DEF persistent
  <2>3. St' = St
      BY <2>1, StIs
  <2> QED
      BY <2>1, <2>2, <2>3, Stutters
<1>6. CASE Replay
  <2>1. phase = "replay" /\ phase' = phase /\ op' = op /\ seen' = seen /\ data' = data
      BY <1>6 DEF Replay
  <2>2. Recovered' = Recovered
      BY <1>6, ReplayFacts
  <2>3. St' = St
      BY <2>1, StIs
  <2> QED
      BY <2>1, <2>2, <2>3, Stutters
<1>7. CASE ReplayEnd
  <2>1. phase = "replay" /\ phase' = "mounted" /\ op' = op /\ seen' = seen
      BY <1>7 DEF ReplayEnd
  <2>2. Recovered' = Recovered /\ data' = data
      BY <1>7, ReplayEndFacts
  <2>3. St' = St
      BY <2>1, StIs
  <2> QED
      BY <2>1, <2>2, <2>3, Stutters
<1>8. CASE UNCHANGED jnlVars
  <2>1. /\ disk' = disk /\ data' = data /\ jsb' = jsb /\ log' = log
        /\ op' = op /\ seen' = seen /\ phase' = phase /\ ro' = ro
      BY <1>8 DEF jnlVars
  <2>2. Recovered' = Recovered
      BY <2>1 DEF Recovered, RecoverWrites
  <2>3. St' = St
      BY <2>1 DEF St
  <2> QED
      BY <2>1, <2>2, <2>3, Stutters
<1> QED
    BY <1>1, <1>2, <1>3, <1>4, <1>5, <1>6, <1>7, <1>8

LEMMA RefNext ==
    ASSUME ReplayWrites \subseteq {TRUE}, JnlInv, [JnlNext]_jnlVars
    PROVE  [Atomic!Next]_(Atomic!vars)
<1>1. ASSUME NEW f \in Files, NEW v \in Vers, BeginWrite(f, v) \/ BeginReclaim(f, v)
      PROVE  Atomic!Start
    BY <1>1, RefBegins
<1>2. ASSUME NEW f \in Files, NEW g \in Files, BeginTruncate(f) \/ BeginRename(f, g)
      PROVE  Atomic!Start
  <2>1. PICK v \in Vers : TRUE
      BY JournalAssumption
  <2> QED
      BY <2>1, <1>2, RefBegins
<1>3. StepData => Atomic!WriteData
    BY RefStepData
<1>4. StepFails => Atomic!Abort
    BY RefStepFails
<1>5. EndOp => Atomic!Finish
    BY RefEndOp
<1>6. LogWrite => Atomic!Commit \/ UNCHANGED Atomic!vars
    BY RefLogWrite
<1>7. CommitFails => Atomic!Commit \/ Atomic!Abort
    BY RefCommitFails
<1>8. PowerCut => Atomic!Crash
    BY RefPowerCut
<1>9. Mounted => Atomic!Mount
    BY RefMounted
<1>10. \/ Retry \/ StepPut \/ SyncAll \/ LogStart \/ Checkpoint \/ CommitEnd
       \/ Mount \/ Replay \/ ReplayEnd \/ UNCHANGED jnlVars
       => UNCHANGED Atomic!vars
    BY RefStutters
<1> QED
    BY <1>1, <1>2, <1>3, <1>4, <1>5, <1>6, <1>7, <1>8, <1>9, <1>10 DEF JnlNext, Atomic!Next

(* The journal of fs/ext2.c implements AtomicFs: an operation under        *)
(* ext2_op_end is atomic, a commit makes durable exactly the tree of the   *)
(* last finished operation, and what is durable is neither overwritten nor *)
(* lost, whatever crashes and failed writes there are but in the replay.   *)
THEOREM JournalImplementsAtomicFs ==
    ASSUME ReplayWrites \subseteq {TRUE}
    PROVE  JnlSpec => ImplementsAtomicFs
<1>1. JnlInit => Atomic!Init
    BY RefInit
<1>2. JnlInv /\ [JnlNext]_jnlVars => [Atomic!Next]_(Atomic!vars)
    BY RefNext
<1> QED
    BY <1>1, <1>2, JnlInvariant, PTL DEF JnlSpec, ImplementsAtomicFs, Atomic!Spec
=============================================================================
