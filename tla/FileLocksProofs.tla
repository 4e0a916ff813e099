-------------------------- MODULE FileLocksProofs ---------------------------
(***************************************************************************)
(* What the lock list of a file promises, for any number of processes,     *)
(* threads, descriptors, uids, offsets and limits.                         *)
(*                                                                         *)
(* unlock_range is followed as an operation on a set of locks: what it     *)
(* leaves are parts of locks that were there, so no conflict appears, and  *)
(* since an owner's locks do not overlap, its pieces can be counted.       *)
(***************************************************************************)
EXTENDS FileLocks, FiniteSetTheorems, TLAPS

Lock == [kind : Kinds, owner : Nat \ {0}, type : {"r", "w"},
         s : 0..OFF_MAX, e : 0..OFF_MAX, uid : Uids]

(* A finite list of locks that cover bytes.                                *)
LockList(S) == S \subseteq Lock /\ IsFiniteSet(S) /\ \A l \in S : l.s <= l.e

Compatible(S) == \A l, m \in S : ~conflicts(l, m)

(* The locks of an owner do not overlap.                                   *)
Apart(S) ==
    \A l, m \in S : l # m /\ l.kind = m.kind /\ l.owner = m.owner => ~Overlap(l, m.s, m.e)

(* m is a part of l, with its owner, type and uid.                         *)
Part(m, l) ==
    /\ m.kind = l.kind /\ m.owner = l.owner /\ m.type = l.type /\ m.uid = l.uid
    /\ l.s <= m.s /\ m.e <= l.e

(* The pieces of the locks in hit around [s, e], and a list after their    *)
(* replacement.                                                            *)
Pieces(hit, s, e) == UNION {Left(l, s, e) : l \in hit}
Replaced(S, hit, s, e, new) == (S \ hit) \cup Pieces(hit, s, e) \cup new

(* The locks of uid u.                                                     *)
OfUid(S, u) == {l \in S : l.uid = u}

-----------------------------------------------------------------------------
(* Ranges and pieces.                                                      *)

(* The bytes a call names are bytes of the file.                           *)
LEMMA LockRangeBytes ==
    ASSUME NEW base \in Bases, NEW start \in Starts, NEW len \in Lens,
           NEW g \in LockRange(base, start, len)
    PROVE  g[1] \in 0..OFF_MAX /\ g[2] \in 0..OFF_MAX /\ g[1] <= g[2]
BY FileLocksAssumption DEF LockRange

(* What is left of a lock is a part of it outside [s, e].                  *)
LEMMA LeftParts ==
    ASSUME NEW l \in Lock, l.s <= l.e, NEW s \in 0..OFF_MAX, NEW e \in 0..OFF_MAX, s <= e,
           Overlap(l, s, e), NEW m \in Left(l, s, e)
    PROVE  /\ m \in Lock /\ m.s <= m.e /\ Part(m, l)
           /\ \/ m = [l EXCEPT !.e = s - 1] /\ l.s < s /\ m.s = l.s /\ m.e = s - 1
              \/ m = [l EXCEPT !.s = e + 1] /\ l.e > e /\ m.s = e + 1 /\ m.e = l.e
<1>1. CASE l.s < s /\ m = [l EXCEPT !.e = s - 1]
  <2>1. s - 1 \in 0..OFF_MAX /\ l.s <= s - 1 /\ s - 1 <= l.e
    BY <1>1, FileLocksAssumption DEF Lock, Overlap
  <2> QED
    BY <1>1, <2>1, FileLocksAssumption DEF Lock, Part
<1>2. CASE l.e > e /\ m = [l EXCEPT !.s = e + 1]
  <2>1. e + 1 \in 0..OFF_MAX /\ e + 1 <= l.e /\ l.s <= e + 1
    BY <1>2, FileLocksAssumption DEF Lock, Overlap
  <2> QED
    BY <1>2, <2>1, FileLocksAssumption DEF Lock, Part
<1> QED
    BY <1>1, <1>2 DEF Left

LEMMA WholeFileLeft ==
    ASSUME NEW l \in Lock
    PROVE  Left(l, 0, OFF_MAX) = {}
BY FileLocksAssumption DEF Lock, Left

(* Parts conflict only where the whole locks do.                           *)
LEMMA PartConflicts ==
    ASSUME NEW l \in Lock, NEW k \in Lock, NEW m \in Lock, NEW n \in Lock,
           Part(m, l), Part(n, k), conflicts(m, n)
    PROVE  conflicts(l, k) /\ conflicts(k, l)
BY FileLocksAssumption DEF conflicts, Overlap, Part, Lock

LEMMA PartSelf ==
    ASSUME NEW l \in Lock
    PROVE  Part(l, l)
BY FileLocksAssumption DEF Part, Lock

(* Each lock of the list after a replacement is new or a part of a lock    *)
(* that was there.                                                         *)
LEMMA ReplacedParts ==
    ASSUME NEW S, LockList(S), NEW s \in 0..OFF_MAX, NEW e \in 0..OFF_MAX, s <= e,
           NEW hit \in SUBSET S, \A l \in hit : Overlap(l, s, e),
           NEW m \in (S \ hit) \cup Pieces(hit, s, e)
    PROVE  /\ m \in Lock /\ m.s <= m.e
           /\ \E l \in S : Part(m, l) /\ (l = m \/ m \in Left(l, s, e))
<1>1. CASE m \in S \ hit
    BY <1>1, PartSelf DEF LockList
<1>2. CASE m \in Pieces(hit, s, e)
  <2>1. PICK l \in hit : m \in Left(l, s, e)
    BY <1>2 DEF Pieces
  <2>2. l \in Lock /\ l.s <= l.e
    BY DEF LockList
  <2> QED
    BY <2>1, <2>2, LeftParts
<1> QED
    BY <1>1, <1>2

LEMMA ReplacedCompatible ==
    ASSUME NEW S, LockList(S), Compatible(S), NEW s \in 0..OFF_MAX, NEW e \in 0..OFF_MAX, s <= e,
           NEW hit \in SUBSET S, \A l \in hit : Overlap(l, s, e),
           NEW new \in SUBSET Lock,
           \A l \in S, a \in new : ~conflicts(l, a),
           \A a, b \in new : ~conflicts(a, b)
    PROVE  Compatible(Replaced(S, hit, s, e, new))
<1> DEFINE old == (S \ hit) \cup Pieces(hit, s, e)
<1>1. \A m \in old : m \in Lock /\ \E l \in S : Part(m, l)
    BY ReplacedParts
<1>2. \A m, n \in old : ~conflicts(m, n)
    BY <1>1, PartConflicts DEF LockList, Compatible
<1>3. \A m \in old, a \in new : ~conflicts(m, a) /\ ~conflicts(a, m)
    BY <1>1, PartConflicts, PartSelf DEF LockList
<1> QED
    BY <1>2, <1>3 DEF Compatible, Replaced

(* Pieces lie apart, and apart from what was not hit and from [s, e].      *)
LEMMA PiecesApart ==
    ASSUME NEW S, LockList(S), Apart(S), NEW s \in 0..OFF_MAX, NEW e \in 0..OFF_MAX, s <= e,
           NEW hit \in SUBSET S, \A l \in hit : Overlap(l, s, e)
    PROVE  /\ Apart((S \ hit) \cup Pieces(hit, s, e))
           /\ \A m \in Pieces(hit, s, e) : ~Overlap(m, s, e)
           /\ (S \ hit) \cap Pieces(hit, s, e) = {}
<1>1. \A m \in Pieces(hit, s, e) :
        /\ m \in Lock /\ m.s <= m.e
        /\ \E l \in hit : /\ l \in S /\ l \in Lock /\ l.s <= l.e
                          /\ Part(m, l) /\ m \in Left(l, s, e)
  <2>1. ASSUME NEW m \in Pieces(hit, s, e)
        PROVE  /\ m \in Lock /\ m.s <= m.e
               /\ \E l \in hit : /\ l \in S /\ l \in Lock /\ l.s <= l.e
                                 /\ Part(m, l) /\ m \in Left(l, s, e)
    <3>1. PICK l \in hit : m \in Left(l, s, e)
      BY DEF Pieces
    <3>2. l \in S /\ l \in Lock /\ l.s <= l.e
      BY DEF LockList
    <3> QED
      BY <3>1, <3>2, LeftParts
  <2> QED
    BY <2>1
<1>2. \A m \in Pieces(hit, s, e) : ~Overlap(m, s, e)
  <2>1. ASSUME NEW m \in Pieces(hit, s, e)
        PROVE  ~Overlap(m, s, e)
    <3>1. PICK l \in hit : l \in Lock /\ l.s <= l.e /\ m \in Left(l, s, e)
      BY <1>1
    <3>2. m.e = s - 1 \/ m.s = e + 1
      BY <3>1, LeftParts
    <3>3. m \in Lock /\ m.s <= m.e
      BY <1>1
    <3> QED
      BY <3>2, <3>3, FileLocksAssumption DEF Overlap, Lock
  <2> QED
    BY <2>1
<1>3. ASSUME NEW l \in Lock, NEW k \in Lock, NEW m \in Lock, NEW n \in Lock,
             Part(m, l), Part(n, k), ~Overlap(l, k.s, k.e), m.s <= m.e, n.s <= n.e
      PROVE  ~Overlap(m, n.s, n.e) /\ m # n
    BY <1>3, FileLocksAssumption DEF Part, Overlap, Lock
<1>4. \A m \in Pieces(hit, s, e), n \in S \ hit :
        m # n /\ (m.kind = n.kind /\ m.owner = n.owner =>
                    ~Overlap(m, n.s, n.e) /\ ~Overlap(n, m.s, m.e))
  <2>1. ASSUME NEW m \in Pieces(hit, s, e), NEW n \in S \ hit, m.kind = n.kind, m.owner = n.owner
        PROVE  m # n /\ ~Overlap(m, n.s, n.e) /\ ~Overlap(n, m.s, m.e)
    <3>1. PICK l \in hit : l \in S /\ l \in Lock /\ l.s <= l.e /\ Part(m, l) /\ m \in Left(l, s, e)
      BY <1>1
    <3>2. l # n /\ n \in Lock /\ n.s <= n.e /\ m \in Lock /\ m.s <= m.e /\ Part(n, n)
      BY <1>1, PartSelf DEF LockList
    <3>3. ~Overlap(l, n.s, n.e) /\ ~Overlap(n, l.s, l.e)
      BY <2>1, <3>1, <3>2 DEF Apart, Part
    <3> QED
      BY <1>3, <3>1, <3>2, <3>3
  <2> QED
    BY <2>1
<1>5. \A m, n \in Pieces(hit, s, e) :
        m # n /\ m.kind = n.kind /\ m.owner = n.owner => ~Overlap(m, n.s, n.e)
  <2>1. ASSUME NEW m \in Pieces(hit, s, e), NEW n \in Pieces(hit, s, e), m # n,
               m.kind = n.kind, m.owner = n.owner
        PROVE  ~Overlap(m, n.s, n.e)
    <3>1. PICK l \in hit : l \in S /\ l \in Lock /\ l.s <= l.e /\ Part(m, l) /\ m \in Left(l, s, e)
      BY <1>1
    <3>2. PICK k \in hit : k \in S /\ k \in Lock /\ k.s <= k.e /\ Part(n, k) /\ n \in Left(k, s, e)
      BY <1>1
    <3>3. m \in Lock /\ m.s <= m.e /\ n \in Lock /\ n.s <= n.e
      BY <1>1
    <3>4. CASE l = k
      <4>1. \/ m.e = s - 1 /\ n.s = e + 1
            \/ n.e = s - 1 /\ m.s = e + 1
        BY <2>1, <3>1, <3>2, <3>4, LeftParts
      <4> QED
        BY <4>1, <3>3, FileLocksAssumption DEF Overlap, Lock
    <3>5. CASE l # k
      <4>1. ~Overlap(l, k.s, k.e)
        BY <2>1, <3>1, <3>2, <3>5 DEF Apart, Part
      <4> QED
        BY <4>1, <1>3, <3>1, <3>2, <3>3
    <3> QED
      BY <3>4, <3>5
  <2> QED
    BY <2>1
<1>6. (S \ hit) \cap Pieces(hit, s, e) = {}
    BY <1>4
<1>7. Apart((S \ hit) \cup Pieces(hit, s, e))
  <2> DEFINE T == (S \ hit) \cup Pieces(hit, s, e)
  <2>1. SUFFICES ASSUME NEW m \in T, NEW n \in T, m # n, m.kind = n.kind, m.owner = n.owner
                 PROVE  ~Overlap(m, n.s, n.e)
    BY DEF Apart
  <2>2. CASE m \in S \ hit /\ n \in S \ hit
    BY <2>1, <2>2 DEF Apart
  <2>3. CASE m \in Pieces(hit, s, e) /\ n \in Pieces(hit, s, e)
    BY <2>1, <2>3, <1>5
  <2>4. CASE m \in Pieces(hit, s, e) /\ n \in S \ hit
    BY <2>1, <2>4, <1>4
  <2>5. CASE n \in Pieces(hit, s, e) /\ m \in S \ hit
    BY <2>1, <2>5, <1>4
  <2> QED
    BY <2>2, <2>3, <2>4, <2>5
<1> QED
    BY <1>2, <1>6, <1>7

-----------------------------------------------------------------------------
(* Counting.                                                               *)

(* The locks of a list that reach out of [s, e] in front and behind, and   *)
(* the ones that go.                                                       *)
InFront(H, s) == {l \in H : l.s < s}
Behind(H, e) == {l \in H : l.e > e}
Gone(H, s, e) == {l \in H : Left(l, s, e) = {}}

Front(H, s) == {[l EXCEPT !.e = s - 1] : l \in InFront(H, s)}
Rear(H, e) == {[l EXCEPT !.s = e + 1] : l \in Behind(H, e)}

(* Cutting the end of locks that begin apart makes none of them equal.     *)
LEMMA FrontCount ==
    ASSUME NEW H, LockList(H), Apart(H), NEW s \in 0..OFF_MAX
    PROVE  /\ IsFiniteSet(Front(H, s))
           /\ Cardinality(Front(H, s)) = Cardinality(InFront(H, s))
<1> DEFINE A == InFront(H, s)
           B == Front(H, s)
           F == [l \in A |-> [l EXCEPT !.e = s - 1]]
<1>1. IsFiniteSet(A)
    BY FS_Subset DEF LockList, InFront
<1>2. \A l, m \in A : F[l] = F[m] => l = m
  <2>1. SUFFICES ASSUME NEW l \in A, NEW m \in A, F[l] = F[m]
                 PROVE  l = m
    OBVIOUS
  <2>2. l \in H /\ m \in H /\ l \in Lock /\ m \in Lock /\ l.s <= l.e /\ m.s <= m.e
    BY DEF InFront, LockList
  <2>3. l.kind = m.kind /\ l.owner = m.owner /\ l.s = m.s
    BY <2>1, <2>2 DEF Lock
  <2>4. Overlap(l, m.s, m.e)
    BY <2>2, <2>3, FileLocksAssumption DEF Overlap, Lock
  <2> QED
    BY <2>2, <2>3, <2>4 DEF Apart
<1>3. F \in Bijection(A, B)
    BY <1>2 DEF Bijection, Injection, IsInjective, Surjection, Front
<1>4. ExistsBijection(A, B)
    BY <1>3 DEF ExistsBijection
<1> QED
    BY <1>1, <1>4, FS_Bijection

LEMMA RearCount ==
    ASSUME NEW H, LockList(H), Apart(H), NEW e \in 0..OFF_MAX
    PROVE  /\ IsFiniteSet(Rear(H, e))
           /\ Cardinality(Rear(H, e)) = Cardinality(Behind(H, e))
<1> DEFINE A == Behind(H, e)
           B == Rear(H, e)
           F == [l \in A |-> [l EXCEPT !.s = e + 1]]
<1>1. IsFiniteSet(A)
    BY FS_Subset DEF LockList, Behind
<1>2. \A l, m \in A : F[l] = F[m] => l = m
  <2>1. SUFFICES ASSUME NEW l \in A, NEW m \in A, F[l] = F[m]
                 PROVE  l = m
    OBVIOUS
  <2>2. l \in H /\ m \in H /\ l \in Lock /\ m \in Lock /\ l.s <= l.e /\ m.s <= m.e
    BY DEF Behind, LockList
  <2>3. l.kind = m.kind /\ l.owner = m.owner /\ l.e = m.e
    BY <2>1, <2>2 DEF Lock
  <2>4. Overlap(l, m.s, m.e)
    BY <2>2, <2>3, FileLocksAssumption DEF Overlap, Lock
  <2> QED
    BY <2>2, <2>3, <2>4 DEF Apart
<1>3. F \in Bijection(A, B)
    BY <1>2 DEF Bijection, Injection, IsInjective, Surjection, Rear
<1>4. ExistsBijection(A, B)
    BY <1>3 DEF ExistsBijection
<1> QED
    BY <1>1, <1>4, FS_Bijection

(* The pieces: one for each lock hit, none for one that goes, a second for *)
(* one that is punched.                                                    *)
LEMMA PieceCount ==
    ASSUME NEW H, LockList(H), Apart(H),
           NEW s \in 0..OFF_MAX, NEW e \in 0..OFF_MAX, s <= e,
           \A l \in H : Overlap(l, s, e)
    PROVE  /\ IsFiniteSet(Pieces(H, s, e))
           /\ Cardinality(Pieces(H, s, e)) =
                Cardinality(H) + Cardinality(Punched(H, s, e)) - Cardinality(Gone(H, s, e))
<1> DEFINE A == InFront(H, s)
           B == Behind(H, e)
           C == A \cup B
<1>1. IsFiniteSet(H) /\ IsFiniteSet(A) /\ IsFiniteSet(B) /\ H \subseteq Lock
    BY FS_Subset DEF LockList, InFront, Behind
<1>2. Punched(H, s, e) = A \cap B
    BY DEF Punched, InFront, Behind
<1>3. Gone(H, s, e) = H \ C
    BY DEF Gone, Left, InFront, Behind
<1>4. H \cap C = C
    BY DEF InFront, Behind
<1>5. Pieces(H, s, e) = Front(H, s) \cup Rear(H, e)
    BY DEF Pieces, Left, Front, Rear, InFront, Behind
<1>6. Front(H, s) \cap Rear(H, e) = {}
  <2>1. ASSUME NEW l \in A, NEW m \in B, [l EXCEPT !.e = s - 1] = [m EXCEPT !.s = e + 1]
        PROVE  FALSE
    <3>1. l \in Lock /\ m \in Lock /\ l.s < s
      BY <1>1 DEF InFront, Behind
    <3>2. l.s = e + 1
      BY <2>1, <3>1 DEF Lock
    <3> QED
      BY <3>1, <3>2, FileLocksAssumption DEF Lock
  <2> QED
    BY <2>1 DEF Front, Rear
<1>7. /\ IsFiniteSet(Front(H, s)) /\ Cardinality(Front(H, s)) = Cardinality(A)
      /\ IsFiniteSet(Rear(H, e)) /\ Cardinality(Rear(H, e)) = Cardinality(B)
    BY FrontCount, RearCount
<1>8. IsFiniteSet(C) /\ Cardinality(C) = Cardinality(A) + Cardinality(B) - Cardinality(A \cap B)
    BY <1>1, FS_Union
<1>9. Cardinality(H \ C) = Cardinality(H) - Cardinality(C)
    BY <1>1, <1>4, FS_Difference
<1>10. /\ IsFiniteSet(Pieces(H, s, e))
       /\ Cardinality(Pieces(H, s, e)) = Cardinality(A) + Cardinality(B)
  <2>1. Cardinality(Front(H, s) \cup Rear(H, e)) =
          Cardinality(Front(H, s)) + Cardinality(Rear(H, e)) - Cardinality({})
    BY <1>6, <1>7, FS_Union
  <2>2. IsFiniteSet(Front(H, s) \cup Rear(H, e))
    BY <1>7, FS_Union
  <2>3. Cardinality(A) \in Nat /\ Cardinality(B) \in Nat
    BY <1>1, FS_CardinalityType
  <2> QED
    BY <2>1, <2>2, <2>3, <1>5, <1>7, FS_EmptySet
<1>11. /\ Cardinality(A) \in Nat /\ Cardinality(B) \in Nat /\ Cardinality(C) \in Nat
       /\ Cardinality(A \cap B) \in Nat /\ Cardinality(H) \in Nat
    BY <1>1, <1>8, FS_CardinalityType, FS_Intersection
<1> QED
    BY <1>2, <1>3, <1>8, <1>9, <1>10, <1>11

(* A list after a replacement has one lock more for each that is punched   *)
(* and each new one, one less for each that goes.                          *)
LEMMA ReplacedCount ==
    ASSUME NEW S, LockList(S), Apart(S),
           NEW s \in 0..OFF_MAX, NEW e \in 0..OFF_MAX, s <= e,
           NEW hit \in SUBSET S, \A l \in hit : Overlap(l, s, e),
           NEW new, IsFiniteSet(new),
           new \cap ((S \ hit) \cup Pieces(hit, s, e)) = {}
    PROVE  /\ IsFiniteSet(Replaced(S, hit, s, e, new))
           /\ Cardinality(Replaced(S, hit, s, e, new)) =
                Cardinality(S) + Cardinality(Punched(hit, s, e)) + Cardinality(new)
                  - Cardinality(Gone(hit, s, e))
<1> DEFINE P == Pieces(hit, s, e)
           R == S \ hit
<1>1. LockList(hit) /\ Apart(hit)
    BY FS_Subset DEF LockList, Apart
<1>2. /\ IsFiniteSet(P)
      /\ Cardinality(P) =
           Cardinality(hit) + Cardinality(Punched(hit, s, e)) - Cardinality(Gone(hit, s, e))
    BY <1>1, PieceCount
<1>3. IsFiniteSet(R) /\ Cardinality(R) = Cardinality(S) - Cardinality(hit)
  <2>1. S \cap hit = hit
    OBVIOUS
  <2> QED
    BY <2>1, FS_Difference DEF LockList
<1>4. R \cap P = {}
    BY PiecesApart
<1>5. /\ IsFiniteSet(R \cup P)
      /\ Cardinality(R \cup P) = Cardinality(R) + Cardinality(P) - Cardinality({})
    BY <1>2, <1>3, <1>4, FS_Union
<1>6. /\ IsFiniteSet((R \cup P) \cup new)
      /\ Cardinality((R \cup P) \cup new) =
           Cardinality(R \cup P) + Cardinality(new) - Cardinality({})
  <2>1. (R \cup P) \cap new = {}
    OBVIOUS
  <2> QED
    BY <2>1, <1>5, FS_Union
<1>7. /\ Cardinality(S) \in Nat /\ Cardinality(hit) \in Nat /\ Cardinality(new) \in Nat
      /\ Cardinality(Punched(hit, s, e)) \in Nat /\ Cardinality(Gone(hit, s, e)) \in Nat
  <2>1. IsFiniteSet(Punched(hit, s, e)) /\ IsFiniteSet(Gone(hit, s, e)) /\ IsFiniteSet(hit)
    BY <1>1, FS_Subset DEF LockList, Punched, Gone
  <2> QED
    BY <2>1, FS_CardinalityType DEF LockList
<1>8. Cardinality({}) = 0
    BY FS_EmptySet
<1> QED
    BY <1>2, <1>3, <1>5, <1>6, <1>7, <1>8 DEF Replaced

(* The same for the locks of one uid.                                      *)
LEMMA ReplacedUidCount ==
    ASSUME NEW S, LockList(S), Apart(S),
           NEW s \in 0..OFF_MAX, NEW e \in 0..OFF_MAX, s <= e,
           NEW hit \in SUBSET S, \A l \in hit : Overlap(l, s, e),
           NEW new, IsFiniteSet(new),
           new \cap ((S \ hit) \cup Pieces(hit, s, e)) = {},
           NEW u
    PROVE  Count(Replaced(S, hit, s, e, new), u) =
             Count(S, u) + Count(Punched(hit, s, e), u) + Count(new, u)
               - Count(Gone(hit, s, e), u)
<1> DEFINE T == OfUid(S, u)
           h == OfUid(hit, u)
           n == OfUid(new, u)
<1>1. LockList(T) /\ Apart(T) /\ h \in SUBSET T /\ \A l \in h : Overlap(l, s, e)
    BY FS_Subset DEF LockList, Apart, OfUid
<1>2. IsFiniteSet(n)
    BY FS_Subset DEF OfUid
<1>3. \A l \in hit : \A m \in Left(l, s, e) : m.uid = l.uid
  <2>1. \A l \in hit : l \in Lock /\ l.s <= l.e
    BY DEF LockList
  <2> QED
    BY <2>1, LeftParts DEF Part
<1>4. Pieces(h, s, e) = OfUid(Pieces(hit, s, e), u)
    BY <1>3 DEF Pieces, OfUid
<1>5. OfUid(Replaced(S, hit, s, e, new), u) = Replaced(T, h, s, e, n)
    BY <1>4 DEF Replaced, OfUid
<1>6. n \cap ((T \ h) \cup Pieces(h, s, e)) = {}
    BY <1>4 DEF OfUid
<1>7. OfUid(Punched(hit, s, e), u) = Punched(h, s, e) /\ OfUid(Gone(hit, s, e), u) = Gone(h, s, e)
    BY DEF Punched, Gone, OfUid
<1>8. Cardinality(Replaced(T, h, s, e, n)) =
        Cardinality(T) + Cardinality(Punched(h, s, e)) + Cardinality(n) - Cardinality(Gone(h, s, e))
    BY <1>1, <1>2, <1>6, ReplacedCount
<1> QED
    BY <1>5, <1>7, <1>8 DEF Count, OfUid

(* What one lock adds to a count.                                          *)
LEMMA CountOne ==
    ASSUME NEW a, NEW u
    PROVE  Count({a}, u) = (IF a.uid = u THEN 1 ELSE 0) /\ Count({}, u) = 0
<1>1. {l \in {} : l.uid = u} = {}
    OBVIOUS
<1>2. {l \in {a} : l.uid = u} = IF a.uid = u THEN {a} ELSE {}
    OBVIOUS
<1> QED
    BY <1>1, <1>2, FS_EmptySet, FS_Singleton DEF Count

(* Of an owner's locks, at most one is punched.                            *)
LEMMA PunchedOne ==
    ASSUME NEW S, LockList(S), Apart(S), NEW s \in 0..OFF_MAX, NEW e \in 0..OFF_MAX, s <= e,
           NEW hit \in SUBSET S,
           \A l, m \in hit : l.kind = m.kind /\ l.owner = m.owner
    PROVE  \/ Punched(hit, s, e) = {}
           \/ \E l \in hit : Punched(hit, s, e) = {l}
<1>1. \A l, m \in Punched(hit, s, e) : l = m
  <2>1. SUFFICES ASSUME NEW l \in Punched(hit, s, e), NEW m \in Punched(hit, s, e)
                 PROVE  l = m
    OBVIOUS
  <2>2. /\ l \in S /\ m \in S /\ l \in Lock /\ m \in Lock
        /\ l.kind = m.kind /\ l.owner = m.owner
        /\ l.s < s /\ l.e > e /\ m.s < s /\ m.e > e
    BY DEF Punched, LockList
  <2>3. Overlap(l, m.s, m.e)
    BY <2>2, FileLocksAssumption DEF Overlap, Lock
  <2> QED
    BY <2>2, <2>3 DEF Apart
<1> QED
    BY <1>1 DEF Punched

-----------------------------------------------------------------------------
(* The inductive invariant.                                                *)

Request == [kind : Kinds \cup {"none"}, owner : Nat, type : {"r", "w"},
            s : 0..OFF_MAX, e : 0..OFF_MAX, slot : 0..NSlots, fid : 0..MaxFids]

FilesOK ==
    /\ desc \in [Tables -> [Slots -> None..MaxFids]]
    /\ alive \subseteq Tables /\ uid \in [Tables -> Uids]
    /\ nextFid \in 1..MaxFids + 1

(* A lock that thread th may ask for.                                      *)
LockReq(th, r) ==
    /\ r \in Request /\ r.slot \in Slots /\ r.kind \in Kinds
    /\ r.owner = (IF r.kind = "posix" THEN th[1] ELSE r.fid) /\ r.owner # 0
    /\ r.s <= r.e

(* A thread in a call has a table, and waits for a lock that it may ask    *)
(* for.                                                                    *)
ReqOK ==
    /\ pc \in [Threads -> {"idle", "asleep", "woken", "closing"}]
    /\ req \in [Threads -> Request]
    /\ \A th \in Threads :
         /\ pc[th] = "idle" => req[th] = NoReq
         /\ pc[th] # "idle" => th[1] \in alive /\ req[th].slot \in Slots
         /\ pc[th] \in {"asleep", "woken"} => LockReq(th, req[th])

ListOK == LockList(locks) /\ Compatible(locks) /\ Apart(locks)

Exact ==
    /\ nlocks = Cardinality(locks)
    /\ charged \in [Uids \ {0} -> Nat]
    /\ \A u \in Uids \ {0} : charged[u] = Count(locks, u)

InLimits ==
    /\ nlocks <= LOCKS_MAX
    /\ \A u \in Uids \ {0} : charged[u] <= LOCKS_PER_UID

(* The lock has its owner, through a descriptor that is not being closed,  *)
(* or a close in progress missed it.                                       *)
Owned(l) ==
    \/ <<l.kind, l.owner>> \in raced
    \/ l.kind = "posix" /\ l.owner \in alive
    \/ l.kind # "posix" /\ \E t \in alive, f \in Slots : desc[t][f] = l.owner /\ ~Closing(t, f)

AllOwned == \A l \in locks : Owned(l)

TableInv == ListOK /\ Exact /\ InLimits

Inv == FilesOK /\ ReqOK /\ TableInv /\ WaiterBlocked /\ AllOwned

LEMMA InvImplies ==
    ASSUME Inv
    PROVE  TypeOK /\ NoConflict /\ OwnerDisjoint /\ CountsExact /\ WaiterBlocked /\ NoStrandedLock
<1>1. nlocks \in Nat
    BY FS_CardinalityType DEF Inv, TableInv, ListOK, LockList, Exact
<1>2. \A th \in Threads : req[th] = NoReq <=> pc[th] = "idle"
    BY FileLocksAssumption DEF Inv, ReqOK, NoReq, Slots
<1>3. \A l \in locks :
          /\ l.kind \in Kinds /\ l.owner \in Nat \ {0} /\ l.type \in {"r", "w"}
          /\ l.uid \in Uids
          /\ 0 <= l.s /\ l.s <= l.e /\ l.e <= OFF_MAX
    BY FileLocksAssumption DEF Inv, TableInv, ListOK, LockList, Lock
<1>4. TypeOK
    BY <1>1, <1>2, <1>3 DEF Inv, FilesOK, ReqOK, TableInv, Exact, TypeOK
<1>5. NoConflict /\ OwnerDisjoint
    BY <1>3 DEF Inv, TableInv, ListOK, Compatible, Apart, NoConflict, OwnerDisjoint
<1>6. CountsExact
    BY DEF Inv, TableInv, Exact, InLimits, CountsExact
<1>7. NoStrandedLock
    BY DEF Inv, AllOwned, Owned, NoStrandedLock, Held
<1> QED
    BY <1>4, <1>5, <1>6, <1>7 DEF Inv

LEMMA InitInv ==
    ASSUME Init
    PROVE  Inv
<1> USE FileLocksAssumption
<1>1. FilesOK
    BY DEF Init, FilesOK, Tables, Slots, None
<1>2. NoReq \in Request
    BY DEF NoReq, Request
<1>3. ReqOK
    BY <1>2 DEF Init, ReqOK
<1>4. ListOK
    BY FS_EmptySet DEF Init, ListOK, LockList, Compatible, Apart
<1>5. \A u \in Uids \ {0} : Count(locks, u) = 0
    BY CountOne DEF Init
<1>6. Exact /\ InLimits
    BY <1>5, FS_EmptySet DEF Init, Exact, InLimits
<1>7. WaiterBlocked /\ AllOwned
    BY DEF Init, WaiterBlocked, AllOwned
<1> QED
    BY <1>1, <1>3, <1>4, <1>6, <1>7 DEF Inv, TableInv

-----------------------------------------------------------------------------
(* Replacements.                                                           *)

(* What a replacement does to the list and to the counts.  A new lock has  *)
(* the replaced range, conflicts with nothing and its owner's locks over   *)
(* the range are all replaced.                                             *)
LEMMA ReplaceList ==
    ASSUME ListOK, Exact, NEW s \in 0..OFF_MAX, NEW e \in 0..OFF_MAX, s <= e,
           NEW hit \in SUBSET locks, \A l \in hit : Overlap(l, s, e),
           NEW new \in SUBSET Lock, IsFiniteSet(new), \A a, b \in new : a = b,
           \A a \in new : /\ a.s = s /\ a.e = e
                          /\ \A l \in locks : ~conflicts(l, a)
                          /\ Hit(a.kind, a.owner, s, e) \subseteq hit,
           Replace(hit, s, e, new)
    PROVE  ListOK' /\ Exact' /\ locks' = Replaced(locks, hit, s, e, new)
<1> DEFINE R == Replaced(locks, hit, s, e, new)
           old == (locks \ hit) \cup Pieces(hit, s, e)
<1>1. LockList(locks) /\ Compatible(locks) /\ Apart(locks)
    BY DEF ListOK
<1>2. locks' = R
    BY DEF Replace, Replaced, Pieces
<1>3. \A a \in new : a \in Lock /\ Overlap(a, s, e) /\ ~conflicts(a, a)
    BY FileLocksAssumption DEF Overlap, conflicts, Lock
<1>4. \A m \in old : \A a \in new :
        m.kind = a.kind /\ m.owner = a.owner => ~Overlap(m, a.s, a.e) /\ ~Overlap(a, m.s, m.e)
  <2>1. ASSUME NEW m \in old, NEW a \in new, m.kind = a.kind, m.owner = a.owner
        PROVE  ~Overlap(m, s, e)
    <3>1. CASE m \in locks \ hit
      BY <2>1, <3>1 DEF Hit
    <3>2. CASE m \in Pieces(hit, s, e)
      BY <3>2, <1>1, PiecesApart
    <3> QED
      BY <3>1, <3>2
  <2>2. \A m \in old : m \in Lock
    BY <1>1, ReplacedParts
  <2> QED
    BY <2>1, <2>2, FileLocksAssumption DEF Overlap, Lock
<1>5. new \cap old = {}
    BY <1>3, <1>4
<1>6. LockList(R)
  <2>1. IsFiniteSet(R)
    BY <1>1, <1>5, ReplacedCount
  <2>2. \A m \in old : m \in Lock /\ m.s <= m.e
    BY <1>1, ReplacedParts
  <2> QED
    BY <2>1, <2>2 DEF LockList, Replaced
<1>7. Compatible(R)
    BY <1>1, <1>3, ReplacedCompatible
<1>8. Apart(R)
  <2>1. Apart(old)
    BY <1>1, PiecesApart
  <2>2. R = old \cup new
    BY DEF Replaced
  <2> HIDE DEF old, R
  <2> QED
    BY <2>1, <2>2, <1>4 DEF Apart
<1>9. nlocks' = Cardinality(R)
  <2>1. Cardinality(R) = Cardinality(locks) + Cardinality(Punched(hit, s, e)) + Cardinality(new)
                           - Cardinality(Gone(hit, s, e))
    BY <1>1, <1>5, ReplacedCount
  <2> QED
    BY <2>1 DEF Exact, Replace, Gone
<1>10. \A u \in Uids \ {0} : charged'[u] = Count(R, u)
  <2>1. \A u \in Uids \ {0} :
          Count(R, u) = Count(locks, u) + Count(Punched(hit, s, e), u) + Count(new, u)
                          - Count(Gone(hit, s, e), u)
    BY <1>1, <1>5, ReplacedUidCount
  <2> QED
    BY <2>1 DEF Exact, Replace, Gone
<1>11. \A u \in Uids \ {0} : Count(R, u) \in Nat
    BY <1>6, FS_Subset, FS_CardinalityType DEF LockList, Count
<1>12. charged' \in [Uids \ {0} -> Nat]
    BY <1>10, <1>11 DEF Replace
<1> QED
    BY <1>2, <1>6, <1>7, <1>8, <1>9, <1>10, <1>12 DEF ListOK, Exact

(* The numbers in a replacement.                                           *)
LEMMA CountTypes ==
    ASSUME ListOK, NEW s, NEW e, NEW hit \in SUBSET locks, NEW u
    PROVE  /\ Cardinality(hit) \in Nat
           /\ Cardinality(Punched(hit, s, e)) \in Nat /\ Count(Punched(hit, s, e), u) \in Nat
           /\ Cardinality(Gone(hit, s, e)) \in Nat /\ Count(Gone(hit, s, e), u) \in Nat
<1>1. IsFiniteSet(hit)
    BY FS_Subset DEF ListOK, LockList
<1>2. IsFiniteSet(Punched(hit, s, e)) /\ IsFiniteSet(Gone(hit, s, e))
    BY <1>1, FS_Subset DEF Punched, Gone
<1>3. \A S : IsFiniteSet(S) => Count(S, u) \in Nat
    BY FS_Subset, FS_CardinalityType DEF Count
<1> QED
    BY <1>1, <1>2, <1>3, FS_CardinalityType

(* A replacement of whole locks removes them.                              *)
LEMMA ReplaceWhole ==
    ASSUME ListOK, NEW hit \in SUBSET locks
    PROVE  /\ Pieces(hit, 0, OFF_MAX) = {} /\ Punched(hit, 0, OFF_MAX) = {}
           /\ Gone(hit, 0, OFF_MAX) = hit
           /\ \A l \in hit : Overlap(l, 0, OFF_MAX)
<1>1. \A l \in hit : l \in Lock
    BY DEF ListOK, LockList
<1> QED
    BY <1>1, WholeFileLeft, FileLocksAssumption DEF Pieces, Punched, Gone, Overlap, Lock

LEMMA DropList ==
    ASSUME TableInv, NEW hit \in SUBSET locks, Replace(hit, 0, OFF_MAX, {})
    PROVE  TableInv' /\ locks' = locks \ hit
<1>1. ListOK /\ Exact /\ InLimits
    BY DEF TableInv
<1>2. 0 \in 0..OFF_MAX /\ OFF_MAX \in 0..OFF_MAX /\ 0 <= OFF_MAX
    BY FileLocksAssumption
<1>3. ListOK' /\ Exact' /\ locks' = Replaced(locks, hit, 0, OFF_MAX, {})
    BY <1>1, <1>2, ReplaceWhole, ReplaceList, FS_EmptySet
<1>4. nlocks' = nlocks + 0 + 0 - Cardinality(Gone(hit, 0, OFF_MAX))
    BY <1>1, ReplaceWhole, FS_EmptySet DEF Replace, Gone
<1>5. \A u \in Uids \ {0} : charged'[u] = charged[u] + 0 + 0 - Count(Gone(hit, 0, OFF_MAX), u)
    BY <1>1, ReplaceWhole, CountOne DEF Replace, Gone
<1>6. nlocks \in Nat /\ charged \in [Uids \ {0} -> Nat]
    BY <1>1, FS_CardinalityType DEF ListOK, LockList, Exact
<1>7. InLimits'
    BY <1>1, <1>4, <1>5, <1>6, CountTypes, FileLocksAssumption DEF InLimits
<1> QED
    BY <1>1, <1>3, <1>7, ReplaceWhole DEF TableInv, Replaced

-----------------------------------------------------------------------------
(* Steps.                                                                  *)

(* A wake-up leaves asleep only when nothing was replaced.                 *)
LEMMA WakeFacts ==
    ASSUME ReqOK, NEW hit, NEW s, NEW e
    PROVE  /\ WakeIf(hit, s, e) \in [Threads -> {"idle", "asleep", "woken", "closing"}]
           /\ \A th \in Threads :
                /\ WakeIf(hit, s, e)[th] = "asleep" => hit = {} /\ pc[th] = "asleep"
                /\ WakeIf(hit, s, e)[th] = "closing" <=> pc[th] = "closing"
                /\ WakeIf(hit, s, e)[th] = "idle" <=> pc[th] = "idle"
                /\ WakeIf(hit, s, e)[th] = "woken" => pc[th] \in {"asleep", "woken"}
BY DEF ReqOK, WakeIf

(* No more descriptors are being closed when no more threads close.        *)
LEMMA ClosingKept ==
    ASSUME \A th \in Threads : pc'[th] = "closing" => pc[th] = "closing" /\ req'[th] = req[th],
           NEW t \in Tables, NEW f, Closing(t, f)'
    PROVE  Closing(t, f)
BY DEF Closing, Threads

(* A lock keeps its owner when no descriptor goes and none is being closed *)
(* that was not.                                                           *)
LEMMA OwnedKept ==
    ASSUME FilesOK, NEW l \in Lock, NEW m \in Lock, Owned(l),
           m.kind = l.kind, m.owner = l.owner, raced \subseteq raced', alive \subseteq alive',
           \A t \in alive, f \in Slots : desc[t][f] \notin {0, None} => desc'[t][f] = desc[t][f],
           \A th \in Threads : pc'[th] = "closing" => pc[th] = "closing" /\ req'[th] = req[th]
    PROVE  Owned(m)'
<1>1. \A t \in alive, f \in Slots : Closing(t, f)' => Closing(t, f)
    BY ClosingKept DEF FilesOK
<1>2. l.owner \notin {0, None}
    BY DEF Lock, None
<1> QED
    BY <1>1, <1>2 DEF Owned

(* The same for the locks that were there and their parts.                 *)
LEMMA AllOwnedKept ==
    ASSUME FilesOK, LockList(locks), AllOwned, NEW s \in 0..OFF_MAX, NEW e \in 0..OFF_MAX, s <= e,
           NEW hit \in SUBSET locks, \A l \in hit : Overlap(l, s, e),
           raced \subseteq raced', alive \subseteq alive',
           \A t \in alive, f \in Slots : desc[t][f] \notin {0, None} => desc'[t][f] = desc[t][f],
           \A th \in Threads : pc'[th] = "closing" => pc[th] = "closing" /\ req'[th] = req[th]
    PROVE  \A m \in (locks \ hit) \cup Pieces(hit, s, e) : Owned(m)'
<1>1. SUFFICES ASSUME NEW m \in (locks \ hit) \cup Pieces(hit, s, e)
               PROVE  Owned(m)'
    OBVIOUS
<1>2. PICK l \in locks : m \in Lock /\ Part(m, l)
    BY ReplacedParts
<1>3. l \in Lock /\ Owned(l)
    BY DEF LockList, AllOwned
<1> QED
    BY <1>2, <1>3, OwnedKept DEF Part

(* A descriptor may get an fid, and nothing else happens to the tables.    *)
FilesKept ==
    /\ FilesOK' /\ alive' = alive
    /\ \A t \in alive, f \in Slots : desc[t][f] \notin {0, None} => desc'[t][f] = desc[t][f]

LEMMA GiveFidKeeps ==
    ASSUME FilesOK, NEW t \in Tables, NEW f \in Slots, desc[t][f] # None, GiveFid(t, f)
    PROVE  /\ FilesKept /\ desc'[t][f] = Fid(t, f)
           /\ Fid(t, f) \in 1..MaxFids
<1> USE FileLocksAssumption DEF FilesOK, None
<1>1. Fid(t, f) \in 1..MaxFids
  <2>1. desc[t][f] \in -1..MaxFids /\ nextFid \in 1..MaxFids + 1
    OBVIOUS
  <2>2. desc[t][f] = 0 => nextFid <= MaxFids
    BY DEF GiveFid
  <2> QED
    BY <2>1, <2>2 DEF Fid
<1>2. FilesOK'
    BY <1>1 DEF GiveFid
<1>3. \A q \in alive, g \in Slots : desc[q][g] \notin {0, None} => desc'[q][g] = desc[q][g]
    BY <1>1 DEF GiveFid, Fid
<1> QED
    BY <1>1, <1>2, <1>3 DEF GiveFid, FilesKept

(* A new lock is owned, or recorded as raced.                              *)
LEMMA NewOwned ==
    ASSUME Inv, FilesKept, NEW th \in Threads, th[1] \in alive, NEW r, LockReq(th, r),
           desc'[th[1]][r.slot] = r.fid, raced' = Raced(th, r),
           \A q \in Threads : pc'[q] = "closing" => pc[q] = "closing" /\ req'[q] = req[q],
           NEW a, a = AsLock(th, r)
    PROVE  /\ a \in Lock /\ Owned(a)'
           /\ a.s = r.s /\ a.e = r.e /\ r.s <= r.e
           /\ a.kind = r.kind /\ a.owner = r.owner
           /\ a.uid = uid[th[1]] /\ uid[th[1]] \in Uids
           /\ \A l : conflicts(l, a) <=> conflicts(l, r)
<1>1. th[1] \in Tables /\ uid[th[1]] \in Uids
    BY DEF Inv, FilesOK, Threads
<1>2. a \in Lock /\ a.kind = r.kind /\ a.owner = r.owner /\ a.s = r.s /\ a.e = r.e
    BY <1>1 DEF AsLock, LockReq, Request, Lock
<1>3. Owned(a)'
  <2>1. CASE r.kind = "posix"
    BY <2>1, <1>2 DEF Owned, LockReq, FilesKept
  <2>2. CASE r.kind # "posix" /\ Closing(th[1], r.slot)
    BY <2>2, <1>2 DEF Owned, Raced
  <2>3. CASE r.kind # "posix" /\ ~Closing(th[1], r.slot)
    <3>1. ~Closing(th[1], r.slot)'
      BY <2>3, <1>1, ClosingKept
    <3> QED
      BY <2>3, <3>1, <1>2 DEF Owned, LockReq, FilesKept
  <2> QED
    BY <2>1, <2>2, <2>3
<1>4. \A l : conflicts(l, a) <=> conflicts(l, r)
    BY DEF AsLock, conflicts
<1> QED
    BY <1>1, <1>2, <1>3, <1>4 DEF AsLock, LockReq

(* The call that returns, with nothing changed but descriptors.            *)
LEMMA ReturnInv ==
    ASSUME Inv, FilesKept, NEW th \in Threads, pc[th] \in {"idle", "woken"}, Return(th)
    PROVE  Inv'
<1>1. NoReq \in Request
    BY FileLocksAssumption DEF NoReq, Request
<1>2. ReqOK'
    BY <1>1 DEF Inv, FilesKept, ReqOK, Return, LockReq
<1>3. TableInv'
    BY DEF Inv, Return, table, TableInv, ListOK, Exact, InLimits
<1>4. WaiterBlocked'
    BY DEF Inv, Return, table, ReqOK, WaiterBlocked, find_conflict
<1>5. AllOwned'
    BY OwnedKept DEF Inv, TableInv, ListOK, LockList, Return, table, ReqOK, FilesKept, AllOwned
<1> QED
    BY <1>2, <1>3, <1>4, <1>5 DEF Inv, FilesKept

(* The call that goes to sleep.                                            *)
LEMMA SleepInv ==
    ASSUME Inv, FilesKept, NEW th \in Threads, th[1] \in alive, pc[th] \in {"idle", "woken"},
           NEW r, LockReq(th, r), find_conflict(r),
           pc' = [pc EXCEPT ![th] = "asleep"], req' = [req EXCEPT ![th] = r],
           UNCHANGED <<table, raced>>
    PROVE  Inv'
<1>2. ReqOK'
    BY DEF Inv, FilesKept, ReqOK, LockReq
<1>3. TableInv'
    BY DEF Inv, table, TableInv, ListOK, Exact, InLimits
<1>4. WaiterBlocked'
    BY DEF Inv, table, ReqOK, WaiterBlocked, find_conflict
<1>5. AllOwned'
    BY OwnedKept DEF Inv, TableInv, ListOK, LockList, table, ReqOK, FilesKept, AllOwned
<1> QED
    BY <1>2, <1>3, <1>4, <1>5 DEF Inv, FilesKept

(* A lock that was charged for, with what it splits, is within the limits. *)
LEMMA InsertLimits ==
    ASSUME TableInv, NEW a \in Lock, a.s <= a.e,
           NEW hit \in SUBSET locks, \A l \in hit : l.kind = a.kind /\ l.owner = a.owner,
           lock_charge(nlocks, charged, a.uid),
           \A l \in Punched(hit, a.s, a.e) :
              lock_charge(nlocks + 1, Charge(charged, a.uid, 1), l.uid),
           Replace(hit, a.s, a.e, {a})
    PROVE  InLimits'
<1> DEFINE tails == Punched(hit, a.s, a.e)
           gone == Gone(hit, a.s, a.e)
<1>1. ListOK /\ Exact /\ InLimits /\ nlocks \in Nat /\ charged \in [Uids \ {0} -> Nat]
    BY FS_CardinalityType DEF TableInv, ListOK, LockList, Exact
<1>2. /\ nlocks' = nlocks + Cardinality(tails) + 1 - Cardinality(gone)
      /\ \A u \in Uids \ {0} : charged'[u] =
            charged[u] + Count(tails, u) + (IF a.uid = u THEN 1 ELSE 0) - Count(gone, u)
    BY FS_Singleton, CountOne DEF Replace, Gone
<1>3. Cardinality(gone) \in Nat /\ \A u : Count(gone, u) \in Nat
    BY <1>1, CountTypes
<1>4. nlocks < LOCKS_MAX /\ \A u \in Uids \ {0} : a.uid = u => charged[u] < LOCKS_PER_UID
    BY DEF lock_charge
<1>5. CASE tails = {}
  <2>1. Cardinality(tails) = 0 /\ \A u : Count(tails, u) = 0
    BY <1>5, CountOne, FS_EmptySet
  <2> HIDE DEF tails, gone
  <2> QED
    BY <2>1, <1>1, <1>2, <1>3, <1>4, FileLocksAssumption DEF InLimits
<1>6. ASSUME NEW l \in hit, tails = {l}
      PROVE  InLimits'
  <2>1. Cardinality(tails) = 1 /\ \A u : Count(tails, u) = IF l.uid = u THEN 1 ELSE 0
    <3>1. Cardinality({l}) = 1 /\ \A u : Count({l}, u) = IF l.uid = u THEN 1 ELSE 0
      BY CountOne, FS_Singleton
    <3> QED
      BY <1>6, <3>1
  <2>2. lock_charge(nlocks + 1, Charge(charged, a.uid, 1), l.uid)
    BY <1>6
  <2>3. nlocks + 1 < LOCKS_MAX
    BY <2>2 DEF lock_charge
  <2>4. \A u \in Uids \ {0} : l.uid = u =>
          charged[u] + (IF a.uid = u THEN 1 ELSE 0) < LOCKS_PER_UID
    BY <2>2, <1>1 DEF lock_charge, Charge
  <2> HIDE DEF tails, gone
  <2> QED
    BY <2>1, <2>3, <2>4, <1>1, <1>2, <1>3, <1>4, FileLocksAssumption DEF InLimits
<1>7. a.s \in 0..OFF_MAX /\ a.e \in 0..OFF_MAX
    BY DEF Lock
<1>8. tails = {} \/ \E l \in hit : tails = {l}
  <2>1. LockList(locks) /\ Apart(locks)
    BY <1>1 DEF ListOK
  <2>2. \A l, m \in hit : l.kind = m.kind /\ l.owner = m.owner
    OBVIOUS
  <2> QED
    BY <1>7, <2>1, <2>2, PunchedOne
<1> QED
    BY <1>5, <1>6, <1>8

LEMMA UnlockLimits ==
    ASSUME TableInv, NEW s \in 0..OFF_MAX, NEW e \in 0..OFF_MAX, s <= e, NEW kind, NEW owner,
           NEW hit \in SUBSET locks, \A l \in hit : l.kind = kind /\ l.owner = owner,
           \A l \in Punched(hit, s, e) : lock_charge(nlocks, charged, l.uid),
           Replace(hit, s, e, {})
    PROVE  InLimits'
<1> DEFINE tails == Punched(hit, s, e)
           gone == Gone(hit, s, e)
<1>1. ListOK /\ Exact /\ InLimits /\ nlocks \in Nat /\ charged \in [Uids \ {0} -> Nat]
    BY FS_CardinalityType DEF TableInv, ListOK, LockList, Exact
<1>2. /\ nlocks' = nlocks + Cardinality(tails) + 0 - Cardinality(gone)
      /\ \A u \in Uids \ {0} : charged'[u] = charged[u] + Count(tails, u) + 0 - Count(gone, u)
    BY FS_EmptySet, CountOne DEF Replace, Gone
<1>3. Cardinality(gone) \in Nat /\ \A u : Count(gone, u) \in Nat
    BY <1>1, CountTypes
<1>5. CASE tails = {}
  <2>1. Cardinality(tails) = 0 /\ \A u : Count(tails, u) = 0
    BY <1>5, CountOne, FS_EmptySet
  <2> HIDE DEF tails, gone
  <2> QED
    BY <2>1, <1>1, <1>2, <1>3, FileLocksAssumption DEF InLimits
<1>6. ASSUME NEW l \in hit, tails = {l}
      PROVE  InLimits'
  <2>1. Cardinality(tails) = 1 /\ \A u : Count(tails, u) = IF l.uid = u THEN 1 ELSE 0
    <3>1. Cardinality({l}) = 1 /\ \A u : Count({l}, u) = IF l.uid = u THEN 1 ELSE 0
      BY CountOne, FS_Singleton
    <3> QED
      BY <1>6, <3>1
  <2>2. nlocks < LOCKS_MAX /\ \A u \in Uids \ {0} : l.uid = u => charged[u] < LOCKS_PER_UID
    BY <1>6 DEF lock_charge
  <2> HIDE DEF tails, gone
  <2> QED
    BY <2>1, <2>2, <1>1, <1>2, <1>3, FileLocksAssumption DEF InLimits
<1>7. tails = {} \/ \E l \in hit : tails = {l}
  <2>1. LockList(locks) /\ Apart(locks)
    BY <1>1 DEF ListOK
  <2>2. \A l, m \in hit : l.kind = m.kind /\ l.owner = m.owner
    OBVIOUS
  <2> QED
    BY <2>1, <2>2, PunchedOne
<1> QED
    BY <1>5, <1>6, <1>7

(* What is replaced where nothing is: the locks stay.                      *)
LEMMA ReplacedNothing ==
    ASSUME NEW S, NEW s, NEW e, NEW new
    PROVE  S \subseteq Replaced(S, {}, s, e, new)
BY DEF Replaced

(* A replacement that wakes as it must keeps the sleepers blocked.         *)
LEMMA SleepersBlocked ==
    ASSUME Inv, NEW s, NEW e, NEW hit, NEW new, locks' = Replaced(locks, hit, s, e, new),
           \A q \in Threads : pc'[q] = "asleep" =>
              WakeIf(hit, s, e)[q] = "asleep" /\ req'[q] = req[q]
    PROVE  WaiterBlocked'
<1>1. \A q \in Threads : pc'[q] = "asleep" => locks \subseteq locks' /\ find_conflict(req[q])
    BY WakeFacts, ReplacedNothing DEF Inv, WaiterBlocked
<1> QED
    BY <1>1 DEF WaiterBlocked, find_conflict

(* The insertion, or the refusal for want of room.                         *)
LEMMA InsertInv ==
    ASSUME Inv, FilesKept, NEW th \in Threads, th[1] \in alive, pc[th] \in {"idle", "woken"},
           NEW r, LockReq(th, r), desc'[th[1]][r.slot] = r.fid, ~find_conflict(r), Insert(th, r)
    PROVE  Inv'
<1> DEFINE hit == Hit(r.kind, r.owner, r.s, r.e)
<1>1. CASE Return(th)
    BY <1>1, ReturnInv
<1>2. CASE ~Return(th)
  <2>1. PICK a : a = AsLock(th, r)
    OBVIOUS
  <2>2. /\ lock_charge(nlocks, charged, uid[th[1]])
        /\ \A l \in Punched(hit, r.s, r.e) :
              lock_charge(nlocks + 1, Charge(charged, uid[th[1]], 1), l.uid)
        /\ Replace(hit, r.s, r.e, {a})
        /\ pc' = [WakeIf(hit, r.s, r.e) EXCEPT ![th] = "idle"]
        /\ req' = [req EXCEPT ![th] = NoReq]
        /\ raced' = Raced(th, r)
    BY <1>2, <2>1 DEF Insert
  <2>3. NoReq \in Request
    BY FileLocksAssumption DEF NoReq, Request
  <2>4. ReqOK'
    BY <2>2, <2>3, WakeFacts DEF Inv, FilesKept, ReqOK, LockReq
  <2>5. \A q \in Threads : pc'[q] = "closing" => pc[q] = "closing" /\ req'[q] = req[q]
    BY <2>2, WakeFacts DEF Inv, ReqOK
  <2>6. /\ a \in Lock /\ Owned(a)' /\ a.s = r.s /\ a.e = r.e /\ r.s <= r.e
        /\ a.kind = r.kind /\ a.owner = r.owner /\ a.uid = uid[th[1]]
        /\ \A l \in locks : ~conflicts(l, a)
    BY <2>1, <2>2, <2>5, NewOwned DEF find_conflict
  <2>7. /\ hit \subseteq locks /\ r.s \in 0..OFF_MAX /\ r.e \in 0..OFF_MAX
        /\ \A l \in hit : l.kind = r.kind /\ l.owner = r.owner /\ Overlap(l, r.s, r.e)
    BY DEF Hit, LockReq, Request
  <2>8. ListOK' /\ Exact' /\ locks' = Replaced(locks, hit, r.s, r.e, {a})
    <3>1. /\ {a} \in SUBSET Lock /\ IsFiniteSet({a}) /\ \A x, y \in {a} : x = y
          /\ \A x \in {a} : /\ x.s = r.s /\ x.e = r.e
                            /\ \A l \in locks : ~conflicts(l, x)
                            /\ Hit(x.kind, x.owner, r.s, r.e) \subseteq hit
      BY <2>6, FS_Singleton
    <3>2. ListOK /\ Exact
      BY DEF Inv, TableInv
    <3> HIDE DEF hit
    <3> QED
      BY <2>2, <2>6, <2>7, <3>1, <3>2, ReplaceList
  <2>9. InLimits'
    BY <2>2, <2>6, <2>7, InsertLimits DEF Inv
  <2>10. WaiterBlocked'
    BY <2>2, <2>8, WakeFacts, SleepersBlocked DEF Inv, ReqOK
  <2>11. AllOwned'
    <3>1. raced \subseteq raced' /\ alive \subseteq alive'
      BY <2>2 DEF Raced, FilesKept
    <3>2. \A m \in (locks \ hit) \cup Pieces(hit, r.s, r.e) : Owned(m)'
      <4>1. FilesOK /\ LockList(locks) /\ AllOwned
        BY DEF Inv, TableInv, ListOK
      <4> HIDE DEF hit
      <4> QED
        BY <3>1, <4>1, <2>5, <2>6, <2>7, AllOwnedKept DEF FilesKept
    <3> QED
      BY <3>2, <2>6, <2>8 DEF AllOwned, Replaced
  <2> QED
    BY <2>4, <2>8, <2>9, <2>10, <2>11 DEF Inv, TableInv, FilesKept
<1> QED
    BY <1>1, <1>2

LEMMA SetLockInv ==
    ASSUME Inv, FilesKept, NEW th \in Threads, th[1] \in alive, pc[th] \in {"idle", "woken"},
           NEW r, LockReq(th, r), desc'[th[1]][r.slot] = r.fid, set_lock(th, r)
    PROVE  Inv'
BY InsertInv, ReturnInv, SleepInv DEF set_lock

LEMMA UnlockInv ==
    ASSUME Inv, FilesKept, NEW th \in Threads, NEW kind, NEW owner,
           NEW s \in 0..OFF_MAX, NEW e \in 0..OFF_MAX, s <= e, Unlock(th, kind, owner, s, e)
    PROVE  Inv'
<1> DEFINE hit == Hit(kind, owner, s, e)
<1>1. CASE UNCHANGED <<table, pc, req, raced>>
  <2>1. ReqOK' /\ TableInv' /\ WaiterBlocked'
    BY <1>1 DEF Inv, FilesKept, ReqOK, LockReq, table, TableInv, ListOK, Exact, InLimits,
                WaiterBlocked, find_conflict
  <2>2. AllOwned'
    BY <1>1, OwnedKept DEF Inv, TableInv, ListOK, LockList, table, ReqOK, FilesKept, AllOwned
  <2> QED
    BY <2>1, <2>2 DEF Inv, FilesKept
<1>2. CASE ~UNCHANGED <<table, pc, req, raced>>
  <2>1. /\ \A l \in Punched(hit, s, e) : lock_charge(nlocks, charged, l.uid)
        /\ Replace(hit, s, e, {})
        /\ pc' = WakeIf(hit, s, e)
        /\ UNCHANGED <<req, raced>>
    BY <1>2 DEF Unlock
  <2>2. ReqOK'
    BY <2>1, WakeFacts DEF Inv, FilesKept, ReqOK, LockReq
  <2>3. hit \subseteq locks /\ \A l \in hit : l.kind = kind /\ l.owner = owner /\ Overlap(l, s, e)
    BY DEF Hit
  <2>4. ListOK' /\ Exact' /\ locks' = Replaced(locks, hit, s, e, {})
    BY <2>1, <2>3, ReplaceList, FS_EmptySet DEF Inv, TableInv
  <2>5. InLimits'
    BY <2>1, <2>3, UnlockLimits DEF Inv
  <2>6. WaiterBlocked'
    BY <2>1, <2>4, SleepersBlocked
  <2>7. AllOwned'
    <3>1. \A m \in (locks \ hit) \cup Pieces(hit, s, e) : Owned(m)'
      BY <2>1, <2>3, WakeFacts, AllOwnedKept DEF Inv, TableInv, ListOK, FilesKept
    <3> QED
      BY <3>1, <2>4 DEF AllOwned, Replaced
  <2> QED
    BY <2>2, <2>4, <2>5, <2>6, <2>7 DEF Inv, TableInv, FilesKept
<1> QED
    BY <1>1, <1>2

LEMMA FcntlInv ==
    ASSUME Inv, NEW th \in Threads, NEW f \in Slots, NEW kind \in {"posix", "ofd"},
           flock_fcntl(th, f, kind)
    PROVE  Inv'
<1> DEFINE owner == IF kind = "ofd" THEN Fid(th[1], f) ELSE th[1]
           R(type, g) == [kind |-> kind, owner |-> owner, type |-> type,
                          s |-> g[1], e |-> g[2], slot |-> f, fid |-> Fid(th[1], f)]
           Asked(g) == /\ Call(th) /\ desc[th[1]][f] # None
                       /\ GiveFid(th[1], f)
                       /\ \/ Unlock(th, kind, owner, g[1], g[2])
                          \/ \E type \in {"r", "w"} : set_lock(th, R(type, g))
<1>0. PICK base \in Bases, start \in Starts, len \in Lens :
        \E g \in LockRange(base, start, len) : Asked(g)
    BY DEF flock_fcntl
<1>1. PICK g \in LockRange(base, start, len) : Asked(g)
    BY <1>0
<1>2. g[1] \in 0..OFF_MAX /\ g[2] \in 0..OFF_MAX /\ g[1] <= g[2]
    BY LockRangeBytes
<1>3. th[1] \in Tables /\ th[1] \in alive /\ pc[th] = "idle"
    BY <1>1 DEF Threads, Call
<1>4. FilesKept /\ desc'[th[1]][f] = Fid(th[1], f) /\ Fid(th[1], f) \in 1..MaxFids
    BY <1>1, <1>3, GiveFidKeeps DEF Inv
<1>5. CASE Unlock(th, kind, owner, g[1], g[2])
    BY <1>2, <1>4, <1>5, UnlockInv
<1>6. ASSUME NEW type \in {"r", "w"}, set_lock(th, R(type, g))
      PROVE  Inv'
  <2>1. PICK r : r = R(type, g)
    OBVIOUS
  <2>2. LockReq(th, r)
    BY <2>1, <1>2, <1>3, <1>4, FileLocksAssumption DEF LockReq, Request, Kinds, Slots, Tables
  <2>3. desc'[th[1]][r.slot] = r.fid
    BY <2>1, <1>4
  <2> QED
    BY <2>1, <2>2, <2>3, <1>3, <1>4, <1>6, SetLockInv
<1> QED
    BY <1>1, <1>5, <1>6

-----------------------------------------------------------------------------
(* The other calls.                                                        *)

LEMMA RetryInv ==
    ASSUME Inv, NEW th \in Threads, Retry(th)
    PROVE  Inv'
<1>1. FilesKept
    BY DEF Inv, Retry, files, FilesKept, FilesOK
<1>2. pc[th] = "woken" /\ th[1] \in alive /\ LockReq(th, req[th])
    BY DEF Inv, Retry, ReqOK
<1>3. CASE Return(th)
    BY <1>1, <1>2, <1>3, ReturnInv
<1>4. CASE fd_unchanged(th) /\ set_lock(th, req[th])
  <2>1. PICK r : r = req[th]
    OBVIOUS
  <2>2. desc'[th[1]][r.slot] = r.fid
    BY <1>4, <2>1 DEF Retry, files, fd_unchanged
  <2> QED
    BY <1>1, <1>2, <1>4, <2>1, <2>2, SetLockInv
<1> QED
    BY <1>3, <1>4 DEF Retry

LEMMA InterruptedInv ==
    ASSUME Inv, NEW th \in Threads, Interrupted(th)
    PROVE  Inv'
<1> USE DEF Inv, Interrupted, files, table
<1>1. FilesKept
    BY DEF FilesKept, FilesOK
<1>2. ReqOK'
    BY DEF ReqOK, LockReq
<1>3. TableInv' /\ WaiterBlocked'
    BY DEF TableInv, ListOK, Exact, InLimits, ReqOK, WaiterBlocked, find_conflict
<1>4. AllOwned'
    BY <1>1, OwnedKept DEF TableInv, ListOK, LockList, ReqOK, FilesKept, AllOwned
<1> QED
    BY <1>1, <1>2, <1>3, <1>4 DEF FilesKept

(* The replacement of flock's old lock, with the new one or without.       *)
LEMMA FlockInv ==
    ASSUME Inv, NEW th \in Threads, NEW f \in Slots, NEW type \in {"r", "w"},
           flock_bsd(th, f, type)
    PROVE  Inv'
<1> DEFINE fid == Fid(th[1], f)
           old == Hit("flock", fid, 0, OFF_MAX)
           R == [kind |-> "flock", owner |-> fid, type |-> type, s |-> 0, e |-> OFF_MAX,
                 slot |-> f, fid |-> fid]
           woken == WakeIf(old, 0, OFF_MAX)
           room == lock_charge(nlocks - Cardinality(old),
                               [u \in Uids \ {0} |-> charged[u] - Count(old, u)], uid[th[1]])
<1>1. th[1] \in Tables /\ th[1] \in alive /\ pc[th] = "idle" /\ desc[th[1]][f] # None
    BY DEF Threads, Call, flock_bsd
<1>2. FilesKept /\ desc'[th[1]][f] = fid /\ fid \in 1..MaxFids
    BY <1>1, GiveFidKeeps DEF Inv, flock_bsd
<1>3. PICK r : r = R
    OBVIOUS
<1>4. LockReq(th, r) /\ desc'[th[1]][r.slot] = r.fid
    BY <1>2, <1>3, FileLocksAssumption DEF LockReq, Request, Kinds, Slots
<1>5. 0 \in 0..OFF_MAX /\ OFF_MAX \in 0..OFF_MAX /\ 0 <= OFF_MAX
    BY FileLocksAssumption
<1>6. /\ old \subseteq locks
      /\ \A l \in old : l.kind = "flock" /\ l.owner = fid /\ Overlap(l, 0, OFF_MAX)
    BY DEF Hit
<1>7. CASE UNCHANGED <<table, pc, req, raced>>
  <2>1. ReqOK' /\ TableInv' /\ WaiterBlocked'
    BY <1>2, <1>7 DEF Inv, FilesKept, ReqOK, LockReq, table, TableInv, ListOK, Exact, InLimits,
                WaiterBlocked, find_conflict
  <2>2. AllOwned'
    BY <1>2, <1>7, OwnedKept
       DEF Inv, TableInv, ListOK, LockList, table, ReqOK, FilesKept, AllOwned
  <2> QED
    BY <1>2, <2>1, <2>2 DEF Inv, FilesKept
<1>8. CASE /\ ~\E l \in locks \ old : conflicts(l, r)
           /\ room /\ Replace(old, 0, OFF_MAX, {AsLock(th, r)})
           /\ pc' = woken /\ raced' = Raced(th, r) /\ UNCHANGED req
  <2>1. PICK a : a = AsLock(th, r)
    OBVIOUS
  <2>2. ReqOK'
    BY <1>2, <1>8, WakeFacts DEF Inv, FilesKept, ReqOK, LockReq
  <2>3. \A q \in Threads : pc'[q] = "closing" => pc[q] = "closing" /\ req'[q] = req[q]
    BY <1>8, WakeFacts DEF Inv, ReqOK
  <2>4. \A l \in locks : ~conflicts(l, r)
    BY <1>3, <1>6, <1>8 DEF conflicts
  <2>5. /\ a \in Lock /\ Owned(a)' /\ a.s = 0 /\ a.e = OFF_MAX
        /\ a.kind = "flock" /\ a.owner = fid /\ a.uid = uid[th[1]]
        /\ \A l \in locks : ~conflicts(l, a)
    BY <1>1, <1>2, <1>3, <1>4, <1>8, <2>1, <2>3, <2>4, NewOwned
  <2>6. ListOK' /\ Exact' /\ locks' = Replaced(locks, old, 0, OFF_MAX, {a})
    <3>1. /\ {a} \in SUBSET Lock /\ IsFiniteSet({a}) /\ \A x, y \in {a} : x = y
          /\ \A x \in {a} : /\ x.s = 0 /\ x.e = OFF_MAX
                            /\ \A l \in locks : ~conflicts(l, x)
                            /\ Hit(x.kind, x.owner, 0, OFF_MAX) \subseteq old
      BY <2>5, FS_Singleton
    <3>2. ListOK /\ Exact /\ Replace(old, 0, OFF_MAX, {a})
      BY <1>8, <2>1 DEF Inv, TableInv
    <3> HIDE DEF old
    <3> QED
      BY <1>5, <1>6, <3>1, <3>2, ReplaceList
  <2>7. InLimits'
    <3>1. Punched(old, 0, OFF_MAX) = {} /\ Gone(old, 0, OFF_MAX) = old
      BY <1>6, ReplaceWhole DEF Inv, TableInv
    <3>2. nlocks' = nlocks + 0 + 1 - Cardinality(old)
      BY <1>8, <2>1, <3>1, FS_EmptySet, FS_Singleton DEF Replace, Gone
    <3>3. \A u \in Uids \ {0} :
            charged'[u] = charged[u] + 0 + (IF a.uid = u THEN 1 ELSE 0) - Count(old, u)
      BY <1>8, <2>1, <3>1, CountOne DEF Replace, Gone
    <3>4. /\ nlocks \in Nat /\ charged \in [Uids \ {0} -> Nat]
          /\ Cardinality(old) \in Nat /\ \A u : Count(old, u) \in Nat
      BY <1>6, <3>1, CountTypes, FS_CardinalityType DEF Inv, TableInv, ListOK, LockList, Exact
    <3>5. /\ nlocks - Cardinality(old) < LOCKS_MAX
          /\ \A u \in Uids \ {0} : a.uid = u => charged[u] - Count(old, u) < LOCKS_PER_UID
      BY <1>8, <2>5 DEF lock_charge
    <3> HIDE DEF old
    <3> QED
      BY <3>2, <3>3, <3>4, <3>5, FileLocksAssumption DEF InLimits, Inv, TableInv
  <2>8. WaiterBlocked'
    BY <1>8, <2>6, SleepersBlocked
  <2>9. AllOwned'
    <3>1. raced \subseteq raced' /\ alive \subseteq alive'
      BY <1>2, <1>8 DEF Raced, FilesKept
    <3>2. \A m \in (locks \ old) \cup Pieces(old, 0, OFF_MAX) : Owned(m)'
      BY <3>1, <1>2, <1>5, <1>6, <2>3, AllOwnedKept DEF Inv, TableInv, ListOK, FilesKept
    <3> QED
      BY <3>2, <2>5, <2>6 DEF AllOwned, Replaced
  <2> QED
    BY <1>2, <2>2, <2>6, <2>7, <2>8, <2>9 DEF Inv, TableInv, FilesKept
<1>9. CASE /\ Replace(old, 0, OFF_MAX, {})
           /\ raced' = raced
           /\ \/ pc' = woken /\ UNCHANGED req
              \/ /\ \E l \in locks \ old : conflicts(l, r)
                 /\ pc' = [woken EXCEPT ![th] = "asleep"] /\ req' = [req EXCEPT ![th] = r]
  <2>1. TableInv' /\ locks' = locks \ old
    BY <1>6, <1>9, DropList DEF Inv
  <2>2. woken \in [Threads -> {"idle", "asleep", "woken", "closing"}]
    BY WakeFacts DEF Inv
  <2>3. ReqOK'
    BY <1>1, <1>2, <1>4, <1>9, <2>2, WakeFacts DEF Inv, FilesKept, ReqOK, LockReq
  <2>4. WaiterBlocked'
    <3>1. \A q \in Threads : pc'[q] = "asleep" =>
            \/ locks' = locks /\ req'[q] = req[q] /\ find_conflict(req[q])
            \/ req'[q] = r /\ \E l \in locks' : conflicts(l, r)
      BY <1>9, <2>1, <2>2, WakeFacts DEF Inv, WaiterBlocked, ReqOK
    <3> QED
      BY <3>1 DEF WaiterBlocked, find_conflict
  <2>5. \A q \in Threads : pc'[q] = "closing" => pc[q] = "closing" /\ req'[q] = req[q]
    BY <1>9, <2>2, WakeFacts DEF Inv, ReqOK
  <2>6. AllOwned'
    BY <1>2, <1>9, <2>1, <2>5, OwnedKept
       DEF Inv, TableInv, ListOK, LockList, FilesKept, AllOwned
  <2> QED
    BY <1>2, <2>1, <2>3, <2>4, <2>6 DEF Inv, FilesKept
<1> QED
    BY <1>3, <1>7, <1>8, <1>9 DEF flock_bsd

(* A step that touches no lock and takes no descriptor away.               *)
LEMMA TablesOnly ==
    ASSUME Inv, FilesOK', alive \subseteq alive', UNCHANGED <<table, pc, req, raced>>,
           \A t \in alive, f \in Slots : desc[t][f] \notin {0, None} => desc'[t][f] = desc[t][f]
    PROVE  Inv'
<1>1. ReqOK'
    BY DEF Inv, ReqOK, LockReq
<1>2. TableInv' /\ WaiterBlocked'
    BY DEF Inv, table, TableInv, ListOK, Exact, InLimits, ReqOK, WaiterBlocked, find_conflict
<1>3. AllOwned'
    BY OwnedKept DEF Inv, TableInv, ListOK, LockList, table, AllOwned
<1> QED
    BY <1>1, <1>2, <1>3 DEF Inv

LEMMA OpenInv ==
    ASSUME Inv, NEW th \in Threads, NEW f \in Slots, sys_open(th, f)
    PROVE  Inv'
<1>1. FilesOK'
    BY FileLocksAssumption DEF Inv, FilesOK, sys_open, Threads, None
<1>2. \A t \in alive, g \in Slots : desc[t][g] \notin {0, None} => desc'[t][g] = desc[t][g]
    BY DEF Inv, FilesOK, sys_open
<1> QED
    BY <1>1, <1>2, TablesOnly DEF sys_open

LEMMA DupInv ==
    ASSUME Inv, NEW th \in Threads, NEW f \in Slots, NEW g \in Slots, sys_dup(th, f, g)
    PROVE  Inv'
<1> DEFINE t == th[1]
<1>1. t \in Tables
    BY DEF Threads
<1>2. Fid(t, f) \in None..MaxFids /\ nextFid' \in 1..MaxFids + 1
    BY <1>1, FileLocksAssumption DEF Inv, FilesOK, sys_dup, Fid, None
<1>3. FilesOK'
    BY <1>1, <1>2 DEF Inv, FilesOK, sys_dup
<1>4. \A q \in alive, h \in Slots : desc[q][h] \notin {0, None} => desc'[q][h] = desc[q][h]
    BY <1>1 DEF Inv, FilesOK, sys_dup, Fid
<1> QED
    BY <1>3, <1>4, TablesOnly DEF sys_dup

LEMMA ForkInv ==
    ASSUME Inv, NEW th \in Threads, NEW c \in Tables, do_fork(th, c)
    PROVE  Inv'
<1> DEFINE t == th[1]
           fresh == {f \in Slots : desc[t][f] = 0}
           Lower(f) == {g \in fresh : g < f}
           given == [f \in Slots |-> IF f \in fresh THEN nextFid + Cardinality(Lower(f))
                                     ELSE desc[t][f]]
<1>1. /\ t \in Tables /\ t \in alive /\ c \notin alive
      /\ nextFid + Cardinality(fresh) <= MaxFids + 1
      /\ desc' = [desc EXCEPT ![t] = given, ![c] = given]
      /\ nextFid' = nextFid + Cardinality(fresh)
      /\ alive' = alive \cup {c} /\ uid' = [uid EXCEPT ![c] = uid[t]]
    BY DEF Threads, do_fork, Call
<1>2. IsFiniteSet(fresh) /\ Cardinality(fresh) \in Nat
  <2>1. IsFiniteSet(Slots)
    BY FileLocksAssumption, FS_Interval DEF Slots
  <2> QED
    BY <2>1, FS_Subset, FS_CardinalityType
<1>3. \A f \in fresh : Cardinality(Lower(f)) \in Nat /\ Cardinality(Lower(f)) < Cardinality(fresh)
  <2>1. SUFFICES ASSUME NEW f \in fresh
                 PROVE  Cardinality(Lower(f)) \in Nat /\ Cardinality(Lower(f)) < Cardinality(fresh)
    OBVIOUS
  <2>2. Lower(f) \in SUBSET fresh /\ f \notin Lower(f)
    BY FileLocksAssumption DEF Slots
  <2>3. /\ IsFiniteSet(Lower(f)) /\ Cardinality(Lower(f)) <= Cardinality(fresh)
        /\ Cardinality(fresh) = Cardinality(Lower(f)) => fresh = Lower(f)
    BY <1>2, <2>2, FS_Subset
  <2>4. Cardinality(Lower(f)) \in Nat
    BY <2>3, FS_CardinalityType
  <2> QED
    BY <1>2, <2>2, <2>3, <2>4
<1>4. given \in [Slots -> None..MaxFids]
  <2>1. \A f \in Slots : desc[t][f] \in None..MaxFids
    BY <1>1 DEF Inv, FilesOK
  <2>2. \A f \in fresh : nextFid + Cardinality(Lower(f)) \in None..MaxFids
    <3> HIDE DEF fresh, Lower
    <3> QED
      BY <1>1, <1>2, <1>3, FileLocksAssumption DEF Inv, FilesOK, None
  <2> QED
    BY <2>1, <2>2
<1>5. \A f \in Slots : desc[t][f] # 0 => given[f] = desc[t][f]
    OBVIOUS
<1>6. nextFid' \in 1..MaxFids + 1
  <2> HIDE DEF fresh
  <2> QED
    BY <1>1, <1>2, FileLocksAssumption DEF Inv, FilesOK
<1> HIDE DEF given, fresh, Lower
<1>7. FilesOK'
    BY <1>1, <1>4, <1>6 DEF Inv, FilesOK
<1>8. \A q \in alive, f \in Slots : desc[q][f] \notin {0, None} => desc'[q][f] = desc[q][f]
    BY <1>1, <1>5 DEF Inv, FilesOK
<1> QED
    BY <1>1, <1>7, <1>8, TablesOnly DEF do_fork

LEMMA SetUidInv ==
    ASSUME Inv, NEW th \in Threads, NEW u \in Uids, do_setresuid(th, u)
    PROVE  Inv'
<1>1. FilesOK'
    BY DEF Inv, FilesOK, do_setresuid, Threads
<1> QED
    BY <1>1, TablesOnly DEF do_setresuid

LEMMA FlockUnlockInv ==
    ASSUME Inv, NEW th \in Threads, NEW f \in Slots, flock_unlock(th, f)
    PROVE  Inv'
<1> DEFINE hit == Hit("flock", desc[th[1]][f], 0, OFF_MAX)
<1>1. /\ Replace(hit, 0, OFF_MAX, {}) /\ pc' = WakeIf(hit, 0, OFF_MAX)
      /\ UNCHANGED <<files, req, raced>>
    BY DEF flock_unlock
<1>2. hit \subseteq locks
    BY DEF Hit
<1>3. TableInv' /\ locks' = locks \ hit
    BY <1>1, <1>2, DropList DEF Inv
<1>4. FilesOK' /\ ReqOK'
    BY <1>1, WakeFacts DEF Inv, FilesOK, ReqOK, LockReq, files
<1>5. WaiterBlocked'
    BY <1>1, <1>3, WakeFacts DEF Inv, WaiterBlocked, find_conflict
<1>6. AllOwned'
    BY <1>1, <1>3, WakeFacts, OwnedKept DEF Inv, TableInv, ListOK, LockList, files, AllOwned
<1> QED
    BY <1>3, <1>4, <1>5, <1>6 DEF Inv

(* The descriptor closed was the last one open of its description, one of  *)
(* several, or left to closes in progress.                                 *)
LEMMA CloseInv ==
    ASSUME Inv, NEW th \in Threads, NEW f \in Slots, sys_close(th, f)
    PROVE  Inv'
<1> DEFINE t == th[1]
           drop == DroppedBy(t, f)
<1>1. /\ t \in Tables /\ t \in alive /\ pc[th] = "idle" /\ desc[t][f] # None
      /\ Replace(drop, 0, OFF_MAX, {})
      /\ UNCHANGED <<alive, uid, nextFid>>
      /\ raced' = IF fid_in_use(desc, t, f) /\ OthersClosing(t, f)
                  THEN raced \cup LeftBy(desc[t][f]) ELSE raced
    BY DEF Threads, sys_close, Call
<1>2. \/ /\ desc' = [desc EXCEPT ![t][f] = None]
         /\ pc' = WakeIf(drop, 0, OFF_MAX) /\ req' = req
      \/ /\ pc' = [WakeIf(drop, 0, OFF_MAX) EXCEPT ![th] = "closing"]
         /\ req' = [req EXCEPT ![th] = [NoReq EXCEPT !.slot = f, !.fid = desc[t][f]]]
         /\ desc' = desc
    BY DEF sys_close
<1>3. TableInv' /\ locks' = locks \ drop
    BY <1>1, DropList DEF Inv, DroppedBy
<1>4. FilesOK'
  <2>1. None \in None..MaxFids
    BY FileLocksAssumption DEF None
  <2>2. desc' \in [Tables -> [Slots -> None..MaxFids]]
    <3>1. desc \in [Tables -> [Slots -> None..MaxFids]]
      BY DEF Inv, FilesOK
    <3>2. desc' = desc \/ desc' = [desc EXCEPT ![t][f] = None]
      BY <1>2
    <3> QED
      BY <1>1, <2>1, <3>1, <3>2
  <2> QED
    BY <1>1, <2>2 DEF Inv, FilesOK
<1>5. [NoReq EXCEPT !.slot = f, !.fid = desc[t][f]] \in Request
  <2>1. desc[t][f] \in 0..MaxFids
    BY <1>1, FileLocksAssumption DEF Inv, FilesOK, None
  <2>2. f \in 0..NSlots
    BY FileLocksAssumption DEF Slots
  <2>3. NoReq \in Request
    BY FileLocksAssumption DEF NoReq, Request
  <2>4. \A r \in Request, x \in 0..NSlots, d \in 0..MaxFids :
          [r EXCEPT !.slot = x, !.fid = d] \in Request
    BY DEF Request
  <2> QED
    BY <2>1, <2>2, <2>3, <2>4
<1>6. ReqOK'
  <2>1. CASE req' = req /\ pc' = WakeIf(drop, 0, OFF_MAX)
    BY <1>1, <2>1, WakeFacts DEF Inv, ReqOK, LockReq
  <2>2. CASE /\ pc' = [WakeIf(drop, 0, OFF_MAX) EXCEPT ![th] = "closing"]
             /\ req' = [req EXCEPT ![th] = [NoReq EXCEPT !.slot = f, !.fid = desc[t][f]]]
    <3>1. [NoReq EXCEPT !.slot = f, !.fid = desc[t][f]].slot = f
      BY DEF NoReq
    <3> QED
      BY <1>1, <1>5, <2>2, <3>1, WakeFacts DEF Inv, ReqOK, LockReq
  <2> QED
    BY <1>2, <2>1, <2>2
<1>7. WaiterBlocked'
  <2>1. \A q \in Threads : pc'[q] = "asleep" =>
          WakeIf(drop, 0, OFF_MAX)[q] = "asleep" /\ req'[q] = req[q]
    BY <1>2, WakeFacts DEF Inv, ReqOK
  <2> QED
    BY <1>3, <2>1, WakeFacts DEF Inv, WaiterBlocked, find_conflict
<1>8. \A q \in alive, g \in Slots : <<q, g>> # <<t, f>> =>
        desc'[q][g] = desc[q][g] /\ (Closing(q, g)' => Closing(q, g))
  <2>1. \A q \in alive, g \in Slots : <<q, g>> # <<t, f>> => desc'[q][g] = desc[q][g]
    BY <1>1, <1>2 DEF Inv, FilesOK
  <2>2. ASSUME NEW q \in alive, NEW g \in Slots, <<q, g>> # <<t, f>>, Closing(q, g)'
        PROVE  Closing(q, g)
    <3>1. PICK i \in ThreadIds : pc'[<<q, i>>] = "closing" /\ req'[<<q, i>>].slot = g
      BY <2>2 DEF Closing
    <3>2. <<q, i>> \in Threads
      BY DEF Inv, FilesOK, Threads
    <3>3. <<q, i>> # th
      <4>1. CASE req' = req /\ pc' = WakeIf(drop, 0, OFF_MAX)
        BY <1>1, <3>1, <3>2, <4>1, WakeFacts DEF Inv
      <4>2. CASE req' = [req EXCEPT ![th] = [NoReq EXCEPT !.slot = f, !.fid = desc[t][f]]]
        BY <2>2, <3>1, <4>2 DEF NoReq, Inv, ReqOK
      <4> QED
        BY <1>2, <4>1, <4>2
    <3>4. pc[<<q, i>>] = "closing" /\ req'[<<q, i>>] = req[<<q, i>>]
      BY <1>2, <3>1, <3>2, <3>3, WakeFacts DEF Inv, ReqOK
    <3> QED
      BY <3>1, <3>4 DEF Closing
  <2> QED
    BY <2>1, <2>2
<1>9. AllOwned'
  <2>1. SUFFICES ASSUME NEW l \in locks \ drop
                 PROVE  Owned(l)'
    BY <1>3 DEF AllOwned
  <2>2. l \in Lock /\ Owned(l)
    BY DEF Inv, AllOwned, TableInv, ListOK, LockList
  <2>3. CASE <<l.kind, l.owner>> \in raced \/ l.kind = "posix"
    BY <1>1, <2>2, <2>3 DEF Owned
  <2>4. CASE <<l.kind, l.owner>> \notin raced /\ l.kind # "posix" /\ l.owner # desc[t][f]
    BY <1>1, <1>8, <2>2, <2>4 DEF Owned
  <2>5. CASE l.kind # "posix" /\ l.owner = desc[t][f]
    <3>1. fid_in_use(desc, t, f)
      BY <2>1, <2>5 DEF DroppedBy
    <3>2. CASE OthersClosing(t, f)
      BY <1>1, <2>2, <2>5, <3>1, <3>2 DEF Owned, LeftBy, Lock, Kinds
    <3>3. CASE ~OthersClosing(t, f)
      <4>1. PICK q \in alive, g \in Slots :
              <<q, g>> # <<t, f>> /\ desc[q][g] = desc[t][f] /\ ~Closing(q, g)
        BY <3>3 DEF OthersClosing
      <4>2. q \in alive' /\ desc'[q][g] = l.owner /\ ~Closing(q, g)'
        BY <1>1, <1>8, <2>5, <4>1
      <4> QED
        BY <2>5, <4>2 DEF Owned
    <3> QED
      BY <3>2, <3>3
  <2> QED
    BY <2>3, <2>4, <2>5
<1> QED
    BY <1>3, <1>4, <1>6, <1>7, <1>9 DEF Inv

(* The end of a close: the slot it clears was being closed already.        *)
LEMMA CloseEndInv ==
    ASSUME Inv, NEW th \in Threads, CloseEnd(th)
    PROVE  Inv'
<1> DEFINE t == th[1]
           f == req[th].slot
<1>1. /\ pc[th] = "closing" /\ t \in Tables /\ t \in alive /\ f \in Slots
      /\ desc' = [desc EXCEPT ![t][f] = None]
      /\ pc' = [pc EXCEPT ![th] = "idle"] /\ req' = [req EXCEPT ![th] = NoReq]
      /\ raced \subseteq raced'
      /\ UNCHANGED <<alive, uid, nextFid, table>>
    BY DEF Inv, ReqOK, Threads, CloseEnd
<1> HIDE DEF t, f
<1>2. FilesOK'
  <2>1. None \in None..MaxFids
    BY FileLocksAssumption DEF None
  <2> QED
    BY <1>1, <2>1 DEF Inv, FilesOK
<1>3. NoReq \in Request
    BY FileLocksAssumption DEF NoReq, Request
<1>4. ReqOK'
    BY <1>1, <1>3 DEF Inv, ReqOK, LockReq
<1>5. TableInv' /\ WaiterBlocked'
    BY <1>1 DEF Inv, table, TableInv, ListOK, Exact, InLimits, ReqOK, WaiterBlocked, find_conflict
<1>6. Closing(t, f)
  <2>1. PICK i \in ThreadIds : th = <<t, i>>
    BY DEF Threads, t
  <2> QED
    BY <1>1, <2>1 DEF Closing, f
<1>7. \A q \in alive, g \in Slots : ~Closing(q, g) => desc'[q][g] = desc[q][g] /\ ~Closing(q, g)'
  <2>1. \A q \in alive, g \in Slots : ~Closing(q, g) => desc'[q][g] = desc[q][g]
    BY <1>1, <1>6 DEF Inv, FilesOK
  <2>2. \A p \in Threads : pc'[p] = "closing" => pc[p] = "closing" /\ req'[p] = req[p]
    BY <1>1 DEF Inv, ReqOK
  <2> QED
    BY <2>1, <2>2, ClosingKept DEF Inv, FilesOK
<1>8. AllOwned'
  <2>1. SUFFICES ASSUME NEW l \in locks
                 PROVE  Owned(l)'
    BY <1>1 DEF AllOwned, table
  <2>2. Owned(l)
    BY DEF Inv, AllOwned
  <2>3. CASE <<l.kind, l.owner>> \in raced \/ l.kind = "posix"
    BY <1>1, <2>2, <2>3 DEF Owned
  <2>4. CASE <<l.kind, l.owner>> \notin raced /\ l.kind # "posix"
    BY <1>1, <1>7, <2>2, <2>4 DEF Owned
  <2> QED
    BY <2>3, <2>4
<1> QED
    BY <1>2, <1>4, <1>5, <1>8 DEF Inv

(* The end of a process.                                                   *)
LEMMA PutInv ==
    ASSUME Inv, NEW t \in Tables, fdtable_put(t)
    PROVE  Inv'
<1> DEFINE drop == TableDrop(t)
           Lost(f) == /\ desc[t][f] \notin {None, 0}
                      /\ \E q \in alive \ {t}, h \in Slots : desc[q][h] = desc[t][f]
                      /\ \A q \in alive \ {t}, h \in Slots :
                            desc[q][h] = desc[t][f] => Closing(q, h)
<1>1. /\ t \in alive /\ \A i \in ThreadIds : pc[<<t, i>>] = "idle"
      /\ Replace(drop, 0, OFF_MAX, {})
      /\ pc' = WakeIf(drop, 0, OFF_MAX) /\ req' = req
      /\ desc' = [desc EXCEPT ![t] = [f \in Slots |-> None]]
      /\ alive' = alive \ {t}
      /\ UNCHANGED <<uid, nextFid>>
      /\ raced' = raced \cup UNION {LeftBy(desc[t][f]) : f \in {g \in Slots : Lost(g)}}
    BY DEF fdtable_put
<1>2. TableInv' /\ locks' = locks \ drop
    BY <1>1, DropList DEF Inv, TableDrop
<1>3. FilesOK'
  <2>1. [f \in Slots |-> None] \in [Slots -> None..MaxFids]
    BY FileLocksAssumption DEF None
  <2> QED
    BY <1>1, <2>1 DEF Inv, FilesOK
<1>4. ReqOK'
  <2>1. \A th \in Threads : pc[th] # "idle" => th[1] \in alive'
    BY <1>1 DEF Inv, ReqOK, Threads
  <2> QED
    BY <1>1, <2>1, WakeFacts DEF Inv, ReqOK, LockReq
<1>5. WaiterBlocked'
    BY <1>1, <1>2, WakeFacts DEF Inv, WaiterBlocked, find_conflict
<1>6. \A q \in alive \ {t}, g \in Slots :
        q \in alive' /\ desc'[q][g] = desc[q][g] /\ (Closing(q, g)' => Closing(q, g))
  <2>1. \A q \in alive \ {t}, g \in Slots : q \in alive' /\ desc'[q][g] = desc[q][g]
    BY <1>1 DEF Inv, FilesOK
  <2>2. \A p \in Threads : pc'[p] = "closing" => pc[p] = "closing" /\ req'[p] = req[p]
    BY <1>1, WakeFacts DEF Inv
  <2> QED
    BY <2>1, <2>2, ClosingKept DEF Inv, FilesOK
<1>7. AllOwned'
  <2>1. SUFFICES ASSUME NEW l \in locks \ drop
                 PROVE  Owned(l)'
    BY <1>2 DEF AllOwned
  <2>2. l \in Lock /\ Owned(l)
    BY DEF Inv, AllOwned, TableInv, ListOK, LockList
  <2>3. CASE <<l.kind, l.owner>> \in raced
    BY <1>1, <2>3 DEF Owned
  <2>4. CASE l.kind = "posix" /\ l.owner \in alive
    BY <1>1, <2>1, <2>4 DEF Owned, TableDrop
  <2>5. ASSUME l.kind # "posix", NEW q \in alive \ {t}, NEW g \in Slots,
               desc[q][g] = l.owner, ~Closing(q, g)
        PROVE  Owned(l)'
    BY <1>6, <2>5 DEF Owned
  <2>6. ASSUME l.kind # "posix", NEW f \in Slots, desc[t][f] = l.owner
        PROVE  Owned(l)'
    <3>1. \E q \in alive \ {t}, g \in Slots : desc[q][g] = l.owner
      BY <2>1, <2>6 DEF TableDrop
    <3>2. CASE \E q \in alive \ {t}, g \in Slots : desc[q][g] = l.owner /\ ~Closing(q, g)
      BY <2>5, <2>6, <3>2
    <3>3. CASE \A q \in alive \ {t}, g \in Slots : desc[q][g] = l.owner => Closing(q, g)
      <4>1. desc[t][f] \notin {None, 0}
        BY <2>2, <2>6 DEF Lock, None
      <4>2. Lost(f)
        BY <2>6, <3>1, <3>3, <4>1
      <4>3. <<l.kind, l.owner>> \in LeftBy(desc[t][f])
        BY <2>2, <2>6 DEF LeftBy, Lock, Kinds
      <4> HIDE DEF Lost
      <4>4. <<l.kind, l.owner>> \in raced'
        BY <1>1, <4>2, <4>3
      <4> QED
        BY <4>4 DEF Owned
    <3> QED
      BY <3>2, <3>3
  <2> QED
    BY <2>2, <2>3, <2>4, <2>5, <2>6 DEF Owned
<1> QED
    BY <1>2, <1>3, <1>4, <1>5, <1>7 DEF Inv

-----------------------------------------------------------------------------
LEMMA StepInv ==
    ASSUME Inv, [Next]_vars
    PROVE  Inv'
<1>1. CASE UNCHANGED vars
  <2>1. FilesOK' /\ alive' = alive /\ desc' = desc /\ UNCHANGED <<table, pc, req, raced>>
    BY <1>1 DEF vars, files, Inv, FilesOK
  <2> QED
    BY <2>1, TablesOnly
<1>2. CASE Next
    BY <1>2, FlockInv, FlockUnlockInv, FcntlInv, CloseInv, OpenInv, DupInv, InterruptedInv,
       RetryInv, CloseEndInv, ForkInv, SetUidInv, PutInv DEF Next
<1> QED
    BY <1>1, <1>2

(* The inductive invariant holds.                                          *)
THEOREM FileLocksInv == Spec => []Inv
<1>1. Init => Inv
    BY InitInv
<1>2. Inv /\ [Next]_vars => Inv'
    BY StepInv
<1> QED
    BY <1>1, <1>2, PTL DEF Spec

(* The state has its type, and every lock covers bytes of the file.        *)
THEOREM TypeCorrect == Spec => []TypeOK
<1>1. Inv => TypeOK
    BY InvImplies
<1> QED
    BY <1>1, FileLocksInv, PTL

(* find_conflict before every insertion is enough: no two locks that       *)
(* conflict are ever held, whatever unlock_range split or a wait let in    *)
(* between.                                                                *)
THEOREM LocksCompatible == Spec => []NoConflict
<1>1. Inv => NoConflict
    BY InvImplies
<1> QED
    BY <1>1, FileLocksInv, PTL

(* unlock_range before every insertion keeps an owner's locks apart.       *)
THEOREM OwnersApart == Spec => []OwnerDisjoint
<1>1. Inv => OwnerDisjoint
    BY InvImplies
<1> QED
    BY <1>1, FileLocksInv, PTL

(* lock_charge and lock_uncharge count what is in the list, and the limits *)
(* hold, though an insertion is charged before what it splits.             *)
THEOREM CountsRight == Spec => []CountsExact
<1>1. Inv => CountsExact
    BY InvImplies
<1> QED
    BY <1>1, FileLocksInv, PTL

(* Every change that may end a wait wakes lock_wq.                         *)
THEOREM WaitersBlocked == Spec => []WaiterBlocked
<1>1. Inv => WaiterBlocked
    BY InvImplies
<1> QED
    BY <1>1, FileLocksInv, PTL

(* flock_fd_closed and fdtable_put leave no lock without an owner, except  *)
(* where another close was in progress.                                    *)
THEOREM NoneStranded == Spec => []NoStrandedLock
<1>1. Inv => NoStrandedLock
    BY InvImplies
<1> QED
    BY <1>1, FileLocksInv, PTL
=============================================================================
