----------------------------- MODULE TlbProofs ------------------------------
(***************************************************************************)
(* No CPU reaches a freed frame, for any number of CPUs, frames and        *)
(* shootdowns, with generation counters that wrap any number of times.     *)
(*                                                                         *)
(* Generations are compared by their distance back from the newest request *)
(* of the CPU they belong to, which does not wrap.  Each generation a CPU  *)
(* has still to acknowledge is wanted by a sender that waits for it, so    *)
(* there are never more of them than CPUs, and the signed comparison of    *)
(* the wait loop is right about each of them.                              *)
(***************************************************************************)
EXTENDS TlbShootdown, FiniteSetTheorems, TLAPS

(* How far generation g is behind generation r, and behind the newest      *)
(* request of CPU d.                                                       *)
Distance(r, g) == IF g <= r THEN r - g ELSE r - g + GEN
Back(d, g) == Distance(tlb_req_gen[d], g)

(* The generations d has not acknowledged.                                 *)
Lag(d) == Back(d, tlb_ack_gen[d])

(* Sender c has made its request of d and does not know it acknowledged.   *)
Posted(c, d) ==
    /\ mode[c] \in {"post", "ipi", "wait"}
    /\ d \in target[c]
    /\ mode[c] = "post" => d \notin todo[c]
    /\ mode[c] = "wait" => d \in todo[c]

(* Each generation not acknowledged has a sender that wants it.            *)
LagWanted ==
    \A d \in CPUs : \A k \in 0..(Lag(d) - 1) :
        \E c \in CPUs : Posted(c, d) /\ Back(d, want[c][d]) = k

(* What d is about to acknowledge is not older than what it has.           *)
SampleOrder ==
    \A d \in CPUs : serving[d] # "no" => Back(d, sample[d]) <= Lag(d)

(* The loop over the requests runs over targets.                           *)
TodoOK == \A c \in CPUs : mode[c] = "post" => todo[c] \subseteq target[c]

(* A frame is mapped, free, or being freed by one sender.                  *)
OneUse ==
    /\ pte \notin free
    /\ \A c \in CPUs :
         /\ victim[c] # NoFrame <=> mode[c] \in Sending
         /\ victim[c] # NoFrame => victim[c] \notin free \cup {pte}
         /\ \A e \in CPUs \ {c} : victim[c] # NoFrame => victim[c] # victim[e]

(* A CPU caches the page only while it is in the address space, and only   *)
(* one that is online can be.                                              *)
InSpace ==
    \A d \in CPUs :
        /\ cached[d] # NoFrame => inmm[d]
        /\ inmm[d] => online[d]
        /\ online[d] <=> mode[d] # "off"

(* The flush of d is still ahead, and sender c is going to wait for it.    *)
Waits(c, d) ==
    \/ mode[c] = "cut" /\ online[d] /\ (g_bkl = c => inmm[d])
    \/ mode[c] = "post" /\ d \in todo[c]
    \/ /\ Posted(c, d) /\ Back(d, want[c][d]) < Lag(d)
       /\ serving[d] = "flushed" => Back(d, want[c][d]) < Back(d, sample[d])

(* A CPU that caches a frame not mapped any more has its flush ahead.      *)
FlushAhead ==
    \A d \in CPUs : cached[d] # NoFrame =>
        \/ cached[d] = pte
        \/ \E c \in CPUs \ {d} : victim[c] = cached[d] /\ Waits(c, d)

Inv == TypeOK /\ LagWanted /\ SampleOrder /\ TodoOK /\ OneUse /\ InSpace /\ FlushAhead

-----------------------------------------------------------------------------
(* Arithmetic of the generations.                                          *)

LEMMA ModFacts ==
    ASSUME NEW a \in Int, NEW g \in Nat \ {0}
    PROVE  /\ 0 <= a /\ a < g => a % g = a
           /\ -g <= a /\ a < 0 => a % g = a + g
           /\ a = g => a % g = 0
OBVIOUS

LEMMA HalfFacts ==
    ASSUME NEW g \in Nat
    PROVE  g \div 2 \in Nat /\ g % 2 \in Nat /\ g = 2 * (g \div 2) + (g % 2)
OBVIOUS

(* There are CPUs, and more than twice as many generations.                *)
LEMMA GenBig ==
    /\ Cardinality(CPUs) \in Nat \ {0}
    /\ GEN \in Nat \ {0} /\ 2 * Cardinality(CPUs) < GEN
BY TlbAssumption, FS_CardinalityType, FS_EmptySet

(* Distances are below GEN.                                                *)
LEMMA DistanceType ==
    ASSUME NEW r \in 0..(GEN - 1), NEW g \in 0..(GEN - 1)
    PROVE  Distance(r, g) \in 0..(GEN - 1) /\ Distance(r, r) = 0
BY GenBig DEF Distance

LEMMA BackType ==
    ASSUME TypeOK, NEW d \in CPUs, NEW g \in 0..(GEN - 1)
    PROVE  Back(d, g) \in 0..(GEN - 1) /\ Back(d, tlb_req_gen[d]) = 0
BY DistanceType DEF TypeOK, Back

(* A request raises every distance by one, unless it would be GEN.         *)
LEMMA NextGen ==
    ASSUME NEW r \in 0..(GEN - 1), NEW g \in 0..(GEN - 1)
    PROVE  /\ (r + 1) % GEN \in 0..(GEN - 1)
           /\ Distance(r, g) < GEN - 1 => Distance((r + 1) % GEN, g) = Distance(r, g) + 1
<1>1. (r + 1) % GEN = IF r + 1 = GEN THEN 0 ELSE r + 1
    BY GenBig, ModFacts
<1> QED
    BY <1>1, GenBig DEF Distance

(* The comparison of the wait loop sees that w is newer than a.            *)
LEMMA BehindNewer ==
    ASSUME NEW r \in 0..(GEN - 1), NEW a \in 0..(GEN - 1), NEW w \in 0..(GEN - 1),
           Distance(r, w) < Distance(r, a), Distance(r, a) <= Cardinality(CPUs)
    PROVE  Behind(a, w)
<1>1. PICK x \in Int : x = a - w
    OBVIOUS
<1>2. x % GEN = IF x >= 0 THEN x ELSE x + GEN
    BY <1>1, GenBig, ModFacts, SMTT(20)
<1>3. x % GEN >= GEN - Cardinality(CPUs)
    BY <1>1, <1>2, GenBig DEF Distance
<1>4. GEN - Cardinality(CPUs) >= (GEN \div 2) + (GEN % 2)
    BY GenBig, HalfFacts
<1>5. x % GEN >= (GEN \div 2) + (GEN % 2)
    BY <1>1, <1>2, <1>3, <1>4, GenBig, HalfFacts
<1> QED
    BY <1>1, <1>5 DEF Behind

(* There are never more generations to acknowledge than CPUs.              *)
LEMMA LagBound ==
    ASSUME TypeOK, LagWanted, NEW d \in CPUs
    PROVE  Lag(d) \in 0..Cardinality(CPUs)
<1> DEFINE K == 0..(Lag(d) - 1)
           f == [k \in K |-> CHOOSE c \in CPUs : Posted(c, d) /\ Back(d, want[c][d]) = k]
<1>1. Lag(d) \in Nat
    BY BackType DEF TypeOK, Lag
<1>2. \A k \in K : f[k] \in CPUs /\ Back(d, want[f[k]][d]) = k
    BY DEF LagWanted
<1>3. f \in Injection(K, CPUs)
    BY <1>2 DEF Injection, IsInjective
<1>4. Cardinality(K) <= Cardinality(CPUs)
    BY <1>3, FS_Injection, TlbAssumption
<1>5. Cardinality(K) = Lag(d)
    BY <1>1, FS_Interval
<1> QED
    BY <1>1, <1>4, <1>5, GenBig

-----------------------------------------------------------------------------
(* The initial states satisfy the invariant.                               *)
LEMMA InitInv == Init => Inv
<1> SUFFICES ASSUME Init PROVE Inv
    OBVIOUS
<1>1. TypeOK
    BY TlbAssumption, GenBig DEF Init, TypeOK, Sending
<1>2. \A d \in CPUs : Lag(d) = 0
    BY <1>1, BackType DEF Lag, Init, TypeOK
<1>3. LagWanted
    BY <1>2 DEF LagWanted
<1>4. SampleOrder /\ TodoOK /\ OneUse /\ InSpace /\ FlushAhead
    BY TlbAssumption DEF Init, SampleOrder, TodoOK, OneUse, InSpace, FlushAhead, Sending
<1> QED
    BY <1>1, <1>3, <1>4 DEF Inv

(* The generations not acknowledged stay wanted if the senders that wait stay. *)
LEMMA LagWantedKept ==
    ASSUME LagWanted, UNCHANGED <<tlb_req_gen, tlb_ack_gen, want>>,
           \A c, d \in CPUs : Posted(c, d) => Posted(c, d)'
    PROVE  LagWanted'
BY DEF LagWanted, Lag, Back

(* An AP that comes up has cached nothing of the address space.            *)
LEMMA OnlineInv ==
    ASSUME NEW c \in CPUs, Inv, Online(c)
    PROVE  Inv'
<1> USE TlbAssumption DEF Online, Inv, gens, servers, senders, memory
<1>1. TypeOK'
    BY DEF TypeOK, Sending
<1>2. LagWanted'
    BY LagWantedKept DEF TypeOK, Posted
<1>3. SampleOrder'
    BY DEF TypeOK, SampleOrder, Lag, Back
<1>4. TodoOK'
    BY DEF TypeOK, TodoOK
<1>5. OneUse'
    BY DEF TypeOK, OneUse, Sending
<1>6. InSpace'
    BY DEF TypeOK, InSpace
<1>7. FlushAhead'
    BY SMTT(20) DEF TypeOK, FlushAhead, Waits, Posted, Lag, Back
<1> QED
    BY <1>1, <1>2, <1>3, <1>4, <1>5, <1>6, <1>7 DEF Inv

(* A trap changes nothing the invariant is about but the mode.             *)
LEMMA TrapInv ==
    ASSUME NEW c \in CPUs, Inv, Trap(c)
    PROVE  Inv'
<1> USE TlbAssumption DEF Trap, Inv, gens, servers, senders, memory
<1>1. TypeOK'
    BY DEF TypeOK, Sending
<1>2. LagWanted'
    BY LagWantedKept DEF TypeOK, Posted
<1>3. SampleOrder'
    BY DEF TypeOK, SampleOrder, Lag, Back
<1>4. TodoOK'
    BY DEF TypeOK, TodoOK
<1>5. OneUse'
    BY DEF TypeOK, OneUse, Sending
<1>6. InSpace'
    BY DEF TypeOK, InSpace
<1>7. FlushAhead'
    BY SMTT(20) DEF TypeOK, FlushAhead, Waits, Posted, Lag, Back
<1> QED
    BY <1>1, <1>2, <1>3, <1>4, <1>5, <1>6, <1>7 DEF Inv

(* So does taking the lock: the taker was no sender.                       *)
LEMMA AcquireInv ==
    ASSUME NEW c \in CPUs, Inv, Acquire(c)
    PROVE  Inv'
<1> USE TlbAssumption DEF Acquire, Inv, gens, servers, senders, memory
<1>1. TypeOK'
    BY DEF TypeOK, Sending
<1>2. LagWanted'
    BY LagWantedKept DEF TypeOK, Posted
<1>3. SampleOrder'
    BY DEF TypeOK, SampleOrder, Lag, Back
<1>4. TodoOK'
    BY DEF TypeOK, TodoOK
<1>5. OneUse'
    BY DEF TypeOK, OneUse, Sending
<1>6. InSpace'
    BY DEF TypeOK, InSpace
<1>7. FlushAhead'
    BY SMTT(20) DEF TypeOK, FlushAhead, Waits, Posted, Lag, Back
<1> QED
    BY <1>1, <1>2, <1>3, <1>4, <1>5, <1>6, <1>7 DEF Inv

(* So does giving it back.                                                 *)
LEMMA ReleaseInv ==
    ASSUME NEW c \in CPUs, Inv, Release(c)
    PROVE  Inv'
<1> USE TlbAssumption DEF Release, Inv, gens, servers, senders, memory
<1>1. TypeOK'
    BY DEF TypeOK, Sending
<1>2. LagWanted'
    BY LagWantedKept DEF TypeOK, Posted
<1>3. SampleOrder'
    BY DEF TypeOK, SampleOrder, Lag, Back
<1>4. TodoOK'
    BY DEF TypeOK, TodoOK
<1>5. OneUse'
    BY DEF TypeOK, OneUse, Sending
<1>6. InSpace'
    BY DEF TypeOK, InSpace
<1>7. FlushAhead'
    BY DEF TypeOK, FlushAhead, Waits, Posted, Lag, Back
<1> QED
    BY <1>1, <1>2, <1>3, <1>4, <1>5, <1>6, <1>7 DEF Inv

(* A switch empties the TLB.                                               *)
LEMMA DispatchInv ==
    ASSUME NEW c \in CPUs, Inv, Dispatch(c)
    PROVE  Inv'
<1> USE TlbAssumption DEF Dispatch, Inv, gens, servers, senders, memory
<1>1. TypeOK'
    BY DEF TypeOK, Sending
<1>2. LagWanted'
    BY LagWantedKept DEF TypeOK, Posted
<1>3. SampleOrder'
    BY DEF TypeOK, SampleOrder, Lag, Back
<1>4. TodoOK'
    BY DEF TypeOK, TodoOK
<1>5. OneUse'
    BY DEF TypeOK, OneUse, Sending
<1>6. InSpace'
    BY DEF TypeOK, InSpace
<1>7. FlushAhead'
    BY DEF TypeOK, FlushAhead, Waits, Posted, Lag, Back
<1> QED
    BY <1>1, <1>2, <1>3, <1>4, <1>5, <1>6, <1>7 DEF Inv

(* The processor caches what is mapped now.                                *)
LEMMA TouchInv ==
    ASSUME NEW c \in CPUs, Inv, Touch(c)
    PROVE  Inv'
<1> USE TlbAssumption DEF Touch, Inv, gens, servers, senders, memory
<1>1. TypeOK'
    BY DEF TypeOK, Sending
<1>2. LagWanted'
    BY LagWantedKept DEF TypeOK, Posted
<1>3. SampleOrder'
    BY DEF TypeOK, SampleOrder, Lag, Back
<1>4. TodoOK'
    BY DEF TypeOK, TodoOK
<1>5. OneUse'
    BY DEF TypeOK, OneUse, Sending
<1>6. InSpace'
    BY DEF TypeOK, InSpace
<1>7. FlushAhead'
    BY DEF TypeOK, FlushAhead, Waits, Posted, Lag, Back
<1> QED
    BY <1>1, <1>2, <1>3, <1>4, <1>5, <1>6, <1>7 DEF Inv

(* The IPI samples the newest request.                                     *)
LEMMA TakeIpiInv ==
    ASSUME NEW c \in CPUs, Inv, TakeIpi(c)
    PROVE  Inv'
<1> USE TlbAssumption DEF TakeIpi, Interrupted, Inv, gens, servers, senders, memory
<1>1. TypeOK'
    BY DEF TypeOK, Sending
<1>2. LagWanted'
    BY LagWantedKept DEF TypeOK, Posted
<1>3. Back(c, tlb_req_gen[c]) = 0 /\ Lag(c) \in 0..(GEN - 1)
    BY BackType DEF TypeOK, Lag
<1>4. SampleOrder'
    BY <1>3 DEF TypeOK, SampleOrder, Lag, Back
<1>5. TodoOK'
    BY DEF TypeOK, TodoOK
<1>6. OneUse'
    BY DEF TypeOK, OneUse, Sending
<1>7. InSpace'
    BY DEF TypeOK, InSpace
<1>8. FlushAhead'
    BY DEF TypeOK, FlushAhead, Waits, Posted, Lag, Back
<1> QED
    BY <1>1, <1>2, <1>3, <1>4, <1>5, <1>6, <1>7, <1>8 DEF Inv

(* So does a spin loop.                                                    *)
LEMMA PollServeInv ==
    ASSUME NEW c \in CPUs, Inv, PollServe(c)
    PROVE  Inv'
<1> USE TlbAssumption DEF PollServe, Polls, Inv, gens, servers, senders, memory
<1>1. TypeOK'
    BY DEF TypeOK, Sending
<1>2. LagWanted'
    BY LagWantedKept DEF TypeOK, Posted
<1>3. Back(c, tlb_req_gen[c]) = 0 /\ Lag(c) \in 0..(GEN - 1)
    BY BackType DEF TypeOK, Lag
<1>4. SampleOrder'
    BY <1>3 DEF TypeOK, SampleOrder, Lag, Back
<1>5. TodoOK'
    BY DEF TypeOK, TodoOK
<1>6. OneUse'
    BY DEF TypeOK, OneUse, Sending
<1>7. InSpace'
    BY DEF TypeOK, InSpace
<1>8. FlushAhead'
    BY SMTT(20) DEF TypeOK, FlushAhead, Waits, Posted, Lag, Back
<1> QED
    BY <1>1, <1>2, <1>3, <1>4, <1>5, <1>6, <1>7, <1>8 DEF Inv

(* The flush leaves nothing cached.                                        *)
LEMMA FlushInv ==
    ASSUME NEW c \in CPUs, Inv, Flush(c)
    PROVE  Inv'
<1> USE TlbAssumption DEF Flush, Inv, gens, servers, senders, memory
<1>1. TypeOK'
    BY DEF TypeOK, Sending
<1>2. LagWanted'
    BY LagWantedKept DEF TypeOK, Posted
<1>3. SampleOrder'
    BY DEF TypeOK, SampleOrder, Lag, Back
<1>4. TodoOK'
    BY DEF TypeOK, TodoOK
<1>5. OneUse'
    BY DEF TypeOK, OneUse, Sending
<1>6. InSpace'
    BY DEF TypeOK, InSpace
<1>7. FlushAhead'
    BY DEF TypeOK, FlushAhead, Waits, Posted, Lag, Back
<1> QED
    BY <1>1, <1>2, <1>3, <1>4, <1>5, <1>6, <1>7 DEF Inv

(* A page gets a free frame, which no TLB holds and no sender frees.       *)
LEMMA MapInv ==
    ASSUME NEW c \in CPUs, Inv, Map(c)
    PROVE  Inv'
<1> USE TlbAssumption DEF Map, Inv, gens, servers, senders, memory, MayChange
<1>1. TypeOK'
    BY DEF TypeOK, Sending
<1>2. LagWanted'
    BY LagWantedKept DEF TypeOK, Posted
<1>3. SampleOrder'
    BY DEF TypeOK, SampleOrder, Lag, Back
<1>4. TodoOK'
    BY DEF TypeOK, TodoOK
<1>5. OneUse'
    BY DEF TypeOK, OneUse, Sending
<1>6. InSpace'
    BY DEF TypeOK, InSpace
<1>7. FlushAhead'
    BY DEF TypeOK, FlushAhead, Waits, Posted, Lag, Back
<1> QED
    BY <1>1, <1>2, <1>3, <1>4, <1>5, <1>6, <1>7 DEF Inv

(* An IPI more changes nothing.                                            *)
LEMMA ResendInv ==
    ASSUME NEW c \in CPUs, Inv, Resend(c)
    PROVE  Inv'
<1> USE TlbAssumption DEF Resend, Inv, gens, servers, senders, memory
<1>1. TypeOK'
    BY DEF TypeOK, Sending
<1>2. LagWanted'
    BY LagWantedKept DEF TypeOK, Posted
<1>3. SampleOrder'
    BY DEF TypeOK, SampleOrder, Lag, Back
<1>4. TodoOK'
    BY DEF TypeOK, TodoOK
<1>5. OneUse'
    BY DEF TypeOK, OneUse, Sending
<1>6. InSpace'
    BY DEF TypeOK, InSpace
<1>7. FlushAhead'
    BY DEF TypeOK, FlushAhead, Waits, Posted, Lag, Back
<1> QED
    BY <1>1, <1>2, <1>3, <1>4, <1>5, <1>6, <1>7 DEF Inv

(* Nor do the IPIs of the second loop.                                     *)
LEMMA SendIpiInv ==
    ASSUME NEW c \in CPUs, Inv, SendIpi(c)
    PROVE  Inv'
<1> USE TlbAssumption DEF SendIpi, Inv, gens, servers, senders, memory
<1>1. TypeOK'
    BY DEF TypeOK, Sending
<1>2. LagWanted'
    BY LagWantedKept DEF TypeOK, Posted
<1>3. SampleOrder'
    BY DEF TypeOK, SampleOrder, Lag, Back
<1>4. TodoOK'
    BY DEF TypeOK, TodoOK
<1>5. OneUse'
    BY DEF TypeOK, OneUse, Sending
<1>6. InSpace'
    BY DEF TypeOK, InSpace
<1>7. FlushAhead'
    BY DEF TypeOK, FlushAhead, Waits, Posted, Lag, Back
<1> QED
    BY <1>1, <1>2, <1>3, <1>4, <1>5, <1>6, <1>7 DEF Inv

(* The unmapped frame has a sender, and the CPUs that cache it are its targets. *)
LEMMA UnmapInv ==
    ASSUME NEW c \in CPUs, Inv, Unmap(c)
    PROVE  Inv'
<1> USE TlbAssumption DEF Unmap, Inv, gens, servers, senders, memory, MayChange
<1>1. TypeOK'
    BY DEF TypeOK, Sending
<1>2. LagWanted'
    BY LagWantedKept DEF TypeOK, Posted
<1>3. SampleOrder'
    BY DEF TypeOK, SampleOrder, Lag, Back
<1>4. TodoOK'
    BY DEF TypeOK, TodoOK
<1>5. OneUse'
    BY DEF TypeOK, OneUse, Sending
<1>6. InSpace'
    BY DEF TypeOK, InSpace
<1>7. FlushAhead'
  <2>1. \A d \in CPUs : cached'[d] # NoFrame => d # c /\ cached'[d] = cached[d]
    BY DEF TypeOK
  <2>2. ASSUME NEW d \in CPUs, cached'[d] # NoFrame, cached[d] = pte
        PROVE  d # c /\ victim'[c] = cached'[d] /\ Waits(c, d)'
    BY <2>1, <2>2 DEF TypeOK, InSpace, Waits
  <2>3. ASSUME NEW d \in CPUs, NEW e \in CPUs \ {d}, cached'[d] # NoFrame,
               victim[e] = cached[d], Waits(e, d)
        PROVE  victim'[e] = cached'[d] /\ Waits(e, d)'
    <3>1. e # c
      BY <2>1, <2>3 DEF OneUse, Sending
    <3>2. Waits(e, d)'
      BY <3>1, <2>3 DEF TypeOK, Waits, Posted, Lag, Back
    <3> QED
      BY <3>1, <3>2, <2>1, <2>3 DEF TypeOK
  <2> QED
    BY <2>1, <2>2, <2>3 DEF FlushAhead
<1> QED
    BY <1>1, <1>2, <1>3, <1>4, <1>5, <1>6, <1>7 DEF Inv

(* The snapshot holds every CPU that caches the frame.                     *)
LEMMA SnapshotInv ==
    ASSUME NEW c \in CPUs, Inv, Snapshot(c)
    PROVE  Inv'
<1> USE TlbAssumption DEF Snapshot, Inv, gens, servers, senders, memory, Targets
<1>1. TypeOK'
    BY DEF TypeOK, Sending
<1>2. LagWanted'
    BY LagWantedKept DEF TypeOK, Posted
<1>3. SampleOrder'
    BY DEF TypeOK, SampleOrder, Lag, Back
<1>4. TodoOK'
    BY DEF TypeOK, TodoOK
<1>5. OneUse'
    BY DEF TypeOK, OneUse, Sending
<1>6. InSpace'
    BY DEF TypeOK, InSpace
<1>7. FlushAhead'
    BY SMTT(20) DEF TypeOK, FlushAhead, Waits, Posted, Lag, Back
<1> QED
    BY <1>1, <1>2, <1>3, <1>4, <1>5, <1>6, <1>7 DEF Inv

(* The loops hand the targets on.                                          *)
LEMMA NextLoopInv ==
    ASSUME NEW c \in CPUs, Inv, NextLoop(c)
    PROVE  Inv'
<1> USE TlbAssumption DEF NextLoop, Inv, gens, servers, senders, memory
<1>1. TypeOK'
    BY DEF TypeOK, Sending
<1>2. LagWanted'
    BY LagWantedKept DEF TypeOK, Posted
<1>3. SampleOrder'
    BY DEF TypeOK, SampleOrder, Lag, Back
<1>4. TodoOK'
    BY DEF TypeOK, TodoOK
<1>5. OneUse'
    BY DEF TypeOK, OneUse, Sending
<1>6. InSpace'
    BY DEF TypeOK, InSpace
<1>7. FlushAhead'
    BY DEF TypeOK, FlushAhead, Waits, Posted, Lag, Back
<1> QED
    BY <1>1, <1>2, <1>3, <1>4, <1>5, <1>6, <1>7 DEF Inv

(* Nobody caches the frame when every target has acknowledged.             *)
LEMMA FinishInv ==
    ASSUME NEW c \in CPUs, Inv, Finish(c)
    PROVE  Inv'
<1> USE TlbAssumption DEF Finish, Inv, gens, servers, senders, memory
<1>1. TypeOK'
    BY DEF TypeOK, Sending, OneUse
<1>2. LagWanted'
    BY LagWantedKept DEF TypeOK, Posted
<1>3. SampleOrder'
    BY DEF TypeOK, SampleOrder, Lag, Back
<1>4. TodoOK'
    BY DEF TypeOK, TodoOK
<1>5. OneUse'
    BY DEF TypeOK, OneUse, Sending
<1>6. InSpace'
    BY DEF TypeOK, InSpace
<1>7. FlushAhead'
    BY DEF TypeOK, FlushAhead, Waits, Posted, Lag, Back
<1> QED
    BY <1>1, <1>2, <1>3, <1>4, <1>5, <1>6, <1>7 DEF Inv

(* Only a generation that has been acknowledged is taken for one.          *)
LEMMA AckedInv ==
    ASSUME NEW c \in CPUs, Inv, Acked(c)
    PROVE  Inv'
<1> USE TlbAssumption DEF Acked, Inv, gens, servers, senders, memory
<1>1. TypeOK'
    BY DEF TypeOK, Sending
<1>2. LagWanted'
  <2>1. PICK e \in todo[c] : /\ ~Behind(tlb_ack_gen[e], want[c][e])
                             /\ todo' = [todo EXCEPT ![c] = @ \ {e}]
      OBVIOUS
  <2>2. e \in CPUs /\ Lag(e) \in 0..Cardinality(CPUs)
      BY <2>1, LagBound DEF TypeOK
  <2>3. ~(Back(e, want[c][e]) < Lag(e))
      BY <2>1, <2>2, BehindNewer DEF TypeOK, Lag, Back
  <2>4. ASSUME NEW d \in CPUs, NEW k \in 0..(Lag(d) - 1)
        PROVE  \E f \in CPUs : Posted(f, d)' /\ Back(d, want[f][d]) = k
    <3>1. PICK f \in CPUs : Posted(f, d) /\ Back(d, want[f][d]) = k
        BY DEF LagWanted
    <3>2. ~(f = c /\ d = e)
        BY <2>2, <2>3, <3>1
    <3> QED
        BY <2>1, <2>2, <3>1, <3>2 DEF TypeOK, Posted
  <2> QED
      BY <2>4 DEF LagWanted, Lag, Back
<1>3. SampleOrder'
    BY DEF TypeOK, SampleOrder, Lag, Back
<1>4. TodoOK'
    BY DEF TypeOK, TodoOK
<1>5. OneUse'
    BY DEF TypeOK, OneUse, Sending
<1>6. InSpace'
    BY DEF TypeOK, InSpace
<1>7. FlushAhead'
  <2>1. PICK e \in todo[c] : /\ ~Behind(tlb_ack_gen[e], want[c][e])
                             /\ todo' = [todo EXCEPT ![c] = @ \ {e}]
      OBVIOUS
  <2>2. e \in CPUs /\ Lag(e) \in 0..Cardinality(CPUs)
      BY <2>1, LagBound DEF TypeOK
  <2>3. ~(Back(e, want[c][e]) < Lag(e))
      BY <2>1, <2>2, BehindNewer DEF TypeOK, Lag, Back
  <2>4. ~Waits(c, e)
      BY <2>3 DEF Waits
  <2>5. ASSUME NEW f \in CPUs, NEW d \in CPUs, Waits(f, d) PROVE Waits(f, d)'
      BY <2>1, <2>2, <2>4, <2>5 DEF TypeOK, Waits, Posted, Lag, Back
  <2> QED
      BY <2>5 DEF FlushAhead
<1> QED
    BY <1>1, <1>2, <1>3, <1>4, <1>5, <1>6, <1>7 DEF Inv

(* The acknowledgement is of the generation sampled before the flush.      *)
LEMMA AckInv ==
    ASSUME NEW c \in CPUs, Inv, Ack(c)
    PROVE  Inv'
<1> USE TlbAssumption DEF Ack, Inv, gens, servers, senders, memory
<1>1. TypeOK'
    BY DEF TypeOK, Sending
<1>2. LagWanted'
  <2>1. Lag(c) \in 0..Cardinality(CPUs) /\ Back(c, sample[c]) \in 0..Lag(c)
      BY LagBound, BackType, SMTT(20) DEF TypeOK, SampleOrder
  <2>2. /\ Lag(c)' = Back(c, sample[c])
        /\ \A d \in CPUs \ {c} : Lag(d)' = Lag(d)
      BY DEF TypeOK, Lag, Back
  <2>3. \A d \in CPUs : 0..(Lag(d)' - 1) \subseteq 0..(Lag(d) - 1)
      BY <2>1, <2>2, LagBound
  <2> QED
      BY <2>3 DEF LagWanted, Posted, Back
<1>3. SampleOrder'
    BY DEF TypeOK, SampleOrder, Lag, Back
<1>4. TodoOK'
    BY DEF TypeOK, TodoOK
<1>5. OneUse'
    BY DEF TypeOK, OneUse, Sending
<1>6. InSpace'
    BY DEF TypeOK, InSpace
<1>7. FlushAhead'
  <2>1. /\ Lag(c)' = Back(c, sample[c]) /\ serving[c] = "flushed" /\ serving'[c] = "no"
        /\ \A d \in CPUs \ {c} : Lag(d)' = Lag(d) /\ serving'[d] = serving[d]
        /\ \A d \in CPUs : sample'[d] = sample[d] /\ tlb_req_gen'[d] = tlb_req_gen[d]
      BY DEF TypeOK, Lag, Back
  <2>2. ASSUME NEW b \in CPUs, NEW d \in CPUs, Waits(b, d) PROVE Waits(b, d)'
      BY ONLY <2>1, <2>2, b \in CPUs, d \in CPUs, c \in CPUs, Ack(c)
         DEF Waits, Posted, Back, Ack, senders, memory
  <2>3. cached' = cached /\ pte' = pte /\ victim' = victim
      OBVIOUS
  <2> QED
      BY ONLY <2>2, <2>3, FlushAhead DEF FlushAhead
<1> QED
    BY <1>1, <1>2, <1>3, <1>4, <1>5, <1>6, <1>7 DEF Inv

(* A request is the newest generation of its target, which it puts in a    *)
(* place of its own; the other distances grow by one.                      *)
LEMMA PostInv ==
    ASSUME NEW c \in CPUs, Inv, Post(c)
    PROVE  Inv'
<1> USE TlbAssumption DEF Inv
<1>1. PICK e \in todo[c] :
          /\ tlb_req_gen' = [tlb_req_gen EXCEPT ![e] = (tlb_req_gen[e] + 1) % GEN]
          /\ want' = [want EXCEPT ![c][e] = (tlb_req_gen[e] + 1) % GEN]
          /\ todo' = [todo EXCEPT ![c] = @ \ {e}]
    BY DEF Post
<1>2. /\ mode[c] = "post" /\ serving[c] = "no"
      /\ UNCHANGED <<g_bkl, mode, online, inmm, tlb_ack_gen, ipi, serving, sample, target,
                     victim, g_tlb_sends, pte, cached, free>>
    BY DEF Post, servers, memory
<1>3. e \in CPUs /\ e \in target[c]
    BY <1>1, <1>2 DEF TypeOK, TodoOK
<1> DEFINE g == (tlb_req_gen[e] + 1) % GEN
<1>4. g \in 0..(GEN - 1)
    BY <1>3, NextGen DEF TypeOK
<1>5. TypeOK'
    BY <1>1, <1>2, <1>3, <1>4 DEF TypeOK, Sending
<1>6. /\ tlb_req_gen'[e] = g /\ want'[c][e] = g
      /\ \A d \in CPUs \ {e} : tlb_req_gen'[d] = tlb_req_gen[d]
      /\ \A f, d \in CPUs : ~(f = c /\ d = e) => want'[f][d] = want[f][d]
    BY <1>1, <1>3 DEF TypeOK
<1>7. /\ \A d \in CPUs : Lag(d) \in 0..Cardinality(CPUs)
      /\ \A d \in CPUs : Lag(d) \in Nat /\ Lag(d) < GEN - 1
  <2>1. \A d \in CPUs : Lag(d) \in 0..Cardinality(CPUs)
      BY LagBound
  <2> QED
      BY <2>1, GenBig
<1>8. /\ Back(e, want[c][e])' = 0
      /\ \A h \in 0..(GEN - 1) :
            Back(e, h) < GEN - 1 => Distance(g, h) = Back(e, h) + 1
    BY <1>3, <1>4, <1>6, NextGen, DistanceType DEF TypeOK, Back
<1>9. Lag(e)' = Lag(e) + 1
    BY <1>2, <1>3, <1>6, <1>7, <1>8 DEF TypeOK, Lag, Back
<1>10. \A d \in CPUs \ {e} : Lag(d)' = Lag(d)
    BY <1>2, <1>6 DEF Lag, Back
<1>11. ~Posted(c, e) /\ Posted(c, e)'
    BY <1>1, <1>2, <1>3 DEF TypeOK, Posted
<1>12. \A f, d \in CPUs : Posted(f, d) => Posted(f, d)'
    BY <1>1, <1>2, <1>3 DEF TypeOK, Posted
<1>13. ASSUME NEW f \in CPUs, Posted(f, e), Back(e, want[f][e]) <= Lag(e)
       PROVE  Back(e, want[f][e])' = Back(e, want[f][e]) + 1
  <2>1. f # c
      BY <1>11, <1>13
  <2>2. want'[f][e] = want[f][e] /\ want[f][e] \in 0..(GEN - 1)
      BY <1>3, <1>6, <2>1 DEF TypeOK
  <2>3. Back(e, want[f][e]) < GEN - 1
    <3>1. Back(e, want[f][e]) \in 0..(GEN - 1)
        BY <1>3, <2>2, BackType
    <3> QED
        BY <1>3, <1>7, <1>13, <3>1
  <2> QED
      BY <1>6, <1>8, <2>2, <2>3 DEF Back
<1>14. LagWanted'
  <2>1. ASSUME NEW d \in CPUs, NEW k \in 0..(Lag(d)' - 1)
        PROVE  \E f \in CPUs : Posted(f, d)' /\ Back(d, want[f][d])' = k
    <3>1. CASE d # e
      <4>1. k \in 0..(Lag(d) - 1)
          BY <1>10, <3>1
      <4>2. PICK f \in CPUs : Posted(f, d) /\ Back(d, want[f][d]) = k
          BY <4>1 DEF LagWanted
      <4>3. Back(d, want[f][d])' = k
          BY <1>6, <3>1, <4>2 DEF Back
      <4> QED
          BY <1>12, <4>2, <4>3
    <3>2. CASE d = e /\ k = 0
        BY <1>8, <1>11, <3>2
    <3>3. CASE d = e /\ k # 0
      <4>1. k - 1 \in 0..(Lag(e) - 1)
          BY <1>3, <1>7, <1>9, <3>3
      <4>2. PICK f \in CPUs : Posted(f, e) /\ Back(e, want[f][e]) = k - 1
          BY <1>3, <4>1 DEF LagWanted
      <4>3. Back(e, want[f][e])' = k
          BY <1>3, <1>7, <1>13, <4>1, <4>2
      <4> QED
          BY <1>12, <3>3, <4>2, <4>3
    <3> QED
        BY <3>1, <3>2, <3>3
  <2> QED
      BY <2>1 DEF LagWanted
<1>15. \A d \in CPUs : serving[d] # "no" =>
          Back(d, sample[d])' = IF d = e THEN Back(d, sample[d]) + 1 ELSE Back(d, sample[d])
  <2>1. Lag(e) < GEN - 1
      BY <1>3, <1>7, GenBig
  <2>2. serving[e] # "no" => Back(e, sample[e]) < GEN - 1
      BY <1>3, <1>7, <2>1, BackType DEF SampleOrder, TypeOK
  <2> QED
      BY <1>2, <1>3, <1>6, <1>8, <2>2 DEF TypeOK, Back
<1>16. SampleOrder'
  <2> SUFFICES ASSUME NEW d \in CPUs, serving[d] # "no"
               PROVE  Back(d, sample[d])' <= Lag(d)'
      BY <1>2 DEF SampleOrder
  <2>1. Back(d, sample[d]) \in 0..(GEN - 1) /\ Back(d, sample[d]) <= Lag(d)
      BY BackType DEF SampleOrder, TypeOK
  <2> QED
      BY <1>7, <1>9, <1>10, <1>15, <2>1
<1>17. TodoOK' /\ OneUse' /\ InSpace'
    BY <1>1, <1>2, <1>3 DEF TypeOK, TodoOK, OneUse, InSpace, Sending
<1>18. ASSUME NEW f \in CPUs, NEW d \in CPUs, Waits(f, d) PROVE Waits(f, d)'
  <2>1. CASE mode[f] = "cut"
      BY <1>2, <1>18, <2>1 DEF Waits, Posted
  <2>2. CASE mode[f] = "post" /\ d \in todo[f] /\ ~(f = c /\ d = e)
      BY <1>1, <1>2, <1>3, <2>2 DEF TypeOK, Waits
  <2>3. CASE f = c /\ d = e
    <3>1. serving[e] = "flushed" => Back(e, sample[e])' > 0
      <4>1. Back(e, sample[e]) \in 0..(GEN - 1)
          BY <1>3, BackType DEF TypeOK
      <4> QED
          BY <1>3, <1>15, <4>1
    <3> QED
        BY <1>2, <1>3, <1>7, <1>8, <1>9, <1>11, <2>3, <3>1 DEF Waits
  <2>4. CASE Posted(f, d)
    <3>1. CASE d # e
        BY <1>2, <1>6, <1>10, <1>12, <1>15, <1>18, <2>4, <3>1 DEF Waits, Posted, Back
    <3>2. CASE d = e
      <4>1. /\ Back(e, want[f][e]) \in Nat /\ Back(e, want[f][e]) < Lag(e)
            /\ serving[e] = "flushed" => Back(e, want[f][e]) < Back(e, sample[e])
          BY <1>3, <1>18, <2>4, <3>2, BackType DEF TypeOK, Waits, Posted
      <4>2. Back(e, want[f][e])' = Back(e, want[f][e]) + 1
          BY <1>3, <1>7, <1>13, <2>4, <3>2, <4>1
      <4>3. Back(e, want[f][e])' < Lag(e)'
          BY <1>3, <1>7, <1>9, <4>1, <4>2
      <4>4. Back(e, sample[e]) \in 0..(GEN - 1)
          BY <1>3, BackType DEF TypeOK
      <4>5. serving[e] = "flushed" => Back(e, want[f][e])' < Back(e, sample[e])'
          BY <1>3, <1>15, <4>1, <4>2, <4>4
      <4> QED
          BY <1>2, <1>3, <1>12, <2>4, <3>2, <4>3, <4>5 DEF Waits
    <3> QED
        BY <3>1, <3>2
  <2> QED
      BY <1>18, <2>1, <2>2, <2>3, <2>4 DEF Waits
<1>19. FlushAhead'
    BY <1>2, <1>18 DEF FlushAhead
<1> QED
    BY <1>5, <1>14, <1>16, <1>17, <1>19

-----------------------------------------------------------------------------
(* Every step preserves the invariant.                                     *)
LEMMA NextInv == Inv /\ [Next]_vars => Inv'
<1> SUFFICES ASSUME Inv, [Next]_vars PROVE Inv'
    OBVIOUS
<1>1. CASE UNCHANGED vars
    BY <1>1 DEF vars, Inv, TypeOK, LagWanted, SampleOrder, TodoOK, OneUse, InSpace,
                FlushAhead, Waits, Posted, Lag, Back
<1>2. ASSUME NEW c \in CPUs, Cpu(c) PROVE Inv'
    BY <1>2, OnlineInv, TrapInv, AcquireInv, ReleaseInv, DispatchInv, TouchInv, TakeIpiInv,
       PollServeInv, FlushInv, AckInv, MapInv, UnmapInv, SnapshotInv, PostInv, SendIpiInv,
       NextLoopInv, AckedInv, ResendInv, FinishInv DEF Cpu
<1> QED
    BY <1>1, <1>2 DEF Next

(* The inductive invariant holds in every state: each generation a CPU has *)
(* still to acknowledge in tlb_serve_pending is wanted by a sender in      *)
(* tlb_shootdown_targets, and each stale translation has its flush ahead.  *)
THEOREM TlbInv == Spec => []Inv
BY InitInv, NextInv, PTL DEF Spec

(* The generation counters of tlb_shootdown_targets and tlb_serve_pending  *)
(* stay 32-bit words, and every variable keeps its type.                   *)
THEOREM TypeCorrect == Spec => []TypeOK
<1>1. Inv => TypeOK
    BY DEF Inv
<1> QED
    BY <1>1, TlbInv, PTL

(* No CPU reaches a freed frame through its TLB: unmap_pages frees a frame *)
(* only when every CPU that may cache it has flushed, however many senders *)
(* overlap and however often the generations have wrapped.                 *)
THEOREM FramesNotStale == Spec => []NoStaleFrame
<1>1. Inv => NoStaleFrame
    BY DEF Inv, OneUse, FlushAhead, NoStaleFrame
<1> QED
    BY <1>1, TlbInv, PTL

(* The requests a CPU has not acknowledged are never more than there are   *)
(* CPUs, so that the signed comparison of tlb_shootdown_targets is right.  *)
THEOREM RequestsBounded == Spec => [](\A d \in CPUs : Lag(d) <= Cardinality(CPUs))
<1>1. Inv => \A d \in CPUs : Lag(d) <= Cardinality(CPUs)
    BY LagBound, GenBig DEF Inv
<1> QED
    BY <1>1, TlbInv, PTL

-----------------------------------------------------------------------------
(***************************************************************************)
(* That every sender's wait ends in a CPU that serves it.  Here the        *)
(* comparison also has to be right about generations acknowledged long     *)
(* ago: that takes fewer than GEN \div 2 shootdowns.                       *)
(***************************************************************************)

(* The senders that have still to make a request of d.                     *)
Unposted(d) == {c \in CPUs : mode[c] = "cut" \/ (mode[c] = "post" /\ d \in todo[c])}

(* The requests made of d are the distance from the first generation, and  *)
(* each shootdown makes one at most.                                       *)
SendsBound ==
    \A d \in CPUs : Back(d, FirstGen) + Cardinality(Unposted(d)) <= g_tlb_sends

(* What a sender wants is not older than the first generation.             *)
WantOrder ==
    \A c, d \in CPUs : Back(d, want[c][d]) <= Back(d, FirstGen)

(* Senders ask other CPUs, and only those online.                          *)
OthersAsked ==
    \A c \in CPUs : \A d \in todo[c] \cup target[c] : d # c /\ online[d]

(* Sender c has sent its IPI to d, and has not seen the acknowledgement.   *)
Asked(c, d) ==
    \/ mode[c] = "ipi" /\ d \in target[c] \ todo[c]
    \/ mode[c] = "wait" /\ d \in todo[c]

(* The IPI is still pending, or d is about to acknowledge what c wants.    *)
Coming(c, d) ==
    \/ ipi[d]
    \/ serving[d] # "no" /\ Back(d, sample[d]) <= Back(d, want[c][d])

IpiAhead ==
    \A c, d \in CPUs : Asked(c, d) /\ Back(d, want[c][d]) < Lag(d) => Coming(c, d)

ServeInv == SendsBound /\ WantOrder /\ OthersAsked /\ IpiAhead

LEMMA UnpostedFinite ==
    ASSUME NEW d
    PROVE  IsFiniteSet(Unposted(d)) /\ Cardinality(Unposted(d)) \in Nat
<1>1. Unposted(d) \subseteq CPUs
    BY DEF Unposted
<1> QED
    BY <1>1, TlbAssumption, FS_Subset, FS_CardinalityType

(* No distance to a generation that was ever used comes near a wrap.       *)
LEMMA BackSmall ==
    ASSUME TypeOK, ServeInv, NEW d \in CPUs, MaxSends < GEN \div 2
    PROVE  /\ Back(d, FirstGen) \in 0..MaxSends
           /\ \A c \in CPUs : Back(d, want[c][d]) \in 0..MaxSends
           /\ MaxSends < GEN - 1
<1>1. Back(d, FirstGen) \in Nat /\ \A c \in CPUs : Back(d, want[c][d]) \in Nat
    BY BackType, TlbAssumption DEF TypeOK
<1>2. Back(d, FirstGen) <= MaxSends
    BY <1>1, UnpostedFinite, TlbAssumption DEF ServeInv, SendsBound, TypeOK
<1>3. \A c \in CPUs : Back(d, want[c][d]) <= Back(d, FirstGen)
    BY DEF ServeInv, WantOrder
<1>4. MaxSends < GEN - 1
    BY HalfFacts, GenBig, TlbAssumption
<1> QED
    BY <1>1, <1>2, <1>3, <1>4, TlbAssumption

(* The comparison of the wait loop sees that w is not newer than a.        *)
LEMMA NotBehindOlder ==
    ASSUME NEW r \in 0..(GEN - 1), NEW a \in 0..(GEN - 1), NEW w \in 0..(GEN - 1),
           Distance(r, a) <= Distance(r, w), Distance(r, w) < GEN \div 2
    PROVE  ~Behind(a, w)
<1>1. PICK x \in Int : x = a - w
    OBVIOUS
<1>2. x % GEN = IF x >= 0 THEN x ELSE x + GEN
  <2>1. -GEN <= x /\ x < GEN
      BY <1>1, GenBig
  <2>2. GEN \in Nat \ {0}
      BY GenBig
  <2> QED
      BY <1>1, <2>1, <2>2, ModFacts
<1>3. x % GEN < GEN \div 2
    BY <1>1, <1>2, GenBig, HalfFacts DEF Distance
<1>4. x % GEN \in Nat
    BY <1>1, <1>2, GenBig
<1> QED
    BY <1>1, <1>3, <1>4, GenBig, HalfFacts DEF Behind

(* As long as no request, sample or acknowledgement changes, and nobody    *)
(* starts to send.                                                         *)
LEMMA BoundsKept ==
    ASSUME ServeInv, UNCHANGED <<tlb_req_gen, want, g_tlb_sends>>, TypeOK,
           \A d \in CPUs : Unposted(d)' \subseteq Unposted(d)
    PROVE  SendsBound' /\ WantOrder'
<1>1. ASSUME NEW d \in CPUs
      PROVE  Back(d, FirstGen)' + Cardinality(Unposted(d)') <= g_tlb_sends'
  <2>1. Cardinality(Unposted(d)') <= Cardinality(Unposted(d))
      BY UnpostedFinite, FS_Subset
  <2>2. Unposted(d)' \subseteq CPUs
      BY DEF Unposted
  <2>3. Cardinality(Unposted(d)') \in Nat
      BY <2>2, TlbAssumption, FS_Subset, FS_CardinalityType
  <2>4. Back(d, FirstGen)' = Back(d, FirstGen) /\ Back(d, FirstGen) \in Nat
      BY BackType, TlbAssumption DEF Back
  <2>5. Back(d, FirstGen) + Cardinality(Unposted(d)) <= g_tlb_sends
      BY DEF ServeInv, SendsBound
  <2> QED
      BY <2>1, <2>3, <2>4, <2>5, UnpostedFinite DEF TypeOK
<1> QED
    BY <1>1 DEF ServeInv, SendsBound, WantOrder, Back

LEMMA QuietServe ==
    ASSUME TypeOK, ServeInv,
           UNCHANGED <<target, want, todo, tlb_req_gen, tlb_ack_gen, ipi, g_tlb_sends, sample>>,
           \A c \in CPUs : mode'[c] = mode[c] \/ {mode[c], mode'[c]} \cap Sending = {},
           \A d \in CPUs : serving[d] # "no" => serving'[d] # "no",
           \A d \in CPUs : online[d] => online'[d]
    PROVE  ServeInv'
<1>1. \A d \in CPUs : Unposted(d)' \subseteq Unposted(d)
    BY DEF Unposted, Sending
<1>2. SendsBound' /\ WantOrder'
    BY <1>1, BoundsKept
<1>3. OthersAsked'
    BY DEF ServeInv, OthersAsked, TypeOK
<1>4. \A c, d \in CPUs : Asked(c, d)' => Asked(c, d)
    BY DEF Asked, Sending
<1>5. IpiAhead'
    BY <1>4 DEF ServeInv, IpiAhead, Coming, Lag, Back
<1> QED
    BY <1>2, <1>3, <1>5 DEF ServeInv

-----------------------------------------------------------------------------
LEMMA InitServe == Init => ServeInv
<1> SUFFICES ASSUME Init PROVE ServeInv
    OBVIOUS
<1>1. TypeOK
    BY InitInv DEF Inv
<1>2. \A d \in CPUs : Back(d, FirstGen) = 0
    BY <1>1, BackType, TlbAssumption DEF Init, TypeOK
<1>3. \A d \in CPUs : Unposted(d) = {}
    BY DEF Init, Unposted
<1>4. SendsBound
    BY <1>2, <1>3, FS_EmptySet DEF SendsBound, Init
<1>5. WantOrder /\ OthersAsked /\ IpiAhead
    BY <1>2 DEF Init, WantOrder, OthersAsked, IpiAhead, Asked
<1> QED
    BY <1>4, <1>5 DEF ServeInv

(* What has nothing to do with a shootdown.                                *)
LEMMA OtherServe ==
    ASSUME NEW c \in CPUs, Inv, ServeInv,
           Online(c) \/ Trap(c) \/ Acquire(c) \/ Release(c) \/ Dispatch(c) \/ Touch(c)
              \/ Flush(c) \/ Map(c)
    PROVE  ServeInv'
<1> USE DEF gens, servers, senders, memory, Sending
<1>0. TypeOK
    BY DEF Inv
<1>1. CASE Online(c)
    BY <1>0, <1>1, QuietServe DEF Online, TypeOK
<1>2. CASE Trap(c)
    BY <1>0, <1>2, QuietServe DEF Trap, TypeOK
<1>3. CASE Acquire(c)
    BY <1>0, <1>3, QuietServe DEF Acquire, TypeOK
<1>4. CASE Release(c)
    BY <1>0, <1>4, QuietServe DEF Release, TypeOK
<1>5. CASE Dispatch(c)
    BY <1>0, <1>5, QuietServe DEF Dispatch, TypeOK
<1>6. CASE Touch(c)
    BY <1>0, <1>6, QuietServe DEF Touch, TypeOK
<1>7. CASE Flush(c)
    BY <1>0, <1>7, QuietServe DEF Flush, TypeOK
<1>8. CASE Map(c)
    BY <1>0, <1>8, QuietServe DEF Map, TypeOK
<1> QED
    BY <1>1, <1>2, <1>3, <1>4, <1>5, <1>6, <1>7, <1>8

(* A sample of the newest request covers what everybody wants.             *)
LEMMA SampleServe ==
    ASSUME NEW c \in CPUs, Inv, ServeInv, MaxSends < GEN \div 2, TakeIpi(c) \/ PollServe(c)
    PROVE  ServeInv'
<1> USE DEF gens, senders, memory
<1>1. /\ UNCHANGED <<mode, online, tlb_req_gen, tlb_ack_gen, target, want, todo, g_tlb_sends>>
      /\ serving[c] = "no"
      /\ sample' = [sample EXCEPT ![c] = tlb_req_gen[c]]
      /\ \A d \in CPUs \ {c} : serving'[d] = serving[d] /\ ipi'[d] = ipi[d]
      /\ tlb_req_gen[c] # tlb_ack_gen[c] => serving'[c] # "no"
    BY DEF TakeIpi, Interrupted, PollServe, Polls, Inv, TypeOK
<1>2. TypeOK
    BY DEF Inv
<1>3. SendsBound' /\ WantOrder'
    BY <1>1, <1>2, BoundsKept DEF Unposted
<1>4. OthersAsked'
    BY <1>1 DEF ServeInv, OthersAsked
<1>5. ASSUME NEW f \in CPUs, NEW d \in CPUs, Asked(f, d)', (Back(d, want[f][d]) < Lag(d))'
      PROVE  Coming(f, d)'
  <2>1. Asked(f, d) /\ Back(d, want[f][d]) < Lag(d)
      BY <1>1, <1>5 DEF Asked, Lag, Back
  <2>2. CASE d # c
    <3>1. Coming(f, d)
        BY <2>1, Zenon DEF ServeInv, IpiAhead
    <3>2. /\ ipi'[d] = ipi[d] /\ serving'[d] = serving[d] /\ sample'[d] = sample[d]
          /\ tlb_req_gen' = tlb_req_gen /\ want' = want
        BY <1>1, <1>2, <2>2 DEF TypeOK
    <3> QED
        BY <3>1, <3>2, Zenon DEF Back, Coming
  <2>3. CASE d = c
    <3>1. Back(c, want[f][c]) \in 0..MaxSends /\ Back(c, tlb_req_gen[c]) = 0
        BY <1>2, BackSmall, BackType DEF TypeOK
    <3>2. tlb_req_gen[c] # tlb_ack_gen[c]
        BY <2>1, <2>3, <3>1 DEF Lag
    <3>3. sample'[c] = tlb_req_gen[c]
        BY <1>1, <1>2 DEF TypeOK
    <3>4. Back(c, sample[c])' = 0 /\ Back(c, want[f][c])' = Back(c, want[f][c])
        BY <1>1, <3>1, <3>3 DEF Back
    <3> QED
        BY <1>1, <2>3, <3>1, <3>2, <3>4 DEF Coming
  <2> QED
      BY <2>2, <2>3
<1>6. IpiAhead'
    BY <1>5 DEF IpiAhead
<1> QED
    BY <1>3, <1>4, <1>6 DEF ServeInv

(* What is acknowledged and not enough has an IPI still pending.           *)
LEMMA AckServe ==
    ASSUME NEW c \in CPUs, Inv, ServeInv, MaxSends < GEN \div 2, Ack(c)
    PROVE  ServeInv'
<1> USE DEF gens, senders, memory
<1>1. /\ UNCHANGED <<mode, online, tlb_req_gen, ipi, sample, target, want, todo, g_tlb_sends>>
      /\ serving[c] = "flushed"
      /\ tlb_ack_gen' = [tlb_ack_gen EXCEPT ![c] = sample[c]]
      /\ \A d \in CPUs \ {c} : serving'[d] = serving[d]
    BY DEF Ack, Inv, TypeOK
<1>2. TypeOK
    BY DEF Inv
<1>3. SendsBound' /\ WantOrder'
    BY <1>1, <1>2, BoundsKept DEF Unposted
<1>4. OthersAsked'
    BY <1>1 DEF ServeInv, OthersAsked
<1>5. /\ Lag(c)' = Back(c, sample[c]) /\ \A d \in CPUs \ {c} : Lag(d)' = Lag(d)
      /\ Back(c, sample[c]) <= Lag(c)
      /\ Back(c, sample[c]) \in Nat /\ Lag(c) \in Nat
    BY <1>1, <1>2, BackType DEF Lag, Back, TypeOK, Inv, SampleOrder
<1>6. ASSUME NEW f \in CPUs, NEW d \in CPUs, Asked(f, d)', (Back(d, want[f][d]) < Lag(d))'
      PROVE  Coming(f, d)'
  <2>1. Asked(f, d) /\ Back(d, want[f][d]) < Lag(d)'
      BY <1>1, <1>6 DEF Asked, Back
  <2>2. CASE d # c
    <3>0. Back(d, want[f][d]) < Lag(d)
        BY <1>5, <2>1, <2>2
    <3>1. Coming(f, d)
        BY <2>1, <3>0, Zenon DEF ServeInv, IpiAhead
    <3>2. /\ ipi' = ipi /\ serving'[d] = serving[d] /\ sample' = sample
          /\ tlb_req_gen' = tlb_req_gen /\ want' = want
        BY <1>1, <2>2
    <3> QED
        BY <3>1, <3>2, Zenon DEF Back, Coming
  <2>3. CASE d = c
    <3>1. Back(c, want[f][c]) \in 0..MaxSends
        BY <1>2, BackSmall
    <3>2. Back(c, want[f][c]) < Back(c, sample[c]) /\ Back(c, want[f][c]) < Lag(c)
        BY <1>5, <2>1, <2>3, <3>1
    <3>3. ipi[c]
        BY <1>5, <2>1, <2>3, <3>1, <3>2 DEF ServeInv, IpiAhead, Coming
    <3>4. ipi'[d] = ipi[c]
        BY <1>1, <2>3
    <3> QED
        BY <3>3, <3>4, Zenon DEF Coming
  <2> QED
      BY <2>2, <2>3
<1>7. IpiAhead'
    BY <1>6 DEF IpiAhead
<1> QED
    BY <1>3, <1>4, <1>7 DEF ServeInv

(* A new shootdown has no request made yet.                                *)
LEMMA UnmapServe ==
    ASSUME NEW c \in CPUs, Inv, ServeInv, Unmap(c)
    PROVE  ServeInv'
<1> USE DEF gens, servers
<1>1. /\ mode[c] \in {"kernel", "run"} /\ mode' = [mode EXCEPT ![c] = "cut"]
      /\ g_tlb_sends' = g_tlb_sends + 1
      /\ UNCHANGED <<online, tlb_req_gen, tlb_ack_gen, ipi, serving, sample, target, want, todo>>
    BY DEF Unmap, MayChange
<1>2. TypeOK
    BY DEF Inv
<1>3. ASSUME NEW d \in CPUs
      PROVE  Back(d, FirstGen)' + Cardinality(Unposted(d)') <= g_tlb_sends'
  <2>1. Unposted(d)' = Unposted(d) \cup {c} /\ c \notin Unposted(d)
      BY <1>1, <1>2 DEF Unposted, TypeOK
  <2>2. Cardinality(Unposted(d)') = Cardinality(Unposted(d)) + 1
      BY <2>1, UnpostedFinite, FS_AddElement
  <2>3. Back(d, FirstGen)' = Back(d, FirstGen) /\ Back(d, FirstGen) \in Nat
      BY <1>1, <1>2, BackType, TlbAssumption DEF Back
  <2>4. Back(d, FirstGen) + Cardinality(Unposted(d)) <= g_tlb_sends
      BY DEF ServeInv, SendsBound
  <2> QED
      BY <1>1, <1>2, <2>2, <2>3, <2>4, UnpostedFinite DEF TypeOK
<1>4. WantOrder' /\ OthersAsked'
    BY <1>1 DEF ServeInv, WantOrder, OthersAsked, Back
<1>5. \A f, d \in CPUs : Asked(f, d)' => Asked(f, d)
    BY <1>1, <1>2 DEF Asked, TypeOK
<1>6. IpiAhead'
    BY <1>1, <1>5 DEF ServeInv, IpiAhead, Coming, Lag, Back
<1> QED
    BY <1>3, <1>4, <1>6 DEF ServeInv, SendsBound

(* The targets are others, and online.                                     *)
LEMMA SnapshotServe ==
    ASSUME NEW c \in CPUs, Inv, ServeInv, Snapshot(c)
    PROVE  ServeInv'
<1> USE DEF gens, servers, memory
<1>1. /\ mode[c] = "cut" /\ mode' = [mode EXCEPT ![c] = "post"]
      /\ target' = [target EXCEPT ![c] = Targets(c)] /\ todo' = [todo EXCEPT ![c] = Targets(c)]
      /\ UNCHANGED <<online, tlb_req_gen, tlb_ack_gen, ipi, serving, sample, want, g_tlb_sends>>
    BY DEF Snapshot
<1>2. TypeOK
    BY DEF Inv
<1>3. \A d \in CPUs : Unposted(d)' \subseteq Unposted(d)
    BY <1>1, <1>2 DEF Unposted, TypeOK
<1>4. SendsBound' /\ WantOrder'
    BY <1>1, <1>2, <1>3, BoundsKept
<1>5. OthersAsked'
    BY <1>1, <1>2 DEF ServeInv, OthersAsked, Targets, TypeOK
<1>6. \A f, d \in CPUs : Asked(f, d)' => Asked(f, d)
    BY <1>1, <1>2 DEF Asked, TypeOK
<1>7. IpiAhead'
    BY <1>1, <1>6 DEF ServeInv, IpiAhead, Coming, Lag, Back
<1> QED
    BY <1>4, <1>5, <1>7 DEF ServeInv

(* A request raises every distance of its target by one, and the count of  *)
(* the requests made of it with them.                                      *)
LEMMA PostServe ==
    ASSUME NEW c \in CPUs, Inv, ServeInv, MaxSends < GEN \div 2, Post(c)
    PROVE  ServeInv'
<1>1. PICK e \in todo[c] :
          /\ tlb_req_gen' = [tlb_req_gen EXCEPT ![e] = (tlb_req_gen[e] + 1) % GEN]
          /\ want' = [want EXCEPT ![c][e] = (tlb_req_gen[e] + 1) % GEN]
          /\ todo' = [todo EXCEPT ![c] = @ \ {e}]
    BY DEF Post
<1>2. /\ mode[c] = "post"
      /\ UNCHANGED <<mode, online, tlb_ack_gen, ipi, serving, sample, target, g_tlb_sends>>
    BY DEF Post, servers
<1>3. TypeOK /\ TypeOK' /\ e \in CPUs
    BY <1>1, PostInv DEF Inv, TypeOK
<1> DEFINE g == (tlb_req_gen[e] + 1) % GEN
<1>4. /\ g \in 0..(GEN - 1) /\ tlb_req_gen'[e] = g /\ want'[c][e] = g
      /\ \A d \in CPUs \ {e} : tlb_req_gen'[d] = tlb_req_gen[d]
      /\ \A f, d \in CPUs : ~(f = c /\ d = e) => want'[f][d] = want[f][d]
    BY <1>1, <1>3, NextGen DEF TypeOK
<1>7. /\ Back(e, FirstGen) \in 0..MaxSends /\ MaxSends < GEN - 1
      /\ \A f \in CPUs : Back(e, want[f][e]) \in 0..MaxSends
    BY <1>3, BackSmall
<1>6. Distance(g, FirstGen) = Distance(tlb_req_gen[e], FirstGen) + 1
  <2>1. Distance(tlb_req_gen[e], FirstGen) < GEN - 1
      BY <1>7, TlbAssumption, GenBig DEF Back
  <2> QED
      BY <1>3, <2>1, NextGen, TlbAssumption DEF TypeOK
<1>8. Back(e, FirstGen)' = Back(e, FirstGen) + 1
    BY <1>4, <1>6 DEF Back
<1>9. \A d \in CPUs \ {e} : Back(d, FirstGen)' = Back(d, FirstGen)
    BY <1>4 DEF Back
<1>10. SendsBound'
  <2>1. ASSUME NEW d \in CPUs
        PROVE  Back(d, FirstGen)' + Cardinality(Unposted(d)') <= g_tlb_sends'
    <3>1. Back(d, FirstGen) + Cardinality(Unposted(d)) <= g_tlb_sends
        BY DEF ServeInv, SendsBound
    <3>2. CASE d # e
      <4>1. Unposted(d)' = Unposted(d)
          BY <1>1, <1>2, <1>3, <3>2 DEF Unposted, TypeOK
      <4> QED
          BY <1>2, <1>9, <3>1, <3>2, <4>1
    <3>3. CASE d = e
      <4>1. Unposted(e)' = Unposted(e) \ {c} /\ c \in Unposted(e)
          BY <1>1, <1>2, <1>3 DEF Unposted, TypeOK
      <4>2. Cardinality(Unposted(e)') = Cardinality(Unposted(e)) - 1
          BY <4>1, UnpostedFinite, FS_RemoveElement
      <4> QED
          BY <1>2, <1>7, <1>8, <3>1, <3>3, <4>2, UnpostedFinite
    <3> QED
        BY <3>2, <3>3
  <2> QED
      BY <2>1 DEF SendsBound
<1>11. Back(e, want[c][e])' = 0
    BY <1>3, <1>4, BackType, DistanceType DEF Back
<1>12. ASSUME NEW f \in CPUs, f # c
       PROVE  Back(e, want[f][e])' = Back(e, want[f][e]) + 1
  <2>1. want[f][e] \in 0..(GEN - 1) /\ want'[f][e] = want[f][e]
      BY <1>3, <1>4, <1>12 DEF TypeOK
  <2>2. Back(e, want[f][e]) < GEN - 1
      BY <1>7, TlbAssumption, GenBig
  <2>3. Distance(g, want[f][e]) = Distance(tlb_req_gen[e], want[f][e]) + 1
      BY <1>3, <2>1, <2>2, NextGen DEF TypeOK, Back
  <2> QED
      BY <1>4, <2>1, <2>3 DEF Back
<1>13. WantOrder'
  <2>1. ASSUME NEW f \in CPUs, NEW d \in CPUs
        PROVE  Back(d, want[f][d])' <= Back(d, FirstGen)'
    <3>1. Back(d, want[f][d]) <= Back(d, FirstGen)
        BY DEF ServeInv, WantOrder
    <3>2. CASE d # e
      <4>1. Back(d, want[f][d])' = Back(d, want[f][d])
          BY <1>4, <3>2 DEF Back
      <4> QED
          BY <1>9, <3>1, <3>2, <4>1
    <3>3. CASE d = e /\ f = c
        BY <1>7, <1>8, <1>11, <3>3
    <3>4. CASE d = e /\ f # c
        BY <1>7, <1>8, <1>12, <3>1, <3>4
    <3> QED
        BY <3>2, <3>3, <3>4
  <2> QED
      BY <2>1 DEF WantOrder
<1>14. OthersAsked'
    BY <1>1, <1>2, <1>3 DEF ServeInv, OthersAsked, TypeOK
<1>15. \A f, d \in CPUs : Asked(f, d)' => Asked(f, d) /\ f # c
    BY <1>1, <1>2, <1>3 DEF Asked, TypeOK
<1>16. ASSUME NEW f \in CPUs, NEW d \in CPUs, Asked(f, d)', (Back(d, want[f][d]) < Lag(d))'
       PROVE  Coming(f, d)'
  <2>1. Asked(f, d) /\ f # c
      BY <1>15, <1>16
  <2>2. CASE d # e
    <3>1. /\ tlb_req_gen'[d] = tlb_req_gen[d] /\ want'[f][d] = want[f][d]
          /\ tlb_ack_gen' = tlb_ack_gen /\ sample' = sample /\ serving' = serving /\ ipi' = ipi
        BY <1>2, <1>4, <2>1, <2>2
    <3>2. Back(d, want[f][d]) < Lag(d)
        BY <1>16, <3>1 DEF Lag, Back
    <3>3. Coming(f, d)
        BY <2>1, <3>2, Zenon DEF ServeInv, IpiAhead
    <3> QED
        BY <3>1, <3>3, Zenon DEF Back, Coming
  <2>3. CASE d = e
    <3>1. Lag(e) \in 0..Cardinality(CPUs)
        BY <1>3, LagBound DEF Inv
    <3>2. Lag(e)' = Lag(e) + 1
      <4>1. tlb_ack_gen[e] \in 0..(GEN - 1) /\ tlb_ack_gen' = tlb_ack_gen
          BY <1>2, <1>3 DEF TypeOK
      <4>2. Lag(e) < GEN - 1
          BY <3>1, GenBig
      <4>3. Distance(g, tlb_ack_gen[e]) = Distance(tlb_req_gen[e], tlb_ack_gen[e]) + 1
          BY <1>3, <4>1, <4>2, NextGen DEF TypeOK, Lag, Back
      <4> QED
          BY <1>4, <4>1, <4>3 DEF Lag, Back
    <3>3. Back(e, want[f][e])' = Back(e, want[f][e]) + 1
        BY <1>12, <2>1
    <3>4. Back(e, want[f][e]) < Lag(e)
        BY <1>7, <1>16, <2>3, <3>1, <3>2, <3>3
    <3>5. Coming(f, e)
        BY <1>3, <2>1, <2>3, <3>4, Zenon DEF ServeInv, IpiAhead
    <3>6. ASSUME Back(e, sample[e]) <= Back(e, want[f][e])
          PROVE  (Back(e, sample[e]) <= Back(e, want[f][e]))'
      <4>1. sample[e] \in 0..(GEN - 1) /\ sample' = sample
          BY <1>2, <1>3 DEF TypeOK
      <4>2. Back(e, sample[e]) \in Nat /\ Back(e, sample[e]) < GEN - 1
          BY <1>3, <1>7, <3>6, <4>1, BackType, TlbAssumption, GenBig
      <4>3. Distance(g, sample[e]) = Distance(tlb_req_gen[e], sample[e]) + 1
          BY <1>3, <4>1, <4>2, NextGen DEF TypeOK, Back
      <4>4. Back(e, sample[e])' = Back(e, sample[e]) + 1
          BY <1>4, <4>1, <4>3 DEF Back
      <4> QED
          BY <1>7, <3>3, <3>6, <4>2, <4>4
    <3>7. ipi' = ipi /\ serving' = serving
        BY <1>2
    <3> QED
        BY <2>3, <3>5, <3>6, <3>7, Zenon DEF Coming
  <2> QED
      BY <2>2, <2>3
<1>17. IpiAhead'
    BY <1>16 DEF IpiAhead
<1> QED
    BY <1>10, <1>13, <1>14, <1>17 DEF ServeInv

(* The wait begins with the IPI sent, and a second one takes nothing away. *)
LEMMA SendIpiServe ==
    ASSUME NEW c \in CPUs, Inv, ServeInv, SendIpi(c) \/ Resend(c)
    PROVE  ServeInv'
<1> USE DEF gens, servers, senders, memory
<1>1. TypeOK
    BY DEF Inv
<1>2. PICK e \in todo[c] :
          /\ ipi' = [ipi EXCEPT ![e] = TRUE]
          /\ todo' = todo \/ (mode[c] = "ipi" /\ todo' = [todo EXCEPT ![c] = @ \ {e}])
    BY DEF SendIpi, Resend
<1>3. /\ UNCHANGED <<mode, online, tlb_req_gen, tlb_ack_gen, serving, sample, target, want,
                     g_tlb_sends>>
      /\ e \in CPUs
    BY <1>1, <1>2 DEF SendIpi, Resend, TypeOK
<1>4. \A d \in CPUs : Unposted(d)' \subseteq Unposted(d)
    BY <1>1, <1>2, <1>3 DEF Unposted, TypeOK
<1>5. SendsBound' /\ WantOrder'
    BY <1>1, <1>3, <1>4, BoundsKept
<1>6. OthersAsked'
    BY <1>1, <1>2, <1>3 DEF ServeInv, OthersAsked, TypeOK
<1>7. ASSUME NEW f \in CPUs, NEW d \in CPUs, Asked(f, d)', (Back(d, want[f][d]) < Lag(d))'
      PROVE  Coming(f, d)'
  <2>1. CASE d = e
    <3>1. ipi'[d] = TRUE
        BY <1>1, <1>2, <1>3, <2>1 DEF TypeOK
    <3> QED
        BY <3>1, Zenon DEF Coming
  <2>2. CASE d # e
    <3>1. Asked(f, d)
        BY <1>1, <1>2, <1>3, <1>7, <2>2 DEF Asked, TypeOK
    <3>2. Back(d, want[f][d]) < Lag(d)
        BY <1>3, <1>7 DEF Lag, Back
    <3>3. Coming(f, d)
        BY <3>1, <3>2, Zenon DEF ServeInv, IpiAhead
    <3>4. ipi'[d] = ipi[d]
        BY <1>1, <1>2, <1>3, <2>2 DEF TypeOK
    <3>5. serving' = serving /\ sample' = sample /\ want' = want /\ tlb_req_gen' = tlb_req_gen
        BY <1>3
    <3> QED
        BY <3>3, <3>4, <3>5, Zenon DEF Coming, Back
  <2> QED
      BY <2>1, <2>2
<1>8. IpiAhead'
    BY <1>7 DEF IpiAhead
<1> QED
    BY <1>5, <1>6, <1>8 DEF ServeInv

(* The senders go on to the next loop, see an acknowledgement, are done.   *)
LEMMA LoopServe ==
    ASSUME NEW c \in CPUs, Inv, ServeInv, NextLoop(c) \/ Acked(c) \/ Finish(c)
    PROVE  ServeInv'
<1> USE DEF gens, servers, memory
<1>1. TypeOK
    BY DEF Inv
<1>2. UNCHANGED <<online, tlb_req_gen, tlb_ack_gen, ipi, serving, sample, want, g_tlb_sends>>
    BY DEF NextLoop, Acked, Finish
<1>3. \A d \in CPUs : Unposted(d)' \subseteq Unposted(d)
  <2>1. CASE NextLoop(c)
      BY <1>1, <2>1 DEF NextLoop, Unposted, TypeOK
  <2>2. CASE Acked(c)
      BY <1>1, <2>2 DEF Acked, Unposted, TypeOK
  <2>3. CASE Finish(c)
      BY <1>1, <2>3 DEF Finish, Unposted, TypeOK
  <2> QED
      BY <2>1, <2>2, <2>3
<1>4. SendsBound' /\ WantOrder'
    BY <1>1, <1>2, <1>3, BoundsKept
<1>5. OthersAsked' /\ \A f, d \in CPUs : Asked(f, d)' => Asked(f, d)
  <2>1. CASE NextLoop(c)
      BY <1>1, <1>2, <2>1 DEF NextLoop, ServeInv, OthersAsked, Asked, TypeOK
  <2>2. CASE Acked(c)
      BY <1>1, <1>2, <2>2 DEF Acked, ServeInv, OthersAsked, Asked, TypeOK
  <2>3. CASE Finish(c)
      BY <1>1, <1>2, <2>3 DEF Finish, ServeInv, OthersAsked, Asked, TypeOK
  <2> QED
      BY <2>1, <2>2, <2>3
<1>6. IpiAhead'
    BY <1>2, <1>5 DEF ServeInv, IpiAhead, Coming, Lag, Back
<1> QED
    BY <1>4, <1>5, <1>6 DEF ServeInv

(* Every step preserves it.                                                *)
LEMMA NextServe ==
    ASSUME MaxSends < GEN \div 2, Inv, ServeInv, [Next]_vars
    PROVE  ServeInv'
<1>0. TypeOK
    BY DEF Inv
<1>1. CASE UNCHANGED vars
    BY <1>0, <1>1, QuietServe DEF vars
<1>2. ASSUME NEW c \in CPUs, Cpu(c) PROVE ServeInv'
    BY <1>2, OtherServe, SampleServe, AckServe, UnmapServe, SnapshotServe, PostServe,
       SendIpiServe, LoopServe DEF Cpu
<1> QED
    BY <1>1, <1>2 DEF Next

(* A CPU that a sender waits for turns to the request.                     *)
LEMMA ServeProperty ==
    ASSUME MaxSends < GEN \div 2, Inv, ServeInv
    PROVE  WaitedForServes
<1> SUFFICES ASSUME NEW c \in CPUs, NEW d \in CPUs, mode[c] = "wait", d \in todo[c],
                    Behind(tlb_ack_gen[d], want[c][d]),
                    serving[d] = "no", mode[d] \notin Sending \ {"wait"}
             PROVE  \/ mode[d] \in {"run", "kernel"} /\ Interrupted(d)
                    \/ Polls(d)
    BY DEF WaitedForServes
<1>1. TypeOK
    BY DEF Inv
<1>2. Lag(d) \in 0..Cardinality(CPUs) /\ Back(d, want[c][d]) \in 0..MaxSends
    BY <1>1, LagBound, BackSmall DEF Inv
<1>3. Back(d, want[c][d]) < Lag(d)
  <2>1. SUFFICES ASSUME Lag(d) <= Back(d, want[c][d]) PROVE FALSE
      BY <1>2, GenBig, TlbAssumption
  <2>2. Back(d, want[c][d]) < GEN \div 2
      BY <1>2, TlbAssumption, GenBig, HalfFacts
  <2> QED
      BY <1>1, <2>1, <2>2, NotBehindOlder DEF TypeOK, Lag, Back
<1>4. Coming(c, d)
    BY <1>3 DEF ServeInv, IpiAhead, Asked
<1>5. ipi[d]
    BY <1>4 DEF Coming
<1>6. tlb_req_gen[d] # tlb_ack_gen[d]
    BY <1>1, <1>2, <1>3, BackType, TlbAssumption DEF Lag
<1>7. mode[d] \in {"run", "spin", "kernel", "wait"}
    BY <1>1 DEF TypeOK, Sending, ServeInv, OthersAsked, Inv, InSpace
<1>8. CASE mode[d] \in {"run", "kernel"}
    BY <1>5, <1>8 DEF Interrupted
<1>9. CASE mode[d] \in {"spin", "wait"}
    BY <1>6, <1>9 DEF Polls
<1> QED
    BY <1>7, <1>8, <1>9

(* No sender in tlb_shootdown_targets waits for a CPU that cannot turn to  *)
(* its request, however many of them wait for the lock and for each other: *)
(* the CPU has the IPI pending with interrupts on, or polls in             *)
(* bkl_spin_wait or in a wait of its own.  With GEN \div 2 shootdowns      *)
(* within one wait the comparison would take an acknowledgement for an     *)
(* older one, hence the hypothesis.                                        *)
THEOREM WaitsAreServed ==
    ASSUME MaxSends < GEN \div 2
    PROVE  Spec => []WaitedForServes
<1>1. Init => ServeInv
    BY InitServe
<1>2. Inv /\ ServeInv /\ [Next]_vars => ServeInv'
    BY NextServe
<1>3. Inv /\ ServeInv => WaitedForServes
    BY ServeProperty
<1> QED
    BY <1>1, <1>2, <1>3, TlbInv, PTL DEF Spec
=============================================================================
