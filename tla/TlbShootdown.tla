---------------------------- MODULE TlbShootdown ----------------------------
(***************************************************************************)
(* The TLB shootdown (arch/i686/cpu/smp.c) and the part of the big kernel  *)
(* lock it leans on (arch/i686/cpu/bkl.c): CPUs that run user code and     *)
(* cache translations, trap, spin for the lock with interrupts off, hold   *)
(* it, switch address spaces, unmap a page, and make every CPU that may    *)
(* cache the page flush before the frame is freed.                         *)
(*                                                                         *)
(* A step is one access to shared memory.  One page is watched; its page   *)
(* table entry maps a frame of Frames or nothing (NoFrame).                *)
(***************************************************************************)
EXTENDS Integers, FiniteSets

CONSTANTS
    CPUs,
    Frames,
    NoFrame, NoCPU,
    GEN,        \* modulus of the generation counters (2^32 in the code)
    FirstGen,   \* where the counters start: near GEN, so that they wrap
    MaxSends    \* bound: shootdowns sent

ASSUME TlbAssumption ==
    /\ IsFiniteSet(CPUs) /\ CPUs # {}
    /\ NoFrame \notin Frames /\ NoCPU \notin CPUs
    /\ MaxSends \in Nat
    /\ GEN \in Nat /\ GEN > 2 * Cardinality(CPUs)
    /\ FirstGen \in 0..(GEN - 1)

VARIABLES
    g_bkl,        \* the CPU that holds the big kernel lock, or NoCPU
    mode,         \* what each CPU is doing
    online,       \* cpus[c].online
    inmm,         \* cpus[c].proc runs on the watched address space
    tlb_req_gen,  \* newest flush requested of each CPU
    tlb_ack_gen,  \* newest flush each CPU has acknowledged
    ipi,          \* a TLB IPI is pending in the CPU's LAPIC
    serving,      \* where the CPU is in tlb_serve_pending
    sample,       \* the generation it sampled
    target,       \* the CPUs a sender waits for
    want,         \* the generation it wants each of them to reach
    todo,         \* targets left in the sender's current loop
    pte,          \* the page table entry of the watched page
    cached,       \* the translation of it in each CPU's TLB
    victim,       \* the frame a sender is going to free
    free,         \* the frames back in the allocator
    g_tlb_sends

vars == <<g_bkl, mode, online, inmm, tlb_req_gen, tlb_ack_gen, ipi, serving, sample,
          target, want, todo, pte, cached, victim, free, g_tlb_sends>>

gens    == <<tlb_req_gen, tlb_ack_gen>>
servers == <<serving, sample>>
senders == <<target, want, todo, victim, g_tlb_sends>>
memory  == <<pte, cached, free>>

(* (int32_t)(a - b) < 0                                                    *)
Behind(a, b) == ((a - b) % GEN) >= (GEN \div 2) + (GEN % 2)

Init ==
    /\ g_bkl = NoCPU
    /\ mode \in [CPUs -> {"run", "off"}]
    /\ online = [c \in CPUs |-> mode[c] = "run"]
    /\ inmm \in [CPUs -> BOOLEAN]
    /\ \A c \in CPUs : inmm[c] = online[c]
    /\ tlb_req_gen = [c \in CPUs |-> FirstGen]
    /\ tlb_ack_gen = [c \in CPUs |-> FirstGen]
    /\ ipi = [c \in CPUs |-> FALSE]
    /\ serving = [c \in CPUs |-> "no"]
    /\ sample = [c \in CPUs |-> FirstGen]
    /\ target = [c \in CPUs |-> {}]
    /\ want = [c \in CPUs |-> [d \in CPUs |-> FirstGen]]
    /\ todo = [c \in CPUs |-> {}]
    /\ pte \in Frames
    /\ cached = [c \in CPUs |-> NoFrame]
    /\ victim = [c \in CPUs |-> NoFrame]
    /\ free = Frames \ {pte}
    /\ g_tlb_sends = 0

-----------------------------------------------------------------------------
(* ap_entry: an AP marks itself online and spins for the BKL before it     *)
(* loads its first user CR3.                                               *)
Online(c) ==
    /\ mode[c] = "off"
    /\ online' = [online EXCEPT ![c] = TRUE]
    /\ mode' = [mode EXCEPT ![c] = "spin"]
    /\ UNCHANGED <<g_bkl, inmm, gens, ipi, servers, senders, memory>>

(* A trap from user code: bkl_enter, with interrupts off.                  *)
Trap(c) ==
    /\ mode[c] = "run" /\ serving[c] = "no"
    /\ mode' = [mode EXCEPT ![c] = "spin"]
    /\ UNCHANGED <<g_bkl, online, inmm, gens, ipi, servers, senders, memory>>

Acquire(c) ==
    /\ mode[c] = "spin" /\ serving[c] = "no"
    /\ g_bkl = NoCPU
    /\ g_bkl' = c
    /\ mode' = [mode EXCEPT ![c] = "kernel"]
    /\ UNCHANGED <<online, inmm, gens, ipi, servers, senders, memory>>

(* bkl_leave and iret, or the idle loop.                                   *)
Release(c) ==
    /\ mode[c] = "kernel" /\ serving[c] = "no"
    /\ g_bkl' = NoCPU
    /\ mode' = [mode EXCEPT ![c] = "run"]
    /\ UNCHANGED <<online, inmm, gens, ipi, servers, senders, memory>>

(* scheduler_start switches threads under the BKL: the CR3 load that goes  *)
(* with cpus[c].proc empties the TLB.                                      *)
Dispatch(c) ==
    /\ mode[c] = "kernel" /\ serving[c] = "no"
    /\ inmm' = [inmm EXCEPT ![c] = ~inmm[c]]
    /\ cached' = [cached EXCEPT ![c] = NoFrame]
    /\ UNCHANGED <<g_bkl, mode, online, gens, ipi, servers, senders, pte, free>>

(* The processor may walk the page tables and fill its TLB at any time,    *)
(* speculatively too, between any two instructions.                        *)
Touch(c) ==
    /\ inmm[c]
    /\ pte # NoFrame
    /\ cached[c] = NoFrame
    /\ cached' = [cached EXCEPT ![c] = pte]
    /\ UNCHANGED <<g_bkl, mode, online, inmm, gens, ipi, servers, senders, pte, free>>

-----------------------------------------------------------------------------
(* The IPI comes with interrupts on; a spinner for the lock has them off.  *)
Interrupted(c) == ipi[c] /\ mode[c] \notin {"off", "spin"} /\ serving[c] = "no"

(* Mutant: a waiting sender does not serve the requests made of it.        *)
PollsSpinnersOnly(c) ==
    mode[c] = "spin" /\ serving[c] = "no" /\ tlb_req_gen[c] # tlb_ack_gen[c]

(* A spin loop, for the BKL or for another CPU's ack, looks for requests.  *)
Polls(c) ==
    mode[c] \in {"spin", "wait"} /\ serving[c] = "no" /\ tlb_req_gen[c] # tlb_ack_gen[c]

(* tlb_serve_pending, entered from the IPI ...                             *)
TakeIpi(c) ==
    /\ Interrupted(c)
    /\ ipi' = [ipi EXCEPT ![c] = FALSE]
    /\ serving' = [serving EXCEPT
                     ![c] = IF tlb_req_gen[c] # tlb_ack_gen[c] THEN "sampled" ELSE "no"]
    /\ sample' = [sample EXCEPT ![c] = tlb_req_gen[c]]
    /\ UNCHANGED <<g_bkl, mode, online, inmm, gens, senders, memory>>

(* ... or from a spin loop.                                                *)
PollServe(c) ==
    /\ Polls(c)
    /\ serving' = [serving EXCEPT ![c] = "sampled"]
    /\ sample' = [sample EXCEPT ![c] = tlb_req_gen[c]]
    /\ UNCHANGED <<g_bkl, mode, online, inmm, gens, ipi, senders, memory>>

Flush(c) ==
    /\ serving[c] = "sampled"
    /\ cached' = [cached EXCEPT ![c] = NoFrame]
    /\ serving' = [serving EXCEPT ![c] = "flushed"]
    /\ UNCHANGED <<g_bkl, mode, online, inmm, gens, ipi, sample, senders, pte, free>>

(* Mutant: the acknowledgement re-reads the request instead of the sample. *)
AckNewest(c) ==
    /\ serving[c] = "flushed"
    /\ tlb_ack_gen' = [tlb_ack_gen EXCEPT ![c] = tlb_req_gen[c]]
    /\ serving' = [serving EXCEPT ![c] = "no"]
    /\ UNCHANGED <<g_bkl, mode, online, inmm, tlb_req_gen, ipi, sample, senders, memory>>

Ack(c) ==
    /\ serving[c] = "flushed"
    /\ tlb_ack_gen' = [tlb_ack_gen EXCEPT ![c] = sample[c]]
    /\ serving' = [serving EXCEPT ![c] = "no"]
    /\ UNCHANGED <<g_bkl, mode, online, inmm, tlb_req_gen, ipi, sample, senders, memory>>

-----------------------------------------------------------------------------
(* Who may change the page table: a thread of the address space that holds *)
(* the BKL, or, off the lock, any thread of it.                            *)
MayChange(c) ==
    /\ serving[c] = "no"
    /\ inmm[c]
    /\ mode[c] \in {"kernel", "run"}

(* The CPUs a shootdown names: a sender that holds the BKL those of its    *)
(* address space (tlb_shootdown_mm), one off the lock every online CPU     *)
(* (tlb_shootdown, as kt_sd_round calls it).                               *)
Targets(c) ==
    {d \in CPUs \ {c} : online[d] /\ (g_bkl = c => inmm[d])}

Map(c) ==
    /\ MayChange(c)
    /\ pte = NoFrame
    /\ \E f \in free : pte' = f /\ free' = free \ {f}
    /\ UNCHANGED <<g_bkl, mode, online, inmm, gens, ipi, servers, senders, cached>>

(* unmap_pages clears the entry and flushes it on this CPU ...             *)
Unmap(c) ==
    /\ MayChange(c)
    /\ pte # NoFrame
    /\ g_tlb_sends < MaxSends
    /\ g_tlb_sends' = g_tlb_sends + 1
    /\ victim' = [victim EXCEPT ![c] = pte]
    /\ pte' = NoFrame
    /\ cached' = [cached EXCEPT ![c] = NoFrame]
    /\ mode' = [mode EXCEPT ![c] = "cut"]
    /\ UNCHANGED <<g_bkl, online, inmm, gens, ipi, servers, target, todo, want, free>>

(* ... then tlb_shootdown takes the snapshot of its targets.               *)
Snapshot(c) ==
    /\ mode[c] = "cut" /\ serving[c] = "no"
    /\ target' = [target EXCEPT ![c] = Targets(c)]
    /\ todo' = [todo EXCEPT ![c] = Targets(c)]
    /\ mode' = [mode EXCEPT ![c] = "post"]
    /\ UNCHANGED <<g_bkl, online, inmm, gens, ipi, servers, want, victim, g_tlb_sends, memory>>

(* Bump one target's request generation.                                   *)
Post(c) ==
    /\ mode[c] = "post" /\ serving[c] = "no"
    /\ \E d \in todo[c] :
          LET g == (tlb_req_gen[d] + 1) % GEN IN
          /\ tlb_req_gen' = [tlb_req_gen EXCEPT ![d] = g]
          /\ want' = [want EXCEPT ![c][d] = g]
          /\ todo' = [todo EXCEPT ![c] = @ \ {d}]
    /\ UNCHANGED <<g_bkl, mode, online, inmm, tlb_ack_gen, ipi, servers, target, victim,
                   g_tlb_sends, memory>>

SendIpi(c) ==
    /\ mode[c] = "ipi" /\ serving[c] = "no"
    /\ \E d \in todo[c] :
          /\ ipi' = [ipi EXCEPT ![d] = TRUE]
          /\ todo' = [todo EXCEPT ![c] = @ \ {d}]
    /\ UNCHANGED <<g_bkl, mode, online, inmm, gens, servers, target, want, victim,
                   g_tlb_sends, memory>>

(* From one loop over the targets to the next.                             *)
NextLoop(c) ==
    /\ mode[c] \in {"post", "ipi"} /\ serving[c] = "no"
    /\ todo[c] = {}
    /\ mode' = [mode EXCEPT ![c] = IF mode[c] = "post" THEN "ipi" ELSE "wait"]
    /\ todo' = [todo EXCEPT ![c] = target[c]]
    /\ UNCHANGED <<g_bkl, online, inmm, gens, ipi, servers, target, want, victim,
                   g_tlb_sends, memory>>

Acked(c) ==
    /\ mode[c] = "wait" /\ serving[c] = "no"
    /\ \E d \in todo[c] :
          /\ ~Behind(tlb_ack_gen[d], want[c][d])
          /\ todo' = [todo EXCEPT ![c] = @ \ {d}]
    /\ UNCHANGED <<g_bkl, mode, online, inmm, gens, ipi, servers, target, want, victim,
                   g_tlb_sends, memory>>

(* The IPI is sent again to a target that is slow to acknowledge.          *)
Resend(c) ==
    /\ mode[c] = "wait" /\ serving[c] = "no"
    /\ \E d \in todo[c] : ~ipi[d] /\ ipi' = [ipi EXCEPT ![d] = TRUE]
    /\ UNCHANGED <<g_bkl, mode, online, inmm, gens, servers, senders, memory>>

(* Every target has acknowledged: the frame is freed.                      *)
Finish(c) ==
    /\ mode[c] = "wait" /\ serving[c] = "no"
    /\ todo[c] = {}
    /\ free' = free \cup {victim[c]}
    /\ victim' = [victim EXCEPT ![c] = NoFrame]
    /\ target' = [target EXCEPT ![c] = {}]
    /\ mode' = [mode EXCEPT ![c] = IF g_bkl = c THEN "kernel" ELSE "run"]
    /\ UNCHANGED <<g_bkl, online, inmm, gens, ipi, servers, want, todo, g_tlb_sends,
                   pte, cached>>

-----------------------------------------------------------------------------
Cpu(c) ==
    \/ Online(c) \/ Trap(c) \/ Acquire(c) \/ Release(c) \/ Dispatch(c) \/ Touch(c)
    \/ TakeIpi(c) \/ PollServe(c) \/ Flush(c) \/ Ack(c)
    \/ Map(c) \/ Unmap(c) \/ Snapshot(c) \/ Post(c) \/ SendIpi(c) \/ NextLoop(c)
    \/ Acked(c) \/ Resend(c) \/ Finish(c)

Next == \E c \in CPUs : Cpu(c)

Spec == Init /\ [][Next]_vars

-----------------------------------------------------------------------------
Sending == {"cut", "post", "ipi", "wait"}

(* Every variable has its type.                                            *)
TypeOK ==
    /\ g_bkl \in CPUs \cup {NoCPU}
    /\ mode \in [CPUs -> {"off", "run", "spin", "kernel"} \cup Sending]
    /\ online \in [CPUs -> BOOLEAN] /\ inmm \in [CPUs -> BOOLEAN]
    /\ tlb_req_gen \in [CPUs -> 0..(GEN - 1)]
    /\ tlb_ack_gen \in [CPUs -> 0..(GEN - 1)]
    /\ ipi \in [CPUs -> BOOLEAN]
    /\ serving \in [CPUs -> {"no", "sampled", "flushed"}]
    /\ sample \in [CPUs -> 0..(GEN - 1)]
    /\ target \in [CPUs -> SUBSET CPUs] /\ todo \in [CPUs -> SUBSET CPUs]
    /\ want \in [CPUs -> [CPUs -> 0..(GEN - 1)]]
    /\ pte \in Frames \cup {NoFrame}
    /\ cached \in [CPUs -> Frames \cup {NoFrame}]
    /\ victim \in [CPUs -> Frames \cup {NoFrame}]
    /\ free \subseteq Frames
    /\ g_tlb_sends \in 0..MaxSends

(***************************************************************************)
(* No CPU can reach a freed frame through its TLB: tlb_shootdown returns   *)
(* only after every CPU that may cache the page has flushed, including one *)
(* that was spinning for the lock with interrupts off, one that came       *)
(* online meanwhile and one that was serving an older request.             *)
(***************************************************************************)
NoStaleFrame ==
    \A c \in CPUs : cached[c] # NoFrame => cached[c] \notin free

(***************************************************************************)
(* No wait without end: a CPU whose acknowledgement a sender waits for is  *)
(* in tlb_serve_pending, or is sure to enter it: by the IPI with           *)
(* interrupts on, or from the loop it spins in, for the lock the sender    *)
(* holds or for an acknowledgement of that very sender; or it is itself on *)
(* its way to such a wait (with its interrupts off, perhaps).  Merged and  *)
(* re-sent IPIs change nothing of it.                                      *)
(***************************************************************************)
WaitedForServes ==
    \A c, d \in CPUs :
        mode[c] = "wait" /\ d \in todo[c] /\ Behind(tlb_ack_gen[d], want[c][d]) =>
            \/ serving[d] # "no"
            \/ mode[d] \in Sending \ {"wait"}
            \/ mode[d] \in {"run", "kernel"} /\ Interrupted(d)
            \/ Polls(d)
=============================================================================
