-------------------------- MODULE PipeFutexProofs ---------------------------
(***************************************************************************)
(* Safety of the two places where a thread tests a condition and sleeps    *)
(* until another thread makes it true: Pipe, for every number of threads   *)
(* and every buffer size, and Futex, for any set of threads and values.    *)
(***************************************************************************)
EXTENDS Pipe, Futex, FiniteSetTheorems, TLAPS

(* Pipe.                                                                   *)

LEMMA ModRange ==
    ASSUME NEW a \in Int, NEW b \in Nat \ {0}
    PROVE  a % b \in 0..(b - 1)
OBVIOUS

LEMMA WokenType ==
    ASSUME NEW f \in [Threads -> PCs]
    PROVE  /\ Woken(f) \in [Threads -> PCs]
           /\ \A t \in Threads : Woken(f)[t] \notin {"rsleep", "wsleep"}
           /\ \A t \in Threads : Woken(f)[t] = "idle" <=> f[t] = "idle"
BY DEF Woken, PCs

LEMMA NoReqType == NoReq \in Reqs
BY PipeAssumption DEF NoReq, NewReq, Reqs

LEMMA InitTypeOK == Init => TypeOK
BY PipeAssumption, NoReqType DEF Init, TypeOK, PCs

(* Leave keeps the types of the variables it assigns.                      *)
LEMMA LeaveType ==
    ASSUME TypeOK, serial' \in Int, NEW t \in Threads, NEW pcs \in [Threads -> PCs],
           NEW p \in Int, NEW hd \in 0..(PIPE_BUF_SIZE - 1),
           NEW ct \in 0..(WORD - 1), NEW last \in Int,
           Leave(t, pcs, p, hd, ct, last)
    PROVE  /\ pins' \in Int
           /\ pc' \in [Threads -> PCs]
           /\ req' \in [Threads -> Reqs]
           /\ head' \in 0..(PIPE_BUF_SIZE - 1)
           /\ count' \in 0..(WORD - 1)
           /\ alive' \in BOOLEAN
           /\ rd' \in Int
<1>1. pins' = p - 1 /\ pc' = [pcs EXCEPT ![t] = "idle"]
      /\ req' = [req EXCEPT ![t] = NoReq]
  BY DEF Leave
<1>2. pins' \in Int
  BY <1>1
<1>3. pc' \in [Threads -> PCs]
  BY <1>1 DEF PCs
<1>4. req' \in [Threads -> Reqs]
  BY <1>1, NoReqType DEF TypeOK
<1>5. /\ head' \in 0..(PIPE_BUF_SIZE - 1)
      /\ count' \in 0..(WORD - 1)
      /\ rd' \in Int
  BY PipeAssumption DEF Leave, TryFree
<1>6. alive' \in BOOLEAN
  BY DEF Leave, TryFree
<1> QED
  BY <1>2, <1>3, <1>4, <1>5, <1>6
(* The typing of every variable, preserved by every step.                  *)
LEMMA NextTypeOK == TypeOK /\ [Next]_vars => TypeOK'
<1> SUFFICES ASSUME TypeOK, [Next]_vars PROVE TypeOK'
  OBVIOUS
<1> USE PipeAssumption
<1>a. pc \in [Threads -> PCs] /\ Woken(pc) \in [Threads -> PCs]
  BY WokenType DEF TypeOK
<1>b. ASSUME NEW t \in Threads, NEW p \in Int, NEW at \in Int, NEW take \in Int,
             UNCHANGED <<data, ends, fifo, sig, serial>>,
             Consume(t, p, at, take) \/ ReadFault(t, p)
      PROVE  TypeOK'
  <2>1. (head + take) % PIPE_BUF_SIZE \in 0..(PIPE_BUF_SIZE - 1)
        /\ (count - take) % WORD \in 0..(WORD - 1)
        /\ (at + take - 1) % PIPE_BUF_SIZE \in 0..(PIPE_BUF_SIZE - 1)
    BY ModRange DEF TypeOK
  <2>2. data[(at + take - 1) % PIPE_BUF_SIZE] \in Int
    BY <2>1 DEF TypeOK
  <2>3. serial' \in Int
    BY <1>b DEF TypeOK
  <2>4. /\ pins' \in Int
        /\ pc' \in [Threads -> PCs]
        /\ req' \in [Threads -> Reqs]
        /\ head' \in 0..(PIPE_BUF_SIZE - 1)
        /\ count' \in 0..(WORD - 1)
        /\ alive' \in BOOLEAN
        /\ rd' \in Int
    <3>1. CASE Consume(t, p, at, take)
      BY <3>1, <1>a, <2>1, <2>2, <2>3, LeaveType DEF Consume
    <3>2. CASE ReadFault(t, p)
      BY <3>2, <1>a, <2>3, LeaveType DEF ReadFault, TypeOK
    <3> QED BY <1>b, <3>1, <3>2
  <2> QED BY <2>4, <1>b DEF TypeOK, ends
<1>c. ASSUME NEW t \in Threads, NEW r \in Reqs, NEW p \in Int,
             UNCHANGED <<data, ends, fifo, sig, serial>>, ReadFrom(t, r, p)
      PROVE  TypeOK'
  <2> DEFINE take == Smaller(r.len, count)
  <2>0. take \in Int
    BY DEF Smaller, Reqs, TypeOK
  <2>1. CASE Leave(t, pc, p, head, count, rd)
    <3>1. ReadFault(t, p)
      BY <2>1 DEF ReadFault
    <3> QED BY <3>1, <1>b, <1>c
  <2>2. CASE /\ pc' = [pc EXCEPT ![t] = "rsleep"]
             /\ req' = [req EXCEPT ![t] = r]
             /\ pins' = p
             /\ UNCHANGED <<head, count, alive, rd>>
    BY <2>2, <1>c DEF TypeOK, ends, PCs
  <2>3. CASE /\ pc' = [pc EXCEPT ![t] = "rcopy"]
             /\ req' = [req EXCEPT ![t] = [r EXCEPT !.at = head, !.k = take]]
             /\ pins' = p
             /\ UNCHANGED <<head, count, alive, rd>>
    <3>1. [r EXCEPT !.at = head, !.k = take] \in Reqs
      BY <2>0 DEF Reqs, TypeOK
    <3> HIDE DEF take
    <3> QED BY <2>3, <1>c, <3>1 DEF TypeOK, ends, PCs
  <2>4. CASE Consume(t, p, head, take) \/ ReadFault(t, p)
    <3> HIDE DEF take
    <3>1. head \in Int
      BY DEF TypeOK
    <3> QED BY <2>4, <2>0, <1>b, <1>c, <3>1
  <2> QED
    BY <1>c, <2>1, <2>2, <2>3, <2>4 DEF ReadFrom
<1>d. ASSUME NEW t \in Threads, NEW r \in Reqs, NEW p \in Int,
             NEW tail \in Int, NEW put \in Int, UNCHANGED <<ends, fifo>>,
             Commit(t, r, p, tail, put) \/ WriteFault(t, p)
      PROVE  TypeOK'
  <2>1. CASE Commit(t, r, p, tail, put)
    <3>1. serial' \in Int /\ sig' = sig
      BY <2>1 DEF Commit, TypeOK
    <3>2. data' \in [0..(PIPE_BUF_SIZE - 1) -> Int]
      <4> DEFINE cell(i) == LET j == (i - tail) % PIPE_BUF_SIZE
                            IN  IF j < put THEN serial + 1 + j ELSE data[i]
      <4>1. ASSUME NEW i \in 0..(PIPE_BUF_SIZE - 1) PROVE cell(i) \in Int
        <5>1. (i - tail) % PIPE_BUF_SIZE \in Int
          BY ModRange
        <5>2. serial \in Int /\ data[i] \in Int
          BY DEF TypeOK
        <5> QED BY <5>1, <5>2
      <4>2. data' = [i \in 0..(PIPE_BUF_SIZE - 1) |-> cell(i)]
        <5>1. DOMAIN data = 0..(PIPE_BUF_SIZE - 1)
          BY DEF TypeOK
        <5> QED BY <2>1, <5>1 DEF Commit
      <4> HIDE DEF cell
      <4> QED BY <4>1, <4>2
    <3>3. (count + put) % WORD \in 0..(WORD - 1)
      BY ModRange DEF TypeOK
    <3>4. CASE Leave(t, Woken(pc), p, head, (count + put) % WORD, rd)
      <4>1. head \in 0..(PIPE_BUF_SIZE - 1) /\ rd \in Int
        BY DEF TypeOK
      <4>2. /\ pins' \in Int
            /\ pc' \in [Threads -> PCs]
            /\ req' \in [Threads -> Reqs]
            /\ head' \in 0..(PIPE_BUF_SIZE - 1)
            /\ count' \in 0..(WORD - 1)
            /\ alive' \in BOOLEAN
            /\ rd' \in Int
        BY <3>1, <3>3, <3>4, <4>1, <1>a, LeaveType
      <4> QED BY <4>2, <3>1, <3>2, <1>d DEF TypeOK, ends
    <3>5. CASE /\ count' = (count + put) % WORD
               /\ pc' = [Woken(pc) EXCEPT ![t] = "wready"]
               /\ req' = [req EXCEPT ![t] = [r EXCEPT !.n = r.n + put]]
               /\ pins' = p
               /\ UNCHANGED <<head, alive, rd>>
      <4>1. [r EXCEPT !.n = r.n + put] \in Reqs
        BY DEF Reqs
      <4>2. req' \in [Threads -> Reqs]
        BY <3>5, <4>1 DEF TypeOK
      <4>3. pc' \in [Threads -> PCs]
        BY <3>5, <1>a DEF PCs
      <4> QED BY <4>2, <4>3, <3>5, <3>3, <3>1, <3>2, <1>d DEF TypeOK, ends
    <3> QED BY <2>1, <3>4, <3>5 DEF Commit
  <2>2. CASE WriteFault(t, p)
    <3>1. serial' \in Int
      BY <2>2 DEF WriteFault, TypeOK
    <3>2. /\ pins' \in Int
          /\ pc' \in [Threads -> PCs]
          /\ req' \in [Threads -> Reqs]
          /\ head' \in 0..(PIPE_BUF_SIZE - 1)
          /\ count' \in 0..(WORD - 1)
          /\ alive' \in BOOLEAN
          /\ rd' \in Int
      BY <3>1, <2>2, <1>a, LeaveType DEF WriteFault, TypeOK
    <3> QED BY <3>2, <2>2, <1>d DEF TypeOK, ends, WriteFault
  <2> QED BY <1>d, <2>1, <2>2
<1>e. ASSUME NEW t \in Threads, NEW r \in Reqs, NEW p \in Int,
             UNCHANGED <<ends, fifo>>, WriteFrom(t, r, p)
      PROVE  TypeOK'
  <2> DEFINE put  == Smaller(r.len - r.n, PIPE_BUF_SIZE - count)
             tail == (head + count) % PIPE_BUF_SIZE
  <2>0. put \in Int /\ tail \in 0..(PIPE_BUF_SIZE - 1)
    <3>1. r.len \in Int /\ r.n \in Int /\ count \in Int /\ head \in Int
      BY DEF Reqs, TypeOK
    <3>2. put \in Int
      BY <3>1 DEF Smaller
    <3>3. tail \in 0..(PIPE_BUF_SIZE - 1)
      BY <3>1, ModRange
    <3> QED BY <3>2, <3>3
  <2>1. CASE /\ sig' = [sig EXCEPT ![t] = sig[t] \/ nreaders = 0]
             /\ UNCHANGED <<data, serial>>
             /\ Leave(t, pc, p, head, count, rd)
    <3>1. serial' \in Int
      BY <2>1 DEF TypeOK
    <3>2. /\ pins' \in Int
          /\ pc' \in [Threads -> PCs]
          /\ req' \in [Threads -> Reqs]
          /\ head' \in 0..(PIPE_BUF_SIZE - 1)
          /\ count' \in 0..(WORD - 1)
          /\ alive' \in BOOLEAN
          /\ rd' \in Int
      BY <3>1, <2>1, <1>a, LeaveType DEF TypeOK
    <3>3. sig' \in [Threads -> BOOLEAN]
      BY <2>1 DEF TypeOK
    <3> QED BY <3>1, <3>2, <3>3, <2>1, <1>e DEF TypeOK, ends
  <2>2. CASE /\ pc' = [pc EXCEPT ![t] = "wsleep"]
             /\ req' = [req EXCEPT ![t] = r]
             /\ pins' = p
             /\ UNCHANGED <<data, head, count, alive, serial, rd, sig>>
    BY <2>2, <1>e DEF TypeOK, ends, PCs
  <2>3. CASE /\ pc' = [pc EXCEPT ![t] = "wcopy"]
             /\ req' = [req EXCEPT ![t] = [r EXCEPT !.at = tail, !.k = put]]
             /\ pins' = p
             /\ UNCHANGED <<data, head, count, alive, serial, rd, sig>>
    <3>1. [r EXCEPT !.at = tail, !.k = put] \in Reqs
      BY <2>0 DEF Reqs
    <3> HIDE DEF put, tail
    <3> QED BY <2>3, <1>e, <3>1 DEF TypeOK, ends, PCs
  <2>4. CASE Commit(t, r, p, tail, put) \/ WriteFault(t, p)
    <3> HIDE DEF put, tail
    <3>1. tail \in Int
      BY <2>0
    <3> QED BY <2>4, <2>0, <3>1, <1>d, <1>e
  <2> QED
    BY <1>e, <2>1, <2>2, <2>3, <2>4 DEF WriteFrom
<1>f. \A len \in 1..MaxLen, nb \in BOOLEAN : NewReq(len, nb) \in Reqs
  BY DEF NewReq, Reqs
<1>g. /\ pins \in Int /\ pins + 1 \in Int
      /\ \A t \in Threads : req[t] \in Reqs /\ req[t].at \in Int /\ req[t].k \in Int
  BY DEF TypeOK, Reqs
<1>1. ASSUME NEW t \in Readers, ReadCall(t) \/ ReadResume(t) \/ ReadCopied(t)
      PROVE  TypeOK'
  <2> t \in Threads
    BY DEF Threads
  <2>1. CASE ReadCall(t)
    BY <2>1, <1>c, <1>f, <1>g DEF ReadCall
  <2>2. CASE ReadResume(t)
    BY <2>2, <1>c, <1>g DEF ReadResume
  <2>3. CASE ReadCopied(t)
    BY <2>3, <1>b, <1>g DEF ReadCopied
  <2> QED BY <1>1, <2>1, <2>2, <2>3
<1>2. ASSUME NEW t \in Writers, \/ WriteCall(t) \/ WriteNoReader(t)
                                \/ WriteResume(t) \/ WriteCopied(t)
      PROVE  TypeOK'
  <2> t \in Threads
    BY DEF Threads
  <2>1. CASE WriteCall(t)
    BY <2>1, <1>e, <1>f, <1>g DEF WriteCall
  <2>2. CASE WriteNoReader(t)
    BY <2>2 DEF WriteNoReader, TypeOK, ring, ends
  <2>3. CASE WriteResume(t)
    BY <2>3, <1>e, <1>g DEF WriteResume
  <2>4. CASE WriteCopied(t)
    BY <2>4, <1>d, <1>g DEF WriteCopied
  <2> QED BY <1>2, <2>1, <2>2, <2>3, <2>4
<1>3. ASSUME NEW t \in Threads, Signal(t) \/ ReturnToUser(t)
      PROVE  TypeOK'
  <2>1. CASE Signal(t)
    <3>1. pc' \in [Threads -> PCs]
      BY <2>1, <1>a DEF Signal
    <3> QED BY <2>1, <3>1 DEF Signal, TypeOK, ring, ends
  <2>2. CASE ReturnToUser(t)
    BY <2>2 DEF ReturnToUser, TypeOK, ring, ends
  <2> QED BY <1>3, <2>1, <2>2
<1>4. CASE AddReader
  BY <1>4 DEF AddReader, TypeOK, ring
<1>5. CASE AddWriter
  BY <1>5 DEF AddWriter, TypeOK, ring
<1>6. CASE CloseRead
  BY <1>6, <1>a DEF CloseRead, TryFree, TypeOK
<1>7. CASE CloseWrite
  BY <1>7, <1>a DEF CloseWrite, TryFree, TypeOK
<1>8. CASE FifoFree
  <2>1. alive' \in BOOLEAN
    BY <1>8, Zenon DEF FifoFree
  <2> QED BY <1>8, <1>a, <2>1 DEF FifoFree, TypeOK, ring, ends
<1>9. CASE UNCHANGED vars
  BY <1>9 DEF vars, TypeOK
<1> QED
  BY <1>1, <1>2, <1>3, <1>4, <1>5, <1>6, <1>7, <1>8, <1>9 DEF Next

(***************************************************************************)
(* Every variable of the pipe keeps its type: head stays an index of the   *)
(* ring and the unsigned counters stay below their modulus.                *)
(***************************************************************************)
THEOREM TypeCorrect == Spec => []TypeOK
BY InitTypeOK, NextTypeOK, PTL DEF Spec

-----------------------------------------------------------------------------
(* What a thread that leaves without waking anyone does to the sleepers:   *)
(* the others sleep on, and the buffer is reset only with no end open,     *)
(* when nobody sleeps.                                                     *)
LEMMA LeaveNoWake ==
    ASSUME TypeOK, NoLostWakeup, NEW t \in Threads, NEW p, UNCHANGED ends,
           \A u \in Threads \ {t} : sig'[u] = sig[u],
           Leave(t, pc, p, head, count, rd)
    PROVE  NoLostWakeup'
<1> SUFFICES ASSUME NEW u \in Threads
             PROVE  /\ pc'[u] = "rsleep" => count' = 0 /\ nwriters' > 0 /\ ~sig'[u]
                    /\ pc'[u] = "wsleep" =>
                          count' = PIPE_BUF_SIZE /\ nreaders' > 0 /\ ~sig'[u]
  BY DEF NoLostWakeup
<1>1. pc' = [pc EXCEPT ![t] = "idle"]
  BY DEF Leave
<1>2. nreaders' = nreaders /\ nwriters' = nwriters
  BY DEF ends
<1>3. CASE u = t
  BY <1>1, <1>3 DEF TypeOK
<1>4. CASE u # t /\ pc[u] \notin {"rsleep", "wsleep"}
  BY <1>1, <1>4 DEF TypeOK
<1>5. CASE u # t /\ pc[u] \in {"rsleep", "wsleep"}
  <2>1. pc'[u] = pc[u] /\ sig'[u] = sig[u]
    BY <1>1, <1>5 DEF TypeOK
  <2>2. nwriters > 0 \/ nreaders > 0
    BY <1>5 DEF NoLostWakeup
  <2>3. count' = count
    BY <2>2 DEF Leave, TryFree, TypeOK
  <2> QED BY <2>1, <2>3, <1>2 DEF NoLostWakeup
<1> QED BY <1>3, <1>4, <1>5

(* A thread that leaves after waking everyone: nobody is asleep.           *)
LEMMA WakeAll ==
    ASSUME TypeOK, NEW t \in Threads, NEW x \in PCs \ {"rsleep", "wsleep"},
           pc' = Woken(pc) \/ pc' = [Woken(pc) EXCEPT ![t] = x]
    PROVE  NoLostWakeup'
BY WokenType DEF TypeOK, NoLostWakeup

(* A thread that parks itself, nothing else changing.                      *)
LEMMA ParkSelf ==
    ASSUME TypeOK, NoLostWakeup, NEW t \in Threads, NEW x \in PCs,
           pc' = [pc EXCEPT ![t] = x], UNCHANGED <<ends, count, sig>>,
           x = "rsleep" => count = 0 /\ nwriters > 0 /\ ~sig[t],
           x = "wsleep" => count = PIPE_BUF_SIZE /\ nreaders > 0 /\ ~sig[t]
    PROVE  NoLostWakeup'
BY DEF TypeOK, NoLostWakeup, ends

LEMMA NextNoLostWakeup == TypeOK /\ NoLostWakeup /\ [Next]_vars => NoLostWakeup'
<1> SUFFICES ASSUME TypeOK, NoLostWakeup, [Next]_vars PROVE NoLostWakeup'
  OBVIOUS
<1> USE PipeAssumption
<1>a. "idle" \in PCs \ {"rsleep", "wsleep"} /\ "wready" \in PCs \ {"rsleep", "wsleep"}
      /\ "rsleep" \in PCs /\ "wsleep" \in PCs /\ "rcopy" \in PCs /\ "wcopy" \in PCs
  BY DEF PCs
<1>b. ASSUME NEW t \in Threads, NEW p, NEW at, NEW take,
             UNCHANGED <<data, ends, fifo, sig, serial>>,
             Consume(t, p, at, take) \/ ReadFault(t, p)
      PROVE  NoLostWakeup'
  BY <1>a, <1>b, WakeAll, LeaveNoWake DEF Consume, ReadFault, Leave
<1>c. ASSUME NEW t \in Threads, NEW r, NEW p,
             UNCHANGED <<data, ends, fifo, sig, serial>>, ReadFrom(t, r, p)
      PROVE  NoLostWakeup'
  <2> DEFINE take == Smaller(r.len, count)
  <2>1. CASE Leave(t, pc, p, head, count, rd)
    BY <1>c, <2>1, LeaveNoWake
  <2>2. CASE /\ count = 0 /\ nwriters > 0 /\ ~sig[t]
             /\ pc' = [pc EXCEPT ![t] = "rsleep"]
             /\ UNCHANGED <<head, count, alive, rd>>
    BY <1>a, <1>c, <2>2, ParkSelf
  <2>3. CASE /\ pc' = [pc EXCEPT ![t] = "rcopy"]
             /\ UNCHANGED <<head, count, alive, rd>>
    BY <1>a, <1>c, <2>3, ParkSelf
  <2>4. CASE Consume(t, p, head, take) \/ ReadFault(t, p)
    BY <1>b, <1>c, <2>4
  <2> QED
    BY <1>c, <2>1, <2>2, <2>3, <2>4 DEF ReadFrom
<1>d. ASSUME NEW t \in Threads, NEW r, NEW p, NEW tail, NEW put, UNCHANGED <<ends, fifo>>,
             Commit(t, r, p, tail, put) \/ WriteFault(t, p)
      PROVE  NoLostWakeup'
  <2>1. CASE Commit(t, r, p, tail, put)
    <3>1. \/ pc' = [Woken(pc) EXCEPT ![t] = "idle"]
          \/ pc' = [Woken(pc) EXCEPT ![t] = "wready"]
      BY <2>1 DEF Commit, Leave
    <3> QED BY <3>1, <1>a, WakeAll
  <2>2. CASE WriteFault(t, p)
    BY <1>d, <2>2, LeaveNoWake DEF WriteFault
  <2> QED BY <1>d, <2>1, <2>2
<1>e. ASSUME NEW t \in Threads, NEW r, NEW p, UNCHANGED <<ends, fifo>>,
             WriteFrom(t, r, p)
      PROVE  NoLostWakeup'
  <2> DEFINE put  == Smaller(r.len - r.n, PIPE_BUF_SIZE - count)
             tail == (head + count) % PIPE_BUF_SIZE
  <2>1. CASE /\ sig' = [sig EXCEPT ![t] = sig[t] \/ nreaders = 0]
             /\ Leave(t, pc, p, head, count, rd)
    <3>1. \A u \in Threads \ {t} : sig'[u] = sig[u]
      BY <2>1 DEF TypeOK
    <3> QED BY <1>e, <2>1, <3>1, LeaveNoWake
  <2>2. CASE /\ count = PIPE_BUF_SIZE /\ nreaders > 0 /\ ~sig[t]
             /\ pc' = [pc EXCEPT ![t] = "wsleep"]
             /\ UNCHANGED <<data, head, count, alive, serial, rd, sig>>
    BY <1>a, <1>e, <2>2, ParkSelf
  <2>3. CASE /\ pc' = [pc EXCEPT ![t] = "wcopy"]
             /\ UNCHANGED <<data, head, count, alive, serial, rd, sig>>
    BY <1>a, <1>e, <2>3, ParkSelf
  <2>4. CASE Commit(t, r, p, tail, put) \/ WriteFault(t, p)
    BY <1>d, <1>e, <2>4
  <2> QED
    BY <1>e, <2>1, <2>2, <2>3, <2>4 DEF WriteFrom
<1>1. ASSUME NEW t \in Readers, ReadCall(t) \/ ReadResume(t) \/ ReadCopied(t)
      PROVE  NoLostWakeup'
  <2> t \in Threads
    BY DEF Threads
  <2>1. CASE ReadCall(t)
    BY <2>1, <1>c DEF ReadCall
  <2>2. CASE ReadResume(t)
    BY <2>2, <1>c DEF ReadResume
  <2>3. CASE ReadCopied(t)
    BY <2>3, <1>b DEF ReadCopied
  <2> QED BY <1>1, <2>1, <2>2, <2>3
<1>2. ASSUME NEW t \in Writers, \/ WriteCall(t) \/ WriteNoReader(t)
                                \/ WriteResume(t) \/ WriteCopied(t)
      PROVE  NoLostWakeup'
  <2> t \in Threads
    BY DEF Threads
  <2>1. CASE WriteCall(t)
    BY <2>1, <1>e DEF WriteCall
  <2>2. CASE WriteNoReader(t)
    BY <2>2 DEF WriteNoReader, TypeOK, NoLostWakeup, ring, ends
  <2>3. CASE WriteResume(t)
    BY <2>3, <1>e DEF WriteResume
  <2>4. CASE WriteCopied(t)
    BY <2>4, <1>d DEF WriteCopied
  <2> QED BY <1>2, <2>1, <2>2, <2>3, <2>4
<1>3. ASSUME NEW t \in Threads, Signal(t) \/ ReturnToUser(t)
      PROVE  NoLostWakeup'
  <2>1. CASE Signal(t)
    <3>1. Woken(pc)[t] \notin {"rsleep", "wsleep"}
      BY WokenType DEF TypeOK
    <3> QED BY <2>1, <3>1 DEF Signal, TypeOK, NoLostWakeup, ring, ends
  <2>2. CASE ReturnToUser(t)
    BY <2>2 DEF ReturnToUser, TypeOK, NoLostWakeup, ring, ends
  <2> QED BY <1>3, <2>1, <2>2
<1>4. CASE AddReader
  BY <1>4 DEF AddReader, TypeOK, NoLostWakeup, ring
<1>5. CASE AddWriter
  BY <1>5 DEF AddWriter, TypeOK, NoLostWakeup, ring
<1>6. CASE CloseRead \/ CloseWrite \/ FifoFree
  <2>1. pc' = Woken(pc)
    BY <1>6 DEF CloseRead, CloseWrite, FifoFree
  <2> QED BY <2>1, WokenType DEF NoLostWakeup, TypeOK
<1>7. CASE UNCHANGED vars
  BY <1>7 DEF vars, NoLostWakeup
<1> QED
  BY <1>1, <1>2, <1>3, <1>4, <1>5, <1>6, <1>7 DEF Next

(***************************************************************************)
(* No wakeup is ever lost, for any number of readers, writers and closers, *)
(* any buffer size and any user copy that faults: pipe_read and pipe_write *)
(* test for data or room and fall asleep without a gap, and every change   *)
(* that could satisfy a sleeper wakes it.                                  *)
(***************************************************************************)
THEOREM WakeupsNotLost == Spec => []NoLostWakeup
<1>1. Init => NoLostWakeup
  BY DEF Init, NoLostWakeup
<1> QED
  BY <1>1, InitTypeOK, NextTypeOK, NextNoLostWakeup, PTL DEF Spec

-----------------------------------------------------------------------------
LEMMA InCallFinite ==
    ASSUME NEW f, NEW t \in Threads
    PROVE  /\ IsFiniteSet(InCall(f)) /\ Cardinality(InCall(f)) \in Nat
           /\ IsFiniteSet(InCall(f) \cup {t})
           /\ Cardinality(InCall(f) \cup {t}) \in Nat
           /\ Cardinality(InCall(f) \cup {t}) > 0
           /\ f[t] = "idle" => Cardinality(InCall(f) \cup {t}) = Cardinality(InCall(f)) + 1
           /\ f[t] # "idle" => InCall(f) \cup {t} = InCall(f)
           /\ Cardinality((InCall(f) \cup {t}) \ {t}) = Cardinality(InCall(f) \cup {t}) - 1
<1>1. IsFiniteSet(Threads)
  BY PipeAssumption, FS_Union DEF Threads
<1>2. InCall(f) \subseteq Threads
  BY DEF InCall
<1>3. IsFiniteSet(InCall(f))
  BY <1>1, <1>2, FS_Subset
<1>4. IsFiniteSet(InCall(f) \cup {t}) /\ Cardinality(InCall(f)) \in Nat
  BY <1>3, FS_AddElement, FS_CardinalityType
<1>5. Cardinality(InCall(f) \cup {t}) \in Nat
  BY <1>4, FS_CardinalityType
<1>6. Cardinality(InCall(f) \cup {t}) # 0
  BY <1>4, FS_EmptySet
<1>7. f[t] = "idle" => Cardinality(InCall(f) \cup {t}) = Cardinality(InCall(f)) + 1
  BY <1>3, FS_AddElement DEF InCall
<1>8. f[t] # "idle" => InCall(f) \cup {t} = InCall(f)
  BY DEF InCall
<1>9. Cardinality((InCall(f) \cup {t}) \ {t}) = Cardinality(InCall(f) \cup {t}) - 1
  BY <1>4, FS_RemoveElement
<1> QED BY <1>3, <1>4, <1>5, <1>6, <1>7, <1>8, <1>9

LEMMA InCallUpdate ==
    ASSUME NEW f \in [Threads -> PCs], NEW t \in Threads
    PROVE  /\ InCall([f EXCEPT ![t] = "idle"]) = (InCall(f) \cup {t}) \ {t}
           /\ \A x \in PCs \ {"idle"} : InCall([f EXCEPT ![t] = x]) = InCall(f) \cup {t}
           /\ InCall(Woken(f)) = InCall(f)
<1>1. InCall(Woken(f)) = InCall(f)
  BY WokenType DEF InCall
<1>2. InCall([f EXCEPT ![t] = "idle"]) = (InCall(f) \cup {t}) \ {t}
  BY DEF InCall
<1>3. \A x \in PCs \ {"idle"} : InCall([f EXCEPT ![t] = x]) = InCall(f) \cup {t}
  BY DEF InCall
<1> QED BY <1>1, <1>2, <1>3

(* The inductive invariant behind the life of the buffer.                  *)
Life == NoUseAfterFree /\ NoLeak

(* A call of t that holds its pin among p, and drops it.                   *)
LEMMA LeaveLife ==
    ASSUME TypeOK, alive, NEW t \in Threads, NEW p \in Int, NEW pcs \in {pc, Woken(pc)},
           NEW hd, NEW ct, NEW last,
           p = Cardinality(InCall(pc) \cup {t}), UNCHANGED <<ends, fifo>>,
           Leave(t, pcs, p, hd, ct, last)
    PROVE  Life'
<1>1. pc \in [Threads -> PCs] /\ pcs \in [Threads -> PCs] /\ InCall(pcs) = InCall(pc)
  BY WokenType, InCallUpdate DEF TypeOK
<1>2. pins' = p - 1 /\ pc' = [pcs EXCEPT ![t] = "idle"]
  BY DEF Leave
<1>3. pins' = Cardinality(InCall(pc'))
  <2>1. InCall(pc') = (InCall(pc) \cup {t}) \ {t}
    BY <1>1, <1>2 DEF InCall
  <2>2. Cardinality((InCall(pc) \cup {t}) \ {t}) = Cardinality(InCall(pc) \cup {t}) - 1
    BY InCallFinite
  <2> QED BY <2>1, <2>2, <1>2
<1>4. p > 0
  BY InCallFinite
<1>5. nreaders' = nreaders /\ nwriters' = nwriters /\ fifo' = fifo
      /\ nreaders >= 0 /\ nwriters >= 0 /\ nreaders \in Int /\ nwriters \in Int
  BY PipeAssumption DEF ends, TypeOK
<1> DEFINE gone == nreaders = 0 /\ nwriters = 0 /\ p - 1 = 0
<1>6. alive' <=> (fifo \/ ~gone)
  BY DEF Leave, TryFree
<1>7. ~gone => (pins' > 0 \/ nreaders' > 0 \/ nwriters' > 0)
  BY <1>2, <1>4, <1>5
<1>8. gone => ~(pins' > 0 \/ nreaders' > 0 \/ nwriters' > 0)
  BY <1>2, <1>5
<1>9. gone <=> (nreaders' = 0 /\ nwriters' = 0 /\ pins' = 0)
  BY <1>2, <1>5
<1> HIDE DEF gone
<1> QED BY <1>3, <1>5, <1>6, <1>7, <1>8, <1>9 DEF Life, NoUseAfterFree, NoLeak

(* A call of t that goes on (asleep, copying or round the loop again).     *)
LEMMA StayLife ==
    ASSUME TypeOK, alive, NEW t \in Threads, NEW p \in Int, NEW pcs \in {pc, Woken(pc)},
           NEW x \in PCs \ {"idle"}, p = Cardinality(InCall(pc) \cup {t}),
           UNCHANGED <<ends, fifo, alive>>, pins' = p, pc' = [pcs EXCEPT ![t] = x]
    PROVE  Life'
<1>1. pc \in [Threads -> PCs] /\ pcs \in [Threads -> PCs] /\ InCall(pcs) = InCall(pc)
  BY WokenType, InCallUpdate DEF TypeOK
<1>2. InCall(pc') = InCall(pc) \cup {t}
  BY <1>1 DEF InCall
<1>3. p > 0
  BY InCallFinite
<1>4. pins' # 0
  BY <1>3
<1>5. pins' = Cardinality(InCall(pc'))
  BY <1>2
<1> QED BY <1>4, <1>5 DEF Life, NoUseAfterFree, NoLeak

LEMMA NextLife == TypeOK /\ Life /\ [Next]_vars => Life'
<1> SUFFICES ASSUME TypeOK, Life, [Next]_vars PROVE Life'
  OBVIOUS
<1>a. {"rsleep", "wsleep", "rcopy", "wcopy", "wready"} \subseteq PCs \ {"idle"}
  BY DEF PCs
<1>b. ASSUME NEW t \in Threads, NEW p \in Int, NEW at, NEW take, alive,
             p = Cardinality(InCall(pc) \cup {t}),
             UNCHANGED <<data, ends, fifo, sig, serial>>,
             Consume(t, p, at, take) \/ ReadFault(t, p)
      PROVE  Life'
  BY <1>b, LeaveLife DEF Consume, ReadFault
<1>c. ASSUME NEW t \in Threads, NEW r, NEW p \in Int, alive,
             p = Cardinality(InCall(pc) \cup {t}),
             UNCHANGED <<data, ends, fifo, sig, serial>>, ReadFrom(t, r, p)
      PROVE  Life'
  <2> DEFINE take == Smaller(r.len, count)
  <2>1. CASE Leave(t, pc, p, head, count, rd)
    BY <1>c, <2>1, LeaveLife
  <2>2. CASE /\ pc' = [pc EXCEPT ![t] = "rsleep"] \/ pc' = [pc EXCEPT ![t] = "rcopy"]
             /\ pins' = p
             /\ UNCHANGED <<head, count, alive, rd>>
    BY <1>a, <1>c, <2>2, StayLife
  <2>3. CASE Consume(t, p, head, take) \/ ReadFault(t, p)
    BY <1>b, <1>c, <2>3
  <2> QED
    BY <1>c, <2>1, <2>2, <2>3 DEF ReadFrom
<1>d. ASSUME NEW t \in Threads, NEW r, NEW p \in Int, NEW tail, NEW put, alive,
             p = Cardinality(InCall(pc) \cup {t}), UNCHANGED <<ends, fifo>>,
             Commit(t, r, p, tail, put) \/ WriteFault(t, p)
      PROVE  Life'
  <2>1. CASE Leave(t, Woken(pc), p, head, (count + put) % WORD, rd)
             \/ Leave(t, pc, p, head, count, rd)
    BY <1>d, <2>1, LeaveLife
  <2>2. CASE /\ pc' = [Woken(pc) EXCEPT ![t] = "wready"]
             /\ pins' = p
             /\ UNCHANGED <<head, alive, rd>>
    BY <1>a, <1>d, <2>2, StayLife
  <2> QED BY <1>d, <2>1, <2>2 DEF Commit, WriteFault
<1>e. ASSUME NEW t \in Threads, NEW r, NEW p \in Int, alive,
             p = Cardinality(InCall(pc) \cup {t}), UNCHANGED <<ends, fifo>>,
             WriteFrom(t, r, p)
      PROVE  Life'
  <2> DEFINE put  == Smaller(r.len - r.n, PIPE_BUF_SIZE - count)
             tail == (head + count) % PIPE_BUF_SIZE
  <2>1. CASE Leave(t, pc, p, head, count, rd)
    BY <1>e, <2>1, LeaveLife
  <2>2. CASE /\ pc' = [pc EXCEPT ![t] = "wsleep"] \/ pc' = [pc EXCEPT ![t] = "wcopy"]
             /\ pins' = p
             /\ UNCHANGED <<data, head, count, alive, serial, rd, sig>>
    BY <1>a, <1>e, <2>2, StayLife
  <2>3. CASE Commit(t, r, p, tail, put) \/ WriteFault(t, p)
    BY <1>d, <1>e, <2>3
  <2> QED
    BY <1>e, <2>1, <2>2, <2>3 DEF WriteFrom
<1>f. ASSUME NEW t \in Threads
      PROVE  /\ pins \in Int /\ pins + 1 \in Int
             /\ pc[t] = "idle" => pins + 1 = Cardinality(InCall(pc) \cup {t})
             /\ pc[t] # "idle" => pins = Cardinality(InCall(pc) \cup {t}) /\ alive
             /\ (nreaders > 0 \/ nwriters > 0) => alive
  <2>1. pc[t] # "idle" => pins > 0
    BY InCallFinite DEF Life, NoUseAfterFree
  <2>2. pins \in Int /\ pins + 1 \in Int /\ pins = Cardinality(InCall(pc))
    BY DEF Life, NoUseAfterFree, TypeOK
  <2>3. pc[t] = "idle" => pins + 1 = Cardinality(InCall(pc) \cup {t})
    BY <2>2, InCallFinite
  <2>4. pc[t] # "idle" => pins = Cardinality(InCall(pc) \cup {t})
    BY <2>2, InCallFinite
  <2>5. (pins > 0 \/ nreaders > 0 \/ nwriters > 0) => alive
    BY DEF Life, NoUseAfterFree
  <2> QED BY <2>1, <2>2, <2>3, <2>4, <2>5
<1>1. ASSUME NEW t \in Readers, ReadCall(t) \/ ReadResume(t) \/ ReadCopied(t)
      PROVE  Life'
  <2> t \in Threads
    BY DEF Threads
  <2>1. CASE ReadCall(t)
    BY <2>1, <1>c, <1>f DEF ReadCall
  <2>2. CASE ReadResume(t)
    BY <2>2, <1>c, <1>f DEF ReadResume
  <2>3. CASE ReadCopied(t)
    BY <2>3, <1>b, <1>f DEF ReadCopied
  <2> QED BY <1>1, <2>1, <2>2, <2>3
<1>2. ASSUME NEW t \in Writers, \/ WriteCall(t) \/ WriteNoReader(t)
                                \/ WriteResume(t) \/ WriteCopied(t)
      PROVE  Life'
  <2> t \in Threads
    BY DEF Threads
  <2>1. CASE WriteCall(t)
    BY <2>1, <1>e, <1>f DEF WriteCall
  <2>2. CASE WriteNoReader(t)
    BY <2>2 DEF WriteNoReader, Life, NoUseAfterFree, NoLeak, ring, ends
  <2>3. CASE WriteResume(t)
    BY <2>3, <1>e, <1>f DEF WriteResume
  <2>4. CASE WriteCopied(t)
    BY <2>4, <1>d, <1>f DEF WriteCopied
  <2> QED BY <1>2, <2>1, <2>2, <2>3, <2>4
<1>3. ASSUME NEW t \in Threads, Signal(t) \/ ReturnToUser(t)
      PROVE  Life'
  <2>1. InCall(pc') = InCall(pc)
    <3>1. CASE Signal(t)
      BY <3>1, WokenType DEF Signal, InCall, TypeOK
    <3>2. CASE ReturnToUser(t)
      BY <3>2 DEF ReturnToUser, InCall
    <3> QED BY <1>3, <3>1, <3>2
  <2> QED BY <1>3, <2>1 DEF Signal, ReturnToUser, Life, NoUseAfterFree, NoLeak, ends
<1>4. CASE AddReader
  BY <1>4 DEF AddReader, TypeOK, Life, NoUseAfterFree, NoLeak
<1>5. CASE AddWriter
  BY <1>5 DEF AddWriter, TypeOK, Life, NoUseAfterFree, NoLeak
<1>6. CASE CloseRead \/ CloseWrite \/ FifoFree
  <2>1. InCall(pc') = InCall(pc)
    BY <1>6, WokenType DEF CloseRead, CloseWrite, FifoFree, InCall, TypeOK
  <2>2. pins \in Int /\ pins >= 0 /\ pins' = pins
    <3>1. IsFiniteSet(InCall(pc))
      BY PipeAssumption, FS_Union, FS_Subset DEF Threads, InCall
    <3>2. Cardinality(InCall(pc)) \in Nat
      BY <3>1, FS_CardinalityType
    <3> QED BY <1>6, <3>2 DEF CloseRead, CloseWrite, FifoFree, Life, NoUseAfterFree
  <2>3. nreaders \in Nat /\ nwriters \in Nat
    BY PipeAssumption DEF TypeOK
  <2>0. /\ pins = Cardinality(InCall(pc))
        /\ (pins > 0 \/ nreaders > 0 \/ nwriters > 0) => alive
        /\ (~fifo /\ nreaders = 0 /\ nwriters = 0 /\ pins = 0) => ~alive
    BY DEF Life, NoUseAfterFree, NoLeak
  <2> DEFINE gone == nreaders' = 0 /\ nwriters' = 0 /\ pins' = 0
  <2>4. CASE CloseRead \/ CloseWrite
    <3>1. nreaders' \in Nat /\ nwriters' \in Nat /\ fifo' = fifo
      BY <2>3, <2>4 DEF CloseRead, CloseWrite
    <3>2. alive' <=> (alive /\ (fifo \/ ~gone))
      BY <2>2, <2>4 DEF CloseRead, CloseWrite, TryFree
    <3>3. alive
      BY <2>0, <2>4 DEF CloseRead, CloseWrite
    <3>4. gone <=> ~(pins' > 0 \/ nreaders' > 0 \/ nwriters' > 0)
      BY <2>2, <3>1
    <3>5. pins' = Cardinality(InCall(pc'))
      BY <2>0, <2>1, <2>2
    <3>6. NoUseAfterFree'
      <4> HIDE DEF gone
      <4> QED BY <3>2, <3>3, <3>4, <3>5 DEF NoUseAfterFree
    <3>7. NoLeak'
      BY <3>1, <3>2 DEF NoLeak
    <3> QED BY <3>6, <3>7 DEF Life
  <2>6. CASE FifoFree
    <3>1. alive' <=> pins > 0
      BY <2>6 DEF FifoFree
    <3>2. nreaders' = 0 /\ nwriters' = 0
      BY <2>6 DEF FifoFree, ends
    <3>3. pins' = Cardinality(InCall(pc'))
      BY <2>0, <2>1, <2>2
    <3>4. NoUseAfterFree'
      BY <2>2, <3>1, <3>2, <3>3 DEF NoUseAfterFree
    <3>5. NoLeak'
      BY <2>2, <3>1 DEF NoLeak
    <3> QED BY <3>4, <3>5 DEF Life
  <2> QED BY <1>6, <2>4, <2>6
<1>7. CASE UNCHANGED vars
  BY <1>7 DEF vars, Life, NoUseAfterFree, NoLeak
<1> QED
  BY <1>1, <1>2, <1>3, <1>4, <1>5, <1>6, <1>7 DEF Next

LEMMA InitLife == Init => Life
<1> SUFFICES ASSUME Init PROVE Life
  OBVIOUS
<1>1. InCall(pc) = {}
  BY DEF Init, InCall
<1>2. Cardinality(InCall(pc)) = 0
  BY <1>1, FS_EmptySet
<1> QED BY <1>2 DEF Init, Life, NoUseAfterFree, NoLeak

(***************************************************************************)
(* The buffer outlives every call and every descriptor, whichever thread   *)
(* closes the last end and whenever: the pins keep it.                     *)
(***************************************************************************)
THEOREM NeverUsedAfterFree == Spec => []NoUseAfterFree
<1>1. Life => NoUseAfterFree
  BY DEF Life
<1> QED
  BY <1>1, InitLife, InitTypeOK, NextTypeOK, NextLife, PTL DEF Spec

(***************************************************************************)
(* And it is freed by the last close or the last call, whichever is later. *)
(***************************************************************************)
THEOREM NeverLeaked == Spec => []NoLeak
<1>1. Life => NoLeak
  BY DEF Life
<1> QED
  BY <1>1, InitLife, InitTypeOK, NextTypeOK, NextLife, PTL DEF Spec

-----------------------------------------------------------------------------
(* The byte stream.                                                        *)

(* A copy that may sleep has its side of the pipe to itself: with another  *)
(* reader or writer the positions it took before it slept are stale.       *)
CopiesAlone ==
    \A t \in Faulting : (t \in Readers => Readers = {t}) /\ (t \in Writers => Writers = {t})

(* Positions in the ring, and counters of one word.                        *)
Pos(a) == a % PIPE_BUF_SIZE
Low(a) == a % WORD

(* ByteStream of a ring d with the head h, the count c, and s and l for    *)
(* serial and rd.                                                          *)
Holds(d, h, c, s, l) ==
    /\ h \in 0..(PIPE_BUF_SIZE - 1) /\ c \in 0..PIPE_BUF_SIZE
    /\ c = s - l
    /\ \A i \in 0..(c - 1) : d[Pos(h + i)] = l + 1 + i

(* What a call of t at q keeps of the ring while it sleeps in a copy.      *)
CallOK(t, q, r, h, c) ==
    /\ q \in {"rsleep", "rready"} => r.len >= 1
    /\ q = "rcopy" => t \in Readers \cap Faulting /\ r.at = h /\ r.k \in 1..c
    /\ q \in {"wsleep", "wready", "wcopy"} => 0 <= r.n /\ r.n <= r.len
    /\ q = "wcopy" => /\ t \in Writers \cap Faulting
                      /\ r.at = Pos(h + c)
                      /\ r.k \in 0..(PIPE_BUF_SIZE - c) /\ r.n + r.k <= r.len

Stream ==
    /\ Holds(data, head, count, serial, rd)
    /\ \A t \in Threads : CallOK(t, pc[t], req[t], head, count)

LEMMA Around ==
    ASSUME NEW n \in Nat \ {0}, NEW a \in Int
    PROVE  /\ a % n \in 0..(n - 1)
           /\ 0 <= a /\ a < n => a % n = a
           /\ n <= a /\ a < n + n => a % n = a - n
           /\ -n <= a /\ a < 0 => a % n = a + n
<1>1. n <= a /\ a < n + n => a % n = a - n
  OBVIOUS
<1>2. -n <= a /\ a < 0 => a % n = a + n
  OBVIOUS
<1>3. 0 <= a /\ a < n => a % n = a
  OBVIOUS
<1>4. a % n \in 0..(n - 1)
  BY ModRange
<1> QED
  BY <1>1, <1>2, <1>3, <1>4

LEMMA PosFacts ==
    /\ PIPE_BUF_SIZE \in Nat \ {0}
    /\ \A a \in Int :
         /\ Pos(a) \in 0..(PIPE_BUF_SIZE - 1)
         /\ 0 <= a /\ a < PIPE_BUF_SIZE => Pos(a) = a
         /\ PIPE_BUF_SIZE <= a /\ a < PIPE_BUF_SIZE + PIPE_BUF_SIZE => Pos(a) = a - PIPE_BUF_SIZE
         /\ -PIPE_BUF_SIZE <= a /\ a < 0 => Pos(a) = a + PIPE_BUF_SIZE
BY PipeAssumption, Around DEF Pos

LEMMA LowFacts == \A a \in 0..PIPE_BUF_SIZE : Low(a) = a
BY PipeAssumption, Around DEF Low

(* Taking k bytes from the front leaves the rest where it is.              *)
LEMMA TakeFront ==
    ASSUME NEW h \in 0..(PIPE_BUF_SIZE - 1), NEW c \in 0..PIPE_BUF_SIZE, NEW k \in 1..c
    PROVE  \A i \in 0..(c - k) : Pos(Pos(h + k) + i) = Pos(h + (k + i))
<1> SUFFICES ASSUME NEW i \in 0..(c - k) PROVE Pos(Pos(h + k) + i) = Pos(h + (k + i))
  OBVIOUS
<1>1. PICK g \in 0..(PIPE_BUF_SIZE - 1) :
        g = Pos(h + k) /\ g = IF h + k < PIPE_BUF_SIZE THEN h + k ELSE h + k - PIPE_BUF_SIZE
  BY PosFacts
<1>2. Pos(g + i) = IF g + i < PIPE_BUF_SIZE THEN g + i ELSE g + i - PIPE_BUF_SIZE
  BY PosFacts
<1>3. Pos(h + (k + i)) = IF h + (k + i) < PIPE_BUF_SIZE THEN h + (k + i)
                         ELSE h + (k + i) - PIPE_BUF_SIZE
  BY PosFacts
<1> QED
  BY <1>1, <1>2, <1>3, PosFacts

(* The cells of the bytes there are lie before the ones of the next put.   *)
LEMMA PutBehind ==
    ASSUME NEW h \in 0..(PIPE_BUF_SIZE - 1), NEW c \in 0..PIPE_BUF_SIZE,
           NEW put \in 0..(PIPE_BUF_SIZE - c), NEW i \in 0..(c + put - 1)
    PROVE  Pos(Pos(h + i) - Pos(h + c)) = IF i < c THEN i - c + PIPE_BUF_SIZE ELSE i - c
<1>1. PICK x \in 0..(PIPE_BUF_SIZE - 1) :
        x = Pos(h + i) /\ x = IF h + i < PIPE_BUF_SIZE THEN h + i ELSE h + i - PIPE_BUF_SIZE
  BY PosFacts
<1>2. PICK y \in 0..(PIPE_BUF_SIZE - 1) :
        y = Pos(h + c) /\ y = IF h + c < PIPE_BUF_SIZE THEN h + c ELSE h + c - PIPE_BUF_SIZE
  BY PosFacts
<1>3. Pos(x - y) = IF x - y < 0 THEN x - y + PIPE_BUF_SIZE ELSE x - y
  BY PosFacts
<1> QED
  BY <1>1, <1>2, <1>3, PosFacts

LEMMA NobodyIn ==
    ASSUME NEW f \in [Threads -> PCs], Cardinality(InCall(f)) = 0
    PROVE  \A t \in Threads : f[t] = "idle"
<1>1. IsFiniteSet(InCall(f))
  BY PipeAssumption, FS_Union, FS_Subset DEF Threads, InCall
<1>2. InCall(f) = {}
  BY <1>1, FS_EmptySet
<1> QED
  BY <1>2 DEF InCall

(* The buffer is put back to its start only when no call is in progress.   *)
LEMMA FreeStream ==
    ASSUME TypeOK', Life', NEW p, NEW nr, NEW nw, NEW hd, NEW ct, NEW last,
           TryFree(p, nr, nw, hd, ct, last), pins' = p,
           Holds(data', hd, ct, serial', last),
           \A u \in Threads : CallOK(u, pc'[u], req'[u], hd, ct)
    PROVE  Stream'
<1>1. CASE nr = 0 /\ nw = 0 /\ p = 0
  <2>1. head' = 0 /\ count' = 0 /\ rd' = serial'
    BY <1>1 DEF TryFree
  <2>2. \A u \in Threads : pc'[u] = "idle"
    BY <1>1, NobodyIn DEF TypeOK, Life, NoUseAfterFree
  <2>3. serial' \in Int
    BY DEF TypeOK
  <2>4. Holds(data', 0, 0, serial', serial')
    <3>1. 0 \in 0..(PIPE_BUF_SIZE - 1) /\ 0 \in 0..PIPE_BUF_SIZE /\ 0 = serial' - serial'
      BY <2>3, PipeAssumption
    <3>2. \A i \in 0..(0 - 1) : FALSE
      OBVIOUS
    <3> QED
      BY <3>1, <3>2 DEF Holds
  <2>5. \A u \in Threads : CallOK(u, pc'[u], req'[u], head', count')
    BY <2>2 DEF CallOK
  <2> QED
    BY <2>1, <2>4, <2>5 DEF Stream
<1>2. CASE ~(nr = 0 /\ nw = 0 /\ p = 0)
  <2>1. head' = hd /\ count' = ct /\ rd' = last
    BY <1>2 DEF TryFree
  <2> QED
    BY <2>1 DEF Stream
<1> QED
  BY <1>1, <1>2

(* Waking changes nothing for the calls.                                   *)
LEMMA WokenCall ==
    ASSUME NEW t \in Threads, NEW r, NEW h, NEW c, CallOK(t, pc[t], r, h, c)
    PROVE  CallOK(t, Woken(pc)[t], r, h, c)
BY DEF Woken, CallOK

LEMMA LeaveStream ==
    ASSUME TypeOK, TypeOK', Life', NEW t \in Threads, NEW pcs \in {pc, Woken(pc)},
           NEW p, NEW hd, NEW ct, NEW last, Leave(t, pcs, p, hd, ct, last),
           Holds(data', hd, ct, serial', last),
           \A u \in Threads \ {t} : CallOK(u, pc[u], req[u], hd, ct)
    PROVE  Stream'
<1>1. pc \in [Threads -> PCs] /\ pcs \in [Threads -> PCs]
  BY WokenType DEF TypeOK
<1>2. /\ pins' = p - 1 /\ TryFree(p - 1, nreaders, nwriters, hd, ct, last)
      /\ pc' = [pcs EXCEPT ![t] = "idle"] /\ req' = [req EXCEPT ![t] = NoReq]
  BY DEF Leave
<1>3. pc'[t] = "idle" /\ \A u \in Threads \ {t} : pc'[u] = pcs[u] /\ req'[u] = req[u]
  BY <1>1, <1>2 DEF TypeOK
<1>4. \A u \in Threads \ {t} : CallOK(u, pcs[u], req[u], hd, ct)
  BY WokenCall
<1>5. \A u \in Threads : CallOK(u, pc'[u], req'[u], hd, ct)
  <2>1. CallOK(t, pc'[t], req'[t], hd, ct)
    BY <1>3 DEF CallOK
  <2> QED
    BY <1>3, <1>4, <2>1
<1> QED
  BY <1>2, <1>5, FreeStream

(* A thread that stops in the call, or goes round again, keeps the ring.   *)
LEMMA StayStream ==
    ASSUME TypeOK, NEW t \in Threads, NEW pcs \in {pc, Woken(pc)}, NEW q, NEW r,
           pc' = [pcs EXCEPT ![t] = q], req' = [req EXCEPT ![t] = r],
           Holds(data', head', count', serial', rd'), CallOK(t, q, r, head', count'),
           \A u \in Threads \ {t} : CallOK(u, pc[u], req[u], head', count')
    PROVE  Stream'
<1>1. pc \in [Threads -> PCs] /\ pcs \in [Threads -> PCs]
  BY WokenType DEF TypeOK
<1>2. pc'[t] = q /\ req'[t] = r
  BY <1>1 DEF TypeOK
<1>3. \A u \in Threads \ {t} : pc'[u] = pcs[u] /\ req'[u] = req[u]
  BY <1>1 DEF TypeOK
<1>4. \A u \in Threads \ {t} : CallOK(u, pcs[u], req[u], head', count')
  BY WokenCall
<1>5. \A u \in Threads : CallOK(u, pc'[u], req'[u], head', count')
  BY <1>2, <1>3, <1>4
<1> QED
  BY <1>5 DEF Stream

LEMMA InitStream == Init => Stream
<1> SUFFICES ASSUME Init PROVE Stream
  OBVIOUS
<1>1. head = 0 /\ count = 0 /\ serial = 0 /\ rd = 0
  BY DEF Init
<1>2. \A t \in Threads : pc[t] = "idle"
  BY DEF Init
<1>3. Holds(data, 0, 0, 0, 0)
  <2>1. 0 \in 0..(PIPE_BUF_SIZE - 1) /\ 0 \in 0..PIPE_BUF_SIZE /\ 0 = 0 - 0
    BY PipeAssumption
  <2>2. \A i \in 0..(0 - 1) : FALSE
    OBVIOUS
  <2> QED
    BY <2>1, <2>2 DEF Holds
<1>4. \A t \in Threads : CallOK(t, pc[t], req[t], head, count)
  BY <1>2 DEF CallOK
<1> QED
  BY <1>1, <1>3, <1>4 DEF Stream

(* The bytes taken are the next ones, and the rest follow.                 *)
LEMMA TakeStream ==
    ASSUME TypeOK, Stream, NEW k \in 1..count
    PROVE  /\ Holds(data, Pos(head + k), Low(count - k), serial, data[Pos(head + k - 1)])
           /\ Pos(head + k) \in 0..(PIPE_BUF_SIZE - 1) /\ Low(count - k) = count - k
           /\ Pos(Pos(head + k) + (count - k)) = Pos(head + count)
<1>0. PICK h \in 0..(PIPE_BUF_SIZE - 1), c \in 0..PIPE_BUF_SIZE, s \in Int, l \in Int :
        h = head /\ c = count /\ s = serial /\ l = rd
  BY DEF Stream, TypeOK, Holds
<1> DEFINE d == data
<1> HIDE DEF d
<1>1. c = s - l /\ k \in 1..c /\ \A i \in 0..(c - 1) : d[Pos(h + i)] = l + 1 + i
  BY <1>0 DEF Stream, Holds, d
<1>2. PICK g \in 0..(PIPE_BUF_SIZE - 1) : g = Pos(h + k)
  BY <1>1, PosFacts
<1>3. Low(c - k) = c - k /\ c - k \in 0..PIPE_BUF_SIZE
  <2>1. PICK m \in 0..PIPE_BUF_SIZE : m = c - k
    BY <1>1, PosFacts
  <2>2. Low(m) = m
    BY LowFacts
  <2> QED
    BY <2>1, <2>2
<1>4. d[Pos(h + k - 1)] = l + k
  <2>1. k - 1 \in 0..(c - 1) /\ h + (k - 1) = h + k - 1 /\ l + 1 + (k - 1) = l + k
    BY <1>1
  <2>2. d[Pos(h + (k - 1))] = l + 1 + (k - 1)
    BY <1>1, <2>1
  <2> QED
    BY <2>1, <2>2
<1>5. ASSUME NEW i \in 0..(c - k - 1) PROVE d[Pos(g + i)] = l + k + 1 + i
  <2>1. k + i \in 0..(c - 1) /\ l + 1 + (k + i) = l + k + 1 + i /\ i \in 0..(c - k)
    BY <1>1
  <2>2. d[Pos(h + (k + i))] = l + 1 + (k + i)
    BY <1>1, <2>1
  <2>3. Pos(g + i) = Pos(h + (k + i))
    BY <1>1, <1>2, <2>1, TakeFront
  <2> QED
    BY <2>1, <2>2, <2>3
<1>6. c - k = s - (l + k)
  BY <1>1
<1>7. Pos(g + (c - k)) = Pos(h + c)
  <2>1. c - k \in 0..(c - k) /\ k + (c - k) = c
    BY <1>1
  <2> QED
    BY <1>1, <1>2, <2>1, TakeFront
<1>8. Holds(d, g, c - k, s, l + k)
  BY <1>3, <1>5, <1>6 DEF Holds
<1> QED
  BY <1>0, <1>2, <1>3, <1>4, <1>7, <1>8 DEF d

(* Consuming the k bytes at the head: the calls of the others stay right,  *)
(* for the only other copy in progress can be a writer's.                  *)
LEMMA ConsumeStream ==
    ASSUME CopiesAlone, TypeOK, TypeOK', Life', Stream, NEW t \in Readers,
           NEW p, NEW k \in 1..count, UNCHANGED <<data, serial>>, Consume(t, p, head, k)
    PROVE  Stream'
<1>1. Holds(data, head, count, serial, rd)
  BY DEF Stream
<1>2. /\ data \in [0..(PIPE_BUF_SIZE - 1) -> Int] /\ head \in 0..(PIPE_BUF_SIZE - 1)
      /\ count \in 0..PIPE_BUF_SIZE /\ serial \in Int /\ rd \in Int /\ t \in Threads
  BY <1>1 DEF TypeOK, Holds, Threads
<1>3. PICK hd, ct, last : /\ hd = Pos(head + k) /\ ct = Low(count - k)
                          /\ last = data[Pos(head + k - 1)]
  OBVIOUS
<1>4. Leave(t, Woken(pc), p, hd, ct, last)
  BY <1>3 DEF Consume, Pos, Low
<1>5. /\ Holds(data, hd, ct, serial, last) /\ hd \in 0..(PIPE_BUF_SIZE - 1)
      /\ ct = count - k /\ Pos(hd + ct) = Pos(head + count)
  <2>1. /\ Holds(data, Pos(head + k), Low(count - k), serial, data[Pos(head + k - 1)])
        /\ Pos(head + k) \in 0..(PIPE_BUF_SIZE - 1) /\ Low(count - k) = count - k
        /\ Pos(Pos(head + k) + (count - k)) = Pos(head + count)
    BY <1>2, TakeStream, Zenon
  <2> QED
    BY <1>3, <2>1, Zenon
<1>6. ASSUME NEW u \in Threads \ {t} PROVE CallOK(u, pc[u], req[u], hd, ct)
  <2>1. CallOK(u, pc[u], req[u], head, count)
    BY DEF Stream
  <2>2. pc[u] # "rcopy"
    <3>1. pc[u] = "rcopy" => u \in Readers \cap Faulting
      BY <2>1 DEF CallOK
    <3> QED
      BY <3>1 DEF CopiesAlone
  <2>3. ASSUME NEW x \in 0..(PIPE_BUF_SIZE - count) PROVE x \in 0..(PIPE_BUF_SIZE - ct)
    BY <1>2, <1>5, PipeAssumption
  <2> QED
    BY <1>5, <2>1, <2>2, <2>3 DEF CallOK
<1> QED
  BY <1>2, <1>4, <1>5, <1>6, LeaveStream

(* The bytes put follow the ones there are.                                *)
LEMMA PutStream ==
    ASSUME TypeOK, Stream, NEW put \in 0..(PIPE_BUF_SIZE - count), serial' = serial + put,
           \A i \in 0..(PIPE_BUF_SIZE - 1) :
              data'[i] = IF Pos(i - Pos(head + count)) < put
                         THEN serial + 1 + Pos(i - Pos(head + count)) ELSE data[i]
    PROVE  Holds(data', head, Low(count + put), serial', rd) /\ Low(count + put) = count + put
<1>h. PICK h \in 0..(PIPE_BUF_SIZE - 1), c \in 0..PIPE_BUF_SIZE, s \in Int, l \in Int :
        h = head /\ c = count /\ s = serial /\ l = rd
  BY DEF Stream, TypeOK, Holds
<1>d. PICK d, e : d = data /\ e = data'
  OBVIOUS
<1>1. c = s - l /\ \A i \in 0..(c - 1) : d[Pos(h + i)] = l + 1 + i
  BY <1>h, <1>d DEF Stream, Holds
<1>p. put \in 0..(PIPE_BUF_SIZE - c)
  BY <1>h
<1>e. \A i \in 0..(PIPE_BUF_SIZE - 1) :
         e[i] = IF Pos(i - Pos(h + c)) < put THEN s + 1 + Pos(i - Pos(h + c)) ELSE d[i]
  BY <1>h, <1>d
<1>2. PICK m \in 0..PIPE_BUF_SIZE : m = c + put /\ m = s + put - l
  BY <1>1, <1>p, PosFacts
<1>0. Low(m) = m
  BY LowFacts
<1>3. ASSUME NEW i \in 0..(m - 1) PROVE e[Pos(h + i)] = l + 1 + i
  <2>1. PICK x \in 0..(PIPE_BUF_SIZE - 1) : x = Pos(h + i)
    BY PosFacts
  <2>6. i \in 0..(c + put - 1)
    BY <1>2, <1>p
  <2>7. Pos(x - Pos(h + c)) = IF i < c THEN i - c + PIPE_BUF_SIZE ELSE i - c
    BY <1>p, <2>1, <2>6, PutBehind
  <2>8. (IF i < c THEN i - c + PIPE_BUF_SIZE ELSE i - c) \in Int
    BY PosFacts
  <2>2. PICK j \in Int : /\ j = Pos(x - Pos(h + c))
                         /\ j = IF i < c THEN i - c + PIPE_BUF_SIZE ELSE i - c
    BY <2>7, <2>8
  <2>3. e[x] = IF j < put THEN s + 1 + j ELSE d[x]
    BY <1>e, <2>2
  <2>4. CASE i < c
    <3>1. ~(j < put) /\ i \in 0..(c - 1)
      BY <1>p, <2>2, <2>4, PosFacts
    <3>2. d[x] = l + 1 + i
      BY <1>1, <2>1, <3>1
    <3> QED
      BY <2>1, <2>3, <3>1, <3>2
  <2>5. CASE ~(i < c)
    <3>2. j = i - c
      BY <2>2, <2>5
    <3>3. i < c + put
      BY <1>p, <2>6
    <3>4. c = s - l
      BY <1>1
    <3>1. j < put /\ s + 1 + j = l + 1 + i
      BY <1>p, <3>2, <3>3, <3>4
    <3> QED
      BY <2>1, <2>3, <3>1
  <2> QED
    BY <2>4, <2>5
<1>4. Holds(e, h, m, s + put, l)
  BY <1>2, <1>3 DEF Holds
<1> QED
  BY <1>h, <1>d, <1>0, <1>2, <1>4

(* Committing the put bytes behind the ones there are: the only other copy *)
(* in progress can be a reader's.                                          *)
LEMMA CommitStream ==
    ASSUME CopiesAlone, TypeOK, TypeOK', Life', Stream, NEW t \in Writers, NEW r \in Reqs,
           NEW p, NEW put \in 0..(PIPE_BUF_SIZE - count), 0 <= r.n, r.n + put <= r.len,
           Commit(t, r, p, Pos(head + count), put)
    PROVE  Stream'
<1>1. Holds(data, head, count, serial, rd)
  BY DEF Stream
<1>2. /\ data \in [0..(PIPE_BUF_SIZE - 1) -> Int] /\ head \in 0..(PIPE_BUF_SIZE - 1)
      /\ count \in 0..PIPE_BUF_SIZE /\ serial \in Int /\ rd \in Int /\ t \in Threads
  BY <1>1 DEF TypeOK, Holds, Threads
<1>3. serial' = serial + put /\ \A i \in 0..(PIPE_BUF_SIZE - 1) :
         data'[i] = IF Pos(i - Pos(head + count)) < put
                    THEN serial + 1 + Pos(i - Pos(head + count)) ELSE data[i]
  BY <1>2 DEF Commit, Pos
<1>4. PICK ct : ct = Low(count + put)
  OBVIOUS
<1>5. Holds(data', head, ct, serial', rd) /\ ct = count + put
  BY <1>3, <1>4, PutStream
<1>6. ASSUME NEW u \in Threads \ {t} PROVE CallOK(u, pc[u], req[u], head, ct)
  <2>1. CallOK(u, pc[u], req[u], head, count)
    BY DEF Stream
  <2>2. pc[u] # "wcopy"
    <3>1. pc[u] = "wcopy" => u \in Writers \cap Faulting
      BY <2>1 DEF CallOK
    <3> QED
      BY <3>1 DEF CopiesAlone
  <2>3. ASSUME NEW x \in 1..count PROVE x \in 1..ct
    BY <1>2, <1>5, PipeAssumption
  <2> QED
    BY <1>5, <2>1, <2>2, <2>3 DEF CallOK
<1>7. CASE r.n + put = r.len
  <2>1. Leave(t, Woken(pc), p, head, ct, rd)
    BY <1>4, <1>7 DEF Commit, Low
  <2> QED
    BY <1>2, <1>5, <1>6, <2>1, LeaveStream
<1>8. CASE r.n + put # r.len
  <2>1. PICK q : q = [r EXCEPT !.n = r.n + put]
    OBVIOUS
  <2>2. /\ count' = ct /\ pc' = [Woken(pc) EXCEPT ![t] = "wready"]
        /\ req' = [req EXCEPT ![t] = q] /\ head' = head /\ rd' = rd
    BY <1>4, <1>8, <2>1 DEF Commit, Low
  <2>3. q.n = r.n + put /\ q.len = r.len
    BY <2>1 DEF Reqs
  <2>4. 0 <= r.n + put
    BY <1>2, PipeAssumption DEF Reqs
  <2>5. CallOK(t, "wready", q, head', count')
    BY <2>3, <2>4 DEF CallOK
  <2>6. Holds(data', head', count', serial', rd')
    BY <1>5, <2>2
  <2>7. \A u \in Threads \ {t} : CallOK(u, pc[u], req[u], head', count')
    BY <1>6, <2>2
  <2> QED
    BY <1>2, <2>2, <2>5, <2>6, <2>7, StayStream
<1> QED
  BY <1>7, <1>8

LEMMA NextStream ==
    ASSUME CopiesAlone, TypeOK, TypeOK', Life, Life', Stream, [Next]_vars
    PROVE  Stream'
<1>a. /\ Holds(data, head, count, serial, rd) /\ \A u \in Threads : CallOK(u, pc[u], req[u], head, count)
      /\ head \in 0..(PIPE_BUF_SIZE - 1) /\ count \in 0..PIPE_BUF_SIZE
      /\ pc \in [Threads -> PCs] /\ req \in [Threads -> Reqs]
  BY DEF Stream, Holds, TypeOK
<1>b. ASSUME NEW t \in Threads, NEW p, UNCHANGED <<data, serial>>,
             Leave(t, pc, p, head, count, rd)
      PROVE  Stream'
  BY <1>a, <1>b, LeaveStream
<1>c. ASSUME NEW t \in Readers, NEW r \in Reqs, r.len >= 1, NEW p,
             UNCHANGED <<data, ends, fifo, sig, serial>>, ReadFrom(t, r, p)
      PROVE  Stream'
  <2> t \in Threads
    BY DEF Threads
  <2>0. PICK take : take = Smaller(r.len, count)
    OBVIOUS
  <2>1. count > 0 => take \in 1..count
    BY <1>a, <1>c, <2>0, PipeAssumption DEF Smaller, Reqs
  <2>2. CASE Leave(t, pc, p, head, count, rd)
    BY <1>b, <1>c, <2>2
  <2>3. CASE /\ pc' = [pc EXCEPT ![t] = "rsleep"]
             /\ req' = [req EXCEPT ![t] = r]
             /\ UNCHANGED <<head, count, alive, rd>>
    <3>1. CallOK(t, "rsleep", r, head', count')
      BY <1>c DEF CallOK
    <3> QED
      BY <1>a, <1>c, <2>3, <3>1, StayStream
  <2>4. CASE /\ count > 0 /\ t \in Faulting
             /\ pc' = [pc EXCEPT ![t] = "rcopy"]
             /\ req' = [req EXCEPT ![t] = [r EXCEPT !.at = head, !.k = take]]
             /\ UNCHANGED <<head, count, alive, rd>>
    <3>1. PICK q : q = [r EXCEPT !.at = head, !.k = take]
      OBVIOUS
    <3>2. q.at = head /\ q.k = take
      BY <3>1 DEF Reqs
    <3>3. CallOK(t, "rcopy", q, head', count')
      BY <2>1, <2>4, <3>2 DEF CallOK
    <3> QED
      BY <1>a, <1>c, <2>4, <3>1, <3>3, StayStream
  <2>5. CASE count > 0 /\ Consume(t, p, head, take)
    BY <1>c, <2>1, <2>5, ConsumeStream
  <2> QED
    BY <1>c, <2>0, <2>2, <2>3, <2>4, <2>5 DEF ReadFrom, ReadFault
<1>d. ASSUME NEW t \in Writers, NEW r \in Reqs, 0 <= r.n, r.n <= r.len, NEW p,
             WriteFrom(t, r, p)
      PROVE  Stream'
  <2> t \in Threads
    BY DEF Threads
  <2>0. PICK put, tail : /\ put = Smaller(r.len - r.n, PIPE_BUF_SIZE - count)
                         /\ tail = Pos(head + count)
    OBVIOUS
  <2>1. put \in 0..(PIPE_BUF_SIZE - count) /\ r.n + put <= r.len
    BY <1>a, <1>d, <2>0, PipeAssumption DEF Smaller, Reqs
  <2>2. CASE UNCHANGED <<data, serial>> /\ Leave(t, pc, p, head, count, rd)
    BY <1>b, <2>2
  <2>3. CASE /\ pc' = [pc EXCEPT ![t] = "wsleep"]
             /\ req' = [req EXCEPT ![t] = r]
             /\ UNCHANGED <<data, head, count, alive, serial, rd, sig>>
    <3>1. CallOK(t, "wsleep", r, head', count')
      BY <1>d DEF CallOK
    <3> QED
      BY <1>a, <2>3, <3>1, StayStream
  <2>4. CASE /\ t \in Faulting
             /\ pc' = [pc EXCEPT ![t] = "wcopy"]
             /\ req' = [req EXCEPT ![t] = [r EXCEPT !.at = tail, !.k = put]]
             /\ UNCHANGED <<data, head, count, alive, serial, rd, sig>>
    <3>1. PICK q : q = [r EXCEPT !.at = tail, !.k = put]
      OBVIOUS
    <3>2. q.at = tail /\ q.k = put /\ q.n = r.n /\ q.len = r.len
      BY <3>1 DEF Reqs
    <3>3. CallOK(t, "wcopy", q, head, count)
      BY <1>d, <2>0, <2>1, <2>4, <3>2 DEF CallOK
    <3>4. head' = head /\ count' = count
      BY <2>4
    <3> QED
      BY <1>a, <2>4, <3>1, <3>3, <3>4, StayStream
  <2>5. CASE Commit(t, r, p, tail, put)
    BY <1>d, <2>0, <2>1, <2>5, CommitStream
  <2> QED
    BY <1>d, <2>0, <2>2, <2>3, <2>4, <2>5 DEF WriteFrom, WriteFault, Pos
<1>n. \A len \in 1..MaxLen, nb \in BOOLEAN :
         /\ NewReq(len, nb) \in Reqs /\ NewReq(len, nb).len >= 1
         /\ NewReq(len, nb).n = 0 /\ 0 <= NewReq(len, nb).len
  BY PipeAssumption DEF NewReq, Reqs
<1>1. ASSUME NEW t \in Readers, ReadCall(t) \/ ReadResume(t) \/ ReadCopied(t)
      PROVE  Stream'
  <2> t \in Threads
    BY DEF Threads
  <2>1. CASE ReadCall(t)
    BY <2>1, <1>c, <1>n DEF ReadCall
  <2>2. CASE ReadResume(t)
    <3>1. req[t] \in Reqs /\ req[t].len >= 1
      BY <1>a, <2>2 DEF ReadResume, CallOK
    <3> QED
      BY <2>2, <3>1, <1>c DEF ReadResume
  <2>3. CASE ReadCopied(t)
    <3>1. req[t].at = head /\ req[t].k \in 1..count
      BY <1>a, <2>3 DEF ReadCopied, CallOK
    <3>2. CASE Consume(t, pins, req[t].at, req[t].k)
      BY <2>3, <3>1, <3>2, ConsumeStream DEF ReadCopied
    <3>3. CASE ReadFault(t, pins)
      BY <2>3, <3>3, <1>b DEF ReadCopied, ReadFault
    <3> QED
      BY <2>3, <3>2, <3>3 DEF ReadCopied
  <2> QED BY <1>1, <2>1, <2>2, <2>3
<1>2. ASSUME NEW t \in Writers, \/ WriteCall(t) \/ WriteNoReader(t)
                                \/ WriteResume(t) \/ WriteCopied(t)
      PROVE  Stream'
  <2> t \in Threads
    BY DEF Threads
  <2>1. CASE WriteCall(t)
    BY <2>1, <1>d, <1>n DEF WriteCall
  <2>2. CASE WriteNoReader(t)
    BY <1>a, <2>2 DEF WriteNoReader, Stream, ring
  <2>3. CASE WriteResume(t)
    <3>1. req[t] \in Reqs /\ 0 <= req[t].n /\ req[t].n <= req[t].len
      BY <1>a, <2>3 DEF WriteResume, CallOK
    <3> QED
      BY <2>3, <3>1, <1>d DEF WriteResume
  <2>4. CASE WriteCopied(t)
    <3>1. /\ req[t] \in Reqs /\ 0 <= req[t].n /\ req[t].n + req[t].k <= req[t].len
          /\ req[t].at = Pos(head + count) /\ req[t].k \in 0..(PIPE_BUF_SIZE - count)
      BY <1>a, <2>4 DEF WriteCopied, CallOK
    <3>2. CASE Commit(t, req[t], pins, req[t].at, req[t].k)
      BY <3>1, <3>2, CommitStream
    <3>3. CASE WriteFault(t, pins)
      BY <3>3, <1>b DEF WriteFault
    <3> QED
      BY <2>4, <3>2, <3>3 DEF WriteCopied
  <2> QED BY <1>2, <2>1, <2>2, <2>3, <2>4
<1>3. ASSUME NEW t \in Threads, Signal(t) \/ ReturnToUser(t)
      PROVE  Stream'
  <2>1. CASE Signal(t)
    <3>1. \A u \in Threads : pc'[u] \in {pc[u], Woken(pc)[u]}
      BY <1>a, <2>1 DEF Signal
    <3>2. \A u \in Threads : CallOK(u, pc'[u], req[u], head, count)
      BY <1>a, <3>1, WokenCall
    <3> QED
      BY <1>a, <2>1, <3>2 DEF Signal, Stream, ring
  <2>2. CASE ReturnToUser(t)
    BY <1>a, <2>2 DEF ReturnToUser, Stream, ring
  <2> QED BY <1>3, <2>1, <2>2
<1>4. CASE AddReader \/ AddWriter
  BY <1>a, <1>4 DEF AddReader, AddWriter, Stream, ring
<1>5. \A u \in Threads : CallOK(u, Woken(pc)[u], req[u], head, count)
  BY <1>a, WokenCall
<1>6. CASE CloseRead \/ CloseWrite
  <2>1. pc' = Woken(pc) /\ req' = req /\ data' = data /\ serial' = serial /\ pins' = pins
    BY <1>6 DEF CloseRead, CloseWrite
  <2>2. PICK nr, nw : TryFree(pins, nr, nw, head, count, rd)
    BY <1>6 DEF CloseRead, CloseWrite
  <2>3. Holds(data', head, count, serial', rd)
        /\ \A u \in Threads : CallOK(u, pc'[u], req'[u], head, count)
    BY <1>a, <1>5, <2>1
  <2> QED
    BY <2>1, <2>2, <2>3, FreeStream
<1>7. CASE FifoFree
  BY <1>a, <1>5, <1>7 DEF FifoFree, Stream, ring
<1>8. CASE UNCHANGED vars
  BY <1>a, <1>8 DEF vars, Stream
<1> QED
  BY <1>1, <1>2, <1>3, <1>4, <1>6, <1>7, <1>8 DEF Next

(***************************************************************************)
(* Reads deliver the bytes of the writes in the order they were committed, *)
(* none lost and none twice, whatever sleeps or fails, as long as a copy   *)
(* that may sleep has no rival on its side of the pipe: pipe_read and      *)
(* pipe_write take head and the tail before the copy and use them after.   *)
(***************************************************************************)
THEOREM BytesInOrder == CopiesAlone => (Spec => []ByteStream)
<1> SUFFICES ASSUME CopiesAlone PROVE Spec => []ByteStream
  OBVIOUS
<1>1. Init => TypeOK /\ Life /\ Stream
  BY InitTypeOK, InitLife, InitStream
<1>2. TypeOK /\ Life /\ Stream /\ [Next]_vars => (TypeOK /\ Life /\ Stream)'
  BY NextTypeOK, NextLife, NextStream
<1>3. Stream => ByteStream
  BY DEF Stream, Holds, ByteStream, Pos
<1> QED
  BY <1>1, <1>2, <1>3, PTL DEF Spec

-----------------------------------------------------------------------------
(* Futex.  To the properties the inductive invariant adds that a thread    *)
(* whose sleep a FUTEX_WAKE ended still has futex_wait = 2 when it runs.   *)

WokenOK == \A t \in Tasks : stage[t] = "woken" /\ ended[t] = "wake" => futex_wait[t] = 2

FutexInv == FutexTypeOK /\ NoLostWake /\ WokenOK

-----------------------------------------------------------------------------
(* The initial states satisfy the invariant.                               *)
LEMMA FutexInitInv == FutexInit => FutexInv
<1> SUFFICES ASSUME FutexInit PROVE FutexInv
    OBVIOUS
<1>1. FutexTypeOK
    BY FutexAssumption DEF FutexInit, FutexTypeOK, Stages, Results, Ends
<1>2. NoLostWake /\ WokenOK
    BY DEF FutexInit, NoLostWake, WokenOK, Asleep
<1> QED
    BY <1>1, <1>2 DEF FutexInv

(* Store preserves the invariant.                                          *)
LEMMA StoreInv ==
    ASSUME NEW t \in Tasks, NEW v \in Vals, FutexInv, Store(t, v)
    PROVE  FutexInv'
<1> USE FutexAssumption DEF Store, call, sleepVars, sigVars
<1>1. FutexTypeOK'
    BY DEF FutexInv, FutexTypeOK, Stages, Results, Ends, Asleep
<1>2. NoLostWake'
    BY DEF FutexInv, FutexTypeOK, NoLostWake, Asleep
<1>3. WokenOK'
    BY DEF FutexInv, FutexTypeOK, WokenOK, Asleep
<1> QED
    BY <1>1, <1>2, <1>3 DEF FutexInv

(* DropPage preserves the invariant.                                       *)
LEMMA DropPageInv ==
    ASSUME NEW t \in Tasks, FutexInv, DropPage(t)
    PROVE  FutexInv'
<1> USE FutexAssumption DEF DropPage, call, sleepVars, sigVars
<1>1. FutexTypeOK'
    BY DEF FutexInv, FutexTypeOK, Stages, Results, Ends, Asleep
<1>2. NoLostWake'
    BY DEF FutexInv, FutexTypeOK, NoLostWake, Asleep
<1>3. WokenOK'
    BY DEF FutexInv, FutexTypeOK, WokenOK, Asleep
<1> QED
    BY <1>1, <1>2, <1>3 DEF FutexInv

(* TouchPage preserves the invariant.                                      *)
LEMMA TouchPageInv ==
    ASSUME NEW t \in Tasks, FutexInv, TouchPage(t)
    PROVE  FutexInv'
<1> USE FutexAssumption DEF TouchPage, call, sleepVars, sigVars
<1>1. FutexTypeOK'
    BY DEF FutexInv, FutexTypeOK, Stages, Results, Ends, Asleep
<1>2. NoLostWake'
    BY DEF FutexInv, FutexTypeOK, NoLostWake, Asleep
<1>3. WokenOK'
    BY DEF FutexInv, FutexTypeOK, WokenOK, Asleep
<1> QED
    BY <1>1, <1>2, <1>3 DEF FutexInv

(* FutexWait preserves the invariant.                                      *)
LEMMA FutexWaitInv ==
    ASSUME NEW t \in Tasks, NEW v \in Vals, FutexInv, FutexWait(t, v)
    PROVE  FutexInv'
<1> USE FutexAssumption DEF FutexWait, FirstRead, Goto, Return, Deliver, Eagain, Sleep, Bucket, FaultAt, call, sleepVars, sigVars
<1>1. FutexTypeOK'
    BY DEF FutexInv, FutexTypeOK, Stages, Results, Ends, Asleep
<1>2. NoLostWake'
    BY DEF FutexInv, FutexTypeOK, NoLostWake, Asleep
<1>3. WokenOK'
    BY DEF FutexInv, FutexTypeOK, WokenOK, Asleep
<1> QED
    BY <1>1, <1>2, <1>3 DEF FutexInv

(* Fault0Done preserves the invariant.                                     *)
LEMMA Fault0DoneInv ==
    ASSUME NEW t \in Tasks, FutexInv, Fault0Done(t)
    PROVE  FutexInv'
<1> USE FutexAssumption DEF Fault0Done, FirstRead, Goto, Return, Deliver, Eagain, Sleep, Bucket, FaultAt, call, sleepVars, sigVars
<1>1. FutexTypeOK'
    BY DEF FutexInv, FutexTypeOK, Stages, Results, Ends, Asleep
<1>2. NoLostWake'
    BY DEF FutexInv, FutexTypeOK, NoLostWake, Asleep
<1>3. WokenOK'
    BY DEF FutexInv, FutexTypeOK, WokenOK, Asleep
<1> QED
    BY <1>1, <1>2, <1>3 DEF FutexInv

(* Fault1Done preserves the invariant.                                     *)
LEMMA Fault1DoneInv ==
    ASSUME NEW t \in Tasks, FutexInv, Fault1Done(t)
    PROVE  FutexInv'
<1> USE FutexAssumption DEF Fault1Done, Goto, Return, Deliver, Eagain, Sleep, Bucket, FaultAt, call, sleepVars, sigVars
<1>1. FutexTypeOK'
    BY DEF FutexInv, FutexTypeOK, Stages, Results, Ends, Asleep
<1>2. NoLostWake'
    BY DEF FutexInv, FutexTypeOK, NoLostWake, Asleep
<1>3. WokenOK'
    BY DEF FutexInv, FutexTypeOK, WokenOK, Asleep
<1> QED
    BY <1>1, <1>2, <1>3 DEF FutexInv

(* Fault2Done preserves the invariant.                                     *)
LEMMA Fault2DoneInv ==
    ASSUME NEW t \in Tasks, FutexInv, Fault2Done(t)
    PROVE  FutexInv'
<1> USE FutexAssumption DEF Fault2Done, Goto, Return, Deliver, Eagain, Sleep, Bucket, call, sleepVars, sigVars
<1>1. FutexTypeOK'
    BY DEF FutexInv, FutexTypeOK, Stages, Results, Ends, Asleep
<1>2. NoLostWake'
    BY DEF FutexInv, FutexTypeOK, NoLostWake, Asleep
<1>3. WokenOK'
    BY DEF FutexInv, FutexTypeOK, WokenOK, Asleep
<1> QED
    BY <1>1, <1>2, <1>3 DEF FutexInv

(* Resume preserves the invariant.                                         *)
LEMMA ResumeInv ==
    ASSUME NEW t \in Tasks, FutexInv, Resume(t)
    PROVE  FutexInv'
<1> USE FutexAssumption DEF Resume, Goto, Return, Deliver, call, sleepVars, sigVars
<1>1. FutexTypeOK'
    BY DEF FutexInv, FutexTypeOK, Stages, Results, Ends, Asleep
<1>2. NoLostWake'
    BY DEF FutexInv, FutexTypeOK, NoLostWake, Asleep
<1>3. WokenOK'
    BY DEF FutexInv, FutexTypeOK, WokenOK, Asleep
<1> QED
    BY <1>1, <1>2, <1>3 DEF FutexInv

(* FutexWakeAll preserves the invariant.                                   *)
LEMMA FutexWakeAllInv ==
    ASSUME NEW t \in Tasks, FutexInv, FutexWakeAll(t)
    PROVE  FutexInv'
<1> USE FutexAssumption DEF FutexWakeAll, WakeSet, call, sleepVars, sigVars
<1>1. FutexTypeOK'
    BY DEF FutexInv, FutexTypeOK, Stages, Results, Ends, Asleep
<1>2. NoLostWake'
    BY DEF FutexInv, FutexTypeOK, NoLostWake, Asleep
<1>3. WokenOK'
    BY DEF FutexInv, FutexTypeOK, WokenOK, Asleep
<1> QED
    BY <1>1, <1>2, <1>3 DEF FutexInv

(* FutexWakeN preserves the invariant.                                     *)
LEMMA FutexWakeNInv ==
    ASSUME NEW t \in Tasks, NEW n \in Nat, FutexInv, FutexWakeN(t, n)
    PROVE  FutexInv'
<1> USE FutexAssumption DEF FutexWakeN, WakeSet, Oldest, call, sleepVars, sigVars
<1>1. FutexTypeOK'
    BY DEF FutexInv, FutexTypeOK, Stages, Results, Ends, Asleep
<1>2. NoLostWake'
    BY DEF FutexInv, FutexTypeOK, NoLostWake, Asleep
<1>3. WokenOK'
    BY DEF FutexInv, FutexTypeOK, WokenOK, Asleep
<1> QED
    BY <1>1, <1>2, <1>3 DEF FutexInv

(* Exit preserves the invariant.                                           *)
LEMMA ExitInv ==
    ASSUME NEW t \in Tasks, FutexInv, Exit(t)
    PROVE  FutexInv'
<1> USE FutexAssumption DEF Exit, call, sleepVars, sigVars
<1>1. FutexTypeOK'
    BY DEF FutexInv, FutexTypeOK, Stages, Results, Ends, Asleep
<1>2. NoLostWake'
    BY DEF FutexInv, FutexTypeOK, NoLostWake, Asleep
<1>3. WokenOK'
    BY DEF FutexInv, FutexTypeOK, WokenOK, Asleep
<1> QED
    BY <1>1, <1>2, <1>3 DEF FutexInv

(* Tick preserves the invariant.                                           *)
LEMMA TickInv ==
    ASSUME NEW t \in Tasks, FutexInv, Tick(t)
    PROVE  FutexInv'
<1> USE FutexAssumption DEF Tick, WakeSet, call, sleepVars, sigVars
<1>1. FutexTypeOK'
    BY DEF FutexInv, FutexTypeOK, Stages, Results, Ends, Asleep
<1>2. NoLostWake'
    BY DEF FutexInv, FutexTypeOK, NoLostWake, Asleep
<1>3. WokenOK'
    BY DEF FutexInv, FutexTypeOK, WokenOK, Asleep
<1> QED
    BY <1>1, <1>2, <1>3 DEF FutexInv

(* SignalSend preserves the invariant.                                     *)
LEMMA SignalSendInv ==
    ASSUME NEW t \in Tasks, FutexInv, SignalSend(t)
    PROVE  FutexInv'
<1> USE FutexAssumption DEF SignalSend, SigWake, WakeSet, call, sleepVars, sigVars
<1>1. FutexTypeOK'
    BY DEF FutexInv, FutexTypeOK, Stages, Results, Ends, Asleep
<1>2. NoLostWake'
    BY DEF FutexInv, FutexTypeOK, NoLostWake, Asleep
<1>3. WokenOK'
    BY DEF FutexInv, FutexTypeOK, WokenOK, Asleep
<1> QED
    BY <1>1, <1>2, <1>3 DEF FutexInv

(* SignalSendGroup preserves the invariant.                                *)
LEMMA SignalSendGroupInv ==
    ASSUME NEW t \in Tasks, FutexInv, SignalSendGroup(t)
    PROVE  FutexInv'
<1> USE FutexAssumption DEF SignalSendGroup, SigWake, WakeSet, call, sleepVars, sigVars
<1>1. FutexTypeOK'
    BY DEF FutexInv, FutexTypeOK, Stages, Results, Ends, Asleep
<1>2. NoLostWake'
    BY DEF FutexInv, FutexTypeOK, NoLostWake, Asleep
<1>3. WokenOK'
    BY DEF FutexInv, FutexTypeOK, WokenOK, Asleep
<1> QED
    BY <1>1, <1>2, <1>3 DEF FutexInv

(* SignalReturn preserves the invariant.                                   *)
LEMMA SignalReturnInv ==
    ASSUME NEW t \in Tasks, FutexInv, SignalReturn(t)
    PROVE  FutexInv'
<1> USE FutexAssumption DEF SignalReturn, Deliver, call, sleepVars, sigVars
<1>1. FutexTypeOK'
    BY DEF FutexInv, FutexTypeOK, Stages, Results, Ends, Asleep
<1>2. NoLostWake'
    BY DEF FutexInv, FutexTypeOK, NoLostWake, Asleep
<1>3. WokenOK'
    BY DEF FutexInv, FutexTypeOK, WokenOK, Asleep
<1> QED
    BY <1>1, <1>2, <1>3 DEF FutexInv

-----------------------------------------------------------------------------
(* Every step preserves the invariant.                                     *)
LEMMA FutexNextInv == FutexInv /\ [FutexNext]_futexVars => FutexInv'
<1> SUFFICES ASSUME FutexInv, [FutexNext]_futexVars PROVE FutexInv'
    OBVIOUS
<1>1. ASSUME NEW t \in Tasks, ThreadStep(t) PROVE FutexInv'
    BY <1>1, StoreInv, FutexWaitInv, DropPageInv, TouchPageInv, Fault0DoneInv, Fault1DoneInv,
       Fault2DoneInv, ResumeInv, FutexWakeAllInv, FutexWakeNInv, ExitInv, TickInv,
       SignalSendInv, SignalSendGroupInv, SignalReturnInv
    DEF ThreadStep
<1>2. CASE UNCHANGED futexVars
    BY <1>2 DEF futexVars, call, sleepVars, sigVars, FutexInv, FutexTypeOK, NoLostWake, WokenOK, Asleep
<1> QED
    BY <1>1, <1>2 DEF FutexNext

(* The inductive invariant holds in every state.                           *)
THEOREM FutexInvariant == FutexSpec => []FutexInv
    BY FutexInitInv, FutexNextInv, PTL DEF FutexSpec

(* Type correctness, and futex_wait set exactly while a thread is in       *)
(* sys_futex's sleep.                                                      *)
THEOREM FutexTypeCorrect == FutexSpec => []FutexTypeOK
<1>1. FutexInv => FutexTypeOK
    BY DEF FutexInv
<1> QED
    BY <1>1, FutexInvariant, PTL

(* The handshake of sys_futex and futex_wake_n loses no wake, with page    *)
(* faults, signals, deadlines and exits at any moment.                     *)
THEOREM WakesNotLost == FutexSpec => []NoLostWake
<1>1. FutexInv => NoLostWake
    BY DEF FutexInv
<1> QED
    BY <1>1, FutexInvariant, PTL

(* A step of sys_futex that ends a wait FUTEX_WAKE has counted returns 0.  *)
LEMMA ResumeReturnsZero ==
    FutexInv /\ [FutexNext]_futexVars =>
      [\A t \in Tasks :
         ended[t] = "wake" /\ stage[t] = "woken" /\ stage'[t] = "user" => res'[t] = "0"]_futexVars
<1> SUFFICES ASSUME FutexInv, FutexNext, NEW u \in Tasks,
                    ended[u] = "wake", stage[u] = "woken", stage'[u] = "user"
             PROVE  res'[u] = "0"
    BY DEF futexVars, call, sleepVars, sigVars
<1>1. futex_wait[u] = 2
    BY DEF FutexInv, WokenOK
<1>2. PICK t \in Tasks : ThreadStep(t)
    BY DEF FutexNext
<1>3. CASE Resume(t)
    BY <1>1, <1>3 DEF Resume, Return, Goto, FutexInv, FutexTypeOK
<1>4. CASE ~Resume(t)
    BY <1>2, <1>4 DEF ThreadStep, Store, FutexWait, DropPage, TouchPage, Fault0Done, Fault1Done,
       Fault2Done, FutexWakeAll, FutexWakeN, Exit, Tick, SignalSend, SignalSendGroup,
       SignalReturn, FirstRead, Goto, Return, Deliver, Eagain, Sleep, Bucket, FaultAt, WakeSet,
       SigWake, FutexInv, FutexTypeOK
<1> QED
    BY <1>3, <1>4

(* The wake a FUTEX_WAKE has counted is not turned into EINTR or           *)
(* ETIMEDOUT by a signal or a tick that comes before the waiter runs.      *)
THEOREM CountedWakesReturnZero == FutexSpec => WakeNotStolen
    BY FutexInvariant, ResumeReturnsZero, PTL DEF FutexSpec, WakeNotStolen

(* A step keeps the deadline of a timed wait that sleeps, and one that     *)
(* puts it to sleep has armed it.                                          *)
LEMMA DeadlineKept ==
    FutexInv /\ [FutexNext]_futexVars =>
      [\A t \in Tasks : stage'[t] = "asleep" /\ t \in timed' =>
          IF stage[t] = "asleep" THEN t \in wake_tick => t \in wake_tick'
          ELSE stage[t] = "fault2" \/ t \in wake_tick']_futexVars
<1> SUFFICES ASSUME FutexInv, FutexNext, NEW u \in Tasks, stage'[u] = "asleep", u \in timed'
             PROVE  IF stage[u] = "asleep" THEN u \in wake_tick => u \in wake_tick'
                    ELSE stage[u] = "fault2" \/ u \in wake_tick'
    BY DEF futexVars, call, sleepVars, sigVars
<1>1. PICK t \in Tasks : ThreadStep(t)
    BY DEF FutexNext
<1> USE DEF FutexInv, FutexTypeOK, call, sleepVars, sigVars
<1>2. CASE \E v \in Vals : FutexWait(t, v)
    BY <1>2 DEF FutexWait, FirstRead, Goto, Return, Eagain, Sleep, Bucket, FaultAt
<1>3. CASE Fault0Done(t)
    BY <1>3 DEF Fault0Done, FirstRead, Goto, Return, Eagain, Sleep, Bucket, FaultAt
<1>4. CASE Fault1Done(t) \/ Fault2Done(t)
    BY <1>4 DEF Fault1Done, Fault2Done, Goto, Return, Eagain, Sleep, Bucket, FaultAt
<1>5. CASE \/ (\E v \in Vals : Store(t, v)) \/ DropPage(t) \/ TouchPage(t)
           \/ Resume(t) \/ SignalReturn(t)
    BY <1>5 DEF Store, DropPage, TouchPage, Resume, SignalReturn, Deliver, Return, Goto
<1>6. CASE FutexWakeAll(t) \/ (\E n \in Nat : FutexWakeN(t, n)) \/ Exit(t)
    BY <1>6 DEF FutexWakeAll, FutexWakeN, Exit, WakeSet, Oldest, Asleep
<1>7. CASE Tick(t) \/ SignalSend(t) \/ SignalSendGroup(t)
    BY <1>7 DEF Tick, SignalSend, SignalSendGroup, SigWake, WakeSet, Asleep
<1> QED
    BY <1>1, <1>2, <1>3, <1>4, <1>5, <1>6, <1>7 DEF ThreadStep

(* A timed FUTEX_WAIT sleeps with its deadline armed, whichever copies     *)
(* faulted before, except after a fault inside the bucket loop; and no     *)
(* step takes the deadline away from a sleeper.                            *)
THEOREM DeadlinesArmed == FutexSpec => TimeoutHonoured
    BY FutexInvariant, DeadlineKept, PTL DEF FutexSpec, TimeoutHonoured

=============================================================================
