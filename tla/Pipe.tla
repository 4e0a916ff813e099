-------------------------------- MODULE Pipe --------------------------------
(***************************************************************************)
(* One pipe (proc/pipe.c): the ring buffer, the counts of open ends, the   *)
(* pins of the calls in progress, and the threads that read, write, close, *)
(* dup and are signalled.                                                  *)
(*                                                                         *)
(* A step is what a thread does between two points where it can sleep: the *)
(* kernel is never preempted (sched_irq_exit switches only on the way to   *)
(* ring 3) and every kernel path holds the big kernel lock, so nothing     *)
(* else runs in between.  The sleeping points are sleep_locked and, for a  *)
(* thread whose user buffer faults on a file-backed page that has to be    *)
(* read from a device, the user copy.                                      *)
(*                                                                         *)
(* Bytes are numbered 1, 2, 3... in the order their writes are committed.  *)
(***************************************************************************)
EXTENDS Integers, FiniteSets

CONSTANTS
    Readers,        \* threads that call pipe_read
    Writers,        \* threads that call pipe_write
    Faulting,       \* threads whose user copy may fault and sleep
    PIPE_BUF_SIZE,  \* capacity of the ring
    WORD,           \* modulus of the unsigned counters (2^32 in the code)
    MaxLen,         \* bound: longest request
    MaxBytes,       \* bound: bytes ever copied into the ring
    MaxEnds         \* bound: open descriptors of one end

Threads == Readers \cup Writers

ASSUME PipeAssumption ==
    /\ IsFiniteSet(Readers) /\ IsFiniteSet(Writers)
    /\ Readers \cap Writers = {}
    /\ Faulting \subseteq Threads
    /\ PIPE_BUF_SIZE \in Nat \ {0}
    /\ WORD \in Nat /\ WORD > PIPE_BUF_SIZE
    /\ MaxLen \in Nat \ {0}
    /\ MaxBytes \in Nat
    /\ MaxEnds \in Nat \ {0}

VARIABLES
    data,      \* the ring: the number of the byte in each cell, 0 if none
    head,      \* index of the next byte to read
    count,     \* bytes currently in the buffer
    nreaders,  \* open read ends
    nwriters,  \* open write ends
    fifo,      \* the buffer belongs to a named FIFO's node
    pins,      \* pipe_read and pipe_write calls in progress
    alive,     \* the buffer has not been freed
    pc,        \* where each thread is
    req,       \* the locals of each thread's call
    sig,       \* the thread has a deliverable signal
    serial,    \* number of the last byte committed by a write
    rd         \* number of the last byte handed to a reader (or dropped)

ring == <<data, head, count>>
ends == <<nreaders, nwriters>>
vars == <<data, head, count, nreaders, nwriters, fifo, pins, alive,
          pc, req, sig, serial, rd>>

Smaller(a, b) == IF a < b THEN a ELSE b

NewReq(len, nonblock) ==
    [len |-> len, nonblock |-> nonblock, n |-> 0, at |-> 0, k |-> 0]
NoReq == NewReq(0, FALSE)

Reqs == [len : 0..MaxLen, nonblock : BOOLEAN, n : Int,
         at : 0..(PIPE_BUF_SIZE - 1), k : Int]

(***************************************************************************)
(* pipe_alloc for a pipe, pipe_fifo_alloc for a FIFO's node.               *)
(***************************************************************************)
Init ==
    /\ data = [i \in 0..(PIPE_BUF_SIZE - 1) |-> 0]
    /\ head = 0
    /\ count = 0
    /\ fifo \in BOOLEAN
    /\ nreaders = IF fifo THEN 0 ELSE 1
    /\ nwriters = IF fifo THEN 0 ELSE 1
    /\ pins = 0
    /\ alive = TRUE
    /\ pc = [t \in Threads |-> "idle"]
    /\ req = [t \in Threads |-> NoReq]
    /\ sig = [t \in Threads |-> FALSE]
    /\ serial = 0
    /\ rd = 0

(***************************************************************************)
(* wake_up(p): every sleeper on the pipe's channel becomes runnable.       *)
(***************************************************************************)
Woken(pcs) ==
    [t \in Threads |-> IF pcs[t] = "rsleep" THEN "rready"
                       ELSE IF pcs[t] = "wsleep" THEN "wready" ELSE pcs[t]]

(* Mutant: the buffer is freed although a call still holds a pin.          *)
TryFreePinned(p, nr, nw, hd, ct, last) ==
    LET gone == nr = 0 /\ nw = 0 IN
    /\ alive' = (alive /\ (fifo \/ ~gone))
    /\ head'  = hd
    /\ count' = ct
    /\ rd'    = last

(***************************************************************************)
(* pipe_try_free, reached with `p` pins left: what it does to a buffer     *)
(* with no open end and no call in progress.                               *)
(***************************************************************************)
TryFree(p, nr, nw, hd, ct, last) ==
    LET gone == nr = 0 /\ nw = 0 /\ p = 0 IN
    /\ alive' = (alive /\ (fifo \/ ~gone))
    /\ head'  = IF gone THEN 0 ELSE hd
    /\ count' = IF gone THEN 0 ELSE ct
    /\ rd'    = IF gone THEN serial' ELSE last

(* Mutant: the last pin is dropped without trying to free.                 *)
LeaveNoFree(t, pcs, p, hd, ct, last) ==
    /\ pins' = p - 1
    /\ pc' = [pcs EXCEPT ![t] = "idle"]
    /\ req' = [req EXCEPT ![t] = NoReq]
    /\ head' = hd /\ count' = ct /\ rd' = last
    /\ UNCHANGED alive

(***************************************************************************)
(* pipe_leave: drop the pin; the last one tries to free the buffer.        *)
(***************************************************************************)
Leave(t, pcs, p, hd, ct, last) ==
    /\ pins' = p - 1
    /\ pc' = [pcs EXCEPT ![t] = "idle"]
    /\ req' = [req EXCEPT ![t] = NoReq]
    /\ TryFree(p - 1, nreaders, nwriters, hd, ct, last)

(* Mutant: head is not advanced.                                           *)
ConsumeNoAdvance(t, p, at, take) ==
    Leave(t, Woken(pc), p, head, (count - take) % WORD,
          data[(at + take - 1) % PIPE_BUF_SIZE])

(* The part of pipe_read after the copy: consume what was copied and wake. *)
Consume(t, p, at, take) ==
    Leave(t, Woken(pc), p, (head + take) % PIPE_BUF_SIZE,
          (count - take) % WORD, data[(at + take - 1) % PIPE_BUF_SIZE])

(* copy_to_user failed: -EFAULT, and nothing is consumed.                  *)
ReadFault(t, p) == Leave(t, pc, p, head, count, rd)

(***************************************************************************)
(* pipe_read from the wait loop on, with `p` pins held.                    *)
(***************************************************************************)
ReadFrom(t, r, p) ==
    LET take == Smaller(r.len, count) IN
    \/ /\ count = 0
       /\ nwriters = 0 \/ r.nonblock \/ sig[t]      \* EOF, -EAGAIN, -EINTR
       /\ Leave(t, pc, p, head, count, rd)
    \/ /\ count = 0
       /\ nwriters > 0 /\ ~r.nonblock /\ ~sig[t]
       /\ pc' = [pc EXCEPT ![t] = "rsleep"]
       /\ req' = [req EXCEPT ![t] = r]
       /\ pins' = p
       /\ UNCHANGED <<head, count, alive, rd>>
    \/ /\ count > 0
       /\ t \in Faulting
       /\ pc' = [pc EXCEPT ![t] = "rcopy"]
       /\ req' = [req EXCEPT ![t] = [r EXCEPT !.at = head, !.k = take]]
       /\ pins' = p
       /\ UNCHANGED <<head, count, alive, rd>>
    \/ /\ count > 0
       /\ \/ Consume(t, p, head, take)
          \/ ReadFault(t, p)

ReadCall(t) ==
    /\ pc[t] = "idle"
    /\ UNCHANGED <<data, ends, fifo, sig, serial>>
    /\ nreaders > 0
    /\ \E len \in 1..MaxLen, nb \in BOOLEAN :
          ReadFrom(t, NewReq(len, nb), pins + 1)

ReadResume(t) ==
    /\ pc[t] = "rready"
    /\ UNCHANGED <<data, ends, fifo, sig, serial>>
    /\ ReadFrom(t, req[t], pins)

ReadCopied(t) ==
    /\ pc[t] = "rcopy"
    /\ UNCHANGED <<data, ends, fifo, sig, serial>>
    /\ \/ Consume(t, pins, req[t].at, req[t].k)
       \/ ReadFault(t, pins)

(***************************************************************************)
(* pipe_write.  One round of its loop: the copy of `put` bytes at `tail`   *)
(* and their commit, after which the call ends or goes round again.  A     *)
(* writer that goes round again is left runnable ("wready"), which lets    *)
(* others run first: a superset of what the code does.                     *)
(***************************************************************************)
Commit(t, r, p, tail, put) ==
    LET n == r.n + put IN
    /\ serial + put <= MaxBytes
    /\ data' = [i \in DOMAIN data |->
                  LET j == (i - tail) % PIPE_BUF_SIZE IN
                  IF j < put THEN serial + 1 + j ELSE data[i]]
    /\ serial' = serial + put
    /\ IF n = r.len
       THEN Leave(t, Woken(pc), p, head, (count + put) % WORD, rd)
       ELSE /\ count' = (count + put) % WORD
            /\ pc' = [Woken(pc) EXCEPT ![t] = "wready"]
            /\ req' = [req EXCEPT ![t] = [r EXCEPT !.n = n]]
            /\ pins' = p
            /\ UNCHANGED <<head, alive, rd>>
    /\ UNCHANGED sig

(* copy_from_user failed: the call ends with n or -EFAULT.                 *)
WriteFault(t, p) ==
    /\ UNCHANGED <<data, serial, sig>>
    /\ Leave(t, pc, p, head, count, rd)

WriteFrom(t, r, p) ==
    LET put  == Smaller(r.len - r.n, PIPE_BUF_SIZE - count)
        tail == (head + count) % PIPE_BUF_SIZE IN
    \/ /\ count = PIPE_BUF_SIZE
       /\ nreaders = 0 \/ r.nonblock \/ sig[t]      \* -EPIPE, -EAGAIN, -EINTR
       /\ sig' = [sig EXCEPT ![t] = sig[t] \/ nreaders = 0]       \* SIGPIPE
       /\ UNCHANGED <<data, serial>>
       /\ Leave(t, pc, p, head, count, rd)
    \/ /\ count = PIPE_BUF_SIZE
       /\ nreaders > 0 /\ ~r.nonblock /\ ~sig[t]
       /\ pc' = [pc EXCEPT ![t] = "wsleep"]
       /\ req' = [req EXCEPT ![t] = r]
       /\ pins' = p
       /\ UNCHANGED <<data, head, count, alive, serial, rd, sig>>
    \/ /\ count # PIPE_BUF_SIZE
       /\ t \in Faulting
       /\ pc' = [pc EXCEPT ![t] = "wcopy"]
       /\ req' = [req EXCEPT ![t] = [r EXCEPT !.at = tail, !.k = put]]
       /\ pins' = p
       /\ UNCHANGED <<data, head, count, alive, serial, rd, sig>>
    \/ /\ count # PIPE_BUF_SIZE
       /\ \/ Commit(t, r, p, tail, put)
          \/ WriteFault(t, p)

(***************************************************************************)
(* A write on a pipe nobody reads takes and drops its pin and raises       *)
(* SIGPIPE; the write end it came through is open, so nothing is freed.    *)
(***************************************************************************)
WriteNoReader(t) ==
    /\ pc[t] = "idle"
    /\ nwriters > 0
    /\ nreaders = 0
    /\ sig' = [sig EXCEPT ![t] = TRUE]
    /\ UNCHANGED <<ring, ends, fifo, pins, alive, pc, req, serial, rd>>

WriteCall(t) ==
    /\ pc[t] = "idle"
    /\ nwriters > 0
    /\ nreaders > 0
    /\ \E len \in 1..MaxLen, nb \in BOOLEAN :
          WriteFrom(t, NewReq(len, nb), pins + 1)
    /\ UNCHANGED <<ends, fifo>>

WriteResume(t) ==
    /\ pc[t] = "wready"
    /\ WriteFrom(t, req[t], pins)
    /\ UNCHANGED <<ends, fifo>>

WriteCopied(t) ==
    /\ pc[t] = "wcopy"
    /\ \/ Commit(t, req[t], pins, req[t].at, req[t].k)
       \/ WriteFault(t, pins)
    /\ UNCHANGED <<ends, fifo>>

(***************************************************************************)
(* A new descriptor for an end: dup or fork of an open one, or an open of  *)
(* the FIFO's name.                                                        *)
(***************************************************************************)
AddReader ==
    /\ alive
    /\ fifo \/ nreaders > 0
    /\ nreaders < MaxEnds
    /\ nreaders' = nreaders + 1
    /\ UNCHANGED <<ring, nwriters, fifo, pins, alive, pc, req, sig, serial, rd>>

AddWriter ==
    /\ alive
    /\ fifo \/ nwriters > 0
    /\ nwriters < MaxEnds
    /\ nwriters' = nwriters + 1
    /\ UNCHANGED <<ring, nreaders, fifo, pins, alive, pc, req, sig, serial, rd>>

(* Mutants: a close that wakes nobody.                                     *)
CloseReadNoWake ==
    /\ nreaders > 0
    /\ nreaders' = nreaders - 1
    /\ UNCHANGED <<data, nwriters, fifo, pins, pc, req, sig, serial>>
    /\ TryFree(pins, nreaders - 1, nwriters, head, count, rd)
CloseWriteNoWake ==
    /\ nwriters > 0
    /\ nwriters' = nwriters - 1
    /\ UNCHANGED <<data, nreaders, fifo, pins, pc, req, sig, serial>>
    /\ TryFree(pins, nreaders, nwriters - 1, head, count, rd)

(* A descriptor is closed, perhaps by a thread that shares the fd table    *)
(* with one that is asleep in a read or write of it.                       *)
CloseRead ==
    /\ nreaders > 0
    /\ nreaders' = nreaders - 1
    /\ pc' = Woken(pc)
    /\ UNCHANGED <<data, nwriters, fifo, pins, req, sig, serial>>
    /\ TryFree(pins, nreaders - 1, nwriters, head, count, rd)

CloseWrite ==
    /\ nwriters > 0
    /\ nwriters' = nwriters - 1
    /\ pc' = Woken(pc)
    /\ UNCHANGED <<data, nreaders, fifo, pins, req, sig, serial>>
    /\ TryFree(pins, nreaders, nwriters - 1, head, count, rd)

(***************************************************************************)
(* The FIFO's node goes away.  Every descriptor holds the node, so no end  *)
(* is open; a call in progress inherits the buffer.                        *)
(***************************************************************************)
FifoFree ==
    /\ fifo /\ alive
    /\ nreaders = 0 /\ nwriters = 0
    /\ pc' = Woken(pc)
    /\ fifo' = FALSE
    /\ alive' = (alive /\ pins > 0)
    /\ UNCHANGED <<ring, ends, pins, req, sig, serial, rd>>

(* A signal makes a sleeper runnable; it is consumed on the way to user    *)
(* mode (proc/signal.c: sig_wake_sleeper, signal_return_to_user).          *)
Signal(t) ==
    /\ ~sig[t]
    /\ sig' = [sig EXCEPT ![t] = TRUE]
    /\ pc' = [pc EXCEPT ![t] = Woken(pc)[t]]
    /\ UNCHANGED <<ring, ends, fifo, pins, alive, req, serial, rd>>

ReturnToUser(t) ==
    /\ pc[t] = "idle"
    /\ sig[t]
    /\ sig' = [sig EXCEPT ![t] = FALSE]
    /\ UNCHANGED <<ring, ends, fifo, pins, alive, pc, req, serial, rd>>

Next ==
    \/ \E t \in Readers : ReadCall(t) \/ ReadResume(t) \/ ReadCopied(t)
    \/ \E t \in Writers : \/ WriteCall(t) \/ WriteNoReader(t)
                          \/ WriteResume(t) \/ WriteCopied(t)
    \/ \E t \in Threads : Signal(t) \/ ReturnToUser(t)
    \/ AddReader \/ AddWriter \/ CloseRead \/ CloseWrite \/ FifoFree

(* A runnable thread is eventually run and a page read eventually ends.    *)
Fairness ==
    /\ \A t \in Readers : WF_vars(ReadResume(t)) /\ WF_vars(ReadCopied(t))
    /\ \A t \in Writers : WF_vars(WriteResume(t)) /\ WF_vars(WriteCopied(t))

Spec == Init /\ [][Next]_vars

FairSpec == Spec /\ Fairness

-----------------------------------------------------------------------------
(* The threads inside a pipe_read or a pipe_write.                         *)
InCall(f) == {t \in Threads : f[t] # "idle"}

PCs == {"idle", "rsleep", "rready", "rcopy", "wsleep", "wready", "wcopy"}

(* Every variable has its type.                                            *)
TypeOK ==
    /\ data \in [0..(PIPE_BUF_SIZE - 1) -> Int]
    /\ head \in 0..(PIPE_BUF_SIZE - 1)
    /\ count \in 0..(WORD - 1)
    /\ nreaders \in 0..MaxEnds /\ nwriters \in 0..MaxEnds
    /\ fifo \in BOOLEAN /\ alive \in BOOLEAN
    /\ pins \in Int
    /\ pc \in [Threads -> PCs]
    /\ req \in [Threads -> Reqs]
    /\ sig \in [Threads -> BOOLEAN]
    /\ serial \in Int /\ rd \in Int

(***************************************************************************)
(* No wakeup is lost: a reader is asleep only while the pipe is empty with *)
(* a writer left, a writer only while it is full with a reader left, and   *)
(* neither with a signal to handle.  Every change that can unblock a       *)
(* sleeper, and every close, wakes it (pipe.c, wake_up under the lock).    *)
(***************************************************************************)
NoLostWakeup ==
    \A t \in Threads :
       /\ pc[t] = "rsleep" => count = 0 /\ nwriters > 0 /\ ~sig[t]
       /\ pc[t] = "wsleep" => count = PIPE_BUF_SIZE /\ nreaders > 0 /\ ~sig[t]

(***************************************************************************)
(* The buffer is not freed under a call in progress or an open descriptor, *)
(* whichever thread closed the last end, and pins counts those calls.      *)
(***************************************************************************)
NoUseAfterFree ==
    /\ pins = Cardinality(InCall(pc))
    /\ (pins > 0 \/ nreaders > 0 \/ nwriters > 0) => alive

(* And it does not leak: the last close or the last pipe_leave frees it.   *)
NoLeak ==
    (~fifo /\ nreaders = 0 /\ nwriters = 0 /\ pins = 0) => ~alive

(***************************************************************************)
(* The ring delivers the byte stream: the bytes committed and not yet read *)
(* are exactly the count cells from head on, in order, none lost, none     *)
(* twice, even across a copy that slept or failed with -EFAULT.            *)
(***************************************************************************)
ByteStream ==
    /\ count <= PIPE_BUF_SIZE
    /\ count = serial - rd
    /\ \A i \in 0..(count - 1) : data[(head + i) % PIPE_BUF_SIZE] = rd + 1 + i

(***************************************************************************)
(* A read that data or end-of-file can satisfy ends, and a write that      *)
(* readers or their absence can satisfy ends, unless another thread takes  *)
(* the data or the room first.                                             *)
(***************************************************************************)
BlockedCallsEnd ==
    /\ \A t \in Readers :
          (pc[t] # "idle" /\ (count > 0 \/ nwriters = 0))
             ~> (pc[t] = "idle" \/ (count = 0 /\ nwriters > 0))
    /\ \A t \in Writers :
          (pc[t] # "idle" /\ (count < PIPE_BUF_SIZE \/ nreaders = 0))
             ~> (pc[t] = "idle" \/ (count = PIPE_BUF_SIZE /\ nreaders > 0))
=============================================================================
