----------------------------- MODULE BklProofs ------------------------------
(***************************************************************************)
(* Proofs about Bkl, for any number of CPUs and threads and any depth of   *)
(* nesting.  The inductive invariant says what each frame of a kernel      *)
(* stack contributes to the depth, and ties the lock word to the depth of  *)
(* the context a CPU executes.                                             *)
(***************************************************************************)
EXTENDS Bkl, TLAPS

FrameSet == [kind : Kinds, pc : PCs, fl : BOOLEAN, ret : BOOLEAN, lvl : 0..MaxNest]

(* The instructions between the lock word and the depth.                   *)
Crit == {"try", "inc", "dec", "unlock"}

(* The depth of the lock when frame f is where it is.                      *)
Held(f) == IF f.pc \in {"body", "sched", "leave", "dec"} THEN f.lvl + 1 ELSE f.lvl

PcOf(k) ==
    IF k = "user" THEN {"user", "body", "leave", "dec", "unlock"}
    ELSE IF k = "loop" THEN {"sched", "idle", "enter", "try", "inc", "leave", "dec", "unlock"}
    ELSE {"enter", "try", "inc", "body", "leave", "dec", "unlock", "iret"}

FrameOK(x, i) ==
    /\ i = 1 => /\ stk[x][i].kind = IF x \in Threads THEN "user" ELSE "loop"
                /\ stk[x][i].lvl = 0
    /\ i > 1 => /\ stk[x][i].kind \in {"trap", "irq"}
                /\ stk[x][i].lvl = Held(stk[x][i - 1])
    /\ stk[x][i].pc \in PcOf(stk[x][i].kind)
    /\ stk[x][i].lvl < i
    /\ i < sp[x] => stk[x][i].pc \notin Crit

Chain == \A x \in Ctxs : \A i \in 1..sp[x] : FrameOK(x, i)

(* A CPU executes a thread or its own loop, and no thread runs twice.      *)
Runs ==
    /\ \A c \in CPUs : running[c] \in Threads \cup {c}
    /\ \A c, d \in CPUs : running[c] = running[d] => c = d

(* A context that is switched out waits in the kernel, at its swtch.       *)
Parked ==
    /\ \A c \in CPUs : running[c] # c => sp[c] = 1 /\ stk[c][1].pc = "sched"
    /\ \A t \in Threads : (\A c \in CPUs : running[c] # t) =>
          /\ Top(t).pc = "body"
          /\ p_depth[t] = Held(Top(t)) \/ (p_depth[t] = 0 /\ sp[t] = 1)

(* Interrupts are off between the lock word and the depth.                 *)
Masked == \A c \in CPUs : Cur(c).pc \in Crit => IF_[c] = FALSE

(* The depth is that of the frame the CPU executes.                        *)
Depth ==
    \A c \in CPUs :
       /\ bkl_depth[c] = Held(Cur(c))
       /\ Cur(c).pc \in {"try", "unlock"} => bkl_depth[c] = 0

(* Who holds the lock word, from the depth.                                *)
Word ==
    \A c \in CPUs : g_bkl = c <=> (bkl_depth[c] > 0 \/ Cur(c).pc \in {"inc", "unlock"})

Inv == TypeOK /\ Chain /\ Runs /\ Parked /\ Masked /\ Depth /\ Word

-----------------------------------------------------------------------------
LEMMA InitInv == Init => Inv
<1> SUFFICES ASSUME Init PROVE Inv
    OBVIOUS
<1> USE BklAssumption
<1>1. TypeOK
    BY DEF Init, TypeOK, Frame, Blank, Kinds, PCs, Ctxs
<1>2. Chain
    BY DEF Init, Chain, FrameOK, Frame, Blank, Ctxs, PcOf, Held, Crit
<1>3. Runs
    BY DEF Init, Runs
<1>4. Parked
    BY DEF Init, Parked, Top, Held, Frame, Blank, Ctxs
<1>5. Masked
    BY DEF Init, Masked
<1>0. ASSUME NEW c \in CPUs
      PROVE  /\ Cur(c).pc = (IF c = BSP THEN "sched" ELSE "enter")
             /\ Cur(c).lvl = 0
    BY DEF Init, Cur, Top, Frame, Blank, Ctxs
<1>8. /\ g_bkl = BSP
      /\ \A c \in CPUs : bkl_depth[c] = IF c = BSP THEN 1 ELSE 0
    BY DEF Init
<1>6. Depth
  <2> SUFFICES ASSUME NEW c \in CPUs
               PROVE  /\ bkl_depth[c] = Held(Cur(c))
                      /\ Cur(c).pc \in {"try", "unlock"} => bkl_depth[c] = 0
      BY DEF Depth
  <2>1. CASE c = BSP
      BY <2>1, <1>0, <1>8 DEF Held
  <2>2. CASE c # BSP
      BY <2>2, <1>0, <1>8 DEF Held
  <2> QED
      BY <2>1, <2>2
<1>7. Word
  <2> SUFFICES ASSUME NEW c \in CPUs
               PROVE  g_bkl = c <=> (bkl_depth[c] > 0 \/ Cur(c).pc \in {"inc", "unlock"})
      BY DEF Word
  <2>1. CASE c = BSP
      BY <2>1, <1>8
  <2>2. CASE c # BSP
      BY <2>2, <1>0, <1>8
  <2> QED
      BY <2>1, <2>2
<1> QED
    BY <1>1, <1>2, <1>3, <1>4, <1>5, <1>6, <1>7 DEF Inv

(***************************************************************************)
(* What Go does to the stacks: the frame changes its pc and flag, and      *)
(* keeps its kind and level; every other frame is as it was.               *)
(***************************************************************************)
LEMMA GoFacts ==
    ASSUME TypeOK, NEW c \in CPUs, NEW p \in PCs, NEW f \in BOOLEAN, Go(c, p, f)
    PROVE  /\ stk' \in [Ctxs -> [1..MaxNest -> FrameSet]]
           /\ stk'[running[c]][sp[running[c]]]
                = Frame(Cur(c).kind, p, f, Cur(c).ret, Cur(c).lvl)
           /\ \A x \in Ctxs, i \in 1..MaxNest :
                 (x # running[c] \/ i # sp[running[c]]) => stk'[x][i] = stk[x][i]
<1> USE BklAssumption
<1> DEFINE x == running[c]
           n == sp[x]
           F == Frame(Cur(c).kind, p, f, Cur(c).ret, Cur(c).lvl)
<1>1. x \in Ctxs /\ n \in 1..MaxNest
    BY DEF TypeOK
<1>2. Cur(c) \in FrameSet
    BY <1>1 DEF TypeOK, Cur, Top, FrameSet
<1>3. F \in FrameSet
    BY <1>2 DEF FrameSet, Frame
<1>4. stk \in [Ctxs -> [1..MaxNest -> FrameSet]]
    BY DEF TypeOK, FrameSet
<1>5. stk' = [stk EXCEPT ![x][n] = F]
    BY DEF Go
<1> HIDE DEF F
<1>6. stk' \in [Ctxs -> [1..MaxNest -> FrameSet]]
    BY <1>1, <1>3, <1>4, <1>5
<1>7. stk'[x][n] = F
    BY <1>1, <1>4, <1>5
<1>8. \A y \in Ctxs, i \in 1..MaxNest : (y # x \/ i # n) => stk'[y][i] = stk[y][i]
    BY <1>1, <1>4, <1>5
<1> QED
    BY <1>6, <1>7, <1>8 DEF F

(***************************************************************************)
(* A step that only moves the top frame of c keeps the stacks in order,    *)
(* and leaves what the other CPUs execute alone.                           *)
(***************************************************************************)
LEMMA GoStep ==
    ASSUME Inv, NEW c \in CPUs, NEW p \in PcOf(Cur(c).kind), NEW f \in BOOLEAN,
           Go(c, p, f), UNCHANGED <<running, p_depth, sp>>
    PROVE  /\ stk' \in [Ctxs -> [1..MaxNest -> FrameSet]]
           /\ Chain' /\ Runs' /\ Parked'
           /\ (Cur(c).pc)' = p /\ (Cur(c).lvl)' = Cur(c).lvl
           /\ \A d \in CPUs : d # c => (Cur(d))' = Cur(d)
<1> USE BklAssumption
<1> DEFINE x == running[c]
           n == sp[x]
<1>1. x \in Ctxs /\ n \in 1..MaxNest
    BY DEF Inv, TypeOK
<1>2. p \in PCs
    BY DEF PcOf, PCs
<1>3. TypeOK
    BY DEF Inv
<1>4. /\ stk' \in [Ctxs -> [1..MaxNest -> FrameSet]]
      /\ stk'[x][n] = Frame(Cur(c).kind, p, f, Cur(c).ret, Cur(c).lvl)
      /\ \A y \in Ctxs, i \in 1..MaxNest : (y # x \/ i # n) => stk'[y][i] = stk[y][i]
    BY <1>2, <1>3, GoFacts
<1>5. /\ stk'[x][n].kind = stk[x][n].kind
      /\ stk'[x][n].lvl = stk[x][n].lvl
      /\ stk'[x][n].pc = p
    BY <1>4 DEF Frame, Cur, Top
<1>6. \A d \in CPUs : d # c => running[d] \in Ctxs /\ running[d] # x
    BY DEF Inv, TypeOK, Runs
<1>7. Chain'
  <2> SUFFICES ASSUME NEW y \in Ctxs, NEW i \in 1..sp[y]
               PROVE  FrameOK(y, i)'
      BY DEF Chain
  <2>0. sp[y] \in 1..MaxNest /\ i \in 1..MaxNest /\ FrameOK(y, i)
      BY <1>3 DEF Inv, TypeOK, Chain
  <2>1. CASE y = x /\ i = n
    <3>1. i > 1 => i - 1 \in 1..MaxNest /\ stk'[y][i - 1] = stk[y][i - 1]
        BY <2>0, <2>1, <1>4
    <3> QED
        BY <2>0, <2>1, <3>1, <1>5 DEF FrameOK, Cur, Top, Held
  <2>2. CASE ~(y = x /\ i = n)
    <3>1. stk'[y][i] = stk[y][i]
        BY <2>0, <2>2, <1>4
    <3>2. i > 1 => i - 1 \in 1..MaxNest /\ stk'[y][i - 1] = stk[y][i - 1]
      <4>1. y = x => i < n
          BY <2>2, <2>0
      <4> QED
          BY <2>0, <2>2, <1>4, <4>1
    <3> QED
        BY <2>0, <3>1, <3>2 DEF FrameOK, Held
  <2> QED
      BY <2>1, <2>2
<1>8. Runs'
    BY DEF Inv, Runs
<1>9. Parked'
  <2>1. ASSUME NEW d \in CPUs, running[d] # d
        PROVE  sp[d] = 1 /\ stk'[d][1].pc = "sched"
    <3>1. d # x
        BY <2>1, BklAssumption DEF Inv, Runs
    <3>2. d \in Ctxs /\ 1 \in 1..MaxNest
        BY DEF Ctxs
    <3> QED
        BY <2>1, <3>1, <3>2, <1>4 DEF Inv, Parked
  <2>2. ASSUME NEW t \in Threads, \A d \in CPUs : running[d] # t
        PROVE  stk'[t][sp[t]] = stk[t][sp[t]]
    <3>1. t # x /\ t \in Ctxs
        BY <2>2 DEF Ctxs
    <3> QED
        BY <3>1, <1>3, <1>4 DEF TypeOK
  <2> QED
      BY <2>1, <2>2 DEF Inv, Parked, Top
<1>10. \A d \in CPUs : d # c => (Cur(d))' = Cur(d)
    BY <1>3, <1>4, <1>6, ZenonT(40) DEF TypeOK, Cur, Top
<1> QED
    BY <1>4, <1>5, <1>7, <1>8, <1>9, <1>10 DEF Cur, Top

(* What the invariant says of the frame a CPU executes.                    *)
LEMMA CurFacts ==
    ASSUME Inv, NEW c \in CPUs
    PROVE  /\ Cur(c) \in FrameSet
           /\ Cur(c).pc \in PcOf(Cur(c).kind)
           /\ running[c] \in Ctxs /\ sp[running[c]] \in 1..MaxNest
           /\ Cur(c).lvl < sp[running[c]]
           /\ Cur(c).kind \in {"user", "loop"} => Cur(c).lvl = 0
           /\ sp[running[c]] > 1 <=> Cur(c).kind \in {"trap", "irq"}
<1>1. running[c] \in Ctxs /\ sp[running[c]] \in 1..MaxNest
    BY DEF Inv, TypeOK
<1>2. Cur(c) \in FrameSet
    BY <1>1, ZenonT(40) DEF Inv, TypeOK, Cur, Top, FrameSet
<1>3. FrameOK(running[c], sp[running[c]])
    BY <1>1 DEF Inv, Chain
<1> QED
    BY <1>1, <1>2, <1>3 DEF FrameOK, Cur, Top

(* The flag, the depth and the lock word after a step of c that moves its  *)
(* frame to p.                                                             *)
FlagOK(c, p) ==
    /\ IF_' \in [CPUs -> BOOLEAN]
    /\ \A d \in CPUs : d # c => IF_'[d] = IF_[d]
    /\ p \in Crit => IF_'[c] = FALSE

DepthOK(c, p) ==
    /\ bkl_depth' \in [CPUs -> 0..MaxNest]
    /\ \A d \in CPUs : d # c => bkl_depth'[d] = bkl_depth[d]
    /\ bkl_depth'[c] = IF p \in {"body", "sched", "leave", "dec"}
                       THEN Cur(c).lvl + 1 ELSE Cur(c).lvl
    /\ p \in {"try", "unlock"} => bkl_depth'[c] = 0

WordOK(c, p) ==
    /\ g_bkl' \in CPUs \cup {NoCPU}
    /\ \A d \in CPUs : d # c => (g_bkl' = d <=> g_bkl = d)
    /\ g_bkl' = c <=> (bkl_depth'[c] > 0 \/ p \in {"inc", "unlock"})

(***************************************************************************)
(* A step that moves the top frame of c to p keeps the invariant when it   *)
(* leaves the depth, the flag and the lock word as p wants them, and those *)
(* of the other CPUs alone.                                                *)
(***************************************************************************)
LEMMA GoInv ==
    ASSUME Inv, NEW c \in CPUs, NEW p \in PcOf(Cur(c).kind), NEW f \in BOOLEAN,
           Go(c, p, f), UNCHANGED <<running, p_depth, sp>>,
           FlagOK(c, p), DepthOK(c, p), WordOK(c, p)
    PROVE  Inv'
<1> USE DEF FlagOK, DepthOK, WordOK
<1>1. /\ stk' \in [Ctxs -> [1..MaxNest -> FrameSet]]
      /\ Chain' /\ Runs' /\ Parked'
      /\ (Cur(c).pc)' = p /\ (Cur(c).lvl)' = Cur(c).lvl
      /\ \A d \in CPUs : d # c => (Cur(d))' = Cur(d)
    BY GoStep
<1>2. TypeOK'
    BY <1>1 DEF Inv, TypeOK, FrameSet
<1>3. Masked'
    BY <1>1 DEF Inv, Masked
<1>4. Depth'
    BY <1>1 DEF Inv, Depth, Held
<1>5. Word'
    BY <1>1 DEF Inv, Word
<1> QED
    BY <1>1, <1>2, <1>3, <1>4, <1>5 DEF Inv

(***************************************************************************)
(* The steps of bkl_enter and bkl_leave, and the ones that lead to them.   *)
(***************************************************************************)
LEMMA LockSteps ==
    ASSUME Inv, NEW c \in CPUs,
           Enter(c) \/ TryLock(c) \/ Inc(c) \/ Done(c) \/ Leave(c) \/ Dec(c)
             \/ Unlock(c) \/ EndIdle(c)
    PROVE  Inv'
<1> USE BklAssumption
<1>1. /\ Cur(c).pc \in PcOf(Cur(c).kind)
      /\ Cur(c).lvl \in 0..(MaxNest - 1)
      /\ Cur(c).fl \in BOOLEAN /\ Cur(c).kind \in Kinds
      /\ Cur(c).kind \in {"user", "loop"} => Cur(c).lvl = 0
    BY CurFacts DEF FrameSet
<1>2. /\ bkl_depth[c] = Held(Cur(c))
      /\ Cur(c).pc \in {"try", "unlock"} => bkl_depth[c] = 0
      /\ g_bkl = c <=> (bkl_depth[c] > 0 \/ Cur(c).pc \in {"inc", "unlock"})
      /\ Cur(c).pc \in Crit => IF_[c] = FALSE
    BY DEF Inv, Depth, Word, Masked
<1>3. /\ g_bkl \in CPUs \cup {NoCPU} /\ bkl_depth \in [CPUs -> 0..MaxNest]
      /\ IF_ \in [CPUs -> BOOLEAN] /\ IF_[c] \in BOOLEAN
    BY DEF Inv, TypeOK
<1>4. CASE Enter(c)
  <2> DEFINE p == IF bkl_depth[c] = 0 THEN "try" ELSE "inc"
  <2>1. p \in PcOf(Cur(c).kind) /\ Cur(c).pc = "enter" /\ Go(c, p, IF_[c])
      BY <1>1, <1>4 DEF Enter, At, PcOf
  <2>2. p \in {"try", "inc"} /\ (p = "try" <=> bkl_depth[c] = 0)
      OBVIOUS
  <2> HIDE DEF p
  <2>3. IF_' = [IF_ EXCEPT ![c] = FALSE] /\ UNCHANGED <<g_bkl, bkl_depth, running, p_depth, sp>>
      BY <1>4 DEF Enter
  <2>4. bkl_depth[c] = Cur(c).lvl
      BY <1>2, <2>1 DEF Held
  <2>a. FlagOK(c, p)
      BY <1>3, <2>3 DEF FlagOK
  <2>b. DepthOK(c, p)
      BY <1>3, <2>2, <2>3, <2>4 DEF DepthOK
  <2>c. WordOK(c, p)
      BY <1>1, <1>2, <1>3, <2>1, <2>2, <2>3 DEF WordOK, Held
  <2> QED
      BY <1>1, <1>2, <1>3, <2>1, <2>2, <2>3, <2>a, <2>b, <2>c, GoInv
<1>5. CASE TryLock(c)
  <2>1. "inc" \in PcOf(Cur(c).kind) /\ Cur(c).pc = "try" /\ Go(c, "inc", Cur(c).fl)
      BY <1>1, <1>5 DEF TryLock, At, PcOf
  <2>2. g_bkl = NoCPU /\ g_bkl' = c /\ UNCHANGED <<IF_, bkl_depth, running, p_depth, sp>>
      BY <1>5 DEF TryLock
  <2>a. FlagOK(c, "inc")
      BY <1>1, <1>2, <1>3, <2>1, <2>2 DEF FlagOK, Held, Crit
  <2>b. DepthOK(c, "inc")
      BY <1>1, <1>2, <1>3, <2>1, <2>2 DEF DepthOK, Held, Crit
  <2>c. WordOK(c, "inc")
      BY <1>1, <1>2, <1>3, <2>1, <2>2 DEF WordOK, Held, Crit
  <2> QED
      BY <1>1, <1>2, <1>3, <2>1, <2>2, <2>a, <2>b, <2>c, GoInv
<1>6. CASE Inc(c)
  <2> DEFINE p == AfterEnter(Cur(c).kind)
  <2>1. p \in PcOf(Cur(c).kind) /\ Cur(c).pc = "inc" /\ Go(c, p, FALSE)
      BY <1>1, <1>6 DEF Inc, At, PcOf, AfterEnter
  <2>2. p \in {"sched", "body"}
      BY DEF AfterEnter
  <2> HIDE DEF p
  <2>3. /\ IF_' = [IF_ EXCEPT ![c] = Cur(c).fl]
        /\ bkl_depth' = [bkl_depth EXCEPT ![c] = bkl_depth[c] + 1]
        /\ UNCHANGED <<g_bkl, running, p_depth, sp>>
      BY <1>6 DEF Inc
  <2>4. bkl_depth[c] = Cur(c).lvl /\ g_bkl = c
      BY <1>2, <2>1 DEF Held
  <2>5. IF_' \in [CPUs -> BOOLEAN] /\ \A d \in CPUs : d # c => IF_'[d] = IF_[d]
      BY <1>1, <1>3, <2>3
  <2>a. FlagOK(c, p)
      BY <1>1, <1>3, <2>1, <2>2, <2>3, <2>4, <2>5 DEF FlagOK, Crit
  <2>b. DepthOK(c, p)
      BY <1>1, <1>3, <2>1, <2>2, <2>3, <2>4, <2>5 DEF DepthOK, Crit
  <2>c. WordOK(c, p)
      BY <1>1, <1>3, <2>1, <2>2, <2>3, <2>4, <2>5 DEF WordOK, Crit
  <2> QED
      BY <1>1, <1>3, <2>1, <2>2, <2>3, <2>4, <2>5, <2>a, <2>b, <2>c, GoInv
<1>7. CASE Done(c)
  <2>1. "leave" \in PcOf(Cur(c).kind) /\ Cur(c).pc \in {"body", "sched"} /\ Go(c, "leave", FALSE)
      BY <1>1, <1>7 DEF Done, At, PcOf
  <2>2. UNCHANGED <<g_bkl, bkl_depth, running, p_depth, sp>>
      BY <1>7 DEF Done
  <2>3. IF_' = [IF_ EXCEPT ![c] = IF_[c] /\ ~At(c, "sched")]
      BY <1>7 DEF Done
  <2>4. (IF_[c] /\ ~At(c, "sched")) \in BOOLEAN
      OBVIOUS
  <2>5. IF_' \in [CPUs -> BOOLEAN] /\ \A d \in CPUs : d # c => IF_'[d] = IF_[d]
      BY <1>3, <2>3, <2>4
  <2>a. FlagOK(c, "leave")
      BY <1>1, <1>2, <1>3, <2>1, <2>2, <2>5 DEF FlagOK, Held, Crit
  <2>b. DepthOK(c, "leave")
      BY <1>1, <1>2, <1>3, <2>1, <2>2, <2>5 DEF DepthOK, Held, Crit
  <2>c. WordOK(c, "leave")
      BY <1>1, <1>2, <1>3, <2>1, <2>2, <2>5 DEF WordOK, Held, Crit
  <2> QED
      BY <1>1, <1>2, <1>3, <2>1, <2>2, <2>5, <2>a, <2>b, <2>c, GoInv
<1>8. CASE Leave(c)
  <2>1. Cur(c).pc = "leave" /\ "dec" \in PcOf(Cur(c).kind)
      BY <1>1, <1>8 DEF Leave, At, PcOf
  <2>2. bkl_depth[c] > 0 /\ bkl_depth[c] = Cur(c).lvl + 1
      BY <1>1, <1>2, <2>1 DEF Held
  <2>3. Go(c, "dec", IF_[c]) /\ IF_' = [IF_ EXCEPT ![c] = FALSE]
      BY <1>8, <2>2 DEF Leave
  <2>4. UNCHANGED <<g_bkl, bkl_depth, running, p_depth, sp>>
      BY <1>8 DEF Leave
  <2>a. FlagOK(c, "dec")
      BY <1>1, <1>2, <1>3, <2>1, <2>2, <2>3, <2>4 DEF FlagOK
  <2>b. DepthOK(c, "dec")
      BY <1>1, <1>2, <1>3, <2>1, <2>2, <2>3, <2>4 DEF DepthOK
  <2>c. WordOK(c, "dec")
      BY <1>1, <1>2, <1>3, <2>1, <2>2, <2>3, <2>4 DEF WordOK
  <2> QED
      BY <1>1, <1>2, <1>3, <2>1, <2>2, <2>3, <2>4, <2>a, <2>b, <2>c, GoInv
<1>9. CASE Dec(c)
  <2>1. /\ Cur(c).pc = "dec" /\ "unlock" \in PcOf(Cur(c).kind)
        /\ AfterLeave(Cur(c).kind) \in PcOf(Cur(c).kind)
      BY <1>1, <1>9 DEF Dec, At, PcOf, AfterLeave
  <2>2. bkl_depth[c] = Cur(c).lvl + 1 /\ g_bkl = c
      BY <1>1, <1>2, <2>1 DEF Held
  <2>3. /\ bkl_depth' = [bkl_depth EXCEPT ![c] = bkl_depth[c] - 1]
        /\ UNCHANGED <<g_bkl, running, p_depth, sp>>
      BY <1>9 DEF Dec
  <2>4. CASE bkl_depth[c] = 1
    <3>1. Go(c, "unlock", Cur(c).fl) /\ IF_' = IF_
        BY <1>9, <2>4 DEF Dec
    <3>a. FlagOK(c, "unlock")
        BY <1>1, <1>2, <1>3, <2>1, <2>2, <2>3, <2>4, <3>1 DEF FlagOK, Crit
    <3>b. DepthOK(c, "unlock")
        BY <1>1, <1>2, <1>3, <2>1, <2>2, <2>3, <2>4, <3>1 DEF DepthOK, Crit
    <3>c. WordOK(c, "unlock")
        BY <1>1, <1>2, <1>3, <2>1, <2>2, <2>3, <2>4, <3>1 DEF WordOK, Crit
    <3> QED
        BY <1>1, <1>2, <1>3, <2>1, <2>2, <2>3, <2>4, <3>1, <3>a, <3>b, <3>c, GoInv
  <2>5. CASE bkl_depth[c] # 1
    <3> DEFINE p == AfterLeave(Cur(c).kind)
    <3>1. Go(c, p, FALSE) /\ IF_' = [IF_ EXCEPT ![c] = Cur(c).fl]
        BY <1>9, <2>5 DEF Dec
    <3>2. Cur(c).lvl # 0
        BY <2>2, <2>5
    <3>3. p \in {"iret", "idle", "user"}
        BY DEF AfterLeave
    <3>4. IF_' \in [CPUs -> BOOLEAN] /\ \A d \in CPUs : d # c => IF_'[d] = IF_[d]
        BY <1>1, <1>3, <3>1
    <3> HIDE DEF p
    <3>5. p \in PcOf(Cur(c).kind)
        BY <2>1 DEF p
    <3>a. FlagOK(c, p)
        BY <1>1, <1>3, <2>2, <2>3, <3>1, <3>2, <3>3, <3>4, <3>5 DEF FlagOK, Crit
    <3>b. DepthOK(c, p)
        BY <1>1, <1>3, <2>2, <2>3, <3>1, <3>2, <3>3, <3>4, <3>5 DEF DepthOK, Crit
    <3>c. WordOK(c, p)
        BY <1>1, <1>3, <2>2, <2>3, <3>1, <3>2, <3>3, <3>4, <3>5 DEF WordOK, Crit
    <3> QED
        BY <1>1, <1>3, <2>2, <2>3, <3>1, <3>2, <3>3, <3>4, <3>5, <3>a, <3>b, <3>c, GoInv
  <2> QED
      BY <2>4, <2>5
<1>10. CASE Unlock(c)
  <2> DEFINE p == AfterLeave(Cur(c).kind)
  <2>1. Cur(c).pc = "unlock" /\ p \in PcOf(Cur(c).kind) /\ Go(c, p, FALSE)
      BY <1>1, <1>10 DEF Unlock, At, PcOf, AfterLeave
  <2>2. p \in {"iret", "idle", "user"}
      BY DEF AfterLeave
  <2> HIDE DEF p
  <2>3. /\ g_bkl' = NoCPU /\ IF_' = [IF_ EXCEPT ![c] = Cur(c).fl]
        /\ UNCHANGED <<bkl_depth, running, p_depth, sp>>
      BY <1>10 DEF Unlock
  <2>4. IF_' \in [CPUs -> BOOLEAN] /\ \A d \in CPUs : d # c => IF_'[d] = IF_[d]
      BY <1>1, <1>3, <2>3
  <2>5. g_bkl = c /\ bkl_depth[c] = 0 /\ Cur(c).lvl = 0
      BY <1>1, <1>2, <2>1 DEF Held
  <2>a. FlagOK(c, p)
      BY <1>1, <1>3, <2>1, <2>2, <2>3, <2>4, <2>5 DEF FlagOK, Crit
  <2>b. DepthOK(c, p)
      BY <1>1, <1>3, <2>1, <2>2, <2>3, <2>4, <2>5 DEF DepthOK, Crit
  <2>c. WordOK(c, p)
      BY <1>1, <1>3, <2>1, <2>2, <2>3, <2>4, <2>5 DEF WordOK, Crit
  <2> QED
      BY <1>1, <1>3, <2>1, <2>2, <2>3, <2>4, <2>5, <2>a, <2>b, <2>c, GoInv
<1>11. CASE EndIdle(c)
  <2>1. Cur(c).pc = "idle" /\ "enter" \in PcOf(Cur(c).kind) /\ Go(c, "enter", FALSE)
      BY <1>1, <1>11 DEF EndIdle, At, PcOf
  <2>2. IF_' = [IF_ EXCEPT ![c] = TRUE] /\ UNCHANGED <<g_bkl, bkl_depth, running, p_depth, sp>>
      BY <1>11 DEF EndIdle
  <2>a. FlagOK(c, "enter")
      BY <1>1, <1>2, <1>3, <2>1, <2>2 DEF FlagOK, Held, Crit
  <2>b. DepthOK(c, "enter")
      BY <1>1, <1>2, <1>3, <2>1, <2>2 DEF DepthOK, Held, Crit
  <2>c. WordOK(c, "enter")
      BY <1>1, <1>2, <1>3, <2>1, <2>2 DEF WordOK, Held, Crit
  <2> QED
      BY <1>1, <1>2, <1>3, <2>1, <2>2, <2>a, <2>b, <2>c, GoInv
<1> QED
    BY <1>4, <1>5, <1>6, <1>7, <1>8, <1>9, <1>10, <1>11

(***************************************************************************)
(* A trap is taken only where the frame it interrupts is outside the       *)
(* instructions between the lock word and the depth.                       *)
(***************************************************************************)
LEMMA PushInv ==
    ASSUME Inv, NEW c \in CPUs, NEW k \in {"trap", "irq"}, Push(c, k),
           Cur(c).pc \notin Crit,
           UNCHANGED <<g_bkl, bkl_depth, running, p_depth>>,
           IF_' \in [CPUs -> BOOLEAN],
           \A d \in CPUs : d # c => IF_'[d] = IF_[d]
    PROVE  Inv'
<1> USE BklAssumption
<1> DEFINE x == running[c]
           n == sp[x]
           F == Frame(k, "enter", FALSE, IF_[c], bkl_depth[c])
<1>1. /\ x \in Ctxs /\ n \in 1..MaxNest /\ n < MaxNest /\ n + 1 \in 1..MaxNest
      /\ sp \in [Ctxs -> 1..MaxNest]
  <2>1. x \in Ctxs /\ n \in 1..MaxNest /\ sp \in [Ctxs -> 1..MaxNest]
      BY DEF Inv, TypeOK
  <2>2. n < MaxNest
      BY DEF Push
  <2> QED
      BY <2>1, <2>2
<1>2. stk \in [Ctxs -> [1..MaxNest -> FrameSet]]
    BY DEF Inv, TypeOK, FrameSet
<1>3. F \in FrameSet
    BY DEF Inv, TypeOK, FrameSet, Frame, Kinds, PCs
<1>4. stk' = [stk EXCEPT ![x][n + 1] = F] /\ sp' = [sp EXCEPT ![x] = n + 1]
    BY DEF Push
<1>5. F.kind = k /\ F.pc = "enter" /\ F.lvl = bkl_depth[c]
    BY DEF Frame
<1>0. /\ bkl_depth[c] = Held(stk[x][n]) /\ stk[x][n].lvl < n
      /\ stk[x][n].pc \notin Crit /\ stk[x][n] \in FrameSet
    BY CurFacts DEF Inv, Depth, Cur, Top
<1> HIDE DEF F
<1>6. stk' \in [Ctxs -> [1..MaxNest -> FrameSet]] /\ sp' \in [Ctxs -> 1..MaxNest]
    BY <1>1, <1>2, <1>3, <1>4
<1>7. /\ stk'[x][n + 1] = F /\ sp'[x] = n + 1
      /\ \A y \in Ctxs, i \in 1..MaxNest : (y # x \/ i # n + 1) => stk'[y][i] = stk[y][i]
      /\ \A y \in Ctxs : y # x => sp'[y] = sp[y]
    BY <1>1, <1>2, <1>4
<1>8. \A d \in CPUs : d # c => running[d] \in Ctxs /\ running[d] # x
    BY DEF Inv, TypeOK, Runs
<1>9. \A d \in CPUs : d # c => (Cur(d))' = Cur(d)
    BY <1>1, <1>7, <1>8 DEF Cur, Top
<1>10. (Cur(c))' = F
    BY <1>7 DEF Cur, Top
<1>11. TypeOK'
    BY <1>6 DEF Inv, TypeOK, FrameSet
<1>12. Chain'
  <2> SUFFICES ASSUME NEW y \in Ctxs, NEW i \in 1..(sp'[y])
               PROVE  FrameOK(y, i)'
      BY DEF Chain
  <2>0. sp'[y] \in 1..MaxNest /\ i \in 1..MaxNest
      BY <1>6
  <2>1. CASE y = x /\ i = n + 1
    <3>1. stk'[y][i] = F /\ i > 1 /\ i - 1 = n /\ stk'[y][i - 1] = stk[x][n] /\ i = sp'[y]
        BY <2>1, <1>1, <1>7
    <3>2. F.lvl < i
        BY <3>1, <1>0, <1>1, <1>5 DEF Held, FrameSet
    <3>3. F.pc \in PcOf(F.kind)
        BY <1>5 DEF PcOf
    <3> QED
        BY <3>1, <3>2, <3>3, <1>0, <1>5 DEF FrameOK
  <2>2. CASE ~(y = x /\ i = n + 1)
    <3>1. i \in 1..sp[y] /\ (i < sp'[y] => i < sp[y] \/ (y = x /\ i = n))
        BY <2>0, <2>2, <1>1, <1>7
    <3>2. FrameOK(y, i) /\ stk'[y][i] = stk[y][i]
        BY <2>0, <2>2, <3>1, <1>7 DEF Inv, Chain
    <3>3. i > 1 => i - 1 \in 1..MaxNest /\ stk'[y][i - 1] = stk[y][i - 1]
      <4>1. y = x => i <= n
          BY <3>1
      <4> QED
          BY <2>0, <4>1, <1>1, <1>7
    <3> QED
        BY <3>1, <3>2, <3>3, <1>0 DEF FrameOK, Held
  <2> QED
      BY <2>1, <2>2
<1>13. Runs'
    BY DEF Inv, Runs
<1>14. Parked'
  <2>1. ASSUME NEW d \in CPUs, running[d] # d
        PROVE  sp'[d] = 1 /\ stk'[d][1].pc = "sched"
    <3>1. d # x /\ d \in Ctxs /\ 1 \in 1..MaxNest
        BY <2>1 DEF Inv, Runs, Ctxs
    <3> QED
        BY <2>1, <3>1, <1>7 DEF Inv, Parked
  <2>2. ASSUME NEW t \in Threads, \A d \in CPUs : running[d] # t
        PROVE  sp'[t] = sp[t] /\ stk'[t][sp[t]] = stk[t][sp[t]]
    <3>1. t # x /\ t \in Ctxs
        BY <2>2 DEF Ctxs
    <3> QED
        BY <3>1, <1>1, <1>7
  <2> QED
      BY <2>1, <2>2 DEF Inv, Parked, Top
<1>15. Masked'
    BY <1>5, <1>9, <1>10 DEF Inv, Masked, Crit
<1>16. Depth'
    BY <1>5, <1>9, <1>10 DEF Inv, Depth, Held
<1>17. Word'
  <2>1. ~(Cur(c).pc \in {"inc", "unlock"}) /\ ~(F.pc \in {"inc", "unlock"})
      BY <1>5 DEF Crit
  <2> QED
      BY <2>1, <1>9, <1>10 DEF Inv, Word
<1> QED
    BY <1>11, <1>12, <1>13, <1>14, <1>15, <1>16, <1>17 DEF Inv

LEMMA TrapSteps ==
    ASSUME Inv, NEW c \in CPUs, Syscall(c) \/ Fault(c) \/ Irq(c)
    PROVE  Inv'
<1>1. IF_ \in [CPUs -> BOOLEAN]
    BY DEF Inv, TypeOK
<1>2. Cur(c).pc \in Crit => IF_[c] = FALSE
    BY DEF Inv, Masked
<1>3. CASE Syscall(c)
  <2>1. Cur(c).pc \notin Crit /\ Push(c, "trap")
      BY <1>3 DEF Syscall, At, Crit
  <2> QED
      BY <1>1, <1>3, <2>1, PushInv DEF Syscall
<1>4. CASE Fault(c)
  <2>1. Cur(c).pc \notin Crit /\ Push(c, "trap")
      BY <1>4 DEF Fault, At, Crit
  <2> QED
      BY <1>1, <1>4, <2>1, PushInv DEF Fault
<1>5. CASE Irq(c)
  <2>1. Cur(c).pc \notin Crit /\ Push(c, "irq")
      BY <1>2, <1>5 DEF Irq
  <2> QED
      BY <1>1, <1>5, <2>1, PushInv DEF Irq
<1> QED
    BY <1>3, <1>4, <1>5

(***************************************************************************)
(* iret drops a frame that holds nothing: the depth is the one the frame   *)
(* below expects.                                                          *)
(***************************************************************************)
LEMMA IretInv == ASSUME Inv, NEW c \in CPUs, Iret(c) PROVE Inv'
<1> USE BklAssumption
<1> DEFINE x == running[c]
           n == sp[x]
<1>0. Cur(c).pc = "iret" /\ stk[x][n].pc = "iret"
    BY DEF Iret, At, Cur, Top
<1>1. x \in Ctxs /\ n \in 1..MaxNest /\ sp \in [Ctxs -> 1..MaxNest]
    BY DEF Inv, TypeOK
<1>2. n > 1 /\ n - 1 \in 1..MaxNest
  <2>1. Cur(c).kind \notin {"user", "loop"}
      BY <1>0, CurFacts DEF PcOf
  <2>2. FrameOK(x, n)
      BY <1>1 DEF Inv, Chain
  <2>3. n # 1
      BY <2>1, <2>2 DEF FrameOK, Cur, Top
  <2> QED
      BY <2>3, <1>1
<1>3. stk \in [Ctxs -> [1..MaxNest -> FrameSet]]
    BY DEF Inv, TypeOK, FrameSet
<1>4. stk' = [stk EXCEPT ![x][n] = Blank] /\ sp' = [sp EXCEPT ![x] = n - 1]
    BY DEF Iret
<1>5. Blank \in FrameSet
    BY DEF Blank, Frame, FrameSet, Kinds, PCs
<1>6. stk' \in [Ctxs -> [1..MaxNest -> FrameSet]] /\ sp' \in [Ctxs -> 1..MaxNest]
    BY <1>1, <1>2, <1>3, <1>4, <1>5
<1>7. /\ sp'[x] = n - 1
      /\ \A y \in Ctxs, i \in 1..MaxNest : (y # x \/ i # n) => stk'[y][i] = stk[y][i]
      /\ \A y \in Ctxs : y # x => sp'[y] = sp[y]
    BY <1>1, <1>3, <1>4
<1>8. UNCHANGED <<g_bkl, bkl_depth, running, p_depth>>
    BY DEF Iret
<1>9. IF_' \in [CPUs -> BOOLEAN] /\ \A d \in CPUs : d # c => IF_'[d] = IF_[d]
  <2>1. Cur(c).ret \in BOOLEAN /\ IF_ \in [CPUs -> BOOLEAN]
      BY CurFacts DEF Inv, TypeOK, FrameSet
  <2>2. IF_' = [IF_ EXCEPT ![c] = Cur(c).ret]
      BY DEF Iret
  <2> QED
      BY <2>1, <2>2
<1>10. \A d \in CPUs : d # c => (Cur(d))' = Cur(d)
  <2>1. \A d \in CPUs : d # c => running[d] \in Ctxs /\ running[d] # x
      BY DEF Inv, TypeOK, Runs
  <2> QED
      BY <2>1, <1>1, <1>7, <1>8 DEF Cur, Top
<1>11. /\ (Cur(c))' = stk[x][n - 1]
       /\ stk[x][n].lvl = Held(stk[x][n - 1])
       /\ stk[x][n - 1].pc \notin Crit
  <2>1. FrameOK(x, n) /\ FrameOK(x, n - 1)
      BY <1>1, <1>2 DEF Inv, Chain
  <2>2. stk'[x][n - 1] = stk[x][n - 1]
      BY <1>1, <1>2, <1>7
  <2>3. (Cur(c))' = stk[x][n - 1]
      BY <2>2, <1>7, <1>8 DEF Cur, Top
  <2> QED
      BY <2>1, <2>3, <1>1, <1>2 DEF FrameOK
<1>12. TypeOK'
    BY <1>6, <1>8, <1>9 DEF Inv, TypeOK, FrameSet
<1>13. Chain'
  <2> SUFFICES ASSUME NEW y \in Ctxs, NEW i \in 1..(sp'[y])
               PROVE  FrameOK(y, i)'
      BY DEF Chain
  <2>0. sp'[y] \in 1..MaxNest /\ i \in 1..MaxNest /\ sp'[y] <= sp[y] /\ i \in 1..sp[y]
      BY <1>1, <1>2, <1>6, <1>7
  <2>1. FrameOK(y, i) /\ (y # x \/ i # n)
      BY <2>0, <1>1, <1>2, <1>7 DEF Inv, Chain
  <2>2. stk'[y][i] = stk[y][i]
      BY <2>0, <2>1, <1>7
  <2>3. i > 1 => i - 1 \in 1..MaxNest /\ stk'[y][i - 1] = stk[y][i - 1]
    <3>1. y = x => i - 1 # n
        BY <2>0, <1>1, <1>2
    <3> QED
        BY <2>0, <3>1, <1>7
  <2>4. i < sp'[y] => i < sp[y]
      BY <2>0, <1>1
  <2> QED
      BY <2>1, <2>2, <2>3, <2>4 DEF FrameOK, Held
<1>14. Runs'
    BY <1>8 DEF Inv, Runs
<1>15. Parked'
  <2>1. ASSUME NEW d \in CPUs, running[d] # d
        PROVE  sp'[d] = 1 /\ stk'[d][1].pc = "sched"
    <3>1. d # x /\ d \in Ctxs /\ 1 \in 1..MaxNest
        BY <2>1 DEF Inv, Runs, Ctxs
    <3> QED
        BY <2>1, <3>1, <1>7 DEF Inv, Parked
  <2>2. ASSUME NEW t \in Threads, \A d \in CPUs : running[d] # t
        PROVE  sp'[t] = sp[t] /\ stk'[t][sp[t]] = stk[t][sp[t]]
    <3>1. t # x /\ t \in Ctxs
        BY <2>2 DEF Ctxs
    <3> QED
        BY <3>1, <1>1, <1>7
  <2> QED
      BY <2>1, <2>2, <1>8 DEF Inv, Parked, Top
<1>16. bkl_depth[c] = stk[x][n].lvl
    BY <1>0 DEF Inv, Depth, Held, Cur, Top
<1>17. Masked'
    BY <1>8, <1>9, <1>10, <1>11 DEF Inv, Masked
<1>18. Depth'
    BY <1>8, <1>10, <1>11, <1>16 DEF Inv, Depth, Crit
<1>19. Word'
  <2>1. ~(Cur(c).pc \in {"inc", "unlock"}) /\ ~((Cur(c).pc)' \in {"inc", "unlock"})
      BY <1>0, <1>11 DEF Crit
  <2> QED
      BY <2>1, <1>8, <1>10 DEF Inv, Word
<1> QED
    BY <1>12, <1>13, <1>14, <1>15, <1>17, <1>18, <1>19 DEF Inv

(* The idle halt only changes the interrupt flag.                          *)
LEMMA HaltInv == ASSUME Inv, NEW c \in CPUs, Halt(c) PROVE Inv'
<1>1. /\ UNCHANGED <<g_bkl, bkl_depth, running, p_depth, sp, stk>>
      /\ Cur(c).pc = "idle"
    BY DEF Halt, At
<1>2. IF_' \in [CPUs -> BOOLEAN] /\ \A d \in CPUs : d # c => IF_'[d] = IF_[d]
    BY DEF Halt, Inv, TypeOK
<1>3. TypeOK'
    BY <1>1, <1>2 DEF Inv, TypeOK
<1>4. Masked'
    BY <1>1, <1>2 DEF Inv, Masked, Cur, Top, Crit
<1>5. Chain' /\ Runs' /\ Parked'
    BY <1>1 DEF Inv, Chain, FrameOK, Held, Runs, Parked, Top
<1>6. Depth' /\ Word'
    BY <1>1 DEF Inv, Depth, Word, Cur, Top, Held
<1> QED
    BY <1>3, <1>4, <1>5, <1>6 DEF Inv

(***************************************************************************)
(* The scheduler takes the thread's depth away and goes on at its own.     *)
(***************************************************************************)
LEMMA SwitchOutInv == ASSUME Inv, NEW c \in CPUs, SwitchOut(c) PROVE Inv'
<1> USE BklAssumption
<1> DEFINE x == running[c]
<1>1. x \in Threads /\ x # c /\ Cur(c).pc = "body" /\ Top(x).pc = "body"
    BY DEF SwitchOut, MaySwitch, At, Cur
<1>2. /\ p_depth' = [p_depth EXCEPT ![x] = bkl_depth[c]]
      /\ bkl_depth' = [bkl_depth EXCEPT ![c] = 1]
      /\ running' = [running EXCEPT ![c] = c]
      /\ IF_' = [IF_ EXCEPT ![c] = TRUE]
      /\ UNCHANGED <<g_bkl, sp, stk>>
    BY DEF SwitchOut
<1>3. sp[c] = 1 /\ stk[c][1].pc = "sched" /\ stk[c][1].lvl = 0 /\ c \in Ctxs
  <2>1. sp[c] = 1 /\ stk[c][1].pc = "sched" /\ c \in Ctxs
      BY <1>1 DEF Inv, Parked, Ctxs
  <2>2. FrameOK(c, 1)
      BY <2>1 DEF Inv, Chain
  <2> QED
      BY <2>1, <2>2 DEF FrameOK
<1>4. TypeOK'
  <2>1. 1 \in 0..MaxNest /\ bkl_depth[c] \in 0..MaxNest
      BY DEF Inv, TypeOK
  <2>2. bkl_depth' \in [CPUs -> 0..MaxNest] /\ p_depth' \in [Threads -> 0..MaxNest]
      BY <1>1, <1>2, <2>1 DEF Inv, TypeOK
  <2>3. running' \in [CPUs -> Ctxs] /\ IF_' \in [CPUs -> BOOLEAN]
      BY <1>2, <1>3 DEF Inv, TypeOK
  <2> QED
      BY <1>2, <2>2, <2>3 DEF Inv, TypeOK
<1>5. running'[c] = c /\ \A d \in CPUs : d # c => running'[d] = running[d]
    BY <1>2 DEF Inv, TypeOK
<1>6. Runs'
    BY <1>5 DEF Inv, Runs
<1>7. Chain'
    BY <1>2 DEF Inv, Chain, FrameOK, Held
<1>8. bkl_depth[c] = Held(Top(x)) /\ bkl_depth[c] > 0
  <2>1. bkl_depth[c] = Held(Top(x))
      BY DEF Inv, Depth, Cur
  <2>2. Top(x).lvl \in Nat
      BY CurFacts DEF Cur, FrameSet
  <2> QED
      BY <2>1, <2>2, <1>1 DEF Held
<1>9. Parked'
  <2>1. ASSUME NEW d \in CPUs, running'[d] # d
        PROVE  sp[d] = 1 /\ stk[d][1].pc = "sched"
      BY <2>1, <1>5 DEF Inv, Parked
  <2>2. ASSUME NEW t \in Threads, \A d \in CPUs : running'[d] # t
        PROVE  /\ Top(t).pc = "body"
               /\ p_depth'[t] = Held(Top(t)) \/ (p_depth'[t] = 0 /\ sp[t] = 1)
    <3>1. CASE t = x
        BY <3>1, <1>1, <1>2, <1>8 DEF Inv, TypeOK
    <3>2. CASE t # x
      <4>1. (\A d \in CPUs : running[d] # t) /\ p_depth'[t] = p_depth[t]
          BY <2>2, <3>2, <1>2, <1>5 DEF Inv, TypeOK
      <4> QED
          BY <4>1 DEF Inv, Parked
    <3> QED
        BY <3>1, <3>2
  <2>3. \A t \in Threads : (Top(t))' = Top(t) /\ (Held(Top(t)))' = Held(Top(t))
      BY <1>2 DEF Top, Held
  <2> QED
      BY <2>1, <2>2, <2>3, <1>2 DEF Parked
<1>10. (Cur(c))' = stk[c][1] /\ \A d \in CPUs : d # c => (Cur(d))' = Cur(d)
    BY <1>2, <1>3, <1>5 DEF Cur, Top
<1>11. /\ bkl_depth'[c] = 1
       /\ \A d \in CPUs : d # c => bkl_depth'[d] = bkl_depth[d] /\ IF_'[d] = IF_[d]
    BY <1>2 DEF Inv, TypeOK
<1>12. Masked'
    BY <1>3, <1>10, <1>11 DEF Inv, Masked, Crit
<1>13. Depth'
    BY <1>3, <1>10, <1>11 DEF Inv, Depth, Held
<1>14. Word'
    BY <1>2, <1>8, <1>10, <1>11 DEF Inv, Word
<1> QED
    BY <1>4, <1>6, <1>7, <1>9, <1>12, <1>13, <1>14 DEF Inv

LEMMA DispatchInv == ASSUME Inv, NEW c \in CPUs, NEW t \in Threads, Dispatch(c, t) PROVE Inv'
<1> USE BklAssumption
<1>1. running[c] = c /\ sp[c] = 1 /\ stk[c][1].pc = "sched"
  <2>1. Cur(c).pc = "sched"
      BY DEF Dispatch, At
  <2>2. Cur(c).kind = "loop"
      BY <2>1, CurFacts DEF PcOf, FrameSet, Kinds
  <2>3. sp[running[c]] = 1 /\ running[c] \in Ctxs
      BY <2>2, CurFacts
  <2>4. FrameOK(running[c], 1)
      BY <2>3 DEF Inv, Chain
  <2>5. running[c] \notin Threads
      BY <2>2, <2>3, <2>4 DEF FrameOK, Cur, Top
  <2> QED
      BY <2>1, <2>3, <2>5 DEF Inv, Runs, Cur, Top
<1>2. /\ running' = [running EXCEPT ![c] = t]
      /\ bkl_depth' = [bkl_depth EXCEPT ![c] = IF p_depth[t] > 0 THEN p_depth[t] ELSE 1]
      /\ IF_' = [IF_ EXCEPT ![c] = TRUE]
      /\ UNCHANGED <<g_bkl, p_depth, sp, stk>>
      /\ \A d \in CPUs : running[d] # t
    BY DEF Dispatch
<1>3. t \in Ctxs /\ t # c
    BY DEF Ctxs
<1>4. /\ Top(t).pc = "body" /\ Top(t).lvl \in Nat
      /\ p_depth[t] = Held(Top(t)) \/ (p_depth[t] = 0 /\ sp[t] = 1 /\ Top(t).lvl = 0)
  <2>1. Top(t).pc = "body" /\ (p_depth[t] = Held(Top(t)) \/ (p_depth[t] = 0 /\ sp[t] = 1))
      BY <1>2 DEF Inv, Parked
  <2>2. sp[t] \in 1..MaxNest
      BY <1>3 DEF Inv, TypeOK
  <2>5. Top(t) \in FrameSet
      BY <1>3, <2>2, SMTT(20) DEF Inv, TypeOK, Top, FrameSet
  <2>3. Top(t).lvl \in Nat
      BY <2>5 DEF FrameSet
  <2>4. sp[t] = 1 => Top(t).lvl = 0
      BY <1>3, <2>2 DEF Inv, Chain, FrameOK, Top
  <2> QED
      BY <2>1, <2>3, <2>4
<1>5. bkl_depth'[c] = Held(Top(t)) /\ bkl_depth'[c] > 0
  <2>1. bkl_depth'[c] = IF p_depth[t] > 0 THEN p_depth[t] ELSE 1
      BY <1>2 DEF Inv, TypeOK
  <2>2. Held(Top(t)) = Top(t).lvl + 1
      BY <1>4 DEF Held
  <2>3. CASE p_depth[t] = Held(Top(t))
      BY <2>1, <2>2, <2>3, <1>4
  <2>4. CASE p_depth[t] = 0 /\ Top(t).lvl = 0
      BY <2>1, <2>2, <2>4
  <2> QED
      BY <2>3, <2>4, <1>4
<1>6. /\ running'[c] = t
      /\ \A d \in CPUs : d # c => /\ running'[d] = running[d]
                                  /\ bkl_depth'[d] = bkl_depth[d] /\ IF_'[d] = IF_[d]
    BY <1>2 DEF Inv, TypeOK
<1>7. TypeOK'
  <2>1. (IF p_depth[t] > 0 THEN p_depth[t] ELSE 1) \in 0..MaxNest
      BY DEF Inv, TypeOK
  <2>2. bkl_depth' \in [CPUs -> 0..MaxNest]
      BY <1>2, <2>1 DEF Inv, TypeOK
  <2>3. running' \in [CPUs -> Ctxs] /\ IF_' \in [CPUs -> BOOLEAN]
      BY <1>2, <1>3 DEF Inv, TypeOK
  <2> QED
      BY <1>2, <2>2, <2>3 DEF Inv, TypeOK
<1>8. Runs'
    BY <1>2, <1>6 DEF Inv, Runs
<1>9. Chain'
    BY <1>2 DEF Inv, Chain, FrameOK, Held
<1>10. Parked'
  <2>1. ASSUME NEW d \in CPUs, running'[d] # d
        PROVE  sp[d] = 1 /\ stk[d][1].pc = "sched"
      BY <2>1, <1>1, <1>6 DEF Inv, Parked
  <2>2. ASSUME NEW u \in Threads, \A d \in CPUs : running'[d] # u
        PROVE  \A d \in CPUs : running[d] # u
      BY <2>2, <1>1, <1>6
  <2>3. \A u \in Threads : (Top(u))' = Top(u) /\ (Held(Top(u)))' = Held(Top(u))
      BY <1>2 DEF Top, Held
  <2> QED
      BY <2>1, <2>2, <2>3, <1>2 DEF Inv, Parked
<1>11. (Cur(c))' = Top(t) /\ \A d \in CPUs : d # c => (Cur(d))' = Cur(d)
    BY <1>2, <1>6 DEF Cur, Top
<1>12. Masked'
    BY <1>4, <1>6, <1>11 DEF Inv, Masked, Crit
<1>13. Depth'
  <2>1. (Held(Cur(c)))' = Held(Top(t))
      BY <1>11 DEF Held
  <2>2. \A d \in CPUs : d # c => (Held(Cur(d)))' = Held(Cur(d))
      BY <1>11 DEF Held
  <2> QED
      BY <2>1, <2>2, <1>4, <1>5, <1>6, <1>11 DEF Inv, Depth
<1>14. Word'
  <2>1. g_bkl = c
      BY <1>1 DEF Inv, Word, Depth, Held, Cur, Top, Chain, FrameOK, Ctxs
  <2> QED
      BY <2>1, <1>2, <1>5, <1>6, <1>11 DEF Inv, Word
<1> QED
    BY <1>7, <1>8, <1>9, <1>10, <1>12, <1>13, <1>14 DEF Inv

-----------------------------------------------------------------------------
LEMMA NextInv == Inv /\ [Next]_vars => Inv'
<1> SUFFICES ASSUME Inv, [Next]_vars PROVE Inv'
    OBVIOUS
<1>1. CASE Next
  <2>1. PICK c \in CPUs :
          \/ Syscall(c) \/ Fault(c) \/ Irq(c)
          \/ Enter(c) \/ TryLock(c) \/ Inc(c)
          \/ Done(c) \/ Leave(c) \/ Dec(c) \/ Unlock(c) \/ Iret(c)
          \/ Halt(c) \/ EndIdle(c) \/ SwitchOut(c)
          \/ \E t \in Threads : Dispatch(c, t)
      BY <1>1 DEF Next
  <2> QED
      BY <2>1, TrapSteps, LockSteps, IretInv, HaltInv, SwitchOutInv, DispatchInv
<1>2. CASE UNCHANGED vars
  <2>1. Chain' /\ Parked'
      BY <1>2 DEF vars, Inv, Chain, FrameOK, Held, Parked, Top
  <2>2. Depth' /\ Word' /\ Masked'
      BY <1>2 DEF vars, Inv, Depth, Word, Masked, Held, Cur, Top
  <2>3. TypeOK' /\ Runs'
      BY <1>2 DEF vars, Inv, TypeOK, Runs
  <2> QED
      BY <2>1, <2>2, <2>3 DEF Inv
<1> QED
    BY <1>1, <1>2

(***************************************************************************)
(* The invariant holds of every reachable state.                           *)
(***************************************************************************)
THEOREM BklInv == Spec => []Inv
    BY InitInv, NextInv, PTL DEF Spec

(***************************************************************************)
(* Every variable keeps its type; a depth never exceeds the frames on      *)
(* the kernel stack, whatever traps and switches came before.              *)
(***************************************************************************)
THEOREM TypeCorrect == Spec => []TypeOK
<1>1. Inv => TypeOK
    BY DEF Inv
<1> QED
    BY <1>1, BklInv, PTL

(***************************************************************************)
(* At most one CPU executes kernel code.                                   *)
(***************************************************************************)
THEOREM MutualExclusion == Spec => []Exclusion
<1>1. Inv => Exclusion
  <2> SUFFICES ASSUME Inv, NEW c \in CPUs, NEW d \in CPUs, InKernel(c), InKernel(d)
               PROVE  c = d
      BY DEF Exclusion
  <2>1. ASSUME NEW e \in CPUs, InKernel(e) PROVE g_bkl = e
    <3>1. Cur(e).lvl \in Nat
        BY CurFacts DEF FrameSet
    <3>2. bkl_depth[e] > 0
        BY <2>1, <3>1 DEF Inv, Depth, Held, InKernel
    <3> QED
        BY <3>2 DEF Inv, Word
  <2> QED
      BY <2>1
<1> QED
    BY <1>1, BklInv, PTL

(***************************************************************************)
(* No CPU spins for the lock while it holds it.                            *)
(***************************************************************************)
THEOREM SelfDeadlockFree == Spec => []NoSelfDeadlock
<1>1. Inv => NoSelfDeadlock
    BY DEF Inv, NoSelfDeadlock, Depth, Word, At
<1> QED
    BY <1>1, BklInv, PTL

(***************************************************************************)
(* User code and the idle loop run without the lock, at depth 0.           *)
(***************************************************************************)
THEOREM NeverHeldOutside == Spec => []LockFreeOutside
<1>1. Inv => LockFreeOutside
  <2> SUFFICES ASSUME Inv, NEW c \in CPUs, Cur(c).pc \in {"user", "idle"}
               PROVE  g_bkl # c /\ bkl_depth[c] = 0
      BY DEF LockFreeOutside, At
  <2>1. Cur(c).kind \in {"user", "loop"}
      BY CurFacts DEF PcOf, FrameSet, Kinds
  <2>2. Cur(c).lvl = 0
      BY <2>1, CurFacts
  <2>3. bkl_depth[c] = 0
      BY <2>2 DEF Inv, Depth, Held
  <2> QED
      BY <2>3 DEF Inv, Word
<1> QED
    BY <1>1, BklInv, PTL
=============================================================================
