----------------------------- MODULE LogProofs ------------------------------
(***************************************************************************)
(* Proofs about Log for every number of threads, blocks and values and     *)
(* every size of the log.                                                  *)
(***************************************************************************)
EXTENDS Log, FiniteSetTheorems, TLAPS

-----------------------------------------------------------------------------
(* Types and the reservation of log space *)

\* Subsets of the reservation slots are finite.
LEMMA SlotSetsFinite ==
  ASSUME NEW S \in SUBSET (Ops \X (1..MAXOPBLOCKS))
  PROVE  IsFiniteSet(S) /\ Cardinality(S) \in Nat
<1>1. IsFiniteSet(1..MAXOPBLOCKS)
  BY LogAssumption, FS_Interval
<1>2. IsFiniteSet(Ops \X (1..MAXOPBLOCKS))
  BY <1>1, LogAssumption, FS_Product, Zenon
<1>. QED
  BY <1>2, FS_Subset, FS_CardinalityType, Zenon

\* Sets of blocks and of threads are finite.
LEMMA BlockSetsFinite ==
  /\ \A S \in SUBSET Blocks : IsFiniteSet(S) /\ Cardinality(S) \in Nat
  /\ \A S \in SUBSET Ops : IsFiniteSet(S) /\ Cardinality(S) \in Nat
  BY LogAssumption, FS_Subset, FS_CardinalityType, Zenon

\* The slots of the calls in T are at most MAXOPBLOCKS for each of them.
LEMMA SlotsBound ==
  ASSUME NEW T \in SUBSET Ops, NEW S \in SUBSET (T \X (1..MAXOPBLOCKS))
  PROVE  Cardinality(S) <= Cardinality(T) * MAXOPBLOCKS
<1>1. IsFiniteSet(1..MAXOPBLOCKS) /\ Cardinality(1..MAXOPBLOCKS) = MAXOPBLOCKS
  BY LogAssumption, FS_Interval
<1>2. IsFiniteSet(T)
  BY BlockSetsFinite, Zenon
<1>3. /\ IsFiniteSet(T \X (1..MAXOPBLOCKS))
      /\ Cardinality(T \X (1..MAXOPBLOCKS)) = Cardinality(T) * MAXOPBLOCKS
  BY <1>1, <1>2, FS_Product, Zenon
<1>. QED
  BY <1>3, FS_Subset, Zenon

\* A call that has used at most OpBlocks slots holds the remaining ones.
LEMMA SlotsLeft ==
  ASSUME NEW op \in Ops, NEW S \in SUBSET (Ops \X (1..MAXOPBLOCKS)),
         {op} \X ((OpBlocks + 1)..MAXOPBLOCKS) \subseteq S
  PROVE  Cardinality(S) >= MAXOPBLOCKS - OpBlocks
<1> DEFINE I == (OpBlocks + 1)..MAXOPBLOCKS
<1>1. IsFiniteSet(I) /\ Cardinality(I) = MAXOPBLOCKS - OpBlocks
  BY LogAssumption, FS_Interval
<1>2. IsFiniteSet({op}) /\ Cardinality({op}) = 1
  BY FS_Singleton, Zenon
<1> HIDE DEF I
<1>3. Cardinality({op} \X I) = Cardinality({op}) * Cardinality(I)
  BY <1>1, <1>2, FS_Product, Zenon
<1>4. IsFiniteSet(S) /\ Cardinality({op} \X I) <= Cardinality(S)
  BY SlotSetsFinite, FS_Subset, Zenon DEF I
<1>5. Cardinality(S) \in Nat /\ Cardinality({op} \X I) = MAXOPBLOCKS - OpBlocks
  BY <1>1, <1>2, <1>3, SlotSetsFinite, LogAssumption
<1>. QED
  BY <1>4, <1>5, LogAssumption, Zenon

-----------------------------------------------------------------------------
\* A fresh file system satisfies the inductive invariant.
LEMMA InitInv == Init => LogInv
<1> SUFFICES ASSUME Init PROVE LogInv
  BY Zenon
<1> USE LogAssumption DEF Init
<1>1. TypeOK
  <2>1. lh \in Seq(Blocks) /\ hdr \in Seq(Blocks)
    OBVIOUS
  <2>2. logdata \in [1..LOGSIZE -> Values] /\ home \in [Blocks -> Values]
    BY Zenon
  <2>3. calls \in [Ops -> 0..MaxCalls] /\ crashes \in 0..MaxCrashes
    OBVIOUS
  <2>4. committing \in BOOLEAN /\ panicked \in BOOLEAN
    BY Zenon
  <2>5. /\ pc \in [Ops -> {"idle", "begin", "sleep", "active", "commit"}]
        /\ phase \in Recovery \cup Committing \cup {"up"}
    BY Zenon DEF Recovery
  <2>. QED
    BY <2>1, <2>2, <2>3, <2>4, <2>5 DEF TypeOK
<1>2. Active = {} /\ Slots = {}
  BY Zenon DEF Active, Slots
<1>3. SpaceInv
  BY <1>2, FS_EmptySet DEF SpaceInv
<1>4. PhaseInv
  BY <1>2, Zenon DEF PhaseInv, Committing
<1>5. CopyInv
  BY DEF CopyInv, Distinct
<1>6. BufInv
  BY Zenon DEF BufInv, Recovery
<1>. QED
  BY <1>1, <1>3, <1>4, <1>5, <1>6, Zenon DEF LogInv

\* Every header in use fits the log area.
LEMMA LenBound ==
  ASSUME LogInv
  PROVE  Len(lh) \in Nat /\ Len(lh) <= LOGSIZE /\ Len(hdr) \in Nat
<1>1. Cardinality(Slots) \in Nat
  BY SlotSetsFinite, Zenon DEF Slots
<1>. QED
  BY <1>1, LogAssumption DEF LogInv, SpaceInv, TypeOK

\* Types are preserved.
LEMMA TypeStep == LogInv /\ [Next]_vars => TypeOK'
<1> SUFFICES ASSUME LogInv, [Next]_vars PROVE TypeOK'
  BY Zenon
<1> USE LogAssumption DEF TypeOK, mem, thread, disk, job
<1>0. TypeOK /\ Len(lh) \in Nat /\ Len(lh) <= LOGSIZE
  BY LenBound, Zenon DEF LogInv
<1>1. ASSUME NEW op \in Ops, Thread(op) PROVE TypeOK'
  <2>1. CASE Call(op)
    BY <1>0, <2>1 DEF Call
  <2>2. CASE BeginSleep(op) \/ KillWakes(op)
    BY <1>0, <2>2, Zenon DEF BeginSleep, KillWakes
  <2>7. CASE BeginAdmit(op)
    BY <1>0, <2>7 DEF BeginAdmit
  <2>3. ASSUME NEW b \in Blocks, NEW v \in Values, Modify(op, b, v)
        PROVE  TypeOK'
    BY <1>0, <2>3, Zenon DEF Modify
  <2>4. CASE LogWrite(op)
    <3>1. buf[op] \in Blocks
      BY <1>0, <2>4, Zenon DEF LogWrite
    <3>2. lh' \in Seq(Blocks) /\ pin' \in [Blocks -> Int]
      <4>1. CASE UNCHANGED <<lh, pin>>
        BY <1>0, <4>1, Zenon
      <4>2. CASE /\ lh' = Append(lh, buf[op])
                 /\ pin' = [pin EXCEPT ![buf[op]] = @ + 1]
        BY <1>0, <3>1, <4>2
      <4>. QED
        BY <2>4, <4>1, <4>2, Zenon DEF LogWrite
    <3>3. wrote' \in [Ops -> SUBSET Blocks] /\ buf' \in [Ops -> Blocks \cup {Nil}]
      <4>1. CASE UNCHANGED <<buf, wrote>>
        BY <1>0, <4>1, Zenon
      <4>2. CASE /\ wrote' = [wrote EXCEPT ![op] = @ \cup {buf[op]}]
                 /\ buf' = [buf EXCEPT ![op] = Nil]
        BY <1>0, <3>1, <4>2, Zenon
      <4>. QED
        BY <2>4, <4>1, <4>2, Zenon DEF LogWrite
    <3>4. panicked' \in BOOLEAN
      BY <2>4, Zenon DEF LogWrite, LogWritePanics
    <3>. QED
      BY <1>0, <2>4, <3>2, <3>3, <3>4, Zenon DEF LogWrite
  <2>5. CASE EndOp(op)
    <3>1. pc' \in [Ops -> {"idle", "begin", "sleep", "active", "commit"}]
      <4>1. CASE pc' = [pc EXCEPT ![op] = "commit"]
        BY <1>0, <4>1, Zenon
      <4>2. CASE pc' = Wakeup([pc EXCEPT ![op] = "idle"])
        BY <1>0, <4>2, Zenon DEF Wakeup
      <4>. QED
        BY <2>5, <4>1, <4>2, Zenon DEF EndOp
    <3>2. phase' \in Recovery \cup Committing \cup {"up"}
      BY <1>0, <2>5, Zenon DEF EndOp, Committing
    <3>3. committing' \in BOOLEAN /\ panicked' \in BOOLEAN
      BY <1>0, <2>5, Zenon DEF EndOp
    <3>. QED
      BY <1>0, <2>5, <3>1, <3>2, <3>3 DEF EndOp
  <2>6. CASE EndCommit(op)
    BY <1>0, <2>6, Zenon DEF EndCommit, Wakeup
  <2>. QED
    BY <1>1, <2>1, <2>2, <2>3, <2>4, <2>5, <2>6, <2>7, Zenon DEF Thread
<1>2. CASE Commit
  <2>1. CASE StartCommit
    BY <1>0, <2>1, Zenon DEF StartCommit, Committing
  <2>2. CASE WriteLog
    BY <1>0, <2>2 DEF WriteLog, Bread
  <2>3. CASE CommitPoint \/ EraseLog
    BY <1>0, <2>3 DEF CommitPoint, EraseLog, WriteHead, Committing
  <2>4. CASE Install
    BY <1>0, <2>4 DEF Install, InstallTrans
  <2>5. CASE ResetLog
    BY <1>0, <2>5 DEF ResetLog, ResetHead, Committing
  <2>. QED
    BY <1>2, <2>1, <2>2, <2>3, <2>4, <2>5, Zenon DEF Commit
<1>3. CASE Initlog
  <2>1. CASE ReadHead
    BY <1>0, <2>1, Zenon DEF ReadHead, Recovery
  <2>2. CASE Recover
    BY <1>0, <2>2 DEF Recover, InstallTrans
  <2>3. CASE ResetRecovered
    BY <1>0, <2>3 DEF ResetRecovered, ResetHead, Recovery
  <2>4. CASE EraseRecovered
    BY <1>0, <2>4, Zenon DEF EraseRecovered, WriteHead
  <2>. QED
    BY <1>3, <2>1, <2>2, <2>3, <2>4, Zenon DEF Initlog
<1>4. ASSUME NEW b \in Blocks, Load(b) \/ Evict(b) PROVE TypeOK'
  BY <1>0, <1>4, ZenonT(30) DEF Load, Evict
<1>5. CASE Crash
  <2>1. crashes' \in 0..MaxCrashes /\ lh' \in Seq(Blocks)
    BY <1>0, <1>5 DEF Crash
  <2>2. committing' \in BOOLEAN /\ panicked' \in BOOLEAN
    BY <1>5, Zenon DEF Crash
  <2>3. /\ pc' \in [Ops -> {"idle", "begin", "sleep", "active", "commit"}]
        /\ phase' \in Recovery \cup Committing \cup {"up"}
    BY <1>5, Zenon DEF Crash, Recovery
  <2>. QED
    BY <1>0, <1>5, <2>1, <2>2, <2>3 DEF Crash
<1>6. CASE UNCHANGED vars
  BY <1>0, <1>6, Zenon DEF vars
<1>. QED
  BY <1>1, <1>2, <1>3, <1>4, <1>5, <1>6, Zenon DEF Next

-----------------------------------------------------------------------------
\* Steps that touch no header and no thread preserve the reservation.
LEMMA SpaceFrame ==
  ASSUME SpaceInv, UNCHANGED <<lh, hdr, pc, wrote, buf, outstanding>>
  PROVE  SpaceInv'
  BY Zenon DEF SpaceInv, Slots, Active, Logged

\* log_write() turns a reserved slot of its call into a log entry.
LEMMA SpaceLogWrite ==
  ASSUME LogInv, NEW op \in Ops, LogWrite(op), ~LogWritePanics
  PROVE  SpaceInv'
<1> USE LogAssumption DEF TypeOK
<1>0. TypeOK /\ SpaceInv
  BY Zenon DEF LogInv
<1> PICK b \in Blocks : b = buf[op]
  BY <1>0, Zenon DEF LogWrite
<1>1. pc[op] = "active" /\ Cardinality(wrote[op] \cup {b}) <= OpBlocks
  BY <1>0, Zenon DEF LogWrite, SpaceInv
<1>2. /\ wrote' = [wrote EXCEPT ![op] = @ \cup {b}]
      /\ buf' = [buf EXCEPT ![op] = Nil]
      /\ lh' = IF Logged(b) THEN lh ELSE Append(lh, b)
      /\ UNCHANGED <<pc, hdr, outstanding>>
  BY Zenon DEF LogWrite, disk
<1>3. (\A x : Logged(x) => Logged(x)') /\ Logged(b)'
  <2>1. CASE Logged(b)
    BY <1>2, <2>1, Zenon DEF Logged
  <2>2. CASE ~Logged(b)
    <3>1. lh' = Append(lh, b) /\ lh \in Seq(Blocks) /\ lh' \in Seq(Blocks)
      BY <1>0, <1>1, <1>2, <2>2
    <3>2. /\ DOMAIN lh = 1..Len(lh) /\ DOMAIN lh' = 1..(Len(lh) + 1) /\ Len(lh) \in Nat
          /\ lh'[Len(lh) + 1] = b /\ \A i \in 1..Len(lh) : lh'[i] = lh[i]
      BY <1>1, <3>1
    <3>. QED
      BY <3>2 DEF Logged
  <2>. QED
    BY <2>1, <2>2, Zenon
<1>5. /\ IsFiniteSet(wrote[op]) /\ Cardinality(wrote[op]) \in Nat
      /\ Cardinality(wrote[op] \cup {b}) =
           IF b \in wrote[op] THEN Cardinality(wrote[op]) ELSE Cardinality(wrote[op]) + 1
  <2>1. wrote[op] \in SUBSET Blocks
    BY <1>0, Zenon
  <2>2. IsFiniteSet(wrote[op]) /\ Cardinality(wrote[op]) \in Nat
    BY <2>1, BlockSetsFinite, Zenon
  <2>. QED
    BY <2>2, FS_AddElement, Zenon
<1>6. Slots \in SUBSET (Ops \X (1..MAXOPBLOCKS)) /\ Slots' \in SUBSET (Ops \X (1..MAXOPBLOCKS))
  BY Zenon DEF Slots
<1>7. Slots' \subseteq Slots
  <2> SUFFICES ASSUME NEW o \in Ops, NEW k \in 1..MAXOPBLOCKS, <<o, k>> \in Slots'
               PROVE  <<o, k>> \in Slots
    BY <1>6
  <2>1. CASE o = op
    <3>1. /\ pc'[op] = pc[op] /\ wrote'[op] = wrote[op] \cup {b}
          /\ pc'[op] = "active" /\ Cardinality(wrote'[op]) < k
      BY <1>0, <1>2, <2>1, Zenon DEF Slots
    <3>2. Cardinality(wrote[op]) < k
      BY <1>5, <3>1
    <3>. QED
      BY <2>1, <3>1, <3>2, Zenon DEF Slots
  <2>2. CASE o # op
    BY <1>0, <1>2, <2>2, Zenon DEF Slots
  <2>. QED
    BY <2>1, <2>2, Zenon
<1>8. Len(lh') + Cardinality(Slots') <= LOGSIZE
  <2>1. CASE Logged(b)
    <3>1. Cardinality(Slots') <= Cardinality(Slots) /\ Cardinality(Slots') \in Nat
      BY <1>6, <1>7, SlotSetsFinite, FS_Subset, Zenon
    <3>2. lh' = lh /\ Len(lh) \in Nat /\ Cardinality(Slots) \in Nat
      <4>1. lh' = lh /\ lh \in Seq(Blocks) /\ Cardinality(Slots) \in Nat
        BY <1>0, <1>2, <1>6, <2>1, SlotSetsFinite, Zenon
      <4>. QED
        BY ONLY <4>1
    <3>. QED
      <4>1. Len(lh) + Cardinality(Slots) <= LOGSIZE
        BY <1>0, Zenon DEF SpaceInv
      <4>. QED
        BY ONLY <3>1, <3>2, <4>1, LogAssumption
  <2>2. CASE ~Logged(b)
    <3> DEFINE s == <<op, Cardinality(wrote[op]) + 1>>
    <3>1. b \notin wrote[op]
      BY <1>0, <1>1, <2>2, Zenon DEF SpaceInv
    <3>2. s \in Slots /\ s \notin Slots'
      <4>1. Cardinality(wrote[op]) + 1 \in 1..MAXOPBLOCKS
        BY <1>1, <1>5, <3>1
      <4>2. pc'[op] = "active" /\ wrote'[op] = wrote[op] \cup {b}
        BY <1>0, <1>1, <1>2, Zenon
      <4>3. Cardinality(wrote'[op]) = Cardinality(wrote[op]) + 1
        BY <1>5, <3>1, <4>2, Zenon
      <4>4. s \in Slots
        BY <1>1, <1>5, <4>1 DEF Slots
      <4>5. s \notin Slots'
        BY <4>1, <4>3 DEF Slots
      <4>. QED
        BY <4>4, <4>5, Zenon
    <3>3. IsFiniteSet(Slots) /\ Cardinality(Slots) \in Nat /\ Cardinality(Slots') \in Nat
      BY <1>6, SlotSetsFinite, Zenon
    <3> HIDE DEF s
    <3>4. IsFiniteSet(Slots \ {s}) /\ Cardinality(Slots \ {s}) = Cardinality(Slots) - 1
      BY <3>2, <3>3, FS_RemoveElement, Zenon
    <3>5. Cardinality(Slots') <= Cardinality(Slots \ {s})
      BY <1>7, <3>2, <3>4, FS_Subset, Zenon
    <3>6. Len(lh') = Len(lh) + 1 /\ Len(lh) \in Nat
      BY <1>0, <1>1, <1>2, <2>2
    <3>7. Len(lh) + Cardinality(Slots) <= LOGSIZE
      BY <1>0, Zenon DEF SpaceInv
    <3>. QED
      BY <3>3, <3>4, <3>5, <3>6, <3>7
  <2>. QED
    BY <2>1, <2>2, Zenon
<1>9. Active' = Active
  BY <1>2, Zenon DEF Active
<1>10. \A o \in Ops :
         /\ \A x \in wrote'[o] : pc'[o] = "active" => Logged(x)'
         /\ Cardinality(wrote'[o]) <= OpBlocks
         /\ buf'[o] # Nil =>
              pc'[o] = "active" /\ Cardinality(wrote'[o] \cup {buf'[o]}) <= OpBlocks
  <2> TAKE o \in Ops
  <2>1. CASE o = op
    BY <1>0, <1>1, <1>2, <1>3, <2>1, Zenon DEF SpaceInv
  <2>2. CASE o # op
    BY <1>0, <1>2, <1>3, <2>2, Zenon DEF SpaceInv
  <2>. QED
    BY <2>1, <2>2, Zenon
<1>. QED
  BY <1>0, <1>2, <1>8, <1>9, <1>10, Zenon DEF SpaceInv

\* begin_op() admits a call only if a full reservation fits.
LEMMA SpaceBegin ==
  ASSUME LogInv, NEW op \in Ops, BeginAdmit(op)
  PROVE  SpaceInv'
<1> USE LogAssumption DEF TypeOK
<1>0. TypeOK /\ SpaceInv
  BY Zenon DEF LogInv
<1>1. /\ pc[op] = "begin" /\ pc' = [pc EXCEPT ![op] = "active"]
      /\ wrote' = [wrote EXCEPT ![op] = {}]
      /\ outstanding' = outstanding + 1
      /\ Len(lh) + (outstanding + 1) * MAXOPBLOCKS <= LOGSIZE
      /\ UNCHANGED <<lh, hdr, buf>>
  BY <1>0 DEF BeginAdmit, MustWait, disk
<1>2. Active' = Active \cup {op} /\ op \notin Active /\ Active \in SUBSET Ops
  BY <1>0, <1>1 DEF Active
<1>3. IsFiniteSet(Active) /\ Cardinality(Active) \in Nat
  BY <1>2, BlockSetsFinite, Zenon
<1>4. Cardinality(Active') = outstanding'
  BY <1>0, <1>1, <1>2, <1>3, FS_AddElement, Zenon DEF SpaceInv
<1>5. Slots' \in SUBSET (Active' \X (1..MAXOPBLOCKS)) /\ Active' \in SUBSET Ops
  BY Zenon DEF Slots, Active
<1>6. Cardinality(Slots') <= Cardinality(Active') * MAXOPBLOCKS
  BY <1>5, SlotsBound, Zenon
<1>7. Cardinality(Slots') <= (outstanding + 1) * MAXOPBLOCKS
  BY <1>1, <1>4, <1>6, Zenon
<1>8. Cardinality(Slots') \in Nat /\ outstanding \in Nat /\ Len(lh) \in Nat
  <2>1. Slots' \in SUBSET (Ops \X (1..MAXOPBLOCKS))
    BY Zenon DEF Slots
  <2>. QED
    <3>1. Cardinality(Slots') \in Nat /\ lh \in Seq(Blocks)
      BY <1>0, <2>1, SlotSetsFinite, Zenon
    <3>2. outstanding = Cardinality(Active)
      BY <1>0, Zenon DEF SpaceInv
    <3>. QED
      BY ONLY <1>3, <3>1, <3>2
<1>9. (outstanding + 1) * MAXOPBLOCKS \in Nat
  BY <1>8
<1>10. Len(lh') + Cardinality(Slots') <= LOGSIZE
  BY <1>1, <1>7, <1>8, <1>9
<1>11. \A o \in Ops :
         /\ \A x \in wrote'[o] : pc'[o] = "active" => Logged(x)'
         /\ Cardinality(wrote'[o]) <= OpBlocks
         /\ buf'[o] # Nil =>
              pc'[o] = "active" /\ Cardinality(wrote'[o] \cup {buf'[o]}) <= OpBlocks
  <2> TAKE o \in Ops
  <2>1. CASE o = op
    <3>1. buf[op] = Nil
      BY <1>0, <1>1, Zenon DEF SpaceInv
    <3>. QED
      BY <1>0, <1>1, <2>1, <3>1, FS_EmptySet
  <2>2. CASE o # op
    BY <1>0, <1>1, <2>2, Zenon DEF SpaceInv, Logged
  <2>. QED
    BY <2>1, <2>2, Zenon
<1>. QED
  BY <1>0, <1>1, <1>4, <1>10, <1>11, Zenon DEF SpaceInv

\* end_op() gives the unused slots of its call back.
LEMMA SpaceEnd ==
  ASSUME LogInv, NEW op \in Ops, EndOp(op)
  PROVE  SpaceInv'
<1> USE LogAssumption DEF TypeOK
<1>0. TypeOK /\ SpaceInv
  BY Zenon DEF LogInv
<1>1. /\ pc[op] = "active" /\ buf[op] = Nil
      /\ outstanding' = outstanding - 1
      /\ UNCHANGED <<lh, hdr, buf, wrote>>
  BY Zenon DEF EndOp, disk
<1>2. \A o \in Ops : pc'[o] = "active" <=> (pc[o] = "active" /\ o # op)
  <2>1. CASE pc' = [pc EXCEPT ![op] = "commit"]
    BY <1>0, <2>1, Zenon
  <2>2. CASE pc' = Wakeup([pc EXCEPT ![op] = "idle"])
    BY <1>0, <2>2, Zenon DEF Wakeup
  <2>. QED
    BY <2>1, <2>2, Zenon DEF EndOp
<1>3. Active' = Active \ {op} /\ op \in Active /\ Active \in SUBSET Ops
  BY <1>1, <1>2, Zenon DEF Active
<1>4. Cardinality(Active') = outstanding'
  <2>1. IsFiniteSet(Active) /\ Cardinality(Active) \in Nat
    BY <1>3, BlockSetsFinite, Zenon
  <2>. QED
    BY <1>0, <1>1, <1>3, <2>1, FS_RemoveElement, Zenon DEF SpaceInv
<1>5. Slots' \subseteq Slots /\ Slots \in SUBSET (Ops \X (1..MAXOPBLOCKS))
  BY <1>1, <1>2, Zenon DEF Slots
<1>6. /\ Cardinality(Slots') <= Cardinality(Slots)
      /\ Cardinality(Slots') \in Nat /\ Cardinality(Slots) \in Nat
  BY <1>5, SlotSetsFinite, FS_Subset, Zenon
<1>7. Len(lh') + Cardinality(Slots') <= LOGSIZE
  <2>1. Len(lh) \in Nat
    BY <1>0
  <2>. QED
    <3>1. lh' = lh /\ Len(lh) + Cardinality(Slots) <= LOGSIZE
      BY <1>0, <1>1, Zenon DEF SpaceInv
    <3>. QED
      BY ONLY <1>6, <2>1, <3>1, LogAssumption
<1>. QED
  BY <1>0, <1>1, <1>2, <1>4, <1>7, Zenon DEF SpaceInv, Logged

\* Outside calls only the lengths of the two headers matter.
LEMMA SpaceQuiet ==
  ASSUME LogInv, Active' = {}, outstanding' = 0,
         Len(lh') <= LOGSIZE, Len(lh') \in Nat, Len(hdr') <= LOGSIZE,
         \A op \in Ops : buf'[op] = Nil /\ pc'[op] # "active",
         wrote' = wrote \/ wrote' = [op \in Ops |-> {}]
  PROVE  SpaceInv'
<1>1. Slots' = {}
  BY Zenon DEF Slots
<1>2. Cardinality(Slots') = 0 /\ Cardinality(Active') = 0
  BY <1>1, FS_EmptySet, Zenon
<1>3. \A op \in Ops : Cardinality(wrote'[op]) <= OpBlocks
  <2>1. CASE wrote' = wrote
    BY <2>1, Zenon DEF LogInv, SpaceInv
  <2>2. CASE wrote' = [op \in Ops |-> {}]
    <3>1. \A op \in Ops : wrote'[op] = {}
      BY <2>2, Zenon
    <3>2. Cardinality({}) = 0 /\ 0 <= OpBlocks
      BY FS_EmptySet, LogAssumption
    <3>. QED
      BY <3>1, <3>2, Zenon
  <2>. QED
    BY <2>1, <2>2, Zenon
<1>4. \A op \in Ops :
        /\ \A b \in wrote'[op] : pc'[op] = "active" => Logged(b)'
        /\ buf'[op] # Nil =>
             pc'[op] = "active" /\ Cardinality(wrote'[op] \cup {buf'[op]}) <= OpBlocks
  BY Zenon
<1>5. Len(lh') + Cardinality(Slots') <= LOGSIZE
  BY <1>2, LogAssumption
<1>. QED
  BY <1>2, <1>3, <1>4, <1>5, Zenon DEF SpaceInv

\* No call is in progress while phase is not "up".
LEMMA QuietPhase ==
  ASSUME LogInv, phase # "up"
  PROVE  /\ Active = {} /\ outstanding = 0
         /\ \A op \in Ops : buf[op] = Nil /\ pc[op] # "active"
<1>1. Active = {}
  BY Zenon DEF LogInv, PhaseInv
<1>2. \A op \in Ops : pc[op] # "active"
  BY <1>1, Zenon DEF Active
<1>. QED
  BY <1>1, <1>2, FS_EmptySet, Zenon DEF LogInv, SpaceInv

\* The reservation is preserved.
LEMMA SpaceStep == LogInv /\ [Next]_vars => SpaceInv'
<1> SUFFICES ASSUME LogInv, [Next]_vars PROVE SpaceInv'
  BY Zenon
<1> USE DEF mem, thread, disk, job
<1>0. TypeOK /\ SpaceInv /\ PhaseInv
  BY Zenon DEF LogInv
<1>1. ASSUME NEW op \in Ops, Thread(op) PROVE SpaceInv'
  <2>1. CASE Call(op) \/ BeginSleep(op) \/ KillWakes(op) \/ EndCommit(op)
    <3>1. \A o \in Ops : pc'[o] = "active" <=> pc[o] = "active"
      BY <1>0, <2>1, Zenon DEF TypeOK, Call, BeginSleep, KillWakes, EndCommit, Wakeup
    <3>2. UNCHANGED <<lh, hdr, wrote, buf, outstanding>>
      BY <2>1, Zenon DEF Call, BeginSleep, KillWakes, EndCommit
    <3>3. Active' = Active /\ Slots' = Slots
      BY <3>1, <3>2, Zenon DEF Active, Slots
    <3>. QED
      BY <1>0, <3>1, <3>2, <3>3, Zenon DEF SpaceInv, Logged
  <2>2. CASE BeginAdmit(op)
    BY <2>2, SpaceBegin, Zenon
  <2>3. ASSUME NEW b \in Blocks, NEW v \in Values, Modify(op, b, v)
        PROVE  SpaceInv'
    <3>1. /\ UNCHANGED <<lh, hdr, wrote, pc, outstanding>>
          /\ pc[op] = "active" /\ Cardinality(wrote[op] \cup {b}) <= OpBlocks
          /\ buf' = [buf EXCEPT ![op] = b]
      BY <2>3, Zenon DEF Modify
    <3>2. Active' = Active /\ Slots' = Slots
      BY <3>1, Zenon DEF Active, Slots
    <3>. QED
      BY <1>0, <3>1, <3>2, Zenon DEF TypeOK, SpaceInv, Logged
  <2>4. CASE LogWrite(op)
    <3>1. CASE LogWritePanics
      BY <1>0, <2>4, <3>1, SpaceFrame, Zenon DEF LogWrite
    <3>2. CASE ~LogWritePanics
      BY <2>4, <3>2, SpaceLogWrite, Zenon
    <3>. QED
      BY <3>1, <3>2, Zenon
  <2>5. CASE EndOp(op)
    BY <2>5, SpaceEnd, Zenon
  <2>. QED
    BY <1>1, <2>1, <2>2, <2>3, <2>4, <2>5, Zenon DEF Thread
<1>2. CASE Commit
  <2>1. CASE StartCommit \/ WriteLog \/ Install
    BY <1>0, <2>1, SpaceFrame, Zenon DEF StartCommit, WriteLog, Install, InstallTrans
  <2>2. CASE CommitPoint \/ EraseLog \/ ResetLog
    <3>1. phase # "up" /\ UNCHANGED <<pc, buf, wrote, outstanding>>
      BY <2>2, Zenon DEF CommitPoint, EraseLog, ResetLog, WriteHead, ResetHead
    <3>2. Len(lh') \in Nat /\ Len(lh') <= LOGSIZE /\ Len(hdr') <= LOGSIZE
      BY <1>0, <2>2, LenBound, LogAssumption
         DEF CommitPoint, EraseLog, ResetLog, WriteHead, ResetHead, SpaceInv
    <3>. QED
      BY <3>1, <3>2, QuietPhase, SpaceQuiet, Zenon DEF Active
  <2>. QED
    BY <1>2, <2>1, <2>2, Zenon DEF Commit
<1>3. CASE Initlog
  <2>1. CASE Recover
    BY <1>0, <2>1, SpaceFrame, Zenon DEF Recover, InstallTrans
  <2>2. CASE ReadHead \/ ResetRecovered \/ EraseRecovered
    <3>1. phase # "up" /\ UNCHANGED <<pc, buf, wrote, outstanding>>
      BY <2>2, Zenon DEF ReadHead, ResetRecovered, EraseRecovered, WriteHead, ResetHead
    <3>2. Len(lh') \in Nat /\ Len(lh') <= LOGSIZE /\ Len(hdr') <= LOGSIZE
      BY <1>0, <2>2, LenBound, LogAssumption, SMTT(30)
         DEF ReadHead, ResetRecovered, EraseRecovered, WriteHead, ResetHead, SpaceInv
    <3>. QED
      BY <3>1, <3>2, QuietPhase, SpaceQuiet, Zenon DEF Active
  <2>. QED
    BY <1>3, <2>1, <2>2, Zenon DEF Initlog
<1>4. ASSUME NEW b \in Blocks, Load(b) \/ Evict(b) PROVE SpaceInv'
  BY <1>0, <1>4, SpaceFrame, Zenon DEF Load, Evict
<1>5. CASE Crash
  <2>1. /\ outstanding' = 0 /\ Len(lh') = 0 /\ hdr' = hdr
        /\ \A op \in Ops : buf'[op] = Nil /\ pc'[op] # "active"
        /\ wrote' = [op \in Ops |-> {}]
    BY <1>5, Zenon DEF Crash
  <2>2. Active' = {}
    BY <2>1, Zenon DEF Active
  <2>3. Len(lh') <= LOGSIZE /\ Len(lh') \in Nat /\ Len(hdr') <= LOGSIZE
    BY <1>0, <2>1, LogAssumption DEF SpaceInv
  <2>. QED
    BY <2>1, <2>2, <2>3, SpaceQuiet, Zenon
<1>6. CASE UNCHANGED vars
  BY <1>0, <1>6, SpaceFrame, Zenon DEF vars
<1>. QED
  BY <1>1, <1>2, <1>3, <1>4, <1>5, <1>6, Zenon DEF Next

-----------------------------------------------------------------------------
(* The commit, the copies on disk and the buffers *)

\* end_op() leaves no call in progress exactly when it starts a commit.
LEMMA EndOpActive ==
  ASSUME LogInv, NEW op \in Ops, EndOp(op)
  PROVE  /\ phase = "up" /\ ~committing /\ hdr = <<>>
         /\ phase' \in {"up", "commit"} /\ (phase' = "commit" <=> Active' = {})
         /\ committing' <=> phase' = "commit"
<1>1. TypeOK /\ SpaceInv /\ PhaseInv
  BY Zenon DEF LogInv
<1>2. op \in Active
  BY Zenon DEF EndOp, Active
<1>3. phase = "up" /\ ~committing /\ hdr = <<>>
  BY <1>1, <1>2, Zenon DEF PhaseInv, Committing
<1>4. outstanding' = Cardinality(Active')
  BY SpaceEnd, Zenon DEF SpaceInv
<1>5. Active' \in SUBSET Ops
  BY Zenon DEF Active
<1>6. Active' = {} <=> outstanding' = 0
  BY <1>4, <1>5, BlockSetsFinite, FS_EmptySet, Zenon
<1>7. CASE outstanding' = 0
  BY <1>3, <1>6, <1>7, Zenon DEF EndOp
<1>8. CASE outstanding' # 0
  BY <1>3, <1>6, <1>8, Zenon DEF EndOp
<1>. QED
  BY <1>3, <1>7, <1>8, Zenon

\* The use of the two headers is preserved.
LEMMA PhaseStep == LogInv /\ [Next]_vars => PhaseInv'
<1> SUFFICES ASSUME LogInv, [Next]_vars PROVE PhaseInv'
  BY Zenon
<1> USE DEF mem, thread, disk, job
<1>0. TypeOK /\ SpaceInv /\ PhaseInv /\ Len(lh) \in Nat
  BY LenBound, Zenon DEF LogInv
<1>1. ASSUME NEW op \in Ops, Thread(op) PROVE PhaseInv'
  <2>1. CASE Call(op) \/ BeginSleep(op) \/ KillWakes(op)
    <3>1. Active' = Active
      BY <1>0, <2>1, Zenon DEF TypeOK, Call, BeginSleep, KillWakes, Active
    <3>. QED
      BY <1>0, <2>1, <3>1 DEF PhaseInv, Call, BeginSleep, KillWakes
  <2>2. CASE BeginAdmit(op)
    <3>1. ~committing /\ phase = "up"
      BY <1>0, <2>2, Zenon DEF BeginAdmit, MustWait, Up, PhaseInv, TypeOK
    <3>2. op \in Active'
      BY <1>0, <2>2, Zenon DEF TypeOK, BeginAdmit, Active
    <3>. QED
      BY <1>0, <2>2, <3>1, <3>2, Zenon DEF PhaseInv, BeginAdmit, Committing
  <2>3. ASSUME NEW b \in Blocks, NEW v \in Values, Modify(op, b, v)
        PROVE  PhaseInv'
    BY <1>0, <2>3, Zenon DEF PhaseInv, Modify, Active
  <2>4. CASE LogWrite(op)
    <3>1. op \in Active
      BY <1>0, <2>4, Zenon DEF LogWrite, SpaceInv, Active
    <3>2. phase = "up"
      BY <1>0, <3>1, Zenon DEF PhaseInv
    <3>3. Active' = Active
      BY <2>4, Zenon DEF LogWrite, Active
    <3>. QED
      BY <1>0, <2>4, <3>1, <3>2, <3>3, Zenon DEF PhaseInv, LogWrite
  <2>5. CASE EndOp(op)
    <3>1. lh' = lh /\ hdr' = hdr
      BY <2>5, Zenon DEF EndOp
    <3>. QED
      BY <2>5, <3>1, EndOpActive, Zenon DEF PhaseInv, Committing
  <2>6. CASE EndCommit(op)
    <3>1. Active' = Active /\ Active = {}
      BY <1>0, <2>6, Zenon DEF TypeOK, PhaseInv, EndCommit, Wakeup, Active
    <3>. QED
      BY <1>0, <2>6, <3>1, Zenon DEF PhaseInv, EndCommit, Committing
  <2>. QED
    BY <1>1, <2>1, <2>2, <2>3, <2>4, <2>5, <2>6, Zenon DEF Thread
<1>2. CASE Commit
  <2>0. Active' = Active
    BY <1>2, Zenon DEF Commit, StartCommit, WriteLog, CommitPoint, Install, ResetLog, EraseLog,
                WriteHead, InstallTrans, ResetHead, Active
  <2>1. CASE StartCommit
    BY <1>0, <2>0, <2>1 DEF PhaseInv, StartCommit, Committing
  <2>2. CASE WriteLog
    BY <1>0, <2>0, <2>2 DEF PhaseInv, WriteLog, TypeOK
  <2>3. CASE CommitPoint
    BY <1>0, <2>0, <2>3 DEF PhaseInv, CommitPoint, WriteHead, Committing
  <2>4. CASE Install
    BY <1>0, <2>0, <2>4 DEF PhaseInv, Install, InstallTrans, TypeOK
  <2>5. CASE ResetLog
    BY <1>0, <2>0, <2>5, Zenon DEF PhaseInv, ResetLog, ResetHead, Committing
  <2>6. CASE EraseLog
    BY <1>0, <2>0, <2>6, Zenon DEF PhaseInv, EraseLog, WriteHead, Committing
  <2>. QED
    BY <1>2, <2>1, <2>2, <2>3, <2>4, <2>5, <2>6, Zenon DEF Commit
<1>3. CASE Initlog
  <2>0. Active' = Active
    BY <1>3, Zenon DEF Initlog, ReadHead, Recover, ResetRecovered, EraseRecovered,
                WriteHead, InstallTrans, ResetHead, Active
  <2>1. CASE ReadHead
    <3>1. Len(hdr) \in Nat
      BY LenBound, Zenon
    <3>. QED
      BY <1>0, <2>0, <2>1, <3>1 DEF PhaseInv, ReadHead, Committing
  <2>2. CASE Recover
    BY <1>0, <2>0, <2>2 DEF PhaseInv, Recover, InstallTrans, TypeOK
  <2>3. CASE ResetRecovered
    BY <1>0, <2>0, <2>3, Zenon DEF PhaseInv, ResetRecovered, ResetHead, Committing
  <2>4. CASE EraseRecovered
    BY <1>0, <2>0, <2>4, Zenon DEF PhaseInv, EraseRecovered, WriteHead, Committing
  <2>. QED
    BY <1>3, <2>1, <2>2, <2>3, <2>4, Zenon DEF Initlog
<1>4. ASSUME NEW b \in Blocks, Load(b) \/ Evict(b) PROVE PhaseInv'
  BY <1>0, <1>4 DEF Load, Evict, PhaseInv, Active
<1>5. CASE Crash
  <2>1. Active' = {}
    BY <1>5, Zenon DEF Crash, Active
  <2>. QED
    BY <1>5, <2>1, Zenon DEF Crash, PhaseInv, Committing
<1>6. CASE UNCHANGED vars
  BY <1>0, <1>6, Zenon DEF vars, PhaseInv, Active
<1>. QED
  BY <1>1, <1>2, <1>3, <1>4, <1>5, <1>6, Zenon DEF Next

-----------------------------------------------------------------------------
\* Readers and the recycling of buffers never change what bread() returns.
LEMMA BreadFrame ==
  ASSUME LogInv, NEW b \in Blocks, Load(b) \/ Evict(b)
  PROVE  /\ \A x \in Blocks : Bread(x)' = Bread(x)
         /\ UNCHANGED <<mem, thread, pin, disk, job, panicked, crashes>>
<1>1. TypeOK /\ BufInv
  BY Zenon DEF LogInv
<1>2. CASE Load(b)
  BY <1>1, <1>2, LogAssumption, Zenon DEF Load, Bread, TypeOK, disk
<1>3. CASE Evict(b)
  <2>1. pin[b] = 0 /\ ~Held(b)
    BY <1>3, Zenon DEF Evict, Held
  <2>2. cache[b] \in {Nil, home[b]}
    BY <1>1, <2>1 DEF BufInv
  <2>. QED
    BY <1>1, <1>3, <2>2, LogAssumption, Zenon DEF Evict, Bread, TypeOK, disk
<1>. QED
  BY <1>2, <1>3, Zenon

\* The relation between log blocks, home blocks and buffers is preserved.
LEMMA DistinctEmpty == Distinct(<<>>)
  BY DEF Distinct

LEMMA CopyStep == LogInv /\ [Next]_vars => CopyInv'
<1> SUFFICES ASSUME LogInv, [Next]_vars PROVE CopyInv'
  BY Zenon
<1> USE LogAssumption DEF mem, thread, disk, job
<1>0. TypeOK /\ SpaceInv /\ PhaseInv /\ CopyInv /\ Len(lh) \in Nat /\ Len(lh) <= LOGSIZE
  BY LenBound, Zenon DEF LogInv
<1>9. lh \in Seq(Blocks) /\ tail \in Nat
  BY <1>0, Zenon DEF TypeOK
<1>1. ASSUME NEW op \in Ops, Thread(op) PROVE CopyInv'
  <2>1. CASE Call(op) \/ BeginSleep(op) \/ KillWakes(op) \/ BeginAdmit(op)
    BY <1>0, <2>1 DEF CopyInv, Call, BeginSleep, KillWakes, BeginAdmit, Bread
  <2>2. ASSUME phase = "up", phase' \in {"up", "commit"}, Distinct(lh'), hdr' = hdr
        PROVE  CopyInv'
    BY <1>0, <2>2, Zenon DEF CopyInv
  <2>3. ASSUME NEW b \in Blocks, NEW v \in Values, Modify(op, b, v)
        PROVE  CopyInv'
    <3>1. phase = "up"
      BY <1>0, <2>3, Zenon DEF Modify, PhaseInv, Active
    <3>. QED
      BY <1>0, <2>2, <2>3, <3>1, Zenon DEF CopyInv, Modify
  <2>4. CASE LogWrite(op)
    <3>1. phase = "up" /\ phase' = "up" /\ hdr' = hdr /\ buf[op] \in Blocks
      BY <1>0, <2>4, Zenon DEF LogWrite, PhaseInv, SpaceInv, Active, TypeOK
    <3>2. Distinct(lh')
      <4>1. CASE lh' = lh
        BY <1>0, <4>1, Zenon DEF CopyInv
      <4>2. CASE ~Logged(buf[op]) /\ lh' = Append(lh, buf[op])
        <5>1. lh \in Seq(Blocks)
          BY <1>0, Zenon DEF TypeOK
        <5>2. /\ DOMAIN lh = 1..Len(lh) /\ DOMAIN lh' = 1..(Len(lh) + 1)
              /\ lh'[Len(lh) + 1] = buf[op] /\ \A i \in 1..Len(lh) : lh'[i] = lh[i]
          BY <3>1, <4>2, <5>1
        <5>. QED
          BY <1>0, <4>2, <5>2 DEF CopyInv, Distinct, Logged
      <4>. QED
        BY <2>4, <4>1, <4>2, Zenon DEF LogWrite
    <3>. QED
      BY <2>2, <3>1, <3>2, Zenon
  <2>5. CASE EndOp(op)
    <3>1. lh' = lh /\ hdr' = hdr
      BY <2>5, Zenon DEF EndOp
    <3>. QED
      BY <1>0, <2>2, <2>5, <3>1, EndOpActive, Zenon DEF CopyInv
  <2>6. CASE EndCommit(op)
    BY <1>0, <2>6, Zenon DEF CopyInv, EndCommit
  <2>. QED
    BY <1>1, <2>1, <2>3, <2>4, <2>5, <2>6, ZenonT(60) DEF Thread
<1>2. CASE Commit
  <2>1. CASE StartCommit
    BY <1>0, <2>1 DEF CopyInv, StartCommit
  <2>2. CASE WriteLog
    <3> PICK b \in Blocks : b = lh[tail + 1]
      BY <1>0, <2>2 DEF WriteLog, TypeOK
    <3>1. /\ cache' = [cache EXCEPT ![b] = Bread(b)] /\ home' = home
          /\ logdata' = [logdata EXCEPT ![tail + 1] = Bread(b)]
          /\ tail' = tail + 1 /\ phase = "write_log" /\ UNCHANGED <<lh, hdr, phase>>
          /\ tail < Len(lh)
      BY <2>2, Zenon DEF WriteLog
    <3>2. \A x \in Blocks : Bread(x)' = Bread(x)
      BY <1>0, <3>1, Zenon DEF Bread, TypeOK
    <3>3. \A i \in 1..tail' : logdata'[i] = Bread(lh[i])'
      <4> TAKE i \in 1..tail'
      <4>1. i \in 1..Len(lh) /\ lh[i] \in Blocks /\ i \in 1..LOGSIZE
        BY <1>0, <1>9, <3>1
      <4>2. Bread(lh[i])' = Bread(lh[i])
        BY <3>1, <3>2, <4>1, Zenon
      <4>. QED
        <5>1. CASE i = tail + 1
          <6>1. logdata \in [1..LOGSIZE -> Values]
            BY <1>0, Zenon DEF TypeOK
          <6>. QED
            BY <3>1, <4>1, <4>2, <5>1, <6>1, Zenon
        <5>2. CASE i # tail + 1
          <6>1. i \in 1..tail
            BY <1>9, <3>1, <5>2
          <6>2. logdata[i] = Bread(lh[i])
            BY <1>0, <3>1, <6>1, Zenon DEF CopyInv
          <6>3. logdata \in [1..LOGSIZE -> Values]
            BY <1>0, Zenon DEF TypeOK
          <6>. QED
            BY <3>1, <4>1, <4>2, <5>2, <6>2, <6>3, Zenon
        <5>. QED
          BY <5>1, <5>2, Zenon
    <3>. QED
      BY <1>0, <3>1, <3>3, Zenon DEF CopyInv
  <2>3. CASE CommitPoint
    <3>1. \A i \in DOMAIN lh : i \in 1..tail
      BY <1>0, <2>3 DEF CommitPoint, WriteHead, TypeOK
    <3>2. \A i \in DOMAIN lh : Bread(lh[i]) = logdata[i]
      BY <1>0, <2>3, <3>1, Zenon DEF CopyInv, CommitPoint, WriteHead
    <3>3. /\ hdr' = lh /\ phase' = "install" /\ tail' = 0
          /\ UNCHANGED <<lh, cache, home, logdata>>
      BY <2>3, Zenon DEF CommitPoint, WriteHead
    <3>4. Distinct(lh') /\ Distinct(hdr')
      BY <1>0, <3>3, Zenon DEF CopyInv
    <3>5. \A i \in DOMAIN lh' : Bread(lh[i])' = logdata'[i]
      BY <3>2, <3>3, Zenon DEF Bread
    <3>. QED
      BY <3>3, <3>4, <3>5 DEF CopyInv
  <2>4. CASE Install
    <3> PICK b \in Blocks : b = lh[tail + 1]
      BY <1>0, <2>4 DEF Install, InstallTrans, TypeOK
    <3>1. /\ cache' = [cache EXCEPT ![b] = logdata[tail + 1]]
          /\ home' = [home EXCEPT ![b] = logdata[tail + 1]]
          /\ tail' = tail + 1 /\ phase = "install" /\ UNCHANGED <<lh, hdr, phase, logdata>>
          /\ tail < Len(lh)
      BY <2>4, Zenon DEF Install, InstallTrans
    <3>2. \A i \in DOMAIN lh : /\ lh[i] \in Blocks /\ i \in 1..LOGSIZE
                               /\ lh[i] = b <=> i = tail + 1
      <4>1. Distinct(lh)
        BY <1>0, Zenon DEF CopyInv
      <4>. QED
        BY <1>0, <1>9, <3>1, <4>1 DEF Distinct
    <3>3. \A i \in 1..tail' : home'[lh[i]] = logdata[i]
      <4> TAKE i \in 1..tail'
      <4>1. i \in DOMAIN lh /\ lh[i] \in Blocks /\ (i = tail + 1 \/ i \in 1..tail)
        BY <1>9, <3>1, <3>2
      <4>2. CASE i = tail + 1
        BY <1>0, <3>1, <3>2, <4>1, <4>2, Zenon DEF TypeOK
      <4>3. CASE i # tail + 1
        <5>1. home'[lh[i]] = home[lh[i]]
          BY <1>0, <3>1, <3>2, <4>1, <4>3, ZenonT(60) DEF TypeOK
        <5>. QED
          BY <1>0, <3>1, <4>1, <4>3, <5>1, Zenon DEF CopyInv
      <4>. QED
        BY <4>2, <4>3, Zenon
    <3>4. \A i \in DOMAIN lh : Bread(lh[i])' = logdata[i]
      <4>1. \A i \in DOMAIN lh : Bread(lh[i]) = logdata[i]
        BY <1>0, <3>1, Zenon DEF CopyInv
      <4>2. cache \in [Blocks -> Values \cup {Nil}] /\ home \in [Blocks -> Values]
        BY <1>0, Zenon DEF TypeOK
      <4>. QED
        BY <3>1, <3>2, <4>1, <4>2, SMTT(30) DEF Bread
    <3>. QED
      <4>1. Distinct(lh') /\ Distinct(hdr')
        BY <1>0, <3>1, Zenon DEF CopyInv
      <4>. QED
        BY <3>1, <3>3, <3>4, <4>1, SMTT(30), SMTT(60) DEF CopyInv
  <2>5. CASE ResetLog
    <3>1. \A i \in DOMAIN hdr : home[hdr[i]] = logdata[i]
      <4>1. lh = hdr /\ DOMAIN lh = 1..tail
        BY <1>0, <2>5 DEF PhaseInv, ResetLog, ResetHead, TypeOK
      <4>. QED
        BY <1>0, <2>5, <4>1, Zenon DEF CopyInv, ResetLog, ResetHead
    <3>2. /\ lh' = <<>> /\ phase' \in {"erase", "recover_erase"}
          /\ UNCHANGED <<hdr, home, logdata>>
      BY <2>5, Zenon DEF ResetLog, ResetHead
    <3>3. Distinct(lh') /\ Distinct(hdr')
      BY <1>0, <3>2, DistinctEmpty, Zenon DEF CopyInv
    <3>. QED
      BY <3>1, <3>2, <3>3, Zenon DEF CopyInv
  <2>6. CASE EraseLog
    BY <1>0, <2>6, Zenon DEF CopyInv, EraseLog, WriteHead
  <2>. QED
    BY <1>2, <2>1, <2>2, <2>3, <2>4, <2>5, <2>6, ZenonT(60) DEF Commit
<1>3. CASE Initlog
  <2>1. CASE ReadHead
    <3>1. lh' = hdr /\ hdr' = hdr /\ phase' = "recover" /\ tail' = 0
      BY <2>1, Zenon DEF ReadHead
    <3>2. Distinct(lh') /\ Distinct(hdr')
      BY <1>0, <3>1, Zenon DEF CopyInv
    <3>3. \A i \in 1..tail' : FALSE
      BY <3>1
    <3>. QED
      BY <3>1, <3>2, <3>3, Zenon DEF CopyInv
  <2>2. CASE Recover
    <3> PICK b \in Blocks : b = lh[tail + 1]
      BY <1>0, <2>2 DEF Recover, InstallTrans, TypeOK
    <3>1. /\ home' = [home EXCEPT ![b] = logdata[tail + 1]]
          /\ tail' = tail + 1 /\ phase = "recover" /\ UNCHANGED <<lh, hdr, phase, logdata>>
          /\ tail < Len(lh)
      BY <2>2, Zenon DEF Recover, InstallTrans
    <3>2. \A i \in DOMAIN lh : /\ lh[i] \in Blocks /\ i \in 1..LOGSIZE
                               /\ lh[i] = b <=> i = tail + 1
      <4>1. Distinct(lh)
        BY <1>0, Zenon DEF CopyInv
      <4>. QED
        BY <1>0, <1>9, <3>1, <4>1 DEF Distinct
    <3>3. \A i \in 1..tail' : home'[lh[i]] = logdata[i]
      <4> TAKE i \in 1..tail'
      <4>1. i \in DOMAIN lh /\ lh[i] \in Blocks /\ (i = tail + 1 \/ i \in 1..tail)
        BY <1>9, <3>1, <3>2
      <4>2. CASE i = tail + 1
        BY <1>0, <3>1, <3>2, <4>1, <4>2, Zenon DEF TypeOK
      <4>3. CASE i # tail + 1
        <5>1. home'[lh[i]] = home[lh[i]]
          BY <1>0, <3>1, <3>2, <4>1, <4>3, ZenonT(60) DEF TypeOK
        <5>. QED
          BY <1>0, <3>1, <4>1, <4>3, <5>1, Zenon DEF CopyInv
      <4>. QED
        BY <4>2, <4>3, Zenon
    <3>. QED
      <4>1. Distinct(lh') /\ Distinct(hdr')
        BY <1>0, <3>1, Zenon DEF CopyInv
      <4>. QED
        BY <3>1, <3>3, <4>1, Zenon DEF CopyInv
  <2>3. CASE ResetRecovered
    <3>1. \A i \in DOMAIN hdr : home[hdr[i]] = logdata[i]
      <4>1. lh = hdr /\ DOMAIN lh = 1..tail
        BY <1>0, <2>3 DEF PhaseInv, ResetRecovered, ResetHead, TypeOK
      <4>. QED
        BY <1>0, <2>3, <4>1, Zenon DEF CopyInv, ResetRecovered, ResetHead
    <3>2. /\ lh' = <<>> /\ phase' \in {"erase", "recover_erase"}
          /\ UNCHANGED <<hdr, home, logdata>>
      BY <2>3, Zenon DEF ResetRecovered, ResetHead
    <3>3. Distinct(lh') /\ Distinct(hdr')
      BY <1>0, <3>2, DistinctEmpty, Zenon DEF CopyInv
    <3>. QED
      BY <3>1, <3>2, <3>3, Zenon DEF CopyInv
  <2>4. CASE EraseRecovered
    BY <1>0, <2>4, Zenon DEF CopyInv, EraseRecovered, WriteHead
  <2>. QED
    BY <1>3, <2>1, <2>2, <2>3, <2>4, ZenonT(60) DEF Initlog
<1>4. ASSUME NEW b \in Blocks, Load(b) \/ Evict(b) PROVE CopyInv'
  <2>1. /\ \A x \in Blocks : Bread(x)' = Bread(x)
        /\ UNCHANGED <<lh, hdr, home, logdata, phase, tail>>
    BY <1>4, BreadFrame, Zenon
  <2>2. \A i \in DOMAIN lh : Bread(lh[i])' = Bread(lh[i])
    BY <1>0, <2>1 DEF TypeOK
  <2>3. phase = "write_log" => \A i \in 1..tail : i \in DOMAIN lh
    BY <1>0 DEF PhaseInv, TypeOK
  <2>. QED
    BY <1>0, <2>1, <2>2, <2>3 DEF CopyInv
<1>5. CASE Crash
  <2>1. lh' = <<>> /\ hdr' = hdr /\ phase' = "read_head"
    BY <1>5, Zenon DEF Crash
  <2>2. Distinct(lh') /\ Distinct(hdr')
    BY <1>0, <2>1, DistinctEmpty, Zenon DEF CopyInv
  <2>. QED
    BY <2>1, <2>2, Zenon DEF CopyInv
<1>6. CASE UNCHANGED vars
  BY <1>0, <1>6, Zenon DEF vars, CopyInv, Bread
<1>. QED
  BY <1>1, <1>2, <1>3, <1>4, <1>5, <1>6, Zenon DEF Next

-----------------------------------------------------------------------------
\* While no commit installs, exactly the logged blocks are uninstalled.
LEMMA UninstalledLogged ==
  phase # "install" => \A b : Uninstalled(b) <=> Logged(b)
  BY Zenon DEF Uninstalled, Logged

\* Modified buffers stay logged or locked, pinned and cached when a thread runs ...
LEMMA BufThread ==
  ASSUME LogInv, NEW op \in Ops, Thread(op)
  PROVE  BufInv'
<1> USE LogAssumption DEF mem, thread, disk, job
<1>0. /\ TypeOK /\ SpaceInv /\ PhaseInv /\ CopyInv /\ BufInv
      /\ Len(lh) \in Nat /\ Len(lh) <= LOGSIZE
  BY LenBound, Zenon DEF LogInv
<1>1. BufInv'
  <2>1. CASE \/ Call(op) \/ BeginSleep(op) \/ KillWakes(op) \/ BeginAdmit(op)
    <3>1. UNCHANGED <<lh, phase, tail, pin, home, cache, buf>>
      BY <2>1, Zenon DEF Call, BeginSleep, KillWakes, BeginAdmit
    <3>. QED
      BY <1>0, <3>1, Zenon DEF BufInv, Uninstalled, Held
  <2>2. ASSUME NEW b \in Blocks, NEW v \in Values, Modify(op, b, v)
        PROVE  BufInv'
    <3>1. phase = "up" /\ UNCHANGED <<lh, phase, tail, pin, home>>
      BY <1>0, <2>2, Zenon DEF Modify, PhaseInv, Active
    <3>2. Held(b)' /\ \A x \in Blocks \ {b} : cache'[x] = cache[x] /\ (Held(x)' <=> Held(x))
      BY <1>0, <2>2, Zenon DEF Modify, Held, TypeOK
    <3>3. \A x : Uninstalled(x)' <=> Uninstalled(x)
      BY <3>1, Zenon DEF Uninstalled
    <3>. QED
      BY <1>0, <3>1, <3>2, <3>3, Zenon DEF BufInv, Recovery
  <2>3. CASE LogWrite(op)
    <3> PICK b \in Blocks : b = buf[op]
      BY <1>0, <2>3, Zenon DEF LogWrite, TypeOK
    <3>1. phase = "up" /\ UNCHANGED <<phase, tail, cache, home>>
      BY <1>0, <2>3, Zenon DEF LogWrite, PhaseInv, SpaceInv, Active
    <3>2. CASE LogWritePanics
      <4>1. UNCHANGED <<lh, pin, buf>>
        BY <2>3, <3>2, Zenon DEF LogWrite
      <4>. QED
        BY <1>0, <3>1, <4>1, Zenon DEF BufInv, Uninstalled, Held
    <3>3. CASE ~LogWritePanics
      <4>1. \A x \in Blocks : Logged(x)' <=> Logged(x) \/ x = b
        <5>1. CASE Logged(b)
          BY <2>3, <5>1, Zenon DEF LogWrite, Logged
        <5>2. CASE ~Logged(b)
          <6>1. lh \in Seq(Blocks) /\ lh' = Append(lh, b)
            BY <1>0, <2>3, <3>3, <5>2, Zenon DEF TypeOK, LogWrite
          <6>2. /\ DOMAIN lh = 1..Len(lh) /\ DOMAIN lh' = 1..(Len(lh) + 1)
                /\ lh'[Len(lh) + 1] = b /\ \A i \in 1..Len(lh) : lh'[i] = lh[i]
            BY <6>1
          <6>. QED
            BY <1>0, <6>2 DEF Logged
        <5>. QED
          BY <5>1, <5>2, Zenon
      <4>2. \A x \in Blocks \ {b} : Held(x)' <=> Held(x)
        <5>1. buf' = [buf EXCEPT ![op] = Nil] /\ buf \in [Ops -> Blocks \cup {Nil}]
          BY <1>0, <2>3, <3>3, Zenon DEF LogWrite, TypeOK
        <5>2. \A o \in Ops \ {op} : buf'[o] = buf[o]
          BY <5>1, Zenon
        <5>3. buf'[op] = Nil /\ buf[op] = b /\ Nil \notin Blocks
          BY <5>1, LogAssumption, Zenon
        <5>. QED
          BY <5>2, <5>3, Zenon DEF Held
      <4>3. pin' = IF Logged(b) THEN pin ELSE [pin EXCEPT ![b] = @ + 1]
        BY <2>3, <3>3, Zenon DEF LogWrite
      <4>4. \A x : (Uninstalled(x) <=> Logged(x)) /\ (Uninstalled(x)' <=> Logged(x)')
        BY <3>1, Zenon DEF Uninstalled, Logged
      <4>5. pin[b] = IF Logged(b) THEN 1 ELSE 0
        BY <1>0, <3>1, <4>4, Zenon DEF BufInv, Recovery
      <4>6. (\A x \in Blocks \ {b} : pin'[x] = pin[x]) /\ pin'[b] = 1
        BY <1>0, <4>3, <4>5 DEF TypeOK
      <4>7. phase \notin Recovery /\ phase' \notin Recovery
        BY <3>1, Zenon DEF Recovery
      <4>8. ASSUME NEW x \in Blocks
            PROVE  /\ (~Uninstalled(x)' /\ ~Held(x)') => cache'[x] \in {Nil, home'[x]}
                   /\ pin'[x] = IF Uninstalled(x)' THEN 1 ELSE 0
        <5>1. CASE x = b
          BY <4>1, <4>4, <4>6, <5>1, Zenon
        <5>2. CASE x # b
          <6>1. (Uninstalled(x)' <=> Uninstalled(x)) /\ (Held(x)' <=> Held(x)) /\ pin'[x] = pin[x]
            BY <4>1, <4>2, <4>4, <4>6, <5>2, Zenon
          <6>2. /\ (~Uninstalled(x) /\ ~Held(x)) => cache[x] \in {Nil, home[x]}
                /\ pin[x] = IF Uninstalled(x) THEN 1 ELSE 0
            BY <1>0, <4>7, Zenon DEF BufInv
          <6>. QED
            BY <3>1, <6>1, <6>2, Zenon
        <5>. QED
          BY <5>1, <5>2, Zenon
      <4>. QED
        BY <4>7, <4>8, Zenon DEF BufInv
    <3>. QED
      BY <3>2, <3>3, Zenon
  <2>4. CASE EndOp(op)
    <3>1. /\ UNCHANGED <<lh, buf, cache, home, pin>>
          /\ phase = "up" /\ phase' \in {"up", "commit"}
      BY <2>4, EndOpActive, Zenon DEF EndOp
    <3>2. \A x : (Uninstalled(x)' <=> Uninstalled(x)) /\ (Held(x)' <=> Held(x))
      BY <3>1, Zenon DEF Uninstalled, Held
    <3>. QED
      BY <1>0, <3>1, <3>2, Zenon DEF BufInv, Recovery
  <2>5. CASE EndCommit(op)
    BY <1>0, <2>5, Zenon DEF BufInv, EndCommit, Uninstalled, Held, Recovery
  <2>. QED
    BY <2>1, <2>2, <2>3, <2>4, <2>5, Zenon DEF Thread
<1>. QED
  BY <1>1, Zenon

\* ... in commit() ...
LEMMA BufCommit ==
  ASSUME LogInv, Commit
  PROVE  BufInv'
<1> USE LogAssumption DEF mem, thread, disk, job
<1>0. /\ TypeOK /\ SpaceInv /\ PhaseInv /\ CopyInv /\ BufInv
      /\ Len(lh) \in Nat /\ Len(lh) <= LOGSIZE
  BY LenBound, Zenon DEF LogInv
<1>1. BufInv'
  <2>0. \A x : Held(x)' <=> Held(x)
    BY Zenon DEF Commit, StartCommit, WriteLog, CommitPoint, Install, ResetLog, EraseLog,
                WriteHead, InstallTrans, ResetHead, Held
  <2>1. CASE StartCommit \/ EraseLog
    BY <1>0, <2>0, <2>1, Zenon
       DEF BufInv, StartCommit, EraseLog, WriteHead, Uninstalled, Recovery
  <2>2. CASE WriteLog
    <3> PICK b \in Blocks : b = lh[tail + 1]
      BY <1>0, <2>2 DEF WriteLog, TypeOK
    <3>1. /\ cache' = [cache EXCEPT ![b] = Bread(b)]
          /\ phase = "write_log" /\ UNCHANGED <<lh, phase, pin, home>>
      BY <2>2, Zenon DEF WriteLog
    <3>2. \A x : Uninstalled(x)' <=> Uninstalled(x)
      BY <3>1, Zenon DEF Uninstalled
    <3>3. Bread(b) = cache[b] \/ Bread(b) = home[b]
      BY Zenon DEF Bread
    <3>. QED
      BY <1>0, <2>0, <3>1, <3>2, <3>3, Zenon DEF BufInv, Recovery, TypeOK
  <2>3. CASE CommitPoint
    <3>1. /\ phase = "write_log" /\ phase' = "install" /\ tail' = 0
          /\ UNCHANGED <<lh, pin, home, cache>>
      BY <2>3, Zenon DEF CommitPoint, WriteHead
    <3>2. \A i \in DOMAIN lh : i > 0
      BY <1>0 DEF TypeOK
    <3>3. \A x : Uninstalled(x)' <=> Uninstalled(x)
      BY <3>1, <3>2, Zenon DEF Uninstalled
    <3>4. \A x \in Blocks : /\ (~Uninstalled(x) /\ ~Held(x)) => cache[x] \in {Nil, home[x]}
                            /\ pin[x] = IF Uninstalled(x) THEN 1 ELSE 0
      BY <1>0, <3>1, Zenon DEF BufInv, Recovery
    <3>. QED
      BY <2>0, <3>1, <3>3, <3>4, Zenon DEF BufInv, Recovery
  <2>4. CASE Install
    <3> PICK b \in Blocks : b = lh[tail + 1]
      <4>1. tail < Len(lh) /\ lh \in Seq(Blocks) /\ tail \in Nat
        BY <1>0, <2>4, Zenon DEF Install, InstallTrans, TypeOK
      <4>. QED
        BY <1>0, <4>1
    <3>1. /\ cache' = [cache EXCEPT ![b] = logdata[tail + 1]]
          /\ home' = [home EXCEPT ![b] = logdata[tail + 1]]
          /\ pin' = [pin EXCEPT ![b] = @ - 1]
          /\ tail' = tail + 1 /\ phase = "install" /\ UNCHANGED <<lh, phase>>
          /\ tail < Len(lh)
      BY <2>4, Zenon DEF Install, InstallTrans
    <3>2. /\ DOMAIN lh = 1..Len(lh) /\ tail \in Nat
          /\ \A i \in DOMAIN lh : lh[i] = b <=> i = tail + 1
      <4>1. Distinct(lh) /\ lh \in Seq(Blocks) /\ tail \in Nat
        BY <1>0, Zenon DEF CopyInv, TypeOK
      <4>. QED
        BY <3>1, <4>1 DEF Distinct
    <3>3. Uninstalled(b) /\ ~Uninstalled(b)'
      BY <1>0, <3>1, <3>2, SMT, SMTT(30) DEF Uninstalled
    <3>4. \A x \in Blocks \ {b} : Uninstalled(x)' <=> Uninstalled(x)
      BY <3>1, <3>2, SMT, SMTT(30) DEF Uninstalled
    <3>. QED
      <4> SUFFICES ASSUME NEW x \in Blocks
                   PROVE  /\ (~Uninstalled(x)' /\ ~Held(x)') => cache'[x] \in {Nil, home'[x]}
                          /\ pin'[x] = IF Uninstalled(x)' THEN 1 ELSE 0
        BY <3>1, Zenon DEF BufInv, Recovery
      <4>1. /\ cache \in [Blocks -> Values \cup {Nil}] /\ home \in [Blocks -> Values]
            /\ pin \in [Blocks -> Int]
        BY <1>0, Zenon DEF TypeOK
      <4>2. /\ (~Uninstalled(x) /\ ~Held(x)) => cache[x] \in {Nil, home[x]}
            /\ pin[x] = IF Uninstalled(x) THEN 1 ELSE 0
        BY <1>0, <3>1, Zenon DEF BufInv, Recovery
      <4>3. CASE x = b
        <5>1. cache'[x] = home'[x] /\ pin'[x] = pin[x] - 1
          BY <3>1, <4>1, <4>3, Zenon
        <5>2. pin[x] = 1
          BY <3>3, <4>2, <4>3, Zenon
        <5>3. pin'[x] = 0
          BY ONLY <5>1, <5>2
        <5>. QED
          BY <3>3, <4>3, <5>1, <5>3, Zenon
      <4>4. CASE x # b
        <5>1. cache'[x] = cache[x] /\ home'[x] = home[x] /\ pin'[x] = pin[x]
          BY <3>1, <4>1, <4>4, Zenon
        <5>2. (Uninstalled(x)' <=> Uninstalled(x)) /\ (Held(x)' <=> Held(x))
          BY <2>0, <3>4, <4>4, Zenon
        <5>. QED
          BY <4>2, <5>1, <5>2, Zenon
      <4>. QED
        BY <4>3, <4>4, Zenon
  <2>5. CASE ResetLog
    <3>1. /\ phase = "install" /\ phase' = "erase" /\ tail = Len(lh) /\ lh' = <<>>
          /\ UNCHANGED <<pin, home, cache>>
      BY <2>5, Zenon DEF ResetLog, ResetHead
    <3>2. \A x : ~Uninstalled(x) /\ ~Uninstalled(x)'
      <4>1. lh \in Seq(Blocks)
        BY <1>0, Zenon DEF TypeOK
      <4>. QED
        BY <3>1, <4>1 DEF Uninstalled
    <3>. QED
      BY <1>0, <2>0, <3>1, <3>2, Zenon DEF BufInv, Recovery
  <2>. QED
    BY <2>1, <2>2, <2>3, <2>4, <2>5, Zenon DEF Commit
<1>. QED
  BY <1>1, Zenon

\* ... and in initlog().
LEMMA BufInitlog ==
  ASSUME LogInv, Initlog
  PROVE  BufInv'
<1> USE LogAssumption DEF mem, thread, disk, job
<1>0. /\ TypeOK /\ SpaceInv /\ PhaseInv /\ CopyInv /\ BufInv
      /\ Len(lh) \in Nat /\ Len(lh) <= LOGSIZE
  BY LenBound, Zenon DEF LogInv
<1>1. BufInv'
  <2>1. \A b \in Blocks : cache[b] \in {Nil, home[b]} /\ pin[b] = 0
    BY <1>0, Zenon DEF BufInv, Initlog, ReadHead, Recover, ResetRecovered, EraseRecovered,
                      WriteHead, InstallTrans, ResetHead, Recovery
  <2>2. pin' = pin /\ \A b \in Blocks : cache'[b] \in {Nil, home'[b]}
    <3>1. CASE Recover
      <4>1. /\ lh[tail + 1] \in Blocks
            /\ cache' = [cache EXCEPT ![lh[tail + 1]] = logdata[tail + 1]]
            /\ home' = [home EXCEPT ![lh[tail + 1]] = logdata[tail + 1]] /\ pin' = pin
        BY <1>0, <3>1, SMTT(30) DEF Recover, InstallTrans, TypeOK
      <4>. QED
        BY <1>0, <2>1, <4>1, Zenon DEF TypeOK
    <3>2. CASE ReadHead \/ ResetRecovered \/ EraseRecovered
      BY <2>1, <3>2, Zenon DEF ReadHead, ResetRecovered, EraseRecovered, WriteHead, ResetHead
    <3>. QED
      BY <3>1, <3>2, Zenon DEF Initlog
  <2>3. phase' \in Recovery \/ lh' = <<>>
    BY <1>0, Zenon DEF Initlog, ReadHead, Recover, ResetRecovered, EraseRecovered,
                      WriteHead, InstallTrans, ResetHead, Recovery, PhaseInv
  <2>. QED
    BY <2>1, <2>2, <2>3, SMTT(30) DEF BufInv, Uninstalled
<1>. QED
  BY <1>1, Zenon

\* Every step keeps buffers in agreement with the home blocks and the log.
LEMMA BufStep == LogInv /\ [Next]_vars => BufInv'
<1> SUFFICES ASSUME LogInv, [Next]_vars PROVE BufInv'
  BY Zenon
<1> USE LogAssumption DEF mem, thread, disk, job
<1>0. /\ TypeOK /\ SpaceInv /\ PhaseInv /\ CopyInv /\ BufInv
      /\ Len(lh) \in Nat /\ Len(lh) <= LOGSIZE
  BY LenBound, Zenon DEF LogInv
<1>4. ASSUME NEW b \in Blocks, Load(b) \/ Evict(b) PROVE BufInv'
  <2>1. UNCHANGED <<lh, buf, pin, home, phase, tail>>
    BY <1>4, BreadFrame, Zenon
  <2>2. \A x : (Uninstalled(x)' <=> Uninstalled(x)) /\ (Held(x)' <=> Held(x))
    BY <2>1, Zenon DEF Uninstalled, Held
  <2>3. \A x \in Blocks : cache'[x] \in {Nil, home[x], cache[x]}
    <3>1. cache \in [Blocks -> Values \cup {Nil}]
      BY <1>0, Zenon DEF TypeOK
    <3>2. cache' = [cache EXCEPT ![b] = home[b]] \/ cache' = [cache EXCEPT ![b] = Nil]
      BY <1>4, Zenon DEF Load, Evict
    <3>. QED
      BY <3>1, <3>2, Zenon
  <2>. QED
    BY <1>0, <2>1, <2>2, <2>3, Zenon DEF BufInv
<1>5. CASE Crash
  BY <1>5, Zenon DEF Crash, BufInv, Recovery
<1>6. CASE UNCHANGED vars
  BY <1>0, <1>6, Zenon DEF vars, BufInv, Uninstalled, Held
<1>. QED
  BY BufThread, BufCommit, BufInitlog, <1>4, <1>5, <1>6, Zenon DEF Next

-----------------------------------------------------------------------------
\* LogInv is inductive, hence holds in every reachable state of the log,
\* for every number of threads and blocks and every log size.
THEOREM LogInvariant == Spec => []LogInv
<1>1. LogInv /\ [Next]_vars => LogInv'
  BY TypeStep, SpaceStep, PhaseStep, CopyStep, BufStep, Zenon DEF LogInv
<1>. QED
  BY InitInv, <1>1, PTL DEF Spec

\* The spare slots every call keeps outweigh the header block and the
\* absorbing writes: what the sizes must satisfy for log_write() not to panic.
SpaceSuffices ==
  OpBlocks < MAXOPBLOCKS /\ LOGSIZE + OpBlocks + 1 < SIZE + MAXOPBLOCKS

\* log_write() by a call in progress does not meet its panics.
LEMMA LogWriteSafe ==
  ASSUME SpaceSuffices, LogInv, NEW op \in Ops, buf[op] # Nil
  PROVE  ~LogWritePanics
<1> USE LogAssumption
<1>0. TypeOK /\ SpaceInv
  BY Zenon DEF LogInv
<1>1. /\ pc[op] = "active" /\ Cardinality(wrote[op]) <= OpBlocks
      /\ Cardinality(wrote[op]) \in Nat
  BY <1>0, BlockSetsFinite, Zenon DEF SpaceInv, TypeOK
<1>2. Slots \in SUBSET (Ops \X (1..MAXOPBLOCKS))
  BY Zenon DEF Slots
<1>3. {op} \X ((OpBlocks + 1)..MAXOPBLOCKS) \subseteq Slots
  BY <1>1 DEF Slots
<1>4. Cardinality(Slots) >= MAXOPBLOCKS - OpBlocks /\ Cardinality(Slots) \in Nat
  BY <1>2, <1>3, SlotsLeft, SlotSetsFinite, Zenon
<1>5. Len(lh) \in Nat /\ Len(lh) + Cardinality(Slots) <= LOGSIZE
  <2>1. lh \in Seq(Blocks) /\ Len(lh) + Cardinality(Slots) <= LOGSIZE
    BY <1>0, Zenon DEF SpaceInv, TypeOK
  <2>. QED
    BY ONLY <2>1
<1>6. outstanding >= 1
  <2>1. op \in Active /\ Active \in SUBSET Ops
    BY <1>1, Zenon DEF Active
  <2>2. Cardinality(Active) \in Nat /\ Cardinality(Active) # 0
    BY <2>1, BlockSetsFinite, FS_EmptySet, Zenon
  <2>3. outstanding = Cardinality(Active)
    BY <1>0, Zenon DEF SpaceInv
  <2>. QED
    BY <2>2, <2>3
<1>. QED
  BY <1>0, <1>4, <1>5, <1>6 DEF LogWritePanics, SpaceSuffices, TypeOK

\* If calls write fewer blocks than begin_op() reserves by at least the
\* margin SpaceSuffices, log_write() and end_op() never panic.
THEOREM NeverPanics == SpaceSuffices => (Spec => []NoPanic)
<1> SUFFICES ASSUME SpaceSuffices PROVE Spec => []NoPanic
  BY Zenon
<1>1. Init => NoPanic
  BY Zenon DEF Init, NoPanic
<1>2. LogInv /\ NoPanic /\ [Next]_vars => NoPanic'
  <2> SUFFICES ASSUME LogInv, NoPanic, [Next]_vars PROVE NoPanic'
    BY Zenon
  <2> USE DEF NoPanic, mem, thread, disk, job
  <2>1. ASSUME NEW op \in Ops, Thread(op) PROVE NoPanic'
    <3>1. CASE LogWrite(op)
      BY <3>1, LogWriteSafe, Zenon DEF LogWrite
    <3>2. CASE EndOp(op)
      BY <3>2, EndOpActive, Zenon DEF EndOp
    <3>3. ASSUME NEW b \in Blocks, NEW v \in Values, Modify(op, b, v)
          PROVE  NoPanic'
      BY <3>3, Zenon DEF Modify
    <3>4. CASE Call(op) \/ BeginSleep(op) \/ BeginAdmit(op) \/ KillWakes(op) \/ EndCommit(op)
      BY <3>4, Zenon DEF Call, BeginSleep, BeginAdmit, KillWakes, EndCommit
    <3>. QED
      BY <2>1, <3>1, <3>2, <3>3, <3>4, Zenon DEF Thread
  <2>2. CASE Commit
    BY <2>2, Zenon DEF Commit, StartCommit, WriteLog, CommitPoint, Install, ResetLog, EraseLog,
                WriteHead, InstallTrans, ResetHead
  <2>3. CASE Initlog
    BY <2>3, Zenon DEF Initlog, ReadHead, Recover, ResetRecovered, EraseRecovered,
                WriteHead, InstallTrans, ResetHead
  <2>4. ASSUME NEW b \in Blocks, Load(b) \/ Evict(b) PROVE NoPanic'
    BY <2>4, Zenon DEF Load, Evict
  <2>5. CASE Crash
    BY <2>5, Zenon DEF Crash
  <2>6. CASE UNCHANGED vars
    BY <2>6, Zenon DEF vars
  <2>. QED
    BY <2>1, <2>2, <2>3, <2>4, <2>5, <2>6, Zenon DEF Next
<1>. QED
  BY <1>1, <1>2, LogInvariant, PTL DEF Spec

\* A modified buffer is pinned once until install_trans() writes it home.
THEOREM BuffersStayPinned == Spec => []PinnedUntilInstalled
<1>1. LogInv => PinnedUntilInstalled
  BY LogAssumption, Zenon DEF LogInv, BufInv, PinnedUntilInstalled, Bread, TypeOK
<1>. QED
  BY <1>1, LogInvariant, PTL

\* With no call and no commit in progress, all updates are at home.
THEOREM RestIsDurable == Spec => []QuietIsDurable
<1>1. LogInv => QuietIsDurable
  <2> SUFFICES ASSUME LogInv, phase = "up", Active = {}
               PROVE  /\ lh = <<>> /\ hdr = <<>>
                      /\ \A b \in Blocks : Bread(b) = home[b]
    BY Zenon DEF QuietIsDurable
  <2>1. lh = <<>> /\ hdr = <<>>
    BY Zenon DEF LogInv, PhaseInv
  <2>2. \A b \in Blocks : ~Uninstalled(b)
    BY <2>1 DEF Uninstalled
  <2>3. \A op \in Ops : buf[op] = Nil
    BY Zenon DEF LogInv, SpaceInv, Active
  <2>4. \A b \in Blocks : ~Held(b)
    BY <2>3, LogAssumption, Zenon DEF Held
  <2>. QED
    BY <2>1, <2>2, <2>4, LogAssumption, Zenon DEF LogInv, BufInv, Bread
<1>. QED
  BY <1>1, LogInvariant, PTL

-----------------------------------------------------------------------------
(***************************************************************************)

\* A header without repetition is replayed entry by entry.
LEMMA ReplayDistinct ==
  ASSUME NEW h \in Seq(Blocks), NEW d, NEW m, Distinct(h), NEW b \in Blocks
  PROVE  /\ \A i \in DOMAIN h : h[i] = b => Replay(h, d, m)[b] = d[i]
         /\ (\A i \in DOMAIN h : h[i] # b) => Replay(h, d, m)[b] = m[b]
<1>1. ASSUME NEW i \in DOMAIN h, h[i] = b
      PROVE  Replay(h, d, m)[b] = d[i]
  <2>1. Copies(h, b) = {i}
    BY <1>1, Zenon DEF Copies, Distinct
  <2>2. i \in Nat
    OBVIOUS
  <2>3. (CHOOSE k \in {i} : \A j \in {i} : j <= k) = i
    BY <2>2
  <2>4. Replay(h, d, m)[b] = d[CHOOSE k \in {i} : \A j \in {i} : j <= k]
    BY <2>1, Zenon DEF Replay
  <2>. QED
    BY <2>3, <2>4, Zenon
<1>2. ASSUME \A i \in DOMAIN h : h[i] # b
      PROVE  Replay(h, d, m)[b] = m[b]
  BY <1>2, Zenon DEF Copies, Replay
<1>. QED
  BY <1>1, <1>2, Zenon

\* An empty header leaves the home blocks alone.
LEMMA ReplayEmpty ==
  ASSUME NEW d, NEW m \in [Blocks -> Values]
  PROVE  Replay(<<>>, d, m) = m
<1>1. \A b : Copies(<<>>, b) = {}
  BY DEF Copies
<1>. QED
  BY <1>1, Zenon DEF Replay

\* Installing a logged block, or erasing a fully installed log, does not
\* change what a reboot brings back.
LEMMA ReplayInstall ==
  ASSUME NEW h \in Seq(Blocks), NEW d, NEW m \in [Blocks -> Values], Distinct(h),
         NEW i \in DOMAIN h, d[i] \in Values
  PROVE  Replay(h, d, [m EXCEPT ![h[i]] = d[i]]) = Replay(h, d, m)
<1> DEFINE n == [m EXCEPT ![h[i]] = d[i]]
<1>1. ASSUME NEW b \in Blocks PROVE Replay(h, d, n)[b] = Replay(h, d, m)[b]
  <2>1. CASE \E j \in DOMAIN h : h[j] = b
    BY <2>1, ReplayDistinct
  <2>2. CASE \A j \in DOMAIN h : h[j] # b
    <3>1. n[b] = m[b]
      BY <2>2, Zenon
    <3> HIDE DEF n
    <3>2. \A k : Replay(h, d, k)[b] = k[b]
      BY <2>2, ReplayDistinct
    <3>. QED
      BY <3>1, <3>2, Zenon
  <2>. QED
    BY <2>1, <2>2, Zenon
<1>. QED
  BY <1>1, Zenon DEF Replay

LEMMA ReplayInstalled ==
  ASSUME NEW h \in Seq(Blocks), NEW d, NEW m \in [Blocks -> Values], Distinct(h),
         \A i \in DOMAIN h : m[h[i]] = d[i]
  PROVE  Replay(h, d, m) = m
<1>1. ASSUME NEW b \in Blocks PROVE Replay(h, d, m)[b] = m[b]
  BY ReplayDistinct
<1>. QED
  BY <1>1, Zenon DEF Replay

-----------------------------------------------------------------------------
\* Outside recovery, a block that is neither logged nor locked reads as its
\* home block.
LEMMA BreadHome ==
  ASSUME LogInv, NEW b \in Blocks, ~Uninstalled(b), ~Held(b)
  PROVE  Bread(b) = home[b]
  BY Zenon DEF LogInv, BufInv, Bread

\* The parts of the state AtomicDisk sees.
LEMMA Frame ==
  ASSUME UNCHANGED <<hdr, logdata, home, phase, cache>>
  PROVE  Durable' = Durable /\ View' = View
  BY DEF Durable, View, Replay, Copies, Bread

\* Without a committed header on disk a reboot brings back the home blocks.
LEMMA DurableHome ==
  ASSUME TypeOK, hdr = <<>>
  PROVE  Durable = home
  BY ReplayEmpty, Zenon DEF TypeOK, Durable

\* install_trans(), before and after a reboot, leaves the outcome alone.
LEMMA InstallStutters ==
  ASSUME LogInv, NEW recovering \in BOOLEAN, InstallTrans(recovering)
  PROVE  Durable' = Durable
<1> USE DEF LogInv
<1>1. lh = hdr /\ phase \in {"recover", "install"}
  BY Zenon DEF InstallTrans, PhaseInv
<1>2. /\ hdr \in Seq(Blocks) /\ Distinct(hdr) /\ home \in [Blocks -> Values]
      /\ tail + 1 \in DOMAIN hdr
      /\ logdata[tail + 1] \in Values
  <2>1. tail + 1 \in 1..LOGSIZE
    <3>1. tail \in Nat
      BY Zenon DEF TypeOK
    <3>2. tail < Len(lh)
      BY Zenon DEF InstallTrans
    <3> HIDE DEF LogInv
    <3>. QED
      BY <3>1, <3>2, LenBound, LogAssumption
  <2>2. /\ hdr \in Seq(Blocks) /\ home \in [Blocks -> Values]
        /\ DOMAIN logdata = 1..LOGSIZE /\ \A i \in 1..LOGSIZE : logdata[i] \in Values
    BY Zenon DEF TypeOK
  <2>3. Distinct(hdr)
    BY Zenon DEF CopyInv
  <2>4. tail \in Nat /\ tail < Len(hdr)
    BY <1>1, Zenon DEF InstallTrans, TypeOK
  <2>5. tail + 1 \in DOMAIN hdr
    BY <2>2, <2>4
  <2>. QED
    BY <2>1, <2>2, <2>3, <2>5, Zenon
<1>3. home' = [home EXCEPT ![hdr[tail + 1]] = logdata[tail + 1]]
  BY <1>1, Zenon DEF InstallTrans
<1>4. hdr' = hdr /\ logdata' = logdata
  BY Zenon DEF InstallTrans
<1>5. Durable' = Replay(hdr, logdata, home')
  BY <1>4 DEF Durable, Replay, Copies
<1>. QED
  BY <1>2, <1>3, <1>5, ReplayInstall, Zenon DEF Durable

\* commit()'s header write makes exactly what is read now durable.
LEMMA CommitPointCommits ==
  ASSUME LogInv, CommitPoint
  PROVE  A!Commit
<1> USE DEF LogInv
<1>1. /\ phase = "write_log" /\ tail = Len(lh)
      /\ hdr' = lh /\ phase' = "install"
      /\ UNCHANGED <<home, logdata, cache, pc>>
  BY Zenon DEF CommitPoint, WriteHead, thread
<1>2. Active = {} /\ Active' = Active
  BY <1>1, Zenon DEF PhaseInv, Active
<1>3. \A b \in Blocks : ~Held(b)
  BY <1>2, LogAssumption, Zenon DEF SpaceInv, Held, Active
<1>4. View = [b \in Blocks |-> Bread(b)] /\ View' = View
  BY <1>1, Zenon DEF View, Bread, Recovery
<1>5. Durable' = Replay(lh, logdata, home)
  BY <1>1 DEF Durable, Replay, Copies
<1>6. lh \in Seq(Blocks) /\ Distinct(lh) /\ DOMAIN lh = 1..Len(lh)
  BY DEF TypeOK, CopyInv
<1>7. ASSUME NEW b \in Blocks
      PROVE  Replay(lh, logdata, home)[b] = Bread(b)
  <2>1. ASSUME NEW i \in DOMAIN lh, lh[i] = b
        PROVE  Replay(lh, logdata, home)[b] = Bread(b)
    <3>0. \A k \in DOMAIN lh : lh[k] = b => Replay(lh, logdata, home)[b] = logdata[k]
      BY <1>6, ReplayDistinct
    <3>1. Replay(lh, logdata, home)[b] = logdata[i]
      BY <2>1, <3>0, Zenon
    <3>2. i \in 1..tail
      BY <1>1, <1>6, Zenon
    <3>3. logdata[i] = Bread(lh[i])
      BY <1>1, <3>2, Zenon DEF CopyInv
    <3>. QED
      BY <2>1, <3>1, <3>3, Zenon
  <2>2. ASSUME \A i \in DOMAIN lh : lh[i] # b
        PROVE  Replay(lh, logdata, home)[b] = Bread(b)
    <3>1. ~Uninstalled(b)
      BY <2>2, Zenon DEF Uninstalled
    <3>2. Bread(b) = home[b]
      BY <1>3, <3>1, BreadHome, Zenon
    <3>. QED
      BY <1>6, <2>2, <3>2, ReplayDistinct
  <2>. QED
    BY <2>1, <2>2, Zenon
<1>8. Durable' = View
  BY <1>4, <1>5, <1>7, Zenon DEF Replay
<1>. QED
  BY <1>2, <1>4, <1>8, Zenon DEF A!Commit

\* The header on disk is erased only once every logged block is at home.
LEMMA EraseStutters ==
  ASSUME LogInv, NEW to, phase \in {"recover_erase", "erase"}, WriteHead(phase, to)
  PROVE  Durable' = Durable /\ Durable = home
<1> USE DEF LogInv
<1>1. Durable = home
  BY ReplayInstalled, Zenon DEF Durable, TypeOK, CopyInv
<1>2. hdr' = <<>> /\ logdata' = logdata /\ home' = home
  BY Zenon DEF WriteHead, PhaseInv
<1>3. Durable' = Replay(<<>>, logdata, home)
  BY <1>2 DEF Durable, Replay, Copies
<1>. QED
  BY <1>1, <1>3, ReplayEmpty, Zenon DEF TypeOK

-----------------------------------------------------------------------------
\* Each step of the log is a step of AtomicDisk or invisible to it.
LEMMA ThreadStep ==
  ASSUME LogInv, NEW op \in Ops, Thread(op)
  PROVE  [A!Next]_(A!vars)
<1> USE DEF LogInv
<1>1. ASSUME Call(op) \/ BeginSleep(op) \/ KillWakes(op) PROVE UNCHANGED A!vars
  <2>1. Durable' = Durable /\ View' = View
    BY <1>1, Frame, Zenon DEF Call, BeginSleep, KillWakes, disk, job
  <2>2. Active' = Active
    BY <1>1, Zenon DEF Call, BeginSleep, KillWakes, Active, TypeOK
  <2>. QED
    BY <2>1, <2>2, Zenon DEF A!vars
<1>2. ASSUME BeginAdmit(op) PROVE A!Begin(op)
  <2>1. Durable' = Durable /\ View' = View
    BY <1>2, Frame, Zenon DEF BeginAdmit, disk, job
  <2>2. op \notin Active /\ Active' = Active \cup {op}
    BY <1>2, Zenon DEF BeginAdmit, Active, TypeOK
  <2>. QED
    BY <2>1, <2>2, Zenon DEF A!Begin
<1>3. ASSUME NEW b \in Blocks, NEW v \in Values, Modify(op, b, v) PROVE A!Write(b, v)
  <2>1. phase = "up" \/ phase \in Committing
    BY <1>3, Zenon DEF Modify, Up, Recovery, TypeOK
  <2>2. UNCHANGED <<hdr, logdata, home, phase, pc>>
    BY <1>3, Zenon DEF Modify, disk, job
  <2>3. Durable' = Durable
    BY <2>2 DEF Durable, Replay, Copies
  <2>4. v # Nil
    BY LogAssumption, Zenon
  <2>5. phase \notin Recovery
    BY <1>3, Zenon DEF Modify, Up
  <2>6. View' = [View EXCEPT ![b] = v]
    BY <1>3, <2>2, <2>4, <2>5, Zenon DEF Modify, View, Bread, TypeOK
  <2>7. Active # {} /\ Active' = Active
    BY <1>3, <2>2, Zenon DEF Modify, Active
  <2>. QED
    BY <2>3, <2>6, <2>7, Zenon DEF A!Write
<1>4. ASSUME LogWrite(op) PROVE UNCHANGED A!vars
  <2>1. Durable' = Durable /\ View' = View
    BY <1>4, Frame, Zenon DEF LogWrite, disk, job
  <2>2. Active' = Active
    BY <1>4, Zenon DEF LogWrite, Active
  <2>. QED
    BY <2>1, <2>2, Zenon DEF A!vars
<1>5. ASSUME EndOp(op) PROVE A!End(op)
  <2>1. phase = "up" /\ phase' \in {"up", "commit"} /\ UNCHANGED <<disk, cache>>
    BY <1>5, EndOpActive, Zenon DEF EndOp
  <2>2. Durable' = Durable
    BY <2>1 DEF Durable, Replay, Copies, disk
  <2>3. View' = View
    BY <2>1, <2>2, Zenon DEF View, Bread, Recovery, disk
  <2>4. op \in Active /\ Active' = Active \ {op}
    BY <1>5, Zenon DEF EndOp, Active, Wakeup, TypeOK
  <2>. QED
    BY <2>2, <2>3, <2>4, Zenon DEF A!End
<1>6. ASSUME EndCommit(op) PROVE UNCHANGED A!vars
  <2>1. phase = "end_commit" /\ phase' = "up" /\ UNCHANGED <<disk, cache>>
    BY <1>6, Zenon DEF EndCommit
  <2>2. Durable' = Durable
    BY <2>1 DEF Durable, Replay, Copies, disk
  <2>3. View' = View
    BY <2>1, <2>2, Zenon DEF View, Bread, Recovery, disk
  <2>4. Active' = Active
    BY <1>6, Zenon DEF EndCommit, Active, Wakeup, TypeOK
  <2>. QED
    BY <2>2, <2>3, <2>4, Zenon DEF A!vars
<1>. QED
  BY <1>1, <1>2, <1>3, <1>4, <1>5, <1>6, Zenon DEF Thread, A!Next

LEMMA CommitStep ==
  ASSUME LogInv, Commit
  PROVE  [A!Next]_(A!vars)
<1> USE DEF LogInv
<1>1. CASE StartCommit \/ ResetLog
  <2>1. /\ phase \notin Recovery /\ phase' \notin Recovery
        /\ UNCHANGED <<disk, cache, pc>>
    BY <1>1, Zenon DEF StartCommit, ResetLog, ResetHead, Up, Recovery, thread
  <2>2. Durable' = Durable
    BY <2>1, SMTT(30) DEF Durable, Replay, Copies, disk
  <2>3. View' = View /\ Active' = Active
    BY <2>1, <2>2, Zenon DEF View, Bread, disk, Active
  <2>. QED
    BY <2>2, <2>3, Zenon DEF A!vars
<1>2. CASE WriteLog
  <2>1. /\ phase = "write_log" /\ hdr = <<>>
        /\ UNCHANGED <<hdr, home, phase, pc>>
    BY <1>2, Zenon DEF WriteLog, PhaseInv, thread
  <2>2. Durable = home
    BY <2>1, DurableHome, Zenon
  <2>3. Durable' = Replay(<<>>, logdata', home)
    BY <2>1 DEF Durable, Replay, Copies
  <2>4. Durable' = Durable
    BY <2>2, <2>3, ReplayEmpty, Zenon DEF TypeOK
  <2>5. lh[tail + 1] \in Blocks
    BY <1>2, LenBound, SMTT(30) DEF WriteLog, TypeOK
  <2>6. ASSUME NEW b \in Blocks PROVE Bread(b)' = Bread(b)
    BY <1>2, <2>1, <2>5, Zenon DEF WriteLog, Bread, TypeOK
  <2>7. View' = View
    BY <2>1, <2>6, Zenon DEF View, Recovery
  <2>8. Active' = Active
    BY <2>1, Zenon DEF Active
  <2>. QED
    BY <2>4, <2>7, <2>8, Zenon DEF A!vars
<1>3. CASE CommitPoint
  BY <1>3, CommitPointCommits, Zenon DEF A!Next
<1>4. CASE Install
  <2>1. Durable' = Durable
    BY <1>4, InstallStutters, Zenon DEF Install
  <2>2. phase = "install" /\ lh = hdr /\ UNCHANGED <<phase, pc>>
    BY <1>4, Zenon DEF Install, InstallTrans, PhaseInv, thread
  <2>3. tail + 1 \in DOMAIN lh /\ tail + 1 \in 1..LOGSIZE /\ lh[tail + 1] \in Blocks
    <3>1. tail \in Nat /\ tail < Len(lh) /\ lh \in Seq(Blocks) /\ DOMAIN lh = 1..Len(lh)
      BY <1>4 DEF Install, InstallTrans, TypeOK
    <3>. QED
      <4>1. Len(lh) <= LOGSIZE
        BY LenBound, Zenon
      <4>. QED
        BY <3>1, <4>1, LogAssumption
  <2>4. Bread(lh[tail + 1]) = logdata[tail + 1] /\ logdata[tail + 1] \in Values
    BY <2>2, <2>3, Zenon DEF CopyInv, TypeOK
  <2>5. logdata[tail + 1] # Nil
    BY <2>4, LogAssumption, Zenon
  <2>6. ASSUME NEW b \in Blocks PROVE Bread(b)' = Bread(b)
    BY <1>4, <2>3, <2>4, <2>5, Zenon DEF Install, InstallTrans, Bread, TypeOK
  <2>7. View' = View /\ Active' = Active
    BY <2>2, <2>6, Zenon DEF View, Recovery, Active
  <2>. QED
    BY <2>1, <2>7, Zenon DEF A!vars
<1>5. CASE EraseLog
  <2>1. phase = "erase" /\ WriteHead("erase", "end_commit")
    BY <1>5, Zenon DEF EraseLog, WriteHead
  <2>2. Durable' = Durable
    BY <2>1, EraseStutters
  <2>3. phase' = "end_commit" /\ UNCHANGED <<cache, home, pc>>
    BY <2>1, Zenon DEF WriteHead, thread
  <2>4. View' = View /\ Active' = Active
    BY <2>1, <2>3, Zenon DEF View, Bread, Recovery, Active
  <2>. QED
    BY <2>2, <2>4, Zenon DEF A!vars
<1>. QED
  BY <1>1, <1>2, <1>3, <1>4, <1>5, Zenon DEF Commit

LEMMA InitlogStep ==
  ASSUME LogInv, Initlog
  PROVE  UNCHANGED A!vars
<1> USE DEF LogInv
<1>1. CASE ReadHead \/ ResetRecovered
  <2>1. phase \in Recovery /\ phase' \in Recovery /\ UNCHANGED <<disk, pc>>
    BY <1>1, Zenon DEF ReadHead, ResetRecovered, ResetHead, Recovery, thread
  <2>2. Durable' = Durable
    BY <2>1 DEF Durable, Replay, Copies, disk
  <2>. QED
    BY <2>1, <2>2, Zenon DEF View, Active, A!vars
<1>2. CASE Recover
  <2>1. phase \in Recovery /\ UNCHANGED <<phase, pc>>
    BY <1>2, Zenon DEF Recover, InstallTrans, Recovery, thread
  <2>2. Durable' = Durable
    BY <1>2, InstallStutters, Zenon DEF Recover
  <2>. QED
    BY <2>1, <2>2, Zenon DEF View, Active, A!vars
<1>3. CASE EraseRecovered
  <2>1. phase = "recover_erase" /\ phase' = "up" /\ UNCHANGED <<cache, home, pc>>
    BY <1>3, Zenon DEF EraseRecovered, WriteHead, thread
  <2>2. Durable' = Durable /\ Durable = home
    BY <1>3, <2>1, EraseStutters DEF EraseRecovered
  <2>3. \A b \in Blocks : Bread(b)' = home[b]
    BY <2>1, Zenon DEF BufInv, Bread, Recovery
  <2>4. View = home /\ View' = home
    BY <2>1, <2>2, <2>3, Zenon DEF View, Recovery, TypeOK
  <2>. QED
    BY <2>1, <2>2, <2>4, Zenon DEF Active, A!vars
<1>. QED
  BY <1>1, <1>2, <1>3, Zenon DEF Initlog

LEMMA AbstractStep ==
  ASSUME LogInv, [Next]_vars
  PROVE  [A!Next]_(A!vars)
<1>1. CASE UNCHANGED vars
  <2>1. Durable' = Durable /\ View' = View
    BY <1>1, Frame, Zenon DEF vars, disk, job
  <2>. QED
    BY <1>1, <2>1, Zenon DEF vars, thread, Active, A!vars
<1>2. ASSUME NEW b \in Blocks, Load(b) \/ Evict(b) PROVE UNCHANGED A!vars
  <2>1. \A x \in Blocks : Bread(x)' = Bread(x)
    BY <1>2, BreadFrame, Zenon
  <2>2. UNCHANGED <<disk, phase, pc>>
    BY <1>2, Zenon DEF Load, Evict, thread, job
  <2>3. Durable' = Durable
    BY <2>2 DEF Durable, Replay, Copies, disk
  <2>. QED
    BY <2>1, <2>2, <2>3, Zenon DEF View, Active, A!vars
<1>3. CASE Crash
  <2>1. UNCHANGED disk /\ phase' = "read_head" /\ Active' = {}
    BY <1>3, Zenon DEF Crash, Active
  <2>2. Durable' = Durable
    BY <2>1 DEF Durable, Replay, Copies, disk
  <2>3. View' = Durable
    BY <2>1, <2>2, Zenon DEF View, Recovery
  <2>. QED
    BY <2>1, <2>2, <2>3, Zenon DEF A!Crash, A!Next
<1>. QED
  BY <1>1, <1>2, <1>3, ThreadStep, CommitStep, InitlogStep, Zenon DEF Next

(***************************************************************************)
(* The log implements AtomicDisk: at every disk write of commit() and of   *)
(* recover_from_log() a crash brings back the last commit point, for every *)
(* number of threads, blocks, crashes and every log size.                  *)
(***************************************************************************)
THEOREM LogIsCrashAtomic == Spec => CrashAtomic
<1>1. Init => A!Init
  <2>1. ASSUME Init PROVE Durable = home /\ home = [b \in Blocks |-> InitVal]
    BY <2>1, ReplayEmpty, LogAssumption DEF Init, Durable
  <2>2. ASSUME Init PROVE View = Durable /\ Active = {}
    BY <2>2, Zenon DEF Init, View, Active, Recovery
  <2>. QED
    BY <2>1, <2>2, Zenon DEF A!Init
<1>2. LogInv /\ [Next]_vars => [A!Next]_(A!vars)
  BY AbstractStep, Zenon
<1>. QED
  BY <1>1, <1>2, LogInvariant, PTL DEF Spec, CrashAtomic, A!Spec
=============================================================================
