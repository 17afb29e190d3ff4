--------------------------- MODULE BufCacheProofs ---------------------------
(***************************************************************************)
(* Proofs about BufCache for every number of threads, blocks and buffers:  *)
(* reference counts are exact, no wakeup is lost, threads with two buffers *)
(* do not deadlock, and bget() panics only when every buffer is in use.    *)
(***************************************************************************)
EXTENDS BufCache, FiniteSetTheorems, TLAPS

\* A use has a buffer from bget() to the end of brelse(), for its block.
Attached == \A u \in Uses :
  /\ pc[u] = "idle" <=> buf[u] = None
  /\ buf[u] # None => want[u] \in Blocks /\ blockno[buf[u]] = want[u]

\* A block is in one buffer at most.
Distinct == \A b, c \in Bufs : blockno[b] = blockno[c] /\ blockno[b] # None => b = c

\* b->lock is held by the thread that is between bread() and brelse().
Owned ==
  /\ \A u \in Uses : pc[u] \in Holding => owner[buf[u]] = u
  /\ \A u \in Uses, b \in Bufs : owner[b] = u => buf[u] = b /\ pc[u] \in Holding
  /\ \A u \in Uses : pc[u] = "asleep" => owner[buf[u]] # None

\* Callers of bread() see the block.
Filled ==
  /\ \A b \in Bufs : valid[b] => blockno[b] \in Blocks
  /\ \A u \in Uses : pc[u] \in {"use", "dirty", "written"} => valid[buf[u]]
  /\ \A u \in Uses : pc[u] = "read" => ~valid[buf[u]]

\* A buffer that differs from the disk is pinned, or will be pinned or written
\* before it is released.
Clean ==
  /\ \A b \in Bufs : valid[b] => \/ data[b] = disk[blockno[b]]
                                 \/ b \in pinned
                                 \/ \E u \in Uses : buf[u] = b /\ pc[u] = "dirty"
  /\ \A u \in Uses : pc[u] = "written" => data[buf[u]] = disk[blockno[buf[u]]]

Counted ==
  /\ \A b \in Bufs : refcnt[b] = Cardinality({u \in Uses : buf[u] = b})
                                 + Cardinality(pinned \cap {b})
  /\ Cardinality(pinned) <= MaxPinned

BufInv == TypeOK /\ Attached /\ Distinct /\ Owned /\ Filled /\ Clean /\ Counted

-----------------------------------------------------------------------------
(* Counting *)

LEMMA UsesFinite == IsFiniteSet(Uses)
<1>1. IsFiniteSet({1}) /\ IsFiniteSet({2}) /\ {1, 2} = {1} \cup {2}
  BY FS_Singleton, Zenon
<1>2. IsFiniteSet({1, 2})
  BY <1>1, FS_Union, Zenon
<1>. QED
  BY <1>2, FS_Product, BufAssumption, Zenon DEF Uses

LEMMA UsersFinite ==
  ASSUME NEW b
  PROVE  /\ IsFiniteSet({u \in Uses : buf[u] = b})
         /\ Cardinality({u \in Uses : buf[u] = b}) \in Nat
<1>1. {u \in Uses : buf[u] = b} \in SUBSET Uses
  BY Zenon
<1>2. IsFiniteSet({u \in Uses : buf[u] = b})
  BY <1>1, FS_Subset, UsesFinite, Zenon
<1>. QED
  BY <1>2, FS_CardinalityType, Zenon

LEMMA PinCount ==
  ASSUME NEW b, NEW P
  PROVE  Cardinality(P \cap {b}) = IF b \in P THEN 1 ELSE 0
<1>1. CASE b \in P
  <2>1. P \cap {b} = {b}
    BY <1>1, Zenon
  <2>. QED
    BY <1>1, <2>1, FS_Singleton, Zenon
<1>2. CASE b \notin P
  <2>1. P \cap {b} = {}
    BY <1>2, Zenon
  <2>. QED
    BY <1>2, <2>1, FS_EmptySet, Zenon
<1>. QED
  BY <1>1, <1>2, Zenon

\* A buffer with reference count 0 has no thread and is not pinned; one with
\* another count has.
LEMMA Unreferenced ==
  ASSUME Counted, NEW b \in Bufs
  PROVE  refcnt[b] = 0 <=> b \notin pinned /\ \A u \in Uses : buf[u] # b
<1>1. PICK users \in Nat : users = Cardinality({u \in Uses : buf[u] = b})
  BY UsersFinite, Zenon
<1>2. refcnt[b] = users + IF b \in pinned THEN 1 ELSE 0
  BY <1>1, PinCount, Zenon DEF Counted
<1>3. users = 0 <=> {u \in Uses : buf[u] = b} = {}
  BY <1>1, UsersFinite, FS_EmptySet, Zenon
<1>. QED
  BY <1>2, <1>3

\* A thread gets b, or gives it back.
LEMMA Attach ==
  ASSUME NEW u \in Uses, NEW b, b # None, buf \in [Uses -> Bufs \cup {None}], buf[u] = None,
         buf' = [buf EXCEPT ![u] = b]
  PROVE  \A c \in Bufs : Cardinality({w \in Uses : buf'[w] = c}) =
           IF c = b THEN Cardinality({w \in Uses : buf[w] = c}) + 1
           ELSE Cardinality({w \in Uses : buf[w] = c})
<1> SUFFICES ASSUME NEW c \in Bufs
             PROVE  Cardinality({w \in Uses : buf'[w] = c}) =
                      IF c = b THEN Cardinality({w \in Uses : buf[w] = c}) + 1
                      ELSE Cardinality({w \in Uses : buf[w] = c})
  BY Zenon
<1>1. CASE c = b
  <2>1. {w \in Uses : buf'[w] = c} = {w \in Uses : buf[w] = c} \cup {u}
    BY <1>1, Zenon
  <2>2. u \notin {w \in Uses : buf[w] = c}
    BY <1>1, Zenon
  <2>3. ASSUME NEW U, IsFiniteSet(U), u \notin U
        PROVE  Cardinality(U \cup {u}) = Cardinality(U) + 1
    BY <2>3, FS_AddElement, Zenon
  <2>4. Cardinality({w \in Uses : buf'[w] = c}) = Cardinality({w \in Uses : buf[w] = c}) + 1
    BY <2>1, <2>2, <2>3, UsersFinite, Zenon
  <2>. QED
    BY <1>1, <2>4, Zenon
<1>2. CASE c # b
  <2>1. c # None
    BY BufAssumption, Zenon DEF Bufs
  <2>2. {w \in Uses : buf'[w] = c} = {w \in Uses : buf[w] = c}
    BY <1>2, <2>1, Zenon
  <2>. QED
    BY <1>2, <2>2, Zenon
<1>. QED
  BY <1>1, <1>2, Zenon

LEMMA Detach ==
  ASSUME NEW u \in Uses, buf \in [Uses -> Bufs \cup {None}],
         buf' = [buf EXCEPT ![u] = None]
  PROVE  \A c \in Bufs : Cardinality({w \in Uses : buf'[w] = c}) =
           IF c = buf[u] THEN Cardinality({w \in Uses : buf[w] = c}) - 1
           ELSE Cardinality({w \in Uses : buf[w] = c})
<1> SUFFICES ASSUME NEW c \in Bufs
             PROVE  Cardinality({w \in Uses : buf'[w] = c}) =
                      IF c = buf[u] THEN Cardinality({w \in Uses : buf[w] = c}) - 1
                      ELSE Cardinality({w \in Uses : buf[w] = c})
  BY Zenon
<1>1. c # None
  BY BufAssumption, Zenon DEF Bufs
<1>2. CASE c = buf[u]
  <2>1. {w \in Uses : buf'[w] = c} = {w \in Uses : buf[w] = c} \ {u}
    BY <1>1, <1>2, Zenon
  <2>2. u \in {w \in Uses : buf[w] = c}
    BY <1>2, Zenon
  <2>3. ASSUME NEW U, IsFiniteSet(U), u \in U
        PROVE  Cardinality(U \ {u}) = Cardinality(U) - 1
    BY <2>3, FS_RemoveElement, Zenon
  <2>4. Cardinality({w \in Uses : buf'[w] = c}) = Cardinality({w \in Uses : buf[w] = c}) - 1
    BY <2>1, <2>2, <2>3, UsersFinite, Zenon
  <2>. QED
    BY <1>2, <2>4, Zenon
<1>3. CASE c # buf[u]
  <2>1. {w \in Uses : buf'[w] = c} = {w \in Uses : buf[w] = c}
    BY <1>1, <1>3, Zenon
  <2>. QED
    BY <1>3, <2>1, Zenon
<1>. QED
  BY <1>2, <1>3, Zenon

-----------------------------------------------------------------------------
(* The steps that change no reference *)

LEMMA BufInit == Init => BufInv
<1> SUFFICES ASSUME Init PROVE BufInv
  BY Zenon
<1>1. TypeOK
  <2>1. lru \in [Bufs -> Bufs]
    BY BufAssumption DEF Init, Bufs
  <2>2. ASSUME NEW b \in Bufs PROVE \E j \in Bufs : lru[j] = b
    <3>1. NBUF + 1 - b \in Bufs /\ lru[NBUF + 1 - b] = b
      BY BufAssumption DEF Init, Bufs
    <3>. QED
      BY <3>1, Zenon
  <2>. QED
    BY <2>1, <2>2, Zenon DEF Init, TypeOK
<1>2. Attached /\ Distinct /\ Owned /\ Filled /\ Clean
  BY BufAssumption, Zenon DEF Init, Attached, Distinct, Owned, Filled, Clean, Holding
<1>3. Counted
  <2>1. Cardinality(pinned) <= MaxPinned
    BY FS_EmptySet, BufAssumption DEF Init
  <2>2. ASSUME NEW b \in Bufs
        PROVE  refcnt[b] = Cardinality({u \in Uses : buf[u] = b}) + Cardinality(pinned \cap {b})
    <3>1. b # None
      BY BufAssumption, Zenon DEF Bufs
    <3>2. {u \in Uses : buf[u] = b} = {} /\ pinned \cap {b} = {} /\ refcnt[b] = 0
      BY <3>1, Zenon DEF Init
    <3>. QED
      BY <3>2, FS_EmptySet
  <2>. QED
    BY <2>1, <2>2, Zenon DEF Counted
<1>. QED
  BY <1>1, <1>2, <1>3, Zenon DEF BufInv

\* A thread in a call has a buffer with its block; it has it for itself while it
\* holds the lock.
LEMMA MyBuffer ==
  ASSUME BufInv, NEW u \in Uses, pc[u] # "idle"
  PROVE  /\ buf[u] \in Bufs /\ buf[u] # None /\ blockno[buf[u]] \in Blocks
         /\ blockno[buf[u]] = want[u] /\ blockno[buf[u]] # None
         /\ pc[u] \in Holding => owner[buf[u]] = u
         /\ pc[u] \in Holding => \A w \in Uses : buf[w] = buf[u] /\ pc[w] \in Holding => w = u
         /\ \A b \in Bufs : blockno[b] = blockno[buf[u]] => b = buf[u]
<1>1. buf[u] \in Bufs /\ buf[u] # None /\ blockno[buf[u]] \in Blocks /\ blockno[buf[u]] = want[u]
  BY DEF BufInv, TypeOK, Attached
<1>2. blockno[buf[u]] # None
  BY <1>1, BufAssumption, Zenon
<1>. QED
  BY <1>1, <1>2 DEF BufInv, Distinct, Owned

LEMMA AcquireStep ==
  ASSUME BufInv, NEW u \in Uses, Acquiresleep(u)
  PROVE  BufInv'
<1>1. pc[u] = "acquire" /\ buf[u] \in Bufs /\ UNCHANGED <<blockno, valid, refcnt, data, lru, disk,
        pinned, buf, want, panicked>>
  BY MyBuffer, Zenon DEF Acquiresleep
<1>2. PICK l \in Holding \cup {"asleep"} : pc' = [pc EXCEPT ![u] = l]
  BY Zenon DEF Acquiresleep, Goto, Holding
<1>3. pc' \in [Uses -> Holding \cup {"idle", "acquire", "asleep", "unref"}]
      /\ pc'[u] = l /\ \A w \in Uses : w # u => pc'[w] = pc[w]
  BY <1>2, Zenon DEF BufInv, TypeOK
<1>4. CASE owner[buf[u]] # None
  <2>1. owner' = owner /\ l = "asleep"
    BY <1>3, <1>4 DEF Acquiresleep, Goto, BufInv, TypeOK
  <2>2. TypeOK' /\ Attached' /\ Distinct' /\ Counted'
    <3>1. TypeOK'
      BY <1>1, <1>3, <2>1, ZenonT(30) DEF BufInv, TypeOK
    <3>2. Attached'
      BY <1>1, <1>3, <2>1, ZenonT(30) DEF BufInv, Attached
    <3>3. Distinct' /\ Counted'
      BY <1>1, ZenonT(30) DEF BufInv, Distinct, Counted
    <3>. QED
      BY <3>1, <3>2, <3>3, Zenon
  <2>3. Owned' /\ Filled'
    BY <1>1, <1>3, <1>4, <2>1 DEF BufInv, Owned, Filled, Holding
  <2>4. Clean'
    BY <1>1, <1>3, <2>1 DEF BufInv, Clean
  <2>. QED
    BY <2>2, <2>3, <2>4, Zenon DEF BufInv
<1>5. CASE owner[buf[u]] = None
  <2>1. owner' = [owner EXCEPT ![buf[u]] = u] /\ l = IF valid[buf[u]] THEN "use" ELSE "read"
    BY <1>3, <1>5, Zenon DEF Acquiresleep, Goto, BufInv, TypeOK
  <2>2. l \in {"use", "read"} /\ l \in Holding /\ (l = "use" <=> valid[buf[u]])
    BY <2>1, Zenon DEF Holding
  <2>3. TypeOK' /\ Attached' /\ Distinct' /\ Counted'
    <3>1. owner' \in [Bufs -> Uses \cup {None}]
      BY <1>1, <2>1, Zenon DEF BufInv, TypeOK
    <3>2. TypeOK'
      BY <1>1, <1>3, <3>1, Zenon DEF BufInv, TypeOK
    <3>3. Attached'
      BY <1>1, <1>3, <2>2, Zenon DEF BufInv, Attached
    <3>4. Distinct' /\ Counted'
      BY <1>1, Zenon DEF BufInv, Distinct, Counted
    <3>. QED
      BY <3>2, <3>3, <3>4, Zenon
  <2>4. Owned'
    <3>1. \A w \in Uses : w # u /\ pc[w] \in Holding => buf[w] # buf[u]
      BY <1>5, BufAssumption DEF BufInv, Owned
    <3>2. \A b \in Bufs : owner'[b] = IF b = buf[u] THEN u ELSE owner[b]
      BY <2>1, Zenon DEF BufInv, TypeOK
    <3>3. \A w \in Uses : pc[w] # "idle" => buf[w] \in Bufs
      BY MyBuffer, Zenon
    <3>4. u # None
      BY BufAssumption, Zenon
    <3>5. \A w \in Uses : pc'[w] \in Holding => owner'[buf'[w]] = w
      BY <1>1, <1>3, <3>1, <3>2, <3>3 DEF BufInv, Owned, Holding
    <3>6. \A w \in Uses, b \in Bufs : owner'[b] = w => buf'[w] = b /\ pc'[w] \in Holding
      BY <1>1, <1>3, <2>2, <3>2 DEF BufInv, Owned
    <3>7. \A w \in Uses : pc'[w] = "asleep" => owner'[buf'[w]] # None
      BY <1>1, <1>3, <2>2, <3>2, <3>3, <3>4 DEF BufInv, Owned
    <3>. QED
      BY <3>5, <3>6, <3>7, Zenon DEF Owned
  <2>5. Filled'
    BY <1>1, <1>3, <2>2, Zenon DEF BufInv, Filled
  <2>6. Clean'
    BY <1>1, <1>3, <2>2 DEF BufInv, Clean
  <2>. QED
    BY <2>3, <2>4, <2>5, <2>6, Zenon DEF BufInv
<1>. QED
  BY <1>4, <1>5, Zenon

\* What the holder of a buffer cannot disturb.
LEMMA HolderStep ==
  ASSUME BufInv, NEW u \in Uses, pc[u] \in Holding, NEW l \in Holding,
         pc' = [pc EXCEPT ![u] = l], UNCHANGED <<blockno, owner, lru, buf, want, panicked>>
  PROVE  /\ Attached' /\ Distinct' /\ Owned'
         /\ pc' \in [Uses -> Holding \cup {"idle", "acquire", "asleep", "unref"}]
         /\ pc'[u] = l /\ \A w \in Uses : w # u => pc'[w] = pc[w]
         /\ buf[u] \in Bufs /\ blockno[buf[u]] \in Blocks
         /\ \A w \in Uses : w # u /\ pc[w] \in Holding => buf[w] \in Bufs /\ buf[w] # buf[u]
         /\ \A b \in Bufs : blockno[b] = blockno[buf[u]] => b = buf[u]
<1>1. /\ pc' \in [Uses -> Holding \cup {"idle", "acquire", "asleep", "unref"}]
      /\ pc'[u] = l /\ \A w \in Uses : w # u => pc'[w] = pc[w]
  BY Zenon DEF BufInv, TypeOK
<1>2. /\ buf[u] \in Bufs /\ blockno[buf[u]] \in Blocks
      /\ \A b \in Bufs : blockno[b] = blockno[buf[u]] => b = buf[u]
  BY MyBuffer, Zenon DEF Holding
<1>3. \A w \in Uses : w # u /\ pc[w] \in Holding => buf[w] \in Bufs /\ buf[w] # buf[u]
  BY MyBuffer, Zenon DEF Holding
<1>4. Attached' /\ Distinct'
  BY <1>1 DEF BufInv, Attached, Distinct, Holding
<1>5. Owned'
  BY <1>1 DEF BufInv, Owned, Holding
<1>. QED
  BY <1>1, <1>2, <1>3, <1>4, <1>5, Zenon

LEMMA ReadStep ==
  ASSUME BufInv, NEW u \in Uses, DiskRead(u)
  PROVE  BufInv'
<1>1. /\ pc[u] = "read" /\ pc[u] \in Holding /\ "use" \in Holding /\ pc' = [pc EXCEPT ![u] = "use"]
      /\ UNCHANGED <<blockno, refcnt, owner, lru, disk, pinned, buf, want, panicked>>
  BY Zenon DEF DiskRead, Goto, Holding
<1>2. /\ Attached' /\ Distinct' /\ Owned'
      /\ pc' \in [Uses -> Holding \cup {"idle", "acquire", "asleep", "unref"}]
      /\ pc'[u] = "use" /\ \A w \in Uses : w # u => pc'[w] = pc[w]
      /\ buf[u] \in Bufs /\ blockno[buf[u]] \in Blocks
      /\ \A w \in Uses : w # u /\ pc[w] \in Holding => buf[w] \in Bufs /\ buf[w] # buf[u]
  BY <1>1, HolderStep, Zenon
<1>3. disk[blockno[buf[u]]] \in Values
  BY <1>2, Zenon DEF BufInv, TypeOK
<1>4. data' \in [Bufs -> Values] /\ valid' \in [Bufs -> BOOLEAN]
  BY <1>2, <1>3, Zenon DEF DiskRead, BufInv, TypeOK
<1>5. /\ data'[buf[u]] = disk[blockno[buf[u]]] /\ valid'[buf[u]] = TRUE
      /\ \A b \in Bufs : b # buf[u] => data'[b] = data[b] /\ valid'[b] = valid[b]
  BY <1>2 DEF DiskRead, BufInv, TypeOK
<1>6. TypeOK' /\ Counted'
  BY <1>1, <1>2, <1>4 DEF BufInv, TypeOK, Counted
<1>7. Filled'
  BY <1>1, <1>2, <1>5 DEF BufInv, Filled, Holding
<1>8. Clean'
  <2>1. ASSUME NEW b \in Bufs, valid'[b], b # buf[u]
        PROVE  data'[b] = disk[blockno[b]] \/ b \in pinned
               \/ \E w \in Uses : buf[w] = b /\ pc'[w] = "dirty"
    BY <1>1, <1>2, <1>5, <2>1 DEF BufInv, Clean
  <2>2. ASSUME NEW w \in Uses, pc'[w] = "written"
        PROVE  data'[buf[w]] = disk[blockno[buf[w]]]
    BY <1>2, <1>5, <2>2 DEF BufInv, Clean, Holding
  <2>. QED
    BY <1>1, <1>5, <2>1, <2>2 DEF Clean
<1>. QED
  BY <1>2, <1>6, <1>7, <1>8, Zenon DEF BufInv

LEMMA ModifyStep ==
  ASSUME BufInv, NEW u \in Uses, NEW v \in Values, Modify(u, v)
  PROVE  BufInv'
<1>1. /\ pc[u] = "use" /\ pc[u] \in Holding /\ "dirty" \in Holding /\ pc' = [pc EXCEPT ![u] = "dirty"]
      /\ UNCHANGED <<blockno, valid, refcnt, owner, lru, disk, pinned, buf, want, panicked>>
  BY Zenon DEF Modify, Goto, Holding
<1>2. /\ Attached' /\ Distinct' /\ Owned'
      /\ pc' \in [Uses -> Holding \cup {"idle", "acquire", "asleep", "unref"}]
      /\ pc'[u] = "dirty" /\ \A w \in Uses : w # u => pc'[w] = pc[w]
      /\ buf[u] \in Bufs /\ blockno[buf[u]] \in Blocks
      /\ \A w \in Uses : w # u /\ pc[w] \in Holding => buf[w] \in Bufs /\ buf[w] # buf[u]
  BY <1>1, HolderStep, Zenon
<1>3. data' \in [Bufs -> Values] /\ \A b \in Bufs : b # buf[u] => data'[b] = data[b]
  BY <1>2, Zenon DEF Modify, BufInv, TypeOK
<1>4. TypeOK' /\ Counted'
  BY <1>1, <1>2, <1>3 DEF BufInv, TypeOK, Counted
<1>5. Filled'
  BY <1>1, <1>2 DEF BufInv, Filled
<1>6. Clean'
  <2>1. ASSUME NEW b \in Bufs, valid[b]
        PROVE  data'[b] = disk[blockno[b]] \/ b \in pinned
               \/ \E w \in Uses : buf[w] = b /\ pc'[w] = "dirty"
    BY <1>1, <1>2, <1>3, <2>1 DEF BufInv, Clean
  <2>2. ASSUME NEW w \in Uses, pc'[w] = "written"
        PROVE  data'[buf[w]] = disk[blockno[buf[w]]]
    BY <1>2, <1>3, <2>2 DEF BufInv, Clean, Holding
  <2>. QED
    BY <1>1, <2>1, <2>2, SMTT(30) DEF Clean
<1>. QED
  BY <1>2, <1>4, <1>5, <1>6, Zenon DEF BufInv

LEMMA WriteStep ==
  ASSUME BufInv, NEW u \in Uses, Bwrite(u)
  PROVE  BufInv'
<1>1. /\ pc[u] \in {"use", "dirty"} /\ pc[u] \in Holding /\ "written" \in Holding
      /\ pc' = [pc EXCEPT ![u] = "written"]
      /\ UNCHANGED <<blockno, valid, refcnt, data, owner, lru, pinned, buf, want, panicked>>
  BY Zenon DEF Bwrite, Goto, Holding
<1>2. /\ Attached' /\ Distinct' /\ Owned'
      /\ pc' \in [Uses -> Holding \cup {"idle", "acquire", "asleep", "unref"}]
      /\ pc'[u] = "written" /\ \A w \in Uses : w # u => pc'[w] = pc[w]
      /\ buf[u] \in Bufs /\ blockno[buf[u]] \in Blocks
      /\ \A w \in Uses : w # u /\ pc[w] \in Holding => buf[w] \in Bufs /\ buf[w] # buf[u]
      /\ \A b \in Bufs : blockno[b] = blockno[buf[u]] => b = buf[u]
  BY <1>1, HolderStep, Zenon
<1>3. disk' \in [Blocks -> Values] /\ disk'[blockno[buf[u]]] = data[buf[u]]
      /\ \A k \in Blocks : k # blockno[buf[u]] => disk'[k] = disk[k]
  BY <1>2 DEF Bwrite, BufInv, TypeOK
<1>4. TypeOK' /\ Counted'
  BY <1>1, <1>2, <1>3 DEF BufInv, TypeOK, Counted
<1>5. Filled'
  BY <1>1, <1>2 DEF BufInv, Filled
<1>6. Clean'
  <2>1. ASSUME NEW b \in Bufs, valid[b], b # buf[u]
        PROVE  data[b] = disk'[blockno[b]] \/ b \in pinned
               \/ \E w \in Uses : buf[w] = b /\ pc'[w] = "dirty"
    <3>1. disk'[blockno[b]] = disk[blockno[b]]
      BY <1>2, <1>3, <2>1, Zenon DEF BufInv, Filled
    <3>. QED
      BY <1>2, <2>1, <3>1 DEF BufInv, Clean
  <2>2. ASSUME NEW w \in Uses, pc'[w] = "written", w # u
        PROVE  data[buf[w]] = disk'[blockno[buf[w]]]
    <3>1. pc[w] = "written" /\ buf[w] # buf[u] /\ buf[w] \in Bufs /\ blockno[buf[w]] \in Blocks
      BY <1>2, <2>2, MyBuffer, Zenon DEF Holding
    <3>. QED
      BY <1>2, <1>3, <3>1 DEF BufInv, Clean
  <2>. QED
    BY <1>1, <1>3, <2>1, <2>2 DEF Clean
<1>. QED
  BY <1>2, <1>4, <1>5, <1>6, Zenon DEF BufInv

-----------------------------------------------------------------------------
(* Pins *)

LEMMA PinStep ==
  ASSUME BufInv, NEW u \in Uses, Bpin(u)
  PROVE  BufInv'
<1>1. /\ pc[u] = "dirty" /\ pc[u] \in Holding /\ "use" \in Holding /\ pc' = [pc EXCEPT ![u] = "use"]
      /\ UNCHANGED <<blockno, valid, data, owner, lru, disk, buf, want, panicked>>
  BY Zenon DEF Bpin, Goto, Holding
<1>2. /\ Attached' /\ Distinct' /\ Owned'
      /\ pc' \in [Uses -> Holding \cup {"idle", "acquire", "asleep", "unref"}]
      /\ pc'[u] = "use" /\ \A w \in Uses : w # u => pc'[w] = pc[w]
      /\ buf[u] \in Bufs
  BY <1>1, HolderStep, Zenon
<1>3. Filled'
  BY <1>1, <1>2, Zenon DEF BufInv, Filled
<1>4. pinned' = pinned \cup {buf[u]}
  BY Zenon DEF Bpin
<1>5. Clean'
  BY <1>1, <1>2, <1>4 DEF BufInv, Clean
<1>6. CASE buf[u] \in pinned
  <2>1. UNCHANGED <<refcnt, pinned>>
    BY <1>6, Zenon DEF Bpin
  <2>2. TypeOK' /\ Counted'
    BY <1>1, <1>2, <2>1 DEF BufInv, TypeOK, Counted
  <2>. QED
    BY <1>2, <1>3, <1>5, <2>2, Zenon DEF BufInv
<1>7. CASE buf[u] \notin pinned
  <2>1. refcnt' = [refcnt EXCEPT ![buf[u]] = @ + 1] /\ Cardinality(pinned) < MaxPinned
    BY <1>7, Zenon DEF Bpin
  <2>2. refcnt' \in [Bufs -> Nat]
    BY <1>2, <2>1 DEF BufInv, TypeOK
  <2>3. pinned' \in SUBSET Bufs
    BY <1>2, <1>4, Zenon DEF BufInv, TypeOK
  <2>4. TypeOK'
    BY <1>1, <1>2, <2>2, <2>3, Zenon DEF BufInv, TypeOK
  <2>5. ASSUME NEW b \in Bufs
        PROVE  refcnt'[b] = Cardinality({w \in Uses : buf[w] = b}) + Cardinality(pinned' \cap {b})
    <3>1. PICK users \in Nat : users = Cardinality({w \in Uses : buf[w] = b})
      BY UsersFinite, Zenon
    <3>2. refcnt[b] = users + IF b \in pinned THEN 1 ELSE 0
      BY <3>1, PinCount, Zenon DEF BufInv, Counted
    <3>3. refcnt'[b] = users + IF b \in pinned' THEN 1 ELSE 0
      BY <1>2, <1>4, <1>7, <2>1, <3>2 DEF BufInv, TypeOK
    <3>. QED
      BY <3>1, <3>3, PinCount, Zenon
  <2>6. Cardinality(pinned') <= MaxPinned
    <3>1. IsFiniteSet(Bufs)
      BY FS_Interval, BufAssumption DEF Bufs
    <3>2. IsFiniteSet(pinned)
      BY <3>1, FS_Subset, Zenon DEF BufInv, TypeOK
    <3>3. Cardinality(pinned') = Cardinality(pinned) + 1 /\ Cardinality(pinned) \in Nat
      BY <1>4, <1>7, <3>2, FS_AddElement, FS_CardinalityType, Zenon
    <3>. QED
      BY <2>1, <3>3, BufAssumption
  <2>7. Counted'
    BY <1>1, <2>5, <2>6, Zenon DEF Counted
  <2>. QED
    BY <1>2, <1>3, <1>5, <2>4, <2>7, Zenon DEF BufInv
<1>. QED
  BY <1>6, <1>7, Zenon

LEMMA UnpinStep ==
  ASSUME BufInv, NEW u \in Uses, Bunpin(u)
  PROVE  BufInv'
<1>1. /\ pc[u] = "written" /\ pc[u] \in Holding /\ pc' = pc /\ buf[u] \in pinned
      /\ UNCHANGED <<blockno, valid, data, owner, lru, disk, buf, want, panicked>>
      /\ refcnt' = [refcnt EXCEPT ![buf[u]] = @ - 1] /\ pinned' = pinned \ {buf[u]}
  BY Zenon DEF Bunpin, Holding
<1>2. buf[u] \in Bufs
  BY <1>1, MyBuffer, Zenon
<1>3. Attached' /\ Distinct' /\ Owned' /\ Filled'
  BY <1>1 DEF BufInv, Attached, Distinct, Owned, Filled
<1>4. Clean'
  BY <1>1 DEF BufInv, Clean
<1>5. ASSUME NEW b \in Bufs
      PROVE  /\ refcnt'[b] = Cardinality({w \in Uses : buf[w] = b}) + Cardinality(pinned' \cap {b})
             /\ refcnt'[b] \in Nat
  <2>1. PICK users \in Nat : users = Cardinality({w \in Uses : buf[w] = b})
    BY UsersFinite, Zenon
  <2>2. refcnt[b] = users + IF b \in pinned THEN 1 ELSE 0
    BY <2>1, PinCount, Zenon DEF BufInv, Counted
  <2>3. refcnt'[b] = users + IF b \in pinned' THEN 1 ELSE 0
    <3>1. refcnt \in [Bufs -> Nat]
      BY Zenon DEF BufInv, TypeOK
    <3>. QED
      BY <1>1, <1>2, <2>2, <3>1, SMTT(30), SMTT(60)
  <2>. QED
    BY <2>1, <2>3, PinCount
<1>6. TypeOK'
  <2>1. refcnt' \in [Bufs -> Nat]
    BY <1>1, <1>5, Zenon DEF BufInv, TypeOK
  <2>2. pinned' \in SUBSET Bufs
    BY <1>1, Zenon DEF BufInv, TypeOK
  <2>. QED
    BY <1>1, <2>1, <2>2, Zenon DEF BufInv, TypeOK
<1>7. Cardinality(pinned') <= MaxPinned
  <2>1. IsFiniteSet(Bufs)
    BY FS_Interval, BufAssumption DEF Bufs
  <2>2. IsFiniteSet(pinned)
    BY <2>1, FS_Subset, Zenon DEF BufInv, TypeOK
  <2>3. Cardinality(pinned') = Cardinality(pinned) - 1 /\ Cardinality(pinned) \in Nat
    BY <1>1, <2>2, FS_RemoveElement, FS_CardinalityType, Zenon
  <2>. QED
    BY <2>3, BufAssumption DEF BufInv, Counted
<1>8. Counted'
  BY <1>1, <1>5, <1>7, Zenon DEF Counted
<1>. QED
  BY <1>3, <1>4, <1>6, <1>8, Zenon DEF BufInv

-----------------------------------------------------------------------------
(* brelse() *)

LEMMA ReleaseStep ==
  ASSUME BufInv, NEW u \in Uses, Releasesleep(u)
  PROVE  BufInv'
<1>1. /\ pc[u] \in {"use", "written"} /\ pc[u] \in Holding
      /\ UNCHANGED <<blockno, valid, refcnt, data, lru, disk, pinned, buf, want, panicked>>
      /\ owner' = [owner EXCEPT ![buf[u]] = None]
  BY Zenon DEF Releasesleep, Holding
<1>2. /\ buf[u] \in Bufs
      /\ \A w \in Uses : pc[w] # "idle" => buf[w] \in Bufs
      /\ \A w \in Uses : w # u /\ pc[w] \in Holding => buf[w] # buf[u]
  BY <1>1, MyBuffer, Zenon DEF Holding
<1>3. /\ pc' \in [Uses -> Holding \cup {"idle", "acquire", "asleep", "unref"}]
      /\ pc'[u] = "unref"
      /\ \A w \in Uses : w # u =>
           pc'[w] = IF pc[w] = "asleep" /\ buf[w] = buf[u] THEN "acquire" ELSE pc[w]
  BY Zenon DEF Releasesleep, BufInv, TypeOK
<1>4. /\ owner' \in [Bufs -> Uses \cup {None}]
      /\ \A b \in Bufs : owner'[b] = IF b = buf[u] THEN None ELSE owner[b]
  BY <1>1, Zenon DEF BufInv, TypeOK
<1>5. TypeOK'
  BY <1>1, <1>3, <1>4, Zenon DEF BufInv, TypeOK
<1>6. Attached' /\ Distinct'
  BY <1>1, <1>3, Zenon DEF BufInv, Attached, Distinct, Holding
<1>7. Counted'
  BY <1>1, Zenon DEF BufInv, Counted
<1>8. Filled' /\ Clean'
  <2>1. Filled'
    BY <1>1, <1>3, Zenon DEF BufInv, Filled
  <2>2. Clean'
    BY <1>1, <1>3 DEF BufInv, Clean
  <2>. QED
    BY <2>1, <2>2, Zenon
<1>9. Owned'
  <2>1. \A w \in Uses : pc'[w] \in Holding => owner'[buf'[w]] = w
    BY <1>1, <1>2, <1>3, <1>4 DEF BufInv, Owned, Holding
  <2>2. \A w \in Uses, b \in Bufs : owner'[b] = w => buf'[w] = b /\ pc'[w] \in Holding
    BY <1>1, <1>3, <1>4, BufAssumption, SMTT(30) DEF BufInv, Owned, Holding
  <2>3. \A w \in Uses : pc'[w] = "asleep" => owner'[buf'[w]] # None
    BY <1>1, <1>2, <1>3, <1>4 DEF BufInv, Owned
  <2>. QED
    BY <2>1, <2>2, <2>3, Zenon DEF Owned
<1>. QED
  BY <1>5, <1>6, <1>7, <1>8, <1>9, Zenon DEF BufInv

\* Moving a buffer to the front loses none.
LEMMA FrontList ==
  ASSUME TypeOK, NEW b \in Bufs
  PROVE  ToFront(b) \in [Bufs -> Bufs] /\ \A c \in Bufs : \E j \in Bufs : ToFront(b)[j] = c
<1>1. PICK p \in Bufs : p = (CHOOSE j \in Bufs : lru[j] = b) /\ lru[p] = b
  BY Zenon DEF TypeOK
<1>2. ToFront(b) = [j \in Bufs |-> IF j = 1 THEN b ELSE IF j <= p THEN lru[j - 1] ELSE lru[j]]
  BY <1>1, Zenon DEF ToFront
<1>3. \A j \in Bufs : j # 1 => j - 1 \in Bufs
  BY BufAssumption DEF Bufs
<1>4. ToFront(b) \in [Bufs -> Bufs]
  BY <1>2, <1>3 DEF TypeOK
<1>5. ASSUME NEW c \in Bufs
      PROVE  \E j \in Bufs : ToFront(b)[j] = c
  <2>1. PICK j \in Bufs : lru[j] = c
    BY Zenon DEF TypeOK
  <2>2. CASE j < p
    <3>1. j + 1 \in Bufs /\ j + 1 # 1 /\ j + 1 <= p /\ (j + 1) - 1 = j
      BY <2>2, BufAssumption DEF Bufs
    <3>. QED
      BY <1>2, <2>1, <3>1, Zenon
  <2>3. CASE j = p
    <3>1. 1 \in Bufs /\ c = b
      BY <1>1, <2>1, <2>3, BufAssumption DEF Bufs
    <3>. QED
      BY <1>2, <3>1, Zenon
  <2>4. CASE j > p
    <3>1. j # 1 /\ ~(j <= p)
      BY <2>4, BufAssumption DEF Bufs
    <3>. QED
      BY <1>2, <2>1, <3>1, Zenon
  <2>. QED
    BY <2>2, <2>3, <2>4, BufAssumption DEF Bufs
<1>. QED
  BY <1>4, <1>5, Zenon

LEMMA UnrefStep ==
  ASSUME BufInv, NEW u \in Uses, Unref(u)
  PROVE  BufInv'
<1>1. /\ pc[u] = "unref" /\ buf[u] \in Bufs
      /\ UNCHANGED <<blockno, valid, data, owner, disk, pinned, panicked>>
      /\ refcnt' = [refcnt EXCEPT ![buf[u]] = @ - 1]
      /\ buf' = [buf EXCEPT ![u] = None] /\ want' = [want EXCEPT ![u] = None]
  BY MyBuffer, Zenon DEF Unref
<1>2. /\ pc' \in [Uses -> Holding \cup {"idle", "acquire", "asleep", "unref"}]
      /\ pc'[u] = "idle" /\ \A w \in Uses : w # u => pc'[w] = pc[w]
  BY Zenon DEF Unref, Goto, BufInv, TypeOK
<1>3. /\ buf' \in [Uses -> Bufs \cup {None}] /\ want' \in [Uses -> Blocks \cup {None}]
      /\ buf'[u] = None /\ \A w \in Uses : w # u => buf'[w] = buf[w] /\ want'[w] = want[w]
  BY <1>1, Zenon DEF BufInv, TypeOK
<1>4. ASSUME NEW b \in Bufs
      PROVE  /\ refcnt'[b] = Cardinality({w \in Uses : buf'[w] = b}) + Cardinality(pinned \cap {b})
             /\ refcnt'[b] \in Nat
  <2>1. PICK now \in Nat : now = Cardinality({w \in Uses : buf'[w] = b})
    <3>1. {w \in Uses : buf'[w] = b} \in SUBSET Uses
      BY Zenon
    <3>. QED
      BY <3>1, FS_Subset, FS_CardinalityType, UsesFinite, Zenon
  <2>2. PICK users \in Nat : users = Cardinality({w \in Uses : buf[w] = b})
    BY UsersFinite, Zenon
  <2>3. now = IF b = buf[u] THEN users - 1 ELSE users
    BY <1>1, <2>1, <2>2, Detach, Zenon DEF BufInv, TypeOK
  <2>4. PICK pins \in {0, 1} : pins = Cardinality(pinned \cap {b})
    BY PinCount, Zenon
  <2>5. refcnt[b] = users + pins
    BY <2>2, <2>4, Zenon DEF BufInv, Counted
  <2>6. refcnt'[b] = now + pins
    BY <1>1, <2>3, <2>5 DEF BufInv, TypeOK
  <2>. QED
    BY <2>1, <2>4, <2>6
<1>5. lru' \in [Bufs -> Bufs] /\ \A b \in Bufs : \E j \in Bufs : lru'[j] = b
  <2>1. lru' = ToFront(buf[u]) \/ lru' = lru
    BY Zenon DEF Unref
  <2>2. TypeOK
    BY Zenon DEF BufInv
  <2>3. CASE lru' = ToFront(buf[u])
    BY <1>1, <2>2, <2>3, FrontList, Zenon
  <2>4. CASE lru' = lru
    BY <2>2, <2>4, Zenon DEF TypeOK
  <2>. QED
    BY <2>1, <2>3, <2>4, Zenon
<1>6. TypeOK'
  <2>1. refcnt' \in [Bufs -> Nat]
    BY <1>1, <1>4, Zenon DEF BufInv, TypeOK
  <2>. QED
    BY <1>1, <1>2, <1>3, <1>5, <2>1, Zenon DEF BufInv, TypeOK
<1>7. Counted'
  BY <1>1, <1>4, Zenon DEF BufInv, Counted
<1>8. Attached' /\ Distinct'
  BY <1>1, <1>2, <1>3, SMTT(30) DEF BufInv, Attached, Distinct
<1>9. Owned'
  BY <1>1, <1>2, <1>3, SMTT(30) DEF BufInv, Owned, Holding
<1>10. Filled'
  BY <1>1, <1>2, <1>3, SMTT(30) DEF BufInv, Filled
<1>11. Clean'
  BY <1>1, <1>2, <1>3 DEF BufInv, Clean
<1>. QED
  BY <1>6, <1>7, <1>8, <1>9, <1>10, <1>11, Zenon DEF BufInv

-----------------------------------------------------------------------------
(* bget() *)

\* A thread comes for block k and gets buffer b, which nobody has if it held
\* another block before.
Gets(u, k, b) ==
  /\ pc[u] = "idle" /\ pc' = [pc EXCEPT ![u] = "acquire"]
  /\ buf' = [buf EXCEPT ![u] = b] /\ want' = [want EXCEPT ![u] = k]
  /\ refcnt' \in [Bufs -> Nat]
  /\ \A c \in Bufs : refcnt'[c] = IF c = b THEN refcnt[c] + 1 ELSE refcnt[c]
  /\ blockno' \in [Bufs -> Blocks \cup {None}] /\ blockno'[b] = k
  /\ \A c \in Bufs : c # b => blockno'[c] = blockno[c] /\ blockno[c] # k
  /\ blockno'[b] = blockno[b] \/ \A w \in Uses : buf[w] # b
  /\ valid' \in [Bufs -> BOOLEAN]
  /\ \A c \in Bufs : valid'[c] => valid[c] /\ blockno'[c] = blockno[c]
  /\ \A c \in Bufs : c # b => valid'[c] = valid[c]
  /\ valid'[b] = valid[b] \/ \A w \in Uses : buf[w] # b
  /\ panicked' \in BOOLEAN
  /\ UNCHANGED <<data, owner, lru, disk, pinned>>

LEMMA GetStep ==
  ASSUME BufInv, NEW u \in Uses, NEW k \in Blocks, NEW b \in Bufs, Gets(u, k, b)
  PROVE  BufInv'
<1> USE DEF Gets
<1>1. /\ pc' \in [Uses -> Holding \cup {"idle", "acquire", "asleep", "unref"}]
      /\ pc'[u] = "acquire" /\ \A w \in Uses : w # u => pc'[w] = pc[w]
  BY Zenon DEF BufInv, TypeOK
<1>2. /\ buf' \in [Uses -> Bufs \cup {None}] /\ want' \in [Uses -> Blocks \cup {None}]
      /\ buf'[u] = b /\ want'[u] = k /\ buf[u] = None /\ b # None
      /\ \A w \in Uses : w # u => buf'[w] = buf[w] /\ want'[w] = want[w]
  <2>1. b # None
    BY BufAssumption, Zenon DEF Bufs
  <2>. QED
    BY <2>1, SMTT(30) DEF BufInv, TypeOK, Attached
<1>3. \A w \in Uses : buf[w] # None => buf[w] \in Bufs
  BY SMTT(30) DEF BufInv, TypeOK
<1>4. TypeOK'
  <2>1. panicked' \in BOOLEAN
    BY Zenon
  <2>2. TypeOK
    BY Zenon DEF BufInv
  <2>. QED
    BY <1>1, <1>2, <2>1, <2>2, SMTT(30) DEF TypeOK
<1>5. Attached'
  BY <1>1, <1>2, <1>3 DEF BufInv, Attached
<1>6. Distinct'
  BY SMTT(30) DEF BufInv, Distinct
<1>7. Owned'
  BY <1>1, <1>2, SMTT(30) DEF BufInv, Owned, Holding
<1>8. Filled'
  <2>1. \A w \in Uses : pc[w] # "idle" => buf[w] \in Bufs /\ valid'[buf[w]] = valid[buf[w]]
    BY MyBuffer, ZenonT(30)
  <2>2. \A c \in Bufs : valid'[c] => blockno'[c] \in Blocks
    BY Zenon DEF BufInv, Filled
  <2>. QED
    BY <1>1, <1>2, <2>1, <2>2, SMTT(30) DEF BufInv, Filled
<1>9. Clean'
  <2>1. \A w \in Uses : pc[w] # "idle" => buf[w] \in Bufs /\ blockno'[buf[w]] = blockno[buf[w]]
    BY MyBuffer, ZenonT(30)
  <2>2. ASSUME NEW c \in Bufs, valid'[c]
        PROVE  data[c] = disk[blockno'[c]] \/ c \in pinned
               \/ \E w \in Uses : buf'[w] = c /\ pc'[w] = "dirty"
    <3>1. Clean
      BY Zenon DEF BufInv
    <3>. QED
      BY <1>1, <1>2, <2>2, <3>1, SMTT(30), SMTT(60) DEF Clean
  <2>3. ASSUME NEW w \in Uses, pc'[w] = "written"
        PROVE  data[buf'[w]] = disk[blockno'[buf'[w]]]
    BY <1>1, <1>2, <2>1, <2>3, SMTT(30) DEF BufInv, Clean
  <2>. QED
    BY <2>2, <2>3 DEF Clean
<1>10. Counted'
  <2>1. ASSUME NEW c \in Bufs
        PROVE  refcnt'[c] = Cardinality({w \in Uses : buf'[w] = c}) + Cardinality(pinned \cap {c})
    <3>1. PICK users \in Nat : users = Cardinality({w \in Uses : buf[w] = c})
      BY UsersFinite, ZenonT(30)
    <3>2. Cardinality({w \in Uses : buf'[w] = c}) = IF c = b THEN users + 1 ELSE users
      <4>1. buf \in [Uses -> Bufs \cup {None}]
        BY Zenon DEF BufInv, TypeOK
      <4>2. b # None /\ buf[u] = None
        BY <1>2, Zenon
      <4>3. Cardinality({w \in Uses : buf'[w] = c}) =
              IF c = b THEN Cardinality({w \in Uses : buf[w] = c}) + 1
              ELSE Cardinality({w \in Uses : buf[w] = c})
        BY <4>1, <4>2, Attach, Zenon
      <4>. QED
        BY <3>1, <4>3, Zenon
    <3>3. PICK pins \in {0, 1} : pins = Cardinality(pinned \cap {c})
      BY PinCount, Zenon
    <3>4. refcnt[c] = users + pins
      BY <3>1, <3>3, Zenon DEF BufInv, Counted
    <3>. QED
      BY <3>2, <3>3, <3>4
  <2>. QED
    BY <2>1, Zenon DEF BufInv, Counted
<1>. QED
  BY <1>4, <1>5, <1>6, <1>7, <1>8, <1>9, <1>10, Zenon DEF BufInv

LEMMA HitStep ==
  ASSUME BufInv, NEW u \in Uses, NEW k \in Blocks, BgetHit(u, k)
  PROVE  BufInv'
<1>1. PICK b \in Bufs : blockno[b] = k /\ refcnt' = [refcnt EXCEPT ![b] = @ + 1]
                        /\ buf' = [buf EXCEPT ![u] = b]
  BY Zenon DEF BgetHit, Lookup
<1>2. /\ pc[u] = "idle" /\ pc' = [pc EXCEPT ![u] = "acquire"] /\ want' = [want EXCEPT ![u] = k]
      /\ UNCHANGED <<blockno, valid, data, owner, lru, disk, pinned, panicked>>
  BY Zenon DEF BgetHit, Goto
<1>3. refcnt' \in [Bufs -> Nat] /\ \A c \in Bufs : refcnt'[c] = IF c = b THEN refcnt[c] + 1 ELSE refcnt[c]
  BY <1>1 DEF BufInv, TypeOK
<1>4. k # None
  BY BufAssumption, Zenon
<1>5. blockno' \in [Bufs -> Blocks \cup {None}] /\ valid' \in [Bufs -> BOOLEAN] /\ panicked' \in BOOLEAN
  BY <1>2, Zenon DEF BufInv, TypeOK
<1>6. \A c \in Bufs : c # b => blockno'[c] = blockno[c] /\ blockno[c] # k
  BY <1>1, <1>2, <1>4, Zenon DEF BufInv, Distinct
<1>7. /\ blockno'[b] = k /\ blockno'[b] = blockno[b] /\ valid'[b] = valid[b]
      /\ \A c \in Bufs : valid'[c] => valid[c] /\ blockno'[c] = blockno[c]
      /\ \A c \in Bufs : c # b => valid'[c] = valid[c]
      /\ UNCHANGED <<data, owner, lru, disk, pinned>>
  BY <1>1, <1>2, Zenon
<1>8. Gets(u, k, b)
  BY <1>1, <1>2, <1>3, <1>5, <1>6, <1>7, Zenon DEF Gets
<1>. QED
  BY <1>8, GetStep, Zenon

\* When no place of the list has a buffer without references, every buffer is in
\* use or pinned.
LEMMA AllInUse ==
  ASSUME BufInv, Unused = {}, NEW b \in Bufs
  PROVE  b \in pinned \/ \E u \in Uses : buf[u] = b
<1>1. PICK j \in Bufs : lru[j] = b
  BY Zenon DEF BufInv, TypeOK
<1>2. refcnt[b] # 0
  BY <1>1, Zenon DEF Unused
<1>. QED
  BY <1>2, Unreferenced, Zenon DEF BufInv

\* Nothing changes, or panicked only.
LEMMA SameStep ==
  ASSUME BufInv, UNCHANGED <<bvars, pc, buf, want>>, panicked' \in BOOLEAN
  PROVE  BufInv'
<1>1. TypeOK' /\ Distinct' /\ Filled'
  BY SMT, SMTT(30) DEF bvars, BufInv, TypeOK, Distinct, Filled
<1>2. Attached' /\ Owned'
  BY SMT, SMTT(30) DEF bvars, BufInv, Attached, Owned
<1>3. Clean' /\ Counted'
  BY SMT, SMTT(30) DEF bvars, BufInv, Clean, Counted
<1>. QED
  BY <1>1, <1>2, <1>3, Zenon DEF BufInv

LEMMA MissStep ==
  ASSUME BufInv, NEW u \in Uses, NEW k \in Blocks, BgetMiss(u, k)
  PROVE  BufInv'
<1>1. pc[u] = "idle" /\ buf[u] = None /\ panicked' \in BOOLEAN
  BY Zenon DEF BgetMiss, BufInv, Attached
<1>2. CASE panicked'
  BY <1>1, <1>2, SameStep, Zenon DEF BgetMiss
<1>3. SUFFICES ASSUME ~panicked' PROVE BufInv'
  BY <1>2, Zenon
<1>4. PICK j \in Last(Unused) : Recycle(lru[j], u, k) /\ valid' = [valid EXCEPT ![lru[j]] = FALSE]
  BY <1>3, Zenon DEF BgetMiss
<1>5. PICK b \in Bufs : b = lru[j] /\ refcnt[b] = 0
  BY Zenon DEF Last, Unused, BufInv, TypeOK
<1>6. b \notin pinned /\ \A w \in Uses : buf[w] # b
  BY <1>5, Unreferenced, Zenon DEF BufInv
<1>7. /\ pc' = [pc EXCEPT ![u] = "acquire"] /\ want' = [want EXCEPT ![u] = k]
      /\ buf' = [buf EXCEPT ![u] = b] /\ UNCHANGED <<data, owner, lru, disk, pinned>>
      /\ blockno' = [blockno EXCEPT ![b] = k] /\ refcnt' = [refcnt EXCEPT ![b] = 1]
      /\ valid' = [valid EXCEPT ![b] = FALSE]
  BY <1>4, <1>5, Zenon DEF Recycle, Goto
<1>8. refcnt' \in [Bufs -> Nat] /\ \A c \in Bufs : refcnt'[c] = IF c = b THEN refcnt[c] + 1 ELSE refcnt[c]
  BY <1>5, <1>7 DEF BufInv, TypeOK
<1>9. /\ blockno' \in [Bufs -> Blocks \cup {None}] /\ valid' \in [Bufs -> BOOLEAN]
      /\ blockno'[b] = k /\ valid'[b] = FALSE
      /\ \A c \in Bufs : c # b => blockno'[c] = blockno[c] /\ valid'[c] = valid[c]
  BY <1>7, Zenon DEF BufInv, TypeOK
<1>10. \A c \in Bufs : blockno[c] # k
  BY Zenon DEF BgetMiss, Lookup
<1>11. /\ \A c \in Bufs : c # b => blockno'[c] = blockno[c] /\ blockno[c] # k
       /\ \A c \in Bufs : valid'[c] => valid[c] /\ blockno'[c] = blockno[c]
       /\ \A c \in Bufs : c # b => valid'[c] = valid[c]
  BY <1>9, <1>10, Zenon
<1>12. Gets(u, k, b)
  BY <1>1, <1>6, <1>7, <1>8, <1>9, <1>11, Zenon DEF Gets
<1>. QED
  BY <1>12, GetStep, Zenon

-----------------------------------------------------------------------------
\* Every step of the buffer cache preserves the invariant.
LEMMA BufStep == BufInv /\ [Next]_vars => BufInv'
<1>1. ASSUME BufInv, UNCHANGED vars
      PROVE  BufInv'
  BY <1>1, SameStep, Zenon DEF vars, BufInv, TypeOK
<1>2. ASSUME BufInv, NEW u \in Uses, Step(u)
      PROVE  BufInv'
  BY <1>2, AcquireStep, ReadStep, ModifyStep, WriteStep, PinStep, UnpinStep, ReleaseStep,
     UnrefStep, HitStep, MissStep, Zenon DEF Step, Continue
<1>. QED
  BY <1>1, <1>2, Zenon DEF Next, Panicked

\* The inductive invariant of bio.c and sleeplock.c.
THEOREM BufInvariant == Spec => []BufInv
BY BufInit, BufStep, PTL DEF Spec

\* bget() and brelse() count exactly, for any number of threads and buffers, so
\* that no thread's buffer is recycled under it.
THEOREM CountsAreExact == Spec => []RefcntExact
<1>1. BufInv => RefcntExact
  BY Zenon DEF BufInv, Counted, Attached, RefcntExact
<1>. QED
  BY <1>1, BufInvariant, PTL

\* bget() panics only when each buffer is pinned or in use, for any number of
\* threads and buffers: no reference is leaked.
THEOREM PanicsWhenFull == Spec => []PanicsOnlyWhenFull
<1>1. Init => PanicsOnlyWhenFull
  BY Zenon DEF Init, PanicsOnlyWhenFull
<1>2. ASSUME BufInv, PanicsOnlyWhenFull, [Next]_vars
      PROVE  PanicsOnlyWhenFull'
  <2>1. CASE UNCHANGED vars
    BY <1>2, <2>1, Zenon DEF vars, bvars, PanicsOnlyWhenFull
  <2>2. ASSUME ~panicked, NEW u \in Uses, NEW k \in Blocks, BgetMiss(u, k)
        PROVE  PanicsOnlyWhenFull'
    <3>1. panicked' => Unused = {} /\ UNCHANGED <<bvars, buf>>
      BY <2>2, Zenon DEF BgetMiss
    <3>. QED
      BY <1>2, <3>1, AllInUse, Zenon DEF bvars, PanicsOnlyWhenFull
  <2>3. ASSUME ~panicked, panicked' = panicked
        PROVE  PanicsOnlyWhenFull'
    BY <2>3, Zenon DEF PanicsOnlyWhenFull
  <2>. QED
    BY <1>2, <2>1, <2>2, <2>3, Zenon
    DEF Next, Panicked, Step, Continue, BgetHit, Modify, Acquiresleep, DiskRead,
        Releasesleep, Unref, Bwrite, Bpin, Bunpin
<1>. QED
  BY <1>1, <1>2, BufInvariant, PTL DEF Spec

-----------------------------------------------------------------------------
(***************************************************************************)
(* Threads with two buffers.                                               *)
(***************************************************************************)

Entering == {"acquire", "asleep", "read"}

\* A thread that is getting its first buffer has no second one, and its second
\* block comes after its first in the order of Rank.
Nested == \A t \in Threads :
  /\ pc[<<t, 1>>] \in Entering => pc[<<t, 2>>] = "idle"
  /\ pc[<<t, 1>>] # "idle" /\ pc[<<t, 2>>] # "idle" =>
       Rank(want[<<t, 2>>]) > Rank(want[<<t, 1>>])

\* u is the first use of thread t, or its second.
UseOf(u, t) ==
  \/ u = <<t, 1>> /\ Other(u) = <<t, 2>>
  \/ u = <<t, 2>> /\ Other(u) = <<t, 1>>

LEMMA Pairs ==
  ASSUME NEW u \in Uses
  PROVE  \E t \in Threads : UseOf(u, t)
<1>1. PICK t \in Threads, i \in {1, 2} : u = <<t, i>>
  BY SMT DEF Uses
<1>2. CASE i = 1
  <2>1. Other(u) = <<t, 2>>
    BY <1>1, <1>2 DEF Other
  <2>. QED
    BY <1>1, <1>2, <2>1, Zenon DEF UseOf
<1>3. CASE i = 2
  <2>1. Other(u) = <<t, 1>>
    BY <1>1, <1>3 DEF Other
  <2>. QED
    BY <1>1, <1>3, <2>1, Zenon DEF UseOf
<1>. QED
  BY <1>2, <1>3, Zenon

\* What a step does to the other uses: releasesleep() wakes them.
Elsewhere(u) == \A w \in Uses : w # u =>
  /\ want'[w] = want[w]
  /\ pc'[w] = pc[w] \/ (pc[w] = "asleep" /\ pc'[w] = "acquire")

\* What it does to its own use, once that has begun.
Onward(u) ==
  \/ pc'[u] = "idle"
  \/ /\ pc[u] # "idle" /\ want'[u] = want[u]
     /\ pc'[u] \in Entering => pc[u] \in Entering

LEMMA OnwardNests ==
  ASSUME Nested, NEW u \in Uses, Elsewhere(u), Onward(u)
  PROVE  Nested'
<1> SUFFICES ASSUME NEW t \in Threads
             PROVE  /\ pc'[<<t, 1>>] \in Entering => pc'[<<t, 2>>] = "idle"
                    /\ pc'[<<t, 1>>] # "idle" /\ pc'[<<t, 2>>] # "idle" =>
                         Rank(want'[<<t, 2>>]) > Rank(want'[<<t, 1>>])
  BY Zenon DEF Nested, Rank
<1>1. <<t, 1>> \in Uses /\ <<t, 2>> \in Uses
  BY DEF Uses
<1>2. ASSUME NEW w \in Uses
      PROVE  /\ pc'[w] # "idle" => pc[w] # "idle" /\ want'[w] = want[w]
             /\ pc'[w] \in Entering => pc[w] \in Entering
             /\ pc[w] = "idle" => pc'[w] = "idle"
  BY <1>2, Zenon DEF Elsewhere, Onward, Entering
<1>. QED
  BY <1>1, <1>2, Zenon DEF Nested

LEMMA BeginNests ==
  ASSUME Nested, NEW u \in Uses, NEW k \in Blocks, Elsewhere(u), Asks(u, k),
         pc[u] = "idle", pc'[u] = "acquire", want'[u] = k
  PROVE  Nested'
<1> SUFFICES ASSUME NEW t \in Threads
             PROVE  /\ pc'[<<t, 1>>] \in Entering => pc'[<<t, 2>>] = "idle"
                    /\ pc'[<<t, 1>>] # "idle" /\ pc'[<<t, 2>>] # "idle" =>
                         Rank(want'[<<t, 2>>]) > Rank(want'[<<t, 1>>])
  BY Zenon DEF Nested, Rank
<1>1. <<t, 1>> \in Uses /\ <<t, 2>> \in Uses /\ <<t, 1>> # <<t, 2>>
  BY DEF Uses
<1>2. CASE u = <<t, 1>>
  <2>1. pc[<<t, 2>>] = "idle"
    BY <1>2 DEF Asks, Other
  <2>. QED
    BY <1>1, <1>2, <2>1, Zenon DEF Elsewhere
<1>3. CASE u = <<t, 2>>
  <2>1. pc[<<t, 1>>] = "use" /\ Rank(k) > Rank(want[<<t, 1>>])
    BY <1>3 DEF Asks, Other
  <2>. QED
    BY <1>1, <1>3, <2>1, Zenon DEF Elsewhere, Entering
<1>4. CASE u # <<t, 1>> /\ u # <<t, 2>>
  <2>1. ASSUME NEW w \in {<<t, 1>>, <<t, 2>>}
        PROVE  /\ pc'[w] # "idle" => pc[w] # "idle" /\ want'[w] = want[w]
               /\ pc'[w] \in Entering => pc[w] \in Entering
               /\ pc[w] = "idle" => pc'[w] = "idle"
    BY <1>1, <1>4, Zenon DEF Elsewhere, Entering
  <2>. QED
    BY <2>1, Zenon DEF Nested
<1>. QED
  BY <1>2, <1>3, <1>4, Zenon

LEMMA NestStep == BufInv /\ Nested /\ [Next]_vars => Nested'
<1> SUFFICES ASSUME BufInv, Nested, [Next]_vars PROVE Nested'
  BY Zenon
<1>1. /\ pc \in [Uses -> Holding \cup {"idle", "acquire", "asleep", "unref"}]
      /\ want \in [Uses -> Blocks \cup {None}]
  BY Zenon DEF BufInv, TypeOK
<1>2. CASE UNCHANGED vars
  BY <1>2, Zenon DEF vars, Nested, Rank
<1>3. ASSUME NEW u \in Uses, NEW k \in Blocks, Asks(u, k), BgetHit(u, k) \/ BgetMiss(u, k)
      PROVE  Nested'
  <2>1. CASE UNCHANGED <<pc, want>>
    BY <2>1, Zenon DEF Nested, Rank
  <2>2. CASE pc[u] = "idle" /\ pc' = [pc EXCEPT ![u] = "acquire"] /\ want' = [want EXCEPT ![u] = k]
    <3>1. Elsewhere(u) /\ pc'[u] = "acquire" /\ want'[u] = k
      BY <1>1, <2>2, Zenon DEF Elsewhere
    <3>. QED
      BY <1>3, <2>2, <3>1, BeginNests, Zenon
  <2>. QED
    BY <1>3, <2>1, <2>2, Zenon DEF BgetHit, BgetMiss, Recycle, Goto
<1>4. ASSUME NEW u \in Uses,
             (\E v \in Values : Modify(u, v)) \/ DiskRead(u) \/ Bwrite(u) \/ Bpin(u) \/ Bunpin(u)
      PROVE  Nested'
  <2>1. want' = want /\ pc[u] # "idle"
        /\ \E l \in {"use", "dirty", "written"} : pc' = [pc EXCEPT ![u] = l]
    BY <1>1, <1>4 DEF Modify, DiskRead, Bwrite, Bpin, Bunpin, Goto
  <2>2. Elsewhere(u) /\ Onward(u)
    BY <1>1, <2>1, Zenon DEF Elsewhere, Onward, Entering
  <2>. QED
    BY <2>2, OnwardNests, Zenon
<1>5. ASSUME NEW u \in Uses, Acquiresleep(u)
      PROVE  Nested'
  <2>1. want' = want /\ pc[u] = "acquire"
        /\ \E l \in {"asleep", "use", "read"} : pc' = [pc EXCEPT ![u] = l]
    BY <1>5, Zenon DEF Acquiresleep, Goto
  <2>2. Elsewhere(u) /\ Onward(u)
    BY <1>1, <2>1, Zenon DEF Elsewhere, Onward, Entering
  <2>. QED
    BY <2>2, OnwardNests, Zenon
<1>6. ASSUME NEW u \in Uses, Releasesleep(u)
      PROVE  Nested'
  <2>1. /\ want' = want /\ pc[u] \in {"use", "written"} /\ pc'[u] = "unref"
        /\ \A w \in Uses : w # u => pc'[w] = pc[w] \/ (pc[w] = "asleep" /\ pc'[w] = "acquire")
    BY <1>6, Zenon DEF Releasesleep
  <2>2. Elsewhere(u) /\ Onward(u)
    BY <2>1, Zenon DEF Elsewhere, Onward, Entering
  <2>. QED
    BY <2>2, OnwardNests, Zenon
<1>7. ASSUME NEW u \in Uses, Unref(u)
      PROVE  Nested'
  <2>1. pc' = [pc EXCEPT ![u] = "idle"] /\ want' = [want EXCEPT ![u] = None]
    BY <1>7, Zenon DEF Unref, Goto
  <2>2. Elsewhere(u) /\ Onward(u)
    BY <1>1, <2>1, Zenon DEF Elsewhere, Onward
  <2>. QED
    BY <2>2, OnwardNests, Zenon
<1>. QED
  BY <1>2, <1>3, <1>4, <1>5, <1>6, <1>7, Zenon DEF Next, Panicked, Step, Continue

\* acquiresleep() and releasesleep() lose no wakeup, and threads that hold two
\* buffers do not wait for each other, for any number of threads.
THEOREM SleepersAreWoken == Spec => []NoLostWakeup
<1>1. Init => Nested
  BY DEF Init, Nested, Uses, Entering
<1>2. ASSUME BufInv, Nested, NEW u \in Uses, pc[u] = "asleep"
      PROVE  \E w \in Uses :
               /\ owner[buf[u]] = w /\ buf[w] = buf[u] /\ pc[w] \in Holding
               /\ pc[Other(w)] = "asleep" => Rank(want[Other(w)]) > Rank(want[u])
  <2>1. buf[u] \in Bufs
    BY <1>2, MyBuffer, Zenon
  <2>2. owner[buf[u]] \in Uses
    BY <1>2, <2>1 DEF BufInv, TypeOK, Owned
  <2>3. PICK w \in Uses : owner[buf[u]] = w /\ buf[w] = buf[u] /\ pc[w] \in Holding
    BY <1>2, <2>1, <2>2, Zenon DEF BufInv, Owned
  <2>4. want[w] = want[u] /\ pc[w] # "idle"
    <3>1. pc[w] # "idle" /\ buf[w] # None /\ buf[u] # None
      BY <1>2, <2>1, <2>3, Zenon DEF Holding, BufInv, Attached
    <3>. QED
      BY <1>2, <2>3, <3>1, Zenon DEF BufInv, Attached
  <2>5. ASSUME pc[Other(w)] = "asleep"
        PROVE  Rank(want[Other(w)]) > Rank(want[u])
    <3>1. PICK t \in Threads : UseOf(w, t)
      BY Pairs, Zenon
    <3>2. CASE w = <<t, 1>> /\ Other(w) = <<t, 2>>
      <4>1. Rank(want[<<t, 2>>]) > Rank(want[<<t, 1>>])
        BY <1>2, <2>4, <2>5, <3>2, Zenon DEF Nested
      <4>. QED
        BY <2>4, <3>2, <4>1, Zenon
    <3>3. CASE w = <<t, 2>> /\ Other(w) = <<t, 1>>
      BY <1>2, <2>4, <2>5, <3>3, Zenon DEF Nested, Entering
    <3>. QED
      BY <3>1, <3>2, <3>3, Zenon DEF UseOf
  <2>. QED
    BY <2>3, <2>5, Zenon
<1>3. BufInv /\ Nested => NoLostWakeup
  BY <1>2, Zenon DEF NoLostWakeup
<1>. QED
  BY <1>1, <1>3, NestStep, BufInvariant, PTL DEF Spec

-----------------------------------------------------------------------------
(***************************************************************************)

\* What the abstract state is, without choice.
View ==
  /\ Content = [k \in Blocks |-> Content[k]] /\ Holder = [k \in Blocks |-> Holder[k]]
  /\ \A b \in Bufs : valid[b] => Content[blockno[b]] = data[b]
  /\ \A k \in Blocks : (\A b \in Bufs : blockno[b] = k => ~valid[b]) => Content[k] = disk[k]
  /\ \A u \in Uses : pc[u] \in Holding => Holder[want[u]] = u
  /\ \A k \in Blocks : (\A u \in Uses : pc[u] \in Holding => want[u] # k) => Holder[k] = None

LEMMA ViewHolds == BufInv => View
<1> SUFFICES ASSUME BufInv PROVE View
  BY Zenon
<1>1. Content = [k \in Blocks |-> Content[k]] /\ Holder = [k \in Blocks |-> Holder[k]]
  BY DEF Content, Holder
<1>2. ASSUME NEW b \in Bufs, valid[b] PROVE Content[blockno[b]] = data[b]
  <2>1. blockno[b] \in Blocks /\ blockno[b] # None
    BY <1>2, BufAssumption, Zenon DEF BufInv, Filled
  <2>2. Cached(blockno[b]) = {b}
    BY <1>2, <2>1, Zenon DEF Cached, BufInv, Distinct
  <2>. QED
    BY <2>1, <2>2, Zenon DEF Content
<1>3. ASSUME NEW k \in Blocks, \A b \in Bufs : blockno[b] = k => ~valid[b] PROVE Content[k] = disk[k]
  <2>1. Cached(k) = {}
    BY <1>3, Zenon DEF Cached
  <2>. QED
    BY <2>1, Zenon DEF Content
<1>4. ASSUME NEW u \in Uses, pc[u] \in Holding PROVE Holder[want[u]] = u
  <2>1. pc[u] # "idle"
    BY <1>4, Zenon DEF Holding
  <2>2. want[u] \in Blocks
    BY <2>1, MyBuffer, Zenon
  <2>3. ASSUME NEW w \in Uses, pc[w] \in Holding, want[w] = want[u] PROVE w = u
    <3>1. pc[w] # "idle"
      BY <2>3, Zenon DEF Holding
    <3>2. buf[w] = buf[u]
      BY <2>1, <2>3, <3>1, MyBuffer
    <3>. QED
      BY <1>4, <2>1, <2>3, <3>2, MyBuffer, Zenon
  <2>4. {w \in Uses : pc[w] \in Holding /\ want[w] = want[u]} = {u}
    BY <1>4, <2>3, Zenon
  <2>. QED
    BY <2>2, <2>4, Zenon DEF Holder
<1>5. ASSUME NEW k \in Blocks, \A u \in Uses : pc[u] \in Holding => want[u] # k PROVE Holder[k] = None
  <2>1. {w \in Uses : pc[w] \in Holding /\ want[w] = k} = {}
    BY <1>5, Zenon
  <2>. QED
    BY <2>1, Zenon DEF Holder
<1>. QED
  BY <1>1, <1>2, <1>3, <1>4, <1>5, Zenon DEF View

LEMMA SameHolder ==
  ASSUME View, View',
         \A u \in Uses : pc'[u] \in Holding <=> pc[u] \in Holding,
         \A u \in Uses : pc[u] \in Holding => want'[u] = want[u]
  PROVE  Holder' = Holder
<1>1. ASSUME NEW k \in Blocks PROVE Holder'[k] = Holder[k]
  <2>1. CASE \E u \in Uses : pc[u] \in Holding /\ want[u] = k
    <3>1. PICK u \in Uses : pc[u] \in Holding /\ want[u] = k
      BY <2>1, Zenon
    <3>2. pc'[u] \in Holding /\ want'[u] = k
      BY <3>1, Zenon
    <3>3. Holder[k] = u
      BY <3>1, Zenon DEF View
    <3>4. Holder'[k] = u
      BY <3>2, Zenon DEF View
    <3>. QED
      BY <3>3, <3>4, Zenon
  <2>2. CASE \A u \in Uses : pc[u] \in Holding => want[u] # k
    BY <2>2 DEF View
  <2>. QED
    BY <2>1, <2>2, Zenon
<1>. QED
  BY <1>1 DEF View

LEMMA SameContent ==
  ASSUME UNCHANGED <<blockno, valid, data, disk>>
  PROVE  Content' = Content
BY DEF Content, Cached

\* Recycling changes no block: the buffer had what the disk has.
LEMMA MissContent ==
  ASSUME BufInv, View, View', NEW u \in Uses, NEW k \in Blocks, BgetMiss(u, k)
  PROVE  Content' = Content
<1>1. CASE panicked'
  BY <1>1, SameContent, Zenon DEF BgetMiss, bvars
<1>2. SUFFICES ASSUME ~panicked' PROVE Content' = Content
  BY <1>1, Zenon
<1>3. PICK j \in Last(Unused) : Recycle(lru[j], u, k) /\ valid' = [valid EXCEPT ![lru[j]] = FALSE]
  BY <1>2, Zenon DEF BgetMiss
<1>4. PICK b \in Bufs : b = lru[j] /\ refcnt[b] = 0
  BY Zenon DEF Last, Unused, BufInv, TypeOK
<1>5. b \notin pinned /\ \A w \in Uses : buf[w] # b
  BY <1>4, Unreferenced, Zenon DEF BufInv
<1>6. /\ blockno'[b] = k /\ valid'[b] = FALSE /\ UNCHANGED <<data, disk>>
      /\ \A c \in Bufs : c # b => blockno'[c] = blockno[c] /\ valid'[c] = valid[c]
  BY <1>3, <1>4, Zenon DEF Recycle, BufInv, TypeOK
<1>7. ASSUME NEW l \in Blocks PROVE Content'[l] = Content[l]
  <2>1. CASE \E c \in Bufs : c # b /\ valid[c] /\ blockno[c] = l
    BY <1>6, <2>1 DEF View
  <2>2. CASE valid[b] /\ blockno[b] = l
    <3>1. l # None
      BY BufAssumption, Zenon
    <3>2. \A c \in Bufs : c # b => blockno[c] # l
      BY <2>2, <3>1, Zenon DEF BufInv, Distinct
    <3>3. Content'[l] = disk[l]
      BY <1>6, <3>2 DEF View
    <3>4. data[b] = disk[l]
      BY <1>5, <2>2, Zenon DEF BufInv, Clean
    <3>. QED
      BY <2>2, <3>3, <3>4, Zenon DEF View
  <2>3. CASE \A c \in Bufs : blockno[c] = l => ~valid[c]
    BY <1>6, <2>3, SMTT(30) DEF View
  <2>. QED
    BY <2>1, <2>2, <2>3, Zenon
<1>. QED
  BY <1>7, Zenon DEF View

\* Reading a block into its buffer, and writing it back, change no block.
LEMMA TransferContent ==
  ASSUME BufInv, View, View', NEW u \in Uses, DiskRead(u) \/ Bwrite(u)
  PROVE  Content' = Content
<1>1. pc[u] \in {"read", "use", "dirty"} /\ blockno' = blockno
  BY Zenon DEF DiskRead, Bwrite
<1>2. PICK b \in Bufs : b = buf[u] /\ blockno[b] \in Blocks
  BY <1>1, MyBuffer, Zenon
<1>3. \A c \in Bufs : c # b => blockno[c] # blockno[b]
  BY <1>1, <1>2, MyBuffer, Zenon
<1>4. \A c \in Bufs : c # b => valid'[c] = valid[c] /\ data'[c] = data[c]
  BY <1>2, SMTT(30) DEF DiskRead, Bwrite, BufInv, TypeOK
<1>5. \A k \in Blocks : k # blockno[b] => disk'[k] = disk[k]
  BY <1>2, Zenon DEF DiskRead, Bwrite, BufInv, TypeOK
<1>6. ASSUME NEW k \in Blocks, k # blockno[b] PROVE Content'[k] = Content[k]
  <2>1. CASE \E c \in Bufs : valid[c] /\ blockno[c] = k
    <3>1. PICK c \in Bufs : valid[c] /\ blockno[c] = k /\ c # b
      BY <1>6, <2>1, Zenon
    <3>2. valid'[c] /\ blockno'[c] = k /\ data'[c] = data[c]
      BY <1>1, <1>4, <3>1, Zenon
    <3>3. Content[k] = data[c]
      BY <3>1, Zenon DEF View
    <3>4. Content'[k] = data'[c]
      BY <3>2, Zenon DEF View
    <3>. QED
      BY <3>2, <3>3, <3>4, Zenon
  <2>2. CASE \A c \in Bufs : blockno[c] = k => ~valid[c]
    <3>1. \A c \in Bufs : blockno'[c] = k => ~valid'[c]
      BY <1>1, <1>4, <1>6, <2>2, Zenon
    <3>2. Content[k] = disk[k]
      BY <2>2, Zenon DEF View
    <3>3. Content'[k] = disk'[k]
      BY <3>1, Zenon DEF View
    <3>. QED
      BY <1>5, <1>6, <3>2, <3>3, Zenon
  <2>. QED
    BY <2>1, <2>2, Zenon
<1>7. Content'[blockno[b]] = Content[blockno[b]]
  <2>1. CASE DiskRead(u)
    <3>1. pc[u] = "read" /\ ~valid[b]
      BY <1>2, <2>1, Zenon DEF DiskRead, BufInv, Filled
    <3>2. Content[blockno[b]] = disk[blockno[b]]
      BY <1>2, <1>3, <3>1, SMTT(30) DEF View
    <3>3. valid'[b] /\ data'[b] = disk[blockno[b]]
      BY <1>2, <2>1, Zenon DEF DiskRead, BufInv, TypeOK
    <3>4. Content'[blockno[b]] = data'[b]
      BY <1>1, <3>3, Zenon DEF View
    <3>. QED
      BY <3>2, <3>3, <3>4, Zenon
  <2>2. CASE Bwrite(u)
    <3>1. valid[b] /\ UNCHANGED <<valid, data>>
      BY <1>2, <2>2, Zenon DEF Bwrite, BufInv, Filled
    <3>2. Content[blockno[b]] = data[b]
      BY <3>1, Zenon DEF View
    <3>3. Content'[blockno[b]] = data'[b]
      BY <1>1, <3>1, Zenon DEF View
    <3>. QED
      BY <3>1, <3>2, <3>3, Zenon
  <2>. QED
    BY <2>1, <2>2, Zenon
<1>. QED
  BY <1>6, <1>7, Zenon DEF View

\* The holder of a block changes it and no other.
LEMMA ModifyContent ==
  ASSUME BufInv, View, View', NEW u \in Uses, NEW v \in Values, Modify(u, v)
  PROVE  Content' = [Content EXCEPT ![want[u]] = v] /\ want[u] \in Blocks /\ Holder[want[u]] = u
<1>1. pc[u] = "use" /\ pc[u] \in Holding /\ UNCHANGED <<blockno, valid, disk>>
  BY Zenon DEF Modify, Holding
<1>2. PICK b \in Bufs : b = buf[u] /\ blockno[b] = want[u] /\ want[u] \in Blocks
  BY <1>1, MyBuffer, Zenon
<1>3. \A c \in Bufs : c # b => blockno[c] # blockno[b]
  BY <1>1, <1>2, MyBuffer, Zenon
<1>4. valid[b] /\ data'[b] = v /\ \A c \in Bufs : c # b => data'[c] = data[c]
  BY <1>1, <1>2, Zenon DEF Modify, BufInv, TypeOK, Filled
<1>5. ASSUME NEW k \in Blocks, k # want[u] PROVE Content'[k] = Content[k]
  <2>1. CASE \E c \in Bufs : valid[c] /\ blockno[c] = k
    <3>1. PICK c \in Bufs : valid[c] /\ blockno[c] = k /\ c # b
      BY <1>2, <1>5, <2>1, Zenon
    <3>2. Content[k] = data[c]
      BY <3>1, Zenon DEF View
    <3>3. Content'[k] = data'[c]
      BY <1>1, <3>1, Zenon DEF View
    <3>. QED
      BY <1>4, <3>1, <3>2, <3>3, Zenon
  <2>2. CASE \A c \in Bufs : blockno[c] = k => ~valid[c]
    BY <1>1, <2>2, Zenon DEF View
  <2>. QED
    BY <2>1, <2>2, Zenon
<1>6. Content'[want[u]] = v
  BY <1>1, <1>2, <1>4, SMTT(30) DEF View
<1>7. Content' = [Content EXCEPT ![want[u]] = v]
  BY <1>2, <1>5, <1>6, Zenon DEF View
<1>8. Holder[want[u]] = u
  BY <1>1, Zenon DEF View
<1>. QED
  BY <1>2, <1>7, <1>8, Zenon

\* One thread begins or ceases to hold block k.
LEMMA HolderChange ==
  ASSUME View, View', NEW u \in Uses, want[u] \in Blocks, want' = want,
         \A w \in Uses : w # u => (pc'[w] \in Holding <=> pc[w] \in Holding),
         \A w \in Uses : w # u /\ pc[w] \in Holding => want[w] # want[u],
         pc'[u] \in Holding <=> pc[u] \notin Holding
  PROVE  /\ Holder[want[u]] = IF pc[u] \in Holding THEN u ELSE None
         /\ Holder' = [Holder EXCEPT ![want[u]] = IF pc'[u] \in Holding THEN u ELSE None]
<1>1. Holder[want[u]] = IF pc[u] \in Holding THEN u ELSE None
  BY ZenonT(30) DEF View
<1>2. Holder'[want[u]] = IF pc'[u] \in Holding THEN u ELSE None
  BY DEF View
<1>3. ASSUME NEW k \in Blocks, k # want[u] PROVE Holder'[k] = Holder[k]
  <2>1. CASE \E w \in Uses : pc[w] \in Holding /\ want[w] = k
    <3>1. PICK w \in Uses : pc[w] \in Holding /\ want[w] = k /\ w # u
      BY <1>3, <2>1, Zenon
    <3>2. Holder[k] = w
      BY <3>1, Zenon DEF View
    <3>3. Holder'[k] = w
      BY <3>1, Zenon DEF View
    <3>. QED
      BY <3>2, <3>3, Zenon
  <2>2. CASE \A w \in Uses : pc[w] \in Holding => want[w] # k
    <3>1. \A w \in Uses : pc'[w] \in Holding => want'[w] # k
      BY <1>3, <2>2, Zenon
    <3>. QED
      BY <2>2, <3>1 DEF View
  <2>. QED
    BY <2>1, <2>2, Zenon
<1>4. Holder' = [Holder EXCEPT ![want[u]] = IF pc'[u] \in Holding THEN u ELSE None]
  BY <1>2, <1>3 DEF View
<1>. QED
  BY <1>1, <1>4, Zenon

LEMMA AcquireObtains ==
  ASSUME BufInv, View, View', NEW u \in Uses, Acquiresleep(u)
  PROVE  [S!Next]_<<Content, Holder>>
<1>1. pc[u] = "acquire" /\ pc[u] \notin Holding /\ want' = want /\ Content' = Content
  BY SameContent, Zenon DEF Acquiresleep, Holding
<1>2. buf[u] \in Bufs /\ want[u] \in Blocks /\ blockno[buf[u]] = want[u]
  BY <1>1, MyBuffer, Zenon
<1>3. CASE owner[buf[u]] # None
  <2>1. \A w \in Uses : pc'[w] \in Holding <=> pc[w] \in Holding
    BY <1>1, <1>3, SMTT(30) DEF Acquiresleep, Goto, BufInv, TypeOK, Holding
  <2>2. Holder' = Holder
    BY <1>1, <2>1, SameHolder, Zenon
  <2>. QED
    BY <1>1, <2>2, Zenon
<1>4. CASE owner[buf[u]] = None
  <2>1. pc'[u] \in Holding /\ \A w \in Uses : w # u => pc'[w] = pc[w]
    BY <1>4, SMTT(30) DEF Acquiresleep, Goto, BufInv, TypeOK, Holding
  <2>2. ASSUME NEW w \in Uses, w # u, pc[w] \in Holding PROVE want[w] # want[u]
    <3>1. pc[w] # "idle"
      BY <2>2, Zenon DEF Holding
    <3>2. buf[w] \in Bufs /\ blockno[buf[w]] = want[w] /\ owner[buf[w]] = w /\ w # None
      BY <2>2, <3>1, MyBuffer, BufAssumption, Zenon
    <3>. QED
      BY <1>1, <1>2, <1>4, <3>2, MyBuffer
  <2>3. Holder[want[u]] = None /\ Holder' = [Holder EXCEPT ![want[u]] = u]
    BY <1>1, <1>2, <2>1, <2>2, HolderChange, Zenon
  <2>4. S!Obtain(u, want[u])
    BY <1>1, <2>3, Zenon DEF S!Obtain
  <2>. QED
    BY <1>2, <2>4, Zenon DEF S!Next
<1>. QED
  BY <1>3, <1>4, Zenon

LEMMA ReleaseReleases ==
  ASSUME BufInv, View, View', NEW u \in Uses, Releasesleep(u)
  PROVE  [S!Next]_<<Content, Holder>>
<1>1. pc[u] \in Holding /\ pc[u] # "idle" /\ want' = want /\ Content' = Content
  BY SameContent, Zenon DEF Releasesleep, Holding
<1>2. buf[u] \in Bufs /\ want[u] \in Blocks /\ blockno[buf[u]] = want[u]
  BY <1>1, MyBuffer, Zenon
<1>3. pc'[u] \notin Holding /\ \A w \in Uses : w # u => (pc'[w] \in Holding <=> pc[w] \in Holding)
  BY Zenon DEF Releasesleep, Holding
<1>4. ASSUME NEW w \in Uses, w # u, pc[w] \in Holding PROVE want[w] # want[u]
  <2>1. pc[w] # "idle"
    BY <1>4, Zenon DEF Holding
  <2>2. want[w] = want[u] => buf[w] = buf[u]
    BY <1>1, <1>2, <2>1, MyBuffer, SMTT(30)
  <2>. QED
    BY <1>1, <1>4, <2>2, MyBuffer, ZenonT(30)
<1>5. Holder[want[u]] = u /\ Holder' = [Holder EXCEPT ![want[u]] = None]
  BY <1>1, <1>2, <1>3, <1>4, HolderChange, Zenon
<1>6. S!Release(u, want[u])
  BY <1>1, <1>5, Zenon DEF S!Release
<1>. QED
  BY <1>2, <1>6, Zenon DEF S!Next

LEMMA CopyStep ==
  ASSUME BufInv, View, View', [Next]_vars
  PROVE  [S!Next]_<<Content, Holder>>
<1>1. ASSUME NEW u \in Uses, NEW k \in Blocks, BgetHit(u, k) \/ BgetMiss(u, k)
      PROVE  UNCHANGED <<Content, Holder>>
  <2>1. Content' = Content
    BY <1>1, MissContent, SameContent, Zenon DEF BgetHit
  <2>2. \/ UNCHANGED <<pc, want>>
        \/ /\ pc[u] = "idle" /\ pc' = [pc EXCEPT ![u] = "acquire"]
           /\ want' = [want EXCEPT ![u] = k]
    BY <1>1, Zenon DEF BgetHit, BgetMiss, Recycle, Goto
  <2>3. \A w \in Uses : pc'[w] \in Holding <=> pc[w] \in Holding
    BY <2>2 DEF BufInv, TypeOK, Holding
  <2>4. \A w \in Uses : pc[w] \in Holding => want'[w] = want[w]
    BY <2>2, Zenon DEF BufInv, TypeOK, Holding
  <2>. QED
    BY <2>1, <2>3, <2>4, SameHolder, Zenon
<1>2. ASSUME NEW u \in Uses, NEW v \in Values, Modify(u, v)
      PROVE  [S!Next]_<<Content, Holder>>
  <2>1. \A w \in Uses : pc'[w] \in Holding <=> pc[w] \in Holding
    BY <1>2, Zenon DEF Modify, Goto, BufInv, TypeOK, Holding
  <2>2. Holder' = Holder
    BY <1>2, <2>1, SameHolder, Zenon DEF Modify
  <2>3. Content' = [Content EXCEPT ![want[u]] = v] /\ want[u] \in Blocks /\ Holder[want[u]] = u
    BY <1>2, ModifyContent, Zenon
  <2>4. S!Change(u, want[u])
    BY <2>2, <2>3, Zenon DEF S!Change
  <2>. QED
    BY <2>3, <2>4, Zenon DEF S!Next
<1>3. ASSUME NEW u \in Uses, DiskRead(u) \/ Bwrite(u)
      PROVE  UNCHANGED <<Content, Holder>>
  <2>1. \A w \in Uses : pc'[w] \in Holding <=> pc[w] \in Holding
    BY <1>3 DEF DiskRead, Bwrite, Goto, BufInv, TypeOK, Holding
  <2>2. Holder' = Holder
    BY <1>3, <2>1, SameHolder, Zenon DEF DiskRead, Bwrite
  <2>. QED
    BY <1>3, <2>2, TransferContent, ZenonT(30)
<1>4. ASSUME NEW u \in Uses, Bpin(u) \/ Bunpin(u) \/ Unref(u)
      PROVE  UNCHANGED <<Content, Holder>>
  <2>1. \A w \in Uses : pc'[w] \in Holding <=> pc[w] \in Holding
    <3>1. pc \in [Uses -> Holding \cup {"idle", "acquire", "asleep", "unref"}]
      BY Zenon DEF BufInv, TypeOK
    <3>. QED
      BY <1>4, <3>1, SMTT(30), SMTT(60) DEF Bpin, Bunpin, Unref, Goto, Holding
  <2>2. \A w \in Uses : pc[w] \in Holding => want'[w] = want[w]
    <3>1. want \in [Uses -> Blocks \cup {None}]
      BY Zenon DEF BufInv, TypeOK
    <3>. QED
      BY <1>4, <3>1, SMTT(30), SMTT(60) DEF Bpin, Bunpin, Unref, Holding
  <2>3. UNCHANGED <<blockno, valid, data, disk>>
    BY <1>4, Zenon DEF Bpin, Bunpin, Unref
  <2>. QED
    BY <2>1, <2>2, <2>3, SameHolder, SameContent, ZenonT(30)
<1>5. ASSUME UNCHANGED vars
      PROVE  UNCHANGED <<Content, Holder>>
  <2>1. UNCHANGED <<blockno, valid, data, disk, pc, want>>
    BY <1>5, Zenon DEF vars, bvars
  <2>2. Content' = Content
    BY <2>1, SameContent, Zenon
  <2>3. Holder' = Holder
    BY <2>1, SameHolder, Zenon
  <2>. QED
    BY <2>2, <2>3, Zenon
<1>. QED
  BY <1>1, <1>2, <1>3, <1>4, <1>5, AcquireObtains, ReleaseReleases, Zenon
     DEF Next, Panicked, Step, Continue

LEMMA CopyInit == Init => S!Init
<1> SUFFICES ASSUME Init PROVE S!Init
  BY Zenon
<1>1. View
  BY BufInit, ViewHolds, Zenon
<1>2. \A k \in Blocks : Content[k] = disk[k] /\ Holder[k] = None
  BY <1>1, Zenon DEF Init, View, Holding
<1>3. Content \in [Blocks -> Values]
  BY <1>1, <1>2, Zenon DEF Init, View
<1>4. Holder = [k \in Blocks |-> None]
  BY <1>1, <1>2, Zenon DEF View
<1>. QED
  BY <1>3, <1>4, Zenon DEF S!Init

\* The cache is one exclusive copy of every block, for any number of threads,
\* blocks and buffers: what it promises in BlockStore.
THEOREM CacheIsOneCopy == Spec => OneCopy
<1>1. BufInv /\ BufInv' /\ [Next]_vars => [S!Next]_<<Content, Holder>>
  <2>1. BufInv /\ BufInv' => View /\ View'
    BY ViewHolds, PTL
  <2>. QED
    BY <2>1, CopyStep, Zenon
<1>. QED
  BY <1>1, CopyInit, BufInvariant, PTL DEF Spec, OneCopy, S!Spec
=============================================================================
