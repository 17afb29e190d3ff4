-------------------------- MODULE VirtioDiskProofs --------------------------
(***************************************************************************)
(* Proofs about VirtioDisk for every number of threads and descriptors and *)
(* every range of the ring indices.                                        *)
(***************************************************************************)
EXTENDS VirtioDisk, FiniteSetTheorems, WellFoundedInduction, TLAPS

-----------------------------------------------------------------------------
(* A ring r that is read at index f and written at index a. *)

\* How far the writer is ahead of the reader.
Ahead(f, a) == IF f <= a THEN a - f ELSE a - f + Wrap
Slot(f, i) == (f + i) % NUM

\* The entries that have not been read, and that they are all different.
Unread(r, f, a) == {r[Slot(f, i)] : i \in 0..Ahead(f, a) - 1}
AllDifferent(r, f, a) ==
  \A i, j \in 0..Ahead(f, a) - 1 : i # j => r[Slot(f, i)] # r[Slot(f, j)]

\* The entry for index x has been set to d.
Writes(q, r, x, d) == q = [r EXCEPT ![x % NUM] = d]

RingOK(r, f, a) ==
  /\ f \in 0..Wrap - 1 /\ a \in 0..Wrap - 1 /\ r \in [Descs -> Descs]
  /\ Ahead(f, a) < NUM /\ AllDifferent(r, f, a)

-----------------------------------------------------------------------------
(* The inductive invariant. *)

\* The three descriptors of a call.
D1(t) == next[head[t]]
D2(t) == next[D1(t)]
Three(t) == {head[t], D1(t), D2(t)}

\* Each call in progress has a chain of three descriptors of its own.
Chains ==
  /\ \A t \in Waiting :
       /\ D1(t) \in Descs /\ D2(t) \in Descs /\ next[D2(t)] = None
       /\ head[t] # D1(t) /\ head[t] # D2(t) /\ D1(t) # D2(t)
       /\ Three(t) \cap free = {}
       /\ b[head[t]] = t /\ addr[D1(t)] = t
  /\ \A t, u \in Waiting : t # u => Three(t) \cap Three(u) = {}
  /\ \A d \in Descs \ free : \E t \in Waiting : d \in Three(t)

Counted ==
  IsFiniteSet(Waiting) /\ Cardinality(free) = NUM - 3 * Cardinality(Waiting)

Queued == Unread(ring, fetched, availIdx)
Used == Unread(usedRing, seen, usedIdx)

Rings == RingOK(ring, fetched, availIdx) /\ RingOK(usedRing, seen, usedIdx)

\* A call that is not finished has its request in one place.
Requests ==
  /\ \A t \in Threads : busy[t] => t \in Waiting
  /\ \A t \in Waiting : busy[t] <=> head[t] \in Queued \cup inflight \cup Used
  /\ \A d \in Queued \cup inflight \cup Used : \E t \in Waiting : head[t] = d
  /\ Queued \cap inflight = {} /\ Queued \cap Used = {} /\ inflight \cap Used = {}
  /\ \A d \in Used : status[d] = 0

\* The device has made the transfer when it has completed the request.
Transfers ==
  /\ \A t \in Threads : pc[t] \in {"start", "nodesc"} => moved[t] = 0
  /\ \A t \in Waiting : moved[t] = IF head[t] \in Queued \cup inflight THEN 0 ELSE 1

DiskInv ==
  TypeOK /\ NoPanic /\ Chains /\ Counted /\ Rings /\ Requests /\ Transfers

-----------------------------------------------------------------------------
(* Arithmetic of the ring indices. *)

LEMMA DivMod ==
  ASSUME NEW a \in Nat, NEW m \in Nat \ {0}
  PROVE  \E q \in Int, r \in 0..m - 1 : a = m * q + r /\ (a % m) = r
<1>1. a \div m \in Int /\ (a % m) \in 0..m - 1 /\ a = m * (a \div m) + (a % m)
  OBVIOUS
<1>. QED
  BY <1>1, Zenon

LEMMA ModUnique ==
  ASSUME NEW a \in Nat, NEW m \in Nat \ {0}, NEW q \in Int, NEW r \in 0..m - 1,
         a = m * q + r
  PROVE  a % m = r
OBVIOUS

\* Indices less than size apart have different slots.
LEMMA SlotsDiffer ==
  ASSUME NEW a \in Nat, NEW c \in Nat, NEW size \in Nat \ {0}, a < c, c < a + size
  PROVE  a % size # c % size
<1>1. PICK q \in Int, r \in 0..size - 1 : a = size * q + r /\ a % size = r
  BY DivMod, Zenon
<1>2. CASE r + (c - a) < size
  <2>1. PICK s \in 0..size - 1 : s = r + (c - a)
    BY <1>2
  <2>2. c = size * q + s
    BY <1>1, <2>1
  <2>3. c % size = s
    BY <2>2, ModUnique, Zenon
  <2>. QED
    BY <1>1, <2>1, <2>3
<1>3. CASE r + (c - a) >= size
  <2>1. PICK s \in 0..size - 1 : s = r + (c - a) - size
    BY <1>3
  <2>2. c = size * (q + 1) + s
    BY <1>1, <2>1
  <2>3. c % size = s
    BY <2>2
  <2>. QED
    BY <1>1, <2>1, <2>3
<1>. QED
  BY <1>1, <1>2, <1>3

\* An index has the same slot before and after it wraps.
LEMMA SlotWraps ==
  ASSUME NEW a \in Nat, NEW wrap \in Nat, NEW size \in Nat \ {0}, wrap % size = 0
  PROVE  (a + wrap) % size = a % size
<1>1. PICK q \in Int, r \in 0..size - 1 : a = size * q + r /\ a % size = r
  BY DivMod, Zenon
<1>2. PICK k \in Int, z \in 0..size - 1 : wrap = size * k + z /\ wrap % size = z
  BY DivMod, Zenon
<1>3. PICK m \in Int : m = q + k
  OBVIOUS
<1>4. PICK c \in Nat : c = a + wrap
  OBVIOUS
<1>5. size * m = size * q + size * k
  BY <1>3
<1>6. c = size * m + r
  BY <1>1, <1>2, <1>4, <1>5
<1>7. c % size = r
  BY <1>6, ModUnique, Zenon
<1>. QED
  BY <1>1, <1>4, <1>7, Zenon


LEMMA Sizes ==
  /\ NUM \in Nat \ {0} /\ NUM >= 3 /\ Wrap \in Nat \ {0} /\ Wrap % NUM = 0 /\ Wrap >= NUM
  /\ None \notin Threads /\ None \notin Descs /\ Descs \subseteq Nat
  /\ \A x \in Nat : x % NUM \in Descs
<1>1. NUM \in Nat \ {0} /\ NUM >= 3 /\ Wrap \in Nat \ {0} /\ Wrap % NUM = 0
  BY DiskAssumption
<1>2. Wrap >= NUM
  <2>1. SUFFICES ASSUME Wrap < NUM PROVE FALSE
    BY <1>1
  <2>2. Wrap = NUM * 0 + Wrap /\ Wrap \in 0..NUM - 1
    BY <1>1, <2>1
  <2>3. Wrap % NUM = Wrap
    BY <1>1, <2>2, ModUnique
  <2>. QED
    BY <1>1, <2>3, Zenon
<1>3. None \notin Threads /\ None \notin Descs /\ Descs \subseteq Nat
  BY <1>1, DiskAssumption DEF Descs
<1>4. \A x \in Nat : x % NUM \in Descs
  BY <1>1 DEF Descs
<1>. QED
  BY <1>1, <1>2, <1>3, <1>4, Zenon

LEMMA SizesNat ==
  NUM \in Nat \ {0} /\ NUM >= 3 /\ Wrap \in Nat \ {0} /\ Wrap >= NUM
BY Sizes, Zenon

LEMMA IncIs ==
  ASSUME NEW x \in 0..Wrap - 1
  PROVE  Inc(x) = IF x + 1 < Wrap THEN x + 1 ELSE 0
BY Sizes DEF Inc

LEMMA AheadType ==
  ASSUME NEW f \in 0..Wrap - 1, NEW a \in 0..Wrap - 1
  PROVE  /\ Ahead(f, a) \in 0..Wrap - 1
         /\ Ahead(f, a) = 0 <=> f = a
         /\ f \in Nat /\ a \in Nat /\ Inc(f) \in 0..Wrap - 1 /\ Inc(a) \in 0..Wrap - 1
<1>1. Wrap \in Nat \ {0}
  BY Sizes, Zenon
<1>2. Inc(f) = (IF f + 1 < Wrap THEN f + 1 ELSE 0) /\ Inc(a) = (IF a + 1 < Wrap THEN a + 1 ELSE 0)
  BY IncIs, Zenon
<1>3. Inc(f) \in 0..Wrap - 1 /\ Inc(a) \in 0..Wrap - 1
  BY <1>1, <1>2
<1>. QED
  BY <1>1, <1>3 DEF Ahead

LEMMA AheadMoves ==
  ASSUME NEW f \in 0..Wrap - 1, NEW a \in 0..Wrap - 1
  PROVE  /\ Ahead(f, a) + 1 < Wrap => Ahead(f, Inc(a)) = Ahead(f, a) + 1
         /\ f # a => Ahead(Inc(f), a) = Ahead(f, a) - 1
<1>1. Wrap \in Nat \ {0}
  BY Sizes, Zenon
<1>2. Inc(f) = (IF f + 1 < Wrap THEN f + 1 ELSE 0) /\ Inc(a) = (IF a + 1 < Wrap THEN a + 1 ELSE 0)
  BY IncIs, Zenon
<1>. QED
  BY <1>1, <1>2 DEF Ahead

LEMMA SlotType ==
  ASSUME NEW f \in Nat, NEW i \in Nat
  PROVE  Slot(f, i) \in Descs
BY Sizes DEF Slot

\* The slot the writer fills, and the slots seen from the reader's next index.
LEMMA SlotOfWriter ==
  ASSUME NEW f \in 0..Wrap - 1, NEW a \in 0..Wrap - 1
  PROVE  a % NUM = Slot(f, Ahead(f, a))
<1>0. f \in Nat /\ a \in Nat
  BY AheadType, Zenon
<1>1. CASE f <= a
  BY <1>0, <1>1 DEF Slot, Ahead
<1>2. CASE ~(f <= a)
  <2>1. f + Ahead(f, a) = a + Wrap
    BY <1>0, <1>2, Sizes DEF Ahead
  <2>2. (a + Wrap) % NUM = a % NUM
    BY <1>0, Sizes, SlotWraps, Zenon
  <2>. QED
    BY <2>1, <2>2, Zenon DEF Slot
<1>. QED
  BY <1>1, <1>2, Zenon

LEMMA SlotOfNext ==
  ASSUME NEW f \in 0..Wrap - 1, NEW i \in Nat
  PROVE  Slot(Inc(f), i) = Slot(f, i + 1)
<1>0. f \in Nat
  OBVIOUS
<1>1. CASE f + 1 < Wrap
  <2>1. Inc(f) + i = f + (i + 1)
    BY <1>0, <1>1, IncIs
  <2>. QED
    BY <2>1, Zenon DEF Slot
<1>2. CASE ~(f + 1 < Wrap)
  <2>1. Inc(f) + i = i /\ f + (i + 1) = i + Wrap
    BY <1>0, <1>2, IncIs, Sizes
  <2>2. (i + Wrap) % NUM = i % NUM
    BY Sizes, SlotWraps, Zenon
  <2>. QED
    BY <2>1, <2>2, Zenon DEF Slot
<1>. QED
  BY <1>1, <1>2, Zenon

LEMMA SlotsApart ==
  ASSUME NEW f \in Nat, NEW i \in 0..NUM - 1, NEW j \in 0..NUM - 1, i # j
  PROVE  Slot(f, i) # Slot(f, j)
<1>1. CASE i < j
  <2>1. f + i \in Nat /\ f + j \in Nat /\ f + i < f + j /\ f + j < (f + i) + NUM
    BY <1>1, Sizes
  <2>. QED
    BY <2>1, Sizes, SlotsDiffer, Zenon DEF Slot
<1>2. CASE j < i
  <2>1. f + i \in Nat /\ f + j \in Nat /\ f + j < f + i /\ f + i < (f + j) + NUM
    BY <1>2, Sizes
  <2>. QED
    BY <2>1, Sizes, SlotsDiffer, Zenon DEF Slot
<1>. QED
  BY <1>1, <1>2
-----------------------------------------------------------------------------
(* What writing and reading an entry does to the unread entries. *)

LEMMA RingTypes ==
  ASSUME NEW r, NEW f, NEW a, RingOK(r, f, a)
  PROVE  /\ f \in 0..Wrap - 1 /\ a \in 0..Wrap - 1 /\ f \in Nat /\ a \in Nat
         /\ Ahead(f, a) \in 0..NUM - 1 /\ a % NUM \in Descs /\ f % NUM \in Descs
         /\ Unread(r, f, a) \subseteq Descs
<1>1. f \in 0..Wrap - 1 /\ a \in 0..Wrap - 1 /\ r \in [Descs -> Descs] /\ Ahead(f, a) < NUM
  BY Zenon DEF RingOK
<1>2. f \in Nat /\ a \in Nat /\ Ahead(f, a) \in 0..Wrap - 1
  BY <1>1, AheadType, Zenon
<1>3. Ahead(f, a) \in 0..NUM - 1
  BY <1>1, <1>2, Sizes
<1>4. \A i \in 0..Ahead(f, a) - 1 : r[Slot(f, i)] \in Descs
  BY <1>1, <1>2, SlotType
<1>. QED
  BY <1>1, <1>2, <1>3, <1>4, Sizes, Zenon DEF Unread

\* The entries are different members of any set that holds them all.
LEMMA RingBound ==
  ASSUME NEW r, NEW f, NEW a, RingOK(r, f, a),
         NEW S, IsFiniteSet(S), Unread(r, f, a) \subseteq S
  PROVE  Ahead(f, a) <= Cardinality(S)
<1>1. PICK k \in Nat : k = Ahead(f, a)
  BY RingTypes
<1>2. SUFFICES ASSUME Cardinality(S) < k PROVE FALSE
  BY <1>1, FS_CardinalityType
<1>3. IsFiniteSet(0..k - 1) /\ Cardinality(0..k - 1) = k
  <2>1. 0 \in Int /\ k - 1 \in Int
    OBVIOUS
  <2>2. /\ IsFiniteSet(0..k - 1)
        /\ Cardinality(0..k - 1) = IF 0 > k - 1 THEN 0 ELSE (k - 1) - 0 + 1
    BY <2>1, FS_Interval, Zenon
  <2>. QED
    BY <2>2
<1>4. PICK e : e = [i \in 0..k - 1 |-> r[Slot(f, i)]]
  BY Zenon
<1>5. e \in [0..k - 1 -> S]
  BY <1>1, <1>4, Zenon DEF Unread
<1>6. \E i, j \in 0..k - 1 : i # j /\ e[i] = e[j]
  BY <1>2, <1>3, <1>5, FS_PigeonHole
<1>. QED
  BY <1>1, <1>4, <1>6, Zenon DEF RingOK, AllDifferent

LEMMA RingWrite ==
  ASSUME NEW r, NEW f, NEW a, NEW d, NEW q,
         RingOK(r, f, a), Ahead(f, a) + 1 < NUM, d \in Descs, d \notin Unread(r, f, a),
         Writes(q, r, a, d)
  PROVE  RingOK(q, f, Inc(a)) /\ Unread(q, f, Inc(a)) = Unread(r, f, a) \cup {d}
<1>1. PICK k \in Nat : k = Ahead(f, a) /\ k + 1 < NUM
  BY RingTypes
<1>2. f \in 0..Wrap - 1 /\ a \in 0..Wrap - 1 /\ f \in Nat /\ Inc(a) \in 0..Wrap - 1
  BY RingTypes, AheadType, Zenon
<1>3. Ahead(f, Inc(a)) = k + 1
  <2>1. k + 1 < Wrap
    BY <1>1, SizesNat
  <2>. QED
    BY <1>1, <1>2, <2>1, AheadMoves, Zenon
<1>4. q \in [Descs -> Descs]
  BY Zenon DEF RingOK, Writes
<1>5. q[Slot(f, k)] = d
  BY <1>1, <1>2, SlotOfWriter, RingTypes, Zenon DEF RingOK, Writes
<1>6. ASSUME NEW i \in 0..k - 1 PROVE q[Slot(f, i)] = r[Slot(f, i)]
  <2>1. i \in 0..NUM - 1 /\ k \in 0..NUM - 1 /\ i # k
    BY <1>1, SizesNat
  <2>2. Slot(f, i) # a % NUM
    BY <1>1, <1>2, <2>1, SlotOfWriter, SlotsApart
  <2>. QED
    BY <1>2, <2>2, SlotType DEF RingOK, Writes
<1>7. 0..(k + 1) - 1 = (0..k - 1) \cup {k}
  BY <1>1
<1>8. Unread(r, f, a) = {r[Slot(f, i)] : i \in 0..k - 1}
  BY <1>1, Zenon DEF Unread
<1>9. Unread(q, f, Inc(a)) = {q[Slot(f, i)] : i \in (0..k - 1) \cup {k}}
  BY <1>3, <1>7, Zenon DEF Unread
<1>10. Unread(q, f, Inc(a)) = Unread(r, f, a) \cup {d}
  BY <1>5, <1>6, <1>8, <1>9, Zenon
<1>11. \A i, j \in 0..k - 1 : i # j => r[Slot(f, i)] # r[Slot(f, j)]
  BY <1>1, Zenon DEF RingOK, AllDifferent
<1>12. \A i, j \in (0..k - 1) \cup {k} : i # j => q[Slot(f, i)] # q[Slot(f, j)]
  BY <1>5, <1>6, <1>8, <1>11
<1>13. AllDifferent(q, f, Inc(a))
  BY <1>3, <1>7, <1>12, Zenon DEF AllDifferent
<1>. QED
  BY <1>1, <1>2, <1>3, <1>4, <1>10, <1>13, Zenon DEF RingOK

LEMMA RingRead ==
  ASSUME NEW r, NEW f, NEW a, RingOK(r, f, a), f # a,
         NEW q, Writes(q, r, f, 0)
  PROVE  /\ RingOK(q, Inc(f), a)
         /\ r[f % NUM] \in Unread(r, f, a)
         /\ Unread(q, Inc(f), a) = Unread(r, f, a) \ {r[f % NUM]}
<1>1. f \in 0..Wrap - 1 /\ a \in 0..Wrap - 1 /\ f \in Nat /\ Inc(f) \in 0..Wrap - 1
  BY RingTypes, AheadType, Zenon
<1>2. PICK k \in Nat : k + 1 = Ahead(f, a) /\ k + 1 < NUM
  <2>1. Ahead(f, a) \in 0..NUM - 1 /\ Ahead(f, a) # 0
    BY <1>1, RingTypes, AheadType, Zenon
  <2>. QED
    BY <2>1, Sizes
<1>3. Ahead(Inc(f), a) = k
  BY <1>1, <1>2, AheadMoves
<1>4. q \in [Descs -> Descs]
  BY Sizes, Zenon DEF RingOK, Writes, Descs
<1>5. f % NUM = Slot(f, 0)
  BY <1>1 DEF Slot
<1>6. ASSUME NEW i \in 0..k - 1 PROVE q[Slot(Inc(f), i)] = r[Slot(f, i + 1)]
  <2>1. i + 1 \in 0..NUM - 1 /\ 0 \in 0..NUM - 1 /\ i + 1 # 0 /\ i \in Nat /\ i + 1 \in Nat
    BY <1>2, Sizes
  <2>2. Slot(f, i + 1) # f % NUM
    BY <1>1, <1>5, <2>1, SlotsApart, Zenon
  <2>3. Slot(Inc(f), i) = Slot(f, i + 1)
    BY <1>1, <2>1, SlotOfNext, Zenon
  <2>. QED
    BY <1>1, <2>1, <2>2, <2>3, SlotType, Zenon DEF RingOK, Writes
<1>7. \A i, j \in 0..(k + 1) - 1 : i # j => r[Slot(f, i)] # r[Slot(f, j)]
  BY <1>2, Zenon DEF RingOK, AllDifferent
<1>8. \A i, j \in 0..k - 1 : i # j => q[Slot(Inc(f), i)] # q[Slot(Inc(f), j)]
  <2>1. SUFFICES ASSUME NEW i \in 0..k - 1, NEW j \in 0..k - 1, i # j
                 PROVE  q[Slot(Inc(f), i)] # q[Slot(Inc(f), j)]
    BY Zenon
  <2>2. i + 1 \in 0..(k + 1) - 1 /\ j + 1 \in 0..(k + 1) - 1 /\ i + 1 # j + 1
    BY <1>2, <2>1
  <2>. QED
    BY <1>6, <1>7, <2>2, Zenon
<1>9. Unread(r, f, a) = {r[Slot(f, i)] : i \in 0..(k + 1) - 1}
  BY <1>2, Zenon DEF Unread
<1>10. Unread(q, Inc(f), a) = {r[Slot(f, i + 1)] : i \in 0..k - 1}
  BY <1>3, <1>6, Zenon DEF Unread
<1>11. 0 \in 0..(k + 1) - 1
  BY <1>2
<1>12. r[f % NUM] \in Unread(r, f, a)
  BY <1>5, <1>9, <1>11, Zenon
<1>13. ASSUME NEW x PROVE x \in Unread(q, Inc(f), a) => x \in Unread(r, f, a) \ {r[f % NUM]}
  <2>1. SUFFICES ASSUME NEW i \in 0..k - 1, x = r[Slot(f, i + 1)]
                 PROVE  x \in Unread(r, f, a) \ {r[f % NUM]}
    BY <1>10, Zenon
  <2>2. i + 1 \in 0..(k + 1) - 1 /\ i + 1 # 0
    BY <1>2
  <2>. QED
    BY <1>5, <1>7, <1>9, <1>11, <2>1, <2>2, Zenon
<1>14. ASSUME NEW x PROVE x \in Unread(r, f, a) \ {r[f % NUM]} => x \in Unread(q, Inc(f), a)
  <2>1. SUFFICES ASSUME NEW i \in 0..(k + 1) - 1, x = r[Slot(f, i)], x # r[Slot(f, 0)]
                 PROVE  x \in Unread(q, Inc(f), a)
    BY <1>5, <1>9, Zenon
  <2>2. PICK j \in 0..k - 1 : i = j + 1
    <3>1. i # 0
      BY <2>1, Zenon
    <3>2. i - 1 \in 0..k - 1 /\ i = (i - 1) + 1
      BY <3>1, <1>2
    <3>. QED
      BY <3>2, Zenon
  <2>. QED
    BY <1>10, <2>1, <2>2, Zenon
<1>15. Unread(q, Inc(f), a) = Unread(r, f, a) \ {r[f % NUM]}
  BY <1>13, <1>14, Zenon
<1>16. RingOK(q, Inc(f), a)
  <2>1. AllDifferent(q, Inc(f), a)
    BY <1>3, <1>8, Zenon DEF AllDifferent
  <2>2. Ahead(Inc(f), a) < NUM
    BY <1>2, <1>3, SizesNat
  <2>. QED
    BY <1>1, <1>4, <2>1, <2>2, Zenon DEF RingOK
<1>. QED
  BY <1>12, <1>15, <1>16, Zenon

\* alloc_desc() finds a free descriptor if there is one.
LEMMA LowestIn ==
  ASSUME NEW S, S \subseteq Nat, S # {}
  PROVE  Lowest(S) \in S
<1>1. PICK x \in S : \A y \in S : ~(<<y, x>> \in OpToRel(<, Nat))
  BY WFMin, NatLessThanWellFounded, Zenon
<1>2. ASSUME NEW y \in S PROVE x <= y
  <2>1. SUFFICES ASSUME y < x PROVE FALSE
    OBVIOUS
  <2>2. <<y, x>> \in Nat \X Nat /\ <<y, x>>[1] < <<y, x>>[2]
    BY <2>1, Zenon
  <2>3. <<y, x>> \in OpToRel(<, Nat)
    BY <2>2, Zenon DEF OpToRel
  <2>. QED
    BY <1>1, <2>3, Zenon
<1>. QED
  BY <1>2, Zenon DEF Lowest
-----------------------------------------------------------------------------
(* Consequences of the invariant. *)

LEMMA FiniteDescs ==
  ASSUME NEW S \in SUBSET Descs
  PROVE  IsFiniteSet(S) /\ Cardinality(S) \in Nat /\ Cardinality(Descs \ S) = NUM - Cardinality(S)
<1>1. IsFiniteSet(Descs) /\ Cardinality(Descs) = NUM
  <2>1. 0 \in Int /\ NUM - 1 \in Int
    BY SizesNat
  <2>2. /\ IsFiniteSet(0..NUM - 1)
        /\ Cardinality(0..NUM - 1) = IF 0 > NUM - 1 THEN 0 ELSE (NUM - 1) - 0 + 1
    BY <2>1, FS_Interval, Zenon
  <2>. QED
    BY <2>2, SizesNat DEF Descs
<1>2. IsFiniteSet(S) /\ Cardinality(S) \in Nat
  BY <1>1, FS_Subset, FS_CardinalityType, Zenon
<1>3. Descs \cap S = S
  BY Zenon
<1>. QED
  BY <1>1, <1>2, <1>3, FS_Difference

\* The descriptors alloc3_desc() takes.
LEMMA LowestTaken ==
  ASSUME NEW S, S \subseteq Nat, IsFiniteSet(S), NEW n \in Nat, Cardinality(S) = n + 1,
         NEW x, x = Lowest(S)
  PROVE  x \in S /\ IsFiniteSet(S \ {x}) /\ Cardinality(S \ {x}) = n
<1>1. n + 1 # 0
  OBVIOUS
<1>2. S # {}
  BY <1>1, FS_EmptySet, Zenon
<1>3. x \in S
  BY <1>2, LowestIn, Zenon
<1>4. IsFiniteSet(S \ {x}) /\ Cardinality(S \ {x}) = Cardinality(S) - 1
  BY <1>3, FS_RemoveElement, Zenon
<1>. QED
  BY <1>3, <1>4

\* x, y and z are different members of S, and what remains has three fewer.
TakesThree(S, x, y, z) ==
  /\ x \in S /\ y \in S /\ z \in S /\ x # y /\ x # z /\ y # z
  /\ Cardinality(S \ {x, y, z}) = Cardinality(S) - 3

LEMMA ThreeLowest ==
  ASSUME NEW S \in SUBSET Descs, Cardinality(S) >= 3,
         NEW x, x = Lowest(S), NEW y, y = Lowest(S \ {x}), NEW z, z = Lowest(S \ {x, y})
  PROVE  TakesThree(S, x, y, z)
<1>1. IsFiniteSet(S) /\ Cardinality(S) \in Nat /\ S \subseteq Nat
  BY FiniteDescs, Sizes, Zenon
<1>2. PICK n \in Nat : Cardinality(S) = (n + 2) + 1
  <2>1. Cardinality(S) - 3 \in Nat /\ Cardinality(S) = ((Cardinality(S) - 3) + 2) + 1
    BY <1>1
  <2>. QED
    BY <2>1, Zenon
<1>3. n + 2 \in Nat /\ n + 1 \in Nat /\ n + 2 = (n + 1) + 1
  OBVIOUS
<1>4. x \in S /\ IsFiniteSet(S \ {x}) /\ Cardinality(S \ {x}) = n + 2
  BY <1>1, <1>2, <1>3, LowestTaken, Zenon
<1>5. S \ {x, y} = (S \ {x}) \ {y} /\ S \ {x, y, z} = (S \ {x, y}) \ {z}
      /\ S \ {x} \subseteq Nat /\ S \ {x, y} \subseteq Nat
  BY <1>1, Zenon
<1>6. y \in S \ {x} /\ IsFiniteSet(S \ {x, y}) /\ Cardinality(S \ {x, y}) = n + 1
  <2>1. S \ {x} \subseteq Nat /\ Cardinality(S \ {x}) = (n + 1) + 1
    BY <1>3, <1>4, <1>5, Zenon
  <2>2. /\ y \in S \ {x} /\ IsFiniteSet((S \ {x}) \ {y})
        /\ Cardinality((S \ {x}) \ {y}) = n + 1
    BY <1>3, <1>4, <2>1, LowestTaken, Zenon
  <2>. QED
    BY <1>5, <2>2, Zenon
<1>7. z \in S \ {x, y} /\ Cardinality(S \ {x, y, z}) = n
  <2>1. PICK T : T = S \ {x, y}
    BY Zenon
  <2>2. T \subseteq Nat /\ IsFiniteSet(T) /\ Cardinality(T) = n + 1 /\ z = Lowest(T)
    BY <1>5, <1>6, <2>1, Zenon
  <2>3. z \in T /\ Cardinality(T \ {z}) = n
    BY <2>2, LowestTaken, Zenon
  <2>. QED
    BY <1>5, <2>1, <2>3, Zenon
<1>8. n = Cardinality(S) - 3
  BY <1>2
<1>. QED
  BY <1>4, <1>6, <1>7, <1>8, Zenon DEF TakesThree

\* free_chain() frees the three descriptors of the call.
LEMMA ChainIsThree ==
  ASSUME TypeOK, Chains, NEW t \in Waiting
  PROVE  Chain(head[t]) = Three(t)
<1>1. D1(t) # None /\ D2(t) # None /\ head[t] # None
  BY Sizes DEF TypeOK, Chains, Waiting
<1>. QED
  BY <1>1, Zenon DEF Chain, Three, D1, D2

\* No request is for a free descriptor.
LEMMA RequestsInUse ==
  ASSUME TypeOK, Chains, Requests
  PROVE  Queued \cup inflight \cup Used \subseteq Descs \ free
<1>1. \A t \in Waiting : head[t] \in Descs \ free
  BY Zenon DEF TypeOK, Chains, Three, Waiting
<1>. QED
  BY <1>1 DEF Requests

\* Different calls have different first descriptors, which are nobody's second.
LEMMA HeadsDiffer ==
  ASSUME Chains, NEW t \in Waiting, NEW u \in Waiting, t # u
  PROVE  head[t] # head[u] /\ head[u] # D1(t)
BY Zenon DEF Chains, Three

\* Steps that leave the descriptors alone.
LEMMA ChainsKept ==
  ASSUME Chains, Counted, Waiting' = Waiting, UNCHANGED <<free, next, addr, b, head>>
  PROVE  Chains' /\ Counted'
<1>1. Chains'
  BY DEF Chains, Three, D1, D2
<1>. QED
  BY <1>1, Zenon DEF Counted

\* Steps that change no chain and no ring.
LEMMA QuietStep ==
  ASSUME Chains, Counted, Rings, Requests, Waiting' = Waiting,
         UNCHANGED <<free, next, addr, b, status, ring, availIdx, fetched, usedRing, usedIdx,
                     seen, inflight, head, busy>>
  PROVE  Chains' /\ Counted' /\ Rings' /\ Requests'
<1>1. Chains' /\ Counted'
  BY ChainsKept, Zenon
<1>2. Rings'
  BY Zenon DEF Rings
<1>3. Queued' = Queued /\ Used' = Used
  BY Zenon DEF Queued, Used
<1>4. Requests'
  BY <1>3, Zenon DEF Requests
<1>. QED
  BY <1>1, <1>2, <1>4, Zenon

-----------------------------------------------------------------------------
(* Each action preserves the invariant. *)

LEMMA InitDisk == Init => DiskInv
<1>. SUFFICES ASSUME Init PROVE DiskInv
  BY Zenon
<1>1. TypeOK /\ NoPanic
  <2>1. 0 \in Descs /\ 0 \in 0..Wrap - 1
    BY SizesNat DEF Descs
  <2>. QED
    BY <2>1, Zenon DEF Init, TypeOK, NoPanic
<1>2. Waiting = {}
  BY Zenon DEF Init, Waiting
<1>3. Chains /\ Counted /\ Transfers
  <2>1. Cardinality(Descs \ {}) = NUM - 0 /\ Descs \ {} = Descs
    BY FiniteDescs, FS_EmptySet, Zenon
  <2>2. Counted
    BY <1>2, <2>1, FS_EmptySet, SizesNat DEF Init, Counted
  <2>. QED
    BY <1>2, <2>2, Zenon DEF Init, Chains, Transfers
<1>4. Ahead(0, 0) = 0 /\ 0 \in 0..Wrap - 1
  BY SizesNat DEF Ahead
<1>5. Queued = {} /\ Used = {}
  BY <1>4 DEF Init, Queued, Used, Unread
<1>6. Rings
  BY <1>1, <1>4, SizesNat DEF Init, Rings, RingOK, AllDifferent, TypeOK
<1>7. Requests
  BY <1>2, <1>5, Zenon DEF Init, Requests
<1>. QED
  BY <1>1, <1>3, <1>6, <1>7, Zenon DEF DiskInv

LEMMA CallStep ==
  ASSUME DiskInv, NEW t \in Threads, Call(t)
  PROVE  DiskInv'
<1>1. TypeOK' /\ NoPanic'
  BY Zenon DEF DiskInv, TypeOK, NoPanic, Call, device, driver
<1>2. Waiting' = Waiting
  BY Zenon DEF DiskInv, TypeOK, Call, Waiting
<1>3. Chains' /\ Counted' /\ Rings' /\ Requests'
  BY <1>2, QuietStep, Zenon DEF DiskInv, Call, device, driver
<1>4. Queued' = Queued /\ inflight' = inflight /\ head' = head
  BY Zenon DEF Call, device, driver, Queued
<1>5. t \notin Waiting
  BY Zenon DEF Call, Waiting
<1>6. Transfers'
  BY <1>2, <1>4, <1>5 DEF DiskInv, TypeOK, Transfers, Call, Waiting
<1>. QED
  BY <1>1, <1>3, <1>6, Zenon DEF DiskInv

\* Steps that only move threads between the places where they sleep and check.
LEMMA PlaceStep ==
  ASSUME DiskInv, NEW t \in Threads,
         NoDescriptors(t) \/ (Finish(t) /\ busy[t]) \/ Kill(t)
  PROVE  DiskInv'
<1>0. UNCHANGED <<device, driver, head, busy, status, moved, panicked>>
  BY Zenon DEF NoDescriptors, Finish, Kill
<1>1. /\ pc' \in [Threads -> {"idle", "start", "nodesc", "wait", "check"}]
      /\ \A u \in Threads : pc[u] \in {"start", "nodesc"} <=> pc'[u] \in {"start", "nodesc"}
      /\ \A u \in Threads : pc[u] \in {"wait", "check"} <=> pc'[u] \in {"wait", "check"}
  <2>0. pc \in [Threads -> {"idle", "start", "nodesc", "wait", "check"}]
    BY Zenon DEF DiskInv, TypeOK
  <2>1. CASE NoDescriptors(t)
    BY <2>0, <2>1, Zenon DEF NoDescriptors, WakeAllocators
  <2>2. CASE Finish(t) /\ busy[t]
    BY <2>0, <2>2, Zenon DEF Finish
  <2>3. CASE Kill(t)
    BY <2>0, <2>3, Zenon DEF Kill
  <2>. QED
    BY <2>1, <2>2, <2>3, Zenon
<1>2. TypeOK' /\ NoPanic'
  BY <1>0, <1>1, Zenon DEF DiskInv, TypeOK, NoPanic, device, driver
<1>3. Waiting' = Waiting
  BY <1>1, Zenon DEF Waiting
<1>4. Chains' /\ Counted' /\ Rings' /\ Requests'
  BY <1>0, <1>3, QuietStep, Zenon DEF DiskInv, device, driver
<1>5. Queued' = Queued
  BY <1>0, Zenon DEF device, Queued
<1>6. Transfers'
  BY <1>0, <1>1, <1>3, <1>5, Zenon DEF DiskInv, Transfers, device
<1>. QED
  BY <1>2, <1>4, <1>6, Zenon DEF DiskInv

LEMMA IntrAckStep ==
  ASSUME DiskInv, IntrAck \/ IntrReturn
  PROVE  DiskInv'
<1>0. UNCHANGED <<ring, availIdx, fetched, usedRing, usedIdx, inflight, free, next, addr, b,
                  seen, callers, status, moved, panicked>>
  BY Zenon DEF IntrAck, IntrReturn, device
<1>1. TypeOK' /\ NoPanic'
  BY <1>0, Zenon DEF DiskInv, TypeOK, NoPanic, IntrAck, IntrReturn, device, callers
<1>2. Waiting' = Waiting
  BY <1>0, Zenon DEF Waiting, callers
<1>3. Chains' /\ Counted' /\ Rings' /\ Requests'
  BY <1>0, <1>2, QuietStep, Zenon DEF DiskInv, callers
<1>4. Queued' = Queued
  BY <1>0, Zenon DEF Queued
<1>5. Transfers'
  BY <1>0, <1>2, <1>4, Zenon DEF DiskInv, Transfers, callers
<1>. QED
  BY <1>1, <1>3, <1>5, Zenon DEF DiskInv
LEMMA SubmitStep ==
  ASSUME DiskInv, NEW t \in Threads, Submit(t)
  PROVE  DiskInv'
<1>0. TypeOK /\ NoPanic /\ Chains /\ Counted /\ Rings /\ Requests /\ Transfers
  BY Zenon DEF DiskInv
<1>1. PICK d0, d1, d2 : /\ d0 = Lowest(free) /\ d1 = Lowest(free \ {d0})
                        /\ d2 = Lowest(free \ {d0, d1})
  BY Zenon
<1>2. pc[t] = "start" /\ Cardinality(free) >= 3
  BY Zenon DEF Submit
<1>3. /\ d0 \in free /\ d1 \in free /\ d2 \in free /\ d0 # d1 /\ d0 # d2 /\ d1 # d2
      /\ Cardinality(free \ {d0, d1, d2}) = Cardinality(free) - 3
  <2>1. free \in SUBSET Descs
    BY <1>0, Zenon DEF TypeOK
  <2>2. TakesThree(free, d0, d1, d2)
    BY <1>1, <1>2, <2>1, ThreeLowest, Zenon
  <2>. QED
    BY <2>2, Zenon DEF TakesThree
<1>4. /\ free' = free \ {d0, d1, d2}
      /\ next' = [next EXCEPT ![d0] = d1, ![d1] = d2, ![d2] = None]
      /\ addr' = [addr EXCEPT ![d1] = t] /\ status' = [status EXCEPT ![d0] = 255]
      /\ b' = [b EXCEPT ![d0] = t] /\ ring' = [ring EXCEPT ![availIdx % NUM] = d0]
      /\ head' = [head EXCEPT ![t] = d0] /\ availIdx' = Inc(availIdx)
      /\ busy' = [busy EXCEPT ![t] = TRUE] /\ pc' = [pc EXCEPT ![t] = "wait"]
  BY <1>1, Zenon DEF Submit
<1>5. UNCHANGED <<fetched, usedRing, usedIdx, inflight, irq, seen, intr, moved, panicked>>
  BY Zenon DEF Submit
<1>6. free \subseteq Descs /\ d0 \in Descs /\ d1 \in Descs /\ d2 \in Descs
  BY <1>0, <1>3, Zenon DEF TypeOK
<1>7. /\ next'[d0] = d1 /\ next'[d1] = d2 /\ next'[d2] = None
      /\ \A d \in Descs \ {d0, d1, d2} : next'[d] = next[d]
      /\ next' \in [Descs -> Descs \cup {None}]
  <2>1. next \in [Descs -> Descs \cup {None}]
    BY <1>0, Zenon DEF TypeOK
  <2>2. next' = [next EXCEPT ![d0] = d1, ![d1] = d2, ![d2] = None]
    BY <1>4, Zenon
  <2>. QED
    BY <1>3, <1>6, <2>1, <2>2
<1>8. /\ addr'[d1] = t /\ \A d \in Descs \ {d1} : addr'[d] = addr[d]
      /\ b'[d0] = t /\ \A d \in Descs \ {d0} : b'[d] = b[d] /\ status'[d] = status[d]
      /\ addr' \in [Descs -> Threads \cup {None}] /\ b' \in [Descs -> Threads \cup {None}]
      /\ status' \in [Descs -> {0, 255}]
  <2>1. /\ addr \in [Descs -> Threads \cup {None}] /\ b \in [Descs -> Threads \cup {None}]
        /\ status \in [Descs -> {0, 255}]
    BY <1>0, Zenon DEF TypeOK
  <2>2. addr'[d1] = t /\ \A d \in Descs \ {d1} : addr'[d] = addr[d]
    BY <1>4, <1>6, <2>1, SMT, SMTT(30)
  <2>3. b'[d0] = t /\ \A d \in Descs \ {d0} : b'[d] = b[d] /\ status'[d] = status[d]
    BY <1>4, <1>6, <2>1, SMT, SMTT(30)
  <2>4. addr' \in [Descs -> Threads \cup {None}] /\ b' \in [Descs -> Threads \cup {None}]
    BY <1>4, <1>6, <2>1, SMT, SMTT(30)
  <2>5. status' \in [Descs -> {0, 255}]
    BY <1>4, <1>6, <2>1, SMT, SMTT(30)
  <2>. QED
    BY <2>2, <2>3, <2>4, <2>5, Zenon
<1>9. /\ head'[t] = d0 /\ busy'[t] = TRUE
      /\ \A u \in Threads \ {t} : head'[u] = head[u] /\ busy'[u] = busy[u] /\ pc'[u] = pc[u]
      /\ head' \in [Threads -> Descs] /\ busy' \in [Threads -> BOOLEAN]
      /\ pc' \in [Threads -> {"idle", "start", "nodesc", "wait", "check"}]
  <2>1. /\ head \in [Threads -> Descs] /\ busy \in [Threads -> BOOLEAN]
        /\ pc \in [Threads -> {"idle", "start", "nodesc", "wait", "check"}]
    BY <1>0, Zenon DEF TypeOK
  <2>. QED
    BY <1>4, <1>6, <2>1
<1>10. Waiting' = Waiting \cup {t} /\ t \notin Waiting
  BY <1>0, <1>2, <1>4 DEF Waiting, TypeOK
<1>11. ASSUME NEW u \in Waiting
       PROVE  /\ head'[u] = head[u] /\ D1(u)' = D1(u) /\ D2(u)' = D2(u) /\ Three(u)' = Three(u)
              /\ d0 \notin Three(u) /\ d1 \notin Three(u) /\ d2 \notin Three(u)
              /\ next'[D2(u)] = next[D2(u)] /\ b'[head[u]] = b[head[u]]
              /\ addr'[D1(u)] = addr[D1(u)]
  <2>1. u \in Threads /\ u # t /\ head[u] \in Descs /\ D1(u) \in Descs /\ D2(u) \in Descs
    BY <1>0, <1>10, Zenon DEF TypeOK, Chains, Waiting
  <2>2. d0 \notin Three(u) /\ d1 \notin Three(u) /\ d2 \notin Three(u)
    BY <1>0, <1>3, Zenon DEF Chains
  <2>3. head'[u] = head[u]
    BY <1>9, <2>1, Zenon
  <2>4. D1(u)' = D1(u)
    BY <1>7, <2>1, <2>2, <2>3, Zenon DEF D1, Three
  <2>5. D2(u)' = D2(u)
    BY <1>7, <2>1, <2>2, <2>4, Zenon DEF D2, Three
  <2>6. next'[D2(u)] = next[D2(u)] /\ b'[head[u]] = b[head[u]] /\ addr'[D1(u)] = addr[D1(u)]
    BY <1>7, <1>8, <2>1, <2>2 DEF Three
  <2>. QED
    BY <2>2, <2>3, <2>4, <2>5, <2>6, Zenon DEF Three
<1>12. D1(t)' = d1 /\ D2(t)' = d2 /\ Three(t)' = {d0, d1, d2}
  BY <1>7, <1>9, Zenon DEF D1, D2, Three
<1>13. Chains'
  <2>1. ASSUME NEW u \in Waiting'
        PROVE  /\ D1(u)' \in Descs /\ D2(u)' \in Descs /\ next'[D2(u)'] = None
               /\ head'[u] # D1(u)' /\ head'[u] # D2(u)' /\ D1(u)' # D2(u)'
               /\ Three(u)' \cap free' = {}
               /\ b'[head'[u]] = u /\ addr'[D1(u)'] = u
    <3>1. CASE u = t
      BY <1>3, <1>4, <1>6, <1>7, <1>8, <1>9, <1>12, <3>1, SMTT(30)
    <3>2. CASE u # t
      <4>1. u \in Waiting
        BY <1>10, <3>2, Zenon
      <4>2. /\ D1(u) \in Descs /\ D2(u) \in Descs /\ next[D2(u)] = None
            /\ head[u] # D1(u) /\ head[u] # D2(u) /\ D1(u) # D2(u)
            /\ Three(u) \cap free = {} /\ b[head[u]] = u /\ addr[D1(u)] = u
        BY <1>0, <4>1, Zenon DEF Chains
      <4>3. Three(u) \cap free' = {}
        BY <1>4, <4>2, Zenon
      <4>. QED
        BY <1>11, <4>1, <4>2, <4>3, ZenonT(30)
    <3>. QED
      BY <3>1, <3>2, Zenon
  <2>2. ASSUME NEW u \in Waiting', NEW v \in Waiting', u # v
        PROVE  Three(u)' \cap Three(v)' = {}
    <3>1. \A w \in Waiting : Three(w)' = Three(w) /\ Three(w) \cap {d0, d1, d2} = {}
      BY <1>11, Zenon
    <3>2. CASE u = t
      BY <1>10, <1>12, <2>2, <3>1, <3>2, Zenon
    <3>3. CASE v = t
      BY <1>10, <1>12, <2>2, <3>1, <3>3, Zenon
    <3>4. CASE u # t /\ v # t
      <4>1. u \in Waiting /\ v \in Waiting
        BY <1>10, <2>2, <3>4, Zenon
      <4>2. Three(u) \cap Three(v) = {}
        BY <1>0, <2>2, <4>1, Zenon DEF Chains
      <4>. QED
        BY <3>1, <4>1, <4>2, Zenon
    <3>. QED
      BY <3>2, <3>3, <3>4, Zenon
  <2>3. ASSUME NEW d \in Descs \ free'
        PROVE  \E u \in Waiting' : d \in Three(u)'
    <3>1. CASE d \in {d0, d1, d2}
      BY <1>10, <1>12, <3>1, Zenon
    <3>2. CASE d \notin {d0, d1, d2}
      <4>1. PICK u \in Waiting : d \in Three(u)
        BY <1>0, <1>4, <3>2, Zenon DEF Chains
      <4>. QED
        BY <1>10, <1>11, <4>1, Zenon
    <3>. QED
      BY <3>1, <3>2, Zenon
  <2>. QED
    BY <2>1, <2>2, <2>3, Zenon DEF Chains
<1>14. Counted'
  <2>1. IsFiniteSet(Waiting') /\ Cardinality(Waiting') = Cardinality(Waiting) + 1
    BY <1>0, <1>10, FS_AddElement, Zenon DEF Counted
  <2>2. Cardinality(Waiting) \in Nat
    BY <1>0, FS_CardinalityType, Zenon DEF Counted
  <2>3. Cardinality(free') = Cardinality(free) - 3
    BY <1>3, <1>4, Zenon
  <2>4. Cardinality(free) = NUM - 3 * Cardinality(Waiting)
    BY <1>0, Zenon DEF Counted
  <2>. QED
    BY <2>1, <2>2, <2>3, <2>4, SizesNat DEF Counted
<1>15. Queued \cup inflight \cup Used \subseteq Descs \ free
  BY <1>0, RequestsInUse, Zenon
<1>16. Ahead(fetched, availIdx) + 1 < NUM
  <2>1. /\ IsFiniteSet(free) /\ Cardinality(free) \in Nat
        /\ Cardinality(Descs \ free) = NUM - Cardinality(free)
    BY <1>6, FiniteDescs, Zenon
  <2>2. Descs \ free \in SUBSET Descs
    BY Zenon
  <2>3. IsFiniteSet(Descs \ free)
    BY <2>2, FiniteDescs, Zenon
  <2>4. Ahead(fetched, availIdx) <= Cardinality(Descs \ free)
    BY <1>0, <1>15, <2>3, RingBound, Zenon DEF Rings, Queued
  <2>5. Ahead(fetched, availIdx) \in 0..NUM - 1
    BY <1>0, RingTypes, Zenon DEF Rings
  <2>. QED
    BY <1>2, <2>1, <2>4, <2>5, SizesNat
<1>17. RingOK(ring', fetched', availIdx') /\ Queued' = Queued \cup {d0}
  <2>1. d0 \notin Unread(ring, fetched, availIdx)
    BY <1>3, <1>15, Zenon DEF Queued
  <2>2. RingOK(ring, fetched, availIdx) /\ Writes(ring', ring, availIdx, d0)
    BY <1>0, <1>4, Zenon DEF Rings, Writes
  <2>3. /\ RingOK(ring', fetched, Inc(availIdx))
        /\ Unread(ring', fetched, Inc(availIdx)) = Unread(ring, fetched, availIdx) \cup {d0}
    <3>1. d0 \in Descs
      BY <1>6, Zenon
    <3>. QED
      BY <1>16, <2>1, <2>2, <3>1, RingWrite
  <2>. QED
    BY <1>4, <1>5, <2>3, Zenon DEF Queued
<1>18. Used' = Used /\ Rings'
  BY <1>0, <1>5, <1>17, Zenon DEF Used, Rings
<1>19. TypeOK' /\ NoPanic'
  <2>1. /\ free' \in SUBSET Descs /\ ring' \in [Descs -> Descs]
        /\ availIdx' \in 0..Wrap - 1
    BY <1>4, <1>6, <1>17, Zenon DEF RingOK
  <2>2. \A x \in {availIdx', fetched', usedIdx', seen'} : x \in 0..Wrap - 1
    BY <1>0, <1>5, <2>1, ZenonT(30) DEF TypeOK
  <2>. QED
    BY <1>0, <1>5, <1>7, <1>8, <1>9, <2>1, <2>2, Zenon DEF TypeOK, NoPanic
<1>20. Requests'
  <2>1. \A u \in Threads : busy'[u] => u \in Waiting'
    BY <1>0, <1>9, <1>10, Zenon DEF Requests
  <2>2. \A u \in Waiting' : busy'[u] <=> head'[u] \in Queued' \cup inflight' \cup Used'
    <3>1. ASSUME NEW u \in Waiting
          PROVE  busy'[u] <=> head'[u] \in Queued' \cup inflight' \cup Used'
      <4>1. u \in Threads \ {t} /\ head'[u] = head[u] /\ head[u] # d0
        BY <1>10, <1>11, Zenon DEF Three, Waiting
      <4>. QED
        BY <1>0, <1>5, <1>9, <1>17, <1>18, <4>1, Zenon DEF Requests
    <3>. QED
      BY <1>9, <1>10, <1>17, <3>1, Zenon
  <2>3. \A d \in Queued' \cup inflight' \cup Used' : \E u \in Waiting' : head'[u] = d
    BY <1>0, <1>5, <1>9, <1>10, <1>11, <1>17, <1>18 DEF Requests
  <2>4. d0 \notin Queued \cup inflight \cup Used
    BY <1>3, <1>15, Zenon
  <2>5. /\ Queued' \cap inflight' = {} /\ Queued' \cap Used' = {} /\ inflight' \cap Used' = {}
        /\ \A d \in Used' : status'[d] = 0
    BY <1>0, <1>5, <1>8, <1>15, <1>17, <1>18, <2>4 DEF Requests
  <2>. QED
    BY <2>1, <2>2, <2>3, <2>5, Zenon DEF Requests
<1>21. Transfers'
  <2>1. \A u \in Threads : pc'[u] \in {"start", "nodesc"} => moved'[u] = 0
    BY <1>0, <1>4, <1>5, <1>9, SMTT(30) DEF Transfers, TypeOK
  <2>2. moved'[t] = 0 /\ head'[t] \in Queued'
    BY <1>0, <1>2, <1>5, <1>9, <1>17, Zenon DEF Transfers
  <2>3. ASSUME NEW u \in Waiting
        PROVE  moved'[u] = IF head'[u] \in Queued' \cup inflight' THEN 0 ELSE 1
    <3>1. head'[u] = head[u] /\ head[u] # d0
      BY <1>11, Zenon DEF Three
    <3>. QED
      BY <1>0, <1>5, <1>17, <3>1, Zenon DEF Transfers
  <2>. QED
    BY <1>10, <2>1, <2>2, <2>3, Zenon DEF Transfers
<1>. QED
  BY <1>13, <1>14, <1>18, <1>19, <1>20, <1>21, Zenon DEF DiskInv

LEMMA FinishStep ==
  ASSUME DiskInv, NEW t \in Threads, pc[t] = "check", ~busy[t], FreeChain(t)
  PROVE  DiskInv'
<1>0. TypeOK /\ NoPanic /\ Chains /\ Counted /\ Rings /\ Requests /\ Transfers
  BY Zenon DEF DiskInv
<1>1. t \in Waiting
  BY Zenon DEF Waiting
<1>2. PICK C : C = Three(t) /\ C = Chain(head[t])
  BY <1>0, <1>1, ChainIsThree, Zenon
<1>3. head[t] \in Descs /\ C \subseteq Descs /\ C \cap free = {} /\ free \subseteq Descs
  BY <1>0, <1>1, <1>2, SMTT(30) DEF TypeOK, Chains, Three
<1>4. /\ b' = [b EXCEPT ![head[t]] = None] /\ panicked' = (C \cap free # {})
      /\ free' = free \cup C
      /\ next' = [d \in Descs |-> IF d \in C THEN None ELSE next[d]]
      /\ addr' = [d \in Descs |-> IF d \in C THEN None ELSE addr[d]]
      /\ head' = [head EXCEPT ![t] = 0]
      /\ pc' = [WakeAllocators(pc) EXCEPT ![t] = "idle"]
  BY <1>2, Zenon DEF FreeChain
<1>5. UNCHANGED <<ring, availIdx, fetched, usedRing, usedIdx, inflight, irq, seen, intr, busy,
                  status, moved>>
  BY Zenon DEF FreeChain, device
<1>6. /\ \A d \in Descs \ C : next'[d] = next[d] /\ addr'[d] = addr[d]
      /\ \A d \in Descs \ {head[t]} : b'[d] = b[d]
      /\ next' \in [Descs -> Descs \cup {None}] /\ addr' \in [Descs -> Threads \cup {None}]
      /\ b' \in [Descs -> Threads \cup {None}]
  BY <1>0, <1>3, <1>4, SMTT(30) DEF TypeOK
<1>7. /\ head' \in [Threads -> Descs] /\ \A u \in Threads \ {t} : head'[u] = head[u]
      /\ pc' \in [Threads -> {"idle", "start", "nodesc", "wait", "check"}] /\ pc'[t] = "idle"
      /\ \A u \in Threads \ {t} : pc[u] \in {"start", "nodesc"} <=> pc'[u] \in {"start", "nodesc"}
      /\ \A u \in Threads \ {t} : pc[u] \in {"wait", "check"} <=> pc'[u] \in {"wait", "check"}
  <2>1. 0 \in Descs
    BY SizesNat DEF Descs
  <2>2. /\ pc \in [Threads -> {"idle", "start", "nodesc", "wait", "check"}]
        /\ head \in [Threads -> Descs]
    BY <1>0, Zenon DEF TypeOK
  <2>3. head' \in [Threads -> Descs] /\ \A u \in Threads \ {t} : head'[u] = head[u]
    BY <1>4, <2>1, <2>2, Zenon
  <2>. QED
    BY <1>4, <2>2, <2>3, Zenon DEF WakeAllocators
<1>8. Waiting' = Waiting \ {t}
  BY <1>7, Zenon DEF Waiting
<1>9. TypeOK' /\ NoPanic'
  <2>1. panicked' = FALSE /\ free' \subseteq Descs
    BY <1>3, <1>4, Zenon
  <2>. QED
    BY <1>0, <1>5, <1>6, <1>7, <2>1, Zenon DEF TypeOK, NoPanic
<1>10. ASSUME NEW u \in Waiting'
       PROVE  /\ u \in Waiting /\ u \in Threads /\ u # t /\ head[u] # head[t]
              /\ head'[u] = head[u] /\ D1(u)' = D1(u) /\ D2(u)' = D2(u) /\ Three(u)' = Three(u)
              /\ Three(u) \cap C = {}
              /\ next'[D2(u)] = next[D2(u)] /\ b'[head[u]] = b[head[u]]
              /\ addr'[D1(u)] = addr[D1(u)]
  <2>1. u \in Waiting /\ u \in Threads /\ u # t
    BY <1>8, Zenon DEF Waiting
  <2>2. head[u] \in Descs /\ D1(u) \in Descs /\ D2(u) \in Descs
    BY <1>0, <2>1, Zenon DEF TypeOK, Chains
  <2>3. Three(u) \cap C = {} /\ head[u] # head[t]
    BY <1>0, <1>1, <1>2, <2>1, ZenonT(30) DEF Chains, Three
  <2>4. head[u] \notin C /\ D1(u) \notin C /\ D2(u) \notin C
    BY <2>3, Zenon DEF Three
  <2>5. head'[u] = head[u]
    BY <1>7, <2>1, Zenon
  <2>6. D1(u)' = D1(u)
    BY <1>6, <2>2, <2>4, <2>5 DEF D1
  <2>7. D2(u)' = D2(u)
    BY <1>6, <2>2, <2>4, <2>6, Zenon DEF D2
  <2>8. next'[D2(u)] = next[D2(u)] /\ b'[head[u]] = b[head[u]] /\ addr'[D1(u)] = addr[D1(u)]
    BY <1>6, <2>2, <2>3, <2>4, Zenon
  <2>. QED
    BY <2>1, <2>3, <2>5, <2>6, <2>7, <2>8, Zenon DEF Three
<1>11. Chains'
  <2>1. ASSUME NEW u \in Waiting'
        PROVE  /\ D1(u)' \in Descs /\ D2(u)' \in Descs /\ next'[D2(u)'] = None
               /\ head'[u] # D1(u)' /\ head'[u] # D2(u)' /\ D1(u)' # D2(u)'
               /\ Three(u)' \cap free' = {}
               /\ b'[head'[u]] = u /\ addr'[D1(u)'] = u
    <3>1. /\ D1(u) \in Descs /\ D2(u) \in Descs /\ next[D2(u)] = None
          /\ head[u] # D1(u) /\ head[u] # D2(u) /\ D1(u) # D2(u)
          /\ Three(u) \cap free = {} /\ b[head[u]] = u /\ addr[D1(u)] = u
      BY <1>0, <1>10, Zenon DEF Chains
    <3>2. Three(u) \cap free' = {}
      BY <1>4, <1>10, <3>1, Zenon
    <3>3. /\ head'[u] = head[u] /\ D1(u)' = D1(u) /\ D2(u)' = D2(u) /\ Three(u)' = Three(u)
          /\ next'[D2(u)] = next[D2(u)] /\ b'[head[u]] = b[head[u]]
          /\ addr'[D1(u)] = addr[D1(u)]
      BY <1>10, Zenon
    <3>. QED
      BY <3>1, <3>2, <3>3, Zenon
  <2>2. ASSUME NEW u \in Waiting', NEW v \in Waiting', u # v
        PROVE  Three(u)' \cap Three(v)' = {}
    <3>1. u \in Waiting /\ v \in Waiting /\ Three(u)' = Three(u) /\ Three(v)' = Three(v)
      BY <1>10, Zenon
    <3>. QED
      BY <1>0, <2>2, <3>1, Zenon DEF Chains
  <2>3. ASSUME NEW d \in Descs \ free'
        PROVE  \E u \in Waiting' : d \in Three(u)'
    <3>1. PICK u \in Waiting : d \in Three(u)
      BY <1>0, <1>4, Zenon DEF Chains
    <3>2. u \in Waiting'
      BY <1>2, <1>4, <1>8, <3>1, Zenon
    <3>3. Three(u)' = Three(u)
      BY <1>10, <3>2, Zenon
    <3>. QED
      BY <3>1, <3>2, <3>3, Zenon
  <2>. QED
    BY <2>1, <2>2, <2>3, Zenon DEF Chains
<1>12. Counted'
  <2>1. IsFiniteSet(Waiting') /\ Cardinality(Waiting') = Cardinality(Waiting) - 1
    BY <1>0, <1>1, <1>8, FS_RemoveElement, Zenon DEF Counted
  <2>2. Cardinality(Waiting) \in Nat /\ Cardinality(free) = NUM - 3 * Cardinality(Waiting)
    BY <1>0, FS_CardinalityType, Zenon DEF Counted
  <2>3. PICK x, y, z : C = {x, y, z} /\ x # y /\ x # z /\ y # z
    <3>1. /\ C = {head[t], D1(t), D2(t)}
          /\ head[t] # D1(t) /\ head[t] # D2(t) /\ D1(t) # D2(t)
      BY <1>0, <1>1, <1>2, Zenon DEF Chains, Three
    <3>. QED
      BY <3>1, Zenon
  <2>4. free' = ((free \cup {x}) \cup {y}) \cup {z} /\ x \notin free
        /\ y \notin free \cup {x} /\ z \notin (free \cup {x}) \cup {y}
    BY <1>3, <1>4, <2>3, Zenon
  <2>5. IsFiniteSet(free) /\ Cardinality(free) \in Nat
    BY <1>3, FiniteDescs, Zenon
  <2>6. IsFiniteSet(free \cup {x}) /\ Cardinality(free \cup {x}) = Cardinality(free) + 1
    BY <2>4, <2>5, FS_AddElement, Zenon
  <2>7. /\ IsFiniteSet((free \cup {x}) \cup {y})
        /\ Cardinality((free \cup {x}) \cup {y}) = Cardinality(free) + 2
    <3>1. PICK T : T = free \cup {x}
      BY Zenon
    <3>2. IsFiniteSet(T \cup {y}) /\ Cardinality(T \cup {y}) = Cardinality(T) + 1
      BY <2>4, <2>6, <3>1, FS_AddElement, Zenon
    <3>. QED
      BY <2>5, <2>6, <3>1, <3>2
  <2>8. Cardinality(free') = Cardinality(free) + 3
    <3>1. PICK T : T = (free \cup {x}) \cup {y}
      BY Zenon
    <3>2. Cardinality(T \cup {z}) = Cardinality(T) + 1
      BY <2>4, <2>7, <3>1, FS_AddElement, Zenon
    <3>. QED
      BY <2>4, <2>5, <2>7, <3>1, <3>2
  <2>. QED
    BY <2>1, <2>2, <2>8, SizesNat DEF Counted
<1>13. Queued' = Queued /\ Used' = Used /\ inflight' = inflight /\ Rings'
  BY <1>0, <1>5, Zenon DEF Queued, Used, Rings
<1>14. head[t] \notin Queued \cup inflight \cup Used
  BY <1>0, <1>1, Zenon DEF Requests
<1>15. Requests'
  <2>1. \A u \in Threads : busy'[u] => u \in Waiting'
    BY <1>0, <1>5, <1>8, Zenon DEF Requests
  <2>2. \A u \in Waiting' : busy'[u] <=> head'[u] \in Queued' \cup inflight' \cup Used'
    BY <1>0, <1>5, <1>10, <1>13, Zenon DEF Requests
  <2>3. ASSUME NEW d \in Queued \cup inflight \cup Used
        PROVE  \E u \in Waiting' : head'[u] = d
    <3>1. PICK u \in Waiting : head[u] = d
      BY <1>0, Zenon DEF Requests
    <3>2. u \in Waiting'
      BY <1>8, <1>14, <3>1, Zenon
    <3>. QED
      BY <1>10, <3>1, <3>2, Zenon
  <2>4. /\ Queued \cap inflight = {} /\ Queued \cap Used = {} /\ inflight \cap Used = {}
        /\ \A d \in Used : status'[d] = 0
    BY <1>0, <1>5, Zenon DEF Requests
  <2>. QED
    BY <1>13, <2>1, <2>2, <2>3, <2>4, Zenon DEF Requests
<1>16. Transfers'
  <2>1. \A u \in Threads : pc'[u] \in {"start", "nodesc"} => moved'[u] = 0
    BY <1>0, <1>5, <1>7, Zenon DEF Transfers
  <2>2. \A u \in Waiting' : moved'[u] = IF head'[u] \in Queued' \cup inflight' THEN 0 ELSE 1
    BY <1>0, <1>5, <1>10, <1>13, Zenon DEF Transfers
  <2>. QED
    BY <2>1, <2>2, Zenon DEF Transfers
<1>. QED
  BY <1>9, <1>11, <1>12, <1>13, <1>15, <1>16, Zenon DEF DiskInv

LEMMA FetchStep ==
  ASSUME DiskInv, Fetch
  PROVE  DiskInv'
<1>0. TypeOK /\ NoPanic /\ Chains /\ Counted /\ Rings /\ Requests /\ Transfers
  BY Zenon DEF DiskInv
<1>1. PICK d : d = ring[fetched % NUM]
  BY Zenon
<1>2. /\ fetched # availIdx /\ inflight' = inflight \cup {d} /\ fetched' = Inc(fetched)
      /\ Writes(ring', ring, fetched, 0)
  BY <1>1, Zenon DEF Fetch, Writes
<1>3. UNCHANGED <<availIdx, usedRing, usedIdx, irq, free, next, addr, b, seen, intr, pc, head,
                  busy, status, moved, panicked>>
  BY Zenon DEF Fetch, driver, callers
<1>4. /\ RingOK(ring', Inc(fetched), availIdx) /\ d \in Unread(ring, fetched, availIdx)
      /\ Unread(ring', Inc(fetched), availIdx) = Unread(ring, fetched, availIdx) \ {d}
  <2>1. RingOK(ring, fetched, availIdx)
    BY <1>0, Zenon DEF Rings
  <2>. QED
    BY <1>1, <1>2, <2>1, RingRead, Zenon
<1>5. d \in Queued /\ Queued' = Queued \ {d} /\ Used' = Used /\ Waiting' = Waiting
  BY <1>2, <1>3, <1>4, Zenon DEF Queued, Used, Waiting
<1>6. Rings'
  BY <1>0, <1>2, <1>3, <1>4, Zenon DEF Rings
<1>7. d \in Descs
  BY <1>0, <1>5, RequestsInUse, Zenon
<1>8. TypeOK' /\ NoPanic'
  <2>0. inflight \subseteq Descs
    BY <1>0, Zenon DEF TypeOK
  <2>1. /\ ring' \in [Descs -> Descs] /\ fetched' \in 0..Wrap - 1
        /\ inflight' \in SUBSET Descs
    BY <1>2, <1>4, <1>7, <2>0, Zenon DEF RingOK
  <2>2. \A x \in {availIdx', fetched', usedIdx', seen'} : x \in 0..Wrap - 1
    BY <1>0, <1>3, <2>1, ZenonT(30) DEF TypeOK
  <2>. QED
    BY <1>0, <1>3, <2>1, <2>2, Zenon DEF TypeOK, NoPanic
<1>9. Chains' /\ Counted'
  BY <1>0, <1>3, <1>5, ChainsKept, Zenon
<1>10. Queued' \cup inflight' = Queued \cup inflight
  BY <1>2, <1>5, Zenon
<1>11. Requests'
  <2>1. /\ Queued' \cap inflight' = {} /\ Queued' \cap Used' = {} /\ inflight' \cap Used' = {}
        /\ \A e \in Used' : status'[e] = 0
    BY <1>0, <1>2, <1>3, <1>5, ZenonT(30) DEF Requests
  <2>. QED
    BY <1>0, <1>3, <1>5, <1>10, <2>1, Zenon DEF Requests
<1>12. Transfers'
  BY <1>0, <1>3, <1>5, <1>10, Zenon DEF Transfers
<1>. QED
  BY <1>6, <1>8, <1>9, <1>11, <1>12, Zenon DEF DiskInv

LEMMA CompleteStep ==
  ASSUME DiskInv, NEW d \in Descs, Complete(d)
  PROVE  DiskInv'
<1>0. TypeOK /\ NoPanic /\ Chains /\ Counted /\ Rings /\ Requests /\ Transfers
  BY Zenon DEF DiskInv
<1>1. d \in inflight /\ d \notin Queued /\ d \notin Used
  BY <1>0, Zenon DEF Complete, Requests
<1>2. PICK t \in Waiting : head[t] = d
  BY <1>0, <1>1, Zenon DEF Requests
<1>3. next[d] = D1(t) /\ D1(t) \in Descs /\ D1(t) # d /\ D1(t) # None /\ addr[D1(t)] = t
  BY <1>0, <1>2, Sizes, SMTT(30) DEF Chains, D1
<1>4. /\ moved' = [u \in Threads |-> IF u = t THEN moved[u] + 1 ELSE moved[u]]
      /\ status' = [status EXCEPT ![d] = 0] /\ Writes(usedRing', usedRing, usedIdx, d)
      /\ usedIdx' = Inc(usedIdx) /\ inflight' = inflight \ {d} /\ irq' = TRUE
  BY <1>3, Zenon DEF Complete, Writes
<1>5. UNCHANGED <<ring, availIdx, fetched, free, next, addr, b, seen, intr, pc, head, busy,
                  panicked>>
  BY Zenon DEF Complete, driver, callers
<1>6. Ahead(seen, usedIdx) + 1 < NUM
  <2>1. PICK S : S = {d, D1(t)}
    BY Zenon
  <2>2. Cardinality(S) = 2 /\ S \in SUBSET Descs
    <3>1. IsFiniteSet({d}) /\ Cardinality({d}) = 1 /\ S = {d} \cup {D1(t)} /\ D1(t) \notin {d}
      BY <1>3, <2>1, FS_Singleton, Zenon
    <3>2. Cardinality(S) = Cardinality({d}) + 1
      BY <3>1, FS_AddElement, Zenon
    <3>. QED
      BY <1>3, <2>1, <3>1, <3>2
  <2>3. IsFiniteSet(Descs \ S) /\ Cardinality(Descs \ S) = NUM - 2
    <3>1. Descs \ S \in SUBSET Descs
      BY Zenon
    <3>. QED
      BY <2>2, <3>1, FiniteDescs, Zenon
  <2>4. ASSUME NEW e \in Used PROVE e \in Descs \ S
    <3>1. e \in Descs /\ e # d
      BY <1>0, <1>1, RequestsInUse, Zenon
    <3>2. PICK u \in Waiting : head[u] = e
      BY <1>0, Zenon DEF Requests
    <3>3. e # D1(t)
      BY <1>2, <1>0, <3>1, <3>2, HeadsDiffer, Zenon
    <3>. QED
      BY <2>1, <3>1, <3>3, Zenon
  <2>5. Ahead(seen, usedIdx) <= Cardinality(Descs \ S)
    <3>1. RingOK(usedRing, seen, usedIdx) /\ Unread(usedRing, seen, usedIdx) \subseteq Descs \ S
      BY <1>0, <2>4, Zenon DEF Rings, Used
    <3>. QED
      BY <2>3, <3>1, RingBound, Zenon
  <2>6. Ahead(seen, usedIdx) \in 0..NUM - 1
    BY <1>0, RingTypes, Zenon DEF Rings
  <2>. QED
    BY <2>3, <2>5, <2>6, SizesNat
<1>7. /\ RingOK(usedRing', seen, Inc(usedIdx))
      /\ Unread(usedRing', seen, Inc(usedIdx)) = Unread(usedRing, seen, usedIdx) \cup {d}
  <2>1. RingOK(usedRing, seen, usedIdx) /\ d \notin Unread(usedRing, seen, usedIdx)
    BY <1>0, <1>1, Zenon DEF Rings, Used
  <2>2. Writes(usedRing', usedRing, usedIdx, d)
    BY <1>4, Zenon
  <2>. QED
    BY <1>6, <2>1, <2>2, RingWrite
<1>8. Used' = Used \cup {d} /\ Queued' = Queued /\ Waiting' = Waiting
  BY <1>4, <1>5, <1>7, Zenon DEF Queued, Used, Waiting
<1>9. Rings'
  BY <1>0, <1>4, <1>5, <1>7, Zenon DEF Rings
<1>10. TypeOK' /\ NoPanic'
  <2>1. moved' \in [Threads -> Nat] /\ status' \in [Descs -> {0, 255}] /\ inflight' \subseteq Descs
    BY <1>0, <1>4 DEF TypeOK
  <2>2. usedRing' \in [Descs -> Descs] /\ usedIdx' \in 0..Wrap - 1 /\ irq' \in BOOLEAN
    BY <1>4, <1>7, Zenon DEF RingOK
  <2>3. \A x \in {availIdx', fetched', usedIdx', seen'} : x \in 0..Wrap - 1
    BY <1>0, <1>5, <2>2, ZenonT(30) DEF TypeOK
  <2>. QED
    BY <1>0, <1>5, <2>1, <2>2, <2>3, Zenon DEF TypeOK, NoPanic
<1>11. Chains' /\ Counted'
  BY <1>0, <1>5, <1>8, ChainsKept, Zenon
<1>12. Queued' \cup inflight' \cup Used' = Queued \cup inflight \cup Used
  BY <1>1, <1>4, <1>8, Zenon
<1>13. Requests'
  <2>1. Queued' \cap inflight' = {} /\ Queued' \cap Used' = {} /\ inflight' \cap Used' = {}
    BY <1>0, <1>1, <1>4, <1>8, ZenonT(30) DEF Requests
  <2>2. \A e \in Used' : status'[e] = 0
    <3>1. Used \subseteq Descs /\ status \in [Descs -> {0, 255}] /\ \A e \in Used : status[e] = 0
      BY <1>0, RequestsInUse, Zenon DEF TypeOK, Requests
    <3>. QED
      BY <1>4, <1>8, <3>1
  <2>3. \A u \in Waiting' : busy'[u] <=> head'[u] \in Queued' \cup inflight' \cup Used'
    BY <1>0, <1>5, <1>8, <1>12, Zenon DEF Requests
  <2>4. /\ \A u \in Threads : busy'[u] => u \in Waiting'
        /\ \A e \in Queued' \cup inflight' \cup Used' : \E u \in Waiting' : head'[u] = e
    BY <1>0, <1>5, <1>8, <1>12, Zenon DEF Requests
  <2>. QED
    BY <2>1, <2>2, <2>3, <2>4, Zenon DEF Requests
<1>14. Transfers'
  <2>0. t \in Threads /\ pc[t] \notin {"start", "nodesc"}
    BY <1>2, Zenon DEF Waiting
  <2>1. \A u \in Threads : pc'[u] \in {"start", "nodesc"} => moved'[u] = 0
    BY <1>0, <1>4, <1>5, <2>0, Zenon DEF Transfers
  <2>2. ASSUME NEW u \in Waiting
        PROVE  moved'[u] = IF head'[u] \in Queued' \cup inflight' THEN 0 ELSE 1
    <3>0. u \in Threads /\ moved[u] = IF head[u] \in Queued \cup inflight THEN 0 ELSE 1
      BY <1>0, Zenon DEF Transfers, Waiting
    <3>1. CASE u = t
      <4>1. head[u] = d /\ head'[u] = d /\ d \in inflight /\ d \notin Queued' \cup inflight'
        BY <1>1, <1>2, <1>4, <1>5, <1>8, <3>1, Zenon
      <4>2. moved[u] = 0 /\ moved'[u] = moved[u] + 1
        BY <1>4, <3>0, <3>1, <4>1, Zenon
      <4>. QED
        BY <4>1, <4>2
    <3>2. CASE u # t
      <4>1. head[u] # d
        BY <1>0, <1>2, <3>2, HeadsDiffer, Zenon
      <4>. QED
        BY <1>4, <1>5, <1>8, <3>0, <3>2, <4>1, Zenon
    <3>. QED
      BY <3>1, <3>2, Zenon
  <2>. QED
    BY <1>8, <2>1, <2>2, Zenon DEF Transfers
<1>. QED
  BY <1>9, <1>10, <1>11, <1>13, <1>14, Zenon DEF DiskInv

LEMMA IntrLoopStep ==
  ASSUME DiskInv, IntrLoop
  PROVE  DiskInv'
<1>0. TypeOK /\ NoPanic /\ Chains /\ Counted /\ Rings /\ Requests /\ Transfers
  BY Zenon DEF DiskInv
<1>1. PICK id : id = usedRing[seen % NUM]
  BY Zenon
<1>2. /\ seen # usedIdx /\ seen' = Inc(seen) /\ Writes(usedRing', usedRing, seen, 0)
      /\ panicked' = (status[id] # 0 \/ b[id] = None)
      /\ busy' = [u \in Threads |-> busy[u] /\ u # b[id]]
      /\ pc' = [u \in Threads |-> IF u = b[id] /\ pc[u] = "wait" THEN "check" ELSE pc[u]]
  BY <1>1, Zenon DEF IntrLoop, Writes
<1>3. UNCHANGED <<ring, availIdx, fetched, usedIdx, inflight, irq, free, next, addr, b, intr,
                  head, status, moved>>
  BY Zenon DEF IntrLoop
<1>4. /\ RingOK(usedRing', Inc(seen), usedIdx) /\ id \in Unread(usedRing, seen, usedIdx)
      /\ Unread(usedRing', Inc(seen), usedIdx) = Unread(usedRing, seen, usedIdx) \ {id}
  <2>1. RingOK(usedRing, seen, usedIdx)
    BY <1>0, Zenon DEF Rings
  <2>. QED
    BY <1>1, <1>2, <2>1, RingRead, Zenon
<1>5. id \in Used /\ Used' = Used \ {id} /\ Queued' = Queued /\ Rings'
  BY <1>0, <1>2, <1>3, <1>4, Zenon DEF Queued, Used, Rings
<1>6. PICK t \in Waiting : head[t] = id
  BY <1>0, <1>5, Zenon DEF Requests
<1>7. b[id] = t /\ status[id] = 0 /\ t # None /\ t \in Threads
  BY <1>0, <1>5, <1>6, Sizes, Zenon DEF Chains, Requests, Waiting
<1>8. /\ panicked' = FALSE /\ busy' \in [Threads -> BOOLEAN]
      /\ pc' \in [Threads -> {"idle", "start", "nodesc", "wait", "check"}]
      /\ \A u \in Threads : pc[u] \in {"start", "nodesc"} <=> pc'[u] \in {"start", "nodesc"}
      /\ \A u \in Threads : pc[u] \in {"wait", "check"} <=> pc'[u] \in {"wait", "check"}
  <2>1. pc \in [Threads -> {"idle", "start", "nodesc", "wait", "check"}]
    BY <1>0, Zenon DEF TypeOK
  <2>. QED
    BY <1>2, <1>7, <2>1, Zenon
<1>9. /\ busy'[t] = FALSE /\ \A u \in Threads : u # t => (busy'[u] <=> busy[u])
  BY <1>0, <1>2, <1>7, ZenonT(30) DEF TypeOK
<1>10. Waiting' = Waiting
  BY <1>8, Zenon DEF Waiting
<1>11. TypeOK' /\ NoPanic'
  <2>1. usedRing' \in [Descs -> Descs] /\ seen' \in 0..Wrap - 1
    BY <1>2, <1>4, Zenon DEF RingOK
  <2>2. \A x \in {availIdx', fetched', usedIdx', seen'} : x \in 0..Wrap - 1
    BY <1>0, <1>3, <2>1, ZenonT(30) DEF TypeOK
  <2>. QED
    BY <1>0, <1>3, <1>8, <2>1, <2>2, Zenon DEF TypeOK, NoPanic
<1>12. Chains' /\ Counted'
  BY <1>0, <1>3, <1>10, ChainsKept, Zenon
<1>13. Requests'
  <2>1. \A u \in Threads : busy'[u] => u \in Waiting'
    BY <1>0, <1>9, <1>10, Zenon DEF Requests
  <2>2. ASSUME NEW u \in Waiting
        PROVE  busy'[u] <=> head'[u] \in Queued' \cup inflight' \cup Used'
    <3>0. u \in Threads /\ (busy[u] <=> head[u] \in Queued \cup inflight \cup Used)
      BY <1>0, Zenon DEF Requests, Waiting
    <3>1. CASE u = t
      <4>1. id \notin Queued /\ id \notin inflight /\ id \notin Used'
        BY <1>0, <1>5, Zenon DEF Requests
      <4>. QED
        BY <1>3, <1>5, <1>6, <1>9, <3>1, <4>1, Zenon
    <3>2. CASE u # t
      <4>1. head[u] # id
        BY <1>0, <1>6, <3>2, HeadsDiffer, Zenon
      <4>. QED
        BY <1>3, <1>5, <1>9, <3>0, <3>2, <4>1, Zenon
    <3>. QED
      BY <3>1, <3>2, Zenon
  <2>3. \A e \in Queued' \cup inflight' \cup Used' : \E u \in Waiting' : head'[u] = e
    BY <1>0, <1>3, <1>5, <1>10, Zenon DEF Requests
  <2>4. /\ Queued' \cap inflight' = {} /\ Queued' \cap Used' = {} /\ inflight' \cap Used' = {}
        /\ \A e \in Used' : status'[e] = 0
    BY <1>0, <1>3, <1>5, Zenon DEF Requests
  <2>. QED
    BY <1>10, <2>1, <2>2, <2>3, <2>4, Zenon DEF Requests
<1>14. Transfers'
  BY <1>0, <1>3, <1>5, <1>8, <1>10, Zenon DEF Transfers
<1>. QED
  BY <1>5, <1>11, <1>12, <1>13, <1>14, Zenon DEF DiskInv

LEMMA NextDisk == DiskInv /\ [Next]_vars => DiskInv'
<1>. SUFFICES ASSUME DiskInv, [Next]_vars PROVE DiskInv'
  BY Zenon
<1>1. CASE UNCHANGED vars
  <2>1. UNCHANGED <<ring, availIdx, fetched, usedRing, usedIdx, inflight, irq, free, next, addr,
                    b, seen, intr, pc, head, busy, status, moved, panicked>>
    BY <1>1, Zenon DEF vars, device, driver, callers
  <2>2. Waiting' = Waiting /\ Queued' = Queued
    BY <2>1, Zenon DEF Waiting, Queued
  <2>3. Chains' /\ Counted' /\ Rings' /\ Requests'
    BY <2>1, <2>2, QuietStep, Zenon DEF DiskInv
  <2>4. TypeOK' /\ NoPanic' /\ Transfers'
    BY <2>1, <2>2, Zenon DEF DiskInv, TypeOK, NoPanic, Transfers
  <2>. QED
    BY <2>3, <2>4, Zenon DEF DiskInv
<1>2. ASSUME NEW t \in Threads, Call(t)
      PROVE  DiskInv'
  BY <1>2, CallStep, Zenon
<1>3. ASSUME NEW t \in Threads, NoDescriptors(t) \/ Kill(t)
      PROVE  DiskInv'
  BY <1>3, PlaceStep, Zenon
<1>4. ASSUME NEW t \in Threads, Submit(t)
      PROVE  DiskInv'
  BY <1>4, SubmitStep, Zenon
<1>5. ASSUME NEW t \in Threads, Finish(t)
      PROVE  DiskInv'
  <2>1. CASE busy[t]
    BY <1>5, <2>1, PlaceStep, Zenon
  <2>2. CASE ~busy[t]
    <3>1. pc[t] = "check" /\ FreeChain(t)
      BY <1>5, <2>2, Zenon DEF Finish
    <3>. QED
      BY <2>2, <3>1, FinishStep, Zenon
  <2>. QED
    BY <2>1, <2>2, Zenon
<1>6. ASSUME Fetch PROVE DiskInv'
  BY <1>6, FetchStep, Zenon
<1>7. ASSUME NEW d \in Descs, Complete(d) PROVE DiskInv'
  BY <1>7, CompleteStep, Zenon
<1>8. ASSUME Interrupt PROVE DiskInv'
  BY <1>8, IntrAckStep, IntrLoopStep, Zenon DEF Interrupt
<1>. QED
  BY <1>1, <1>2, <1>3, <1>4, <1>5, <1>6, <1>7, <1>8, Zenon DEF Next

(***************************************************************************)
(* The state of virtio_disk.c: every call in progress owns a chain of      *)
(* three descriptors, its request is in one place between the avail ring   *)
(* and the used ring, and neither ring overtakes its reader.               *)
(***************************************************************************)
THEOREM DiskInvariant == Spec => []DiskInv
<1>1. Init => DiskInv
  BY InitDisk, Zenon
<1>2. DiskInv /\ [Next]_vars => DiskInv'
  BY NextDisk, Zenon
<1>. QED
  BY <1>1, <1>2, PTL DEF Spec

(***************************************************************************)
(* No panic() of virtio_disk_intr() and free_desc() is reached.            *)
(***************************************************************************)
THEOREM DiskNeverPanics == Spec => []NoPanic
<1>1. DiskInv => NoPanic
  BY Zenon DEF DiskInv
<1>. QED
  BY <1>1, DiskInvariant, PTL

(***************************************************************************)
(* The descriptors in use are the chains of the calls in progress, three   *)
(* for each: alloc3_desc() and free_chain() lose none and share none.      *)
(***************************************************************************)
THEOREM DescriptorsAreAccountedFor == Spec => []NoDescriptorLeak
<1>1. DiskInv => NoDescriptorLeak
  <2>. SUFFICES ASSUME DiskInv PROVE NoDescriptorLeak
    BY Zenon
  <2>1. TypeOK /\ Chains /\ Counted
    BY Zenon DEF DiskInv
  <2>2. \A t \in Waiting : Chain(head[t]) = Three(t)
    BY <2>1, ChainIsThree, Zenon
  <2>3. ASSUME NEW t \in Waiting
        PROVE  Three(t) \subseteq Descs \ free
    <3>1. /\ head[t] \in Descs /\ D1(t) \in Descs /\ D2(t) \in Descs
          /\ Three(t) \cap free = {}
      BY <2>1, Zenon DEF TypeOK, Chains, Waiting
    <3>. QED
      BY <3>1, Zenon DEF Three
  <2>4. ASSUME NEW d \in Descs \ free
        PROVE  \E t \in Waiting : d \in Chain(head[t])
    <3>1. PICK t \in Waiting : d \in Three(t)
      BY <2>1, Zenon DEF Chains
    <3>. QED
      BY <2>2, <3>1, Zenon
  <2>5. Descs \ free = UNION {Chain(head[t]) : t \in Waiting}
    BY <2>2, <2>3, <2>4, Zenon
  <2>. QED
    BY <2>1, <2>5, Zenon DEF Counted, NoDescriptorLeak
<1>. QED
  BY <1>1, DiskInvariant, PTL

(***************************************************************************)
(* virtio_disk_rw() returns after the device has transferred its buffer,   *)
(* exactly once.                                                           *)
(***************************************************************************)
THEOREM CallsReturnAfterTransfer == Spec => ReturnsAfterTransfer
<1>1. DiskInv /\ [Next]_vars =>
        [\A t \in Threads : pc[t] = "check" /\ pc'[t] = "idle" => moved[t] = 1]_vars
  <2>. SUFFICES ASSUME DiskInv, Next, NEW t \in Threads, pc[t] = "check", pc'[t] = "idle"
                PROVE  moved[t] = 1
    BY Zenon
  <2>0. TypeOK /\ Requests /\ Transfers /\ t \in Waiting
    BY Zenon DEF DiskInv, Waiting
  <2>1. ~busy[t]
    <3>0. pc \in [Threads -> {"idle", "start", "nodesc", "wait", "check"}]
      BY <2>0, Zenon DEF TypeOK
    <3>1. ASSUME NEW u \in Threads, Call(u) \/ NoDescriptors(u) \/ Submit(u) \/ Kill(u)
          PROVE  FALSE
      BY <3>0, <3>1, ZenonT(30) DEF Call, NoDescriptors, Submit, Kill, WakeAllocators
    <3>2. ASSUME NEW u \in Threads, Finish(u)
          PROVE  ~busy[t]
      BY <3>0, <3>2, Zenon DEF Finish, FreeChain, WakeAllocators
    <3>3. ASSUME Fetch \/ \E d \in Descs : Complete(d)
          PROVE  FALSE
      BY <3>3, Zenon DEF Fetch, Complete, callers
    <3>4. ASSUME Interrupt PROVE FALSE
      BY <3>0, <3>4, Zenon DEF Interrupt, IntrAck, IntrLoop, IntrReturn, callers
    <3>. QED
      BY <3>1, <3>2, <3>3, <3>4, Zenon DEF Next
  <2>2. head[t] \notin Queued \cup inflight
    BY <2>0, <2>1, Zenon DEF Requests
  <2>. QED
    BY <2>0, <2>2, Zenon DEF Transfers
<1>. QED
  BY <1>1, DiskInvariant, PTL DEF Spec, ReturnsAfterTransfer
=============================================================================
