---------------------------- MODULE PipeProofs ------------------------------
(***************************************************************************)
(* Proofs about Pipe for every number of readers and writers and every     *)
(* size of the pipe and of its indices.                                    *)
(***************************************************************************)
EXTENDS Pipe, SequenceTheorems, TLAPS

Labels == {"idle", "lock", "test", "loop", "copy", "sleep", "asleep", "close"}

\* What the steps below need of the types.
Typed ==
  /\ pc \in [Threads -> Labels]
  /\ open \in [Threads -> BOOLEAN] /\ killed \in [Threads -> BOOLEAN]
  /\ readopen \in BOOLEAN /\ writeopen \in BOOLEAN /\ freed \in BOOLEAN

\* A thread is between acquire() and release() exactly if it has the lock.
Exclusive == \A t \in Threads : pc[t] \in {"test", "loop", "copy", "sleep"} <=> lock = t

\* A thread in a call has a descriptor.  An end is open until the last thread to
\* close a descriptor for it has finished pipeclose().
Ends ==
  /\ \A t \in Threads : pc[t] \notin {"idle", "close"} => open[t]
  /\ \A t \in Threads : pc[t] = "close" =>
       \A u \in Peers(t) : ~open[u] /\ (pc[u] = "close" => u = t)
  /\ readopen <=> \E t \in Readers : open[t] \/ pc[t] = "close"
  /\ writeopen <=> \E t \in Writers : open[t] \/ pc[t] = "close"
  /\ freed <=> ~readopen /\ ~writeopen

\* Who is at which end.
Sides == \A t \in Threads :
  /\ pc[t] = "copy" => t \in Writers
  /\ pc[t] = "test" => t \in Readers

\* What a thread found when it decided to sleep or to copy stays true while it
\* has the lock; while it sleeps it may become false only at the hands of a
\* thread that has the lock and will call wakeup() before it gives it up.
Reasons == \A t \in Threads :
  /\ t \in Writers /\ pc[t] = "copy" => ~Full
  /\ t \in Writers /\ pc[t] = "sleep" => Full /\ readopen
  /\ t \in Readers /\ pc[t] = "sleep" => Empty /\ writeopen
  /\ t \in Writers /\ pc[t] = "asleep" =>
       (Full /\ readopen) \/ (lock \in Readers /\ pc[lock] = "loop")
  /\ t \in Readers /\ pc[t] = "asleep" =>
       writeopen /\ (Empty \/ lock \in Writers \/ \E u \in Writers : killed[u])

PipeInv == Typed /\ Exclusive /\ Ends /\ Sides /\ Reasons

-----------------------------------------------------------------------------
LEMMA PipeInit == Init => PipeInv
BY PipeAssumption, ZenonT(30)
   DEF Init, PipeInv, Typed, Labels, Exclusive, Ends, Sides, Reasons, Threads, Peers

-----------------------------------------------------------------------------
(* One lemma for each group of actions. *)

LEMMA CallStep ==
  ASSUME PipeInv, NEW t \in Threads, NEW m, Call(t, m) \/ Acquire(t)
  PROVE  PipeInv'
<1> USE DEF PipeInv, pipe, Goto, Labels, Full, Empty
<1>1. CASE Call(t, m)
  <2>1. Typed' /\ Exclusive' /\ Sides' /\ Reasons'
    BY <1>1, PipeAssumption DEF Call, Typed, Exclusive, Sides, Reasons, Threads
  <2>2. Ends'
    BY <1>1, PipeAssumption DEF Call, Typed, Ends, Threads, Peers
  <2>. QED
    BY <2>1, <2>2, Zenon
<1>2. CASE Acquire(t)
  <2>1. Typed' /\ Exclusive' /\ Sides'
    BY <1>2, PipeAssumption, Zenon DEF Acquire, Typed, Exclusive, Sides, Threads
  <2>2. Ends'
    BY <1>2, PipeAssumption DEF Acquire, Typed, Ends, Threads, Peers
  <2>3. Reasons'
    BY <1>2, PipeAssumption, Zenon DEF Acquire, Typed, Exclusive, Reasons, Threads
  <2>. QED
    BY <2>1, <2>2, <2>3, Zenon
<1>. QED
  BY <1>1, <1>2, Zenon

\* Sleeping: a writer wakes the readers first.
LEMMA SleepStep ==
  ASSUME PipeInv, NEW t \in Threads, Sleep(t)
  PROVE  PipeInv'
<1> USE DEF PipeInv, pipe, At, Labels, Full, Empty
<1>1. Typed' /\ Exclusive' /\ Sides'
  BY PipeAssumption, Zenon DEF Sleep, Typed, Exclusive, Sides, Threads, Woken
<1>2. Ends'
  BY PipeAssumption DEF Sleep, Typed, Ends, Threads, Peers, Woken
<1>3. Reasons'
  BY PipeAssumption, Zenon DEF Sleep, Typed, Exclusive, Sides, Reasons, Threads, Woken
<1>. QED
  BY <1>1, <1>2, <1>3, Zenon

LEMMA KillStep ==
  ASSUME PipeInv, NEW t \in Threads, Kill(t)
  PROVE  PipeInv'
<1> USE DEF PipeInv, pipe, Labels, Full, Empty
<1>1. Typed' /\ Exclusive' /\ Sides'
  BY PipeAssumption, Zenon DEF Kill, Typed, Exclusive, Sides, Threads, Woken
<1>2. Ends'
  BY PipeAssumption, Zenon DEF Kill, Typed, Ends, Threads, Peers, Woken
<1>3. Reasons'
  BY PipeAssumption, Zenon DEF Kill, Typed, Exclusive, Reasons, Threads, Woken
<1>. QED
  BY <1>1, <1>2, <1>3, Zenon

\* Returning, after waking the threads of S, keeps all but the reasons to sleep.
LEMMA ReturnStep ==
  ASSUME PipeInv, NEW t \in Threads, lock = t, NEW S, Return(t, Woken(pc, S)),
         UNCHANGED <<readopen, writeopen, freed, open, killed>>
  PROVE  Typed' /\ Exclusive' /\ Ends' /\ Sides'
<1> USE DEF PipeInv, Labels
<1>1. pc[t] \in {"test", "loop", "copy", "sleep"}
  BY Zenon DEF Exclusive
<1>2. pc' = [Woken(pc, S) EXCEPT ![t] = "idle"] /\ lock' = None
  BY Zenon DEF Return
<1>3. Typed' /\ Exclusive' /\ Sides'
  BY <1>2, PipeAssumption DEF Typed, Exclusive, Sides, Threads, Woken
<1>4. Ends'
  BY <1>1, <1>2, PipeAssumption, ZenonT(30) DEF Typed, Ends, Threads, Peers, Woken
<1>. QED
  BY <1>3, <1>4, Zenon

LEMMA NobodyWoken == PipeInv => pc = Woken(pc, {})
BY Zenon DEF PipeInv, Typed, Woken

\* pipewrite(): whoever leaves with bytes in the pipe wakes the readers, unless
\* killed or left without readers.
LEMMA WriteStep ==
  ASSUME PipeInv, NEW t \in Threads,
         WriteTest(t) \/ (\E b \in Bytes : WriteByte(t, b)) \/ CopyinFails(t)
  PROVE  PipeInv'
<1> USE DEF PipeInv, pipe, At, Goto, Labels
<1>1. ASSUME t \in Writers, At(t, "loop"), i[t] < n[t], ~readopen \/ killed[t], Return(t, pc),
             UNCHANGED <<pipe, freed, open, killed>>
      PROVE  PipeInv'
  <2>1. Typed' /\ Exclusive' /\ Ends' /\ Sides'
    BY <1>1, NobodyWoken, ReturnStep, Zenon
  <2>2. pc' = [pc EXCEPT ![t] = "idle"] /\ lock' = None
    BY <1>1, Zenon DEF Return
  <2>3. killed[t] \/ \A u \in Readers : pc[u] # "asleep"
    BY <1>1, Zenon DEF Ends, Threads
  <2>4. Reasons'
    BY <1>1, <2>2, <2>3, PipeAssumption, Zenon
       DEF Typed, Exclusive, Sides, Reasons, Threads, Full, Empty
  <2>. QED
    BY <2>1, <2>4, Zenon
<1>2. ASSUME t \in Writers, At(t, "loop"), readopen,
             Goto(t, IF Full THEN "sleep" ELSE "copy"), UNCHANGED <<lock, pipe, freed, open, killed>>
      PROVE  PipeInv'
  <2>1. PICK l \in {"sleep", "copy"} :
          pc' = [pc EXCEPT ![t] = l] /\ (l = "sleep" <=> Full)
    BY <1>2, Zenon
  <2>2. Typed' /\ Exclusive' /\ Sides'
    BY <1>2, <2>1, PipeAssumption DEF Typed, Exclusive, Sides, Threads
  <2>3. Ends'
    BY <1>2, <2>1, PipeAssumption DEF Typed, Ends, Threads, Peers
  <2>4. Reasons'
    BY <1>2, <2>1, PipeAssumption DEF Typed, Exclusive, Reasons, Threads, Full, Empty
  <2>. QED
    BY <2>2, <2>3, <2>4, Zenon
<1>3. ASSUME t \in Writers, lock = t, Return(t, Woken(pc, Readers)),
             UNCHANGED <<pipe, freed, open, killed>>
      PROVE  PipeInv'
  <2>1. Typed' /\ Exclusive' /\ Ends' /\ Sides'
    BY <1>3, ReturnStep, Zenon
  <2>2. pc' = [Woken(pc, Readers) EXCEPT ![t] = "idle"] /\ lock' = None
    BY <1>3, Zenon DEF Return
  <2>3. Reasons'
    BY <1>3, <2>2, PipeAssumption
       DEF Typed, Exclusive, Sides, Reasons, Threads, Woken, Full, Empty
  <2>. QED
    BY <2>1, <2>3, Zenon
<1>4. ASSUME NEW b \in Bytes, WriteByte(t, b) PROVE PipeInv'
  <2>1. Typed' /\ Exclusive' /\ Sides'
    BY <1>4, PipeAssumption, Zenon DEF WriteByte, Typed, Exclusive, Sides, Threads
  <2>2. Ends'
    BY <1>4, PipeAssumption, Zenon DEF WriteByte, Typed, Ends, Threads, Peers
  <2>3. ~Full /\ \A u \in Writers : pc[u] # "asleep"
    BY <1>4, PipeAssumption, Zenon DEF WriteByte, Exclusive, Reasons, Threads
  <2>4. Reasons'
    BY <1>4, <2>3, PipeAssumption, Zenon DEF WriteByte, Typed, Exclusive, Sides, Reasons, Threads
  <2>. QED
    BY <2>1, <2>2, <2>4, Zenon
<1>5. CASE WriteTest(t)
  BY <1>1, <1>2, <1>3, <1>5, Zenon DEF WriteTest
<1>6. CASE CopyinFails(t)
  BY <1>3, <1>6, Zenon DEF CopyinFails
<1>. QED
  BY <1>4, <1>5, <1>6, Zenon

\* piperead(): whoever takes bytes wakes the writers before leaving.
LEMMA ReadStep ==
  ASSUME PipeInv, NEW t \in Threads, ReadTest(t) \/ ReadByte(t) \/ ReadDone(t)
  PROVE  PipeInv'
<1> USE DEF PipeInv, pipe, At, Goto, Labels
<1>1. CASE ReadTest(t)
  <2>1. CASE Return(t, pc)
    <3>1. Typed' /\ Exclusive' /\ Ends' /\ Sides'
      BY <1>1, <2>1, NobodyWoken, ReturnStep, Zenon DEF ReadTest
    <3>2. Reasons'
      BY <1>1, <2>1, PipeAssumption
         DEF ReadTest, Return, Typed, Exclusive, Sides, Reasons, Threads, Full, Empty
    <3>. QED
      BY <3>1, <3>2, Zenon
  <2>2. ASSUME NEW l \in {"sleep", "loop"}, Goto(t, l), l = "sleep" => Empty /\ writeopen,
               UNCHANGED lock
        PROVE  PipeInv'
    <3>1. Typed' /\ Exclusive' /\ Sides'
      BY <1>1, <2>2, PipeAssumption, Zenon DEF ReadTest, Typed, Exclusive, Sides, Threads
    <3>2. Ends'
      BY <1>1, <2>2, PipeAssumption DEF ReadTest, Typed, Ends, Threads, Peers
    <3>3. Reasons'
      BY <1>1, <2>2, PipeAssumption
         DEF ReadTest, Typed, Exclusive, Sides, Reasons, Threads, Full, Empty
    <3>. QED
      BY <3>1, <3>2, <3>3, Zenon
  <2>. QED
    BY <1>1, <2>1, <2>2, Zenon DEF ReadTest
<1>2. ASSUME t \in Readers, At(t, "loop"), Return(t, Woken(pc, Writers)),
             nwrite' = nwrite, nread' = nread \/ ~Empty,
             UNCHANGED <<readopen, writeopen, freed, open, killed>>
      PROVE  PipeInv'
  <2>1. Typed' /\ Exclusive' /\ Ends' /\ Sides'
    BY <1>2, ReturnStep, Zenon
  <2>2. pc' = [Woken(pc, Writers) EXCEPT ![t] = "idle"] /\ lock' = None
    BY <1>2, Zenon DEF Return
  <2>3. \A u \in Writers : pc'[u] # "asleep"
    BY <2>2, PipeAssumption, Zenon DEF Typed, Woken, Threads
  <2>4. \A u \in Readers : pc[u] = "asleep" =>
          writeopen /\ (Empty \/ \E v \in Writers : killed[v])
    BY <1>2, PipeAssumption, Zenon DEF Reasons, Threads
  <2>5. \A u \in Threads : pc'[u] \notin {"copy", "sleep"}
    BY <1>2, <2>1, <2>2, PipeAssumption, Zenon DEF Exclusive, Threads
  <2>6. \A u \in Readers : pc'[u] = "asleep" => pc[u] = "asleep"
    BY <2>2, PipeAssumption, Zenon DEF Typed, Woken, Threads
  <2>7. Empty => Empty'
    BY <1>2, Zenon DEF Empty
  <2>8. Reasons'
    BY <1>2, <2>3, <2>4, <2>5, <2>6, <2>7, PipeAssumption, Zenon DEF Reasons, Threads
  <2>. QED
    BY <2>1, <2>8, Zenon
<1>3. CASE ReadByte(t)
  <2>1. CASE Return(t, Woken(pc, Writers))
    BY <1>2, <1>3, <2>1, Zenon DEF ReadByte
  <2>2. CASE UNCHANGED <<lock, pc, n>>
    <3>1. Typed' /\ Exclusive' /\ Sides' /\ Ends'
      BY <1>3, <2>2, Zenon DEF ReadByte, Typed, Exclusive, Sides, Ends
    <3>2. Reasons'
      BY <1>3, <2>2, PipeAssumption, Zenon DEF ReadByte, Typed, Exclusive, Sides,
         Reasons, Threads
    <3>. QED
      BY <3>1, <3>2, Zenon
  <2>. QED
    BY <1>3, <2>1, <2>2, Zenon DEF ReadByte
<1>4. CASE ReadDone(t)
  BY <1>2, <1>4, Zenon DEF ReadDone
<1>. QED
  BY <1>1, <1>3, <1>4, Zenon

\* Closing: the last thread to give up a descriptor for an end closes the end.
LEMMA CloseStep ==
  ASSUME PipeInv, NEW t \in Threads, Fileclose(t) \/ Pipeclose(t)
  PROVE  PipeInv'
<1> USE DEF PipeInv, pipe, Goto, Labels, Full, Empty
<1>1. CASE Fileclose(t)
  <2>1. Typed' /\ Exclusive' /\ Sides' /\ Reasons'
    BY <1>1, PipeAssumption DEF Fileclose, Typed, Exclusive, Sides, Reasons, Threads
  <2>2. Ends'
    BY <1>1, PipeAssumption DEF Fileclose, Typed, Ends, Threads, Peers
  <2>. QED
    BY <2>1, <2>2, Zenon
<1>2. CASE Pipeclose(t)
  <2>1. Typed' /\ Exclusive' /\ Sides'
    BY <1>2, PipeAssumption, Zenon DEF Pipeclose, Typed, Exclusive, Sides, Threads, Peers, Woken
  <2>2. Ends'
    BY <1>2, PipeAssumption DEF Pipeclose, Typed, Ends, Threads, Peers, Woken
  <2>3. Reasons'
    BY <1>2, PipeAssumption
       DEF Pipeclose, Typed, Exclusive, Ends, Sides, Reasons, Threads, Peers, Woken
  <2>. QED
    BY <2>1, <2>2, <2>3, Zenon
<1>. QED
  BY <1>1, <1>2, Zenon

-----------------------------------------------------------------------------
LEMMA PipeStep == PipeInv /\ [Next]_vars => PipeInv'
<1> SUFFICES ASSUME PipeInv, [Next]_vars PROVE PipeInv'
  BY Zenon
<1>1. ASSUME NEW t \in Threads, NEW m \in 1..MaxCount, Call(t, m) PROVE PipeInv'
  BY <1>1, CallStep, Zenon
<1>2. ASSUME NEW t \in Threads, InCall(t) PROVE PipeInv'
  BY <1>2, CallStep, SleepStep, WriteStep, ReadStep, CloseStep, Zenon DEF InCall
<1>3. ASSUME NEW t \in Threads, Kill(t) \/ Fileclose(t) PROVE PipeInv'
  BY <1>3, KillStep, CloseStep, Zenon
<1>4. CASE UNCHANGED vars
  BY <1>4, Zenon DEF vars, pipe, PipeInv, Typed, Exclusive, Ends, Sides, Reasons, Full, Empty
<1>. QED
  BY <1>1, <1>2, <1>3, <1>4, Zenon DEF Next

\* The inductive invariant of pipe.c: exclusion under pi->lock, which threads keep
\* which end open, and why each sleeper sleeps.
THEOREM PipeInvariant == Spec => []PipeInv
BY PipeInit, PipeStep, PTL DEF Spec

\* No wakeup is lost in pipe.c, for any number of readers and writers and any
\* size of the pipe: sleep() and wakeup() under pi->lock leave nobody asleep
\* without a reason.
THEOREM NoWakeupLost == Spec => []SleepersHaveReason
<1>1. PipeInv => SleepersHaveReason
  BY PipeAssumption, Zenon DEF PipeInv, Reasons, SleepersHaveReason, Threads
<1>. QED
  BY <1>1, PipeInvariant, PTL

\* pipeclose() frees the page exactly when the last thread that could use the
\* pipe is done with it, however the closing of the two ends interleaves.
THEOREM FreedOnTime == Spec => []FreedWhenUnused
<1>1. PipeInv => FreedWhenUnused
  BY PipeAssumption, Zenon DEF PipeInv, Ends, FreedWhenUnused, Threads
<1>. QED
  BY <1>1, PipeInvariant, PTL

-----------------------------------------------------------------------------
(***************************************************************************)

-----------------------------------------------------------------------------
(* Arithmetic of ring buffers whose indices count modulo wrap and whose slots *)
(* are the indices modulo size, where size divides wrap.                      *)

LEMMA DivMod ==
  ASSUME NEW a \in Nat, NEW m \in Nat \ {0}
  PROVE  \E q \in Int, r \in 0..m - 1 : a = m * q + r /\ (a % m) = r
<1>1. a \div m \in Int /\ (a % m) \in 0..m - 1 /\ a = m * (a \div m) + (a % m)
  OBVIOUS
<1>. QED
  BY <1>1, Zenon

LEMMA ModUnique ==
  ASSUME NEW a \in Int, NEW m \in Nat \ {0}, NEW q \in Int, NEW r \in 0..m - 1,
         a = m * q + r
  PROVE  a % m = r
OBVIOUS

\* Indices less than size apart have different slots.
LEMMA SlotsDiffer ==
  ASSUME NEW a \in Nat, NEW b \in Nat, NEW size \in Nat \ {0}, a < b, b < a + size
  PROVE  a % size # b % size
<1>1. PICK q \in Int, r \in 0..size - 1 : a = size * q + r /\ a % size = r
  BY DivMod, Zenon
<1>2. CASE r + (b - a) < size
  <2>1. PICK s \in 0..size - 1 : s = r + (b - a)
    BY <1>2
  <2>2. b = size * q + s /\ b \in Int
    BY <1>1, <2>1
  <2>3. b % size = s
    BY <2>2, ModUnique, Zenon
  <2>. QED
    BY <1>1, <2>1, <2>3
<1>3. CASE r + (b - a) >= size
  <2>1. PICK s \in 0..size - 1 : s = r + (b - a) - size
    BY <1>3
  <2>2. PICK m \in Int : b = size * m + s /\ b \in Int
    <3>1. b = size * (q + 1) + s /\ q + 1 \in Int /\ b \in Int
      BY <1>1, <2>1
    <3>. QED
      BY <3>1, Zenon
  <2>3. b % size = s
    BY <2>2, ModUnique, Zenon
  <2>. QED
    BY <1>1, <2>1, <2>3
<1>. QED
  BY <1>1, <1>2, <1>3

\* An index has the same slot before and after it wraps.
LEMMA SlotWraps ==
  ASSUME NEW a \in Nat, NEW wrap \in Nat, NEW size \in Nat \ {0}, wrap % size = 0
  PROVE  (a + wrap) % size = a % size
<1>1. PICK q \in Int, r \in 0..size - 1 : a = size * q + r /\ a % size = r
  BY DivMod, ZenonT(30)
<1>2. PICK k \in Int, z \in 0..size - 1 : wrap = size * k + z /\ wrap % size = z
  BY DivMod, Zenon
<1>3. PICK m \in Int : m = q + k
  OBVIOUS
<1>4. PICK c \in Nat : c = a + wrap
  OBVIOUS
<1>5. size * m = size * q + size * k
  BY <1>3
<1>6. c = size * m + r /\ c \in Int
  BY <1>1, <1>2, <1>4, <1>5
<1>7. c % size = r
  BY <1>6, ModUnique, Zenon
<1>. QED
  BY <1>1, <1>4, <1>7, Zenon

\* The sum of an index and a number of at most wrap, and the difference of two.
LEMMA IndexPlus ==
  ASSUME NEW wrap \in Nat \ {0}, NEW x \in 0..wrap - 1, NEW k \in 0..wrap
  PROVE  (x + k) % wrap = IF x + k < wrap THEN x + k ELSE x + k - wrap
<1>1. PICK c \in Nat : c = x + k
  OBVIOUS
<1>2. PICK m \in Int, r \in 0..wrap - 1 : c = wrap * m + r /\ r = IF c < wrap THEN c ELSE c - wrap
  <2>1. CASE c < wrap
    <3>1. c = wrap * 0 + c /\ c \in 0..wrap - 1 /\ 0 \in Int
      BY <2>1
    <3>. QED
      BY <2>1, <3>1, Zenon
  <2>2. CASE ~(c < wrap)
    <3>1. c = wrap * 1 + (c - wrap) /\ c - wrap \in 0..wrap - 1 /\ 1 \in Int
      BY <1>1, <2>2
    <3>. QED
      BY <2>2, <3>1, Zenon
  <2>. QED
    BY <2>1, <2>2, Zenon
<1>3. c \in Int
  OBVIOUS
<1>4. c % wrap = r
  BY <1>2, <1>3, ModUnique, Zenon
<1>5. c % wrap = IF c < wrap THEN c ELSE c - wrap
  BY <1>2, <1>4, Zenon
<1>. QED
  BY <1>1, <1>5

LEMMA IndexMinus ==
  ASSUME NEW wrap \in Nat \ {0}, NEW x \in 0..wrap - 1, NEW y \in 0..wrap - 1
  PROVE  (x - y) % wrap = IF y <= x THEN x - y ELSE x - y + wrap
<1>1. PICK c \in Int : c = x - y
  OBVIOUS
<1>2. y <= x <=> 0 <= c
  BY <1>1
<1>3. PICK m \in Int, r \in 0..wrap - 1 : c = wrap * m + r /\ r = IF 0 <= c THEN c ELSE c + wrap
  <2>1. CASE 0 <= c
    <3>1. c = wrap * 0 + c /\ c \in 0..wrap - 1 /\ 0 \in Int
      BY <1>1, <2>1
    <3>. QED
      BY <2>1, <3>1, Zenon
  <2>2. CASE ~(0 <= c)
    <3>1. c = wrap * (0 - 1) + (c + wrap) /\ c + wrap \in 0..wrap - 1 /\ 0 - 1 \in Int
      BY <1>1, <2>2
    <3>. QED
      BY <2>2, <3>1, Zenon
  <2>. QED
    BY <2>1, <2>2, Zenon
<1>4. c % wrap = r
  BY <1>3, ModUnique, Zenon
<1>. QED
  BY <1>1, <1>2, <1>3, <1>4, Zenon

-----------------------------------------------------------------------------
\* The indices are at most PIPESIZE apart, so no unread byte is overwritten.
IndexInv ==
  /\ nread \in 0..Wrap - 1 /\ nwrite \in 0..Wrap - 1
  /\ data \in [0..PIPESIZE - 1 -> Bytes]
  /\ Count <= PIPESIZE

\* The slot of a byte in the pipe, numbered from the oldest.
Slot(j) == (nread + j - 1) % PIPESIZE

-----------------------------------------------------------------------------
LEMMA CountFacts ==
  ASSUME IndexInv
  PROVE  /\ Count \in 0..PIPESIZE
         /\ Full <=> Count = PIPESIZE
         /\ Empty <=> Count = 0
         /\ nwrite = nread + Count \/ nwrite + Wrap = nread + Count
<1>1. Wrap \in Nat \ {0} /\ PIPESIZE \in 0..Wrap - 1 /\ nread \in 0..Wrap - 1
      /\ nwrite \in 0..Wrap - 1 /\ Count <= PIPESIZE
  BY PipeAssumption DEF IndexInv
<1>2. Count = IF nread <= nwrite THEN nwrite - nread ELSE nwrite - nread + Wrap
  BY <1>1, IndexMinus, Zenon DEF Count
<1>3. Plus(nread, PIPESIZE) = IF nread + PIPESIZE < Wrap THEN nread + PIPESIZE
                              ELSE nread + PIPESIZE - Wrap
  <2>1. PIPESIZE \in 0..Wrap
    BY <1>1
  <2>. QED
    BY <1>1, <2>1, IndexPlus, Zenon DEF Plus
<1>. QED
  BY <1>1, <1>2, <1>3 DEF Full, Empty

\* The slots of the bytes in the pipe and the next one to be written.
LEMMA Slots ==
  ASSUME IndexInv
  PROVE  /\ \A j \in 1..Count + 1 : Slot(j) \in 0..PIPESIZE - 1
         /\ Slot(1) = nread % PIPESIZE
         /\ Slot(Count + 1) = nwrite % PIPESIZE
         /\ \A j, k \in 1..PIPESIZE : j < k => Slot(j) # Slot(k)
<1>1. Wrap \in Nat /\ PIPESIZE \in Nat \ {0} /\ Wrap % PIPESIZE = 0
      /\ nread \in Nat /\ nwrite \in Nat /\ Count \in Nat
  BY CountFacts, PipeAssumption DEF IndexInv
<1>2. \A j \in 1..Count + 1 : Slot(j) \in 0..PIPESIZE - 1
  BY <1>1 DEF Slot
<1>3. Slot(1) = nread % PIPESIZE
  BY <1>1 DEF Slot
<1>4. Slot(Count + 1) = nwrite % PIPESIZE
  <2>1. Slot(Count + 1) = (nread + Count) % PIPESIZE
    BY <1>1 DEF Slot
  <2>2. (nwrite + Wrap) % PIPESIZE = nwrite % PIPESIZE
    BY <1>1, SlotWraps, Zenon
  <2>. QED
    BY <2>1, <2>2, CountFacts, Zenon
<1>5. ASSUME NEW j \in 1..PIPESIZE, NEW k \in 1..PIPESIZE, j < k PROVE Slot(j) # Slot(k)
  <2>1. PICK a \in Nat, b \in Nat : a = nread + j - 1 /\ b = nread + k - 1
    BY <1>1
  <2>2. a < b /\ b < a + PIPESIZE
    BY <1>1, <1>5, <2>1
  <2>. QED
    BY <1>1, <2>1, <2>2, SlotsDiffer, ZenonT(30) DEF Slot
<1>. QED
  BY <1>2, <1>3, <1>4, <1>5, Zenon

-----------------------------------------------------------------------------
LEMMA IndexInit == Init => IndexInv
<1> SUFFICES ASSUME Init PROVE IndexInv
  BY Zenon
<1>1. Junk \in Bytes
  BY PipeAssumption, Zenon DEF Junk
<1>2. Count = 0
  BY PipeAssumption, IndexMinus DEF Init, Count
<1>. QED
  BY <1>1, <1>2, PipeAssumption DEF Init, IndexInv

\* Writing a byte adds it at the end of the queue.
LEMMA WriteAppends ==
  ASSUME PipeInv, IndexInv, NEW t \in Threads, NEW b \in Bytes, WriteByte(t, b)
  PROVE  IndexInv' /\ Len(Queue) < PIPESIZE /\ Queue' = Append(Queue, b)
<1>1. Count \in 0..PIPESIZE - 1
  <2>1. ~Full
    BY Zenon DEF PipeInv, WriteByte, At, Reasons
  <2>. QED
    BY <2>1, CountFacts, PipeAssumption
<1>2. nread' = nread /\ nwrite' = (nwrite + 1) % Wrap
      /\ data' = [data EXCEPT ![nwrite % PIPESIZE] = b]
  BY Zenon DEF WriteByte, Plus
<1>3. nread \in 0..Wrap - 1 /\ nwrite \in 0..Wrap - 1 /\ data \in [0..PIPESIZE - 1 -> Bytes]
      /\ Wrap \in Nat \ {0} /\ 1 \in 0..Wrap /\ PIPESIZE < Wrap /\ PIPESIZE \in Nat \ {0}
  BY PipeAssumption DEF IndexInv
<1>4. nwrite' = IF nwrite + 1 < Wrap THEN nwrite + 1 ELSE nwrite + 1 - Wrap
  BY <1>2, <1>3, IndexPlus, Zenon
<1>5. nwrite' \in 0..Wrap - 1
  BY <1>3, <1>4
<1>6. Count' = Count + 1
  <2>1. Count' = IF nread <= nwrite' THEN nwrite' - nread ELSE nwrite' - nread + Wrap
    BY <1>2, <1>3, <1>5, IndexMinus, Zenon DEF Count
  <2>2. Count = IF nread <= nwrite THEN nwrite - nread ELSE nwrite - nread + Wrap
    BY <1>3, IndexMinus, Zenon DEF Count
  <2>. QED
    BY <1>1, <1>3, <1>4, <2>1, <2>2
<1>7. IndexInv'
  <2>1. Count' <= PIPESIZE
    BY <1>1, <1>3, <1>6
  <2>2. data' \in [0..PIPESIZE - 1 -> Bytes]
    BY <1>2, <1>3, Zenon
  <2>. QED
    BY <1>2, <1>3, <1>5, <2>1, <2>2, Zenon DEF IndexInv
<1>8. \A j \in 1..Count : data'[Slot(j)] = data[Slot(j)]
  <2> SUFFICES ASSUME NEW j \in 1..Count PROVE data'[Slot(j)] = data[Slot(j)]
    BY Zenon
  <2>1. Slot(j) # Slot(Count + 1) /\ Slot(j) \in 0..PIPESIZE - 1
        /\ Slot(Count + 1) = nwrite % PIPESIZE
    BY <1>1, <1>3, Slots
  <2>. QED
    BY <1>2, <1>3, <2>1, Zenon
<1>9. data'[Slot(Count + 1)] = b
  BY <1>1, <1>2, <1>3, Slots
<1>10. Queue = [j \in 1..Count |-> data[Slot(j)]]
       /\ Queue' = [j \in 1..Count + 1 |-> data'[Slot(j)]]
  BY <1>2, <1>6 DEF Queue, Slot
<1>. QED
  BY <1>1, <1>3, <1>7, <1>8, <1>9, <1>10

\* Reading a byte takes it from the front.
LEMMA ReadTakes ==
  ASSUME PipeInv, IndexInv, NEW t \in Threads, ReadByte(t)
  PROVE  IndexInv' /\ Queue # <<>> /\ Queue' = Tail(Queue)
<1>1. Count \in 1..PIPESIZE
  <2>1. ~Empty
    BY Zenon DEF ReadByte
  <2>. QED
    BY <2>1, CountFacts, PipeAssumption
<1>2. nwrite' = nwrite /\ nread' = (nread + 1) % Wrap
      /\ data' = [data EXCEPT ![nread % PIPESIZE] = Junk]
  BY Zenon DEF ReadByte, Plus
<1>3. nread \in 0..Wrap - 1 /\ nwrite \in 0..Wrap - 1 /\ data \in [0..PIPESIZE - 1 -> Bytes]
      /\ Wrap \in Nat \ {0} /\ 1 \in 0..Wrap /\ PIPESIZE < Wrap /\ PIPESIZE \in Nat \ {0}
      /\ Wrap % PIPESIZE = 0
  BY PipeAssumption DEF IndexInv
<1>4. nread' = IF nread + 1 < Wrap THEN nread + 1 ELSE nread + 1 - Wrap
  BY <1>2, <1>3, IndexPlus, ZenonT(30)
<1>5. nread' \in 0..Wrap - 1
  BY <1>3, <1>4
<1>6. Count' = Count - 1
  <2>1. Count' = IF nread' <= nwrite THEN nwrite - nread' ELSE nwrite - nread' + Wrap
    BY <1>2, <1>3, <1>5, IndexMinus, ZenonT(30) DEF Count
  <2>2. Count = IF nread <= nwrite THEN nwrite - nread ELSE nwrite - nread + Wrap
    BY <1>3, IndexMinus, ZenonT(30) DEF Count
  <2>. QED
    BY <1>1, <1>3, <1>4, <2>1, <2>2
<1>7. IndexInv'
  <2>1. Count' <= PIPESIZE
    BY <1>1, <1>3, <1>6
  <2>2. Junk \in Bytes
    BY PipeAssumption, Zenon DEF Junk
  <2>3. data' \in [0..PIPESIZE - 1 -> Bytes]
    BY <1>2, <1>3, <2>2, Zenon
  <2>. QED
    BY <1>2, <1>3, <1>5, <2>1, <2>3, Zenon DEF IndexInv
<1>8. ASSUME NEW j \in 1..Count - 1
      PROVE  data'[(nread' + j - 1) % PIPESIZE] = data[Slot(j + 1)]
  <2>1. (nread' + j - 1) % PIPESIZE = (nread + j) % PIPESIZE
    <3>1. PICK a \in Nat : a = nread' + j - 1
      <4>1. j \in Nat \ {0}
        BY <1>1, <1>3
      <4>2. PICK r \in Nat : r = nread'
        BY <1>3, <1>5
      <4>3. r + j - 1 \in Nat
        BY <4>1
      <4>. QED
        BY <4>2, <4>3, Zenon
    <3>2. (a + Wrap) % PIPESIZE = a % PIPESIZE
      BY <1>3, SlotWraps, Zenon
    <3>3. a = nread + j \/ a + Wrap = nread + j
      BY <1>1, <1>3, <1>4, <3>1
    <3>. QED
      BY <3>1, <3>2, <3>3, Zenon
  <2>2. Slot(j + 1) = (nread + j) % PIPESIZE
    BY <1>3 DEF Slot
  <2>3. Slot(1) # Slot(j + 1) /\ Slot(j + 1) \in 0..PIPESIZE - 1 /\ Slot(1) = nread % PIPESIZE
    BY <1>1, <1>3, Slots
  <2>. QED
    BY <1>2, <1>3, <2>1, <2>2, <2>3, Zenon
<1>9. Queue = [j \in 1..Count |-> data[Slot(j)]]
      /\ Queue' = [j \in 1..Count - 1 |-> data'[(nread' + j - 1) % PIPESIZE]]
  BY <1>6, Zenon DEF Queue, Slot
<1>10. Queue' = [j \in 1..Count - 1 |-> data[Slot(j + 1)]]
  BY <1>8, <1>9, Zenon
<1>11. Queue \in Seq(Bytes) /\ Len(Queue) = Count
  <2>1. \A j \in 1..Count : Slot(j) \in 0..PIPESIZE - 1
    BY <1>1, <1>3, Slots
  <2>. QED
    BY <1>1, <1>3, <1>9, <2>1
<1>12. Tail(Queue) = [j \in 1..Count - 1 |-> Queue[j + 1]]
  <2>1. Queue # <<>>
    BY <1>1, <1>11
  <2>2. Tail(Queue) \in Seq(Bytes) /\ Len(Tail(Queue)) = Count - 1
        /\ \A j \in 1..Count - 1 : Tail(Queue)[j] = Queue[j + 1]
    BY <1>1, <1>11, <2>1, HeadTailProperties, Zenon
  <2>3. PICK s \in Seq(Bytes) : s = Tail(Queue)
    BY <2>2, Zenon
  <2>4. Len(s) = Count - 1 /\ \A j \in 1..Count - 1 : s[j] = Queue[j + 1]
    BY <2>2, <2>3, Zenon
  <2>5. s \in [1..Len(s) -> Bytes]
    BY <2>3, LenProperties, Zenon
  <2>6. s = [j \in 1..Count - 1 |-> Queue[j + 1]]
    BY <2>4, <2>5, Zenon
  <2>. QED
    BY <2>3, <2>6, Zenon
<1>13. \A j \in 1..Count - 1 : Queue[j + 1] = data[Slot(j + 1)]
  BY <1>1, <1>3, <1>9
<1>. QED
  BY <1>1, <1>3, <1>7, <1>10, <1>11, <1>12, <1>13

-----------------------------------------------------------------------------
\* Every other step leaves the queue alone.
LEMMA QueueStep ==
  ASSUME PipeInv, IndexInv, [Next]_vars
  PROVE  IndexInv' /\ [B!Next]_Queue
<1>1. ASSUME NEW t \in Threads, NEW b \in Bytes, WriteByte(t, b)
      PROVE  IndexInv' /\ [B!Next]_Queue
  BY <1>1, WriteAppends, Zenon DEF B!Next, B!Put
<1>2. ASSUME NEW t \in Threads, ReadByte(t)
      PROVE  IndexInv' /\ [B!Next]_Queue
  BY <1>2, ReadTakes, Zenon DEF B!Next, B!Take
<1>3. CASE UNCHANGED <<data, nread, nwrite>>
  <2>1. Queue' = Queue /\ Count' = Count
    BY <1>3, Zenon DEF Queue, Count
  <2>. QED
    BY <1>3, <2>1, Zenon DEF IndexInv
<1>4. \/ \E t \in Threads : (\E b \in Bytes : WriteByte(t, b)) \/ ReadByte(t)
      \/ UNCHANGED <<data, nread, nwrite>>
  BY ZenonT(30) DEF vars, pipe, Next, InCall, Call, Acquire, Sleep, WriteTest, CopyinFails,
     ReadTest,
         ReadDone, Pipeclose, Kill, Fileclose
<1>. QED
  BY <1>1, <1>2, <1>3, <1>4, Zenon

\* The pipe is a bounded first-in first-out queue, for any number of readers and
\* writers and any PIPESIZE that divides the range of nread and nwrite.
THEOREM PipeIsFifo == Spec => Fifo
<1>1. Init => B!Init
  <2> SUFFICES ASSUME Init PROVE Queue = <<>>
    BY Zenon DEF B!Init
  <2>1. Count = 0
    BY PipeAssumption, IndexMinus DEF Init, Count
  <2>. QED
    BY <2>1 DEF Queue
<1>2. Spec => []IndexInv
  BY IndexInit, QueueStep, PipeInvariant, PTL DEF Spec
<1>3. PipeInv /\ IndexInv /\ [Next]_vars => [B!Next]_Queue
  BY QueueStep, Zenon
<1>. QED
  BY <1>1, <1>2, <1>3, PipeInvariant, PTL DEF Spec, Fifo, B!Spec
=============================================================================
