------------------------------ MODULE BufCache ------------------------------
(***************************************************************************)
(* kernel/bio.c and kernel/sleeplock.c: threads read blocks through the    *)
(* cache, change them, and write them or hand them to the log, which pins  *)
(* them until they are installed.  Every section under bcache.lock or the  *)
(* spin lock of a sleep lock is one step.  A thread may read a second      *)
(* block while it holds a first one, as the callers in fs.c and log.c do.  *)
(***************************************************************************)
EXTENDS Integers, FiniteSets

CONSTANTS Threads, Values, None,
          Blocks,
          LogBlocks, Indirect,   \* those of the log, and the indirect ones
          NBUF,
          MaxPinned              \* room in the log

\* What a thread does with a buffer from bget() to brelse() is a use of it.  The
\* second use of a thread is nested in its first.
Uses == Threads \X {1, 2}
Other(u) == <<u[1], 3 - u[2]>>

ASSUME BufAssumption ==
  /\ NBUF \in Nat \ {0} /\ MaxPinned \in Nat
  /\ IsFiniteSet(Threads)
  /\ LogBlocks \subseteq Blocks /\ Indirect \subseteq Blocks
  /\ None \notin Uses \cup Blocks \cup 1..NBUF

Bufs == 1..NBUF

VARIABLES
  blockno, valid, refcnt, data,  \* struct buf
  owner,                         \* b->lock: its holder, or None
  lru,                           \* the list from head.next to head.prev
  disk,
  pinned,                        \* buffers the log has pinned
  pc, buf, want,                 \* where each use is, its buffer and block
  panicked                       \* bget: no buffers

bvars == <<blockno, valid, refcnt, data, owner, lru, disk, pinned>>
vars == <<bvars, pc, buf, want, panicked>>

\* binit() puts every buffer at the front of the list in turn.
Init ==
  /\ blockno = [b \in Bufs |-> None]
  /\ valid = [b \in Bufs |-> FALSE]
  /\ refcnt = [b \in Bufs |-> 0]
  /\ data \in [Bufs -> Values]
  /\ owner = [b \in Bufs |-> None]
  /\ lru = [j \in Bufs |-> NBUF + 1 - j]
  /\ disk \in [Blocks -> Values]
  /\ pinned = {}
  /\ pc = [u \in Uses |-> "idle"]
  /\ buf = [u \in Uses |-> None]
  /\ want = [u \in Uses |-> None]
  /\ panicked = FALSE

Goto(u, label) == pc' = [pc EXCEPT ![u] = label]

-----------------------------------------------------------------------------
Lookup(k) == {b \in Bufs : blockno[b] = k}

\* Faulty variant: the scan stops one buffer early.
UnusedButFirst == {j \in 2..NBUF : refcnt[lru[j]] = 0}

\* Where in the list the buffers are that nobody refers to.
Unused == {j \in Bufs : refcnt[lru[j]] = 0}

\* Faulty variant: the buffer is returned without a reference.
BgetHitUncounted(u, k) ==
  /\ pc[u] = "idle"
  /\ \E b \in Lookup(k) : buf' = [buf EXCEPT ![u] = b]
  /\ want' = [want EXCEPT ![u] = k]
  /\ Goto(u, "acquire")
  /\ UNCHANGED <<bvars, panicked>>

\* bget() under bcache.lock: the block is cached ...
BgetHit(u, k) ==
  /\ pc[u] = "idle"
  /\ \E b \in Lookup(k) :
       /\ refcnt' = [refcnt EXCEPT ![b] = @ + 1]
       /\ buf' = [buf EXCEPT ![u] = b]
  /\ want' = [want EXCEPT ![u] = k]
  /\ Goto(u, "acquire")
  /\ UNCHANGED <<blockno, valid, data, owner, lru, disk, pinned, panicked>>

\* ... or not: b, the least recently used one of the unused buffers, is recycled.
Recycle(b, u, k) ==
  /\ blockno' = [blockno EXCEPT ![b] = k]
  /\ refcnt' = [refcnt EXCEPT ![b] = 1]
  /\ buf' = [buf EXCEPT ![u] = b]
  /\ want' = [want EXCEPT ![u] = k]
  /\ Goto(u, "acquire")
  /\ UNCHANGED <<data, owner, lru, disk, pinned>>

\* The last of these places, where the scan from head.prev stops.
Last(places) == {j \in places : \A l \in places : l <= j}

\* Faulty variant: b->valid survives.
BgetMissValid(u, k) ==
  /\ pc[u] = "idle" /\ Lookup(k) = {}
  /\ panicked' = (Unused = {})
  /\ IF panicked' THEN UNCHANGED <<bvars, pc, buf, want>>
     ELSE \E j \in Last(Unused) : Recycle(lru[j], u, k) /\ UNCHANGED valid

BgetMiss(u, k) ==
  /\ pc[u] = "idle" /\ Lookup(k) = {}
  /\ panicked' = (Unused = {})
  /\ IF panicked' THEN UNCHANGED <<bvars, pc, buf, want>>
     ELSE \E j \in Last(Unused) :
            Recycle(lru[j], u, k) /\ valid' = [valid EXCEPT ![lru[j]] = FALSE]

\* acquiresleep(), at the start of the call and after a wakeup; then bread()
\* looks at b->valid.
Acquiresleep(u) ==
  /\ pc[u] = "acquire"
  /\ IF owner[buf[u]] # None
       THEN Goto(u, "asleep") /\ UNCHANGED owner
       ELSE /\ owner' = [owner EXCEPT ![buf[u]] = u]
            /\ Goto(u, IF valid[buf[u]] THEN "use" ELSE "read")
  /\ UNCHANGED <<blockno, valid, refcnt, data, lru, disk, pinned, buf, want, panicked>>

\* virtio_disk_rw(b, 0)
DiskRead(u) ==
  /\ pc[u] = "read"
  /\ data' = [data EXCEPT ![buf[u]] = disk[blockno[buf[u]]]]
  /\ valid' = [valid EXCEPT ![buf[u]] = TRUE]
  /\ Goto(u, "use")
  /\ UNCHANGED <<blockno, refcnt, owner, lru, disk, pinned, buf, want, panicked>>

\* The caller of bread() changes b->data.
Modify(u, v) ==
  /\ pc[u] = "use"
  /\ data' = [data EXCEPT ![buf[u]] = v]
  /\ Goto(u, "dirty")
  /\ UNCHANGED <<blockno, valid, refcnt, owner, lru, disk, pinned, buf, want, panicked>>

\* bwrite(): virtio_disk_rw(b, 1).  The caller changed the block, or
\* install_trans() writes one that the log had pinned.
Bwrite(u) ==
  /\ pc[u] \in {"use", "dirty"}
  /\ disk' = [disk EXCEPT ![blockno[buf[u]]] = data[buf[u]]]
  /\ Goto(u, "written")
  /\ UNCHANGED <<blockno, valid, refcnt, data, owner, lru, pinned, buf, want, panicked>>

\* log_write(): bpin() unless the block is in the log already.
Bpin(u) ==
  /\ pc[u] = "dirty"
  /\ \/ buf[u] \in pinned /\ UNCHANGED <<refcnt, pinned>>
     \/ /\ buf[u] \notin pinned /\ Cardinality(pinned) < MaxPinned
        /\ refcnt' = [refcnt EXCEPT ![buf[u]] = @ + 1]
        /\ pinned' = pinned \cup {buf[u]}
  /\ Goto(u, "use")
  /\ UNCHANGED <<blockno, valid, data, owner, lru, disk, buf, want, panicked>>

\* install_trans(): bunpin() after bwrite().
Bunpin(u) ==
  /\ pc[u] = "written" /\ buf[u] \in pinned
  /\ refcnt' = [refcnt EXCEPT ![buf[u]] = @ - 1]
  /\ pinned' = pinned \ {buf[u]}
  /\ UNCHANGED <<blockno, valid, data, owner, lru, disk, pc, buf, want, panicked>>

\* Faulty variant: releasesleep() without wakeup().
ReleasesleepSilently(u) ==
  /\ pc[u] \in {"use", "written"}
  /\ owner' = [owner EXCEPT ![buf[u]] = None]
  /\ Goto(u, "unref")
  /\ UNCHANGED <<blockno, valid, refcnt, data, lru, disk, pinned, buf, want, panicked>>

\* brelse(), first releasesleep() ...
Releasesleep(u) ==
  /\ pc[u] \in {"use", "written"}
  /\ owner' = [owner EXCEPT ![buf[u]] = None]
  /\ pc' = [w \in Uses |->
              IF w = u THEN "unref"
              ELSE IF pc[w] = "asleep" /\ buf[w] = buf[u] THEN "acquire" ELSE pc[w]]
  /\ UNCHANGED <<blockno, valid, refcnt, data, lru, disk, pinned, buf, want, panicked>>

\* The list once b is unlinked and put in front of the others.
ToFront(b) ==
  LET place == CHOOSE j \in Bufs : lru[j] = b
  IN  [j \in Bufs |-> IF j = 1 THEN b ELSE IF j <= place THEN lru[j - 1] ELSE lru[j]]

\* ... then, under bcache.lock, the reference count and the list.
Unref(u) ==
  /\ pc[u] = "unref"
  /\ refcnt' = [refcnt EXCEPT ![buf[u]] = @ - 1]
  /\ lru' = IF refcnt[buf[u]] = 1 THEN ToFront(buf[u]) ELSE lru
  /\ buf' = [buf EXCEPT ![u] = None] /\ want' = [want EXCEPT ![u] = None]
  /\ Goto(u, "idle")
  /\ UNCHANGED <<blockno, valid, data, owner, disk, pinned, panicked>>

-----------------------------------------------------------------------------
\* A thread is not inside a call about its other buffer.
InTurn(u) == pc[Other(u)] \in {"idle", "use", "dirty", "written"}

\* A thread reads a second block only under a block of the log (the block it is a
\* copy of, in write_log() and install_trans()) or an indirect one (the bitmap or a
\* new block, for balloc() in bmap() and bfree() in itrunc()).
Rank(k) == IF k \in LogBlocks THEN 0 ELSE IF k \in Indirect THEN 1 ELSE 2

\* A thread calls bread() for its only buffer, or for a second one once it has the
\* first.
Asks(u, k) ==
  \/ u[2] = 1 /\ pc[Other(u)] = "idle"
  \/ u[2] = 2 /\ pc[Other(u)] = "use" /\ Rank(k) > Rank(want[Other(u)])

\* panic() does not return, and bget() has bcache.lock then: nobody gets or gives
\* back a buffer any more.
Panicked == panicked /\ UNCHANGED vars

Continue(u) ==
  Acquiresleep(u) \/ DiskRead(u) \/ Releasesleep(u) \/ Unref(u)
  \/ Bwrite(u) \/ Bpin(u) \/ Bunpin(u)

Step(u) ==
  \/ \E k \in Blocks : Asks(u, k) /\ (BgetHit(u, k) \/ BgetMiss(u, k))
  \/ \E v \in Values : Modify(u, v)
  \/ Continue(u)

Next ==
  \/ ~panicked /\ \E u \in Uses : InTurn(u) /\ Step(u)
  \/ Panicked

Spec == Init /\ [][Next]_vars

-----------------------------------------------------------------------------
Holding == {"read", "use", "dirty", "written"}

TypeOK ==
  /\ blockno \in [Bufs -> Blocks \cup {None}]
  /\ valid \in [Bufs -> BOOLEAN]
  /\ refcnt \in [Bufs -> Nat]
  /\ data \in [Bufs -> Values] /\ disk \in [Blocks -> Values]
  /\ owner \in [Bufs -> Uses \cup {None}]
  /\ lru \in [Bufs -> Bufs] /\ \A b \in Bufs : \E j \in Bufs : lru[j] = b
  /\ pinned \in SUBSET Bufs
  /\ pc \in [Uses -> Holding \cup {"idle", "acquire", "asleep", "unref"}]
  /\ buf \in [Uses -> Bufs \cup {None}] /\ want \in [Uses -> Blocks \cup {None}]
  /\ panicked \in BOOLEAN

(***************************************************************************)
(* refcnt counts the uses between bget() and the end of brelse(), and the  *)
(* log's pin; so no buffer is recycled under a thread that waits for its   *)
(* lock, and bread() returns the block that was asked for.                 *)
(***************************************************************************)
RefcntExact ==
  /\ \A b \in Bufs :
       refcnt[b] = Cardinality({u \in Uses : buf[u] = b})
                   + Cardinality(pinned \cap {b})
  /\ \A u \in Uses : buf[u] # None => blockno[buf[u]] = want[u]

(***************************************************************************)
(* bget() panics for want of buffers only when there really is none: each  *)
(* is pinned by the log, or in use by a thread that has not come to the    *)
(* end of brelse().  No reference is left behind that would use the cache  *)
(* up, and none that is free is passed over.                               *)
(***************************************************************************)
PanicsOnlyWhenFull ==
  panicked => \A b \in Bufs : b \in pinned \/ \E u \in Uses : buf[u] = b

\* A block is in its buffer if that is valid, and on the disk otherwise.
Cached(k) == {b \in Bufs : blockno[b] = k /\ valid[b]}
Content == [k \in Blocks |-> IF Cached(k) = {} THEN disk[k]
                             ELSE data[CHOOSE b \in Cached(k) : TRUE]]
Holder == [k \in Blocks |->
  LET H == {u \in Uses : pc[u] \in Holding /\ want[u] = k}
  IN  IF H = {} THEN None ELSE CHOOSE u \in H : TRUE]

S == INSTANCE BlockStore WITH Threads <- Uses, content <- Content, holder <- Holder

(***************************************************************************)
(* The cache is one exclusive copy of every block: only the thread that    *)
(* holds the block changes it, reading, evicting, pinning and writing back *)
(* never do, and two threads never hold one block.                         *)
(***************************************************************************)
OneCopy == S!Spec

(***************************************************************************)
(* Whoever sleeps in acquiresleep() gets the lock: it is held (so that no  *)
(* wakeup was lost), and its holder does not wait for the sleeper, because *)
(* if it sleeps too, it is for a block that comes later in the order log,  *)
(* indirect, other.  Threads that hold two buffers never deadlock.         *)
(***************************************************************************)
NoLostWakeup ==
  \A u \in Uses : pc[u] = "asleep" =>
    \E w \in Uses :
      /\ owner[buf[u]] = w /\ buf[w] = buf[u] /\ pc[w] \in Holding
      /\ pc[Other(w)] = "asleep" => Rank(want[Other(w)]) > Rank(want[u])
=============================================================================
