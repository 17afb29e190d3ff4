----------------------------- MODULE VirtioDisk -----------------------------
(***************************************************************************)
(* kernel/virtio_disk.c: threads calling virtio_disk_rw(), the interrupt   *)
(* handler, and the device, which works through the avail ring and may     *)
(* complete requests in any order.  Each thread brings the buffer it has   *)
(* locked, so a thread also stands for its buffer.  What a thread does     *)
(* under vdisk_lock is one step; the handler takes one step per completed  *)
(* request, because the device goes on meanwhile.  An entry of a ring that  *)
(* has been read, and idx[0] of a call that has returned, are set to 0:     *)
(* nothing reads them again before they are written.                        *)
(***************************************************************************)
EXTENDS Integers, FiniteSets, FiniteSetsExt

CONSTANTS Threads, None,
          NUM,               \* descriptors, and entries of each ring
          Wrap               \* 2^16 in the code; a multiple of NUM

ASSUME DiskAssumption ==
  /\ NUM \in Nat /\ NUM >= 3 /\ Wrap \in Nat \ {0} /\ Wrap % NUM = 0
  /\ None \notin Threads /\ None \notin Nat

Descs == 0..NUM - 1

VARIABLES
  free, next, addr,          \* of each descriptor; addr: the buffer, if any
  b, status,                 \* info[], by first descriptor of a chain
  ring, availIdx, fetched,   \* avail ring, and how far the device has read it
  usedRing, usedIdx,         \* used ring, written by the device
  seen,                      \* disk.used_idx: how far the driver has read it
  inflight,                  \* chains the device is working on
  irq,                       \* the device asserts its interrupt
  intr,                      \* virtio_disk_intr() runs, with vdisk_lock
  pc, head, busy,            \* of each thread: position, idx[0], b->disk
  moved,                     \* transfers made for the current call
  panicked

device == <<ring, availIdx, fetched, usedRing, usedIdx, inflight, irq>>
driver == <<free, next, addr, b, seen, intr>>
callers == <<pc, head, busy>>
vars == <<device, driver, callers, status, moved, panicked>>

Init ==
  /\ free = Descs
  /\ next = [d \in Descs |-> None] /\ addr = [d \in Descs |-> None]
  /\ b = [d \in Descs |-> None] /\ status = [d \in Descs |-> 0]
  /\ ring = [d \in Descs |-> 0] /\ availIdx = 0 /\ fetched = 0
  /\ usedRing = [d \in Descs |-> 0] /\ usedIdx = 0 /\ seen = 0
  /\ inflight = {} /\ irq = FALSE /\ intr = FALSE
  /\ pc = [t \in Threads |-> "idle"]
  /\ head = [t \in Threads |-> 0]
  /\ busy = [t \in Threads |-> FALSE]
  /\ moved = [t \in Threads |-> 0]
  /\ panicked = FALSE

Inc(x) == (x + 1) % Wrap

\* wakeup(&disk.free[0])
WakeAllocators(p) == [t \in Threads |-> IF p[t] = "nodesc" THEN "start" ELSE p[t]]

-----------------------------------------------------------------------------
(* virtio_disk_rw() *)

Call(t) ==
  /\ pc[t] = "idle"
  /\ pc' = [pc EXCEPT ![t] = "start"]
  /\ moved' = [moved EXCEPT ![t] = 0]
  /\ UNCHANGED <<device, driver, head, busy, status, panicked>>

\* Faulty variant: the descriptors allocated so far are not given back.
NoDescriptorsLeaking(t) ==
  /\ pc[t] = "start" /\ ~intr /\ Cardinality(free) < 3
  /\ free' = {}
  /\ pc' = [pc EXCEPT ![t] = "nodesc"]
  /\ UNCHANGED <<device, next, addr, b, seen, intr, head, busy, status, moved, panicked>>

\* alloc3_desc() fails, and wakes the other sleepers by giving back what it got.
NoDescriptors(t) ==
  /\ pc[t] = "start" /\ ~intr /\ Cardinality(free) < 3
  /\ pc' = [IF free = {} THEN pc ELSE WakeAllocators(pc) EXCEPT ![t] = "nodesc"]
  /\ UNCHANGED <<device, driver, head, busy, status, moved, panicked>>

\* The descriptors alloc_desc() finds, in the order it finds them.
Lowest(S) == CHOOSE d \in S : \A e \in S : d <= e

Submit(t) ==
  /\ pc[t] = "start" /\ ~intr /\ Cardinality(free) >= 3
  /\ LET d0 == Lowest(free)
         d1 == Lowest(free \ {d0})
         d2 == Lowest(free \ {d0, d1})
     IN  /\ free' = free \ {d0, d1, d2}
         /\ next' = [next EXCEPT ![d0] = d1, ![d1] = d2, ![d2] = None]
         /\ addr' = [addr EXCEPT ![d1] = t]
         /\ status' = [status EXCEPT ![d0] = 255]
         /\ b' = [b EXCEPT ![d0] = t]
         /\ ring' = [ring EXCEPT ![availIdx % NUM] = d0]
         /\ head' = [head EXCEPT ![t] = d0]
  /\ availIdx' = Inc(availIdx)
  /\ busy' = [busy EXCEPT ![t] = TRUE]
  /\ pc' = [pc EXCEPT ![t] = "wait"]
  /\ UNCHANGED <<fetched, usedRing, usedIdx, inflight, irq, seen, intr, moved, panicked>>

\* The descriptors of a chain, as free_chain() follows it.
Chain(d) == {d, next[d], IF next[d] = None THEN None ELSE next[next[d]]} \ {None}

\* The call is over: free_chain(), and every free_desc() wakes allocators.
FreeChain(t) ==
  /\ b' = [b EXCEPT ![head[t]] = None]
  /\ panicked' = (Chain(head[t]) \cap free # {})
  /\ free' = free \cup Chain(head[t])
  /\ next' = [d \in Descs |-> IF d \in Chain(head[t]) THEN None ELSE next[d]]
  /\ addr' = [d \in Descs |-> IF d \in Chain(head[t]) THEN None ELSE addr[d]]
  /\ head' = [head EXCEPT ![t] = 0]
  /\ pc' = [WakeAllocators(pc) EXCEPT ![t] = "idle"]
  /\ UNCHANGED <<device, seen, intr, busy, status, moved>>

\* Faulty variant: one sleep instead of a loop.
FinishUnchecked(t) ==
  pc[t] = "check" /\ ~intr /\ FreeChain(t)

\* After a wakeup: sleep again while b->disk is set.
Finish(t) ==
  /\ pc[t] = "check" /\ ~intr
  /\ \/ ~busy[t] /\ FreeChain(t)
     \/ /\ busy[t]
        /\ pc' = [pc EXCEPT ![t] = "wait"]
        /\ UNCHANGED <<device, driver, head, busy, status, moved, panicked>>

\* kill() wakes a thread whatever it sleeps for.
Kill(t) ==
  /\ pc[t] \in {"nodesc", "wait"}
  /\ pc' = [pc EXCEPT ![t] = IF @ = "wait" THEN "check" ELSE "start"]
  /\ UNCHANGED <<device, driver, head, busy, status, moved, panicked>>

-----------------------------------------------------------------------------
(* The device. *)

Fetch ==
  /\ fetched # availIdx
  /\ inflight' = inflight \cup {ring[fetched % NUM]}
  /\ ring' = [ring EXCEPT ![fetched % NUM] = 0]
  /\ fetched' = Inc(fetched)
  /\ UNCHANGED <<availIdx, usedRing, usedIdx, irq, driver, callers, status, moved, panicked>>

\* Transfers the data of the buffer in the chain's second descriptor.
Complete(d) ==
  /\ d \in inflight
  /\ moved' = [t \in Threads |->
                 IF next[d] # None /\ addr[next[d]] = t THEN moved[t] + 1 ELSE moved[t]]
  /\ status' = [status EXCEPT ![d] = 0]
  /\ usedRing' = [usedRing EXCEPT ![usedIdx % NUM] = d]
  /\ usedIdx' = Inc(usedIdx)
  /\ inflight' = inflight \ {d}
  /\ irq' = TRUE
  /\ UNCHANGED <<ring, availIdx, fetched, driver, callers, panicked>>

-----------------------------------------------------------------------------
(* virtio_disk_intr() *)

IntrAck ==
  /\ irq /\ ~intr
  /\ irq' = FALSE /\ intr' = TRUE
  /\ UNCHANGED <<ring, availIdx, fetched, usedRing, usedIdx, inflight,
                 free, next, addr, b, seen, callers, status, moved, panicked>>

\* Faulty variant: the index is incremented first.
IntrLoopAhead ==
  /\ intr /\ seen # usedIdx
  /\ LET id == usedRing[Inc(seen) % NUM]
         t  == b[id]
     IN  /\ panicked' = (status[id] # 0 \/ t = None)
         /\ busy' = [u \in Threads |-> busy[u] /\ u # t]
         /\ pc' = [u \in Threads |-> IF u = t /\ pc[u] = "wait" THEN "check" ELSE pc[u]]
  /\ usedRing' = [usedRing EXCEPT ![seen % NUM] = 0]
  /\ seen' = Inc(seen)
  /\ UNCHANGED <<ring, availIdx, fetched, usedIdx, inflight, irq,
                 free, next, addr, b, intr, head, status, moved>>

IntrLoop ==
  /\ intr /\ seen # usedIdx
  /\ LET id == usedRing[seen % NUM]
         t  == b[id]
     IN  /\ panicked' = (status[id] # 0 \/ t = None)
         /\ busy' = [u \in Threads |-> busy[u] /\ u # t]
         /\ pc' = [u \in Threads |-> IF u = t /\ pc[u] = "wait" THEN "check" ELSE pc[u]]
  /\ usedRing' = [usedRing EXCEPT ![seen % NUM] = 0]
  /\ seen' = Inc(seen)
  /\ UNCHANGED <<ring, availIdx, fetched, usedIdx, inflight, irq,
                 free, next, addr, b, intr, head, status, moved>>

\* Faulty variant: some completions may be left for the next interrupt.
IntrReturnEarly ==
  /\ intr
  /\ intr' = FALSE
  /\ UNCHANGED <<device, free, next, addr, b, seen, callers, status, moved, panicked>>

IntrReturn ==
  /\ intr /\ seen = usedIdx
  /\ intr' = FALSE
  /\ UNCHANGED <<device, free, next, addr, b, seen, callers, status, moved, panicked>>

-----------------------------------------------------------------------------
Interrupt == IntrAck \/ IntrLoop \/ IntrReturn

Next ==
  \/ \E t \in Threads :
       Call(t) \/ NoDescriptors(t) \/ Submit(t) \/ Finish(t) \/ Kill(t)
  \/ Fetch \/ \E d \in Descs : Complete(d)
  \/ Interrupt

Spec == Init /\ [][Next]_vars

(***************************************************************************)
(* The device works through its requests.  Threads and the handler compete *)
(* for vdisk_lock: each gets it if it could have it again and again.       *)
(***************************************************************************)
Fairness ==
  /\ WF_vars(Fetch) /\ \A d \in Descs : WF_vars(Complete(d))
  /\ SF_vars(Interrupt)
  /\ \A t \in Threads : SF_vars(Submit(t) \/ (Finish(t) /\ ~busy[t]))

FairSpec == Spec /\ Fairness

-----------------------------------------------------------------------------
TypeOK ==
  /\ free \in SUBSET Descs
  /\ next \in [Descs -> Descs \cup {None}] /\ addr \in [Descs -> Threads \cup {None}]
  /\ b \in [Descs -> Threads \cup {None}] /\ status \in [Descs -> {0, 255}]
  /\ ring \in [Descs -> Descs] /\ usedRing \in [Descs -> Descs]
  /\ \A x \in {availIdx, fetched, usedIdx, seen} : x \in 0..Wrap - 1
  /\ inflight \in SUBSET Descs
  /\ irq \in BOOLEAN /\ intr \in BOOLEAN /\ panicked \in BOOLEAN
  /\ pc \in [Threads -> {"idle", "start", "nodesc", "wait", "check"}]
  /\ head \in [Threads -> Descs] /\ busy \in [Threads -> BOOLEAN]
  /\ moved \in [Threads -> Nat]

(***************************************************************************)
(* No panic: the handler only sees finished requests of threads that still *)
(* wait, and free_desc() never gets a free descriptor.                     *)
(***************************************************************************)
NoPanic == ~panicked

(***************************************************************************)
(* The descriptors in use are exactly the chains of the calls in progress, *)
(* three for each: none leaks, none is in two chains.                      *)
(***************************************************************************)
Waiting == {t \in Threads : pc[t] \in {"wait", "check"}}
NoDescriptorLeak ==
  /\ Descs \ free = UNION {Chain(head[t]) : t \in Waiting}
  /\ Cardinality(free) = NUM - 3 * Cardinality(Waiting)

(***************************************************************************)
(* When virtio_disk_rw() returns, the device has made the transfer for its *)
(* buffer, and made it once: completions out of order, woken sleepers and  *)
(* reused descriptors never mix up two requests.                           *)
(***************************************************************************)
ReturnsAfterTransfer ==
  [][\A t \in Threads : pc[t] = "check" /\ pc'[t] = "idle" => moved[t] = 1]_vars

(***************************************************************************)
(* The race the handler's comment calls harmless is: every call returns    *)
(* although completions may be added while the handler runs, and although  *)
(* threads may run out of descriptors.                                     *)
(***************************************************************************)
RequestsReturn ==
  \A t \in Threads : pc[t] # "idle" ~> pc[t] = "idle"
=============================================================================
