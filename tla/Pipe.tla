-------------------------------- MODULE Pipe --------------------------------
(***************************************************************************)
(* kernel/pipe.c: readers and writers of one pipe, any of which may be     *)
(* killed, and the closing of its two ends.  sleep() releases the lock and *)
(* blocks in one step, as Proc shows it does for every waker that holds    *)
(* the lock.  nread and nwrite are unsigned and wrap.  A byte that has been *)
(* read is forgotten, as nothing reads its place before it is written.      *)
(***************************************************************************)
EXTENDS Integers, Sequences, FiniteSets

CONSTANTS Writers, Readers,  \* threads with a descriptor for one end
          None,
          Bytes,
          PIPESIZE,
          Wrap,              \* 2^32 in the code; a multiple of PIPESIZE
          MaxCount           \* largest n passed to pipewrite() and piperead()

Threads == Writers \cup Readers

ASSUME PipeAssumption ==
  /\ PIPESIZE \in Nat \ {0} /\ Wrap \in Nat /\ Wrap > PIPESIZE /\ Wrap % PIPESIZE = 0
  /\ MaxCount \in Nat /\ Bytes # {}
  /\ Writers # {} /\ Readers # {} /\ Writers \cap Readers = {} /\ None \notin Threads

VARIABLES
  data, nread, nwrite, readopen, writeopen, lock,  \* struct pipe
  freed,        \* kfree() was called on it
  pc, i, n,     \* where each thread is, and its loop variables
  open, killed

pipe == <<data, nread, nwrite, readopen, writeopen>>
vars == <<pipe, lock, freed, pc, i, n, open, killed>>

\* Any byte: what kalloc() leaves in the page.
Junk == CHOOSE b \in Bytes : TRUE

\* pipealloc()
Init ==
  /\ data = [j \in 0..PIPESIZE - 1 |-> Junk]
  /\ nread = 0 /\ nwrite = 0 /\ readopen = TRUE /\ writeopen = TRUE
  /\ lock = None /\ freed = FALSE
  /\ pc = [t \in Threads |-> "idle"]
  /\ i = [t \in Threads |-> 0] /\ n = [t \in Threads |-> 0]
  /\ open = [t \in Threads |-> TRUE]
  /\ killed = [t \in Threads |-> FALSE]

Plus(x, y) == (x + y) % Wrap

\* Faulty variant: the sum is compared before it wraps.
FullUnwrapped == nwrite = nread + PIPESIZE

Full == nwrite = Plus(nread, PIPESIZE)
Empty == nread = nwrite

\* The threads at the same end of the pipe.
Peers(t) == IF t \in Writers THEN Writers ELSE Readers

At(t, label) == lock = t /\ pc[t] = label
Goto(t, label) == pc' = [pc EXCEPT ![t] = label]

\* wakeup(&pi->nread) wakes readers, wakeup(&pi->nwrite) writers, which then
\* have to get the lock back.
Woken(p, S) == [t \in Threads |-> IF t \in S /\ p[t] = "asleep" THEN "lock" ELSE p[t]]

-----------------------------------------------------------------------------
\* A system call on the pipe by a thread that has not been killed.
Call(t, m) ==
  /\ pc[t] = "idle" /\ open[t] /\ ~killed[t]
  /\ n' = [n EXCEPT ![t] = m]
  /\ Goto(t, "lock")
  /\ UNCHANGED <<pipe, lock, freed, i, open, killed>>

\* acquire(&pi->lock), at the start of a call and at the end of sleep().
Acquire(t) ==
  /\ pc[t] = "lock" /\ lock = None
  /\ lock' = t
  /\ Goto(t, IF t \in Writers THEN "loop" ELSE "test")
  /\ UNCHANGED <<pipe, freed, i, n, open, killed>>

\* release(&pi->lock) and return.
Return(t, p) ==
  /\ lock' = None
  /\ pc' = [p EXCEPT ![t] = "idle"]
  /\ i' = [i EXCEPT ![t] = 0] /\ n' = [n EXCEPT ![t] = 0]

\* sleep(chan, &pi->lock)
Sleep(t) ==
  /\ At(t, "sleep")
  /\ lock' = None
  /\ pc' = Woken([pc EXCEPT ![t] = "asleep"], IF t \in Writers THEN Readers ELSE {})
  /\ UNCHANGED <<pipe, freed, i, n, open, killed>>

\* kill() does not take the pipe's lock.  Outside a call it only makes the
\* thread close its descriptor.
Kill(t) ==
  /\ open[t] /\ pc[t] # "idle" /\ ~killed[t]
  /\ killed' = [killed EXCEPT ![t] = TRUE]
  /\ pc' = Woken(pc, {t})
  /\ UNCHANGED <<pipe, lock, freed, i, n, open>>

-----------------------------------------------------------------------------
(* pipewrite() *)

\* The loop's test, and the test for a closed pipe or a killed caller.
WriteTest(t) ==
  /\ t \in Writers /\ At(t, "loop")
  /\ \/ /\ i[t] < n[t] /\ (~readopen \/ killed[t])
        /\ Return(t, pc)
     \/ /\ i[t] < n[t] /\ readopen /\ ~killed[t]
        /\ Goto(t, IF Full THEN "sleep" ELSE "copy")
        /\ UNCHANGED <<lock, i, n>>
     \/ /\ i[t] = n[t]
        /\ Return(t, Woken(pc, Readers))
  /\ UNCHANGED <<pipe, freed, open, killed>>

WriteByte(t, b) ==
  /\ t \in Writers /\ At(t, "copy")
  /\ data' = [data EXCEPT ![nwrite % PIPESIZE] = b]
  /\ nwrite' = Plus(nwrite, 1)
  /\ i' = [i EXCEPT ![t] = @ + 1]
  /\ Goto(t, "loop")
  /\ UNCHANGED <<nread, readopen, writeopen, lock, freed, n, open, killed>>

\* copyin() fails: the bytes written so far are reported.
CopyinFails(t) ==
  /\ t \in Writers /\ At(t, "copy")
  /\ Return(t, Woken(pc, Readers))
  /\ UNCHANGED <<pipe, freed, open, killed>>

-----------------------------------------------------------------------------
(* piperead() *)

ReadTest(t) ==
  /\ t \in Readers /\ At(t, "test")
  /\ IF Empty /\ writeopen
       THEN IF killed[t] THEN Return(t, pc)
                         ELSE Goto(t, "sleep") /\ UNCHANGED <<lock, i, n>>
       ELSE Goto(t, "loop") /\ UNCHANGED <<lock, i, n>>
  /\ UNCHANGED <<pipe, freed, open, killed>>

\* One byte leaves the pipe whether or not copyout() succeeds.
ReadByte(t) ==
  /\ t \in Readers /\ At(t, "loop") /\ i[t] < n[t] /\ ~Empty
  /\ data' = [data EXCEPT ![nread % PIPESIZE] = Junk]
  /\ nread' = Plus(nread, 1)
  /\ \/ i' = [i EXCEPT ![t] = @ + 1] /\ UNCHANGED <<lock, pc, n>>
     \/ Return(t, Woken(pc, Writers))
  /\ UNCHANGED <<nwrite, readopen, writeopen, freed, open, killed>>

\* Faulty variant: the final wakeup(&pi->nwrite) is missing.
ReadDoneSilent(t) ==
  /\ t \in Readers /\ At(t, "loop") /\ (i[t] = n[t] \/ Empty)
  /\ Return(t, pc)
  /\ UNCHANGED <<pipe, freed, open, killed>>

ReadDone(t) ==
  /\ t \in Readers /\ At(t, "loop") /\ (i[t] = n[t] \/ Empty)
  /\ Return(t, Woken(pc, Writers))
  /\ UNCHANGED <<pipe, freed, open, killed>>

-----------------------------------------------------------------------------
(* Closing. *)

\* fileclose(): the last reference to an end of the pipe goes on to pipeclose().
Fileclose(t) ==
  /\ pc[t] = "idle" /\ open[t]
  /\ open' = [open EXCEPT ![t] = FALSE]
  /\ IF \E u \in Peers(t) \ {t} : open[u] THEN UNCHANGED pc ELSE Goto(t, "close")
  /\ UNCHANGED <<pipe, lock, freed, i, n, killed>>

\* Faulty variant: each closer wakes its own side.
PipecloseOwnSide(t) ==
  /\ pc[t] = "close" /\ lock = None
  /\ writeopen' = (writeopen /\ t \notin Writers)
  /\ readopen' = (readopen /\ t \notin Readers)
  /\ pc' = Woken([pc EXCEPT ![t] = "idle"], Peers(t))
  /\ freed' = ~(readopen' \/ writeopen')
  /\ UNCHANGED <<data, nread, nwrite, lock, i, n, open, killed>>

\* Faulty variant: the first closer frees the pipe.
PipecloseEither(t) ==
  /\ pc[t] = "close" /\ lock = None
  /\ writeopen' = (writeopen /\ t \notin Writers)
  /\ readopen' = (readopen /\ t \notin Readers)
  /\ pc' = Woken([pc EXCEPT ![t] = "idle"], Threads \ Peers(t))
  /\ freed' = ~(readopen' /\ writeopen')
  /\ UNCHANGED <<data, nread, nwrite, lock, i, n, open, killed>>

\* Wakes the threads at the other end.
Pipeclose(t) ==
  /\ pc[t] = "close" /\ lock = None
  /\ writeopen' = (writeopen /\ t \notin Writers)
  /\ readopen' = (readopen /\ t \notin Readers)
  /\ pc' = Woken([pc EXCEPT ![t] = "idle"], Threads \ Peers(t))
  /\ freed' = ~(readopen' \/ writeopen')
  /\ UNCHANGED <<data, nread, nwrite, lock, i, n, open, killed>>

-----------------------------------------------------------------------------
InCall(t) ==
  \/ Acquire(t) \/ Sleep(t)
  \/ WriteTest(t) \/ (\E b \in Bytes : WriteByte(t, b)) \/ CopyinFails(t)
  \/ ReadTest(t) \/ ReadByte(t) \/ ReadDone(t)
  \/ Pipeclose(t)

Next ==
  \E t \in Threads :
    \/ \E m \in 1..MaxCount : Call(t, m)
    \/ InCall(t) \/ Kill(t) \/ Fileclose(t)

Spec == Init /\ [][Next]_vars

(***************************************************************************)
(* A thread in a call keeps executing, and gets the lock if it is free     *)
(* again and again.  A reader out of a call reads again or closes its end; *)
(* nothing is assumed of writers.                                          *)
(***************************************************************************)
Fairness ==
  /\ \A t \in Writers : SF_vars(InCall(t))
  /\ \A t \in Readers :
       SF_vars(InCall(t) \/ Fileclose(t) \/ \E m \in 1..MaxCount : Call(t, m))

FairSpec == Spec /\ Fairness

-----------------------------------------------------------------------------
TypeOK ==
  /\ data \in [0..PIPESIZE - 1 -> Bytes]
  /\ nread \in 0..Wrap - 1 /\ nwrite \in 0..Wrap - 1
  /\ readopen \in BOOLEAN /\ writeopen \in BOOLEAN /\ freed \in BOOLEAN
  /\ lock \in Threads \cup {None}
  /\ pc \in [Threads -> {"idle", "lock", "test", "loop", "copy", "sleep", "asleep", "close"}]
  /\ i \in [Threads -> 0..MaxCount] /\ n \in [Threads -> 0..MaxCount]
  /\ open \in [Threads -> BOOLEAN] /\ killed \in [Threads -> BOOLEAN]

Count == (nwrite - nread) % Wrap

\* The bytes between the two indices, oldest first.
Queue == [j \in 1..Count |-> data[(nread + j - 1) % PIPESIZE]]

B == INSTANCE ByteStream WITH queue <- Queue, Capacity <- PIPESIZE

(***************************************************************************)
(* The pipe is a bounded first-in first-out queue, across the wrap of both *)
(* indices and with several readers and writers: no byte is lost between   *)
(* the ends, duplicated, reordered or overwritten.                         *)
(***************************************************************************)
Fifo == B!Spec

(***************************************************************************)
(* No wakeup is lost: outside the lock a writer sleeps only if the pipe is *)
(* full and has readers, a reader only if it is empty and has writers.     *)
(* A writer killed in the middle of a call returns without wakeup(), so    *)
(* after that readers may sleep although there is data.                    *)
(***************************************************************************)
SleepersHaveReason ==
  lock = None =>
    \A t \in Threads : pc[t] = "asleep" =>
      IF t \in Writers THEN Full /\ readopen
      ELSE writeopen /\ (Empty \/ \E u \in Writers : killed[u])

(***************************************************************************)
(* pipeclose() frees the pipe only when no thread can still use it, and    *)
(* the page is freed once: the two last closers may race.                  *)
(***************************************************************************)
FreedWhenUnused ==
  freed <=> \A t \in Threads : ~open[t] /\ pc[t] # "close"

(***************************************************************************)
(* As long as each reader keeps reading or closes its end, every call on   *)
(* the pipe by a writer returns.                                           *)
(***************************************************************************)
WritesReturn ==
  \A t \in Writers : pc[t] # "idle" ~> pc[t] = "idle"
=============================================================================
