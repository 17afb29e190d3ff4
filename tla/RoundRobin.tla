----------------------------- MODULE RoundRobin -----------------------------
(***************************************************************************)
(* sched_algo_mlfqs_improved.c: rr(), and sjf() after it.  enqueue() adds  *)
(* every process that has arrived and is not in the queue.  On an empty    *)
(* queue its search starts at queue[-1], which is outside the array and    *)
(* may hold the number of any process.                                     *)
(***************************************************************************)
EXTENDS Workload, SequencesExt

CONSTANT time_quantum_rr

VARIABLES fifo,
          scan     \* the last call of enqueue(): its time, and what queue[-1] held

Add(q, p, outside) ==
  IF p \in Range(q.items) \/ (q.items = <<>> /\ p = outside) THEN q ELSE Append1(q, p)

\* enqueue(), which finds s; pid is 0 for none.
EnqueueArrived(q, pid, left, s) ==
  LET arrived == FoldLeft(LAMBDA r, p : IF at[p] <= s.time /\ left[p] > 0
                                          THEN Add(r, p, s.outside) ELSE r,
                          q, Ids)
  IN  IF pid = 0 THEN arrived ELSE Add(arrived, pid, s.outside)

\* What it may find at a time.
Scans(t) == [time : {t}, outside : {0} \cup Pids]

RrInit ==
  /\ CreateProcesses
  /\ scan \in Scans(0) /\ fifo = EnqueueArrived(Empty, 0, remain, scan)

Completed == \A p \in Pids : remain[p] = 0

\* A turn of the loop in rr() with a process in the queue.
RrRun ==
  /\ ~Completed /\ fifo.items # <<>>
  /\ LET p == Head(fifo.items)
     IN  /\ Serve(p, now, Slice(remain[p], time_quantum_rr))
         /\ IF remain[p] <= time_quantum_rr
              THEN fifo' = Dequeue(fifo) /\ UNCHANGED scan
              ELSE /\ scan' \in Scans(now')
                   /\ fifo' = EnqueueArrived(Dequeue(fifo), p, remain', scan')
  /\ UNCHANGED over

\* A turn of the loop with an empty queue.
RrIdle ==
  /\ ~Completed /\ fifo.items = <<>> /\ now < MaxTime
  /\ now' = now + 1
  /\ scan' \in Scans(now') /\ fifo' = EnqueueArrived(Empty, 0, remain, scan')
  /\ UNCHANGED <<at, bt, remain, ct, over>>

\* rr() returns when all processes have completed, so that sjf() finds none.
Sjf ==
  /\ Completed /\ ~over
  /\ over' = TRUE
  /\ UNCHANGED <<at, bt, remain, ct, now, fifo, scan>>

RrNext == RrRun \/ RrIdle \/ Sjf
=============================================================================
