-------------------------------- MODULE Mlfq --------------------------------
(***************************************************************************)
(* sched_algo_mlfq_existing.c: a multi-level feedback queue.  All          *)
(* processes start in the first level; one that uses up its quantum moves  *)
(* down a level.  The list is sorted by arrival: bubble_sort() leaves such *)
(* a list alone and breaks the links of any other.                         *)
(***************************************************************************)
EXTENDS Workload

CONSTANTS Quantum,   \* the quantum of each level
          MAX        \* the length of a queue's array

ASSUME MlfqAssumption == MAX \in Nat /\ MAX >= N

VARIABLES queue, lost

Levels == 1..Len(Quantum)

Enqueue(q, p) == IF q.rear = MAX - 1 THEN q ELSE Append1(q, p)

Sorted == \A p, q \in Pids : p < q => at[p] <= at[q]

MlfqInit ==
  /\ CreateProcesses /\ Sorted
  /\ queue = [i \in Levels |-> IF i = 1 THEN [items |-> Ids, rear |-> Len(Ids) - 1] ELSE Empty]
  /\ lost = {}

Waiting == {i \in Levels : queue[i].items # <<>>}

\* One turn of the inner loop, for the first level that is not empty: lower
\* levels only receive processes from the ones above.
MlfqRun ==
  /\ Waiting # {}
  /\ LET i == Min(Waiting)
         p == Head(queue[i].items)
         start == IF at[p] > now THEN at[p] ELSE now
         left == [queue EXCEPT ![i] = Dequeue(@)]
         next == IF i < Len(Quantum) THEN i + 1 ELSE i
     IN  /\ Serve(p, start, Slice(remain[p], Quantum[i]))
         /\ IF remain[p] <= Quantum[i]
              THEN queue' = left /\ UNCHANGED lost
              ELSE /\ queue' = [left EXCEPT ![next] = Enqueue(@, p)]
                   /\ lost' = IF queue'[next] = left[next] THEN lost \cup {p} ELSE lost
  /\ UNCHANGED over

\* The queues are empty, and the next pass finds nothing to do.
MlfqEnd ==
  /\ Waiting = {} /\ ~over
  /\ over' = TRUE /\ now' = now + 1
  /\ UNCHANGED <<at, bt, remain, ct, queue, lost>>

MlfqNext == MlfqRun \/ MlfqEnd

Queued(p) == {e \in Levels \X (1..N) :
                e[2] <= Len(queue[e[1]].items) /\ queue[e[1]].items[e[2]] = p}
=============================================================================
