------------------------------ MODULE Workload ------------------------------
(***************************************************************************)
(* What the scheduling simulators share: the list of processes read by     *)
(* create_process(), the clock, and the time each process still needs and  *)
(* completed at.  Processes are listed in the order of their numbers; a    *)
(* list has at least one.                                                  *)
(***************************************************************************)
EXTENDS Integers, Sequences, FiniteSetsExt, Functions

CONSTANTS N,            \* bound: processes in the list
          Arrivals,     \* arrival times tried
          Bursts,       \* burst times tried
          MaxTime       \* bound: when a program stops waiting for processes

ASSUME WorkloadAssumption ==
  N \in Nat \ {0} /\ Arrivals \subseteq Nat /\ Bursts \subseteq Nat /\ MaxTime \in Nat

VARIABLES at, bt, remain, ct, now, over

work == <<at, bt, remain, ct, now, over>>

Pids == DOMAIN at
Ids == [k \in Pids |-> k]

CreateProcesses ==
  /\ \E processes \in 1..N : /\ at \in [1..processes -> Arrivals]
                             /\ bt \in [1..processes -> Bursts]
  /\ remain = bt /\ ct = [p \in Pids |-> -1]
  /\ now = 0 /\ over = FALSE

\* A process runs for the quantum, or as long as it needs.
Slice(need, quantum) == IF need <= quantum THEN need ELSE quantum

\* p runs for t units from time start on.
Serve(p, start, t) ==
  /\ now' = start + t
  /\ remain' = [remain EXCEPT ![p] = @ - t]
  /\ ct' = [ct EXCEPT ![p] = IF remain[p] = t THEN start + t ELSE @]
  /\ UNCHANGED <<at, bt>>

\* A queue in an array: what is between front and rear, and rear.
Empty == [items |-> <<>>, rear |-> -1]

\* (For contrast: the last element stays.)
DequeueButLast(q) == IF Len(q.items) = 1 THEN q
                     ELSE [items |-> Tail(q.items), rear |-> q.rear]

Dequeue(q) == [items |-> Tail(q.items),
               rear |-> IF Len(q.items) = 1 THEN -1 ELSE q.rear]
Append1(q, p) == [items |-> Append(q.items, p), rear |-> q.rear + 1]

tat(p) == ct[p] - at[p]
wt(p) == tat(p) - bt[p]
=============================================================================
