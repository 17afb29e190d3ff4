------------------------------ MODULE Annealing ------------------------------
(***************************************************************************)
(* sched_algo_sa.c: processes are assigned to processors by simulated      *)
(* annealing.  The temperature is the number of rounds left; the random    *)
(* choices, of the neighbour and of taking a worse one, are free.          *)
(***************************************************************************)
EXTENDS Workload, SequencesExt

CONSTANTS processors, Rounds

ASSUME AnnealingAssumption == processors \in Nat \ {0} /\ Rounds \in Nat

VARIABLES current, best, best_interval, rounds

Cpus == 0..processors - 1

\* calculate_metrics(): each processor runs its processes in list order.
Metrics(assignments) ==
  FoldLeft(LAMBDA m, p :
             LET c == assignments[p]
                 start == IF m.load[c] > at[p] THEN m.load[c] ELSE at[p]
             IN  [load |-> [m.load EXCEPT ![c] = start + bt[p]],
                  ct |-> [m.ct EXCEPT ![p] = start + bt[p]]],
           [load |-> [c \in Cpus |-> 0], ct |-> ct], Ids)

Interval(assignments) == Max(Range(Metrics(assignments).load))

SaInit ==
  /\ CreateProcesses
  /\ current = [p \in Pids |-> (p - 1) % processors]
  /\ best = current /\ best_interval = Interval(current)
  /\ rounds = Rounds

\* generate_neighbor(): two processes change places.  With a single process it
\* searches for a second one for ever, and there is no next round.
Neighbours == {[current EXCEPT ![p] = current[q], ![q] = current[p]] :
                 <<p, q>> \in {e \in Pids \X Pids : e[1] # e[2]}}

\* (For contrast: the best interval is kept without its assignments.)
RememberNot(a, interval) ==
  IF interval < best_interval
    THEN best_interval' = interval /\ UNCHANGED best
    ELSE UNCHANGED <<best, best_interval>>

Remember(a, interval) ==
  IF interval < best_interval
    THEN best' = a /\ best_interval' = interval
    ELSE UNCHANGED <<best, best_interval>>

\* (For contrast: the temperature stays.)
CoolNot == UNCHANGED rounds

Cool == rounds' = rounds - 1

\* A better neighbour is taken; another one may be.
SaRound ==
  /\ rounds > 0 /\ Cool
  /\ \E new \in Neighbours :
       LET current_interval == Interval(current)
           new_interval == Interval(new)
       IN  \/ current' = new /\ Remember(new, new_interval)
           \/ /\ new_interval >= current_interval
              /\ UNCHANGED current /\ Remember(current, current_interval)
  /\ UNCHANGED work

SaEnd ==
  /\ rounds = 0 /\ ~over
  /\ over' = TRUE /\ ct' = Metrics(best).ct
  /\ UNCHANGED <<at, bt, remain, now, current, best, best_interval, rounds>>

SaNext == SaRound \/ SaEnd
=============================================================================
