----------------------------- MODULE Simulators -----------------------------
(***************************************************************************)
(* The scheduling simulators side by side: a behaviour is a run of one of  *)
(* the programs on one list of processes.                                  *)
(***************************************************************************)
EXTENDS Mlfq, RoundRobin, Lottery, Annealing

VARIABLE program

own == <<queue, lost, fifo, scan, tt, rt, current, best, best_interval, rounds>>
vars == <<work, own, program>>

NoQueue == queue = <<>> /\ lost = {}
NoFifo == fifo = Empty /\ scan = [time |-> 0, outside |-> 0]
NoTickets == tt = <<>> /\ rt = <<>>
NoAssignment == current = <<>> /\ best = <<>> /\ best_interval = 0 /\ rounds = 0

Init ==
  \/ program = "mlfq" /\ MlfqInit /\ NoFifo /\ NoTickets /\ NoAssignment
  \/ program = "rr" /\ RrInit /\ NoQueue /\ NoTickets /\ NoAssignment
  \/ program = "lottery" /\ LotteryInit /\ NoQueue /\ NoFifo /\ NoAssignment
  \/ program = "sa" /\ SaInit /\ NoQueue /\ NoFifo /\ NoTickets

MlfqStep ==
  /\ program = "mlfq" /\ MlfqNext
  /\ UNCHANGED <<program, fifo, scan, tt, rt, current, best, best_interval, rounds>>

RrStep ==
  /\ program = "rr" /\ RrNext
  /\ UNCHANGED <<program, queue, lost, tt, rt, current, best, best_interval, rounds>>

LotteryStep ==
  /\ program = "lottery" /\ LotteryNext
  /\ UNCHANGED <<program, queue, lost, fifo, scan, current, best, best_interval, rounds>>

SaStep ==
  /\ program = "sa" /\ SaNext
  /\ UNCHANGED <<program, queue, lost, fifo, scan, tt, rt>>

Next == MlfqStep \/ RrStep \/ LotteryStep \/ SaStep

\* A program runs on until it ends.
Spec == Init /\ [][Next]_vars /\ WF_vars(Next)

-----------------------------------------------------------------------------
TypeOK ==
  /\ remain \in [Pids -> Int] /\ now \in Nat
  /\ ct \in [Pids -> Nat \cup {-1}]
  /\ over \in BOOLEAN /\ lost \subseteq Pids

Work == MapThenSumSet(LAMBDA p : bt[p] - remain[p], Pids)

(***************************************************************************)
(* A processor runs one process at a time.  The programs with one clock    *)
(* never give out more time than has passed since the first arrival; when  *)
(* sa ends, the processes of a processor do not overlap.  No process       *)
(* completes before it has arrived and run, and the response time of the   *)
(* lottery is part of the waiting time.                                    *)
(***************************************************************************)
OneAtATime ==
  /\ program # "sa" => Work <= Max({0, now - Min(Range(at))})
  /\ \A p \in Pids : ct[p] # -1 => ct[p] >= at[p] + bt[p]
  /\ program = "lottery" => \A p \in Pids : ct[p] # -1 => rt[p] \in 0..wt(p)
  /\ program = "sa" /\ over =>
       \A p, q \in Pids : p < q /\ best[p] = best[q] => ct[q] - bt[q] >= ct[p]

\* How often a process with this much to do runs, q units at a time.
Slices(need, q) == IF need <= 0 THEN 0 ELSE (need + q - 1) \div q

Above == MapThenSumSet(LAMBDA i : Quantum[i], Levels \ {Len(Quantum)})

(***************************************************************************)
(* No process is forgotten.  One that mlfq has not finished is in exactly  *)
(* one place of one queue unless it was dropped by an overflow, and none   *)
(* is dropped if the last array has room for every time slice spent in the *)
(* last level.  rr has a process in its queue at most once, and only while *)
(* it needs time; each call of enqueue() leaves every process that has     *)
(* arrived and needs time in the queue, but for the one it takes queue[-1] *)
(* for; and rear, which is never compared with the end of the array, moves *)
(* less often than there are time slices.  A program ends when all         *)
(* processes are done, except dropped ones.                                *)
(***************************************************************************)
NoneForgotten ==
  /\ program = "mlfq" =>
       /\ \A p \in Pids : Cardinality(Queued(p)) = IF ct[p] = -1 /\ p \notin lost THEN 1 ELSE 0
       /\ MapThenSumSet(LAMBDA p : Slices(bt[p] - Above, Quantum[Len(Quantum)]), Pids) <= MAX
            => lost = {}
  /\ program = "rr" =>
       /\ \A p \in Range(fifo.items) : remain[p] > 0
       /\ IsInjective(fifo.items)
       /\ \A p \in Pids : remain[p] > 0 /\ at[p] <= scan.time =>
                           p \in Range(fifo.items) \/ p = scan.outside
       /\ fifo.rear < Max({1, MapThenSumSet(LAMBDA p : Slices(bt[p], time_quantum_rr), Pids)})
  /\ over /\ program # "sa" => \A p \in Pids : remain[p] = 0 \/ p \in lost

(***************************************************************************)
(* The interval that sa prints is the one of the assignments it returns,   *)
(* and no current assignment was better.                                   *)
(***************************************************************************)
BestIsBest ==
  program = "sa" => /\ best_interval = Interval(best)
                    /\ best_interval <= Interval(current)

\* The lists of processes on which a program ends.
CanEnd ==
  CASE program = "mlfq" -> TRUE
    [] program = "rr" -> TRUE
    [] program = "lottery" -> \A p \in Pids : tt[p] > 0 /\ bt[p] > 0
    [] program = "sa" -> Cardinality(Pids) > 1

(***************************************************************************)
(* mlfq always ends; rr, unless queue[-1] holds the number of a process;   *)
(* the lottery, if and only if every process has a ticket and something to *)
(* do (its loop waits for a process that cannot win, and for one whose     *)
(* remaining time went below zero); sa, if and only if there are two       *)
(* processes for generate_neighbor() to choose.                            *)
(***************************************************************************)
Terminates ==
  /\ CanEnd /\ [](scan.outside = 0) => <>over
  /\ [](over => CanEnd)
=============================================================================
