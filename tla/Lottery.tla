------------------------------- MODULE Lottery -------------------------------
(***************************************************************************)
(* sched_algo_lottery_existing.c (and _improved.c, the same program): in   *)
(* every unit of time one of the tickets of the processes that have        *)
(* arrived is drawn, and its process runs for the unit.                    *)
(***************************************************************************)
EXTENDS Workload

CONSTANT Tickets     \* numbers of tickets tried

ASSUME LotteryAssumption == Tickets \subseteq Nat

VARIABLES tt,   \* the tickets of each process
          rt    \* when a process first ran, from its arrival

\* temp->completed is set together with ct.
Unfinished(p) == ct[p] = -1

\* (For contrast: processes that have not arrived take part.)
ActiveEarly == {p \in Pids : Unfinished(p)}

Active == {p \in Pids : Unfinished(p) /\ at[p] <= now}

TicketsUpTo(p) == FoldFunctionOnSet(+, 0, tt, {q \in Active : q <= p})

\* calculate_total_tickets()
total_tickets == TicketsUpTo(N)

LotteryInit ==
  CreateProcesses /\ tt \in [Pids -> Tickets] /\ rt = [p \in Pids |-> -1]

\* lottery_draw(): the first process whose tickets reach the winning one.
Winner(ticket) == Min({p \in Active : TicketsUpTo(p) >= ticket})

Response(p) == IF rt[p] = -1 THEN now - at[p] ELSE rt[p]

\* A process that needed no time at all goes below zero, and never completes; it
\* is followed to -1.
LotteryRound ==
  /\ \E ticket \in 1..total_tickets :
       LET p == Winner(ticket)
       IN  /\ remain[p] >= 0
           /\ Serve(p, now, 1)
           /\ rt' = [rt EXCEPT ![p] = Response(p)]
  /\ UNCHANGED <<over, tt>>

\* No tickets: time passes.
LotteryIdle ==
  /\ total_tickets = 0 /\ \E p \in Pids : Unfinished(p)
  /\ now < MaxTime /\ now' = now + 1
  /\ UNCHANGED <<at, bt, remain, ct, over, tt, rt>>

LotteryEnd ==
  /\ \A p \in Pids : ~Unfinished(p)
  /\ ~over /\ over' = TRUE
  /\ UNCHANGED <<at, bt, remain, ct, now, tt, rt>>

LotteryNext == LotteryRound \/ LotteryIdle \/ LotteryEnd
=============================================================================
