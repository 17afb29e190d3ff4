----------------------------- MODULE AtomicDisk -----------------------------
(***************************************************************************)
(* What kernel/log.c promises to the file system above it: groups of       *)
(* block writes made by overlapping system calls become durable together,  *)
(* at a moment when no system call is in progress, and a crash takes the   *)
(* system back to the last such moment.  Nothing here mentions a log.      *)
(***************************************************************************)

CONSTANTS Ops,      \* threads that make file-system calls
          Blocks,   \* block numbers
          Values,   \* block contents
          InitVal   \* contents of every block of a fresh file system

VARIABLES durable,  \* contents a reboot would bring back
          view,     \* contents the running system calls see
          active    \* calls between begin_op() and end_op()

vars == <<durable, view, active>>

Init ==
  /\ durable = [b \in Blocks |-> InitVal]
  /\ view = durable
  /\ active = {}

Begin(op) ==
  /\ op \notin active
  /\ active' = active \cup {op}
  /\ UNCHANGED <<durable, view>>

Write(b, v) ==
  /\ active # {}
  /\ view' = [view EXCEPT ![b] = v]
  /\ UNCHANGED <<durable, active>>

End(op) ==
  /\ op \in active
  /\ active' = active \ {op}
  /\ UNCHANGED <<durable, view>>

\* Everything written so far becomes durable in one step.
Commit ==
  /\ active = {}
  /\ durable' = view
  /\ UNCHANGED <<view, active>>

Crash ==
  /\ view' = durable
  /\ active' = {}
  /\ UNCHANGED durable

Next ==
  \/ \E op \in Ops : Begin(op) \/ End(op)
  \/ \E b \in Blocks, v \in Values : Write(b, v)
  \/ Commit
  \/ Crash

Spec == Init /\ [][Next]_vars
=============================================================================
