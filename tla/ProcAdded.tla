----------------------------- MODULE ProcAdded ------------------------------
(***************************************************************************)
(* The sfork() call added to kernel/proc.c, inside the process table.      *)
(***************************************************************************)
EXTENDS Proc

\* sfork(): allocproc() returned with the child's lock held.  The copied context
\* is the one the parent last saved in sched(), so that the child would resume
\* where the parent did; the lock is never released, and it is not resumed.
Sfork(c, p) ==
  /\ MayCall(c, p) /\ nextpid <= MaxPid
  /\ \E q \in Procs :
       /\ state[q] = "UNUSED" /\ lock[q] = None
       /\ lock' = [lock EXCEPT ![q] = c]
       /\ pid' = [pid EXCEPT ![q] = nextpid]
       /\ parent' = [parent EXCEPT ![q] = p]
       /\ state' = [state EXCEPT ![q] = "RUNNABLE"]
       /\ pc' = [pc EXCEPT ![q] = "user"]
  /\ nextpid' = nextpid + 1
  /\ UNCHANGED <<chan, killed, wait_lock, sched, local, panicked>>

SforkNext == Next \/ \E c \in CPUs, p \in Procs : Sfork(c, p)
SforkSpec == Init /\ [][SforkNext]_vars
=============================================================================
