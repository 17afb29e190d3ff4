-------------------------------- MODULE Proc --------------------------------
(***************************************************************************)
(* The process table of kernel/proc.c: the per-CPU scheduler, the hand-off *)
(* of p->lock through swtch(), sleep() and wakeup(), fork(), exit(),       *)
(* wait(), kill() and the timer.  A spin lock holds the CPU that owns it.  *)
(* A section that acquires and releases one p->lock without touching       *)
(* anything that lock does not protect is one step.  Closing files and     *)
(* copying memory appear only as the failures they can cause.              *)
(***************************************************************************)
EXTENDS Integers, FiniteSets

CONSTANTS CPUs,
          NPROC,
          None,
          KillPids,  \* pids that callers pass to kill()
          MaxPid     \* bound on allocpid()

Procs == 1..NPROC
initproc == 1

ASSUME ProcAssumption ==
  /\ NPROC \in Nat \ {0} /\ MaxPid \in Nat
  /\ KillPids \subseteq Nat
  /\ None \notin CPUs /\ None \notin Nat

VARIABLES
  state, chan, killed, parent, pid,  \* struct proc
  lock, wait_lock,                   \* the CPU that holds each spin lock
  cpu, si,       \* c->proc, and the scheduler's position in the table
  ctx,           \* is p's context saved ("off"), being entered, running, or left
  pc, k, w, np,  \* where p's kernel thread is; its loop indices; fork()'s child
  havekids, nextpid, panicked

slot == <<chan, killed, parent, pid>>
locks == <<lock, wait_lock>>
sched == <<cpu, si, ctx>>
local == <<k, w, np, havekids>>
vars == <<state, slot, locks, sched, pc, local, nextpid, panicked>>

-----------------------------------------------------------------------------
\* userinit(): the first process is runnable, every other slot is free.
Init ==
  /\ state = [p \in Procs |-> IF p = initproc THEN "RUNNABLE" ELSE "UNUSED"]
  /\ chan = [p \in Procs |-> None]
  /\ killed = [p \in Procs |-> FALSE]
  /\ parent = [p \in Procs |-> None]
  /\ pid = [p \in Procs |-> IF p = initproc THEN 1 ELSE 0]
  /\ lock = [p \in Procs |-> None] /\ wait_lock = None
  /\ cpu = [c \in CPUs |-> None] /\ si = [c \in CPUs |-> 1]
  /\ ctx = [p \in Procs |-> "off"]
  /\ pc = [p \in Procs |-> "user"]
  /\ k = [p \in Procs |-> 1] /\ w = [p \in Procs |-> 1]
  /\ np = [p \in Procs |-> None]
  /\ havekids = [p \in Procs |-> FALSE]
  /\ nextpid = 2 /\ panicked = FALSE

\* p's kernel thread, or its user code, runs on c.
On(c, p) == ~panicked /\ cpu[c] = p /\ ctx[p] = "run"

\* The spin locks c holds; wait_lock is 0.  Their number is c's noff.
Held(c) == {p \in Procs : lock[p] = c} \cup (IF wait_lock = c THEN {0} ELSE {})

\* usertrap(): a killed process makes no system call.
MayCall(c, p) == On(c, p) /\ pc[p] = "user" /\ ~killed[p]

Goto(p, label) == pc' = [pc EXCEPT ![p] = label]

-----------------------------------------------------------------------------
(* The scheduler and the context switch. *)

After(i) == IF i = NPROC THEN 1 ELSE i + 1

\* scheduler(): look at one slot; switch to it, keeping its lock.
Scheduler(c) ==
  /\ ~panicked /\ cpu[c] = None /\ lock[si[c]] = None
  /\ IF state[si[c]] = "RUNNABLE"
       THEN /\ state' = [state EXCEPT ![si[c]] = "RUNNING"]
            /\ lock' = [lock EXCEPT ![si[c]] = c]
            /\ cpu' = [cpu EXCEPT ![c] = si[c]]
            /\ ctx' = [ctx EXCEPT ![si[c]] = "in"]
            /\ UNCHANGED si
       ELSE /\ si' = [si EXCEPT ![c] = After(si[c])]
            /\ UNCHANGED <<state, lock, cpu, ctx>>
  /\ UNCHANGED <<slot, wait_lock, pc, local, nextpid, panicked>>

\* The thread comes back from swtch() in forkret(), yield() or sleep(); only
\* in sleep() is there a chan to clear.
Resume(c, p) ==
  /\ ~panicked /\ cpu[c] = p /\ ctx[p] = "in"
  /\ panicked' = (lock[p] # c)
  /\ lock' = [lock EXCEPT ![p] = None]
  /\ chan' = [chan EXCEPT ![p] = None]
  /\ ctx' = [ctx EXCEPT ![p] = "run"]
  /\ UNCHANGED <<state, killed, parent, pid, wait_lock, cpu, si, pc, local, nextpid>>

\* sched(): its panics, then swtch() to the scheduler.
Sched(c, p) ==
  /\ ctx' = [ctx EXCEPT ![p] = "out"]
  /\ panicked' = (lock'[p] # c \/ Cardinality(Held(c)') # 1 \/ state'[p] = "RUNNING")

\* Faulty variant: the scan starts over after each process.
SchedReturnToStart(c) ==
  /\ ~panicked /\ cpu[c] # None /\ ctx[cpu[c]] = "out"
  /\ cpu' = [cpu EXCEPT ![c] = None]
  /\ lock' = [lock EXCEPT ![cpu[c]] = None]
  /\ ctx' = [ctx EXCEPT ![cpu[c]] = "off"]
  /\ si' = [si EXCEPT ![c] = 1]
  /\ UNCHANGED <<state, slot, wait_lock, pc, local, nextpid, panicked>>

\* scheduler() after swtch() returns.
SchedReturn(c) ==
  /\ ~panicked /\ cpu[c] # None /\ ctx[cpu[c]] = "out"
  /\ cpu' = [cpu EXCEPT ![c] = None]
  /\ lock' = [lock EXCEPT ![cpu[c]] = None]
  /\ ctx' = [ctx EXCEPT ![cpu[c]] = "off"]
  /\ si' = [si EXCEPT ![c] = After(si[c])]
  /\ UNCHANGED <<state, slot, wait_lock, pc, local, nextpid, panicked>>

\* The timer interrupts user code, and kernel code with interrupts on.
Preemptible(c, p) == pc[p] = "user" \/ Held(c) = {}

Yield(c, p) ==
  /\ On(c, p) /\ Preemptible(c, p)
  /\ lock[p] = None /\ lock' = [lock EXCEPT ![p] = c]
  /\ state' = [state EXCEPT ![p] = "RUNNABLE"]
  /\ UNCHANGED <<slot, wait_lock, cpu, si, pc, local, nextpid>>
  /\ Sched(c, p)

-----------------------------------------------------------------------------
(* fork() *)

\* allocproc() takes a free slot; killed keeps the value the slot had.
Allocproc(q) ==
  /\ state[q] = "UNUSED" /\ lock[q] = None
  /\ state' = [state EXCEPT ![q] = "USED"]
  /\ pid' = [pid EXCEPT ![q] = nextpid]

Fork(c, p) ==
  /\ MayCall(c, p) /\ nextpid <= MaxPid
  /\ \E q \in Procs :
       /\ Allocproc(q)
       /\ np' = [np EXCEPT ![p] = q]
       /\ pc' = [pc EXCEPT ![p] = "fork_parent", ![q] = "user"]
  /\ nextpid' = nextpid + 1
  /\ UNCHANGED <<chan, killed, parent, locks, sched, k, w, havekids, panicked>>

\* Memory runs out in allocproc() or uvmcopy(): freeproc(np).
ForkFails(c, p) ==
  /\ MayCall(c, p) /\ nextpid <= MaxPid
  /\ \E q \in Procs :
       /\ state[q] = "UNUSED" /\ lock[q] = None
       /\ killed' = [killed EXCEPT ![q] = FALSE]
  /\ nextpid' = nextpid + 1
  /\ UNCHANGED <<state, chan, parent, pid, locks, sched, pc, local, panicked>>

ForkParent(c, p) ==
  /\ On(c, p) /\ pc[p] = "fork_parent" /\ wait_lock = None
  /\ parent' = [parent EXCEPT ![np[p]] = p]
  /\ Goto(p, "fork_run")
  /\ UNCHANGED <<state, chan, killed, pid, locks, sched, local, nextpid, panicked>>

ForkRun(c, p) ==
  /\ On(c, p) /\ pc[p] = "fork_run" /\ lock[np[p]] = None
  /\ state' = [state EXCEPT ![np[p]] = "RUNNABLE"]
  /\ np' = [np EXCEPT ![p] = None]
  /\ Goto(p, "user")
  /\ UNCHANGED <<slot, locks, sched, k, w, havekids, nextpid, panicked>>

-----------------------------------------------------------------------------
(* exit() *)

\* A call of exit(), or usertrap() finding the process killed.  init only
\* exits when killed, which panics.
Exit(c, p) ==
  /\ On(c, p) /\ pc[p] = "user" /\ (p = initproc => killed[p])
  /\ panicked' = (p = initproc)
  /\ Goto(p, "exit")
  /\ UNCHANGED <<state, slot, locks, sched, local, nextpid>>

ExitLock(c, p) ==
  /\ On(c, p) /\ pc[p] = "exit" /\ wait_lock = None
  /\ wait_lock' = c
  /\ k' = [k EXCEPT ![p] = 1]
  /\ Goto(p, "reparent")
  /\ UNCHANGED <<state, slot, lock, sched, w, np, havekids, nextpid, panicked>>

\* Faulty variant: the last slot is missed.
ReparentAllButLast(c, p) ==
  /\ On(c, p) /\ pc[p] = "reparent"
  /\ IF k[p] >= NPROC
       THEN /\ Goto(p, "wake_parent")
            /\ UNCHANGED <<parent, k>>
       ELSE /\ k' = [k EXCEPT ![p] = @ + 1]
            /\ IF parent[k[p]] = p
                 THEN /\ parent' = [parent EXCEPT ![k[p]] = initproc]
                      /\ Goto(p, "wake_init")
                 ELSE UNCHANGED <<parent, pc>>
  /\ w' = [w EXCEPT ![p] = 1]
  /\ UNCHANGED <<state, chan, killed, pid, locks, sched, np, havekids, nextpid, panicked>>

\* One iteration of reparent(), each adoption followed by wakeup(initproc).
Reparent(c, p) ==
  /\ On(c, p) /\ pc[p] = "reparent"
  /\ IF k[p] > NPROC
       THEN /\ Goto(p, "wake_parent")
            /\ UNCHANGED <<parent, k>>
       ELSE /\ k' = [k EXCEPT ![p] = @ + 1]
            /\ IF parent[k[p]] = p
                 THEN /\ parent' = [parent EXCEPT ![k[p]] = initproc]
                      /\ Goto(p, "wake_init")
                 ELSE UNCHANGED <<parent, pc>>
  /\ w' = [w EXCEPT ![p] = 1]
  /\ UNCHANGED <<state, chan, killed, pid, locks, sched, np, havekids, nextpid, panicked>>

\* Faulty variant: no sleeper matches.
WakeupNobody(c, p) ==
  /\ On(c, p) /\ pc[p] \in {"wake_init", "wake_parent"}
  /\ Goto(p, IF pc[p] = "wake_init" THEN "reparent" ELSE "zombie")
  /\ UNCHANGED <<state, slot, locks, sched, local, nextpid, panicked>>

\* One iteration of wakeup(), called by exit() and by reparent().
Wakeup(c, p) ==
  /\ On(c, p) /\ pc[p] \in {"wake_init", "wake_parent"}
  /\ LET q == w[p]
         target == IF pc[p] = "wake_init" THEN initproc ELSE parent[p] IN
       IF q > NPROC
         THEN /\ Goto(p, IF pc[p] = "wake_init" THEN "reparent" ELSE "zombie")
              /\ UNCHANGED <<state, w>>
         ELSE /\ q # p => lock[q] = None
              /\ state' = IF q # p /\ state[q] = "SLEEPING" /\ chan[q] = target
                            THEN [state EXCEPT ![q] = "RUNNABLE"] ELSE state
              /\ w' = [w EXCEPT ![p] = q + 1]
              /\ UNCHANGED pc
  /\ UNCHANGED <<slot, locks, sched, k, np, havekids, nextpid, panicked>>

\* Faulty variant: exit() switches away with wait_lock held.
ZombieKeepingLock(c, p) ==
  /\ On(c, p) /\ pc[p] = "zombie" /\ lock[p] = None
  /\ lock' = [lock EXCEPT ![p] = c]
  /\ state' = [state EXCEPT ![p] = "ZOMBIE"]
  /\ Goto(p, "user")
  /\ UNCHANGED <<slot, wait_lock, cpu, si, local, nextpid>>
  /\ Sched(c, p)

\* The end of exit(): a zombie, still on its stack until the switch.
Zombie(c, p) ==
  /\ On(c, p) /\ pc[p] = "zombie" /\ lock[p] = None
  /\ lock' = [lock EXCEPT ![p] = c]
  /\ state' = [state EXCEPT ![p] = "ZOMBIE"]
  /\ wait_lock' = None
  /\ Goto(p, "user")
  /\ UNCHANGED <<slot, cpu, si, local, nextpid>>
  /\ Sched(c, p)

-----------------------------------------------------------------------------
(* wait() *)

Wait(c, p) ==
  /\ MayCall(c, p)
  /\ Goto(p, "wait")
  /\ UNCHANGED <<state, slot, locks, sched, local, nextpid, panicked>>

\* acquire(&wait_lock), at the start of wait() and at the end of sleep().
WaitLock(c, p) ==
  /\ On(c, p) /\ pc[p] = "wait" /\ wait_lock = None
  /\ wait_lock' = c
  /\ k' = [k EXCEPT ![p] = 1]
  /\ havekids' = [havekids EXCEPT ![p] = FALSE]
  /\ Goto(p, "scan")
  /\ UNCHANGED <<state, slot, lock, sched, w, np, nextpid, panicked>>

\* Faulty variant: killed outlives the process.
FreeprocKeepingKilled(q) ==
  /\ state' = [state EXCEPT ![q] = "UNUSED"]
  /\ pid' = [pid EXCEPT ![q] = 0]
  /\ parent' = [parent EXCEPT ![q] = None]
  /\ chan' = [chan EXCEPT ![q] = None]
  /\ UNCHANGED killed

\* freeproc(q)
Freeproc(q) ==
  /\ state' = [state EXCEPT ![q] = "UNUSED"]
  /\ pid' = [pid EXCEPT ![q] = 0]
  /\ parent' = [parent EXCEPT ![q] = None]
  /\ chan' = [chan EXCEPT ![q] = None]
  /\ killed' = [killed EXCEPT ![q] = FALSE]

\* wait()'s loop over the table passes a slot that is not a zombie child.
WaitScan(c, p) ==
  /\ On(c, p) /\ pc[p] = "scan" /\ k[p] <= NPROC
  /\ \/ parent[k[p]] # p /\ UNCHANGED havekids
     \/ /\ parent[k[p]] = p /\ lock[k[p]] = None /\ state[k[p]] # "ZOMBIE"
        /\ havekids' = [havekids EXCEPT ![p] = TRUE]
  /\ k' = [k EXCEPT ![p] = @ + 1]
  /\ UNCHANGED <<state, slot, locks, sched, pc, w, np, nextpid, panicked>>

\* Faulty variant: wait() looks at the child without its lock.
FoundZombieUnlocked(c, p) ==
  /\ On(c, p) /\ pc[p] = "scan" /\ k[p] <= NPROC
  /\ parent[k[p]] = p /\ state[k[p]] = "ZOMBIE"

FoundZombie(c, p) ==
  /\ On(c, p) /\ pc[p] = "scan" /\ k[p] <= NPROC
  /\ parent[k[p]] = p /\ lock[k[p]] = None /\ state[k[p]] = "ZOMBIE"

Reap(c, p) ==
  /\ FoundZombie(c, p)
  /\ Freeproc(k[p])
  /\ wait_lock' = None
  /\ Goto(p, "user")
  /\ UNCHANGED <<lock, sched, local, nextpid, panicked>>

\* The status cannot be copied to the caller's address; init passes none.
CopyoutFails(c, p) ==
  /\ FoundZombie(c, p) /\ p # initproc
  /\ wait_lock' = None
  /\ Goto(p, "user")
  /\ UNCHANGED <<state, slot, lock, sched, local, nextpid, panicked>>

\* killed(p) is read, and its lock released, before sleep() takes the lock.
WaitDecide(c, p) ==
  /\ On(c, p) /\ pc[p] = "scan" /\ k[p] > NPROC /\ lock[p] = None
  /\ IF ~havekids[p] \/ killed[p]
       THEN wait_lock' = None /\ Goto(p, "user")
       ELSE UNCHANGED wait_lock /\ Goto(p, "sleep")
  /\ UNCHANGED <<state, slot, lock, sched, local, nextpid, panicked>>

\* sleep(p, &wait_lock)
Sleep(c, p) ==
  /\ On(c, p) /\ pc[p] = "sleep" /\ lock[p] = None
  /\ lock' = [lock EXCEPT ![p] = c]
  /\ wait_lock' = None
  /\ chan' = [chan EXCEPT ![p] = p]
  /\ state' = [state EXCEPT ![p] = "SLEEPING"]
  /\ Goto(p, "wait")
  /\ UNCHANGED <<killed, parent, pid, cpu, si, local, nextpid>>
  /\ Sched(c, p)

-----------------------------------------------------------------------------
(* kill() *)

Kill(c, p, n) ==
  /\ MayCall(c, p)
  /\ \E q \in Procs :
       /\ pid[q] = n /\ lock[q] = None
       /\ killed' = [killed EXCEPT ![q] = TRUE]
       /\ state' = IF state[q] = "SLEEPING" THEN [state EXCEPT ![q] = "RUNNABLE"] ELSE state
  /\ UNCHANGED <<chan, parent, pid, locks, sched, pc, local, nextpid, panicked>>

-----------------------------------------------------------------------------
Running(c, p) ==
  \/ Resume(c, p) \/ Yield(c, p)
  \/ Fork(c, p) \/ ForkFails(c, p) \/ ForkParent(c, p) \/ ForkRun(c, p)
  \/ Exit(c, p) \/ ExitLock(c, p) \/ Reparent(c, p) \/ Wakeup(c, p) \/ Zombie(c, p)
  \/ Wait(c, p) \/ WaitLock(c, p) \/ WaitScan(c, p)
  \/ Reap(c, p) \/ CopyoutFails(c, p) \/ WaitDecide(c, p) \/ Sleep(c, p)
  \/ \E n \in KillPids : Kill(c, p, n)

Next ==
  \E c \in CPUs : Scheduler(c) \/ SchedReturn(c) \/ \E p \in Procs : Running(c, p)

Spec == Init /\ [][Next]_vars

(***************************************************************************)
(* Every CPU keeps scheduling, the timer keeps interrupting user code      *)
(* however many system calls it makes, a process in the kernel gets on     *)
(* with it although it may be preempted there, and init keeps calling      *)
(* wait().  No process is assumed to fork, exit or wait by itself.         *)
(***************************************************************************)
Kernel(p) ==
  \E c \in CPUs :
    \/ ForkParent(c, p) \/ ForkRun(c, p)
    \/ ExitLock(c, p) \/ Reparent(c, p) \/ Wakeup(c, p) \/ Zombie(c, p)
    \/ WaitLock(c, p) \/ WaitScan(c, p) \/ Reap(c, p) \/ CopyoutFails(c, p)
    \/ WaitDecide(c, p) \/ Sleep(c, p)

Switching(c) == Scheduler(c) \/ SchedReturn(c) \/ \E p \in Procs : Resume(c, p)

Fairness ==
  /\ \A c \in CPUs :
       /\ WF_vars(Switching(c))
       /\ SF_vars(\E p \in Procs : pc[p] = "user" /\ Yield(c, p))
  /\ \A p \in Procs : SF_vars(Kernel(p))
  /\ SF_vars(\E c \in CPUs : Wait(c, initproc))

FairSpec == Spec /\ Fairness

-----------------------------------------------------------------------------
ProcState == {"UNUSED", "USED", "SLEEPING", "RUNNABLE", "RUNNING", "ZOMBIE"}
Labels == {"user", "fork_parent", "fork_run", "exit", "reparent", "wake_init",
           "wake_parent", "zombie", "wait", "scan", "sleep"}

TypeOK ==
  /\ state \in [Procs -> ProcState]
  /\ chan \in [Procs -> Procs \cup {None}]
  /\ killed \in [Procs -> BOOLEAN]
  /\ parent \in [Procs -> Procs \cup {None}]
  /\ pid \in [Procs -> Nat]
  /\ lock \in [Procs -> CPUs \cup {None}] /\ wait_lock \in CPUs \cup {None}
  /\ cpu \in [CPUs -> Procs \cup {None}] /\ si \in [CPUs -> Procs]
  /\ ctx \in [Procs -> {"off", "in", "run", "out"}]
  /\ pc \in [Procs -> Labels]
  /\ k \in [Procs -> 1..NPROC + 1] /\ w \in [Procs -> 1..NPROC + 1]
  /\ np \in [Procs -> Procs \cup {None}]
  /\ havekids \in [Procs -> BOOLEAN]
  /\ nextpid \in Nat /\ panicked \in BOOLEAN

(***************************************************************************)
(* The assertions of sched() and release() hold: a thread switches away    *)
(* holding exactly its own p->lock and comes back holding it, on every     *)
(* path through yield(), sleep() and exit().                               *)
(***************************************************************************)
NoPanic == ~panicked

(***************************************************************************)
(* A process runs on at most one CPU, and its slot is not free, or free    *)
(* for allocproc(), while some CPU is still on its kernel stack: wait()    *)
(* cannot reap a zombie that has not finished its last swtch().            *)
(***************************************************************************)
OneCpuPerStack ==
  \A c \in CPUs : cpu[c] # None =>
    /\ state[cpu[c]] \notin {"UNUSED", "USED"}
    /\ \A d \in CPUs \ {c} : cpu[d] # cpu[c]

(***************************************************************************)
(* wakeup() is not lost: once exit() has released wait_lock, the parent of *)
(* a zombie is not asleep in wait().                                       *)
(***************************************************************************)
NoLostWakeup ==
  wait_lock = None =>
    \A p, q \in Procs :
      parent[p] = q /\ state[p] = "ZOMBIE" => ~(state[q] = "SLEEPING" /\ chan[q] = q)

(***************************************************************************)
(* Every process is known to a process that can still wait for it: outside *)
(* wait_lock its parent is neither free nor a zombie, once fork() has set  *)
(* it; live processes have distinct pids.                                  *)
(***************************************************************************)
EveryoneHasParent ==
  /\ wait_lock = None =>
       \A p \in Procs \ {initproc} :
         \/ state[p] = "UNUSED"
         \/ state[p] = "USED" /\ \E q \in Procs : pc[q] = "fork_parent" /\ np[q] = p
         \/ parent[p] # None /\ state[parent[p]] \notin {"UNUSED", "USED", "ZOMBIE"}
  /\ \A p, q \in Procs : p # q /\ state[p] # "UNUSED" => pid[p] # pid[q]

(***************************************************************************)
(* As long as nobody calls kill(0), which matches the pid of every free    *)
(* slot and marks one of them, p->killed means that this process has been  *)
(* killed: a slot handed out by allocproc() does not carry the flag of an  *)
(* earlier process.  (The run kills pids from 1 on.)                       *)
(***************************************************************************)
BornAlive ==
  [][\A q \in Procs : state[q] = "UNUSED" /\ state'[q] = "USED" => ~killed'[q]]_vars

(***************************************************************************)
(* A zombie that init has to reap is reaped: the wakeup(initproc) of       *)
(* reparent() and of exit() is enough whatever init was doing meanwhile.   *)
(***************************************************************************)
OrphansReaped ==
  \A p \in Procs :
    (state[p] = "ZOMBIE" /\ parent[p] = initproc) ~> state[p] = "UNUSED"

(***************************************************************************)
(* scheduler()'s scan starves nobody: a runnable process gets to run.      *)
(***************************************************************************)
RunnableRuns ==
  \A p \in Procs : state[p] = "RUNNABLE" ~> state[p] = "RUNNING"
=============================================================================
