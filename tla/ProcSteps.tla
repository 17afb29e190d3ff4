----------------------------- MODULE ProcSteps -----------------------------
(***************************************************************************)
(* The inductive invariant of Proc, and the steps of scheduler(), sched(), *)
(* fork() and the first half of exit() that preserve it, for every number  *)
(* of CPUs and of slots.  ProcProofs has the other steps and the theorems. *)
(***************************************************************************)
EXTENDS Proc, TLAPS

Dead == {"UNUSED", "USED", "ZOMBIE"}
ForkLabels == {"fork_parent", "fork_run"}
ReparentLabels == {"reparent", "wake_init"}
ChildlessLabels == {"wake_parent", "zombie"}
WaitLockLabels == ReparentLabels \cup ChildlessLabels \cup {"scan", "sleep"}

\* The hand-off: p->lock is held across swtch(), by the CPU that is on p's
\* stack, and by nobody between two steps otherwise.
HandOff ==
  /\ \A c \in CPUs : cpu[c] # None =>
       /\ ctx[cpu[c]] # "off"
       /\ ctx[cpu[c]] \in {"in", "out"} => lock[cpu[c]] = c
       /\ \A d \in CPUs \ {c} : cpu[d] # cpu[c]
  /\ \A p \in Procs :
       /\ ctx[p] # "off" => \E c \in CPUs : cpu[c] = p
       /\ lock[p] # None => cpu[lock[p]] = p /\ ctx[p] \in {"in", "out"}
       /\ ctx[p] \in {"in", "run"} => state[p] = "RUNNING"
       /\ ctx[p] = "out" => state[p] \in {"RUNNABLE", "SLEEPING", "ZOMBIE"}
       /\ ctx[p] = "off" => state[p] # "RUNNING"

\* wait_lock is held by the CPU whose process is in one of its sections, and
\* that process runs: it cannot be preempted there.
WaitLockHeld ==
  /\ wait_lock # None =>
       /\ cpu[wait_lock] # None /\ ctx[cpu[wait_lock]] = "run"
       /\ pc[cpu[wait_lock]] \in WaitLockLabels
  /\ \A p \in Procs : pc[p] \in WaitLockLabels =>
       wait_lock # None /\ cpu[wait_lock] = p

\* Where a thread can be in each state, and what it sleeps on.
Places ==
  \A p \in Procs :
    /\ state[p] \in Dead => pc[p] = "user"
    /\ state[p] = "SLEEPING" => pc[p] = "wait" /\ chan[p] = p

\* init is never freed, and the only panic is the one of a killed init.
InitLives ==
  /\ state[initproc] \notin Dead /\ pid[initproc] = 1
  /\ pc[initproc] \notin ReparentLabels \cup ChildlessLabels
  /\ panicked \/ pc[initproc] = "exit" => panicked /\ pc[initproc] = "exit" /\ killed[initproc]

\* A slot between allocproc() and the end of fork() is its forker's alone.
Forking ==
  /\ \A p \in Procs :
       /\ pc[p] \in ForkLabels => np[p] \in Procs /\ state[np[p]] = "USED"
       /\ pc[p] = "fork_parent" => parent[np[p]] = None
       /\ pc[p] = "fork_run" => parent[np[p]] = p
  /\ \A p, q \in Procs :
       pc[p] \in ForkLabels /\ pc[q] \in ForkLabels /\ np[p] = np[q] => p = q
  /\ \A j \in Procs : state[j] = "USED" =>
       \E p \in Procs : pc[p] \in ForkLabels /\ np[p] = j

\* Pids are given out once and cleared with the slot.
Pids ==
  /\ \A j \in Procs :
       IF state[j] = "UNUSED" THEN pid[j] = 0
                              ELSE pid[j] >= 1 /\ pid[j] < nextpid
  /\ \A i, j \in Procs : i # j /\ state[i] # "UNUSED" => pid[i] # pid[j]

\* A process that is not free has a parent that can still wait for it.
Parents ==
  \A j \in Procs :
    /\ state[j] = "UNUSED" => parent[j] = None
    /\ parent[j] # None => state[parent[j]] \notin Dead
    /\ j # initproc /\ state[j] \notin {"UNUSED", "USED"} => parent[j] # None

\* exit() has handed over the children below k to init, in the end all.
HandedOver ==
  \A p, j \in Procs : parent[j] = p =>
    /\ pc[p] \notin ChildlessLabels
    /\ pc[p] \in ReparentLabels => k[p] <= j

\* A zombie's parent is awake, or about to be woken by reparent().
ParentAwake ==
  \A j \in Procs :
    state[j] = "ZOMBIE" /\ parent[j] # None /\ state[parent[j]] = "SLEEPING" =>
      /\ parent[j] = initproc
      /\ \E p \in Procs : pc[p] = "wake_init" /\ w[p] <= initproc

\* exit() has woken the parent before it makes a zombie.
WokenFirst ==
  \A p \in Procs :
    /\ pc[p] = "wake_parent" /\ parent[p] # None /\ w[p] > parent[p] =>
         state[parent[p]] # "SLEEPING"
    /\ pc[p] = "zombie" /\ parent[p] # None => state[parent[p]] # "SLEEPING"

\* wait() has seen no zombie when it goes to sleep.
NoneMissed ==
  \A p, j \in Procs : parent[j] = p /\ state[j] = "ZOMBIE" =>
    pc[p] # "sleep" /\ (pc[p] = "scan" => k[p] <= j)

IInv ==
  /\ TypeOK /\ HandOff /\ WaitLockHeld /\ Places
  /\ InitLives /\ Forking /\ Pids /\ Parents /\ HandedOver
  /\ ParentAwake /\ WokenFirst /\ NoneMissed

LEMMA Basics ==
  /\ initproc \in Procs /\ None \notin Procs /\ 0 \notin Procs
  /\ None \notin CPUs
BY ProcAssumption DEF Procs, initproc

\* The loops over the table.
LEMMA Bounds ==
  /\ 1 \in 1..NPROC + 1
  /\ \A j \in Procs : 1 <= j /\ ~(1 > j)
  /\ \A i \in 1..NPROC + 1 :
       /\ i <= NPROC \/ ~(i > NPROC) => i \in Procs /\ i + 1 \in 1..NPROC + 1
       /\ i > NPROC => ~(i <= initproc)
       /\ \A j \in Procs : /\ i <= j /\ j # i => i + 1 <= j
                           /\ i + 1 > j => i > j \/ i = j
                           /\ i > NPROC => ~(i <= j) /\ i > j
BY ProcAssumption DEF Procs, initproc

LEMMA AfterType == \A i \in Procs : After(i) \in Procs
BY ProcAssumption DEF After, Procs

\* sched() counts the spin locks its CPU holds: one.
LEMMA OneLock ==
  ASSUME NEW x
  PROVE  Cardinality({x}) = 1
<1> DEFINE F(g) == [T \in SUBSET {x} |->
                      IF T = {} THEN 0 ELSE 1 + g[T \ {CHOOSE y : y \in T}]]
           CS == CHOOSE g : g = F(g)
           f == [T \in SUBSET {x} |-> IF T = {} THEN 0 ELSE 1]
<1>1. Cardinality({x}) = CS[{x}]
  BY Zenon DEF Cardinality
<1>2. \A T \in SUBSET {x} : T # {} => T \ {CHOOSE y : y \in T} = {}
  OBVIOUS
<1>3. f = F(f)
  BY <1>2
<1>4. CS = F(CS)
  BY <1>3, Zenon
<1>5. CS[{}] = 0
  BY <1>4, Zenon
<1>6. CS[{x}] = 1 + CS[{x} \ {CHOOSE y : y \in {x}}]
  BY <1>4, Zenon
<1>7. {x} \ {CHOOSE y : y \in {x}} = {}
  BY <1>2
<1>8. CS[{x}] = 1
  <2> HIDE DEF CS
  <2> QED
    BY <1>5, <1>6, <1>7
<1> QED
  BY <1>1, <1>8, Zenon

\* A step keeps each part of the invariant whose variables it leaves alone.
LEMMA HandOffKept ==
  HandOff /\ cpu' = cpu /\ ctx' = ctx /\ lock' = lock /\ state' = state => HandOff'
BY DEF HandOff

LEMMA WaitLockHeldKept ==
  WaitLockHeld /\ wait_lock' = wait_lock /\ cpu' = cpu /\ ctx' = ctx /\ pc' = pc => WaitLockHeld'
BY DEF WaitLockHeld

LEMMA PlacesKept ==
  Places /\ state' = state /\ pc' = pc /\ chan' = chan => Places'
BY DEF Places

LEMMA InitLivesKept ==
  InitLives /\ state' = state /\ pid' = pid /\ pc' = pc /\ killed' = killed /\ panicked' = panicked => InitLives'
BY DEF InitLives

LEMMA ForkingKept ==
  Forking /\ pc' = pc /\ np' = np /\ state' = state /\ parent' = parent => Forking'
BY DEF Forking

LEMMA PidsKept ==
  Pids /\ state' = state /\ pid' = pid /\ nextpid' = nextpid => Pids'
BY DEF Pids

LEMMA ParentsKept ==
  Parents /\ state' = state /\ parent' = parent => Parents'
BY DEF Parents

LEMMA HandedOverKept ==
  HandedOver /\ parent' = parent /\ pc' = pc /\ k' = k => HandedOver'
BY DEF HandedOver

LEMMA ParentAwakeKept ==
  ParentAwake /\ state' = state /\ parent' = parent /\ pc' = pc /\ w' = w => ParentAwake'
BY DEF ParentAwake

LEMMA WokenFirstKept ==
  WokenFirst /\ state' = state /\ parent' = parent /\ pc' = pc /\ w' = w => WokenFirst'
BY DEF WokenFirst

LEMMA NoneMissedKept ==
  NoneMissed /\ state' = state /\ parent' = parent /\ pc' = pc /\ k' = k => NoneMissed'
BY DEF NoneMissed

\* A step of no forker that neither allocates nor frees a slot for fork().
ForkQuiet ==
  /\ np' = np
  /\ \A u \in Procs : pc'[u] # pc[u] => pc[u] \notin ForkLabels /\ pc'[u] \notin ForkLabels
  /\ \A u \in Procs : state[u] = "USED" <=> state'[u] = "USED"
  /\ \A u \in Procs : state[u] = "USED" => parent'[u] = parent[u]

LEMMA ForkFrame ==
  ASSUME Forking, ForkQuiet
  PROVE  Forking'
<1>1. \A u \in Procs :
        /\ pc[u] \in ForkLabels <=> pc'[u] \in ForkLabels
        /\ pc[u] \in ForkLabels => pc'[u] = pc[u]
  BY Zenon DEF ForkQuiet
<1>2. \A u \in Procs :
       /\ pc'[u] \in ForkLabels => np'[u] \in Procs /\ state'[np'[u]] = "USED"
       /\ pc'[u] = "fork_parent" => parent'[np'[u]] = None
       /\ pc'[u] = "fork_run" => parent'[np'[u]] = u
  BY <1>1 DEF ForkQuiet, Forking, ForkLabels
<1>3. \A u, v \in Procs :
       pc'[u] \in ForkLabels /\ pc'[v] \in ForkLabels /\ np'[u] = np'[v] => u = v
  BY <1>1, Zenon DEF ForkQuiet, Forking
<1>4. \A j \in Procs : state'[j] = "USED" =>
       \E u \in Procs : pc'[u] \in ForkLabels /\ np'[u] = j
  BY <1>1, Zenon DEF ForkQuiet, Forking
<1> QED
  BY <1>2, <1>3, <1>4, Zenon DEF Forking

-----------------------------------------------------------------------------
(* Each step of the scheduler, fork() and reparent() preserves the invariant. *)

\* scheduler() found a runnable process: it keeps the lock it looked with.
LEMMA SchedulerRunStep ==
  ASSUME IInv, NEW c \in CPUs,
         Scheduler(c), state[si[c]] = "RUNNABLE"
  PROVE  IInv'
<1> USE Basics
<1>0. TypeOK /\ HandOff /\ WaitLockHeld /\ Places /\ InitLives /\ Forking
      /\ Pids /\ Parents /\ HandedOver /\ ParentAwake /\ WokenFirst /\ NoneMissed
  BY Zenon DEF IInv
<1>q. PICK s \in Procs : s = si[c]
  BY <1>0, Zenon DEF TypeOK
<1>1. /\ cpu[c] = None
      /\ lock[s] = None
      /\ state[s] = "RUNNABLE"
      /\ ~panicked
  BY <1>q, Zenon DEF Scheduler
<1>2. UNCHANGED <<chan, killed, parent, pid, wait_lock, si, pc, k, w, np, havekids, nextpid,
      panicked>>
  BY Zenon DEF Scheduler, slot, sched, local
<1>3. /\ state'[s] = "RUNNING"
      /\ lock'[s] = c
      /\ ctx'[s] = "in"
      /\ cpu'[c] = s
      /\ \A u \in Procs \ {s} : state'[u] = state[u] /\ lock'[u] = lock[u] /\ ctx'[u] = ctx[u]
      /\ \A u \in CPUs \ {c} : cpu'[u] = cpu[u]
  BY <1>q, <1>0 DEF Scheduler, TypeOK
<1>4. /\ state' \in [Procs -> ProcState]
      /\ lock' \in [Procs -> CPUs \cup {None}]
      /\ ctx' \in [Procs -> {"off", "in", "run", "out"}]
      /\ cpu' \in [CPUs -> Procs \cup {None}]
  BY <1>q, <1>0, SMTT(30) DEF Scheduler, TypeOK, ProcState
<1>5. TypeOK'
  BY <1>0, <1>2, <1>4, Zenon DEF TypeOK
<1>6. HandOff'
  BY <1>0, <1>1, <1>2, <1>3, <1>5 DEF HandOff, TypeOK
<1>7. WaitLockHeld'
  BY <1>0, <1>1, <1>2, <1>3 DEF WaitLockHeld, HandOff, TypeOK
<1>8. Places'
  BY <1>0, <1>2, <1>3, ZenonT(30) DEF Places, Dead
<1>9. InitLives'
  BY <1>0, <1>2, <1>3, Zenon DEF InitLives, Dead, ReparentLabels
<1>10. Forking'
  <2>1. ForkQuiet
    BY <1>1, <1>2, <1>3, Zenon DEF ForkQuiet
  <2> QED
    BY <1>0, <2>1, ForkFrame, Zenon
<1>11. Pids'
  BY <1>0, <1>1, <1>2, <1>3 DEF Pids
<1>12. Parents'
  BY <1>0, <1>1, <1>2, <1>3 DEF Parents, Dead, TypeOK
<1>13. ParentAwake'
  BY <1>0, <1>2, <1>3 DEF ParentAwake, ReparentLabels, TypeOK
<1>14. WokenFirst'
  BY <1>0, <1>2, <1>3 DEF WokenFirst, ChildlessLabels, WaitLockLabels, TypeOK
<1>15. NoneMissed'
  BY <1>0, <1>2, <1>3, Zenon DEF NoneMissed, WaitLockLabels
<1>16. HandedOver'
  BY <1>0, <1>2, HandedOverKept, Zenon
<1> QED
  BY <1>5, <1>6, <1>7, <1>8, <1>9, <1>10, <1>11, <1>12, <1>13, <1>14, <1>15, <1>16, Zenon
     DEF IInv

\* scheduler() passes a slot.
LEMMA SchedulerSkipStep ==
  ASSUME IInv, NEW c \in CPUs,
         Scheduler(c), state[si[c]] # "RUNNABLE"
  PROVE  IInv'
<1> USE Basics
<1>0. TypeOK /\ HandOff /\ WaitLockHeld /\ Places /\ InitLives /\ Forking
      /\ Pids /\ Parents /\ HandedOver /\ ParentAwake /\ WokenFirst /\ NoneMissed
  BY Zenon DEF IInv
<1>1. /\ cpu[c] = None
  BY Zenon DEF Scheduler
<1>2. UNCHANGED <<state, chan, killed, parent, pid, lock, wait_lock, cpu, ctx, pc, k, w, np,
      havekids, nextpid, panicked>>
  BY Zenon DEF Scheduler, slot, local
<1>4. /\ si' \in [CPUs -> Procs]
  <2>1. si' \in [CPUs -> Procs]
    BY AfterType, <1>0 DEF Scheduler, TypeOK
  <2> QED
    BY <2>1, Zenon
<1>5. TypeOK'
  BY <1>0, <1>2, <1>4, Zenon DEF TypeOK
<1>6. (HandOff /\ WaitLockHeld /\ Places /\ InitLives /\ Forking /\ Pids /\ Parents /\
      HandedOver /\ ParentAwake /\ WokenFirst /\ NoneMissed)'
  BY <1>0, <1>2, HandOffKept, WaitLockHeldKept, PlacesKept, InitLivesKept, ForkingKept,
     PidsKept, ParentsKept, HandedOverKept, ParentAwakeKept, WokenFirstKept, NoneMissedKept,
     Zenon
<1> QED
  BY <1>5, <1>6, Zenon DEF IInv

\* The thread is back in the lock it left with, and releases it.
LEMMA ResumeStep ==
  ASSUME IInv, NEW c \in CPUs, NEW p \in Procs,
         Resume(c, p)
  PROVE  IInv'
<1> USE Basics
<1>0. TypeOK /\ HandOff /\ WaitLockHeld /\ Places /\ InitLives /\ Forking
      /\ Pids /\ Parents /\ HandedOver /\ ParentAwake /\ WokenFirst /\ NoneMissed
  BY Zenon DEF IInv
<1>1. /\ cpu[c] = p
      /\ ctx[p] = "in"
      /\ ~panicked
  BY Zenon DEF Resume
<1>2. UNCHANGED <<state, killed, parent, pid, wait_lock, cpu, si, pc, k, w, np, havekids,
      nextpid>>
  BY Zenon DEF Resume, slot, locks, local
<1>3. /\ lock'[p] = None
      /\ chan'[p] = None
      /\ ctx'[p] = "run"
      /\ panicked' = (lock[p] # c)
      /\ \A u \in Procs \ {p} : lock'[u] = lock[u] /\ chan'[u] = chan[u] /\ ctx'[u] = ctx[u]
  BY <1>0, Zenon DEF Resume, TypeOK
<1>4. /\ lock' \in [Procs -> CPUs \cup {None}]
      /\ chan' \in [Procs -> Procs \cup {None}]
      /\ ctx' \in [Procs -> {"off", "in", "run", "out"}]
      /\ panicked' \in BOOLEAN
  BY <1>0, Zenon DEF Resume, TypeOK
<1>5. TypeOK'
  BY <1>0, <1>2, <1>4, Zenon DEF TypeOK
<1>p. panicked' = FALSE
  <2>1. lock[p] = c
    BY <1>0, <1>1 DEF HandOff
  <2> QED
    BY <1>3, <2>1, Zenon
<1>6. HandOff'
  BY <1>0, <1>1, <1>2, <1>3 DEF HandOff, TypeOK
<1>7. WaitLockHeld'
  BY <1>0, <1>1, <1>2, <1>3 DEF WaitLockHeld, TypeOK
<1>8. Places'
  BY <1>0, <1>1, <1>2, <1>3 DEF Places, HandOff
<1>9. InitLives'
  BY <1>0, <1>1, <1>2, <1>p, Zenon DEF InitLives, ReparentLabels, ChildlessLabels
<1>10. (Forking /\ Pids /\ Parents /\ HandedOver /\ ParentAwake /\ WokenFirst /\
      NoneMissed)'
  BY <1>0, <1>2, ForkingKept, PidsKept, ParentsKept, HandedOverKept, ParentAwakeKept,
     WokenFirstKept, NoneMissedKept, Zenon
<1> QED
  BY <1>5, <1>6, <1>7, <1>8, <1>9, <1>10, Zenon DEF IInv

\* scheduler() releases the lock the thread left it.
LEMMA SchedReturnStep ==
  ASSUME IInv, NEW c \in CPUs,
         SchedReturn(c)
  PROVE  IInv'
<1> USE Basics
<1>0. TypeOK /\ HandOff /\ WaitLockHeld /\ Places /\ InitLives /\ Forking
      /\ Pids /\ Parents /\ HandedOver /\ ParentAwake /\ WokenFirst /\ NoneMissed
  BY Zenon DEF IInv
<1>q. PICK p \in Procs : p = cpu[c]
  BY <1>0, Zenon DEF SchedReturn, TypeOK
<1>1. /\ cpu[c] = p
      /\ ctx[p] = "out"
      /\ ~panicked
  BY <1>q, Zenon DEF SchedReturn
<1>2. UNCHANGED <<state, chan, killed, parent, pid, wait_lock, pc, k, w, np, havekids,
      nextpid, panicked>>
  BY Zenon DEF SchedReturn, slot, local
<1>3. /\ lock'[p] = None
      /\ ctx'[p] = "off"
      /\ cpu'[c] = None
      /\ \A u \in Procs \ {p} : lock'[u] = lock[u] /\ ctx'[u] = ctx[u]
      /\ \A u \in CPUs \ {c} : cpu'[u] = cpu[u]
  BY <1>0, <1>1, Zenon DEF SchedReturn, TypeOK
<1>4. /\ lock' \in [Procs -> CPUs \cup {None}]
      /\ ctx' \in [Procs -> {"off", "in", "run", "out"}]
      /\ cpu' \in [CPUs -> Procs \cup {None}]
      /\ si' \in [CPUs -> Procs]
  <2>1. lock' \in [Procs -> CPUs \cup {None}]
    BY <1>0, Zenon DEF SchedReturn, TypeOK
  <2>2. ctx' \in [Procs -> {"off", "in", "run", "out"}]
    BY <1>0, Zenon DEF SchedReturn, TypeOK
  <2>3. cpu' \in [CPUs -> Procs \cup {None}]
    BY <1>0, Zenon DEF SchedReturn, TypeOK
  <2>4. si' \in [CPUs -> Procs]
    BY <1>q, AfterType, <1>0, Zenon DEF SchedReturn, TypeOK
  <2> QED
    BY <2>1, <2>2, <2>3, <2>4, Zenon
<1>5. TypeOK'
  BY <1>0, <1>2, <1>4, Zenon DEF TypeOK
<1>6. HandOff'
  BY <1>0, <1>1, <1>2, <1>3 DEF HandOff, TypeOK
<1>7. WaitLockHeld'
  BY <1>0, <1>1, <1>2, <1>3, SMTT(30) DEF WaitLockHeld, TypeOK
<1>8. (Places /\ InitLives /\ Forking /\ Pids /\ Parents /\ HandedOver /\ ParentAwake /\
      WokenFirst /\ NoneMissed)'
  BY <1>0, <1>2, PlacesKept, InitLivesKept, ForkingKept, PidsKept, ParentsKept,
     HandedOverKept, ParentAwakeKept, WokenFirstKept, NoneMissedKept, Zenon
<1> QED
  BY <1>5, <1>6, <1>7, <1>8, Zenon DEF IInv

\* The timer only interrupts a thread that holds no spin lock.
LEMMA YieldStep ==
  ASSUME IInv, NEW c \in CPUs, NEW p \in Procs,
         Yield(c, p)
  PROVE  IInv'
<1> USE Basics
<1>0. TypeOK /\ HandOff /\ WaitLockHeld /\ Places /\ InitLives /\ Forking
      /\ Pids /\ Parents /\ HandedOver /\ ParentAwake /\ WokenFirst /\ NoneMissed
  BY Zenon DEF IInv
<1>1. /\ cpu[c] = p /\ ctx[p] = "run" /\ ~panicked
      /\ lock[p] = None
      /\ (pc[p] = "user" \/ Held(c) = {})
  BY Zenon DEF Yield, On, Preemptible
<1>2. UNCHANGED <<chan, killed, parent, pid, wait_lock, cpu, si, pc, k, w, np, havekids,
      nextpid>>
  BY Zenon DEF Yield, Sched, slot, local
<1>3. /\ lock'[p] = c
      /\ state'[p] = "RUNNABLE"
      /\ ctx'[p] = "out"
      /\ \A u \in Procs \ {p} : lock'[u] = lock[u] /\ state'[u] = state[u] /\ ctx'[u] = ctx[u]
  BY <1>0, Zenon DEF Yield, Sched, TypeOK
<1>4. /\ lock' \in [Procs -> CPUs \cup {None}]
      /\ state' \in [Procs -> ProcState]
      /\ ctx' \in [Procs -> {"off", "in", "run", "out"}]
      /\ panicked' \in BOOLEAN
  BY <1>0, <1>1, Zenon DEF Yield, Preemptible, Sched, TypeOK, ProcState
<1>5. TypeOK'
  BY <1>0, <1>2, <1>4, Zenon DEF TypeOK
<1>g. pc[p] \notin WaitLockLabels
  BY <1>0, <1>1 DEF Held, HandOff, WaitLockHeld, WaitLockLabels, ReparentLabels,
     ChildlessLabels, TypeOK
<1>p. panicked' = FALSE
  <2>1. Held(c)' = {p}
    BY <1>0, <1>1, <1>2, <1>3, <1>g DEF Held, HandOff, WaitLockHeld
  <2>2. Cardinality({p}) = 1
    BY OneLock, Zenon
  <2>3. panicked' = (lock'[p] # c \/ Cardinality(Held(c)') # 1 \/ state'[p] = "RUNNING")
    BY Zenon DEF Yield, Sched
  <2> QED
    BY <2>1, <2>2, <2>3, <1>3, Zenon
<1>6. HandOff'
  BY <1>0, <1>1, <1>2, <1>3 DEF HandOff, TypeOK
<1>7. WaitLockHeld'
  BY <1>0, <1>2, <1>3, <1>g DEF WaitLockHeld, WaitLockLabels, TypeOK
<1>8. Places'
  BY <1>0, <1>2, <1>3, Zenon DEF Places, Dead
<1>9. InitLives'
  BY <1>0, <1>1, <1>2, <1>3, <1>p, Zenon DEF InitLives, Dead, ReparentLabels, ChildlessLabels
<1>10. Forking'
  <2>1. ForkQuiet
    BY <1>0, <1>1, <1>2, <1>3, Zenon DEF ForkQuiet, HandOff
  <2> QED
    BY <1>0, <2>1, ForkFrame, Zenon
<1>11. Pids'
  BY <1>0, <1>1, <1>2, <1>3 DEF Pids, HandOff
<1>12. Parents'
  BY <1>0, <1>1, <1>2, <1>3 DEF Parents, HandOff, Dead, TypeOK
<1>13. ParentAwake'
  BY <1>0, <1>2, <1>3 DEF ParentAwake, TypeOK
<1>14. WokenFirst'
  BY <1>0, <1>2, <1>3 DEF WokenFirst, TypeOK
<1>15. NoneMissed'
  BY <1>0, <1>2, <1>3, Zenon DEF NoneMissed, WaitLockLabels
<1>16. HandedOver'
  BY <1>0, <1>2, HandedOverKept, Zenon
<1> QED
  BY <1>5, <1>6, <1>7, <1>8, <1>9, <1>10, <1>11, <1>12, <1>13, <1>14, <1>15, <1>16, Zenon
     DEF IInv

\* allocproc(): the slot was free, so no other fork() has it.
\* (p # q is shown before the two updates of pc are used.)
LEMMA ForkStep ==
  ASSUME IInv, NEW c \in CPUs, NEW p \in Procs,
         Fork(c, p)
  PROVE  IInv'
<1> USE Basics
<1>0. TypeOK /\ HandOff /\ WaitLockHeld /\ Places /\ InitLives /\ Forking
      /\ Pids /\ Parents /\ HandedOver /\ ParentAwake /\ WokenFirst /\ NoneMissed
  BY Zenon DEF IInv
<1>q. PICK q \in Procs : /\ Allocproc(q) /\ np' = [np EXCEPT ![p] = q]
       /\ pc' = [pc EXCEPT ![p] = "fork_parent", ![q] = "user"]
  BY Zenon DEF Fork
<1>1. /\ cpu[c] = p /\ ctx[p] = "run" /\ ~panicked
      /\ pc[p] = "user"
      /\ state[q] = "UNUSED"
      /\ lock[q] = None
  BY <1>q, Zenon DEF Fork, MayCall, On, Allocproc
<1>d. p # q
  BY <1>0, <1>1, Zenon DEF HandOff
<1>2. UNCHANGED <<chan, killed, parent, lock, wait_lock, cpu, si, ctx, k, w, havekids,
      panicked>>
  BY Zenon DEF Fork, On, locks, sched
<1>3. /\ state'[q] = "USED"
      /\ pid'[q] = nextpid
      /\ np'[p] = q
      /\ pc'[p] = "fork_parent"
      /\ pc'[q] = "user"
      /\ nextpid' = nextpid + 1
      /\ \A u \in Procs \ {q} : state'[u] = state[u] /\ pid'[u] = pid[u]
      /\ \A u \in Procs \ {p} : np'[u] = np[u]
      /\ \A u \in Procs \ {p, q} : pc'[u] = pc[u]
  BY <1>q, <1>0 DEF Fork, Allocproc, TypeOK
<1>4. /\ state' \in [Procs -> ProcState]
      /\ pid' \in [Procs -> Nat]
      /\ np' \in [Procs -> Procs \cup {None}]
      /\ pc' \in [Procs -> Labels]
      /\ nextpid' \in Nat
  BY <1>0, <1>1 DEF Fork, On, Allocproc, TypeOK, Labels, ProcState
<1>5. TypeOK'
  BY <1>0, <1>2, <1>4, Zenon DEF TypeOK
<1>6. HandOff'
  BY <1>0, <1>1, <1>2, <1>3, <1>5, SMTT(30) DEF HandOff
<1>7. WaitLockHeld'
  BY <1>0, <1>1, <1>2, <1>3 DEF WaitLockHeld, HandOff, ReparentLabels, ChildlessLabels,
     WaitLockLabels, TypeOK
<1>8. Places'
  BY <1>0, <1>1, <1>2, <1>3 DEF Places, HandOff, Dead
<1>9. InitLives'
  BY <1>0, <1>1, <1>2, <1>3 DEF InitLives, Dead, ReparentLabels, ChildlessLabels
<1>10. Forking'
  <2>1. \A u \in Procs : pc[u] \in ForkLabels => u # p /\ u # q /\ np[u] # q
    BY <1>0, <1>1, ZenonT(30) DEF Forking, ForkLabels, Places, Dead
  <2>2. \A u \in Procs : pc'[u] \in ForkLabels /\ u # p =>
          u # q /\ pc[u] \in ForkLabels /\ pc'[u] = pc[u] /\ np'[u] = np[u]
    BY <1>3, Zenon DEF ForkLabels
  <2>3. \A u \in Procs :
          /\ pc'[u] \in ForkLabels => np'[u] \in Procs /\ state'[np'[u]] = "USED"
          /\ pc'[u] = "fork_parent" => parent'[np'[u]] = None
          /\ pc'[u] = "fork_run" => parent'[np'[u]] = u
    BY <2>2, <1>0, <1>1, <1>2, <1>3 DEF Forking, Parents
  <2>4. \A u, v \in Procs :
          pc'[u] \in ForkLabels /\ pc'[v] \in ForkLabels /\ np'[u] = np'[v] => u = v
    BY <2>1, <2>2, <1>0, <1>3 DEF Forking
  <2>5. \A j \in Procs : state'[j] = "USED" =>
          \E u \in Procs : pc'[u] \in ForkLabels /\ np'[u] = j
    BY <2>1, <1>0, <1>3 DEF Forking, ForkLabels
  <2> QED
    BY <2>3, <2>4, <2>5, Zenon DEF Forking
<1>11. Pids'
  <2>1. nextpid \in Nat /\ nextpid >= 1 /\ pid \in [Procs -> Nat]
    BY <1>0 DEF TypeOK, Pids, InitLives, Dead
  <2>2. \A j \in Procs : IF state'[j] = "UNUSED" THEN pid'[j] = 0
                                                 ELSE pid'[j] >= 1 /\ pid'[j] < nextpid'
    BY <2>1, <1>0, <1>3 DEF Pids
  <2>3. \A j \in Procs : pid[j] < nextpid
    BY <2>1, <1>0 DEF Pids
  <2>4. \A i, j \in Procs : i # j /\ state'[i] # "UNUSED" => pid'[i] # pid'[j]
    BY <2>1, <1>0, <1>3 DEF Pids
  <2> QED
    BY <2>2, <2>4, Zenon DEF Pids
<1>12. Parents'
  BY <1>0, <1>1, <1>2, <1>3 DEF Parents, Dead, TypeOK
<1>13. HandedOver'
  BY <1>0, <1>2, <1>3, Zenon DEF HandedOver, ReparentLabels, ChildlessLabels, WaitLockLabels
<1>14. ParentAwake'
  BY <1>0, <1>1, <1>2, <1>3 DEF ParentAwake, HandOff, WaitLockHeld, ReparentLabels,
     WaitLockLabels, TypeOK
<1>15. WokenFirst'
  BY <1>0, <1>2, <1>3 DEF WokenFirst, WaitLockLabels, TypeOK
<1>16. NoneMissed'
  BY <1>0, <1>2, <1>3, <1>5 DEF NoneMissed, ReparentLabels, ChildlessLabels, WaitLockLabels
<1> QED
  BY <1>5, <1>6, <1>7, <1>8, <1>9, <1>10, <1>11, <1>12, <1>13, <1>14, <1>15, <1>16, Zenon
     DEF IInv

\* A failed fork() only uses up a pid.
LEMMA ForkFailsStep ==
  ASSUME IInv, NEW c \in CPUs, NEW p \in Procs,
         ForkFails(c, p)
  PROVE  IInv'
<1> USE Basics
<1>0. TypeOK /\ HandOff /\ WaitLockHeld /\ Places /\ InitLives /\ Forking
      /\ Pids /\ Parents /\ HandedOver /\ ParentAwake /\ WokenFirst /\ NoneMissed
  BY Zenon DEF IInv
<1>q. PICK q \in Procs :
        state[q] = "UNUSED" /\ lock[q] = None /\ killed' = [killed EXCEPT ![q] = FALSE]
  BY Zenon DEF ForkFails
<1>1. /\ cpu[c] = p /\ ctx[p] = "run" /\ ~panicked
      /\ pc[p] = "user"
      /\ state[q] = "UNUSED"
  BY <1>q, Zenon DEF ForkFails, MayCall, On
<1>2. UNCHANGED <<state, chan, parent, pid, lock, wait_lock, cpu, si, ctx, pc, k, w, np,
      havekids, panicked>>
  BY Zenon DEF ForkFails, MayCall, locks, sched, local
<1>3. /\ killed'[q] = FALSE
      /\ nextpid' = nextpid + 1
      /\ \A u \in Procs \ {q} : killed'[u] = killed[u]
  BY <1>q, <1>0, <1>1, ZenonT(30) DEF ForkFails, MayCall, On, TypeOK
<1>4. /\ killed' \in [Procs -> BOOLEAN]
      /\ nextpid' \in Nat
  BY <1>0 DEF ForkFails, TypeOK
<1>5. TypeOK'
  BY <1>0, <1>2, <1>4, Zenon DEF TypeOK
<1>6. InitLives'
  BY <1>0, <1>1, <1>2, Zenon DEF InitLives, ChildlessLabels
<1>7. Pids'
  BY <1>0, <1>2, <1>3, SMTT(30) DEF Pids, TypeOK
<1>8. (HandOff /\ WaitLockHeld /\ Places /\ Forking /\ Parents /\ HandedOver /\ ParentAwake
      /\ WokenFirst /\ NoneMissed)'
  BY <1>0, <1>2, HandOffKept, WaitLockHeldKept, PlacesKept, ForkingKept, ParentsKept,
     HandedOverKept, ParentAwakeKept, WokenFirstKept, NoneMissedKept, Zenon
<1> QED
  BY <1>5, <1>6, <1>7, <1>8, Zenon DEF IInv

\* fork() sets the parent.
LEMMA ForkParentStep ==
  ASSUME IInv, NEW c \in CPUs, NEW p \in Procs,
         ForkParent(c, p)
  PROVE  IInv'
<1> USE Basics
<1>0. TypeOK /\ HandOff /\ WaitLockHeld /\ Places /\ InitLives /\ Forking
      /\ Pids /\ Parents /\ HandedOver /\ ParentAwake /\ WokenFirst /\ NoneMissed
  BY Zenon DEF IInv
<1>1. /\ cpu[c] = p /\ ctx[p] = "run" /\ ~panicked
      /\ pc[p] = "fork_parent"
      /\ wait_lock = None
  BY Zenon DEF ForkParent, On
<1>2. UNCHANGED <<state, chan, killed, pid, lock, wait_lock, cpu, si, ctx, k, w, np, havekids,
      nextpid, panicked>>
  BY Zenon DEF ForkParent, locks, sched, local
<1>3. /\ parent'[np[p]] = p
      /\ pc'[p] = "fork_run"
      /\ \A u \in Procs \ {np[p]} : parent'[u] = parent[u]
      /\ \A u \in Procs \ {p} : pc'[u] = pc[u]
  BY <1>0 DEF ForkParent, Goto, TypeOK, Forking, ForkLabels
<1>4. /\ parent' \in [Procs -> Procs \cup {None}]
      /\ pc' \in [Procs -> Labels]
  BY <1>0, Zenon DEF ForkParent, Goto, TypeOK, Labels, Forking, ForkLabels
<1>5. TypeOK'
  BY <1>0, <1>2, <1>4, Zenon DEF TypeOK
<1>6. WaitLockHeld'
  BY <1>0, <1>1, <1>2, <1>3 DEF WaitLockHeld, HandOff, ReparentLabels, ChildlessLabels,
     WaitLockLabels
<1>7. Places'
  BY <1>0, <1>1, <1>2, <1>3 DEF Places
<1>8. InitLives'
  BY <1>0, <1>1, <1>2, <1>3, Zenon DEF InitLives, Dead, ReparentLabels, ChildlessLabels
<1>9. Forking'
  BY <1>0, <1>1, <1>2, <1>3, SMTT(30) DEF Forking, HandOff, Places, ForkLabels, Dead
<1>10. Parents'
  BY <1>0, <1>1, <1>2, <1>3 DEF Parents, HandOff, Dead, Forking, ForkLabels
<1>11. HandedOver'
  BY <1>0, <1>2, <1>3, <1>5 DEF HandedOver, WaitLockHeld, ReparentLabels, ChildlessLabels,
     WaitLockLabels, ForkLabels
<1>12. ParentAwake'
  BY <1>0, <1>1, <1>2, <1>3 DEF ParentAwake, WaitLockHeld, ChildlessLabels, Forking, ForkLabels
<1>13. WokenFirst'
  BY <1>0, <1>1, <1>3 DEF WokenFirst, WaitLockHeld, ChildlessLabels, WaitLockLabels
<1>14. NoneMissed'
  BY <1>0, <1>2, <1>3 DEF NoneMissed
<1>15. (HandOff /\ Pids)'
  BY <1>0, <1>2, HandOffKept, PidsKept, Zenon
<1> QED
  BY <1>5, <1>6, <1>7, <1>8, <1>9, <1>10, <1>11, <1>12, <1>13, <1>14, <1>15, Zenon DEF IInv

\* fork() makes the child runnable.
LEMMA ForkRunStep ==
  ASSUME IInv, NEW c \in CPUs, NEW p \in Procs,
         ForkRun(c, p)
  PROVE  IInv'
<1> USE Basics
<1>0. TypeOK /\ HandOff /\ WaitLockHeld /\ Places /\ InitLives /\ Forking
      /\ Pids /\ Parents /\ HandedOver /\ ParentAwake /\ WokenFirst /\ NoneMissed
  BY Zenon DEF IInv
<1>1. /\ cpu[c] = p /\ ctx[p] = "run" /\ ~panicked
      /\ pc[p] = "fork_run"
      /\ lock[np[p]] = None
  BY Zenon DEF ForkRun, On
<1>2. UNCHANGED <<chan, killed, parent, pid, lock, wait_lock, cpu, si, ctx, k, w, havekids,
      nextpid, panicked>>
  BY Zenon DEF ForkRun, slot, locks, sched
<1>3. /\ state'[np[p]] = "RUNNABLE"
      /\ np'[p] = None
      /\ pc'[p] = "user"
      /\ \A u \in Procs \ {np[p]} : state'[u] = state[u]
      /\ \A u \in Procs \ {p} : np'[u] = np[u] /\ pc'[u] = pc[u]
  BY <1>0, <1>1 DEF ForkRun, Goto, TypeOK, Forking, ForkLabels
<1>4. /\ state' \in [Procs -> ProcState]
      /\ np' \in [Procs -> Procs \cup {None}]
      /\ pc' \in [Procs -> Labels]
  BY <1>0, <1>1, Zenon DEF ForkRun, On, Goto, TypeOK, Labels, ProcState, Forking, ForkLabels
<1>5. TypeOK'
  BY <1>0, <1>2, <1>4, Zenon DEF TypeOK
<1>6. HandOff'
  BY <1>0, <1>1, <1>2, <1>3, SMTT(30) DEF HandOff, Forking, ForkLabels
<1>7. WaitLockHeld'
  BY <1>0, <1>1, <1>2, <1>3 DEF WaitLockHeld, ReparentLabels, ChildlessLabels, WaitLockLabels,
     TypeOK
<1>8. Places'
  BY <1>0, <1>1, <1>2, <1>3 DEF Places, HandOff, Dead
<1>9. InitLives'
  BY <1>0, <1>1, <1>2, <1>3, Zenon DEF InitLives, Dead, ReparentLabels, ChildlessLabels,
     ForkLabels
<1>10. Forking'
  <2>1. \A u \in Procs : pc'[u] \in ForkLabels =>
          u # p /\ pc[u] \in ForkLabels /\ pc'[u] = pc[u] /\ np'[u] = np[u] /\ np[u] # np[p]
    BY <1>0, <1>1, <1>3 DEF Forking, ForkLabels
  <2>2. \A u \in Procs :
          /\ pc'[u] \in ForkLabels => np'[u] \in Procs /\ state'[np'[u]] = "USED"
          /\ pc'[u] = "fork_parent" => parent'[np'[u]] = None
          /\ pc'[u] = "fork_run" => parent'[np'[u]] = u
    BY <2>1, <1>0, <1>2, <1>3 DEF Forking
  <2>3. \A u, v \in Procs :
          pc'[u] \in ForkLabels /\ pc'[v] \in ForkLabels /\ np'[u] = np'[v] => u = v
    BY <2>1, <1>0, Zenon DEF Forking
  <2>4. \A j \in Procs : state'[j] = "USED" =>
          \E u \in Procs : pc'[u] \in ForkLabels /\ np'[u] = j
    <3>1. \A j \in Procs : state'[j] = "USED" => j # np[p] /\ state[j] = "USED"
      BY <1>3, Zenon
    <3> QED
      BY <1>0, <1>3 DEF Forking
  <2> QED
    BY <2>2, <2>3, <2>4, Zenon DEF Forking
<1>11. Pids'
  BY <1>0, <1>1, <1>2, <1>3, SMTT(30) DEF Pids, Forking, ForkLabels
<1>12. Parents'
  BY <1>0, <1>1, <1>2, <1>3 DEF Parents, Dead, Forking, TypeOK
<1>13. HandedOver'
  BY <1>0, <1>2, <1>3, Zenon DEF HandedOver, ReparentLabels, ChildlessLabels
<1>14. ParentAwake'
  BY <1>0, <1>1, <1>2, <1>3, SMTT(30) DEF ParentAwake, TypeOK
<1>15. WokenFirst'
  BY <1>0, <1>2, <1>3 DEF WokenFirst, WaitLockHeld, ChildlessLabels, WaitLockLabels, Forking,
     ForkLabels, TypeOK
<1>16. NoneMissed'
  BY <1>0, <1>2, <1>3 DEF NoneMissed, Forking
<1> QED
  BY <1>5, <1>6, <1>7, <1>8, <1>9, <1>10, <1>11, <1>12, <1>13, <1>14, <1>15, <1>16, Zenon
     DEF IInv

\* Only a killed init panics here.
LEMMA ExitStep ==
  ASSUME IInv, NEW c \in CPUs, NEW p \in Procs,
         Exit(c, p)
  PROVE  IInv'
<1> USE Basics
<1>0. TypeOK /\ HandOff /\ WaitLockHeld /\ Places /\ InitLives /\ Forking
      /\ Pids /\ Parents /\ HandedOver /\ ParentAwake /\ WokenFirst /\ NoneMissed
  BY Zenon DEF IInv
<1>1. /\ cpu[c] = p /\ ctx[p] = "run" /\ ~panicked
      /\ pc[p] = "user"
      /\ (p = initproc => killed[p])
  BY Zenon DEF Exit, On, TypeOK
<1>2. UNCHANGED <<state, chan, killed, parent, pid, lock, wait_lock, cpu, si, ctx, k, w, np,
      havekids, nextpid>>
  BY <1>0, Zenon DEF Exit, Goto, slot, locks, sched, local
<1>3. /\ panicked' = (p = initproc)
      /\ pc'[p] = "exit"
      /\ \A u \in Procs \ {p} : pc'[u] = pc[u]
  BY <1>0, Zenon DEF Exit, Goto, TypeOK
<1>4. /\ panicked' \in BOOLEAN
      /\ pc' \in [Procs -> Labels]
  BY <1>0, Zenon DEF Exit, On, Goto, TypeOK, Labels
<1>5. TypeOK'
  BY <1>0, <1>2, <1>4, Zenon DEF TypeOK
<1>6. WaitLockHeld'
  BY <1>0, <1>1, <1>2, <1>3 DEF WaitLockHeld, ReparentLabels, ChildlessLabels, WaitLockLabels,
     TypeOK
<1>7. Places'
  BY <1>0, <1>1, <1>2, <1>3 DEF Places, HandOff, Dead
<1>8. InitLives'
  BY <1>0, <1>1, <1>2, <1>3, Zenon DEF InitLives, ReparentLabels, ChildlessLabels, TypeOK
<1>9. Forking'
  <2>1. ForkQuiet
    BY <1>1, <1>2, <1>3, Zenon DEF ForkQuiet, ForkLabels
  <2> QED
    BY <1>0, <2>1, ForkFrame, Zenon
<1>10. HandedOver'
  BY <1>0, <1>2, <1>3, <1>5, Zenon DEF HandedOver, ReparentLabels, ChildlessLabels
<1>11. ParentAwake'
  BY <1>0, <1>1, <1>2, <1>3 DEF ParentAwake, ReparentLabels, ChildlessLabels
<1>12. WokenFirst'
  BY <1>0, <1>2, <1>3, Zenon DEF WokenFirst
<1>13. NoneMissed'
  BY <1>0, <1>2, <1>3, Zenon DEF NoneMissed
<1>14. (HandOff /\ Pids /\ Parents)'
  BY <1>0, <1>2, HandOffKept, PidsKept, ParentsKept, Zenon
<1> QED
  BY <1>5, <1>6, <1>7, <1>8, <1>9, <1>10, <1>11, <1>12, <1>13, <1>14, Zenon DEF IInv

\* exit() takes wait_lock.
LEMMA ExitLockStep ==
  ASSUME IInv, NEW c \in CPUs, NEW p \in Procs,
         ExitLock(c, p)
  PROVE  IInv'
<1> USE Basics
<1>0. TypeOK /\ HandOff /\ WaitLockHeld /\ Places /\ InitLives /\ Forking
      /\ Pids /\ Parents /\ HandedOver /\ ParentAwake /\ WokenFirst /\ NoneMissed
  BY Zenon DEF IInv
<1>1. /\ cpu[c] = p /\ ctx[p] = "run" /\ ~panicked
      /\ pc[p] = "exit"
      /\ wait_lock = None
  BY Zenon DEF ExitLock, On
<1>2. UNCHANGED <<state, chan, killed, parent, pid, lock, cpu, si, ctx, w, np, havekids,
      nextpid, panicked>>
  BY Zenon DEF ExitLock, slot, sched
<1>3. /\ wait_lock' = c
      /\ k'[p] = 1
      /\ pc'[p] = "reparent"
      /\ \A u \in Procs \ {p} : k'[u] = k[u] /\ pc'[u] = pc[u]
  BY <1>0, Zenon DEF ExitLock, On, Goto, TypeOK
<1>4. /\ wait_lock' \in CPUs \cup {None}
      /\ k' \in [Procs -> 1..NPROC + 1]
      /\ pc' \in [Procs -> Labels]
  BY Bounds, <1>0, Zenon DEF ExitLock, Goto, TypeOK, Labels, ProcState
<1>5. TypeOK'
  BY <1>0, <1>2, <1>4, Zenon DEF TypeOK
<1>6. WaitLockHeld'
  BY <1>0, <1>1, <1>2, <1>3, Zenon DEF WaitLockHeld, ReparentLabels, WaitLockLabels
<1>7. Places'
  BY <1>0, <1>1, <1>2, <1>3 DEF Places
<1>8. InitLives'
  BY <1>0, <1>1, <1>2, <1>3, Zenon DEF InitLives, ReparentLabels
<1>9. Forking'
  <2>1. ForkQuiet
    BY <1>1, <1>2, <1>3, Zenon DEF ForkQuiet, ForkLabels, Places
  <2> QED
    BY <1>0, <2>1, ForkFrame, Zenon
<1>10. HandedOver'
  BY Bounds, <1>0, <1>2, <1>3, Zenon DEF HandedOver, ChildlessLabels
<1>11. ParentAwake'
  BY <1>0, <1>1, <1>2, <1>3, ZenonT(30) DEF ParentAwake
<1>12. WokenFirst'
  BY <1>0, <1>2, <1>3, Zenon DEF WokenFirst, ReparentLabels
<1>13. NoneMissed'
  BY <1>0, <1>2, <1>3, <1>5, ZenonT(30) DEF NoneMissed, ChildlessLabels, WaitLockLabels
<1>14. (HandOff /\ Pids /\ Parents)'
  BY <1>0, <1>2, HandOffKept, PidsKept, ParentsKept, Zenon
<1> QED
  BY <1>5, <1>6, <1>7, <1>8, <1>9, <1>10, <1>11, <1>12, <1>13, <1>14, Zenon DEF IInv

\* reparent() is over: the table holds no child any more.
LEMMA ReparentDoneStep ==
  ASSUME IInv, NEW c \in CPUs, NEW p \in Procs,
         Reparent(c, p), k[p] > NPROC
  PROVE  IInv'
<1> USE Basics
<1>0. TypeOK /\ HandOff /\ WaitLockHeld /\ Places /\ InitLives /\ Forking
      /\ Pids /\ Parents /\ HandedOver /\ ParentAwake /\ WokenFirst /\ NoneMissed
  BY Zenon DEF IInv
<1>1. /\ cpu[c] = p /\ ctx[p] = "run" /\ ~panicked
      /\ pc[p] = "reparent"
      /\ k[p] > NPROC
  BY Zenon DEF Reparent, On, Goto
<1>2. UNCHANGED <<state, chan, killed, parent, pid, lock, wait_lock, cpu, si, ctx, k, np,
      havekids, nextpid, panicked>>
  BY Zenon DEF Reparent, locks, sched, local
<1>3. /\ pc'[p] = "wake_parent"
      /\ w'[p] = 1
      /\ \A u \in Procs \ {p} : pc'[u] = pc[u] /\ w'[u] = w[u]
  BY <1>0, ZenonT(30) DEF Reparent, Goto, TypeOK
<1>4. /\ pc' \in [Procs -> Labels]
      /\ w' \in [Procs -> 1..NPROC + 1]
  <2>1. pc' \in [Procs -> Labels]
    BY <1>0 DEF Reparent, Goto, TypeOK, Labels
  <2>2. w' \in [Procs -> 1..NPROC + 1]
    BY Bounds, <1>0, Zenon DEF Reparent, TypeOK
  <2> QED
    BY <2>1, <2>2, Zenon
<1>5. TypeOK'
  BY <1>0, <1>2, <1>4, Zenon DEF TypeOK
<1>6. WaitLockHeld'
  BY <1>0, <1>1, <1>2, <1>3, ZenonT(30) DEF WaitLockHeld, ReparentLabels, ChildlessLabels,
     WaitLockLabels
<1>7. Places'
  BY <1>0, <1>1, <1>2, <1>3 DEF Places
<1>8. InitLives'
  BY <1>0, <1>1, <1>2, <1>3, Zenon DEF InitLives, Dead, ReparentLabels
<1>9. Forking'
  <2>1. ForkQuiet
    BY <1>1, <1>2, <1>3, Zenon DEF ForkQuiet, ForkLabels
  <2> QED
    BY <1>0, <2>1, ForkFrame, Zenon
<1>10. HandedOver'
  <2>1. \A j \in Procs : parent[j] # p
    BY Bounds, <1>0, <1>1 DEF TypeOK, HandedOver, ReparentLabels
  <2> QED
    BY <2>1, <1>0, <1>2, <1>3, Zenon DEF HandedOver
<1>11. ParentAwake'
  BY <1>0, <1>1, <1>2, <1>3, ZenonT(30) DEF ParentAwake
<1>12. WokenFirst'
  <2>1. \A u \in Procs \ {p} : w'[u] = w[u] /\ pc'[u] = pc[u]
    BY <1>3, Zenon
  <2>2. parent[p] # None => ~(w'[p] > parent[p])
    BY Bounds, <1>0, <1>3 DEF TypeOK
  <2> QED
    BY <2>2, <1>0, <1>2, <1>3, Zenon DEF WokenFirst
<1>13. NoneMissed'
  BY <1>0, <1>1, <1>2, <1>3, <1>5, ZenonT(30) DEF NoneMissed
<1>14. (HandOff /\ Pids /\ Parents)'
  BY <1>0, <1>2, HandOffKept, PidsKept, ParentsKept, Zenon
<1> QED
  BY <1>5, <1>6, <1>7, <1>8, <1>9, <1>10, <1>11, <1>12, <1>13, <1>14, Zenon DEF IInv

\* reparent() gives a child to init, which is about to be woken.
LEMMA ReparentAdoptStep ==
  ASSUME IInv, NEW c \in CPUs, NEW p \in Procs,
         Reparent(c, p), ~(k[p] > NPROC), parent[k[p]] = p
  PROVE  IInv'
<1> USE Basics
<1>0. TypeOK /\ HandOff /\ WaitLockHeld /\ Places /\ InitLives /\ Forking
      /\ Pids /\ Parents /\ HandedOver /\ ParentAwake /\ WokenFirst /\ NoneMissed
  BY Zenon DEF IInv
<1>1. /\ cpu[c] = p /\ ctx[p] = "run" /\ ~panicked
      /\ pc[p] = "reparent"
      /\ k[p] \in Procs
      /\ parent[k[p]] = p
  BY Bounds, <1>0 DEF Reparent, On, TypeOK
<1>2. UNCHANGED <<state, chan, killed, pid, lock, wait_lock, cpu, si, ctx, np, havekids,
      nextpid, panicked>>
  BY Zenon DEF Reparent, locks, sched
<1>3. /\ k'[p] = k[p] + 1
      /\ parent'[k[p]] = initproc
      /\ pc'[p] = "wake_init"
      /\ w'[p] = 1
      /\ \A u \in Procs \ {p} : k'[u] = k[u] /\ pc'[u] = pc[u] /\ w'[u] = w[u]
      /\ \A u \in Procs \ {k[p]} : parent'[u] = parent[u]
  BY <1>0, <1>1 DEF Reparent, Goto, TypeOK
<1>4. /\ k' \in [Procs -> 1..NPROC + 1]
      /\ parent' \in [Procs -> Procs \cup {None}]
      /\ pc' \in [Procs -> Labels]
      /\ w' \in [Procs -> 1..NPROC + 1]
  <2>1. k' \in [Procs -> 1..NPROC + 1]
    <3>1. k[p] + 1 \in 1..NPROC + 1 /\ k' = [k EXCEPT ![p] = k[p] + 1]
      BY Bounds, <1>0 DEF Reparent, TypeOK
    <3> QED
      BY <3>1, <1>0, Zenon DEF TypeOK
  <2>2. parent' \in [Procs -> Procs \cup {None}]
    <3>1. parent' = [parent EXCEPT ![k[p]] = initproc]
      BY Zenon DEF Reparent, Goto
    <3> QED
      BY <3>1, <1>0, <1>1, Zenon DEF TypeOK
  <2>3. pc' \in [Procs -> Labels]
    <3>1. pc' = [pc EXCEPT ![p] = "wake_init"]
      BY Zenon DEF Reparent, On, Goto
    <3> QED
      BY <3>1, <1>0, Zenon DEF TypeOK, Labels
  <2>4. w' \in [Procs -> 1..NPROC + 1]
    BY Bounds, <1>0, Zenon DEF Reparent, TypeOK
  <2> QED
    BY <2>1, <2>2, <2>3, <2>4, Zenon
<1>5. TypeOK'
  BY <1>0, <1>2, <1>4, Zenon DEF TypeOK
<1>6. WaitLockHeld'
  BY <1>0, <1>1, <1>2, <1>3 DEF WaitLockHeld, ReparentLabels, ChildlessLabels, WaitLockLabels
<1>7. Places'
  BY <1>0, <1>1, <1>2, <1>3 DEF Places
<1>8. InitLives'
  BY <1>0, <1>1, <1>2, <1>3, Zenon DEF InitLives, Dead, ReparentLabels
<1>9. Forking'
  <2>1. state[k[p]] # "USED"
    BY <1>0, <1>1 DEF Forking, ForkLabels
  <2>2. ForkQuiet
    BY <2>1, <1>1, <1>2, <1>3, Zenon DEF ForkQuiet, ForkLabels
  <2> QED
    BY <1>0, <2>2, ForkFrame, Zenon
<1>10. Parents'
  <2>1. state[k[p]] # "UNUSED"
    BY <1>0, <1>1, Zenon DEF Parents
  <2> QED
    BY <1>0, <1>2, <1>3 DEF Parents, InitLives
<1>11. HandedOver'
  <2>1. k[p] \in 1..NPROC + 1 /\ p # initproc
    BY <1>0, <1>1, Zenon DEF TypeOK, InitLives, ReparentLabels
  <2>2. \A u, j \in Procs : parent'[j] = u /\ u # initproc => parent[j] = u /\ j # k[p]
    BY <1>3, Zenon
  <2>3. \A u, j \in Procs : parent'[j] = u =>
          /\ pc'[u] \notin ChildlessLabels
          /\ pc'[u] \in ReparentLabels => k'[u] <= j
    <3> SUFFICES ASSUME NEW u \in Procs, NEW j \in Procs, parent'[j] = u
                 PROVE  /\ pc'[u] \notin ChildlessLabels
                        /\ pc'[u] \in ReparentLabels => k'[u] <= j
      BY Zenon
    <3>1. CASE u = initproc
      BY <3>1, <2>1, <1>0, <1>3, SMTT(30) DEF InitLives
    <3>2. CASE u = p
      BY <3>2, <2>1, <1>0, <1>1, <1>3, Bounds DEF HandedOver, ReparentLabels, ChildlessLabels
    <3>3. CASE u # p /\ u # initproc
      BY <3>3, <1>0, <1>3, Zenon DEF HandedOver
    <3> QED
      BY <3>1, <3>2, <3>3, Zenon
  <2> QED
    BY <2>3, Zenon DEF HandedOver
<1>12. ParentAwake'
  <2>1. w'[p] <= initproc /\ pc'[p] = "wake_init"
    BY <1>3 DEF initproc
  <2> QED
    BY <2>1, <1>0, <1>2, <1>3 DEF ParentAwake
<1>13. WokenFirst'
  BY <1>0, <1>1, <1>3, SMTT(30) DEF WokenFirst, WaitLockHeld, ReparentLabels, ChildlessLabels,
     WaitLockLabels
<1>14. NoneMissed'
  BY <1>0, <1>1, <1>3, SMTT(30) DEF NoneMissed, HandOff, WaitLockHeld, ReparentLabels,
     WaitLockLabels
<1>15. (HandOff /\ Pids)'
  BY <1>0, <1>2, HandOffKept, PidsKept, Zenon
<1> QED
  BY <1>5, <1>6, <1>7, <1>8, <1>9, <1>10, <1>11, <1>12, <1>13, <1>14, <1>15, Zenon DEF IInv

\* reparent() passes a slot.
LEMMA ReparentSkipStep ==
  ASSUME IInv, NEW c \in CPUs, NEW p \in Procs,
         Reparent(c, p), ~(k[p] > NPROC), parent[k[p]] # p
  PROVE  IInv'
<1> USE Basics
<1>0. TypeOK /\ HandOff /\ WaitLockHeld /\ Places /\ InitLives /\ Forking
      /\ Pids /\ Parents /\ HandedOver /\ ParentAwake /\ WokenFirst /\ NoneMissed
  BY Zenon DEF IInv
<1>1. /\ cpu[c] = p /\ ctx[p] = "run" /\ ~panicked
      /\ pc[p] = "reparent"
      /\ k[p] \in Procs
      /\ parent[k[p]] # p
  BY Bounds, <1>0 DEF Reparent, On, TypeOK
<1>2. UNCHANGED <<state, chan, killed, parent, pid, lock, wait_lock, cpu, si, ctx, pc, np,
      havekids, nextpid, panicked>>
  BY Zenon DEF Reparent, locks, sched
<1>3. /\ k'[p] = k[p] + 1
      /\ w'[p] = 1
      /\ \A u \in Procs \ {p} : k'[u] = k[u] /\ w'[u] = w[u]
  BY <1>0 DEF Reparent, TypeOK
<1>4. /\ k' \in [Procs -> 1..NPROC + 1]
      /\ w' \in [Procs -> 1..NPROC + 1]
  <2>1. k' \in [Procs -> 1..NPROC + 1]
    <3>1. k[p] + 1 \in 1..NPROC + 1 /\ k' = [k EXCEPT ![p] = k[p] + 1]
      BY Bounds, <1>0 DEF Reparent, TypeOK
    <3> QED
      BY <3>1, <1>0, Zenon DEF TypeOK
  <2>2. w' \in [Procs -> 1..NPROC + 1]
    BY Bounds, <1>0, Zenon DEF Reparent, TypeOK
  <2> QED
    BY <2>1, <2>2, Zenon
<1>5. TypeOK'
  BY <1>0, <1>2, <1>4, Zenon DEF TypeOK
<1>6. HandedOver'
  <2>1. k[p] \in 1..NPROC + 1
    BY <1>0, Zenon DEF TypeOK
  <2> QED
    BY <2>1, Bounds, <1>0, <1>2, <1>3 DEF HandedOver
<1>7. ParentAwake'
  BY <1>0, <1>1, <1>2, <1>3, Zenon DEF ParentAwake
<1>8. WokenFirst'
  BY <1>0, <1>1, <1>2, <1>3, Zenon DEF WokenFirst
<1>9. NoneMissed'
  BY <1>0, <1>1, <1>2, <1>3, ZenonT(30) DEF NoneMissed, WaitLockHeld, ReparentLabels,
     ChildlessLabels
<1>10. (HandOff /\ WaitLockHeld /\ Places /\ InitLives /\ Forking /\ Pids /\ Parents)'
  BY <1>0, <1>2, HandOffKept, WaitLockHeldKept, PlacesKept, InitLivesKept, ForkingKept,
     PidsKept, ParentsKept, Zenon
<1> QED
  BY <1>5, <1>6, <1>7, <1>8, <1>9, <1>10, Zenon DEF IInv
=============================================================================
