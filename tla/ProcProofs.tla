----------------------------- MODULE ProcProofs -----------------------------
(***************************************************************************)
(* Proofs about Proc, for every number of CPUs and of slots: sched() and   *)
(* release() never panic, a kernel stack is used by one CPU, exit() wakes  *)
(* the parent, and every process has a parent that can wait for it.        *)
(***************************************************************************)
EXTENDS ProcSteps

-----------------------------------------------------------------------------
(* The other steps preserve the invariant. *)

\* wakeup() is over: the sleeper, if there was one, is awake.
LEMMA WakeupDoneStep ==
  ASSUME IInv, NEW c \in CPUs, NEW p \in Procs,
         Wakeup(c, p), w[p] > NPROC
  PROVE  IInv'
<1> USE Basics
<1>0. TypeOK /\ HandOff /\ WaitLockHeld /\ Places /\ InitLives /\ Forking
      /\ Pids /\ Parents /\ HandedOver /\ ParentAwake /\ WokenFirst /\ NoneMissed
  BY Zenon DEF IInv
<1>1. /\ cpu[c] = p /\ ctx[p] = "run" /\ ~panicked
      /\ pc[p] \in {"wake_init", "wake_parent"}
      /\ w[p] > NPROC
  BY Zenon DEF Wakeup, On
<1>2. UNCHANGED <<state, chan, killed, parent, pid, lock, wait_lock, cpu, si, ctx, k, w, np,
      havekids, nextpid, panicked>>
  BY Zenon DEF Wakeup, slot, locks, sched
<1>3. /\ pc'[p] = IF pc[p] = "wake_init" THEN "reparent" ELSE "zombie"
      /\ \A u \in Procs \ {p} : pc'[u] = pc[u]
  BY <1>0, Zenon DEF Wakeup, Goto, TypeOK
<1>4. /\ pc' \in [Procs -> Labels]
  BY <1>0 DEF Wakeup, On, Goto, TypeOK, Labels
<1>5. TypeOK'
  BY <1>0, <1>2, <1>4, Zenon DEF TypeOK
<1>6. WaitLockHeld'
  BY <1>0, <1>1, <1>2, <1>3, <1>5, Zenon DEF WaitLockHeld, ReparentLabels, ChildlessLabels,
     WaitLockLabels
<1>7. Places'
  BY <1>0, <1>1, <1>2, <1>3, Zenon DEF Places
<1>8. InitLives'
  BY <1>0, <1>1, <1>2, <1>3, Zenon DEF InitLives, ReparentLabels, ChildlessLabels
<1>9. Forking'
  <2>1. ForkQuiet
    BY <1>1, <1>2, <1>3, Zenon DEF ForkQuiet, ForkLabels
  <2> QED
    BY <1>0, <2>1, ForkFrame, Zenon
<1>10. HandedOver'
  BY <1>0, <1>1, <1>2, <1>3, <1>5, Zenon DEF HandedOver, ReparentLabels, ChildlessLabels
<1>11. ParentAwake'
  <2>1. ~(w[p] <= initproc)
    BY Bounds, <1>0 DEF TypeOK
  <2> QED
    BY <2>1, <1>0, <1>1, <1>2, <1>3, ZenonT(30) DEF ParentAwake
<1>12. WokenFirst'
  <2>1. parent[p] # None => w[p] > parent[p]
    BY Bounds, <1>0 DEF TypeOK
  <2> QED
    BY <2>1, <1>0, <1>1, <1>2, <1>3 DEF WokenFirst
<1>13. NoneMissed'
  BY <1>0, <1>2, <1>3, Zenon DEF NoneMissed
<1>14. (HandOff /\ Pids /\ Parents)'
  BY <1>0, <1>2, HandOffKept, PidsKept, ParentsKept, Zenon
<1> QED
  BY <1>5, <1>6, <1>7, <1>8, <1>9, <1>10, <1>11, <1>12, <1>13, <1>14, Zenon DEF IInv

\* wakeup() looks at one slot.
LEMMA WakeupOneStep ==
  ASSUME IInv, NEW c \in CPUs, NEW p \in Procs,
         Wakeup(c, p), ~(w[p] > NPROC)
  PROVE  IInv'
<1> USE Basics
<1>0. TypeOK /\ HandOff /\ WaitLockHeld /\ Places /\ InitLives /\ Forking
      /\ Pids /\ Parents /\ HandedOver /\ ParentAwake /\ WokenFirst /\ NoneMissed
  BY Zenon DEF IInv
<1>1. /\ cpu[c] = p /\ ctx[p] = "run" /\ ~panicked
      /\ pc[p] \in {"wake_init", "wake_parent"}
      /\ w[p] \in Procs
      /\ (w[p] # p => lock[w[p]] = None)
  BY Bounds, <1>0 DEF Wakeup, On, TypeOK
<1>2. UNCHANGED <<chan, killed, parent, pid, lock, wait_lock, cpu, si, ctx, pc, k, np,
      havekids, nextpid, panicked>>
  BY Zenon DEF Wakeup, slot, locks, sched
<1>3. /\ w'[p] = w[p] + 1
      /\ \A u \in Procs \ {p} : w'[u] = w[u]
      /\ \A u \in Procs : state'[u] # state[u] =>
           u = w[p] /\ u # p /\ state[u] = "SLEEPING" /\ state'[u] = "RUNNABLE"
  BY <1>0 DEF Wakeup, TypeOK
<1>4. /\ state' \in [Procs -> ProcState]
      /\ w' \in [Procs -> 1..NPROC + 1]
  <2>1. state' \in [Procs -> ProcState]
    <3>1. state' \in {state, [state EXCEPT ![w[p]] = "RUNNABLE"]}
      BY Zenon DEF Wakeup
    <3> QED
      BY <3>1, <1>0, Zenon DEF TypeOK, ProcState
  <2>2. w' \in [Procs -> 1..NPROC + 1]
    <3>1. w[p] + 1 \in 1..NPROC + 1 /\ w' = [w EXCEPT ![p] = w[p] + 1]
      BY Bounds, <1>0 DEF Wakeup, TypeOK
    <3> QED
      BY <3>1, <1>0, Zenon DEF TypeOK
  <2> QED
    BY <2>1, <2>2, Zenon
<1>5. TypeOK'
  BY <1>0, <1>2, <1>4, Zenon DEF TypeOK
<1>6. HandOff'
  BY <1>0, <1>2, <1>3 DEF HandOff
<1>7. Places'
  BY <1>0, <1>2, <1>3, Zenon DEF Places, Dead
<1>8. InitLives'
  BY <1>0, <1>1, <1>2, <1>3, <1>5, Zenon DEF InitLives, Places, Dead, ReparentLabels
<1>9. Forking'
  <2>1. ForkQuiet
    BY <1>2, <1>3, Zenon DEF ForkQuiet, Dead
  <2> QED
    BY <1>0, <2>1, ForkFrame, Zenon
<1>10. Pids'
  BY <1>0, <1>2, <1>3 DEF Pids
<1>11. Parents'
  BY <1>0, <1>2, <1>3 DEF Parents, Dead, TypeOK
<1>12. ParentAwake'
  <2>1. pc[p] = "wake_init" /\ w[p] <= initproc => state'[initproc] # "SLEEPING"
    BY <1>0 DEF Places, TypeOK, Wakeup, initproc
  <2> SUFFICES ASSUME NEW j \in Procs, state'[j] = "ZOMBIE", parent[j] # None,
                      state'[parent[j]] = "SLEEPING"
               PROVE  /\ parent[j] = initproc
                      /\ \E u \in Procs : pc[u] = "wake_init" /\ w'[u] <= initproc
    BY <1>2, Zenon DEF ParentAwake
  <2>2. state[j] = "ZOMBIE" /\ state[parent[j]] = "SLEEPING" /\ parent[j] = initproc
    BY <1>0, <1>3 DEF ParentAwake, TypeOK
  <2>3. PICK u \in Procs : pc[u] = "wake_init" /\ w[u] <= initproc
    BY <2>2, <1>0, Zenon DEF ParentAwake
  <2>4. u # p
    BY <2>1, <2>2, <2>3, Zenon
  <2> QED
    BY <2>2, <2>3, <2>4, <1>3, Zenon
<1>13. WokenFirst'
  <2>1. \A u \in Procs : state'[u] = "SLEEPING" => state[u] = "SLEEPING"
    BY <1>3, Zenon
  <2>2. pc[p] = "wake_parent" /\ parent[p] # None /\ w'[p] > parent[p] =>
          state'[parent[p]] # "SLEEPING"
    <3> SUFFICES ASSUME pc[p] = "wake_parent", parent[p] \in Procs, w'[p] > parent[p],
                        state'[parent[p]] = "SLEEPING"
                 PROVE  FALSE
      BY <1>0, Zenon DEF TypeOK
    <3>1. w[p] > parent[p] \/ w[p] = parent[p]
      BY Bounds, <1>0, <1>3 DEF TypeOK
    <3>2. w[p] = parent[p]
      BY <3>1, <2>1, <1>0, Zenon DEF WokenFirst
    <3>3. state[w[p]] = "SLEEPING" /\ chan[w[p]] = w[p] /\ w[p] # p
      BY <3>2, <2>1, <1>0, Zenon DEF Places
    <3>4. state' = [state EXCEPT ![w[p]] = "RUNNABLE"]
      BY <3>2, <3>3, Zenon DEF Wakeup
    <3> QED
      BY <3>2, <3>4, <1>0, Zenon DEF TypeOK
  <2>3. pc[p] # "zombie"
    BY <1>1, Zenon
  <2>4. \A u \in Procs \ {p} : w'[u] = w[u]
    BY <1>3, Zenon
  <2>5. \A u \in Procs : parent[u] # None => parent[u] \in Procs
    BY <1>0, Zenon DEF TypeOK
  <2> QED
    BY <2>1, <2>2, <2>4, <2>5, <1>0, <1>2, Zenon DEF WokenFirst
<1>14. NoneMissed'
  BY <1>0, <1>2, <1>3, <1>5, Zenon DEF NoneMissed, WaitLockLabels
<1>15. (WaitLockHeld /\ HandedOver)'
  BY <1>0, <1>2, WaitLockHeldKept, HandedOverKept, Zenon
<1> QED
  BY <1>5, <1>6, <1>7, <1>8, <1>9, <1>10, <1>11, <1>12, <1>13, <1>14, <1>15, Zenon DEF IInv

\* exit() releases wait_lock and switches away for good.
LEMMA ZombieStep ==
  ASSUME IInv, NEW c \in CPUs, NEW p \in Procs,
         Zombie(c, p)
  PROVE  IInv'
<1> USE Basics
<1>0. TypeOK /\ HandOff /\ WaitLockHeld /\ Places /\ InitLives /\ Forking
      /\ Pids /\ Parents /\ HandedOver /\ ParentAwake /\ WokenFirst /\ NoneMissed
  BY Zenon DEF IInv
<1>1. /\ cpu[c] = p /\ ctx[p] = "run" /\ ~panicked
      /\ lock[p] = None
      /\ pc[p] = "zombie"
  BY Zenon DEF Zombie, On
<1>2. UNCHANGED <<chan, killed, parent, pid, cpu, si, k, w, np, havekids, nextpid>>
  BY Zenon DEF Zombie, slot, sched, local
<1>3. /\ lock'[p] = c
      /\ state'[p] = "ZOMBIE"
      /\ wait_lock' = None
      /\ pc'[p] = "user"
      /\ ctx'[p] = "out"
      /\ \A u \in Procs \ {p} : lock'[u] = lock[u] /\ state'[u] = state[u] /\ pc'[u] = pc[u]
         /\ ctx'[u] = ctx[u]
  BY <1>0, ZenonT(30) DEF Zombie, Goto, Sched, TypeOK
<1>4. /\ lock' \in [Procs -> CPUs \cup {None}]
      /\ state' \in [Procs -> ProcState]
      /\ wait_lock' \in CPUs \cup {None}
      /\ pc' \in [Procs -> Labels]
      /\ ctx' \in [Procs -> {"off", "in", "run", "out"}]
      /\ panicked' \in BOOLEAN
  BY <1>0, Zenon DEF Zombie, Goto, Sched, TypeOK, Labels, ProcState
<1>5. TypeOK'
  BY <1>0, <1>2, <1>4, Zenon DEF TypeOK
<1>p. panicked' = FALSE
  <2>1. Held(c)' = {p}
    BY <1>0, <1>1, <1>3 DEF Held, HandOff
  <2>2. Cardinality({p}) = 1
    BY OneLock, Zenon
  <2>3. panicked' = (lock'[p] # c \/ Cardinality(Held(c)') # 1 \/ state'[p] = "RUNNING")
    BY Zenon DEF Zombie, Sched
  <2> QED
    BY <2>1, <2>2, <2>3, <1>3, Zenon
<1>6. HandOff'
  BY <1>0, <1>1, <1>2, <1>3 DEF HandOff, TypeOK
<1>7. WaitLockHeld'
  BY <1>0, <1>1, <1>2, <1>3 DEF WaitLockHeld, ReparentLabels, ChildlessLabels, WaitLockLabels
<1>8. Places'
  BY <1>0, <1>2, <1>3, Zenon DEF Places
<1>9. InitLives'
  BY <1>0, <1>1, <1>2, <1>3, <1>p, Zenon DEF InitLives, Dead, ChildlessLabels
<1>10. Forking'
  <2>1. ForkQuiet
    BY <1>0, <1>1, <1>2, <1>3, Zenon DEF ForkQuiet, ForkLabels, Places, Dead
  <2> QED
    BY <1>0, <2>1, ForkFrame, Zenon
<1>11. Pids'
  BY <1>0, <1>1, <1>2, <1>3, SMTT(30) DEF Pids, HandOff
<1>12. Parents'
  BY <1>0, <1>1, <1>2, <1>3 DEF Parents, HandOff, HandedOver, ChildlessLabels, TypeOK
<1>13. HandedOver'
  BY <1>0, <1>1, <1>2, <1>3, ZenonT(30) DEF HandedOver, ChildlessLabels
<1>14. ParentAwake'
  BY <1>0, <1>1, <1>2, <1>3 DEF ParentAwake, ReparentLabels, InitLives, WokenFirst, TypeOK
<1>15. WokenFirst'
  BY <1>0, <1>2, <1>3 DEF WokenFirst, ReparentLabels, WaitLockLabels, TypeOK
<1>16. NoneMissed'
  BY <1>0, <1>1, <1>3 DEF NoneMissed, WaitLockHeld, ChildlessLabels, WaitLockLabels
<1> QED
  BY <1>5, <1>6, <1>7, <1>8, <1>9, <1>10, <1>11, <1>12, <1>13, <1>14, <1>15, <1>16, Zenon
     DEF IInv

\* wait() is called.
LEMMA WaitStep ==
  ASSUME IInv, NEW c \in CPUs, NEW p \in Procs,
         Wait(c, p)
  PROVE  IInv'
<1> USE Basics
<1>0. TypeOK /\ HandOff /\ WaitLockHeld /\ Places /\ InitLives /\ Forking
      /\ Pids /\ Parents /\ HandedOver /\ ParentAwake /\ WokenFirst /\ NoneMissed
  BY Zenon DEF IInv
<1>1. /\ cpu[c] = p /\ ctx[p] = "run" /\ ~panicked
      /\ pc[p] = "user"
  BY Zenon DEF Wait, MayCall, On
<1>2. UNCHANGED <<state, chan, killed, parent, pid, lock, wait_lock, cpu, si, ctx, k, w, np,
      havekids, nextpid, panicked>>
  BY Zenon DEF Wait, slot, locks, sched, local
<1>3. /\ pc'[p] = "wait"
      /\ \A u \in Procs \ {p} : pc'[u] = pc[u]
  BY <1>0, Zenon DEF Wait, Goto, TypeOK
<1>4. /\ pc' \in [Procs -> Labels]
  BY <1>0, Zenon DEF Wait, Goto, TypeOK, Labels
<1>5. TypeOK'
  BY <1>0, <1>2, <1>4, Zenon DEF TypeOK
<1>6. WaitLockHeld'
  BY <1>0, <1>1, <1>2, <1>3 DEF WaitLockHeld, ReparentLabels, ChildlessLabels, WaitLockLabels,
     TypeOK
<1>7. Places'
  BY <1>0, <1>1, <1>2, <1>3 DEF Places, HandOff, Dead
<1>8. InitLives'
  BY <1>0, <1>1, <1>2, <1>3, Zenon DEF InitLives, ReparentLabels, ChildlessLabels
<1>9. Forking'
  <2>1. ForkQuiet
    BY <1>1, <1>2, <1>3, Zenon DEF ForkQuiet, ForkLabels
  <2> QED
    BY <1>0, <2>1, ForkFrame, Zenon
<1>10. HandedOver'
  BY <1>0, <1>2, <1>3, Zenon DEF HandedOver, ReparentLabels, ChildlessLabels
<1>11. ParentAwake'
  BY <1>0, <1>1, <1>2, <1>3, Zenon DEF ParentAwake
<1>12. WokenFirst'
  BY <1>0, <1>2, <1>3, Zenon DEF WokenFirst, WaitLockLabels
<1>13. NoneMissed'
  BY <1>0, <1>2, <1>3, Zenon DEF NoneMissed
<1>14. (HandOff /\ Pids /\ Parents)'
  BY <1>0, <1>2, HandOffKept, PidsKept, ParentsKept, Zenon
<1> QED
  BY <1>5, <1>6, <1>7, <1>8, <1>9, <1>10, <1>11, <1>12, <1>13, <1>14, Zenon DEF IInv

\* wait() takes wait_lock.
LEMMA WaitLockStep ==
  ASSUME IInv, NEW c \in CPUs, NEW p \in Procs,
         WaitLock(c, p)
  PROVE  IInv'
<1> USE Basics
<1>0. TypeOK /\ HandOff /\ WaitLockHeld /\ Places /\ InitLives /\ Forking
      /\ Pids /\ Parents /\ HandedOver /\ ParentAwake /\ WokenFirst /\ NoneMissed
  BY Zenon DEF IInv
<1>1. /\ cpu[c] = p /\ ctx[p] = "run" /\ ~panicked
      /\ pc[p] = "wait"
      /\ wait_lock = None
  BY Zenon DEF WaitLock, On
<1>2. UNCHANGED <<state, chan, killed, parent, pid, lock, cpu, si, ctx, w, np, nextpid,
      panicked>>
  BY Zenon DEF WaitLock, slot, locks, sched
<1>3. /\ wait_lock' = c
      /\ k'[p] = 1
      /\ havekids'[p] = FALSE
      /\ pc'[p] = "scan"
      /\ \A u \in Procs \ {p} : k'[u] = k[u] /\ havekids'[u] = havekids[u] /\ pc'[u] = pc[u]
  BY <1>0, Zenon DEF WaitLock, Goto, TypeOK
<1>4. /\ wait_lock' \in CPUs \cup {None}
      /\ k' \in [Procs -> 1..NPROC + 1]
      /\ havekids' \in [Procs -> BOOLEAN]
      /\ pc' \in [Procs -> Labels]
  BY Bounds, <1>0, Zenon DEF WaitLock, On, Goto, TypeOK, Labels
<1>5. TypeOK'
  BY <1>0, <1>2, <1>4, Zenon DEF TypeOK
<1>6. WaitLockHeld'
  BY <1>0, <1>1, <1>2, <1>3, ZenonT(30) DEF WaitLockHeld, WaitLockLabels
<1>7. Places'
  BY <1>0, <1>1, <1>2, <1>3 DEF Places, HandOff, Dead
<1>8. InitLives'
  BY <1>0, <1>1, <1>2, <1>3, Zenon DEF InitLives, Dead, ReparentLabels, ChildlessLabels
<1>9. Forking'
  <2>1. ForkQuiet
    BY <1>1, <1>2, <1>3, Zenon DEF ForkQuiet, ForkLabels, HandOff, Dead
  <2> QED
    BY <1>0, <2>1, ForkFrame, Zenon
<1>10. HandedOver'
  BY <1>0, <1>2, <1>3, Zenon DEF HandedOver, ReparentLabels, ChildlessLabels, WaitLockLabels
<1>11. ParentAwake'
  BY <1>0, <1>1, <1>2, <1>3 DEF ParentAwake
<1>12. WokenFirst'
  BY <1>0, <1>2, <1>3, Zenon DEF WokenFirst, ChildlessLabels
<1>13. NoneMissed'
  <2>1. \A j \in Procs : 1 <= j
    BY DEF Procs
  <2> QED
    BY <2>1, <1>0, <1>2, <1>3, ZenonT(30) DEF NoneMissed
<1>14. (HandOff /\ Pids /\ Parents)'
  BY <1>0, <1>2, HandOffKept, PidsKept, ParentsKept, Zenon
<1> QED
  BY <1>5, <1>6, <1>7, <1>8, <1>9, <1>10, <1>11, <1>12, <1>13, <1>14, Zenon DEF IInv

\* wait() passes a slot that is no zombie child.
LEMMA WaitScanStep ==
  ASSUME IInv, NEW c \in CPUs, NEW p \in Procs,
         WaitScan(c, p)
  PROVE  IInv'
<1> USE Basics
<1>0. TypeOK /\ HandOff /\ WaitLockHeld /\ Places /\ InitLives /\ Forking
      /\ Pids /\ Parents /\ HandedOver /\ ParentAwake /\ WokenFirst /\ NoneMissed
  BY Zenon DEF IInv
<1>1. /\ cpu[c] = p /\ ctx[p] = "run" /\ ~panicked
      /\ pc[p] = "scan"
      /\ k[p] <= NPROC
      /\ ~(parent[k[p]] = p /\ state[k[p]] = "ZOMBIE")
  BY Zenon DEF WaitScan, On
<1>2. UNCHANGED <<state, chan, killed, parent, pid, lock, wait_lock, cpu, si, ctx, pc, w, np,
      nextpid, panicked>>
  BY Zenon DEF WaitScan, slot, locks, sched
<1>3. /\ k'[p] = k[p] + 1
      /\ \A u \in Procs \ {p} : k'[u] = k[u]
  BY <1>0, Zenon DEF WaitScan, TypeOK
<1>4. /\ k' \in [Procs -> 1..NPROC + 1]
      /\ havekids' \in [Procs -> BOOLEAN]
  <2>1. k' \in [Procs -> 1..NPROC + 1]
    <3>1. k[p] + 1 \in 1..NPROC + 1 /\ k' = [k EXCEPT ![p] = k[p] + 1]
      BY Bounds, <1>0 DEF WaitScan, TypeOK
    <3> QED
      BY <3>1, <1>0, Zenon DEF TypeOK
  <2>2. havekids' \in [Procs -> BOOLEAN]
    <3>1. havekids' \in {havekids, [havekids EXCEPT ![p] = TRUE]}
      BY Zenon DEF WaitScan
    <3> QED
      BY <3>1, <1>0, Zenon DEF TypeOK
  <2> QED
    BY <2>1, <2>2, Zenon
<1>5. TypeOK'
  BY <1>0, <1>2, <1>4, Zenon DEF TypeOK
<1>6. HandedOver'
  BY <1>0, <1>1, <1>2, <1>3, <1>5, Zenon DEF HandedOver, ReparentLabels
<1>7. NoneMissed'
  <2>1. k[p] \in 1..NPROC + 1
    BY <1>0, Zenon DEF TypeOK
  <2> QED
    BY <2>1, Bounds, <1>0, <1>1, <1>2, <1>3 DEF NoneMissed
<1>8. (HandOff /\ WaitLockHeld /\ Places /\ InitLives /\ Forking /\ Pids /\ Parents /\
      ParentAwake /\ WokenFirst)'
  BY <1>0, <1>2, HandOffKept, WaitLockHeldKept, PlacesKept, InitLivesKept, ForkingKept,
     PidsKept, ParentsKept, ParentAwakeKept, WokenFirstKept, Zenon
<1> QED
  BY <1>5, <1>6, <1>7, <1>8, Zenon DEF IInv

\* wait() frees a zombie whose stack nobody is on.
LEMMA ReapStep ==
  ASSUME IInv, NEW c \in CPUs, NEW p \in Procs,
         Reap(c, p)
  PROVE  IInv'
<1> USE Basics
<1>0. TypeOK /\ HandOff /\ WaitLockHeld /\ Places /\ InitLives /\ Forking
      /\ Pids /\ Parents /\ HandedOver /\ ParentAwake /\ WokenFirst /\ NoneMissed
  BY Zenon DEF IInv
<1>z. PICK z \in Procs : z = k[p]
  BY Bounds, <1>0 DEF Reap, FoundZombie, On, TypeOK
<1>1. /\ cpu[c] = p /\ ctx[p] = "run" /\ ~panicked
      /\ pc[p] = "scan"
      /\ parent[z] = p /\ lock[z] = None /\ state[z] = "ZOMBIE"
  BY <1>z, Zenon DEF Reap, FoundZombie, On
<1>2. UNCHANGED <<lock, cpu, si, ctx, k, w, np, havekids, nextpid, panicked>>
  BY Zenon DEF Reap, sched, local
<1>3. /\ state'[z] = "UNUSED" /\ pid'[z] = 0 /\ parent'[z] = None
      /\ chan'[z] = None /\ killed'[z] = FALSE
      /\ wait_lock' = None /\ pc'[p] = "user"
      /\ \A u \in Procs \ {z} :
           /\ state'[u] = state[u] /\ pid'[u] = pid[u] /\ parent'[u] = parent[u]
           /\ chan'[u] = chan[u] /\ killed'[u] = killed[u]
      /\ \A u \in Procs \ {p} : pc'[u] = pc[u]
  BY <1>0, <1>z DEF Reap, Freeproc, Goto, TypeOK
<1>4. /\ state' \in [Procs -> ProcState]
      /\ pid' \in [Procs -> Nat]
      /\ parent' \in [Procs -> Procs \cup {None}]
      /\ chan' \in [Procs -> Procs \cup {None}]
      /\ killed' \in [Procs -> BOOLEAN]
      /\ wait_lock' \in CPUs \cup {None}
      /\ pc' \in [Procs -> Labels]
  BY <1>0, <1>z, Zenon DEF Reap, Freeproc, Goto, TypeOK, Labels, ProcState
<1>5. TypeOK'
  BY <1>0, <1>2, <1>4, Zenon DEF TypeOK
<1>6. HandOff'
  BY <1>0, <1>1, <1>2, <1>3, SMTT(30) DEF HandOff
<1>7. WaitLockHeld'
  BY <1>0, <1>1, <1>3, SMTT(30) DEF WaitLockHeld, ReparentLabels, ChildlessLabels, WaitLockLabels
<1>8. Places'
  BY <1>0, <1>1, <1>2, <1>3 DEF Places, Dead
<1>9. InitLives'
  BY <1>0, <1>1, <1>2, <1>3, Zenon DEF InitLives, Dead, ReparentLabels, ChildlessLabels
<1>10. Forking'
  <2>1. ForkQuiet
    BY <1>1, <1>2, <1>3, Zenon DEF ForkQuiet, ForkLabels
  <2> QED
    BY <1>0, <2>1, ForkFrame, Zenon
<1>11. Pids'
  <2>1. \A j \in Procs : IF state'[j] = "UNUSED" THEN pid'[j] = 0
                                                 ELSE pid'[j] >= 1 /\ pid'[j] < nextpid'
    BY <1>0, <1>2, <1>3 DEF Pids
  <2>2. \A i, j \in Procs : i # j /\ state'[i] # "UNUSED" => pid'[i] # pid'[j]
    <3>1. \A i \in Procs : state'[i] # "UNUSED" => i # z /\ pid'[i] = pid[i] /\ pid[i] # 0
      BY <1>0, <1>3 DEF Pids
    <3> QED
      BY <1>0, <1>3 DEF Pids
  <2> QED
    BY <2>1, <2>2, Zenon DEF Pids
<1>12. Parents'
  BY <1>0, <1>1, <1>2, <1>3, SMTT(30) DEF Parents, Dead, TypeOK
<1>13. HandedOver'
  BY <1>0, <1>2, <1>3 DEF HandedOver, ReparentLabels, ChildlessLabels
<1>14. ParentAwake'
  BY <1>0, <1>1, <1>2, <1>3 DEF ParentAwake, TypeOK
<1>15. WokenFirst'
  BY <1>0, <1>2, <1>3, SMTT(30) DEF WokenFirst, ChildlessLabels, WaitLockLabels, TypeOK
<1>16. NoneMissed'
  BY <1>0, <1>2, <1>3, SMTT(30) DEF NoneMissed, WaitLockHeld, ChildlessLabels
<1> QED
  BY <1>5, <1>6, <1>7, <1>8, <1>9, <1>10, <1>11, <1>12, <1>13, <1>14, <1>15, <1>16, Zenon
     DEF IInv

\* wait() gives up and leaves the zombie.
LEMMA CopyoutFailsStep ==
  ASSUME IInv, NEW c \in CPUs, NEW p \in Procs,
         CopyoutFails(c, p)
  PROVE  IInv'
<1> USE Basics
<1>0. TypeOK /\ HandOff /\ WaitLockHeld /\ Places /\ InitLives /\ Forking
      /\ Pids /\ Parents /\ HandedOver /\ ParentAwake /\ WokenFirst /\ NoneMissed
  BY Zenon DEF IInv
<1>1. /\ cpu[c] = p /\ ctx[p] = "run" /\ ~panicked
      /\ pc[p] = "scan"
  BY Zenon DEF CopyoutFails, FoundZombie, On, Goto
<1>2. UNCHANGED <<state, chan, killed, parent, pid, lock, cpu, si, ctx, k, w, np, havekids,
      nextpid, panicked>>
  BY Zenon DEF CopyoutFails, slot, sched, local
<1>3. /\ wait_lock' = None
      /\ pc'[p] = "user"
      /\ \A u \in Procs \ {p} : pc'[u] = pc[u]
  BY <1>0, Zenon DEF CopyoutFails, Goto, TypeOK
<1>4. /\ wait_lock' \in CPUs \cup {None}
      /\ pc' \in [Procs -> Labels]
  BY <1>0, Zenon DEF CopyoutFails, Goto, TypeOK, Labels
<1>5. TypeOK'
  BY <1>0, <1>2, <1>4, Zenon DEF TypeOK
<1>6. WaitLockHeld'
  BY <1>0, <1>1, <1>3, Zenon DEF WaitLockHeld, ReparentLabels, ChildlessLabels, WaitLockLabels
<1>7. Places'
  BY <1>0, <1>1, <1>2, <1>3, Zenon DEF Places
<1>8. InitLives'
  BY <1>0, <1>1, <1>2, <1>3, Zenon DEF InitLives, ReparentLabels, ChildlessLabels
<1>9. Forking'
  <2>1. ForkQuiet
    BY <1>1, <1>2, <1>3, Zenon DEF ForkQuiet, ForkLabels
  <2> QED
    BY <1>0, <2>1, ForkFrame, Zenon
<1>10. HandedOver'
  BY <1>0, <1>2, <1>3, Zenon DEF HandedOver, ReparentLabels, ChildlessLabels, WaitLockLabels
<1>11. ParentAwake'
  BY <1>0, <1>1, <1>2, <1>3, Zenon DEF ParentAwake
<1>12. WokenFirst'
  BY <1>0, <1>2, <1>3, Zenon DEF WokenFirst
<1>13. NoneMissed'
  BY <1>0, <1>2, <1>3, Zenon DEF NoneMissed
<1>14. (HandOff /\ Pids /\ Parents)'
  BY <1>0, <1>2, HandOffKept, PidsKept, ParentsKept, Zenon
<1> QED
  BY <1>5, <1>6, <1>7, <1>8, <1>9, <1>10, <1>11, <1>12, <1>13, <1>14, Zenon DEF IInv

\* wait() has nothing to wait for.
LEMMA WaitDecideLeaveStep ==
  ASSUME IInv, NEW c \in CPUs, NEW p \in Procs,
         WaitDecide(c, p), ~havekids[p] \/ killed[p]
  PROVE  IInv'
<1> USE Basics
<1>0. TypeOK /\ HandOff /\ WaitLockHeld /\ Places /\ InitLives /\ Forking
      /\ Pids /\ Parents /\ HandedOver /\ ParentAwake /\ WokenFirst /\ NoneMissed
  BY Zenon DEF IInv
<1>1. /\ cpu[c] = p /\ ctx[p] = "run" /\ ~panicked
      /\ pc[p] = "scan"
  BY Zenon DEF WaitDecide, On, Goto
<1>2. UNCHANGED <<state, chan, killed, parent, pid, lock, cpu, si, ctx, k, w, np, havekids,
      nextpid, panicked>>
  BY Zenon DEF WaitDecide, slot, sched, local
<1>3. /\ wait_lock' = None
      /\ pc'[p] = "user"
      /\ \A u \in Procs \ {p} : pc'[u] = pc[u]
  BY <1>0, <1>1 DEF WaitDecide, Goto, TypeOK
<1>4. /\ wait_lock' \in CPUs \cup {None}
      /\ pc' \in [Procs -> Labels]
  BY <1>0 DEF WaitDecide, On, Goto, TypeOK, Labels
<1>5. TypeOK'
  BY <1>0, <1>2, <1>4, Zenon DEF TypeOK
<1>6. WaitLockHeld'
  BY <1>0, <1>1, <1>3 DEF WaitLockHeld, ReparentLabels, ChildlessLabels, WaitLockLabels
<1>7. Places'
  BY <1>0, <1>1, <1>2, <1>3 DEF Places
<1>8. InitLives'
  BY <1>0, <1>1, <1>2, <1>3, Zenon DEF InitLives, ReparentLabels, ChildlessLabels
<1>9. Forking'
  <2>1. ForkQuiet
    BY <1>1, <1>2, <1>3, Zenon DEF ForkQuiet, ForkLabels
  <2> QED
    BY <1>0, <2>1, ForkFrame, Zenon
<1>10. HandedOver'
  BY <1>0, <1>2, <1>3, Zenon DEF HandedOver, ReparentLabels, ChildlessLabels
<1>11. ParentAwake'
  BY <1>0, <1>1, <1>2, <1>3, ZenonT(30) DEF ParentAwake
<1>12. WokenFirst'
  BY <1>0, <1>2, <1>3, Zenon DEF WokenFirst
<1>13. NoneMissed'
  BY <1>0, <1>2, <1>3 DEF NoneMissed
<1>14. (HandOff /\ Pids /\ Parents)'
  BY <1>0, <1>2, HandOffKept, PidsKept, ParentsKept, Zenon
<1> QED
  BY <1>5, <1>6, <1>7, <1>8, <1>9, <1>10, <1>11, <1>12, <1>13, <1>14, Zenon DEF IInv

\* wait() has seen every slot, and no zombie child.
LEMMA WaitDecideSleepStep ==
  ASSUME IInv, NEW c \in CPUs, NEW p \in Procs,
         WaitDecide(c, p), ~(~havekids[p] \/ killed[p])
  PROVE  IInv'
<1> USE Basics
<1>0. TypeOK /\ HandOff /\ WaitLockHeld /\ Places /\ InitLives /\ Forking
      /\ Pids /\ Parents /\ HandedOver /\ ParentAwake /\ WokenFirst /\ NoneMissed
  BY Zenon DEF IInv
<1>1. /\ cpu[c] = p /\ ctx[p] = "run" /\ ~panicked
      /\ pc[p] = "scan"
      /\ k[p] > NPROC
  BY Zenon DEF WaitDecide, On
<1>2. UNCHANGED <<state, chan, killed, parent, pid, lock, wait_lock, cpu, si, ctx, k, w, np,
      havekids, nextpid, panicked>>
  BY Zenon DEF WaitDecide, slot, sched, local
<1>3. /\ pc'[p] = "sleep"
      /\ \A u \in Procs \ {p} : pc'[u] = pc[u]
  BY <1>0 DEF WaitDecide, Goto, TypeOK
<1>4. /\ pc' \in [Procs -> Labels]
  BY <1>0 DEF WaitDecide, Goto, TypeOK, Labels
<1>5. TypeOK'
  BY <1>0, <1>2, <1>4, Zenon DEF TypeOK
<1>6. WaitLockHeld'
  BY <1>0, <1>1, <1>2, <1>3, Zenon DEF WaitLockHeld, WaitLockLabels
<1>7. Places'
  BY <1>0, <1>1, <1>2, <1>3 DEF Places
<1>8. InitLives'
  BY <1>0, <1>2, <1>3, Zenon DEF InitLives, ReparentLabels, ChildlessLabels
<1>9. Forking'
  <2>1. ForkQuiet
    BY <1>1, <1>2, <1>3, Zenon DEF ForkQuiet, ForkLabels
  <2> QED
    BY <1>0, <2>1, ForkFrame, Zenon
<1>10. HandedOver'
  BY <1>0, <1>2, <1>3, Zenon DEF HandedOver, ReparentLabels, ChildlessLabels
<1>11. ParentAwake'
  BY <1>0, <1>1, <1>2, <1>3, Zenon DEF ParentAwake
<1>12. WokenFirst'
  BY <1>0, <1>2, <1>3, Zenon DEF WokenFirst
<1>13. NoneMissed'
  <2>1. \A j \in Procs : ~(k[p] <= j)
    BY Bounds, <1>0, <1>1, SMTT(30) DEF TypeOK
  <2> QED
    BY <2>1, <1>0, <1>1, <1>2, <1>3 DEF NoneMissed
<1>14. (HandOff /\ Pids /\ Parents)'
  BY <1>0, <1>2, HandOffKept, PidsKept, ParentsKept, Zenon
<1> QED
  BY <1>5, <1>6, <1>7, <1>8, <1>9, <1>10, <1>11, <1>12, <1>13, <1>14, Zenon DEF IInv

\* wait() sleeps, and releases wait_lock only with p->lock held.
LEMMA SleepStep ==
  ASSUME IInv, NEW c \in CPUs, NEW p \in Procs,
         Sleep(c, p)
  PROVE  IInv'
<1> USE Basics
<1>0. TypeOK /\ HandOff /\ WaitLockHeld /\ Places /\ InitLives /\ Forking
      /\ Pids /\ Parents /\ HandedOver /\ ParentAwake /\ WokenFirst /\ NoneMissed
  BY Zenon DEF IInv
<1>1. /\ cpu[c] = p /\ ctx[p] = "run" /\ ~panicked
      /\ lock[p] = None
      /\ pc[p] = "sleep"
  BY Zenon DEF Sleep, On
<1>2. UNCHANGED <<killed, parent, pid, cpu, si, k, w, np, havekids, nextpid>>
  BY Zenon DEF Sleep, slot, sched, local
<1>3. /\ lock'[p] = c
      /\ state'[p] = "SLEEPING"
      /\ chan'[p] = p
      /\ wait_lock' = None
      /\ pc'[p] = "wait"
      /\ ctx'[p] = "out"
      /\ \A u \in Procs \ {p} : lock'[u] = lock[u] /\ state'[u] = state[u] /\ chan'[u] =
         chan[u] /\ pc'[u] = pc[u] /\ ctx'[u] = ctx[u]
  BY <1>0, ZenonT(30) DEF Sleep, Goto, Sched, TypeOK
<1>4. /\ lock' \in [Procs -> CPUs \cup {None}]
      /\ state' \in [Procs -> ProcState]
      /\ chan' \in [Procs -> Procs \cup {None}]
      /\ wait_lock' \in CPUs \cup {None}
      /\ pc' \in [Procs -> Labels]
      /\ ctx' \in [Procs -> {"off", "in", "run", "out"}]
      /\ panicked' \in BOOLEAN
  BY <1>0, Zenon DEF Sleep, Goto, Sched, TypeOK, Labels, ProcState
<1>5. TypeOK'
  BY <1>0, <1>2, <1>4, Zenon DEF TypeOK
<1>p. panicked' = FALSE
  <2>1. Held(c)' = {p}
    BY <1>0, <1>1, <1>3 DEF Held, HandOff
  <2>2. Cardinality({p}) = 1
    BY OneLock, Zenon
  <2>3. panicked' = (lock'[p] # c \/ Cardinality(Held(c)') # 1 \/ state'[p] = "RUNNING")
    BY Zenon DEF Sleep, Sched
  <2> QED
    BY <2>1, <2>2, <2>3, <1>3, Zenon
<1>6. HandOff'
  BY <1>0, <1>1, <1>2, <1>3 DEF HandOff, TypeOK
<1>7. WaitLockHeld'
  BY <1>0, <1>1, <1>3 DEF WaitLockHeld, ReparentLabels, ChildlessLabels, WaitLockLabels
<1>8. Places'
  BY <1>0, <1>3, Zenon DEF Places, Dead
<1>9. InitLives'
  BY <1>0, <1>1, <1>2, <1>3, <1>p, ZenonT(30) DEF InitLives, Dead, ReparentLabels, ChildlessLabels
<1>10. Forking'
  <2>1. ForkQuiet
    BY <1>0, <1>1, <1>2, <1>3, Zenon DEF ForkQuiet, ForkLabels, Places, Dead
  <2> QED
    BY <1>0, <2>1, ForkFrame, Zenon
<1>11. Pids'
  BY <1>0, <1>1, <1>2, <1>3, SMTT(30) DEF Pids, HandOff
<1>12. Parents'
  BY <1>0, <1>1, <1>2, <1>3 DEF Parents, HandOff, Dead, TypeOK
<1>13. HandedOver'
  BY <1>0, <1>2, <1>3, Zenon DEF HandedOver, ReparentLabels, ChildlessLabels
<1>14. ParentAwake'
  BY <1>0, <1>1, <1>2, <1>3, <1>5 DEF ParentAwake, NoneMissed, TypeOK
<1>15. WokenFirst'
  BY <1>0, <1>1, <1>3 DEF WokenFirst, WaitLockHeld, ChildlessLabels, WaitLockLabels
<1>16. NoneMissed'
  BY <1>0, <1>2, <1>3, ZenonT(30) DEF NoneMissed
<1> QED
  BY <1>5, <1>6, <1>7, <1>8, <1>9, <1>10, <1>11, <1>12, <1>13, <1>14, <1>15, <1>16, Zenon
     DEF IInv

\* kill() marks one process and wakes it.
LEMMA KillStep ==
  ASSUME IInv, NEW c \in CPUs, NEW p \in Procs, NEW n,
         Kill(c, p, n)
  PROVE  IInv'
<1> USE Basics
<1>0. TypeOK /\ HandOff /\ WaitLockHeld /\ Places /\ InitLives /\ Forking
      /\ Pids /\ Parents /\ HandedOver /\ ParentAwake /\ WokenFirst /\ NoneMissed
  BY Zenon DEF IInv
<1>q. PICK q \in Procs :
        /\ pid[q] = n /\ lock[q] = None
        /\ killed' = [killed EXCEPT ![q] = TRUE]
        /\ state' = IF state[q] = "SLEEPING" THEN [state EXCEPT ![q] = "RUNNABLE"] ELSE state
  BY Zenon DEF Kill
<1>1. /\ cpu[c] = p /\ ctx[p] = "run" /\ ~panicked
      /\ lock[q] = None
  BY <1>q, Zenon DEF Kill, MayCall, On
<1>2. UNCHANGED <<chan, parent, pid, lock, wait_lock, cpu, si, ctx, pc, k, w, np, havekids,
      nextpid, panicked>>
  BY Zenon DEF Kill, locks, sched, local
<1>3. /\ killed'[q] = TRUE
      /\ \A u \in Procs \ {q} : killed'[u] = killed[u]
      /\ \A u \in Procs : state'[u] # state[u] =>
           u = q /\ state[u] = "SLEEPING" /\ state'[u] = "RUNNABLE"
  BY <1>q, <1>0, Zenon DEF TypeOK
<1>4. /\ killed' \in [Procs -> BOOLEAN]
      /\ state' \in [Procs -> ProcState]
  BY <1>q, <1>0, Zenon DEF TypeOK, ProcState
<1>5. TypeOK'
  BY <1>0, <1>2, <1>4, Zenon DEF TypeOK
<1>6. HandOff'
  BY <1>0, <1>2, <1>3 DEF HandOff
<1>7. Places'
  BY <1>0, <1>2, <1>3, Zenon DEF Places, Dead
<1>8. InitLives'
  BY <1>0, <1>2, <1>3, Zenon DEF InitLives, Dead, ChildlessLabels
<1>9. Forking'
  <2>1. ForkQuiet
    BY <1>2, <1>3, Zenon DEF ForkQuiet
  <2> QED
    BY <1>0, <2>1, ForkFrame, Zenon
<1>10. Pids'
  BY <1>0, <1>2, <1>3, Zenon DEF Pids
<1>11. Parents'
  BY <1>0, <1>2, <1>3, SMTT(30) DEF Parents, Dead, TypeOK
<1>12. ParentAwake'
  BY <1>0, <1>2, <1>3, SMTT(30) DEF ParentAwake, TypeOK
<1>13. WokenFirst'
  BY <1>0, <1>2, <1>3 DEF WokenFirst, TypeOK
<1>14. NoneMissed'
  <2>1. \A j \in Procs : state'[j] = "ZOMBIE" => state[j] = "ZOMBIE"
    BY <1>3, Zenon
  <2> QED
    BY <2>1, <1>0, <1>2, Zenon DEF NoneMissed
<1>15. (WaitLockHeld /\ HandedOver)'
  BY <1>0, <1>2, WaitLockHeldKept, HandedOverKept, Zenon
<1> QED
  BY <1>5, <1>6, <1>7, <1>8, <1>9, <1>10, <1>11, <1>12, <1>13, <1>14, <1>15, Zenon DEF IInv

-----------------------------------------------------------------------------
LEMMA InitInv == Init => IInv
<1> SUFFICES ASSUME Init PROVE IInv
  BY Zenon
<1> USE Basics
<1>1. TypeOK
  BY Bounds, ProcAssumption, Zenon DEF Init, TypeOK, ProcState, Labels, Procs
<1>2. HandOff /\ WaitLockHeld /\ Places
  BY Zenon DEF Init, HandOff, WaitLockHeld, Places, WaitLockLabels, ReparentLabels, ChildlessLabels, Dead
<1>3. InitLives
  BY Zenon DEF Init, InitLives, ReparentLabels, ChildlessLabels, Dead
<1>4. Forking /\ Pids
  BY DEF Init, Forking, ForkLabels, Pids
<1>5. Parents /\ HandedOver /\ ParentAwake /\ WokenFirst /\ NoneMissed
  BY Zenon DEF Init, Parents, HandedOver, ParentAwake, WokenFirst, NoneMissed
<1> QED
  BY <1>1, <1>2, <1>3, <1>4, <1>5, Zenon DEF IInv

LEMMA NextInv == IInv /\ [Next]_vars => IInv'
<1> SUFFICES ASSUME IInv, [Next]_vars PROVE IInv'
  BY Zenon
<1>1. ASSUME NEW c \in CPUs, Scheduler(c) PROVE IInv'
  BY <1>1, SchedulerRunStep, SchedulerSkipStep, Zenon
<1>2. ASSUME NEW c \in CPUs, SchedReturn(c) PROVE IInv'
  BY <1>2, SchedReturnStep, Zenon
<1>3. ASSUME NEW c \in CPUs, NEW p \in Procs, Running(c, p) PROVE IInv'
  <2>1. CASE Resume(c, p) \/ Yield(c, p)
    BY <2>1, ResumeStep, YieldStep, Zenon
  <2>2. CASE Fork(c, p) \/ ForkFails(c, p) \/ ForkParent(c, p) \/ ForkRun(c, p)
    BY <2>2, ForkStep, ForkFailsStep, ForkParentStep, ForkRunStep, Zenon
  <2>3. CASE Exit(c, p) \/ ExitLock(c, p) \/ Zombie(c, p)
    BY <2>3, ExitStep, ExitLockStep, ZombieStep, Zenon
  <2>4. CASE Reparent(c, p)
    BY <2>4, ReparentDoneStep, ReparentAdoptStep, ReparentSkipStep, Zenon
  <2>5. CASE Wakeup(c, p)
    BY <2>5, WakeupDoneStep, WakeupOneStep, Zenon
  <2>6. CASE Wait(c, p) \/ WaitLock(c, p) \/ WaitScan(c, p) \/ Reap(c, p) \/ CopyoutFails(c, p)
    BY <2>6, WaitStep, WaitLockStep, WaitScanStep, ReapStep, CopyoutFailsStep, Zenon
  <2>7. CASE WaitDecide(c, p) \/ Sleep(c, p)
    BY <2>7, WaitDecideLeaveStep, WaitDecideSleepStep, SleepStep, Zenon
  <2>8. CASE \E n \in KillPids : Kill(c, p, n)
    BY <2>8, KillStep, Zenon
  <2> QED
    BY <1>3, <2>1, <2>2, <2>3, <2>4, <2>5, <2>6, <2>7, <2>8, Zenon DEF Running
<1>4. CASE UNCHANGED vars
  <2>1. UNCHANGED <<state, chan, killed, parent, pid, lock, wait_lock, cpu, si, ctx, pc, k, w,
                    np, havekids, nextpid, panicked>>
    BY <1>4, Zenon DEF vars, slot, locks, sched, local
  <2>2. TypeOK'
    BY <2>1, Zenon DEF IInv, TypeOK
  <2>3. HandOff' /\ WaitLockHeld' /\ Places' /\ InitLives' /\ Forking' /\ Pids'
    BY <2>1, HandOffKept, WaitLockHeldKept, PlacesKept, InitLivesKept, ForkingKept, PidsKept,
       Zenon DEF IInv
  <2>4. Parents' /\ HandedOver' /\ ParentAwake' /\ WokenFirst' /\ NoneMissed'
    BY <2>1, ParentsKept, HandedOverKept, ParentAwakeKept, WokenFirstKept, NoneMissedKept,
       Zenon DEF IInv
  <2> QED
    BY <2>2, <2>3, <2>4, Zenon DEF IInv
<1> QED
  BY <1>1, <1>2, <1>3, <1>4, Zenon DEF Next

(***************************************************************************)
(* The inductive invariant of the process table holds in every reachable   *)
(* state, whatever the number of CPUs and slots and whoever is killed.     *)
(***************************************************************************)
THEOREM ProcInvariant == Spec => []IInv
  BY InitInv, NextInv, PTL DEF Spec

(***************************************************************************)
(* No two CPUs are on one kernel stack, and allocproc() never hands out a  *)
(* slot whose stack is in use: wait() cannot free a zombie before its last *)
(* swtch() is over.                                                        *)
(***************************************************************************)
THEOREM StackIsOneCpus == Spec => []OneCpuPerStack
<1>1. IInv => OneCpuPerStack
  BY Basics, SMTT(30) DEF IInv, TypeOK, HandOff, OneCpuPerStack
<1> QED
  BY <1>1, ProcInvariant, PTL, SMTT(30)

(***************************************************************************)
(* exit() loses no wakeup: a parent is never asleep in wait() on a zombie  *)
(* child once wait_lock is free.                                           *)
(***************************************************************************)
THEOREM WakeupIsNotLost == Spec => []NoLostWakeup
<1>1. IInv => NoLostWakeup
  BY Basics DEF IInv, TypeOK, ParentAwake, WaitLockHeld, WaitLockLabels, ReparentLabels,
     NoLostWakeup
<1> QED
  BY <1>1, ProcInvariant, PTL

(***************************************************************************)
(* Every process has a parent that can still wait for it, and its own pid: *)
(* reparent() and fork() leave no orphan behind when they release          *)
(* wait_lock.                                                              *)
(***************************************************************************)
THEOREM NobodyIsOrphaned == Spec => []EveryoneHasParent
<1>1. IInv => EveryoneHasParent
  <2> SUFFICES ASSUME IInv PROVE EveryoneHasParent
    BY Zenon
  <2>1. ASSUME NEW p \in Procs \ {initproc}
        PROVE  \/ state[p] = "UNUSED"
               \/ state[p] = "USED" /\ \E q \in Procs : pc[q] = "fork_parent" /\ np[q] = p
               \/ parent[p] # None /\ state[parent[p]] \notin {"UNUSED", "USED", "ZOMBIE"}
    <3>1. CASE state[p] = "USED"
      <4>1. PICK q \in Procs : pc[q] \in ForkLabels /\ np[q] = p
        BY <3>1, Zenon DEF IInv, Forking
      <4> QED
        BY <3>1, <4>1, Basics, SMTT(30) DEF IInv, Forking, ForkLabels, Parents, Dead
    <3>2. CASE state[p] # "USED"
      BY <3>2, Zenon DEF IInv, Parents, Dead
    <3> QED
      BY <3>1, <3>2, Zenon
  <2>2. \A p, q \in Procs : p # q /\ state[p] # "UNUSED" => pid[p] # pid[q]
    BY Zenon DEF IInv, Pids
  <2> QED
    BY <2>1, <2>2, Zenon DEF EveryoneHasParent
<1> QED
  BY <1>1, ProcInvariant, PTL

(***************************************************************************)
(* Whoever kills whom, the checks of sched() and release() hold: a panic   *)
(* is init exiting because it was killed.                                  *)
(***************************************************************************)
THEOREM OnlyInitPanics == Spec => [](panicked => killed[initproc])
<1>1. IInv => (panicked => killed[initproc])
  BY Zenon DEF IInv, InitLives
<1> QED
  BY <1>1, ProcInvariant, PTL

-----------------------------------------------------------------------------
(* The killed flag. *)

InitSpared == ~killed[initproc]
FreeUnmarked == \A q \in Procs : state[q] = "UNUSED" => ~killed[q]

\* What most steps do with the flags and the free slots: nothing.
Keeps == killed' = killed /\ \A q \in Procs : state'[q] = "UNUSED" => state[q] = "UNUSED"

LEMMA FlagSteps ==
  ASSUME IInv, [Next]_vars
  PROVE  \/ Keeps
         \/ \E c \in CPUs, p \in Procs :
              Reap(c, p) \/ ForkFails(c, p) \/ \E n \in KillPids : Kill(c, p, n)
<1>1. TypeOK /\ \A p \in Procs : pc[p] \in ForkLabels => np[p] \in Procs
  BY Zenon DEF IInv, Forking
<1>2. ASSUME NEW c \in CPUs, Scheduler(c) \/ SchedReturn(c) PROVE Keeps
  BY <1>1, <1>2, SMTT(30) DEF Scheduler, SchedReturn, slot, Keeps, TypeOK
<1>3. ASSUME NEW c \in CPUs, NEW p \in Procs, Resume(c, p) \/ Yield(c, p) PROVE Keeps
  BY <1>1, <1>3, Zenon DEF Resume, Yield, slot, Keeps, TypeOK
<1>4. ASSUME NEW c \in CPUs, NEW p \in Procs, Fork(c, p) \/ ForkParent(c, p) \/ ForkRun(c, p)
      PROVE  Keeps
  BY <1>1, <1>4, SMTT(30) DEF Fork, Allocproc, ForkParent, ForkRun, ForkLabels, slot, Keeps, TypeOK
<1>5. ASSUME NEW c \in CPUs, NEW p \in Procs,
             Exit(c, p) \/ ExitLock(c, p) \/ Reparent(c, p) \/ Zombie(c, p)
      PROVE  Keeps
  BY <1>1, <1>5, Zenon DEF Exit, ExitLock, Reparent, Zombie, slot, Keeps, TypeOK
<1>6. ASSUME NEW c \in CPUs, NEW p \in Procs, Wakeup(c, p) PROVE Keeps
  <2>1. killed' = killed /\ state' \in {state, [state EXCEPT ![w[p]] = "RUNNABLE"]}
    BY <1>6, Zenon DEF Wakeup, slot
  <2> QED
    BY <1>1, <2>1, Zenon DEF Keeps, TypeOK
<1>7. ASSUME NEW c \in CPUs, NEW p \in Procs,
             Wait(c, p) \/ WaitLock(c, p) \/ WaitScan(c, p) \/ CopyoutFails(c, p)
      PROVE  Keeps
  BY <1>7, Zenon DEF Wait, WaitLock, WaitScan, CopyoutFails, slot, Keeps
<1>8. ASSUME NEW c \in CPUs, NEW p \in Procs, WaitDecide(c, p) \/ Sleep(c, p) PROVE Keeps
  BY <1>1, <1>8, Zenon DEF WaitDecide, Sleep, slot, Keeps, TypeOK
<1>9. CASE UNCHANGED vars
  BY <1>9, Zenon DEF vars, slot, Keeps
<1> QED
  BY <1>2, <1>3, <1>4, <1>5, <1>6, <1>7, <1>8, <1>9, Zenon DEF Next, Running

(***************************************************************************)
(* Unless somebody kills init, whose pid is 1, there is no panic.          *)
(***************************************************************************)
THEOREM SchedNeverPanics ==
  ASSUME 1 \notin KillPids
  PROVE  Spec => []NoPanic
<1>1. Init => InitSpared
  BY Basics, Zenon DEF Init, InitSpared
<1>2. IInv /\ InitSpared /\ [Next]_vars => InitSpared'
  <2> SUFFICES ASSUME IInv, InitSpared, [Next]_vars PROVE InitSpared'
    BY Zenon
  <2>1. killed \in [Procs -> BOOLEAN] /\ pid[initproc] = 1 /\ ~killed[initproc]
    BY Zenon DEF IInv, TypeOK, InitLives, InitSpared
  <2>2. ASSUME NEW c \in CPUs, NEW p \in Procs, Reap(c, p) \/ ForkFails(c, p)
        PROVE  InitSpared'
    BY <2>1, <2>2, Basics, Zenon DEF Reap, Freeproc, ForkFails, InitSpared
  <2>3. ASSUME NEW c \in CPUs, NEW p \in Procs, NEW n \in KillPids, Kill(c, p, n)
        PROVE  InitSpared'
    BY <2>1, <2>3, Basics, Zenon DEF Kill, InitSpared
  <2> QED
    BY <2>1, <2>2, <2>3, FlagSteps, Zenon DEF Keeps, InitSpared
<1>3. IInv /\ InitSpared => NoPanic
  BY Zenon DEF IInv, InitLives, InitSpared, NoPanic
<1> QED
  BY <1>1, <1>2, <1>3, ProcInvariant, PTL DEF Spec

(***************************************************************************)
(* Unless somebody calls kill(0), which marks a free slot, a process is    *)
(* born alive: allocproc() hands out no slot with a stale killed flag.     *)
(***************************************************************************)
THEOREM ProcsAreBornAlive ==
  ASSUME 0 \notin KillPids
  PROVE  Spec => BornAlive
<1>1. Init => FreeUnmarked
  BY Zenon DEF Init, FreeUnmarked
<1>2. ASSUME IInv, FreeUnmarked, [Next]_vars
      PROVE  /\ FreeUnmarked'
             /\ \A q \in Procs : state[q] = "UNUSED" /\ state'[q] = "USED" => ~killed'[q]
  <2>1. TypeOK /\ \A q \in Procs : state[q] = "UNUSED" => pid[q] = 0 /\ ~killed[q]
    BY <1>2, Zenon DEF IInv, Pids, FreeUnmarked
  <2>2. CASE Keeps
    BY <2>1, <2>2, Zenon DEF Keeps, FreeUnmarked
  <2>3. ASSUME NEW c \in CPUs, NEW p \in Procs, Reap(c, p)
        PROVE  \A q \in Procs : state'[q] = "UNUSED" \/ state[q] = "UNUSED" => ~killed'[q]
    <3>1. k[p] \in Procs
      BY <2>1, <2>3, Bounds, SMTT(30) DEF Reap, FoundZombie, TypeOK
    <3> QED
      BY <2>1, <2>3, <3>1, Zenon DEF Reap, Freeproc, TypeOK
  <2>4. ASSUME NEW c \in CPUs, NEW p \in Procs, ForkFails(c, p)
        PROVE  \A q \in Procs : state'[q] = "UNUSED" \/ state[q] = "UNUSED" => ~killed'[q]
    BY <2>1, <2>4, Zenon DEF ForkFails, TypeOK
  <2>5. ASSUME NEW c \in CPUs, NEW p \in Procs, NEW n \in KillPids, Kill(c, p, n)
        PROVE  \A q \in Procs : state'[q] = "UNUSED" \/ state[q] = "UNUSED" => ~killed'[q]
    BY <2>1, <2>5 DEF Kill, TypeOK
  <2> QED
    BY <1>2, <2>2, <2>3, <2>4, <2>5, FlagSteps, Zenon DEF FreeUnmarked
<1>3. IInv /\ FreeUnmarked /\ [Next]_vars => FreeUnmarked'
  BY <1>2, Zenon
<1>4. IInv /\ FreeUnmarked /\ [Next]_vars =>
        [\A q \in Procs : state[q] = "UNUSED" /\ state'[q] = "USED" => ~killed'[q]]_vars
  BY <1>2, Zenon
<1> QED
  BY <1>1, <1>3, <1>4, ProcInvariant, PTL DEF Spec, BornAlive
=============================================================================
