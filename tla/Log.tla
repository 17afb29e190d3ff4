-------------------------------- MODULE Log ---------------------------------
(***************************************************************************)
(* The redo log of kernel/log.c, over the buffer cache and a disk that     *)
(* writes one block atomically.  Every disk write is a step of its own and *)
(* the machine may lose power between any two of them.  The code between   *)
(* acquire(&log.lock) and release(&log.lock) is one step.                  *)
(***************************************************************************)
EXTENDS Integers, Sequences, FiniteSets

CONSTANTS Ops,          \* threads that make file-system calls
          Blocks,       \* home block numbers
          Values,       \* block contents
          InitVal,      \* contents of every block of a fresh file system
          Nil,          \* no buffer
          MAXOPBLOCKS,  \* blocks begin_op() reserves for a call
          LOGSIZE,      \* entries of struct logheader
          SIZE,         \* log.size: blocks of the on-disk log, header included
          OpBlocks,     \* distinct blocks a call really writes
          MaxCalls,     \* bound: calls a thread makes
          MaxCrashes    \* bound: power failures

ASSUME LogAssumption ==
  /\ IsFiniteSet(Ops) /\ IsFiniteSet(Blocks)
  /\ InitVal \in Values
  /\ Nil \notin Values \cup Blocks
  /\ MAXOPBLOCKS \in Nat \ {0} /\ LOGSIZE \in Nat \ {0} /\ SIZE \in Nat \ {0}
  /\ OpBlocks \in Nat /\ OpBlocks <= MAXOPBLOCKS
  /\ MaxCalls \in Nat /\ MaxCrashes \in Nat

VARIABLES
  lh,           \* log.lh in memory: block numbers 0..n-1
  outstanding,  \* log.outstanding
  committing,   \* log.committing
  pc,           \* where each thread is
  buf,          \* the buffer a thread has modified and still holds locked
  wrote,        \* blocks the current call of a thread has logged
  calls,        \* calls a thread has started
  cache,        \* buffer cache: contents, or Nil when not cached
  pin,          \* references log_write() holds on each buffer
  home,         \* disk: blocks at their home location
  logdata,      \* disk: log blocks start+1 .. start+LOGSIZE
  hdr,          \* disk: log header block
  phase,        \* what the thread inside commit() or initlog() does next
  tail,         \* its loop counter
  panicked,     \* panic() was called
  crashes       \* power failures so far

disk == <<home, logdata, hdr>>
mem == <<lh, outstanding, committing>>
thread == <<pc, buf, wrote, calls>>
job == <<phase, tail>>
vars == <<mem, thread, cache, pin, disk, job, panicked, crashes>>

Recovery == {"read_head", "recover", "recover_erase"}
Committing == {"commit", "write_log", "install", "erase", "end_commit"}

\* initlog() has returned and the kernel has not panicked.
Up == phase \notin Recovery /\ ~panicked

Logged(b) == \E i \in DOMAIN lh : lh[i] = b

\* bread(): the cached contents, or those on disk.
Bread(b) == IF cache[b] # Nil THEN cache[b] ELSE home[b]

\* Faulty variant: no thread is woken.
WakeupNobody(p) == p

\* wakeup(&log): every thread asleep in begin_op() retries.
Wakeup(p) == [o \in Ops |-> IF p[o] = "sleep" THEN "begin" ELSE p[o]]

Init ==
  /\ lh = <<>> /\ outstanding = 0 /\ committing = FALSE
  /\ pc = [op \in Ops |-> "idle"]
  /\ buf = [op \in Ops |-> Nil]
  /\ wrote = [op \in Ops |-> {}]
  /\ calls = [op \in Ops |-> 0]
  /\ cache = [b \in Blocks |-> Nil]
  /\ pin = [b \in Blocks |-> 0]
  /\ home = [b \in Blocks |-> InitVal]
  /\ logdata = [i \in 1..LOGSIZE |-> InitVal]
  /\ hdr = <<>>
  /\ phase = "read_head" /\ tail = 0
  /\ panicked = FALSE /\ crashes = 0

-----------------------------------------------------------------------------
(* System calls. *)

\* A thread enters a file-system call and calls begin_op().
Call(op) ==
  /\ Up /\ pc[op] = "idle" /\ calls[op] < MaxCalls
  /\ pc' = [pc EXCEPT ![op] = "begin"]
  /\ calls' = [calls EXCEPT ![op] = @ + 1]
  /\ UNCHANGED <<mem, buf, wrote, cache, pin, disk, job, panicked, crashes>>

\* Faulty variants: admission during a commit; reservations not counted.
MustWaitForSpaceOnly == Len(lh) + (outstanding + 1) * MAXOPBLOCKS > LOGSIZE
MustWaitUncounted == committing \/ Len(lh) + MAXOPBLOCKS > LOGSIZE

MustWait ==
  committing \/ Len(lh) + (outstanding + 1) * MAXOPBLOCKS > LOGSIZE

BeginSleep(op) ==
  /\ Up /\ pc[op] = "begin"
  /\ MustWait
  /\ pc' = [pc EXCEPT ![op] = "sleep"]
  /\ UNCHANGED <<mem, buf, wrote, calls, cache, pin, disk, job, panicked, crashes>>

BeginAdmit(op) ==
  /\ Up /\ pc[op] = "begin"
  /\ ~MustWait
  /\ outstanding' = outstanding + 1
  /\ pc' = [pc EXCEPT ![op] = "active"]
  /\ wrote' = [wrote EXCEPT ![op] = {}]
  /\ UNCHANGED <<lh, committing, buf, calls, cache, pin, disk, job, panicked, crashes>>

\* kill() makes a sleeping thread runnable without a wakeup(&log).
KillWakes(op) ==
  /\ Up /\ pc[op] = "sleep"
  /\ pc' = [pc EXCEPT ![op] = "begin"]
  /\ UNCHANGED <<mem, buf, wrote, calls, cache, pin, disk, job, panicked, crashes>>

\* bp = bread(b); the call changes bp->data and keeps the buffer locked.
Modify(op, b, v) ==
  /\ Up /\ pc[op] = "active" /\ buf[op] = Nil
  /\ \A o \in Ops : buf[o] # b
  /\ Cardinality(wrote[op] \cup {b}) <= OpBlocks
  /\ cache' = [cache EXCEPT ![b] = v]
  /\ buf' = [buf EXCEPT ![op] = b]
  /\ UNCHANGED <<mem, pc, wrote, calls, pin, disk, job, panicked, crashes>>

\* The two panics of log_write().
LogWritePanics ==
  Len(lh) >= LOGSIZE \/ Len(lh) + 1 >= SIZE \/ outstanding < 1

\* log_write(bp); brelse(bp)
LogWrite(op) ==
  /\ Up /\ buf[op] # Nil
  /\ panicked' = LogWritePanics
  /\ IF LogWritePanics \/ Logged(buf[op])
       THEN UNCHANGED <<lh, pin>>
       ELSE /\ lh' = Append(lh, buf[op])
            /\ pin' = [pin EXCEPT ![buf[op]] = @ + 1]
  /\ IF LogWritePanics
       THEN UNCHANGED <<buf, wrote>>
       ELSE /\ wrote' = [wrote EXCEPT ![op] = @ \cup {buf[op]}]
            /\ buf' = [buf EXCEPT ![op] = Nil]
  /\ UNCHANGED <<outstanding, committing, pc, calls, cache, disk, job, crashes>>

\* end_op() up to its first release(&log.lock); it panics when committing.
EndOp(op) ==
  /\ Up /\ pc[op] = "active" /\ buf[op] = Nil
  /\ outstanding' = outstanding - 1
  /\ panicked' = committing
  /\ IF outstanding' = 0 /\ ~committing
       THEN /\ committing' = TRUE
            /\ pc' = [pc EXCEPT ![op] = "commit"]
            /\ phase' = "commit"
       ELSE /\ pc' = Wakeup([pc EXCEPT ![op] = "idle"])
            /\ UNCHANGED <<committing, phase>>
  /\ UNCHANGED <<lh, buf, wrote, calls, cache, pin, disk, tail, crashes>>

-----------------------------------------------------------------------------
(* commit(), one step per disk write. *)

\* Faulty variant: a transaction of one block is not committed.
StartCommitOffByOne ==
  /\ Up /\ phase = "commit"
  /\ phase' = IF Len(lh) <= 1 THEN "end_commit" ELSE "write_log"
  /\ tail' = 0
  /\ UNCHANGED <<mem, thread, cache, pin, disk, panicked, crashes>>

\* if (log.lh.n > 0)
StartCommit ==
  /\ Up /\ phase = "commit"
  /\ phase' = IF lh = <<>> THEN "end_commit" ELSE "write_log"
  /\ tail' = 0
  /\ UNCHANGED <<mem, thread, cache, pin, disk, panicked, crashes>>

WriteLog ==
  /\ Up /\ phase = "write_log" /\ tail < Len(lh)
  /\ LET b == lh[tail + 1] IN
       /\ cache' = [cache EXCEPT ![b] = Bread(b)]
       /\ logdata' = [logdata EXCEPT ![tail + 1] = Bread(b)]
  /\ tail' = tail + 1
  /\ UNCHANGED <<mem, thread, pin, home, hdr, phase, panicked, crashes>>

\* write_head(): the commit point when n > 0, the erasure when n = 0.
WriteHead(from, to) ==
  /\ phase = from
  /\ hdr' = lh
  /\ phase' = to
  /\ tail' = 0
  /\ UNCHANGED <<mem, thread, cache, pin, home, logdata, panicked, crashes>>

\* Faulty variant: bunpin() is forgotten.
InstallTransPinned(recovering) ==
  /\ phase = (IF recovering THEN "recover" ELSE "install") /\ tail < Len(lh)
  /\ LET b == lh[tail + 1] IN
       /\ cache' = [cache EXCEPT ![b] = logdata[tail + 1]]
       /\ home' = [home EXCEPT ![b] = logdata[tail + 1]]
  /\ tail' = tail + 1
  /\ UNCHANGED <<mem, thread, pin, logdata, hdr, phase, panicked, crashes>>

\* One iteration of install_trans(recovering).
InstallTrans(recovering) ==
  /\ phase = (IF recovering THEN "recover" ELSE "install") /\ tail < Len(lh)
  /\ LET b == lh[tail + 1] IN
       /\ cache' = [cache EXCEPT ![b] = logdata[tail + 1]]
       /\ home' = [home EXCEPT ![b] = logdata[tail + 1]]
       /\ pin' = IF recovering THEN pin ELSE [pin EXCEPT ![b] = @ - 1]
  /\ tail' = tail + 1
  /\ UNCHANGED <<mem, thread, logdata, hdr, phase, panicked, crashes>>

\* log.lh.n = 0 after install_trans().
ResetHead(from, to) ==
  /\ phase = from /\ tail = Len(lh)
  /\ lh' = <<>>
  /\ phase' = to
  /\ UNCHANGED <<outstanding, committing, thread, cache, pin, disk, tail,
                 panicked, crashes>>

\* Faulty variant: the header may be written before all log blocks are.
CommitPointEarly == Up /\ WriteHead("write_log", "install")

CommitPoint == Up /\ tail = Len(lh) /\ WriteHead("write_log", "install")
Install == Up /\ InstallTrans(FALSE)
ResetLog == Up /\ ResetHead("install", "erase")
EraseLog == Up /\ WriteHead("erase", "end_commit")

\* end_op() after commit() returns.
EndCommit(op) ==
  /\ Up /\ phase = "end_commit" /\ pc[op] = "commit"
  /\ committing' = FALSE
  /\ pc' = Wakeup([pc EXCEPT ![op] = "idle"])
  /\ phase' = "up"
  /\ UNCHANGED <<lh, outstanding, buf, wrote, calls, cache, pin, disk, tail,
                 panicked, crashes>>

-----------------------------------------------------------------------------
(* initlog(): recover_from_log(), before any other file-system activity. *)

ReadHead ==
  /\ phase = "read_head"
  /\ lh' = hdr
  /\ phase' = "recover" /\ tail' = 0
  /\ UNCHANGED <<outstanding, committing, thread, cache, pin, disk, panicked, crashes>>

Recover == InstallTrans(TRUE)
ResetRecovered == ResetHead("recover", "recover_erase")
EraseRecovered == WriteHead("recover_erase", "up")

-----------------------------------------------------------------------------
(* Environment: readers, buffer recycling, power failure. *)

\* A reader outside any transaction brings a block into the cache.
Load(b) ==
  /\ Up /\ cache[b] = Nil
  /\ cache' = [cache EXCEPT ![b] = home[b]]
  /\ UNCHANGED <<mem, thread, pin, disk, job, panicked, crashes>>

\* bget() recycles a buffer nobody references.
Evict(b) ==
  /\ Up /\ cache[b] # Nil
  /\ pin[b] = 0 /\ \A op \in Ops : buf[op] # b
  /\ cache' = [cache EXCEPT ![b] = Nil]
  /\ UNCHANGED <<mem, thread, pin, disk, job, panicked, crashes>>

\* Memory is lost, the disk keeps what was written; the kernel boots again.
Crash ==
  /\ crashes < MaxCrashes
  /\ crashes' = crashes + 1
  /\ lh' = <<>> /\ outstanding' = 0 /\ committing' = FALSE
  /\ pc' = [op \in Ops |-> "idle"]
  /\ buf' = [op \in Ops |-> Nil]
  /\ wrote' = [op \in Ops |-> {}]
  /\ cache' = [b \in Blocks |-> Nil]
  /\ pin' = [b \in Blocks |-> 0]
  /\ phase' = "read_head" /\ tail' = 0
  /\ panicked' = FALSE
  /\ UNCHANGED <<calls, disk>>

-----------------------------------------------------------------------------
Commit == StartCommit \/ WriteLog \/ CommitPoint \/ Install \/ ResetLog \/ EraseLog
Initlog == ReadHead \/ Recover \/ ResetRecovered \/ EraseRecovered

Thread(op) ==
  \/ Call(op) \/ BeginSleep(op) \/ BeginAdmit(op) \/ KillWakes(op)
  \/ \E b \in Blocks, v \in Values : Modify(op, b, v)
  \/ LogWrite(op) \/ EndOp(op) \/ EndCommit(op)

Next ==
  \/ \E op \in Ops : Thread(op)
  \/ Commit
  \/ Initlog
  \/ \E b \in Blocks : Load(b) \/ Evict(b)
  \/ Crash

Spec == Init /\ [][Next]_vars

(***************************************************************************)
(* Every runnable thread keeps running and the disk answers.  A call makes *)
(* finitely many log_write() calls, so it reaches end_op() although its    *)
(* writes keep disabling EndOp: strong fairness.  Nothing is promised of   *)
(* readers, of kill() or of crashes.                                       *)
(***************************************************************************)
Fairness ==
  /\ WF_vars(Commit) /\ WF_vars(Initlog)
  /\ \A op \in Ops :
       /\ WF_vars(BeginSleep(op)) /\ WF_vars(BeginAdmit(op))
       /\ WF_vars(LogWrite(op)) /\ SF_vars(EndOp(op)) /\ WF_vars(EndCommit(op))

FairSpec == Spec /\ Fairness

-----------------------------------------------------------------------------
(* What the log promises. *)

\* Home blocks m with the log of header h and data blocks d replayed.
Copies(h, b) == {i \in DOMAIN h : h[i] = b}
Replay(h, d, m) ==
  [b \in Blocks |->
     IF Copies(h, b) = {} THEN m[b]
     ELSE d[CHOOSE i \in Copies(h, b) : \A j \in Copies(h, b) : j <= i]]

\* Contents after a reboot.
Durable == Replay(hdr, logdata, home)

\* Contents the next bread() returns; while booting, what will be recovered.
View == IF phase \in Recovery THEN Durable ELSE [b \in Blocks |-> Bread(b)]

\* A logged block that install_trans() has not yet written home.
Uninstalled(b) ==
  \E i \in DOMAIN lh : lh[i] = b /\ (phase = "install" => i > tail)

Held(b) == \E op \in Ops : buf[op] = b

Active == {op \in Ops : pc[op] = "active"}

TypeOK ==
  /\ lh \in Seq(Blocks) /\ outstanding \in Int /\ committing \in BOOLEAN
  /\ pc \in [Ops -> {"idle", "begin", "sleep", "active", "commit"}]
  /\ buf \in [Ops -> Blocks \cup {Nil}]
  /\ wrote \in [Ops -> SUBSET Blocks]
  /\ calls \in [Ops -> 0..MaxCalls]
  /\ cache \in [Blocks -> Values \cup {Nil}]
  /\ pin \in [Blocks -> Int]
  /\ home \in [Blocks -> Values]
  /\ logdata \in [1..LOGSIZE -> Values]
  /\ hdr \in Seq(Blocks)
  /\ phase \in Recovery \cup Committing \cup {"up"}
  /\ tail \in Nat
  /\ panicked \in BOOLEAN /\ crashes \in 0..MaxCrashes

(***************************************************************************)
(* None of the panics of log_write() and end_op() is reached: the space    *)
(* begin_op() reserves is enough for what the admitted calls write, no     *)
(* block is logged outside a transaction, no call ends during a commit.    *)
(* The two blocks of the run log_crash cannot fill its log: there the      *)
(* reservation is checked as SpaceInv, part of LogInv.                     *)
(***************************************************************************)
NoPanic == ~panicked

(***************************************************************************)
(* When no call is in progress and no commit is under way, every block a   *)
(* finished call wrote is at its home location, and the log is empty: the  *)
(* end_op() of the last call returned only after its commit.               *)
(***************************************************************************)
QuietIsDurable ==
  (phase = "up" /\ Active = {} /\ ~panicked) =>
     /\ lh = <<>> /\ hdr = <<>>
     /\ \A b \in Blocks : Bread(b) = home[b]

(***************************************************************************)
(* log_write() pins a buffer once for each logged block that install_trans *)
(* has not yet written home, and never otherwise: a modified buffer is not *)
(* recycled before it reaches the disk, and no reference leaks (a leaked   *)
(* one would in the end make bget() panic).                                *)
(***************************************************************************)
PinnedUntilInstalled ==
  phase \notin Recovery =>
    \A b \in Blocks :
      /\ pin[b] = IF Uninstalled(b) THEN 1 ELSE 0
      /\ Bread(b) # home[b] => pin[b] = 1 \/ Held(b)

\* The log implements atomic groups of block writes.
A == INSTANCE AtomicDisk WITH durable <- Durable, view <- View, active <- Active

(***************************************************************************)
(* Crash atomicity: whatever disk write a power failure follows, recovery  *)
(* brings back the state of the last commit point, and commit() never      *)
(* makes the updates of a call in progress durable.                        *)
(***************************************************************************)
CrashAtomic == A!Spec

(***************************************************************************)
(* If threads make finitely many calls, every call returns and the system  *)
(* comes to rest with all updates at home: no begin_op() sleeps forever on *)
(* a wakeup(&log) that was given before it slept or never given.           *)
(***************************************************************************)
ComesToRest ==
  <>[](/\ \A op \in Ops : pc[op] = "idle"
       /\ hdr = <<>> /\ View = home)

-----------------------------------------------------------------------------
(* The inductive invariant behind NoPanic and CrashAtomic. *)

\* Log entries the admitted calls have reserved and not used.
Slots ==
  {s \in Ops \X (1..MAXOPBLOCKS) :
     pc[s[1]] = "active" /\ s[2] > Cardinality(wrote[s[1]])}

\* begin_op()'s reservation covers every entry still to be added.
SpaceInv ==
  /\ Len(lh) + Cardinality(Slots) <= LOGSIZE
  /\ Len(hdr) <= LOGSIZE
  /\ outstanding = Cardinality(Active)
  /\ \A op \in Ops :
       /\ \A b \in wrote[op] : pc[op] = "active" => Logged(b)
       /\ Cardinality(wrote[op]) <= OpBlocks
       /\ buf[op] # Nil =>
            pc[op] = "active" /\ Cardinality(wrote[op] \cup {buf[op]}) <= OpBlocks

\* Which of the two headers is in use in which phase.
PhaseInv ==
  /\ committing <=> phase \in Committing
  /\ phase # "up" => Active = {}
  /\ (phase = "up" /\ Active = {}) => lh = <<>>
  /\ phase \in {"read_head", "recover_erase", "erase", "end_commit"} => lh = <<>>
  /\ phase \in {"recover", "install"} => lh = hdr
  /\ phase \in {"up", "commit", "write_log", "end_commit"} => hdr = <<>>
  /\ phase \in {"write_log", "recover", "install"} => tail <= Len(lh)

Distinct(s) == \A i, j \in DOMAIN s : s[i] = s[j] => i = j

\* What the log blocks and the home blocks hold in which phase.
CopyInv ==
  /\ Distinct(lh) /\ Distinct(hdr)
  /\ phase = "write_log" => \A i \in 1..tail : logdata[i] = Bread(lh[i])
  /\ phase \in {"recover", "install"} => \A i \in 1..tail : home[lh[i]] = logdata[i]
  /\ phase = "install" => \A i \in DOMAIN lh : Bread(lh[i]) = logdata[i]
  /\ phase \in {"recover_erase", "erase"} =>
       \A i \in DOMAIN hdr : home[hdr[i]] = logdata[i]

\* A buffer that differs from its home block is logged or locked, and cached.
BufInv ==
  \A b \in Blocks :
    /\ (~Uninstalled(b) /\ ~Held(b)) => cache[b] \in {Nil, home[b]}
    /\ phase \in Recovery => cache[b] \in {Nil, home[b]}
    /\ pin[b] = IF phase \notin Recovery /\ Uninstalled(b) THEN 1 ELSE 0

\* The conjunction is preserved by every step of the log.
LogInv == TypeOK /\ SpaceInv /\ PhaseInv /\ CopyInv /\ BufInv
=============================================================================
