--------------------------- MODULE ConsoleProofs ----------------------------
(***************************************************************************)
(* Proofs about Console for every number of CPUs, readers and writers,     *)
(* every size of the two buffers and every transmit FIFO that holds at     *)
(* least two characters.                                                   *)
(***************************************************************************)
EXTENDS Console, TLAPS

Labels == {"idle", "getc", "cons", "echo", "echo_put", "intr_lock", "start", "start_put",
           "complete", "copyin", "lock", "asleep", "test", "sleep"}

\* Where an actor has no lock and nobody relies on what it found.
Quiet == {"idle", "getc", "cons", "intr_lock", "complete", "copyin", "lock"}

ProofTypes ==
  /\ pc \in [Actors -> Labels]
  /\ thr \in Nat /\ tx \in Nat

\* uart_tx_lock guards uartstart(); cons.lock guards the echo and consoleread().
Guarded == \A a \in Actors :
  /\ pc[a] \in {"start", "start_put"} => txlock = a
  /\ pc[a] \in {"echo", "echo_put", "test", "sleep"} => lock = a

Starting == \E a \in Actors : pc[a] = "start_put"
Echoing == \E a \in Actors : pc[a] = "echo_put"

\* Each of the two locks lets one character at a time be on its way to the
\* device, and both were sent off when the FIFO was empty: what is in it and
\* what is on its way are two at most.
Room ==
  /\ thr <= 2
  /\ Starting \/ Echoing => thr <= 1
  /\ Starting /\ Echoing => thr = 0
  /\ tx <= UART_TX_BUF_SIZE

Reasons ==
  /\ \A t \in Readers : pc[t] \in {"sleep", "asleep"} => r = w
  /\ \A p \in Writers : pc[p] = "asleep" => TxFull

ConsoleInv == ProofTypes /\ Guarded /\ Room /\ Reasons

LEMMA ConsoleInit == Init => ConsoleInv
BY UartAssumption DEF Init, UartInit, ConsoleInv, ProofTypes, Labels, Guarded, Room, Starting,
   Echoing, Reasons, Actors

-----------------------------------------------------------------------------
\* An actor that goes where nobody relies on it, giving up its locks or not,
\* disturbs nothing.
LEMMA QuietStep ==
  ASSUME ConsoleInv, NEW a \in Actors, NEW l \in Quiet,
         pc' = [pc EXCEPT ![a] = l], UNCHANGED <<thr, tx, r, w>>,
         pc[a] \in {"start", "start_put"} \/ txlock' = txlock,
         pc[a] \in {"echo", "echo_put", "test", "sleep"} \/ lock' = lock
  PROVE  ConsoleInv'
<1>1. ProofTypes'
  BY Zenon DEF ConsoleInv, ProofTypes, Labels, Quiet
<1>2. \A b \in Actors : b # a => pc'[b] = pc[b]
  BY Zenon DEF ConsoleInv, ProofTypes
<1>3. pc'[a] = l
  BY Zenon DEF ConsoleInv, ProofTypes
<1>4. Guarded'
  BY <1>2, <1>3, Zenon DEF ConsoleInv, Guarded, Quiet
<1>5. (Starting' => Starting) /\ (Echoing' => Echoing)
  BY <1>2, <1>3, Zenon DEF Starting, Echoing, Quiet
<1>6. Room'
  BY <1>5, Zenon DEF ConsoleInv, Room
<1>7. Reasons'
  BY <1>2, <1>3, Zenon DEF ConsoleInv, Reasons, Quiet, TxFull, Actors
<1>. QED
  BY <1>1, <1>4, <1>6, <1>7, Zenon DEF ConsoleInv

\* The device.
LEMMA DeviceStep ==
  ASSUME ConsoleInv, DeviceNext
  PROVE  ConsoleInv'
<1>1. UNCHANGED <<pc, tx, txlock, lock, r, w>>
  BY Zenon DEF DeviceNext, Transmit, Raise, Receive, consVars, cons, device
<1>2. thr' \in Nat /\ thr' <= thr
  BY DEF DeviceNext, Transmit, Raise, Receive, device, ConsoleInv, ProofTypes
<1>. QED
  BY <1>1, <1>2 DEF ConsoleInv, ProofTypes, Guarded, Room, Starting, Echoing, Reasons, TxFull

-----------------------------------------------------------------------------
(* uart.c *)

\* uartputc_sync()
LEMMA SyncStep ==
  ASSUME ConsoleInv, NEW c \in CPUs, SyncSpin(c) \/ SyncPut(c), UNCHANGED consVars
  PROVE  ConsoleInv'
<1>1. c \in Actors /\ pc[c] \in {"echo", "echo_put"} /\ lock = c
  BY Zenon DEF SyncSpin, SyncPut, ConsoleInv, Guarded, Actors
<1>2. \A b \in Actors : b # c => pc'[b] = pc[b] /\ pc[b] # "echo_put"
  BY <1>1, Zenon DEF SyncSpin, SyncPut, Goto, ConsoleInv, ProofTypes, Guarded
<1>3. UNCHANGED <<tx, txlock, lock, r, w>>
  BY Zenon DEF SyncSpin, SyncPut, consVars, cons
<1>4. CASE SyncSpin(c)
  <2>1. pc'[c] = "echo_put" /\ thr' = thr /\ thr = 0
    BY <1>1, <1>4, Zenon DEF SyncSpin, Goto, TxIdle, device, ConsoleInv, ProofTypes
  <2>2. ProofTypes'
    BY <1>3, <1>4, <2>1, Zenon DEF SyncSpin, Goto, ConsoleInv, ProofTypes, Labels
  <2>3. Room'
    BY <1>3, <2>1 DEF ConsoleInv, Room
  <2>. QED
    BY <1>1, <1>2, <1>3, <2>1, <2>2, <2>3, Zenon DEF ConsoleInv, Guarded, Reasons, TxFull, Actors
<1>5. CASE SyncPut(c)
  <2>1. pc'[c] = "echo" /\ thr' = thr + 1 /\ Echoing
    BY <1>1, <1>5, Zenon DEF SyncPut, Goto, WriteTHR, ConsoleInv, ProofTypes, Echoing
  <2>2. ProofTypes'
    BY <1>3, <1>5, <2>1 DEF SyncPut, Goto, ConsoleInv, ProofTypes, Labels
  <2>3. ~Echoing' /\ (Starting' => Starting)
    BY <1>2, <2>1, Zenon DEF Starting, Echoing
  <2>4. Room'
    BY <1>3, <2>1, <2>3 DEF ConsoleInv, ProofTypes, Room
  <2>. QED
    BY <1>1, <1>2, <1>3, <2>1, <2>2, <2>4, Zenon DEF ConsoleInv, Guarded, Reasons, TxFull, Actors
<1>. QED
  BY <1>4, <1>5, Zenon

\* uartputc() up to uartstart()
LEMMA PutcStep ==
  ASSUME ConsoleInv, NEW p \in Writers, Putc(p), UNCHANGED consVars
  PROVE  ConsoleInv'
<1>1. p \in Actors /\ p \notin Readers /\ txlock = None /\ pc[p] = "lock"
  BY UartAssumption, Zenon DEF Putc, Actors
<1>2. \A b \in Actors : pc[b] \notin {"start", "start_put"}
  BY <1>1, UartAssumption, Zenon DEF ConsoleInv, Guarded
<1>3. UNCHANGED <<thr, lock, r, w>>
  BY Zenon DEF Putc, consVars, cons, device
<1>4. ASSUME NEW l \in {"asleep", "start"}, pc' = [pc EXCEPT ![p] = l]
      PROVE  /\ pc' \in [Actors -> Labels] /\ pc'[p] = l
             /\ \A b \in Actors : b # p => pc'[b] = pc[b]
             /\ ~Starting' /\ (Echoing' => Echoing)
  BY <1>1, <1>2, <1>4, Zenon DEF ConsoleInv, ProofTypes, Labels, Starting, Echoing
<1>5. CASE TxFull
  <2>1. pc' = [pc EXCEPT ![p] = "asleep"] /\ UNCHANGED <<tx, txlock>>
    BY <1>5, Zenon DEF Putc, Goto
  <2>. QED
    BY <1>1, <1>3, <1>4, <1>5, <2>1, Zenon
       DEF ConsoleInv, ProofTypes, Guarded, Room, Reasons, TxFull, Actors
<1>6. CASE ~TxFull
  <2>1. pc' = [pc EXCEPT ![p] = "start"] /\ tx' = tx + 1 /\ txlock' = p
    BY <1>6, Zenon DEF Putc, Goto
  <2>2. \A q \in Writers : pc'[q] # "asleep"
    BY <1>4, <1>6, <2>1, Zenon DEF ConsoleInv, Reasons, Actors
  <2>3. tx' \in Nat /\ tx' <= UART_TX_BUF_SIZE
    BY <1>6, <2>1, UartAssumption DEF ConsoleInv, ProofTypes, Room, TxFull
  <2>4. Room' /\ ProofTypes'
    BY <1>3, <1>4, <2>1, <2>3, Zenon DEF ConsoleInv, ProofTypes, Room
  <2>5. Guarded'
    BY <1>2, <1>3, <1>4, <2>1, Zenon DEF ConsoleInv, Guarded
  <2>6. Reasons'
    BY <1>1, <1>3, <1>4, <2>1, <2>2, Zenon DEF ConsoleInv, Reasons, Actors
  <2>. QED
    BY <2>4, <2>5, <2>6, Zenon DEF ConsoleInv
<1>. QED
  BY <1>5, <1>6, Zenon

\* uartintr() acquires uart_tx_lock.
LEMMA IntrLockStep ==
  ASSUME ConsoleInv, NEW c \in CPUs, IntrLock(c), UNCHANGED consVars
  PROVE  ConsoleInv'
<1>1. c \in Actors /\ c \notin Readers /\ c \notin Writers /\ txlock = None
  BY UartAssumption, Zenon DEF IntrLock, Actors
<1>2. \A b \in Actors : pc[b] \notin {"start", "start_put"}
  BY <1>1, UartAssumption, Zenon DEF ConsoleInv, Guarded
<1>3. UNCHANGED <<thr, tx, lock, r, w>> /\ txlock' = c
  BY Zenon DEF IntrLock, consVars, cons, device
<1>4. /\ pc' \in [Actors -> Labels] /\ pc'[c] = "start"
      /\ \A b \in Actors : b # c => pc'[b] = pc[b]
  BY <1>1, Zenon DEF IntrLock, Goto, ConsoleInv, ProofTypes, Labels
<1>5. (Starting' => Starting) /\ (Echoing' => Echoing)
  BY <1>2, <1>4, Zenon DEF Starting, Echoing
<1>6. Guarded'
  BY <1>2, <1>3, <1>4, Zenon DEF ConsoleInv, Guarded
<1>7. Reasons'
  BY <1>1, <1>3, <1>4, Zenon DEF ConsoleInv, Reasons, TxFull, Actors
<1>. QED
  BY <1>3, <1>4, <1>5, <1>6, <1>7, Zenon DEF ConsoleInv, ProofTypes, Room

\* uartstart()
LEMMA StartStep ==
  ASSUME ConsoleInv, NEW a \in CPUs \cup Writers, Uartstart(a), UNCHANGED consVars
  PROVE  ConsoleInv'
<1>1. a \in Actors /\ a \notin Readers /\ txlock = a
  BY UartAssumption, Zenon DEF Uartstart, StartEmpty, StartBusy, StartTake, StartPut, Actors
<1>2. UNCHANGED <<lock, r, w>>
  BY Zenon DEF consVars, cons
<1>3. ASSUME StartEmpty(a) \/ StartBusy(a)
      PROVE  ConsoleInv'
  <2>1. PICK l \in Quiet : pc' = [pc EXCEPT ![a] = l]
    BY <1>3, Zenon DEF StartEmpty, StartBusy, Release, Goto, Quiet
  <2>2. UNCHANGED <<thr, tx>> /\ pc[a] = "start"
    BY <1>3, Zenon DEF StartEmpty, StartBusy, device
  <2>. QED
    BY <1>1, <1>2, <2>1, <2>2, QuietStep, Zenon
<1>4. \A b \in Actors : b # a => pc[b] \notin {"start", "start_put"}
  BY <1>1, Zenon DEF ConsoleInv, Guarded
<1>5. ASSUME StartTake(a)
      PROVE  ConsoleInv'
  <2>1. UNCHANGED <<thr, txlock>> /\ thr = 0 /\ tx' = tx - 1 /\ tx > 0
    BY <1>5, Zenon DEF StartTake, TxIdle, device
  <2>2. /\ pc' \in [Actors -> Labels] /\ pc'[a] = "start_put"
        /\ \A b \in Actors : b # a =>
             pc'[b] = IF b \in Writers /\ pc[b] = "asleep" THEN "lock" ELSE pc[b]
    BY <1>1, <1>5, Zenon DEF StartTake, Woken, ConsoleInv, ProofTypes, Labels
  <2>3. ProofTypes' /\ Room'
    <3>1. tx' \in Nat /\ tx' <= UART_TX_BUF_SIZE
      BY <2>1, UartAssumption DEF ConsoleInv, ProofTypes, Room
    <3>. QED
      BY <2>1, <2>2, <3>1 DEF ConsoleInv, ProofTypes, Room
  <2>4. Guarded'
    BY <1>1, <1>2, <1>4, <2>1, <2>2, Zenon DEF ConsoleInv, Guarded
  <2>5. \A q \in Writers : pc'[q] # "asleep"
    BY <2>2, Zenon DEF Actors
  <2>6. \A t \in Readers : pc'[t] = pc[t]
    BY <1>1, <2>2, UartAssumption, Zenon DEF Actors
  <2>. QED
    BY <1>2, <2>3, <2>4, <2>5, <2>6, Zenon DEF ConsoleInv, Reasons
<1>6. ASSUME StartPut(a)
      PROVE  ConsoleInv'
  <2>1. UNCHANGED <<tx, txlock>> /\ thr' = thr + 1 /\ pc[a] = "start_put" /\ Starting
    BY <1>1, <1>6, Zenon DEF StartPut, WriteTHR, Starting
  <2>2. /\ pc' \in [Actors -> Labels] /\ pc'[a] = "start"
        /\ \A b \in Actors : b # a => pc'[b] = pc[b]
    BY <1>1, <1>6, Zenon DEF StartPut, Goto, ConsoleInv, ProofTypes, Labels
  <2>3. ~Starting' /\ (Echoing' => Echoing)
    BY <1>4, <2>2, Zenon DEF Starting, Echoing
  <2>4. ProofTypes' /\ Room'
    BY <2>1, <2>2, <2>3 DEF ConsoleInv, ProofTypes, Room
  <2>5. Guarded'
    BY <1>1, <1>2, <1>4, <2>1, <2>2, Zenon DEF ConsoleInv, Guarded
  <2>. QED
    BY <1>1, <1>2, <2>1, <2>2, <2>4, <2>5, Zenon DEF ConsoleInv, Reasons, TxFull, Actors
<1>. QED
  BY <1>3, <1>5, <1>6, Zenon DEF Uartstart

-----------------------------------------------------------------------------
(* console.c *)

\* An actor that takes cons.lock.
LEMMA ConsLockStep ==
  ASSUME ConsoleInv, NEW a \in Actors, NEW l \in {"echo", "test"}, lock = None,
         pc' = [pc EXCEPT ![a] = l], lock' = a, UNCHANGED <<thr, tx, txlock, r, w>>
  PROVE  ConsoleInv'
<1>1. \A b \in Actors : b # a => pc[b] \notin {"echo", "echo_put", "test", "sleep"}
  BY UartAssumption, Zenon DEF ConsoleInv, Guarded
<1>2. /\ pc' \in [Actors -> Labels] /\ pc'[a] = l
      /\ \A b \in Actors : b # a => pc'[b] = pc[b]
  BY Zenon DEF ConsoleInv, ProofTypes, Labels
<1>3. (Starting' => Starting) /\ (Echoing' => Echoing)
  BY <1>2, Zenon DEF Starting, Echoing
<1>4. Guarded'
  BY <1>1, <1>2, Zenon DEF ConsoleInv, Guarded
<1>5. Reasons'
  BY <1>2, Zenon DEF ConsoleInv, Reasons, TxFull, Actors
<1>. QED
  BY <1>2, <1>3, <1>4, <1>5, Zenon DEF ConsoleInv, ProofTypes, Room

\* The end of consoleintr(): no reader is asleep once there is a finished line.
LEMMA StoreStep ==
  ASSUME ConsoleInv, NEW c \in CPUs, Store(c)
  PROVE  ConsoleInv'
<1>1. c \in Actors /\ c \notin Readers /\ c \notin Writers /\ lock = c
  BY UartAssumption, Zenon DEF Store, Actors, ConsoleInv, Guarded
<1>2. UNCHANGED <<thr, tx, txlock, r>>
  BY Zenon DEF Store, device
<1>3. \A b \in Actors : b # c => pc[b] \notin {"echo", "echo_put", "test", "sleep"}
  BY <1>1, Zenon DEF ConsoleInv, Guarded
<1>4. PICK S \in {Readers, {}} :
        pc' = Woken([pc EXCEPT ![c] = "getc"], S) /\ (S = Readers \/ w' = w)
  BY Zenon DEF Store
<1>5. /\ pc' \in [Actors -> Labels] /\ pc'[c] = "getc"
      /\ \A b \in Actors : b # c => pc'[b] = IF b \in S /\ pc[b] = "asleep" THEN "lock" ELSE pc[b]
  BY <1>1, <1>4, Zenon DEF Woken, ConsoleInv, ProofTypes, Labels
<1>6. (Starting' => Starting) /\ (Echoing' => Echoing)
  BY <1>5, Zenon DEF Starting, Echoing
<1>7. Guarded'
  BY <1>2, <1>3, <1>5, Zenon DEF ConsoleInv, Guarded
<1>8. \A t \in Readers : pc'[t] \in {"sleep", "asleep"} => w' = w /\ pc[t] = "asleep"
  BY <1>1, <1>3, <1>4, <1>5, Zenon DEF Actors
<1>9. \A p \in Writers : pc'[p] = "asleep" => pc[p] = "asleep"
  BY <1>1, <1>5, Zenon DEF Actors
<1>10. Reasons'
  BY <1>2, <1>4, <1>8, <1>9, Zenon DEF ConsoleInv, Reasons, TxFull
<1>. QED
  BY <1>2, <1>5, <1>6, <1>7, <1>10, Zenon DEF ConsoleInv, ProofTypes, Room

\* A reader that found nothing decides to sleep, and then sleeps.
LEMMA SleepStep ==
  ASSUME ConsoleInv, NEW t \in Readers, ReadWait(t) \/ ReadSleep(t)
  PROVE  ConsoleInv'
<1>1. t \in Actors /\ t \notin Writers /\ lock = t /\ pc[t] \in {"test", "sleep"}
  BY UartAssumption, Zenon DEF ReadWait, ReadSleep, Actors, ConsoleInv, Guarded
<1>2. UNCHANGED <<thr, tx, txlock, r, w>>
  BY Zenon DEF ReadWait, ReadSleep, device, cons
<1>3. \A b \in Actors : b # t => pc[b] \notin {"echo", "echo_put", "test", "sleep"}
  BY <1>1, Zenon DEF ConsoleInv, Guarded
<1>4. ASSUME ReadWait(t), killed[t]
      PROVE  ConsoleInv'
  <2>1. pc' = [pc EXCEPT ![t] = "idle"] /\ "idle" \in Quiet
    BY <1>4, Zenon DEF ReadWait, Return, Goto, Quiet
  <2>. QED
    BY <1>1, <1>2, <2>1, QuietStep, Zenon
<1>5. ASSUME (ReadWait(t) /\ ~killed[t]) \/ ReadSleep(t)
      PROVE  ConsoleInv'
  <2>1. r = w
    BY <1>5, Zenon DEF ReadWait, ReadSleep, ConsoleInv, Reasons
  <2>2. PICK l \in {"sleep", "asleep"} :
          pc' = [pc EXCEPT ![t] = l] /\ (l = "sleep" => lock' = lock)
    BY <1>5, Zenon DEF ReadWait, ReadSleep, Goto
  <2>3. /\ pc' \in [Actors -> Labels] /\ pc'[t] = l
        /\ \A b \in Actors : b # t => pc'[b] = pc[b]
    BY <1>1, <2>2, Zenon DEF ConsoleInv, ProofTypes, Labels
  <2>4. (Starting' => Starting) /\ (Echoing' => Echoing)
    BY <2>3, Zenon DEF Starting, Echoing
  <2>5. Guarded'
    BY <1>1, <1>2, <1>3, <2>2, <2>3, Zenon DEF ConsoleInv, Guarded
  <2>6. Reasons'
    BY <1>1, <1>2, <2>1, <2>3, Zenon DEF ConsoleInv, Reasons, TxFull, Actors
  <2>. QED
    BY <1>2, <2>3, <2>4, <2>5, <2>6, Zenon DEF ConsoleInv, ProofTypes, Room
<1>. QED
  BY <1>4, <1>5, Zenon

\* A reader takes a character or leaves end of file for the next call.
LEMMA TakeStep ==
  ASSUME ConsoleInv, NEW t \in Readers, ReadTake(t)
  PROVE  ConsoleInv'
<1>1. t \in Actors /\ t \notin Writers /\ lock = t /\ pc[t] = "test"
  BY UartAssumption, Zenon DEF ReadTake, Actors, ConsoleInv, Guarded
<1>2. UNCHANGED <<thr, tx, txlock, w>> /\ r # w
  BY Zenon DEF ReadTake, device
<1>3. \A u \in Readers : pc[u] \notin {"sleep", "asleep"}
  BY <1>2, Zenon DEF ConsoleInv, Reasons
<1>4. \A b \in Actors : b # t => pc[b] \notin {"echo", "echo_put", "test", "sleep"}
  BY <1>1, Zenon DEF ConsoleInv, Guarded
<1>5. PICK l \in {"idle", "test"} : pc' = [pc EXCEPT ![t] = l] /\ (l = "test" => lock' = lock)
  <2>1. pc = [pc EXCEPT ![t] = "test"]
    BY <1>1, Zenon DEF ConsoleInv, ProofTypes
  <2>. QED
    BY <2>1, Zenon DEF ReadTake, Return, Goto
<1>6. /\ pc' \in [Actors -> Labels] /\ pc'[t] = l
      /\ \A b \in Actors : b # t => pc'[b] = pc[b]
  BY <1>1, <1>5, Zenon DEF ConsoleInv, ProofTypes, Labels
<1>7. (Starting' => Starting) /\ (Echoing' => Echoing)
  BY <1>6, Zenon DEF Starting, Echoing
<1>8. Guarded'
  BY <1>1, <1>2, <1>4, <1>5, <1>6, Zenon DEF ConsoleInv, Guarded
<1>9. Reasons'
  BY <1>1, <1>2, <1>3, <1>6, Zenon DEF ConsoleInv, Reasons, TxFull, Actors
<1>. QED
  BY <1>2, <1>6, <1>7, <1>8, <1>9, Zenon DEF ConsoleInv, ProofTypes, Room

\* kill() wakes its victim and changes nothing else here.
LEMMA KillStep ==
  ASSUME ConsoleInv, NEW t \in Readers, Kill(t)
  PROVE  ConsoleInv'
<1>1. UNCHANGED <<thr, tx, txlock, lock, r, w>>
  BY Zenon DEF Kill, device, cons
<1>2. /\ pc' \in [Actors -> Labels]
      /\ \A b \in Actors : pc'[b] = pc[b] \/ pc'[b] = "lock"
  BY Zenon DEF Kill, Woken, ConsoleInv, ProofTypes, Labels
<1>3. (Starting' => Starting) /\ (Echoing' => Echoing)
  BY <1>2, Zenon DEF Starting, Echoing
<1>4. Guarded' /\ Reasons'
  BY <1>1, <1>2, Zenon DEF ConsoleInv, Guarded, Reasons, TxFull, Actors
<1>. QED
  BY <1>1, <1>2, <1>3, <1>4, Zenon DEF ConsoleInv, ProofTypes, Room

-----------------------------------------------------------------------------
LEMMA IntrStep ==
  ASSUME ConsoleInv, NEW c \in CPUs, Intr(c)
  PROVE  ConsoleInv'
<1>1. c \in Actors
  BY Zenon DEF Actors
<1>2. ASSUME Claim(c) \/ Complete(c), UNCHANGED consVars
      PROVE  ConsoleInv'
  <2>1. PICK l \in Quiet : pc' = [pc EXCEPT ![c] = l]
    BY <1>2, Zenon DEF Claim, Complete, Goto, Quiet
  <2>2. UNCHANGED <<thr, tx, txlock, lock, r, w>>
    BY <1>2, Zenon DEF Claim, Complete, device, consVars, cons
  <2>. QED
    BY <1>1, <2>1, <2>2, QuietStep, Zenon
<1>3. ASSUME Uartgetc(c)
      PROVE  ConsoleInv'
  <2>1. PICK l \in Quiet : pc' = [pc EXCEPT ![c] = l]
    BY <1>3, Zenon DEF Uartgetc, Goto, Quiet
  <2>2. UNCHANGED <<thr, tx, txlock, lock, r, w>>
    BY <1>3, Zenon DEF Uartgetc, cons
  <2>. QED
    BY <1>1, <2>1, <2>2, QuietStep, Zenon
<1>4. ASSUME Consoleintr(c)
      PROVE  ConsoleInv'
  <2>1. pc' = [pc EXCEPT ![c] = "echo"] /\ lock = None /\ lock' = c
    BY <1>4, Zenon DEF Consoleintr, Goto
  <2>2. UNCHANGED <<thr, tx, txlock, r, w>>
    BY <1>4, Zenon DEF Consoleintr, device
  <2>. QED
    BY <1>1, <2>1, <2>2, ConsLockStep, Zenon
<1>. QED
  BY <1>2, <1>3, <1>4, SyncStep, IntrLockStep, StartStep, StoreStep, Zenon DEF Intr

LEMMA WriterStep ==
  ASSUME ConsoleInv, NEW p \in Writers,
         Write(p) \/ \E m \in 1..MaxWrite : Consolewrite(p, m) /\ UNCHANGED consVars
  PROVE  ConsoleInv'
<1>1. ASSUME Copyin(p) \/ \E m \in 1..MaxWrite : Consolewrite(p, m), UNCHANGED consVars
      PROVE  ConsoleInv'
  <2>1. PICK l \in Quiet : pc' = [pc EXCEPT ![p] = l]
    BY <1>1, Zenon DEF Copyin, Consolewrite, Goto, Quiet
  <2>2. UNCHANGED <<thr, tx, txlock, lock, r, w>> /\ p \in Actors
    BY <1>1, Zenon DEF Copyin, Consolewrite, device, consVars, cons, Actors
  <2>. QED
    BY <2>1, <2>2, QuietStep, Zenon
<1>. QED
  BY <1>1, PutcStep, StartStep, Zenon DEF Write

LEMMA ReaderStep ==
  ASSUME ConsoleInv, NEW t \in Readers,
         Read(t) \/ Kill(t) \/ \E m \in 1..MaxRead : Consoleread(t, m)
  PROVE  ConsoleInv'
<1>1. t \in Actors
  BY Zenon DEF Actors
<1>2. ASSUME NEW m \in 1..MaxRead, Consoleread(t, m)
      PROVE  ConsoleInv'
  <2>1. pc' = [pc EXCEPT ![t] = "lock"] /\ "lock" \in Quiet
    BY <1>2, Zenon DEF Consoleread, Goto, Quiet
  <2>2. UNCHANGED <<thr, tx, txlock, lock, r, w>>
    BY <1>2, Zenon DEF Consoleread, device, cons
  <2>. QED
    BY <1>1, <2>1, <2>2, QuietStep, Zenon
<1>3. ASSUME ReadLock(t)
      PROVE  ConsoleInv'
  <2>1. pc' = [pc EXCEPT ![t] = "test"] /\ lock = None /\ lock' = t
    BY <1>3, Zenon DEF ReadLock, Goto
  <2>2. UNCHANGED <<thr, tx, txlock, r, w>>
    BY <1>3, Zenon DEF ReadLock, device, cons
  <2>. QED
    BY <1>1, <2>1, <2>2, ConsLockStep, Zenon
<1>. QED
  BY <1>2, <1>3, SleepStep, TakeStep, KillStep, Zenon DEF Read

LEMMA ConsoleStep == ConsoleInv /\ [Next]_vars => ConsoleInv'
<1>1. ASSUME ConsoleInv, UNCHANGED vars
      PROVE  ConsoleInv'
  BY <1>1, Zenon DEF vars, uartVars, consVars, device, cons, ConsoleInv, ProofTypes, Guarded, Room,
     Starting, Echoing, Reasons, TxFull
<1>. QED
  BY <1>1, DeviceStep, IntrStep, WriterStep, ReaderStep, Zenon DEF Next

\* The inductive invariant of console.c and uart.c: what the two locks guard, how
\* much is on its way to the device, and why each sleeper sleeps.
THEOREM ConsoleInvariant == Spec => []ConsoleInv
BY ConsoleInit, ConsoleStep, PTL DEF Spec

\* However many CPUs and writers there are, no character is lost on its way out:
\* uartputc_sync(), which ignores uart_tx_lock, and uartstart() never have more
\* than two characters in or on the way to the device.
THEOREM OutputIsKept == Spec => []NoOverrun
<1>1. ConsoleInv => NoOverrun
  BY UartAssumption DEF ConsoleInv, ProofTypes, Room, NoOverrun
<1>. QED
  BY <1>1, ConsoleInvariant, PTL

\* consoleread() and uartputc() miss no wakeup, for any number of callers, also
\* when kill() comes between the test and sleep().
THEOREM ConsoleWakeups == Spec => []SleepersHaveReason
<1>1. ConsoleInv => SleepersHaveReason
  BY Zenon DEF ConsoleInv, Reasons, SleepersHaveReason
<1>. QED
  BY <1>1, ConsoleInvariant, PTL
=============================================================================
