------------------------------ MODULE Console -------------------------------
(***************************************************************************)
(* kernel/console.c on top of the UART: consoleintr() edits the line being *)
(* typed, consoleread() takes finished lines.  Everything between acquire  *)
(* and release of cons.lock that no other actor can see is one step; the   *)
(* echo is not, because it waits for the device.  A character that has     *)
(* been read or erased is forgotten, as its place is written before it is  *)
(* read again.                                                             *)
(***************************************************************************)
EXTENDS Uart

CONSTANTS Keys,             \* the keys that may be pressed
          INPUT_BUF_SIZE,
          Wrap,             \* 2^32 in the code; a multiple of INPUT_BUF_SIZE
          Start,            \* where the three indices are after the input so far
          MaxRead           \* largest n passed to consoleread()

ASSUME ConsoleAssumption ==
  /\ INPUT_BUF_SIZE \in Nat \ {0}
  /\ Wrap \in Nat /\ Wrap > INPUT_BUF_SIZE /\ Wrap % INPUT_BUF_SIZE = 0
  /\ Start \in 0..Wrap - 1

VARIABLES
  buf, r, w, e, lock,   \* cons
  hand,                 \* the character a CPU has taken from the UART
  n, got, killed        \* consoleread(): n, n < target, and the process's flag

cons == <<buf, r, w, e>>
reading == <<n, got, killed>>
consVars == <<cons, lock, hand, reading>>
vars == <<uartVars, consVars>>

Init ==
  /\ \E cast \in Casts : UartInit(cast)
  /\ buf = [j \in 0..INPUT_BUF_SIZE - 1 |-> None]
  /\ r = Start /\ w = Start /\ e = Start /\ lock = None
  /\ hand = [c \in CPUs |-> None]
  /\ n = [t \in Readers |-> 0]
  /\ got = [t \in Readers |-> FALSE] /\ killed = [t \in Readers |-> FALSE]

Plus(x, y) == (x + y) % Wrap
Minus(x, y) == (x - y) % Wrap

-----------------------------------------------------------------------------
(* uartintr() and consoleintr() *)

\* uartgetc(), without a lock; once it finds nothing, output is looked after.
Uartgetc(c) ==
  /\ pc[c] = "getc"
  /\ IF rx = <<>>
       THEN Goto(c, "intr_lock") /\ UNCHANGED <<rx, hand>>
       ELSE /\ rx' = Tail(rx)
            /\ hand' = [hand EXCEPT ![c] = Head(rx)]
            /\ Goto(c, "cons")
  /\ UNCHANGED <<keys, thr, thre, users, irq, tx, txlock, left, cons, lock, reading>>

\* The number of characters erased by a key: killing stops at w and after a '\n'.
Erased(k) ==
  CASE k = "kill" -> Cardinality({j \in 1..Minus(e, w) :
                       \A i \in 1..j : buf[Minus(e, i) % INPUT_BUF_SIZE] # "nl"})
    [] k = "erase" /\ e # w -> 1
    [] OTHER -> 0

\* acquire(&cons.lock) and the switch up to the echo.  Erasing one character
\* echoes three; procdump() prints and changes nothing.
Consoleintr(c) ==
  /\ pc[c] = "cons" /\ lock = None
  /\ lock' = c
  /\ Goto(c, "echo")
  /\ IF hand[c] \in {"kill", "erase", "dump", "nul"}
       THEN /\ e' = Minus(e, Erased(hand[c]))
            /\ buf' = [j \in DOMAIN buf |->
                         IF \E d \in 1..Erased(hand[c]) : Minus(e, d) % INPUT_BUF_SIZE = j
                           THEN None ELSE buf[j]]
            /\ left' = [left EXCEPT ![c] = IF hand[c] = "dump" THEN 1 ELSE 3 * Erased(hand[c])]
            /\ hand' = [hand EXCEPT ![c] = None]
       ELSE IF Minus(e, r) < INPUT_BUF_SIZE
         THEN left' = [left EXCEPT ![c] = 1] /\ UNCHANGED <<buf, e, hand>>
         ELSE hand' = [hand EXCEPT ![c] = None] /\ UNCHANGED <<buf, e, left>>
  /\ UNCHANGED <<device, irq, tx, txlock, r, w, reading>>

\* The text in the buffer becomes readable after text k, which fills it to size.
EndsLine(k, size) == k \in {"nl", "eof"} \/ size = INPUT_BUF_SIZE

\* Faulty variant: readers are not woken.
StoreSilent(c) ==
  LET k == IF hand[c] = "cr" THEN "nl" ELSE hand[c]
      ends == hand[c] # None /\ EndsLine(k, Minus(e, r) + 1)
  IN /\ pc[c] = "echo" /\ left[c] = 0
     /\ IF hand[c] = None THEN UNCHANGED <<buf, e>>
        ELSE buf' = [buf EXCEPT ![e % INPUT_BUF_SIZE] = k] /\ e' = Plus(e, 1)
     /\ w' = IF ends THEN e' ELSE w
     /\ Goto(c, "getc")
     /\ hand' = [hand EXCEPT ![c] = None]
     /\ lock' = None
     /\ UNCHANGED <<device, irq, tx, txlock, left, r, reading>>

\* The character is stored, wakeup(&cons.r) if it ends the line, and the lock
\* is released.
Store(c) ==
  LET k == IF hand[c] = "cr" THEN "nl" ELSE hand[c]
      ends == hand[c] # None /\ EndsLine(k, Minus(e, r) + 1)
  IN /\ pc[c] = "echo" /\ left[c] = 0
     /\ IF hand[c] = None THEN UNCHANGED <<buf, e>>
        ELSE buf' = [buf EXCEPT ![e % INPUT_BUF_SIZE] = k] /\ e' = Plus(e, 1)
     /\ w' = IF ends THEN e' ELSE w
     /\ pc' = Woken([pc EXCEPT ![c] = "getc"], IF ends THEN Readers ELSE {})
     /\ hand' = [hand EXCEPT ![c] = None]
     /\ lock' = None
     /\ UNCHANGED <<device, irq, tx, txlock, left, r, reading>>

-----------------------------------------------------------------------------
(* consoleread() *)

Consoleread(t, m) ==
  /\ t \in Readers \cap users /\ pc[t] = "idle" /\ ~killed[t]
  /\ n' = [n EXCEPT ![t] = m]
  /\ Goto(t, "lock")
  /\ UNCHANGED <<device, irq, tx, txlock, left, cons, lock, hand, got, killed>>

\* release(&cons.lock) and return.
Return(t) ==
  /\ lock' = None
  /\ Goto(t, "idle")
  /\ n' = [n EXCEPT ![t] = 0] /\ got' = [got EXCEPT ![t] = FALSE]

\* acquire(&cons.lock), at the start of the call and at the end of sleep().
ReadLock(t) ==
  /\ t \in Readers /\ pc[t] = "lock" /\ lock = None
  /\ lock' = t
  /\ Goto(t, "test")
  /\ UNCHANGED <<device, irq, tx, txlock, left, cons, hand, reading>>

\* Nothing to read: a killed reader returns, another one goes to sleep.
ReadWait(t) ==
  /\ t \in Readers /\ pc[t] = "test" /\ n[t] > 0 /\ r = w
  /\ IF killed[t] THEN Return(t) ELSE Goto(t, "sleep") /\ UNCHANGED <<lock, n, got>>
  /\ UNCHANGED <<device, irq, tx, txlock, left, cons, hand, killed>>

\* sleep(&cons.r, &cons.lock): the reader may have been killed since it looked.
ReadSleep(t) ==
  /\ t \in Readers /\ pc[t] = "sleep"
  /\ lock' = None
  /\ Goto(t, "asleep")
  /\ UNCHANGED <<device, irq, tx, txlock, left, cons, hand, reading>>

\* One turn of the loop.  End of file is left for the next call unless it is
\* the first character of this one; either_copyout() may fail.
ReadTake(t) ==
  LET c == buf[r % INPUT_BUF_SIZE]
      keep == c = "eof" /\ got[t]
      done == c \in {"eof", "nl"} \/ n[t] = 1
  IN /\ t \in Readers /\ pc[t] = "test" /\ n[t] > 0 /\ r # w
     /\ IF keep THEN UNCHANGED <<buf, r>>
        ELSE buf' = [buf EXCEPT ![r % INPUT_BUF_SIZE] = None] /\ r' = Plus(r, 1)
     /\ \/ Return(t)
        \/ /\ ~done
           /\ n' = [n EXCEPT ![t] = @ - 1] /\ got' = [got EXCEPT ![t] = TRUE]
           /\ UNCHANGED <<lock, pc>>
     /\ UNCHANGED <<device, irq, tx, txlock, left, w, e, hand, killed>>

\* kill() does not take cons.lock.  A killed process leaves at the end of its call.
Kill(t) ==
  /\ t \in Readers /\ pc[t] # "idle" /\ ~killed[t]
  /\ killed' = [killed EXCEPT ![t] = TRUE]
  /\ pc' = Woken(pc, {t})
  /\ UNCHANGED <<device, irq, tx, txlock, left, cons, lock, hand, n, got>>

-----------------------------------------------------------------------------
DeviceNext ==
  /\ Transmit \/ Raise \/ \E k \in Keys : Receive(k)
  /\ UNCHANGED consVars

\* devintr()
Intr(c) ==
  \/ /\ Claim(c) \/ Complete(c) \/ SyncSpin(c) \/ SyncPut(c) \/ IntrLock(c) \/ Uartstart(c)
     /\ UNCHANGED consVars
  \/ Uartgetc(c) \/ Consoleintr(c) \/ Store(c)

Write(p) ==
  /\ Copyin(p) \/ Putc(p) \/ Uartstart(p)
  /\ UNCHANGED consVars

Read(t) == ReadLock(t) \/ ReadWait(t) \/ ReadSleep(t) \/ ReadTake(t)

Next ==
  \/ DeviceNext
  \/ \E c \in CPUs : Intr(c)
  \/ \E p \in Writers :
       \/ Write(p)
       \/ \E m \in 1..MaxWrite : Consolewrite(p, m) /\ UNCHANGED consVars
  \/ \E t \in Readers : Read(t) \/ Kill(t) \/ \E m \in 1..MaxRead : Consoleread(t, m)

Spec == Init /\ [][Next]_vars

(***************************************************************************)
(* The line keeps transmitting, a raised interrupt is taken by some CPU    *)
(* and its handler runs to the end.  A process in a system call is         *)
(* scheduled and gets a lock that is free again and again.  Nothing is     *)
(* assumed of the keyboard, nor that anyone reads or writes.               *)
(***************************************************************************)
Fairness ==
  /\ WF_vars(Transmit /\ UNCHANGED consVars) /\ WF_vars(Raise /\ UNCHANGED consVars)
  /\ SF_vars(\E c \in CPUs : Intr(c))
  /\ SF_vars(\E p \in Writers : Write(p))
  /\ \A t \in Readers : SF_vars(Read(t))

FairSpec == Spec /\ Fairness

-----------------------------------------------------------------------------
TypeOK ==
  /\ rx \in Seq(Keys) /\ Len(rx) <= RxFifo /\ thr \in Nat /\ thre \in BOOLEAN
  /\ irq \in {"none", "pending", "claimed"}
  /\ tx \in Nat /\ left \in [Actors -> Nat]
  /\ txlock \in Actors \cup {None} /\ lock \in Actors \cup {None}
  /\ r \in 0..Wrap - 1 /\ w \in 0..Wrap - 1 /\ e \in 0..Wrap - 1
  /\ hand \in [CPUs -> Keys \cup {None}]
  /\ n \in [Readers -> 0..MaxRead]
  /\ got \in [Readers -> BOOLEAN] /\ killed \in [Readers -> BOOLEAN]

Segment(from, to) == [j \in 1..Minus(to, from) |-> buf[(from + j - 1) % INPUT_BUF_SIZE]]

\* Keys in the hands of CPUs, then those still in the FIFO.
Typed ==
  LET busy == {c \in CPUs : hand[c] # None}
  IN (IF busy = {} THEN <<>> ELSE <<hand[CHOOSE c \in busy : TRUE]>>) \o rx

T == INSTANCE Terminal WITH typed <- Typed, line <- Segment(w, e), done <- Segment(r, w),
                            Capacity <- INPUT_BUF_SIZE

(***************************************************************************)
(* The console is a terminal: across the wrap of its three indices, keys   *)
(* take effect in the order they were pressed although uartgetc() takes no *)
(* lock and any CPU may serve the interrupt, erasing never reaches a       *)
(* finished line, typing never overwrites unread text, a full buffer never *)
(* holds an unfinished line that no key could finish, and readers get the  *)
(* finished text in order.                                                 *)
(***************************************************************************)
Keyboard == T!Spec

(***************************************************************************)
(* Output is never lost: writers woken together do not overfill the        *)
(* transmit buffer, and although uartputc_sync() tests and writes the      *)
(* device without uart_tx_lock, the device's FIFO has room for every       *)
(* character written between a test that found it empty and the next one.  *)
(***************************************************************************)
NoOverrun == tx <= UART_TX_BUF_SIZE /\ thr <= TxFifo

(***************************************************************************)
(* No wakeup is lost: a reader sleeps only while there is no finished      *)
(* text, a writer only while the transmit buffer is full.                  *)
(***************************************************************************)
SleepersHaveReason ==
  /\ \A t \in Readers : pc[t] = "asleep" => r = w
  /\ \A p \in Writers : pc[p] = "asleep" => TxFull

(***************************************************************************)
(* A writer asleep on a full transmit buffer is woken, however much is     *)
(* echoed meanwhile: the transmitter is never left waiting for an          *)
(* interrupt that does not come.  (Woken, it may find that another writer  *)
(* was faster.)                                                            *)
(***************************************************************************)
WritersWoken == \A p \in Writers : pc[p] = "asleep" ~> pc[p] # "asleep"

(***************************************************************************)
(* A reader that waits while the last key of a line is in the receive FIFO *)
(* returns: no interrupt for waiting input is missed.                      *)
(***************************************************************************)
LineIsRead ==
  \A t \in Readers :
    pc[t] # "idle" /\ (\E j \in DOMAIN rx : rx[j] \in {"cr", "nl", "eof"}) ~> pc[t] = "idle"
=============================================================================
