-------------------------------- MODULE Uart --------------------------------
(***************************************************************************)
(* kernel/uart.c with the parts of plic.c and trap.c that bring its        *)
(* interrupts to a CPU.  Writers are processes in consolewrite(); CPUs     *)
(* take the UART's interrupts.  The device has a receive and a transmit    *)
(* FIFO; it asks for an interrupt when input is waiting and when the       *)
(* transmit FIFO has drained.  Which characters are sent is left out: the  *)
(* transmit buffer is how many it holds.                                   *)
(***************************************************************************)
EXTENDS Integers, Sequences, FiniteSets

CONSTANTS CPUs, Writers, Readers, None,
          Casts,         \* who uses the console: sets of processes, and a bound on
                         \* the number of keys pressed meanwhile
          UART_TX_BUF_SIZE,
          RxFifo,        \* characters the receive FIFO holds
          TxFifo,        \* characters the transmit FIFO holds
          MaxWrite       \* largest n passed to consolewrite()

Actors == CPUs \cup Writers \cup Readers

\* The 16550's transmit FIFO holds 16 characters.
ASSUME UartAssumption ==
  /\ CPUs \cap Writers = {} /\ CPUs \cap Readers = {} /\ Writers \cap Readers = {}
  /\ None \notin Actors
  /\ UART_TX_BUF_SIZE \in Nat
  /\ TxFifo \in Nat /\ TxFifo >= 2

VARIABLES
  rx,        \* receive FIFO
  keys,      \* how many more keys will be pressed
  thr,       \* characters in the transmit FIFO
  thre,      \* the device wants to report that the transmit FIFO is empty
  irq,       \* the PLIC's view of UART0_IRQ: "none", "pending" or "claimed"
  tx,        \* uart_tx_w - uart_tx_r
  txlock,    \* uart_tx_lock
  users,     \* the processes that use the console
  pc, left   \* where each actor is; characters its loop has still to send

device == <<rx, keys, thr, thre, users>>
uartVars == <<device, irq, tx, txlock, pc, left>>

\* uartinit(), before any character has gone either way
UartInit(cast) ==
  /\ rx = <<>> /\ thr = 0 /\ thre = FALSE /\ irq = "none"
  /\ tx = 0 /\ txlock = None /\ users = cast.users /\ keys = cast.keys
  /\ pc = [a \in Actors |-> "idle"]
  /\ left = [a \in Actors |-> 0]

Goto(a, label) == pc' = [pc EXCEPT ![a] = label]
Woken(p, S) == [a \in Actors |-> IF a \in S /\ p[a] = "asleep" THEN "lock" ELSE p[a]]

-----------------------------------------------------------------------------
(* The device and the interrupt controller. *)

\* A key is pressed.
Receive(k) ==
  /\ Len(rx) < RxFifo /\ keys > 0
  /\ rx' = Append(rx, k) /\ keys' = keys - 1
  /\ UNCHANGED <<thr, thre, users, irq, tx, txlock, pc, left>>

\* A character goes out on the line.
Transmit ==
  /\ thr > 0
  /\ thr' = thr - 1
  /\ thre' = (thr = 1)
  /\ UNCHANGED <<rx, keys, users, irq, tx, txlock, pc, left>>

\* An interrupt stays pending even if its cause has gone by the time of the claim.
Raise ==
  /\ irq = "none" /\ (rx # <<>> \/ thre)
  /\ irq' = "pending"
  /\ UNCHANGED <<device, tx, txlock, pc, left>>

\* Faulty variant: the interrupt is completed before it is handled.
ClaimAndComplete(c) ==
  /\ c \in CPUs \cap users /\ pc[c] = "idle" /\ irq = "pending"
  /\ irq' = "none"
  /\ Goto(c, "getc")
  /\ UNCHANGED <<device, tx, txlock, left>>

\* plic_claim().  A CPU that finds the interrupt claimed gets 0 and does nothing.
Claim(c) ==
  /\ c \in CPUs \cap users /\ pc[c] = "idle" /\ irq = "pending"
  /\ irq' = "claimed"
  /\ Goto(c, "getc")
  /\ UNCHANGED <<device, tx, txlock, left>>

\* Faulty variant: the interrupt is not completed.
CompleteForgotten(c) ==
  /\ c \in CPUs /\ pc[c] = "complete"
  /\ Goto(c, "idle")
  /\ UNCHANGED <<device, irq, tx, txlock, left>>

\* plic_complete()
Complete(c) ==
  /\ c \in CPUs /\ pc[c] = "complete"
  /\ irq' = "none"
  /\ Goto(c, "idle")
  /\ UNCHANGED <<device, tx, txlock, left>>

\* LSR_TX_IDLE
TxIdle == thr = 0

\* WriteReg(THR, c)
WriteTHR == thr' = thr + 1 /\ thre' = FALSE

-----------------------------------------------------------------------------
(* uartputc_sync(), called left[c] times in a row by consputc(). *)

\* Spins, with interrupts off.  Nothing keeps the FIFO empty until the write.
SyncSpin(c) ==
  /\ pc[c] = "echo" /\ left[c] > 0 /\ TxIdle
  /\ Goto(c, "echo_put")
  /\ UNCHANGED <<device, irq, tx, txlock, left>>

SyncPut(c) ==
  /\ pc[c] = "echo_put"
  /\ WriteTHR
  /\ left' = [left EXCEPT ![c] = @ - 1]
  /\ Goto(c, "echo")
  /\ UNCHANGED <<rx, keys, users, irq, tx, txlock>>

-----------------------------------------------------------------------------
(* uartputc() and uartstart() *)

\* consolewrite() of n characters
Consolewrite(w, n) ==
  /\ w \in Writers \cap users /\ pc[w] = "idle"
  /\ left' = [left EXCEPT ![w] = n]
  /\ Goto(w, "copyin")
  /\ UNCHANGED <<device, irq, tx, txlock>>

\* either_copyin() of the next character; if it fails the call returns.
Copyin(w) ==
  /\ w \in Writers /\ pc[w] = "copyin"
  /\ \/ Goto(w, "lock") /\ UNCHANGED left
     \/ Goto(w, "idle") /\ left' = [left EXCEPT ![w] = 0]
  /\ UNCHANGED <<device, irq, tx, txlock>>

TxFull == tx = UART_TX_BUF_SIZE

\* uartputc() from acquire() to uartstart().  sleep() releases the lock and
\* blocks in one step, as Proc shows.
Putc(w) ==
  /\ w \in Writers /\ pc[w] = "lock" /\ txlock = None
  /\ IF TxFull
       THEN Goto(w, "asleep") /\ UNCHANGED <<tx, txlock>>
       ELSE tx' = tx + 1 /\ txlock' = w /\ Goto(w, "start")
  /\ UNCHANGED <<device, irq, left>>

\* Faulty variant: the interrupt handler looks after input only.
IntrInputOnly(c) ==
  /\ c \in CPUs /\ pc[c] = "intr_lock" /\ txlock = None
  /\ Goto(c, "complete")
  /\ UNCHANGED <<device, irq, tx, txlock, left>>

\* uartintr() is done with input and acquires uart_tx_lock.
IntrLock(c) ==
  /\ c \in CPUs /\ pc[c] = "intr_lock" /\ txlock = None
  /\ txlock' = c
  /\ Goto(c, "start")
  /\ UNCHANGED <<device, irq, tx, left>>

\* release(&uart_tx_lock): a CPU completes its interrupt, a writer goes on with
\* its next character.
Release(a) ==
  /\ txlock' = None
  /\ IF a \in CPUs THEN Goto(a, "complete") /\ UNCHANGED left
     ELSE /\ left' = [left EXCEPT ![a] = @ - 1]
          /\ Goto(a, IF left[a] = 1 THEN "idle" ELSE "copyin")

\* Reading ISR takes back the report that the FIFO is empty, unless waiting
\* input is reported first.
StartEmpty(a) ==
  /\ txlock = a /\ pc[a] = "start" /\ tx = 0
  /\ thre' = (thre /\ rx # <<>>)
  /\ Release(a)
  /\ UNCHANGED <<rx, keys, thr, users, irq, tx>>

StartBusy(a) ==
  /\ txlock = a /\ pc[a] = "start" /\ tx > 0 /\ ~TxIdle
  /\ Release(a)
  /\ UNCHANGED <<device, irq, tx>>

\* Faulty variant: the device is not asked whether it can take another one.
StartTakeUntested(a) ==
  /\ txlock = a /\ pc[a] = "start" /\ tx > 0
  /\ tx' = tx - 1
  /\ pc' = Woken([pc EXCEPT ![a] = "start_put"], Writers)
  /\ UNCHANGED <<device, irq, txlock, left>>

\* Takes a character from the buffer, wakeup(&uart_tx_r).
StartTake(a) ==
  /\ txlock = a /\ pc[a] = "start" /\ tx > 0 /\ TxIdle
  /\ tx' = tx - 1
  /\ pc' = Woken([pc EXCEPT ![a] = "start_put"], Writers)
  /\ UNCHANGED <<device, irq, txlock, left>>

StartPut(a) ==
  /\ txlock = a /\ pc[a] = "start_put"
  /\ WriteTHR
  /\ Goto(a, "start")
  /\ UNCHANGED <<rx, keys, users, irq, tx, txlock, left>>

Uartstart(a) == StartEmpty(a) \/ StartBusy(a) \/ StartTake(a) \/ StartPut(a)
=============================================================================
