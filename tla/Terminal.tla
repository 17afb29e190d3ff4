------------------------------ MODULE Terminal ------------------------------
(***************************************************************************)
(* What the console promises of its keyboard, whatever the driver's        *)
(* buffers and indices are: keys take effect in the order they were        *)
(* pressed, editing reaches only the line being typed, and what readers    *)
(* get is the finished lines, in order.                                    *)
(***************************************************************************)
EXTENDS Naturals, Sequences

CONSTANTS Keys,      \* the keys that may be pressed
          Capacity   \* how much text the terminal holds

VARIABLES typed,     \* keys pressed that have had no effect yet
          line,      \* the line being typed
          done       \* finished text no reader has taken

vars == <<typed, line, done>>

Text(k) == IF k = "cr" THEN "nl" ELSE k

Init == typed = <<>> /\ line = <<>> /\ done = <<>>

Press(k) ==
  /\ typed' = Append(typed, k)
  /\ UNCHANGED <<line, done>>

\* A key that edits the line.
Edit(k) ==
  /\ line' = CASE k = "erase" /\ line # <<>> -> SubSeq(line, 1, Len(line) - 1)
               [] k = "kill" -> <<>>
               [] OTHER -> line
  /\ UNCHANGED done

\* A key that enters text, which is lost if the terminal is full.  A line is
\* finished by its last key, or by filling the terminal.
Enter(k) ==
  LET longer == Append(line, Text(k))
      full == Len(done) + Len(longer) = Capacity
  IN IF Len(done) + Len(line) = Capacity THEN UNCHANGED <<line, done>>
     ELSE IF full \/ Text(k) \in {"nl", "eof"}
       THEN done' = done \o longer /\ line' = <<>>
       ELSE line' = longer /\ UNCHANGED done

TakeEffect ==
  /\ typed # <<>>
  /\ typed' = Tail(typed)
  /\ IF Head(typed) \in {"erase", "kill", "dump", "nul"}
       THEN Edit(Head(typed)) ELSE Enter(Head(typed))

Read ==
  /\ done # <<>>
  /\ done' = Tail(done)
  /\ UNCHANGED <<typed, line>>

Next == (\E k \in Keys : Press(k)) \/ TakeEffect \/ Read

Spec == Init /\ [][Next]_vars
=============================================================================
