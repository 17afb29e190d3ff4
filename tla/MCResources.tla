---------------------------- MODULE MCResources ----------------------------
(***************************************************************************)
(* Instances of Resources: two processes, with memory for about one and a  *)
(* half of them, so that every allocation of every call fails in some      *)
(* behaviour because of what the other process holds.                      *)
(***************************************************************************)
EXTENDS Resources

MCPrograms ==
  { [calls |-> {"fork", "exit", "wait", "sbrk", "exec"}, pages |-> 20],
    [calls |-> {"fork", "exit", "wait", "open", "dup", "close", "pipe"}, pages |-> 15] }

\* A segment of one and a half pages, one of nothing, one that begins in the first.
MCSegments == { [va |-> 0, memsz |-> 3], [va |-> 0, memsz |-> 0], [va |-> 2, memsz |-> 4] }

\* A part of a page, and more than a page.
MCIncrements == {1, 3}
=============================================================================
