----------------------------- MODULE ByteStream -----------------------------
(***************************************************************************)
(* What kernel/pipe.c promises: a bounded queue of bytes, each one taken   *)
(* at most once and in the order in which they were put.                   *)
(***************************************************************************)
EXTENDS Integers, Sequences

CONSTANTS Bytes, Capacity
VARIABLE queue

Init == queue = <<>>

Put == \E b \in Bytes : Len(queue) < Capacity /\ queue' = Append(queue, b)
Take == queue # <<>> /\ queue' = Tail(queue)

Next == Put \/ Take
Spec == Init /\ [][Next]_queue
=============================================================================
