----------------------------- MODULE BlockStore -----------------------------
(***************************************************************************)
(* What kernel/bio.c promises its callers: one copy of every disk block,   *)
(* held by at most one thread at a time and changed only by its holder.    *)
(***************************************************************************)
CONSTANTS Threads, Blocks, Values, None
VARIABLES content, holder

Init == content \in [Blocks -> Values] /\ holder = [k \in Blocks |-> None]

Obtain(t, k) ==
  holder[k] = None /\ holder' = [holder EXCEPT ![k] = t] /\ UNCHANGED content

Change(t, k) ==
  /\ holder[k] = t
  /\ \E v \in Values : content' = [content EXCEPT ![k] = v]
  /\ UNCHANGED holder

Release(t, k) ==
  holder[k] = t /\ holder' = [holder EXCEPT ![k] = None] /\ UNCHANGED content

Next == \E t \in Threads, k \in Blocks : Obtain(t, k) \/ Change(t, k) \/ Release(t, k)

Spec == Init /\ [][Next]_<<content, holder>>
=============================================================================
