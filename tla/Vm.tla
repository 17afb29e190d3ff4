--------------------------------- MODULE Vm ---------------------------------
(***************************************************************************)
(* kernel/kalloc.c and the page tables of kernel/vm.c.  Pages are          *)
(* interchangeable, so a page is known by the place that holds it, and the *)
(* free list is how many pages it has.  A page table is the root page, the *)
(* lower-level pages on the way to low and to high addresses, and the      *)
(* pages it maps.  Everything a user process maps at the bottom of its     *)
(* address space lies under one lowest-level page, and so do the           *)
(* trampoline and the trapframe at the top.                                *)
(***************************************************************************)
EXTENDS Integers, FiniteSets

CONSTANTS PGSIZE,    \* bytes in a page
          LEVELS,    \* page-table pages below the root on the way to a page
          None

ASSUME VmAssumption ==
  /\ PGSIZE \in Nat \ {0} /\ LEVELS \in Nat \ {0}

VARIABLES free,      \* number of pages on kmem.freelist
          panicked

PGROUNDUP(s) == ((s + PGSIZE - 1) \div PGSIZE) * PGSIZE

\* The numbers of the pages with an address in from..to - 1, from page-aligned.
PagesIn(from, to) == from \div PGSIZE .. PGROUNDUP(to) \div PGSIZE - 1

Uvmcreate == [low |-> 0, high |-> 0, tramp |-> FALSE, frame |-> FALSE, user |-> {}]

\* The page-table pages freewalk() gives back.
TablePages(t) == 1 + t.low + t.high

\* The pages that are gone from the free list because of t.
Held(t) == IF t = None THEN 0 ELSE TablePages(t) + Cardinality(t.user)

\* mappages() of one user page, once walk() has reached the lowest level.
Mappages(t, a) == [t EXCEPT !.user = @ \cup {a \div PGSIZE}]
Remaps(t, a) == a \div PGSIZE \in t.user

\* uvmunmap() panics unless every page is mapped.
Unmaps(t, S) == S \subseteq t.user
Uvmunmap(t, S) == [t EXCEPT !.user = @ \ S]

\* Faulty variant: a partial page at the end is not given back.
GivenBackTruncated(t, size) == TablePages(t) + size \div PGSIZE

\* proc_freepagetable(): uvmunmap() panics if a page below size is missing,
\* freewalk() if one is left.
Frees(t, size) == t.tramp /\ t.frame /\ t.user = PagesIn(0, size)
GivenBack(t, size) == TablePages(t) + Cardinality(PagesIn(0, size))

\* kalloc() and kfree() of k pages
Kalloc == free > 0 /\ free' = free - 1
KallocFails == free = 0
Kfree(k) == free' = free + k
=============================================================================
