-------------------------------- MODULE Files --------------------------------
(***************************************************************************)
(* kernel/file.c and pipealloc() and pipeclose() of kernel/pipe.c: the     *)
(* table of open files, shared by the descriptors of all processes.  A     *)
(* pipe is the ends of it that are open and occupies one page as long as   *)
(* there is one.  What a file of type "inode" refers to is external.       *)
(***************************************************************************)
EXTENDS Vm, Sequences, FiniteSetsExt

CONSTANTS NFILE, NPIPE   \* entries of ftable; distinct pipes ever alive at once

VARIABLES file,    \* ftable
          pipes    \* the open ends, "r" and "w", of each pipe

FileTable == 1..NFILE
PipeIds == 1..NPIPE

FilesInit ==
  /\ file = [f \in FileTable |-> [ref |-> 0, type |-> "none", pipe |-> None, end |-> "r"]]
  /\ pipes = [i \in PipeIds |-> {}]

\* filealloc() takes the first unused entry, whatever is left in it.
UnusedFiles == {f \in FileTable : file[f].ref = 0}
Filealloc(tab, f) == [tab EXCEPT ![f].ref = 1]

\* filedup() of every file in the sequence, and when that panics
Filedup(tab, fs) ==
  [f \in FileTable |-> [tab[f] EXCEPT !.ref = @ + Cardinality({i \in DOMAIN fs : fs[i] = f})]]
CannotDup(fs) == \E i \in DOMAIN fs : fs[i] # None /\ file[fs[i]].ref < 1

\* (For contrast: the entry keeps the type of the file that was closed.)
FilecloseKeepsType(f) == [file EXCEPT ![f].ref = @ - 1]

\* fileclose() up to release(&ftable.lock)
Fileclose(f) ==
  IF file[f].ref > 1 THEN [file EXCEPT ![f].ref = @ - 1]
  ELSE [file EXCEPT ![f].ref = 0, ![f].type = "none"]

\* pipealloc(), after kalloc(): the two files become the ends of pipe i.
PipeEnds(tab, i, rf, wf) ==
  [tab EXCEPT ![rf] = [@ EXCEPT !.type = "pipe", !.pipe = i, !.end = "r"],
              ![wf] = [@ EXCEPT !.type = "pipe", !.pipe = i, !.end = "w"]]

\* The last end to be closed gives back the page.
Pipeclose(ff) ==
  /\ pipes' = [pipes EXCEPT ![ff.pipe] = @ \ {ff.end}]
  /\ Kfree(IF pipes'[ff.pipe] = {} THEN 1 ELSE 0)
=============================================================================
