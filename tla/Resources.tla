------------------------------ MODULE Resources ------------------------------
(***************************************************************************)
(* The system calls that acquire and give back pages of memory and open    *)
(* files: fork(), exit(), wait() and growproc() of kernel/proc.c, exec()   *)
(* of kernel/exec.c, and open, dup, close, pipe and exec of                *)
(* kernel/sysfile.c, by processes that run at the same time.  Each         *)
(* kalloc() and each access to the file table is a step of its own, so     *)
(* that any of them may fail because of what another process holds just    *)
(* then.  Giving pages back never fails and is part of the step that       *)
(* decides on it.  Locks, parents and the file system are left to Proc and *)
(* FileSystem: wait() is by any process.                                   *)
(***************************************************************************)
EXTENDS Files

CONSTANTS NPROC, NOFILE, MAXARG, USERSTACK,
          Increments,    \* arguments of sbrk()
          Segments,      \* loadable segments of programs: [va, memsz]
          Programs       \* [calls, pages]: the system calls made, the memory there is

Procs == 1..NPROC
InitProc == 1

VARIABLES
  program,                            \* member of Programs, chosen for the behaviour
  state, pagetable, trapframe, sz, ofile,   \* struct proc
  job                                 \* the call a process is in, and its local variables

procVars == <<state, pagetable, trapframe, sz, ofile>>
vars == <<free, panicked, file, pipes, program, procVars, job>>

\* pc: next step; np: fork()'s child; new, nsz: the page table being built and
\* the size it stands for; a, goal: loop of uvmalloc() and uvmcopy(); seg: the
\* segment being loaded; mem: holds a page that is not mapped yet; argv: pages
\* with arguments; todo: files to be closed; ff: copy of the file closed last.
Idle == [call |-> "none", pc |-> "idle", np |-> None, new |-> None, nsz |-> 0,
         a |-> 0, goal |-> 0, seg |-> None, mem |-> 0, argv |-> 0,
         todo |-> <<>>, ff |-> None]

FirstTable == [low |-> LEVELS, high |-> LEVELS, tramp |-> TRUE, frame |-> TRUE, user |-> {0}]

\* userinit(): one page of memory and no open files
Init ==
  /\ FilesInit
  /\ program \in Programs
  /\ panicked = FALSE
  /\ free = program.pages - 1 - Held(FirstTable)
  /\ state = [p \in Procs |-> IF p = InitProc THEN "LIVE" ELSE "UNUSED"]
  /\ pagetable = [p \in Procs |-> IF p = InitProc THEN FirstTable ELSE None]
  /\ trapframe = [p \in Procs |-> p = InitProc]
  /\ sz = [p \in Procs |-> IF p = InitProc THEN PGSIZE ELSE 0]
  /\ ofile = [p \in Procs |-> [fd \in 1..NOFILE |-> None]]
  /\ job = [p \in Procs |-> Idle]

Set(f, p, v) == [f EXCEPT ![p] = v]
Calls(p, call) == call \in program.calls /\ state[p] = "LIVE" /\ job[p] = Idle
At(p, label) == job[p].pc = label
Do(p, j) == job' = Set(job, p, j)
Goto(p, label) == Do(p, [job[p] EXCEPT !.pc = label])
Return(p) == Do(p, Idle)

-----------------------------------------------------------------------------
(* Giving up. *)

\* The table and the pages it maps, if there is one, under the given size.
Gain(t, size) == IF t = None THEN 0 ELSE GivenBack(t, size)
Stuck(t, size) == t # None /\ ~Frees(t, size)

\* freeproc(q), whose page table is t, and kfree() of k more pages
Freeproc(q, t, k) ==
  /\ Kfree(k + Gain(t, sz[q]) + (IF trapframe[q] THEN 1 ELSE 0))
  /\ panicked' = Stuck(t, sz[q])
  /\ state' = Set(state, q, "UNUSED")
  /\ pagetable' = Set(pagetable, q, None) /\ trapframe' = Set(trapframe, q, FALSE)
  /\ sz' = Set(sz, q, 0)

\* A page for p's call cannot be had, or exec() finds fault with the program.
\* The table being worked on is left as t, and k pages are given back at once.
\* fork() frees the child, sbrk() keeps its table, exec() frees the new table
\* and sys_exec() the arguments.
GiveUp(p, t, k) ==
  LET j == job[p]
  IN /\ CASE j.call = "fork" -> Freeproc(j.np, t, k)
          [] j.call = "sbrk" -> /\ Kfree(k)
                                /\ pagetable' = Set(pagetable, p, t)
                                /\ UNCHANGED <<panicked, state, trapframe, sz>>
          [] j.call = "exec" -> /\ Kfree(k + Gain(t, j.nsz) + j.argv)
                                /\ panicked' = Stuck(t, j.nsz)
                                /\ UNCHANGED <<state, pagetable, trapframe, sz>>
     /\ Return(p)
     /\ UNCHANGED <<file, pipes, program, ofile>>

-----------------------------------------------------------------------------
(* proc_pagetable() *)

Root(p) ==
  /\ At(p, "root")
  /\ \/ /\ Kalloc
        /\ Do(p, [job[p] EXCEPT !.pc = "high", !.new = Uvmcreate])
        /\ UNCHANGED <<panicked, file, pipes, program, procVars>>
     \/ KallocFails /\ GiveUp(p, None, 0)

\* walk() on the way to the trampoline.  The trapframe is mapped under the same
\* lowest-level page, which cannot fail.  If walk() fails uvmfree() gives back
\* the table.
WalkHigh(p) ==
  LET t == [job[p].new EXCEPT !.high = @ + 1]
      last == t.high = LEVELS
  IN /\ At(p, "high")
     /\ \/ /\ Kalloc
           /\ Do(p, [job[p] EXCEPT
                !.new = IF last THEN [t EXCEPT !.tramp = TRUE, !.frame = TRUE] ELSE t,
                !.goal = IF job[p].call = "fork" THEN sz[p] ELSE 0,
                !.pc = IF ~last THEN "high"
                       ELSE IF job[p].call = "fork" THEN "fill" ELSE "segment"])
           /\ UNCHANGED <<panicked, file, pipes, program, procVars>>
        \/ KallocFails /\ GiveUp(p, None, TablePages(job[p].new))

-----------------------------------------------------------------------------
(* The loops of uvmalloc() and uvmcopy(), which add the pages up to goal. *)

\* sbrk() works on the table in use, the other calls on the one being built.
Table(p) == IF job[p].call = "sbrk" THEN pagetable[p] ELSE job[p].new
WithTable(p, t) ==
  IF job[p].call = "sbrk"
    THEN pagetable' = Set(pagetable, p, t) /\ UNCHANGED <<state, trapframe, sz, ofile>>
    ELSE UNCHANGED procVars
Job(p, t) == IF job[p].call = "sbrk" THEN job[p] ELSE [job[p] EXCEPT !.new = t]

\* Where the loop began.
From(p) == CASE job[p].call = "fork" -> 0
             [] job[p].call = "sbrk" -> PGROUNDUP(sz[p])
             [] job[p].call = "exec" -> PGROUNDUP(job[p].nsz)

\* Faulty variant: the pages mapped so far are forgotten.
FillFailsForgets(p, k) == GiveUp(p, Table(p), k)

\* The pages mapped so far are unmapped again; k pages were not mapped yet.
FillFails(p, k) ==
  LET S == PagesIn(From(p), job[p].a)
  IN IF Unmaps(Table(p), S) THEN GiveUp(p, Uvmunmap(Table(p), S), k + Cardinality(S))
     ELSE panicked' = TRUE /\ UNCHANGED <<free, file, pipes, program, procVars, job>>

\* mappages() once the lowest-level page is there
MapPage(p, t) ==
  /\ panicked' = Remaps(t, job[p].a)
  /\ WithTable(p, Mappages(t, job[p].a))
  /\ Do(p, [Job(p, Mappages(t, job[p].a)) EXCEPT !.pc = "fill", !.mem = 0, !.a = @ + PGSIZE])
  /\ UNCHANGED <<file, pipes, program>>

\* uvmcopy() panics if the parent lacks the page.
FillPage(p) ==
  /\ At(p, "fill") /\ job[p].a < job[p].goal
  /\ IF job[p].call = "fork" /\ ~Unmaps(pagetable[p], {job[p].a \div PGSIZE})
       THEN panicked' = TRUE /\ UNCHANGED <<free, file, pipes, program, procVars, job>>
       ELSE \/ Kalloc /\ Table(p).low = LEVELS /\ MapPage(p, Table(p))
            \/ /\ Kalloc /\ Table(p).low < LEVELS
               /\ Do(p, [job[p] EXCEPT !.pc = "walk", !.mem = 1])
               /\ UNCHANGED <<panicked, file, pipes, program, procVars>>
            \/ KallocFails /\ FillFails(p, 0)

WalkLow(p) ==
  LET t == [Table(p) EXCEPT !.low = @ + 1]
  IN /\ At(p, "walk")
     /\ \/ Kalloc /\ t.low = LEVELS /\ MapPage(p, t)
        \/ /\ Kalloc /\ t.low < LEVELS
           /\ WithTable(p, t)
           /\ Do(p, Job(p, t))
           /\ UNCHANGED <<panicked, file, pipes, program>>
        \/ KallocFails /\ FillFails(p, 1)

Filled(p, call) == At(p, "fill") /\ job[p].call = call /\ job[p].a >= job[p].goal

-----------------------------------------------------------------------------
(* growproc() *)

Sbrk(p, n) ==
  /\ Calls(p, "sbrk") /\ n > 0
  /\ Do(p, [Idle EXCEPT !.call = "sbrk", !.pc = "fill", !.a = PGROUNDUP(sz[p]), !.goal = sz[p] + n])
  /\ UNCHANGED <<free, panicked, file, pipes, program, procVars>>

SbrkDone(p) ==
  /\ Filled(p, "sbrk")
  /\ sz' = Set(sz, p, job[p].goal)
  /\ Return(p)
  /\ UNCHANGED <<free, panicked, file, pipes, program, state, pagetable, trapframe, ofile>>

\* uvmdealloc().  If n is larger than the size, sz - n wraps to a huge number,
\* which is not below sz: nothing happens and sbrk() succeeds.
Shrink(p, n) ==
  LET S == PagesIn(PGROUNDUP(sz[p] - n), sz[p])
  IN /\ Calls(p, "sbrk") /\ n \in 1..sz[p]
     /\ panicked' = ~Unmaps(pagetable[p], S)
     /\ pagetable' = Set(pagetable, p, Uvmunmap(pagetable[p], S))
     /\ Kfree(Cardinality(S))
     /\ sz' = Set(sz, p, sz[p] - n)
     /\ UNCHANGED <<file, pipes, program, state, trapframe, ofile, job>>

-----------------------------------------------------------------------------
(* fork(), exit() and wait() *)

\* allocproc() takes the first unused entry; without one fork() returns.
Fork(p) ==
  LET unused == {q \in Procs : state[q] = "UNUSED"}
  IN /\ Calls(p, "fork") /\ unused # {}
     /\ state' = Set(state, Min(unused), "USED")
     /\ Do(p, [Idle EXCEPT !.call = "fork", !.pc = "trapframe", !.np = Min(unused)])
     /\ UNCHANGED <<free, panicked, file, pipes, program, pagetable, trapframe, sz, ofile>>

AllocTrapframe(p) ==
  /\ At(p, "trapframe")
  /\ \/ /\ Kalloc
        /\ trapframe' = Set(trapframe, job[p].np, TRUE)
        /\ Goto(p, "root")
        /\ UNCHANGED <<panicked, file, pipes, program, state, pagetable, sz, ofile>>
     \/ KallocFails /\ GiveUp(p, None, 0)

\* The memory is copied: sizes, descriptors, and the child may run.
ForkDone(p) ==
  LET q == job[p].np
  IN /\ Filled(p, "fork")
     /\ pagetable' = Set(pagetable, q, job[p].new) /\ sz' = Set(sz, q, sz[p])
     /\ panicked' = CannotDup(ofile[p])
     /\ file' = Filedup(file, ofile[p])
     /\ ofile' = Set(ofile, q, ofile[p])
     /\ state' = Set(state, q, "LIVE")
     /\ Return(p)
     /\ UNCHANGED <<free, pipes, program, trapframe>>

\* exit() closes every descriptor.
Exit(p) ==
  /\ Calls(p, "exit") /\ p # InitProc
  /\ Do(p, [Idle EXCEPT !.call = "exit", !.pc = "close",
                        !.todo = SelectSeq(ofile[p], LAMBDA f : f # None)])
  /\ ofile' = Set(ofile, p, [fd \in 1..NOFILE |-> None])
  /\ UNCHANGED <<free, panicked, file, pipes, program, state, pagetable, trapframe, sz>>

ExitDone(p) ==
  /\ At(p, "close") /\ job[p].call = "exit" /\ job[p].todo = <<>> /\ job[p].ff = None
  /\ state' = Set(state, p, "ZOMBIE")
  /\ Return(p)
  /\ UNCHANGED <<free, panicked, file, pipes, program, pagetable, trapframe, sz, ofile>>

Wait(p, q) ==
  /\ Calls(p, "wait") /\ state[q] = "ZOMBIE"
  /\ Freeproc(q, pagetable[q], 0)
  /\ UNCHANGED <<file, pipes, program, ofile, job>>

-----------------------------------------------------------------------------
(* sys_exec() and exec() *)

Exec(p) ==
  /\ Calls(p, "exec")
  /\ Do(p, [Idle EXCEPT !.call = "exec", !.pc = "argv"])
  /\ UNCHANGED <<free, panicked, file, pipes, program, procVars>>

\* The next argument is fetched into a page of its own.  Fetching may fail, and
\* MAXARG arguments are too many.
AllocArg(p) ==
  /\ At(p, "argv")
  /\ \/ /\ job[p].argv < MAXARG /\ Kalloc
        /\ Do(p, [job[p] EXCEPT !.argv = @ + 1])
        /\ UNCHANGED <<panicked, file, pipes, program, procVars>>
     \/ GiveUp(p, None, 0)

\* After the last argument exec() opens the program and reads its header.  (A
\* failure there has the effect of a failure above.)
OpenProgram(p) ==
  /\ At(p, "argv") /\ job[p].argv < MAXARG
  /\ Goto(p, "root")
  /\ UNCHANGED <<free, panicked, file, pipes, program, procVars>>

\* uvmalloc() up to the segment's end.  Nothing is added if that is below nsz.
LoadSegment(p, s) ==
  /\ At(p, "segment")
  /\ Do(p, [job[p] EXCEPT !.pc = "fill", !.seg = s, !.a = PGROUNDUP(job[p].nsz),
                          !.goal = Max({job[p].nsz, s.va + s.memsz})])
  /\ UNCHANGED <<free, panicked, file, pipes, program, procVars>>

\* exec() takes uvmalloc()'s result 0 for an error.  loadseg() panics if a page of
\* the segment is missing; the worst case is that all of it comes from the file.
Loadseg(p) ==
  LET j == job[p]
  IN /\ Filled(p, "exec") /\ j.seg \in Segments
     /\ \/ j.goal = 0 /\ GiveUp(p, j.new, 0)
        \/ /\ j.goal > 0
           /\ panicked' = ~Unmaps(j.new, PagesIn(j.seg.va, j.seg.va + j.seg.memsz))
           /\ Do(p, [j EXCEPT !.pc = "segment", !.seg = None, !.nsz = j.goal])
           /\ UNCHANGED <<free, file, pipes, program, procVars>>

\* readi() fails, or a program header is bad.
BadSegment(p) == At(p, "segment") /\ GiveUp(p, job[p].new, 0)

\* The last segment is loaded: uvmalloc() of a guard page and the stack.
Stack(p) ==
  LET base == PGROUNDUP(job[p].nsz)
  IN /\ At(p, "segment")
     /\ Do(p, [job[p] EXCEPT !.pc = "fill", !.nsz = base, !.a = base,
                             !.goal = base + (USERSTACK + 1) * PGSIZE])
     /\ UNCHANGED <<free, panicked, file, pipes, program, procVars>>

\* uvmclear() of the guard page panics if walk() finds no way to it.
Uvmclear(p) ==
  /\ Filled(p, "exec") /\ job[p].seg = None
  /\ panicked' = (job[p].new.low < LEVELS)
  /\ Do(p, [job[p] EXCEPT !.pc = "args", !.nsz = job[p].goal])
  /\ UNCHANGED <<free, file, pipes, program, procVars>>

\* The arguments do not fit on the stack.
BadArguments(p) == At(p, "args") /\ GiveUp(p, job[p].new, 0)

\* The new image replaces the old one, which is freed under the old size;
\* sys_exec() frees the arguments.
Commit(p) ==
  LET j == job[p]
  IN /\ At(p, "args")
     /\ panicked' = Stuck(pagetable[p], sz[p])
     /\ Kfree(Gain(pagetable[p], sz[p]) + j.argv)
     /\ pagetable' = Set(pagetable, p, j.new) /\ sz' = Set(sz, p, j.nsz)
     /\ Return(p)
     /\ UNCHANGED <<file, pipes, program, state, trapframe, ofile>>

-----------------------------------------------------------------------------
(* Open files.  While sys_pipe() is building a pipe, todo holds its files. *)

FreeFds(p) == {fd \in 1..NOFILE : ofile[p][fd] = None}

\* fdalloc() takes the lowest free descriptor.
Fdalloc(p, f) == Set(ofile, p, [ofile[p] EXCEPT ![Min(FreeFds(p))] = f])

\* After a step of fileclose(): what is left to do.
Closing(p, todo, ff) ==
  Do(p, IF todo = <<>> /\ ff = None /\ job[p].call # "exit" THEN Idle
        ELSE [job[p] EXCEPT !.pc = "close", !.todo = todo, !.ff = ff])

CloseFile(p) ==
  /\ At(p, "close") /\ job[p].todo # <<>> /\ job[p].ff = None
  /\ LET f == Head(job[p].todo)
         last == file[f].ref = 1
     IN /\ panicked' = (file[f].ref < 1)
        /\ file' = Fileclose(f)
        /\ Closing(p, Tail(job[p].todo), IF last /\ file[f].type = "pipe" THEN file[f] ELSE None)
  /\ UNCHANGED <<free, pipes, program, procVars>>

ClosePipe(p) ==
  /\ At(p, "close") /\ job[p].ff # None
  /\ Pipeclose(job[p].ff)
  /\ Closing(p, job[p].todo, None)
  /\ UNCHANGED <<panicked, file, program, procVars>>

\* open() of a file that exists.  Without a free descriptor the file, which has
\* no type yet, is closed again.
Open(p) ==
  /\ Calls(p, "open") /\ UnusedFiles # {}
  /\ LET f == Min(UnusedFiles)
     IN IF FreeFds(p) # {}
          THEN /\ file' = [Filealloc(file, f) EXCEPT ![f].type = "inode"]
               /\ ofile' = Fdalloc(p, f)
               /\ UNCHANGED job
          ELSE /\ file' = Filealloc(file, f)
               /\ Do(p, [Idle EXCEPT !.call = "open", !.pc = "close", !.todo = <<f>>])
               /\ UNCHANGED ofile
  /\ UNCHANGED <<free, panicked, pipes, program, state, pagetable, trapframe, sz>>

Dup(p) ==
  /\ Calls(p, "dup") /\ FreeFds(p) # {}
  /\ \E fd \in 1..NOFILE \ FreeFds(p) :
       /\ panicked' = CannotDup(<<ofile[p][fd]>>)
       /\ file' = Filedup(file, <<ofile[p][fd]>>)
       /\ ofile' = Fdalloc(p, ofile[p][fd])
  /\ UNCHANGED <<free, pipes, program, state, pagetable, trapframe, sz, job>>

Close(p) ==
  /\ Calls(p, "close")
  /\ \E fd \in 1..NOFILE \ FreeFds(p) :
       /\ ofile' = Set(ofile, p, [ofile[p] EXCEPT ![fd] = None])
       /\ Do(p, [Idle EXCEPT !.call = "close", !.pc = "close", !.todo = <<ofile[p][fd]>>])
  /\ UNCHANGED <<free, panicked, file, pipes, program, state, pagetable, trapframe, sz>>

\* pipealloc(): the first file.  Without one pipe() returns.
Pipe(p) ==
  /\ Calls(p, "pipe") /\ UnusedFiles # {}
  /\ file' = Filealloc(file, Min(UnusedFiles))
  /\ Do(p, [Idle EXCEPT !.call = "pipe", !.pc = "second", !.todo = <<Min(UnusedFiles)>>])
  /\ UNCHANGED <<free, panicked, pipes, program, procVars>>

SecondFile(p) ==
  /\ At(p, "second")
  /\ \/ /\ UnusedFiles # {}
        /\ file' = Filealloc(file, Min(UnusedFiles))
        /\ Do(p, [job[p] EXCEPT !.pc = "page", !.todo = Append(@, Min(UnusedFiles))])
     \/ UnusedFiles = {} /\ Goto(p, "close") /\ UNCHANGED file
  /\ UNCHANGED <<free, panicked, pipes, program, procVars>>

AllocPipe(p) ==
  /\ At(p, "page")
  /\ \/ /\ Kalloc
        /\ \E i \in {Min({j \in PipeIds : pipes[j] = {}})} :
             /\ pipes' = [pipes EXCEPT ![i] = {"r", "w"}]
             /\ file' = PipeEnds(file, i, job[p].todo[1], job[p].todo[2])
        /\ Goto(p, "fds")
     \/ KallocFails /\ Goto(p, "close") /\ UNCHANGED <<free, file, pipes>>
  /\ UNCHANGED <<panicked, program, procVars>>

\* Both files get a descriptor, or there is none for one of them or copyout()
\* fails: what was set in ofile is cleared and both files are closed.
PipeFds(p) ==
  /\ At(p, "fds")
  /\ \/ /\ Cardinality(FreeFds(p)) >= 2
        /\ LET first == Min(FreeFds(p))
               second == Min(FreeFds(p) \ {first})
           IN ofile' = Set(ofile, p, [ofile[p] EXCEPT ![first] = job[p].todo[1],
                                                      ![second] = job[p].todo[2]])
        /\ Return(p)
     \/ Goto(p, "close") /\ UNCHANGED ofile
  /\ UNCHANGED <<free, panicked, file, pipes, program, state, pagetable, trapframe, sz>>

-----------------------------------------------------------------------------
Memory(p) ==
  \/ \E n \in Increments : Sbrk(p, n) \/ Shrink(p, n)
  \/ Root(p) \/ WalkHigh(p) \/ FillPage(p) \/ WalkLow(p) \/ SbrkDone(p)

Process(p) ==
  \/ Fork(p) \/ AllocTrapframe(p) \/ ForkDone(p) \/ Exit(p) \/ ExitDone(p)
  \/ \E q \in Procs : Wait(p, q)

Program(p) ==
  \/ Exec(p) \/ AllocArg(p) \/ OpenProgram(p)
  \/ \E s \in Segments : LoadSegment(p, s)
  \/ Loadseg(p) \/ BadSegment(p) \/ Stack(p) \/ Uvmclear(p) \/ BadArguments(p) \/ Commit(p)

Descriptor(p) ==
  \/ Open(p) \/ Dup(p) \/ Close(p) \/ Pipe(p) \/ SecondFile(p) \/ AllocPipe(p) \/ PipeFds(p)
  \/ CloseFile(p) \/ ClosePipe(p)

Next == \E p \in Procs : Memory(p) \/ Process(p) \/ Program(p) \/ Descriptor(p)

Spec == Init /\ [][Next]_vars

-----------------------------------------------------------------------------
(* Properties *)

TypeOK ==
  /\ free \in 0..program.pages /\ panicked \in BOOLEAN
  /\ \A f \in FileTable : file[f].ref \in Nat /\ file[f].type \in {"none", "pipe", "inode"}
  /\ pipes \in [PipeIds -> SUBSET {"r", "w"}]
  /\ state \in [Procs -> {"UNUSED", "USED", "LIVE", "ZOMBIE"}]
  /\ trapframe \in [Procs -> BOOLEAN] /\ sz \in [Procs -> Nat]
  /\ \A p \in Procs : ofile[p] \in [1..NOFILE -> FileTable \cup {None}]

\* No page is lost or given back twice: at every moment each page is on
\* kmem.freelist or is a trapframe, belongs to a page table in use or being
\* built, is in the hands of a system call, or is an open pipe -- however the
\* calls of several processes interleave, and wherever one of them fails.  And a
\* process that is not in sbrk() has exactly the pages below its sz, besides the
\* trampoline and the trapframe, also after an sbrk() or exec() that failed.
PagesConserved ==
  LET InHands(p) == (IF trapframe[p] THEN 1 ELSE 0) + Held(pagetable[p])
                      + Held(job[p].new) + job[p].mem + job[p].argv
      alive == Cardinality({i \in PipeIds : pipes[i] # {}})
  IN /\ free + MapThenSumSet(InHands, Procs) + alive = program.pages
     /\ \A p \in Procs : state[p] \in {"LIVE", "ZOMBIE"} /\ job[p].call # "sbrk" =>
          Frees(pagetable[p], sz[p])

\* None of the panics of vm.c, exec.c and file.c is reached: no page is mapped
\* twice, none is missing when a table is freed, copied or loaded, none is left
\* in a table when freewalk() comes to it, no file is closed or duplicated
\* without a reference.
NoPanic == ~panicked

\* A file has as many references as there are descriptors for it and system calls
\* that hold it, and an end of a pipe is open exactly as long as a file in use, or
\* one just taken out of use by fileclose(), stands for it.
RefsExact ==
  /\ \A f \in FileTable :
       file[f].ref = MapThenSumSet(LAMBDA p : Cardinality({fd \in 1..NOFILE : ofile[p][fd] = f})
                         + Cardinality({i \in DOMAIN job[p].todo : job[p].todo[i] = f}), Procs)
  /\ \A i \in PipeIds : \A end \in {"r", "w"} :
       LET Stands(x) == x.type = "pipe" /\ x.pipe = i /\ x.end = end
           files == {f \in FileTable : file[f].ref > 0 /\ Stands(file[f])}
           copies == {p \in Procs : job[p].ff # None /\ Stands(job[p].ff)}
       IN Cardinality(files) + Cardinality(copies) = IF end \in pipes[i] THEN 1 ELSE 0
=============================================================================
