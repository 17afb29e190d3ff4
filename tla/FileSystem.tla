----------------------------- MODULE FileSystem -----------------------------
(***************************************************************************)
(* Inodes, directories and the system calls on them: kernel/fs.c and       *)
(* kernel/sysfile.c.  Processes open, create, link, unlink, write, close   *)
(* and change directory, each inside a transaction of the log, which       *)
(* orders nothing between them.  A step ends where the code lets go of, or *)
(* waits for, an inode's lock or itable.lock; iput() is shared by all      *)
(* calls.  The table entry of an inode is named by its number, since       *)
(* iget() looks it up and makes it under itable.lock.  A process has one   *)
(* descriptor; the entries . and .. and the blocks of directories are left *)
(* out.                                                                    *)
(***************************************************************************)
EXTENDS Integers, Sequences, FiniteSets, FiniteSetsExt

CONSTANTS Procs, None,
          Names,
          Programs,          \* sets of the calls made in one behaviour, see Call
          NINODES,           \* inodes on disk
          NINODE,            \* entries of the inode table
          Blocks             \* data blocks on disk

Inums == 1..NINODES
Root == 1

\* Path names are sequences of Names, followed from the root or from cwd.
Path == Seq(Names)
Call == [op : {"open", "chdir"}, from : {"root", "cwd"}, path : Path]
        \cup [op : {"create", "mkdir", "mknod", "unlink"}, from : {"root", "cwd"}, path : Path \ {<<>>}]
        \cup [op : {"link"}, from : {"root", "cwd"}, path : Path, new : Path \ {<<>>}]

ASSUME FsAssumption ==
  /\ \A calls \in Programs : calls \subseteq Call
  /\ NINODES \in Nat \ {0} /\ NINODE \in Nat /\ None \notin Procs

VARIABLES
  dinode,       \* on disk: type, link count and blocks of each inode
  ents,         \* on disk: the entries of each directory but . and ..
  used,         \* on disk: the bitmap of blocks
  inode, valid, ref, lock,   \* inode table, by inode number
  program,      \* member of Programs, chosen for the behaviour
  ofile, cwd,   \* the file each process has open, or 0, and its directory
  pc, call,     \* where a process is, in which system call
  ip, dp, rest, \* its inodes, and what is left of the path
  arg, after,   \* the argument of iput(), and where it returns to
  panicked

disk == <<dinode, ents, used>>
table == <<inode, valid, ref, lock>>
files == <<program, ofile, cwd>>
proc == <<files, pc, call, ip, dp, rest, arg, after>>
vars == <<disk, table, proc, panicked>>

Free == [type |-> "free", nlink |-> 0, addrs |-> {}]
NoEnts == [x \in Names |-> 0]
NoCall == [op |-> "none"]

\* A file system with an empty root, the working directory of every process.
Init ==
  /\ program \in Programs
  /\ dinode = [i \in Inums |-> IF i = Root THEN [Free EXCEPT !.type = "dir", !.nlink = 1]
                               ELSE Free]
  /\ ents = [i \in Inums |-> NoEnts]
  /\ used = {}
  /\ inode = dinode
  /\ valid = [i \in Inums |-> FALSE]
  /\ ref = [i \in Inums |-> IF i = Root THEN Cardinality(Procs) ELSE 0]
  /\ lock = [i \in Inums |-> None]
  /\ ofile = [p \in Procs |-> 0] /\ cwd = [p \in Procs |-> Root]
  /\ pc = [p \in Procs |-> "idle"] /\ call = [p \in Procs |-> NoCall]
  /\ ip = [p \in Procs |-> 0] /\ dp = [p \in Procs |-> 0]
  /\ rest = [p \in Procs |-> <<>>]
  /\ arg = [p \in Procs |-> 0] /\ after = [p \in Procs |-> "idle"]
  /\ panicked = FALSE

Set(f, p, v) == f' = [f EXCEPT ![p] = v]
Goto(p, label) == Set(pc, p, label)

\* Go on with iput(i) and then with label.
Put(p, i, label) == Goto(p, "iput") /\ Set(arg, p, i) /\ Set(after, p, label)
NoPut == UNCHANGED <<arg, after>>

-----------------------------------------------------------------------------
(* The inode table. *)

\* ilock(i) waits for the lock and reads the inode if the entry is not valid.
Unlocked(i) == lock[i] = None
Ilocked(i) == IF valid[i] THEN inode[i] ELSE dinode[i]
Loaded(i) == [inode EXCEPT ![i] = Ilocked(i)]

\* iget() for each inode of S.  An entry without references is not valid, see
\* Deref.
Iget(S) == ref' = [j \in Inums |-> IF j \in S THEN ref[j] + 1 ELSE ref[j]]

\* ilock(i), after which the table holds mem, and iget() for each inode of S.
\* No type, or no entry left: panic.
Ilock(i, mem, S) ==
  /\ Unlocked(i)
  /\ inode' = mem
  /\ valid' = [valid EXCEPT ![i] = TRUE]
  /\ Iget(S)
  /\ panicked' = \/ Ilocked(i).type = "free"
                 \/ Cardinality({j \in Inums : ref'[j] > 0}) > NINODE

\* iupdate() of the inodes of S, changed to mem.
Iupdate(mem, S) == dinode' = [j \in Inums |-> IF j \in S THEN mem[j] ELSE dinode[j]]

\* The call ends, and its variables are gone.
Return(p) ==
  /\ Goto(p, "idle") /\ Set(call, p, NoCall)
  /\ Set(ip, p, 0) /\ Set(dp, p, 0) /\ Set(rest, p, <<>>)
  /\ Set(arg, p, 0) /\ Set(after, p, "idle")

Resume(p, label) ==
  IF label = "return"
    THEN Return(p)
    ELSE /\ Goto(p, label) /\ Set(arg, p, 0) /\ Set(after, p, "idle")
         /\ UNCHANGED <<call, ip, dp, rest>>

\* ref--.  What an entry holds when its last reference goes is never looked
\* at, because iget() makes a new entry; it is dropped here.
Deref(i) ==
  /\ ref' = [ref EXCEPT ![i] = @ - 1]
  /\ valid' = [valid EXCEPT ![i] = @ /\ ref[i] > 1]
  /\ inode' = [inode EXCEPT ![i] = IF ref[i] > 1 THEN @ ELSE Free]

\* (For contrast: without the test of ref.)
UnusedAnyRef(i) == valid[i] /\ inode[i].nlink = 0

\* The last reference to an inode without links goes.
Unused(i) == ref[i] = 1 /\ valid[i] /\ inode[i].nlink = 0

\* iput() up to the decision whether to free the inode.  acquiresleep() is
\* called with a spin lock held and must find the lock free.
Iput(p) ==
  /\ pc[p] = "iput"
  /\ LET i == arg[p]
     IN  IF Unused(i)
           THEN /\ panicked' = ~Unlocked(i)
                /\ Set(lock, i, p)
                /\ Goto(p, "free") /\ NoPut
                /\ UNCHANGED <<inode, valid, ref, call, ip, dp, rest>>
           ELSE /\ Deref(i) /\ Resume(p, after[p])
                /\ UNCHANGED <<lock, panicked>>
  /\ UNCHANGED <<disk, files>>

\* (For contrast: the blocks are forgotten, not freed.)
ItruncLeaking(i) == UNCHANGED <<used, panicked>>

\* bfree() of each block of S, which panics on a free one.
Bfree(S) == used' = used \ S /\ panicked' = ~(S \subseteq used)
Itrunc(i) == Bfree(inode[i].addrs)

\* (For contrast: a freed entry stays valid.)
InvalidateNot(i) == UNCHANGED valid

Invalidate(i) == valid' = [valid EXCEPT ![i] = FALSE]

\* itrunc(), type = 0, iupdate(), valid = 0, releasesleep()
FreeInode(p) ==
  /\ pc[p] = "free"
  /\ LET i == arg[p]
         freed == [inode EXCEPT ![i] = Free]
     IN  /\ Itrunc(i)
         /\ ents' = [ents EXCEPT ![i] = NoEnts]
         /\ inode' = freed /\ Iupdate(freed, {i})
         /\ Invalidate(i) /\ Set(lock, i, None)
  /\ Goto(p, "unref") /\ NoPut
  /\ UNCHANGED <<ref, files, call, ip, dp, rest>>

Unref(p) ==
  /\ pc[p] = "unref"
  /\ Deref(arg[p]) /\ Resume(p, after[p])
  /\ UNCHANGED <<disk, lock, files, panicked>>

-----------------------------------------------------------------------------
(* namex() *)

\* Where a path begins: iget() of the root, or idup() of cwd.
Start(p, c) == IF c.from = "root" THEN Root ELSE cwd[p]

\* One of the calls takes its arguments and calls namex(), which does nothing
\* for a path without names.
SysCall(p, c) ==
  /\ pc[p] = "idle"
  /\ Set(call, p, c) /\ Set(rest, p, c.path)
  /\ Iget({Start(p, c)}) /\ Set(dp, p, Start(p, c))
  /\ Goto(p, IF c.path = <<>> THEN c.op ELSE "namex")
  /\ UNCHANGED <<disk, inode, valid, lock, files, ip, arg, after, panicked>>

\* sys_link looks up its new name when it has the old one.
Linking(p) == call[p].op = "link" /\ ip[p] # 0
Nameiparent(p) == call[p].op \in {"create", "mkdir", "mknod", "unlink"} \/ Linking(p)
Found(p) ==
  IF Linking(p) THEN "link_entry" ELSE call[p].op
NotFound(p) ==
  IF Linking(p) THEN "link_undo" ELSE "return"

Dirlookup(d, x) == ents[d][x]
Dirlink(d, x, i) == ents' = [ents EXCEPT ![d][x] = i]
Isdirempty(d) == ents[d] = NoEnts

\* One turn of namex()'s loop; dp is its ip.
Namex(p) ==
  /\ pc[p] = "namex"
  /\ LET i == dp[p]
         isdir == Ilocked(i).type = "dir"
         stop == Nameiparent(p) /\ Len(rest[p]) = 1
         next == Dirlookup(i, Head(rest[p]))
     IN  \/ /\ ~isdir \/ (~stop /\ next = 0)
            /\ Ilock(i, Loaded(i), {})
            /\ Put(p, i, NotFound(p))
            /\ UNCHANGED <<dp, rest>>
         \/ /\ isdir /\ stop
            /\ Ilock(i, Loaded(i), {})
            /\ Goto(p, Found(p)) /\ NoPut
            /\ UNCHANGED <<dp, rest>>
         \/ /\ isdir /\ ~stop /\ next # 0
            /\ Ilock(i, Loaded(i), {next})
            /\ Set(dp, p, next) /\ Set(rest, p, Tail(rest[p]))
            /\ Put(p, i, IF Len(rest[p]) = 1 THEN Found(p) ELSE "namex")
  /\ UNCHANGED <<disk, lock, files, call, ip>>

Name(p) == LET path == IF Linking(p) THEN call[p].new ELSE call[p].path
           IN  path[Len(path)]

\* iunlock(dp) on an error path.
Undo(p) ==
  /\ pc[p] = "undo"
  /\ Set(lock, dp[p], None)
  /\ Put(p, dp[p], "return")
  /\ UNCHANGED <<disk, inode, valid, ref, files, call, ip, dp, rest, panicked>>

-----------------------------------------------------------------------------
(* create(), for sys_open, sys_mkdir and sys_mknod *)

\* The type of what a call creates.
Type(op) == CASE op = "create" -> "file" [] op = "mkdir" -> "dir" [] op = "mknod" -> "device"


Ialloc(i, type) == dinode' = [dinode EXCEPT ![i] = [Free EXCEPT !.type = type]]

\* ilock(dp) and dirlookup(); if there is no entry, ialloc(), dp stays locked.
Create(p) ==
  /\ pc[p] \in {"create", "mkdir", "mknod"}
  /\ LET d == dp[p]
         old == Dirlookup(d, Name(p))
         fresh == {i \in Inums : dinode[i].type = "free"}
     IN  \/ /\ old # 0
            /\ Ilock(d, Loaded(d), {old})
            /\ Set(ip, p, old) /\ Put(p, d, "create_old")
            /\ UNCHANGED <<dinode, lock>>
         \/ /\ old = 0 /\ fresh = {}
            /\ Ilock(d, Loaded(d), {})
            /\ Put(p, d, "return")
            /\ UNCHANGED <<dinode, lock, ip>>
         \/ /\ old = 0 /\ fresh # {}
            /\ Ialloc(Min(fresh), Type(call[p].op))
            /\ Ilock(d, Loaded(d), {Min(fresh)})
            /\ Set(ip, p, Min(fresh)) /\ Set(lock, d, p)
            /\ Goto(p, "create_new") /\ NoPut
  /\ UNCHANGED <<ents, used, files, call, dp, rest>>

\* The name exists: ilock(ip), which sys_open keeps.
CreateOld(p) ==
  /\ pc[p] = "create_old"
  /\ Ilock(ip[p], Loaded(ip[p]), {})
  /\ IF call[p].op = "create" /\ Ilocked(ip[p]).type # "dir"
       THEN Set(lock, ip[p], p) /\ Goto(p, "opened") /\ NoPut
       ELSE Put(p, ip[p], "return") /\ UNCHANGED lock
  /\ UNCHANGED <<disk, files, call, ip, dp, rest>>

\* ilock(ip), nlink = 1, dirlink(); then dp is unlocked and ip is not.  If the
\* disk is full, nlink = 0 and both are given up.
CreateNew(p) ==
  /\ pc[p] = "create_new"
  /\ LET i == ip[p]
         d == dp[p]
         linked == [Loaded(i) EXCEPT ![i].nlink = 1,
                      ![d].nlink = IF call[p].op = "mkdir" THEN @ + 1 ELSE @]
         failed == [Loaded(i) EXCEPT ![i].nlink = 0]
     IN  \/ /\ Ilock(i, linked, {}) /\ Iupdate(linked, {i, d})
            /\ Dirlink(d, Name(p), i)
            /\ lock' = [lock EXCEPT ![i] = p, ![d] = None]
            /\ Put(p, d, "create_end")
         \/ /\ used = Blocks
            /\ Ilock(i, failed, {}) /\ Iupdate(failed, {i})
            /\ Put(p, i, "undo")
            /\ UNCHANGED <<ents, lock>>
  /\ UNCHANGED <<used, files, call, ip, dp, rest>>

CreateEnd(p) ==
  /\ pc[p] = "create_end"
  /\ IF call[p].op # "create"
       THEN Set(lock, ip[p], None) /\ Put(p, ip[p], "return")
       ELSE Goto(p, "opened") /\ NoPut /\ UNCHANGED lock
  /\ UNCHANGED <<disk, inode, valid, ref, files, call, ip, dp, rest, panicked>>

-----------------------------------------------------------------------------
(* sys_open, sys_close, sys_write, sys_chdir *)

\* namei() without O_CREATE, then ilock(); a directory may only be read.
Open(p) ==
  /\ pc[p] = "open"
  /\ Ilock(dp[p], Loaded(dp[p]), {})
  /\ Set(ip, p, dp[p])
  /\ \/ Set(lock, dp[p], p) /\ Goto(p, "opened") /\ NoPut
     \/ /\ Ilocked(dp[p]).type = "dir"
        /\ Put(p, dp[p], "return") /\ UNCHANGED lock
  /\ UNCHANGED <<disk, files, call, dp, rest>>

\* fdalloc()
Fdalloc(p, i) == ofile[p] = 0 /\ Set(ofile, p, i)

\* The file gets a descriptor and, with O_TRUNC, is truncated; or there is none,
\* or a device has no driver.
Opened(p) ==
  /\ pc[p] = "opened"
  /\ LET i == ip[p]
         empty == [inode EXCEPT ![i].addrs = {}]
     IN  \/ /\ Fdalloc(p, i) /\ Return(p)
            /\ UNCHANGED <<program, cwd>>
            /\ \/ UNCHANGED <<inode, dinode, used, panicked>>
               \/ /\ inode[i].type = "file"
                  /\ inode' = empty /\ Iupdate(empty, {i}) /\ Itrunc(i)
         \/ /\ Put(p, i, "return")
            /\ UNCHANGED <<files, inode, dinode, used, panicked, call, ip, dp, rest>>
  /\ Set(lock, ip[p], None)
  /\ UNCHANGED <<ents, valid, ref>>

Close(p) ==
  /\ pc[p] = "idle" /\ ofile[p] # 0
  /\ Set(ofile, p, 0) /\ Put(p, ofile[p], "return")
  /\ UNCHANGED <<disk, table, program, cwd, call, ip, dp, rest, panicked>>

\* balloc(), for bmap() of the next block of inode i.
Balloc == Min(Blocks \ used)
Bmap(i, x) == [Loaded(i) EXCEPT ![i].addrs = @ \cup {x}]

\* writei() of one more block, and iupdate().
Writei(i) ==
  /\ used' = used \cup {Balloc}
  /\ Ilock(i, Bmap(i, Balloc), {}) /\ Iupdate(Bmap(i, Balloc), {i})

\* filewrite(); when the disk is full, it changes nothing.
Write(p) ==
  /\ pc[p] = "idle" /\ ofile[p] # 0 /\ used # Blocks
  /\ Ilocked(ofile[p]).type = "file"
  /\ Writei(ofile[p])
  /\ UNCHANGED <<ents, lock, proc>>

\* namei(), ilock() and iunlock(); then iput() of the old directory, which may be
\* the last reference to it.
Chdir(p) ==
  /\ pc[p] = "chdir"
  /\ Ilock(dp[p], Loaded(dp[p]), {})
  /\ IF Ilocked(dp[p]).type = "dir" THEN Put(p, cwd[p], "chdir_end") ELSE Put(p, dp[p], "return")
  /\ UNCHANGED <<disk, lock, files, call, ip, dp, rest>>

\* p->cwd refers to the old directory until here.
ChdirEnd(p) ==
  /\ pc[p] = "chdir_end"
  /\ Set(cwd, p, dp[p])
  /\ Return(p)
  /\ UNCHANGED <<disk, table, program, ofile, panicked>>

-----------------------------------------------------------------------------
(* sys_unlink *)

\* ilock(dp), dirlookup(); dp stays locked.
Unlink(p) ==
  /\ pc[p] = "unlink"
  /\ LET d == dp[p]
         i == Dirlookup(d, Name(p))
     IN  \/ /\ i = 0
            /\ Ilock(d, Loaded(d), {}) /\ Put(p, d, "return")
            /\ UNCHANGED <<ip, lock>>
         \/ /\ i # 0
            /\ Ilock(d, Loaded(d), {i})
            /\ Set(ip, p, i) /\ Set(lock, d, p)
            /\ Goto(p, "unlink_entry") /\ NoPut
  /\ UNCHANGED <<disk, files, call, dp, rest>>

\* The entry of i in d goes, and with a directory the ".." that counted for d.
Unlinked(i, d) ==
  [Loaded(i) EXCEPT ![d].nlink = IF Ilocked(i).type = "dir" THEN @ - 1 ELSE @]

\* ilock(ip); unless it is a directory with entries, its entry is cleared and
\* dp is unlocked.
UnlinkEntry(p) ==
  /\ pc[p] = "unlink_entry" /\ Unlocked(ip[p])
  /\ LET i == ip[p]
         d == dp[p]
         full == Ilocked(i).type = "dir" /\ ~Isdirempty(i)
     IN  /\ valid' = [valid EXCEPT ![i] = TRUE]
         /\ panicked' = (Ilocked(i).type = "free" \/ Ilocked(i).nlink < 1)
         /\ \/ /\ full
               /\ inode' = Loaded(i)
               /\ Put(p, i, "undo")
               /\ UNCHANGED <<ents, dinode, lock>>
            \/ /\ ~full
               /\ Dirlink(d, Name(p), 0)
               /\ inode' = Unlinked(i, d) /\ Iupdate(Unlinked(i, d), {d})
               /\ lock' = [lock EXCEPT ![i] = p, ![d] = None]
               /\ Put(p, d, "unlink_end")
  /\ UNCHANGED <<used, ref, files, call, ip, dp, rest>>

UnlinkEnd(p) ==
  /\ pc[p] = "unlink_end"
  /\ LET mem == [inode EXCEPT ![ip[p]].nlink = @ - 1]
     IN  inode' = mem /\ Iupdate(mem, {ip[p]})
  /\ Set(lock, ip[p], None)
  /\ Put(p, ip[p], "return")
  /\ UNCHANGED <<ents, used, valid, ref, files, call, ip, dp, rest, panicked>>

-----------------------------------------------------------------------------
(* sys_link *)

\* ilock() of the old file, nlink++, and namex() for the new name.
Link(p) ==
  /\ pc[p] = "link"
  /\ LET i == dp[p]
         mem == [Loaded(i) EXCEPT ![i].nlink = @ + 1]
     IN  \/ /\ Ilocked(i).type = "dir"
            /\ Ilock(i, Loaded(i), {}) /\ Put(p, i, "return")
            /\ UNCHANGED <<dinode, ip, dp, rest>>
         \/ /\ Ilocked(i).type # "dir"
            /\ Ilock(i, mem, {Start(p, call[p])}) /\ Iupdate(mem, {i})
            /\ Set(ip, p, i) /\ Set(dp, p, Start(p, call[p])) /\ Set(rest, p, call[p].new)
            /\ Goto(p, "namex") /\ NoPut
  /\ UNCHANGED <<ents, used, lock, files, call>>

\* ilock(dp), dirlink(), iunlock(dp)
LinkEntry(p) ==
  /\ pc[p] = "link_entry"
  /\ Ilock(dp[p], Loaded(dp[p]), {})
  /\ \/ /\ Dirlookup(dp[p], Name(p)) # 0 \/ used = Blocks
        /\ Put(p, dp[p], "link_undo")
        /\ UNCHANGED ents
     \/ /\ Dirlookup(dp[p], Name(p)) = 0
        /\ Dirlink(dp[p], Name(p), ip[p])
        /\ Put(p, dp[p], "link_end")
  /\ UNCHANGED <<dinode, used, lock, files, call, ip, dp, rest>>

LinkEnd(p) ==
  /\ pc[p] = "link_end"
  /\ Put(p, ip[p], "return")
  /\ UNCHANGED <<disk, table, files, call, ip, dp, rest, panicked>>

LinkUndo(p) ==
  /\ pc[p] = "link_undo"
  /\ LET mem == [Loaded(ip[p]) EXCEPT ![ip[p]].nlink = @ - 1]
     IN  Ilock(ip[p], mem, {}) /\ Iupdate(mem, {ip[p]})
  /\ Put(p, ip[p], "return")
  /\ UNCHANGED <<ents, used, lock, files, call, ip, dp, rest>>

-----------------------------------------------------------------------------
Next ==
  \E p \in Procs :
    \/ \E c \in program : SysCall(p, c)
    \/ Close(p) \/ Write(p)
    \/ Chdir(p) \/ ChdirEnd(p)
    \/ Iput(p) \/ FreeInode(p) \/ Unref(p)
    \/ Namex(p) \/ Undo(p)
    \/ Create(p) \/ CreateOld(p) \/ CreateNew(p) \/ CreateEnd(p)
    \/ Open(p) \/ Opened(p)
    \/ Unlink(p) \/ UnlinkEntry(p) \/ UnlinkEnd(p)
    \/ Link(p) \/ LinkEntry(p) \/ LinkEnd(p) \/ LinkUndo(p)

Spec == Init /\ [][Next]_vars

-----------------------------------------------------------------------------
InodeRec == [type : {"free", "file", "dir", "device"}, nlink : Nat, addrs : SUBSET Blocks]

TypeOK ==
  /\ dinode \in [Inums -> InodeRec] /\ inode \in [Inums -> InodeRec]
  /\ ents \in [Inums -> [Names -> Inums \cup {0}]]
  /\ used \in SUBSET Blocks
  /\ valid \in [Inums -> BOOLEAN] /\ ref \in [Inums -> Nat]
  /\ lock \in [Inums -> Procs \cup {None}]
  /\ ofile \in [Procs -> Inums \cup {0}] /\ cwd \in [Procs -> Inums]
  /\ panicked \in BOOLEAN

(***************************************************************************)
(* No panic of the inode layer: no inode without a type is locked, no file *)
(* without links is unlinked, no free block is freed, and acquiresleep()   *)
(* in iput() never has to wait, as its comment says.                       *)
(***************************************************************************)
NoPanic == ~panicked

Entries(i) == {e \in Inums \X Names : ents[e[1]][e[2]] = i}

\* What refers to i: its names, and the ".." of its subdirectories.  The root
\* has no name, and one link.
Links(i) ==
  Cardinality(Entries(i)) + (IF i = Root THEN 1 ELSE 0)
  + Cardinality({x \in Names : ents[i][x] # 0 /\ dinode[ents[i][x]].type = "dir"})

(***************************************************************************)
(* A file is never freed under a name, a descriptor or a process: an inode *)
(* with entries is allocated and counts at least as many links, an open    *)
(* inode is allocated, and the working directory of a process is one,      *)
(* except while chdir() is giving it up, however link, unlink, create,     *)
(* close and chdir interleave.  When no call is under way, the count is    *)
(* exact, so every call that failed half way took its links back.  (A file *)
(* made in a directory that was removed in the meantime keeps its link     *)
(* when the directory goes, so that without names the count is exact only  *)
(* if there are no directories to remove.)                                 *)
(***************************************************************************)
NoDangling ==
  /\ \A i \in Inums \ {Root} :
       Entries(i) # {} => /\ dinode[i].type # "free"
                          /\ dinode[i].nlink >= Cardinality(Entries(i))
  /\ \A p \in Procs : ofile[p] # 0 => dinode[ofile[p]].type # "free"
  /\ \A p \in Procs : dinode[cwd[p]].type = "dir" \/ "chdir_end" \in {pc[p], after[p]}
  /\ (\A p \in Procs : pc[p] = "idle") =>
       \A i \in Inums :
         i = Root \/ Entries(i) # {} \/ (\A c \in program : c.op # "mkdir") =>
           dinode[i].nlink = Links(i)

(***************************************************************************)
(* Every allocated block belongs to exactly one inode, and every block of  *)
(* an inode is allocated: none leaks and none is shared.                   *)
(***************************************************************************)
BlocksOwnedOnce ==
  /\ used = UNION {dinode[i].addrs : i \in Inums}
  /\ \A i, j \in Inums : i # j => dinode[i].addrs \cap dinode[j].addrs = {}

(***************************************************************************)
(* fs.c says that "iput() frees if the reference and link counts have      *)
(* fallen to zero": an inode without either is free on the disk.  (An      *)
(* inode that ialloc() just took has a reference.)                         *)
(***************************************************************************)
UnusedIsFree ==
  \A i \in Inums : ref[i] = 0 /\ dinode[i].nlink = 0 => dinode[i].type = "free"
=============================================================================
