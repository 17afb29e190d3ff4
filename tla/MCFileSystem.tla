---------------------------- MODULE MCFileSystem ----------------------------
(* Instances of FileSystem for TLC. *)
EXTENDS FileSystem, TLC

CONSTANTS p1, p2, a, b

On(o, x) == [op |-> o, from |-> "root", path |-> x]
Here(o, x) == [op |-> o, from |-> "cwd", path |-> x]

\* A directory, a file in it, and a second name of the file in the root.
Nested == {On("mkdir", <<a>>), On("open", <<a>>), On("unlink", <<a>>),
           On("create", <<a, b>>), On("unlink", <<a, b>>),
           [op |-> "link", from |-> "root", path |-> <<a, b>>, new |-> <<b>>],
           [op |-> "link", from |-> "root", path |-> <<a>>, new |-> <<b>>],
           On("open", <<b>>), On("unlink", <<b>>)}

\* A directory that processes enter and leave and that may be removed while they
\* are in it, and a device with its name, in the root or in the directory.
Entering == {On("mkdir", <<a>>), On("unlink", <<a>>),
             Here("chdir", <<a>>), On("chdir", <<>>),
             Here("mknod", <<a>>), Here("open", <<a>>), Here("unlink", <<a>>)}

\* A file with two names and no directory but the root.
Linked == {On("create", <<a>>), On("unlink", <<a>>),
           [op |-> "link", from |-> "root", path |-> <<a>>, new |-> <<b>>]}

NestedCalls == {Nested, Entering, Linked}

\* One file in the root.
FlatCalls == {{On("create", <<a>>), On("unlink", <<a>>)}}

Symmetry == Permutations(Procs)
=============================================================================
