------------------------------- MODULE MCFsDir -------------------------------
(* Small instances of FsDir: three inodes to create, two names and a name    *)
(* that is too long.                                                         *)
EXTENDS FsDir

CONSTANTS nameA, nameB, nameL

\* Every path of up to three tokens, and some of the longer ones: a second
\* and a third level, slashes in the middle and at the end.
MCPaths ==
  {path \in BoundedSeq({Slash, nameA, nameB, nameL}, 3) :
     \A i \in 1 .. Len(path) - 1 : Slash \in {path[i], path[i + 1]}}
  \cup
  {<<Slash, nameA, Slash, nameA>>, <<Slash, nameA, Slash, nameB>>,
   <<Slash, nameA, Slash, Slash, nameB, Slash>>, <<Slash, nameL, Slash, nameA>>,
   <<Slash, nameA, Slash, nameB, Slash, nameA>>}
=============================================================================
