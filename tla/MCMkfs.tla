-------------------------------- MODULE MCMkfs --------------------------------
(* Two names in the root, one below the first of them, a path without a      *)
(* parent, and a file of the host, on the disks of MCFsFormat; the old file   *)
(* system has one directory.                                                 *)
EXTENDS Mkfs, MCFsFormat

MCParent    == [n \in {"a", "b", "c", "x"} |-> IF n = "c" THEN "a" ELSE IF n = "x" THEN "" ELSE Root]
MCOldTree   == [n \in {"a"} |-> [inode |-> <<sinode + 1, 0>>, type |-> T_DIR, bytes |-> <<>>]]
MCSZMIN     == -268435456
MCHostFiles == {[h \in {"h"} |-> t] : t \in {Absent, <<1, 2>>}}
\* A write that is cut, one that also reaches the end of the largest file, one
\* behind that, and two with negative sizes.
MCWriteArgs == {[off |-> 1, sz |-> 3], [off |-> 3, sz |-> 3], [off |-> 5, sz |-> 1],
                [off |-> 0, sz |-> -1], [off |-> 0, sz |-> -2]}
=============================================================================
