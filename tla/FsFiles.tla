------------------------------- MODULE FsFiles -------------------------------
(***************************************************************************)
(* That FsFile implements FileSpec on a partition whose unused data blocks *)
(* are zero: fs.c never clears a block before it gives it to a file, so    *)
(* that elsewhere a file shows what the block held before.                 *)
(***************************************************************************)
EXTENDS FsFile

VARIABLE cleared   \* the data blocks were zero when the run started

FilesInit == Init /\ cleared = (\A b \in DataBlocks : blk[b] = Zeros)
FilesNext == Next /\ UNCHANGED cleared

FilesSpec == /\ FilesInit /\ [][FilesNext]_<<vars, cleared>>
             /\ WF_vars(recursive_rw \/ Finish)

\* The files of FileSpec, as the disk holds them: a block a running call has
\* yet to link to its inode is not part of the file.  On a partition that was
\* not clear nothing is compared.
Files == INSTANCE FileSpec WITH
  size  <- [n \in Inum |-> IF cleared THEN inode[n].size ELSE 0],
  bytes <- [n \in Inum |-> [o \in 0 .. MaxSize - 1 |-> IF cleared THEN ByteAt(n, o) ELSE 0]],
  call  <- IF pc = "idle" \/ ~cleared THEN {} ELSE {req}

\* Seen from outside, the calls do what FileSpec says: whenever the machine
\* stops, a call has changed bytes of its own file only, in its own range,
\* and once it has returned m its first m bytes are there.
FilesAreSafe == Files!Spec

\* Bytes past the end of a file are zero as long as no call was interrupted,
\* so that a write beyond the end leaves a gap of zeros.
PastEndIsZero ==
  cleared /\ pc = "idle" /\ crashes = 0 =>
    \A n \in Inum : \A o \in inode[n].size .. MaxSize - 1 : ByteAt(n, o) = 0
=============================================================================
