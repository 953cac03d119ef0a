----------------------------- MODULE MCFsFormat -----------------------------
(* A disk of a boot sector, a small partition and a sector of another one.   *)
EXTENDS FsFormat

\* Sectors of somebody else: in use, whatever they are taken for.
Foreign(b) == Block(Super(SECTORS - 1, b, FALSE), 1)

Around(inside(_)) == [b \in Disk |-> IF b \in Partition THEN inside(b) ELSE Foreign(b)]

\* A file system with some inodes in use and T_DIR where fs_format() puts it,
\* and the same with a superblock that lost its magic number.
InUse(b) == [su |-> Super(0, 0, FALSE),
             types |-> [j \in Slots |-> IF j = 1 /\ b # sinode THEN 0 ELSE T_DIR]]
OldFs(m) == Around(LAMBDA b : IF b = startlba THEN Block(Super(startlba, nsectors, m), 1)
                              ELSE IF b \in sinode .. sbitmap - 1 THEN InUse(b)
                              ELSE Foreign(b))
BlankDisk == Around(LAMBDA b : ZeroBlock)

MCContents == {BlankDisk, OldFs(TRUE), OldFs(FALSE)}
\* A partition that was used for something else.
MCForeign  == {Around(LAMBDA b : Foreign(b))}
=============================================================================
