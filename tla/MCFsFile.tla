------------------------------ MODULE MCFsFile ------------------------------
(* Small instances of FsFile: inodes with one pointer of each level, and     *)
(* blocks of two cells, so that a file has 1 + 2 + 4 blocks.                 *)
EXTENDS FsFiles

CONSTANTS byteA, byteB   \* bytes

\* A write inside a block, one that ends on a block boundary, and one that
\* crosses a boundary.
MCBuffers == {<<byteA>>, <<byteA, byteB>>, <<byteB, byteA, byteB>>}
=============================================================================
