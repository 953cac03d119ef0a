------------------------------- MODULE FsFile -------------------------------
(***************************************************************************)
(* The file layer of fs/fs.c: the block bitmap, the inode table and the    *)
(* recursive block walk of recursive_rw() that fs_read() and fs_write()    *)
(* drive.  One step performs at most one disk_write(), so a machine that   *)
(* is switched off between two sectors is a behaviour of the module.       *)
(*                                                                         *)
(* Sizes and offsets are counted in cells: a cell is a byte of a data      *)
(* block, or a 4-byte pointer of an indirect block, so that BLOCKSIZE      *)
(* cells are also NPTRS_PER_BLOCK pointers.  Block numbers are the         *)
(* absolute ones of the source; 0 is both the null pointer and a zero      *)
(* byte.                                                                   *)
(***************************************************************************)
EXTENDS Integers, Sequences

CONSTANTS
  NINODES,     \* inodes of the file system, numbered from 0
  NDIRECT,     \* direct pointers of an inode
  NINDRECT,    \* singly-indirect pointers of an inode
  NDINDRECT,   \* doubly-indirect pointers of an inode
  BLOCKSIZE,   \* cells of a block
  sdata,       \* first data block
  nblock_dat,  \* number of data blocks
  BITS,        \* bits of a bitmap byte (8 in the source)
  Data,        \* non-zero bytes that are written
  Stale,       \* what an unused data block may hold when the run starts
  Offsets,     \* offsets callers pass to fs_read() and fs_write()
  Buffers,     \* buffers callers pass to fs_write()
  ReadSizes,   \* sizes callers pass to fs_read()
  MaxOps,      \* bound: calls in a behaviour
  MaxCrashes   \* bound: interrupted calls in a behaviour

NPTRS      == NDIRECT + NINDRECT + NDINDRECT
NPTRS_PER_BLOCK == BLOCKSIZE

Inum       == 0 .. NINODES - 1
PtrIdx     == 0 .. NPTRS - 1
Cells      == 0 .. BLOCKSIZE - 1
DataBlocks == sdata .. sdata + nblock_dat - 1
Ptr        == {0} \cup DataBlocks
Cell       == {0} \cup Data \cup DataBlocks

Zeros == [c \in Cells |-> 0]

ASSUME SizesAssumption ==
  /\ NINODES \in Nat \ {0} /\ BLOCKSIZE \in Nat \ {0} /\ BITS \in Nat \ {0}
  /\ NDIRECT \in Nat /\ NINDRECT \in Nat /\ NDINDRECT \in Nat
  /\ sdata \in Nat \ {0} /\ nblock_dat \in Nat
  /\ MaxOps \in Nat /\ MaxCrashes \in Nat

ASSUME RequestsAssumption ==
  /\ Stale \subseteq Cell
  /\ Offsets \subseteq Nat /\ ReadSizes \subseteq Nat
  /\ Buffers \subseteq Seq({0} \cup Data)

VARIABLES
  \* the disk
  bitmap,   \* numbers of the set bits of the bitmap block
  inode,    \* the inode blocks: size and block pointers of each inode
  blk,      \* contents of the data blocks
  \* the memory of the running call, lost in a crash
  pc,       \* "idle", "rw", "zero" or "fail"
  req,      \* arguments of the current call, or of the last that returned
  stk,      \* frames of inode_rw() (0) and of recursive_rw() (1 and 2)
  depth,    \* frame in use
  sa,       \* the struct share_arg of the call
  out,      \* what a read has put into the caller's buffer
  ret,      \* value returned by the last call
  \* bounds
  ops, crashes

disk == <<bitmap, inode, blk>>
mem  == <<pc, req, stk, depth, sa, out, ret>>
vars == <<bitmap, inode, blk, pc, req, stk, depth, sa, out, ret, ops, crashes>>

-----------------------------------------------------------------------------
(***************************************************************************)
(* Helpers.                                                                *)
(***************************************************************************)

Least(a, b) == IF a < b THEN a ELSE b
Most(a, b)  == IF a > b THEN a ELSE b

\* A data block's bit, and the bits bitmap_alloc() examines: whole bytes only.
Bit(b) == b - sdata
Usable == 0 .. BITS * (nblock_dat \div BITS) - 1

get_ilevel(i) == IF i < NDIRECT THEN 0
                 ELSE IF i < NDIRECT + NINDRECT THEN 1 ELSE 2

\* Data blocks below a pointer of an indirect level.
Span(lvl) == IF lvl = 0 THEN 1
             ELSE IF lvl = 1 THEN NPTRS_PER_BLOCK
             ELSE NPTRS_PER_BLOCK * NPTRS_PER_BLOCK

\* Largest size of a file, in blocks.
MaxBlocks == NDIRECT + NINDRECT * Span(1) + NDINDRECT * Span(2)

\* A frame: the pointers being walked, the block they were read from (0 for
\* the inode's own array), and the loop index.
NoPtrs  == [i \in PtrIdx |-> 0]
NoFrame == [n |-> 0, p |-> Zeros, i |-> 0]
NoStack == [d \in 0 .. 2 |-> IF d = 0 THEN [n |-> 0, p |-> NoPtrs, i |-> 0]
                             ELSE NoFrame]
NoShare == [boff |-> 0, off |-> 0, left |-> 0, sz |-> 0]
NoReq   == [w |-> FALSE, inum |-> 0, off |-> 0, sz |-> 0, buf |-> <<>>]

Top     == stk[depth]
Limit   == IF depth = 0 THEN NPTRS ELSE NPTRS_PER_BLOCK
ilevel  == get_ilevel(stk[0].i) - depth   \* of the pointer being visited
Here    == Top.p[Top.i]                   \* *pp in the source
eblock  == sa.boff + Span(ilevel)         \* end of its coverage

sblockOf == req.off \div BLOCKSIZE
eblockOf == (req.off + sa.sz) \div BLOCKSIZE
\* Mutant: the last block is left out.
Overlaps_open == sa.boff < eblockOf /\ sblockOf < eblock
Overlaps == sa.boff <= eblockOf /\ sblockOf < eblock

consumed == sa.sz - sa.left

Visiting == pc = "rw" /\ Top.i < Limit

\* The loop over a frame's pointers is over, or is left by a failure.
\* Mutant: a failure does not leave the loop.
Leaving_deaf == pc = "rw" /\ Top.i = Limit
Leaving == pc = "fail" \/ (pc = "rw" /\ Top.i = Limit)

\* recursive_rw() returns 0 and its caller's loop goes on; *pp is v.
NextPtr   == stk' = [stk EXCEPT ![depth].i = @ + 1]
\* Mutant: a copy of *pp is set.
SetHere_copy(v) == UNCHANGED stk
SetHere(v)      == stk' = [stk EXCEPT ![depth].p[Top.i] = v]

-----------------------------------------------------------------------------
(***************************************************************************)
(* The disk of a freshly formatted partition that holds empty files only.  *)
(* fs_format() does not clear data blocks it has no superblock for, so     *)
(* they may hold anything in Stale.                                        *)
(***************************************************************************)
Init ==
  /\ bitmap = {}
  /\ inode = [n \in Inum |-> [size |-> 0, ptrs |-> NoPtrs]]
  /\ \E v \in Stale : blk = [b \in DataBlocks |-> [c \in Cells |-> v]]
  /\ pc = "idle" /\ req = NoReq
  /\ stk = NoStack /\ depth = 0 /\ sa = NoShare
  /\ out = <<>> /\ ret = 0
  /\ ops = 0 /\ crashes = 0

(***************************************************************************)
(* The first half of inode_rw(): bounds of the request, read_inode() and   *)
(* the first pointer.                                                      *)
(***************************************************************************)
Request(r) ==
  /\ pc = "idle" /\ ops < MaxOps
  /\ ops' = ops + 1
  /\ req' = r /\ out' = <<>>
  /\ UNCHANGED <<disk, depth, crashes>>

\* Mutant: a read is not cut at the end of the file.
Clamped_not(r) == r.sz

\* The part of a request that a read can be served, given the file's size.
Clamped(r) == IF ~r.w /\ r.off + r.sz >= inode[r.inum].size
              THEN inode[r.inum].size - r.off ELSE r.sz

Begin(r) ==
  /\ Request(r)
  /\ r.inum \in Inum
  /\ r.w \/ r.off < inode[r.inum].size
  /\ pc' = "rw"
  /\ stk' = [stk EXCEPT ![0] = [n |-> 0, p |-> inode[r.inum].ptrs, i |-> 0]]
  /\ sa' = [boff |-> 0, off |-> r.off, left |-> Clamped(r), sz |-> Clamped(r)]
  /\ UNCHANGED ret

\* The early returns: an inode number out of bounds, a read past the end.
Refuse(r) ==
  /\ Request(r)
  /\ \/ r.inum \notin Inum /\ ret' = -1
     \/ /\ r.inum \in Inum /\ ~r.w /\ r.off >= inode[r.inum].size
        /\ ret' = 0
  /\ UNCHANGED <<pc, stk, sa>>

\* What callers ask for; the inode number NINODES is out of bounds.
Requests ==
  {[w |-> TRUE, inum |-> n, off |-> o, sz |-> Len(b), buf |-> b] :
     n \in 0 .. NINODES, o \in Offsets, b \in Buffers}
  \cup
  {[w |-> FALSE, inum |-> n, off |-> o, sz |-> s, buf |-> <<>>] :
     n \in 0 .. NINODES, o \in Offsets, s \in ReadSizes}

-----------------------------------------------------------------------------
(***************************************************************************)
(* recursive_rw(), one action per way through it.                          *)
(***************************************************************************)

\* The pointer's coverage lies outside the request.
Skip ==
  /\ Visiting /\ ~Overlaps
  /\ sa' = [sa EXCEPT !.boff = eblock, !.off = @ + Span(ilevel) * BLOCKSIZE]
  /\ NextPtr
  /\ UNCHANGED <<disk, pc, req, depth, out, ret, ops, crashes>>

\* Mutant: the bitmap is not written.
bitmap_alloc_unsaved(i) ==
  /\ i \in Usable \ bitmap
  /\ \A j \in Usable \ bitmap : i <= j
  /\ bitmap' = bitmap

\* A null pointer of a write: bitmap_alloc() sets the first clear bit and
\* writes the bitmap; an indirect block must then be cleared.
bitmap_alloc(i) ==
  /\ i \in Usable \ bitmap
  /\ \A j \in Usable \ bitmap : i <= j
  /\ bitmap' = bitmap \cup {i}

\* Whether the block just allocated has to be cleared.
\* Mutant: none is.
zero_never == FALSE
zero == ilevel # 0

Alloc ==
  /\ Visiting /\ Overlaps /\ req.w /\ Here = 0
  /\ \E i \in Usable : bitmap_alloc(i) /\ SetHere(sdata + i)
  /\ pc' = IF zero THEN "zero" ELSE "rw"
  /\ UNCHANGED <<inode, blk, req, depth, sa, out, ret, ops, crashes>>

ZeroIndirect ==
  /\ pc = "zero"
  /\ blk' = [blk EXCEPT ![Here] = Zeros]
  /\ pc' = "rw"
  /\ UNCHANGED <<bitmap, inode, req, stk, depth, sa, out, ret, ops, crashes>>

\* No clear bit is left: the call returns -1.
OutOfBlocks ==
  /\ Visiting /\ Overlaps /\ req.w /\ Here = 0
  /\ Usable \subseteq bitmap
  /\ pc' = "fail"
  /\ UNCHANGED <<disk, req, stk, depth, sa, out, ret, ops, crashes>>

\* A null pointer of a read: zeros for its whole coverage.
\* Mutant: the zeros are not cut at the end of the request.
HoleSize_uncut == Span(ilevel) * BLOCKSIZE
HoleSize == Least(sa.left, Span(ilevel) * BLOCKSIZE)

Hole ==
  /\ Visiting /\ Overlaps /\ ~req.w /\ Here = 0
  /\ out' = out \o [k \in 1 .. HoleSize |-> 0]
  /\ sa' = [sa EXCEPT !.boff = eblock, !.left = @ - HoleSize, !.off = @ + HoleSize]
  /\ NextPtr
  /\ UNCHANGED <<disk, pc, req, depth, ret, ops, crashes>>

\* An indirect block is read and its pointers are walked.
Descend ==
  /\ Visiting /\ Overlaps /\ Here # 0 /\ ilevel > 0
  /\ depth' = depth + 1
  /\ stk' = [stk EXCEPT ![depth + 1] = [n |-> Here, p |-> blk[Here], i |-> 0]]
  /\ UNCHANGED <<disk, pc, req, sa, out, ret, ops, crashes>>

\* A data block is read, and written back with the caller's bytes by a write.
\* Mutant: the bytes go to the start of the block.
start_0 == 0
start == sa.off % BLOCKSIZE

DataBlock ==
  /\ Visiting /\ Overlaps /\ Here # 0 /\ ilevel = 0
  /\ LET sz    == Least(sa.left, BLOCKSIZE - start)
         bytes == [c \in Cells |->
                     IF req.w /\ c >= start /\ c < start + sz
                     THEN req.buf[consumed + c - start + 1] ELSE blk[Here][c]]
     IN  /\ blk' = [blk EXCEPT ![Here] = bytes]
         /\ out' = IF req.w THEN out
                   ELSE out \o [k \in 1 .. sz |-> bytes[start + k - 1]]
         /\ sa' = [sa EXCEPT !.boff = eblock, !.left = @ - sz, !.off = @ + sz]
  /\ NextPtr
  /\ UNCHANGED <<bitmap, inode, pc, req, depth, ret, ops, crashes>>

\* The end of an indirect block: its in-memory copy is written to disk, and
\* the caller's loop goes on, or is left when the call is failing.
WriteBack ==
  /\ depth > 0
  /\ Leaving
  /\ blk' = [blk EXCEPT ![Top.n] = Top.p]
  /\ depth' = depth - 1
  /\ stk' = [stk EXCEPT ![depth] = NoFrame,
                        ![depth - 1].i = IF pc = "rw" THEN @ + 1 ELSE @]
  /\ UNCHANGED <<bitmap, inode, pc, req, sa, out, ret, ops, crashes>>

(***************************************************************************)
(* The second half of inode_rw(): a write stores the inode, whose size     *)
(* never shrinks; the number of bytes consumed is returned.                *)
(***************************************************************************)
\* Mutant: a write inside a file cuts it short.
NewSize_cut == req.off + consumed
NewSize == Most(inode[req.inum].size, req.off + consumed)

\* Mutant: a write that failed returns without write_inode().
Stores_unless_failed == req.w /\ pc = "rw"
Stores == req.w

Finish ==
  /\ depth = 0
  /\ Leaving
  /\ inode' = IF Stores
              THEN [inode EXCEPT ![req.inum] = [size |-> NewSize, ptrs |-> Top.p]]
              ELSE inode
  /\ ret' = consumed
  /\ pc' = "idle" /\ stk' = NoStack /\ sa' = NoShare
  /\ UNCHANGED <<bitmap, blk, req, depth, out, ops, crashes>>

\* The machine stops between two disk writes; fs_init() mounts it again.
Crash ==
  /\ pc # "idle" /\ crashes < MaxCrashes
  /\ crashes' = crashes + 1
  /\ pc' = "idle" /\ req' = NoReq /\ stk' = NoStack /\ depth' = 0
  /\ sa' = NoShare /\ out' = <<>> /\ ret' = 0
  /\ UNCHANGED <<disk, ops>>

recursive_rw == \/ Skip \/ Alloc \/ ZeroIndirect \/ OutOfBlocks \/ Hole
                \/ Descend \/ DataBlock \/ WriteBack

Next == \/ \E r \in Requests : Begin(r) \/ Refuse(r)
        \/ recursive_rw \/ Finish \/ Crash

Spec == Init /\ [][Next]_vars

\* A call runs on the only processor, without waiting for anybody.
FairSpec == Spec /\ WF_vars(recursive_rw \/ Finish)

-----------------------------------------------------------------------------
(***************************************************************************)
(* The block trees, read off an inode table t and block contents b         *)
(* independently of the walk above.  A pointer is named by a path: its     *)
(* inode, its index in the inode and, below an indirect block, its index   *)
(* in that block and in the next (None where the path has ended).          *)
(***************************************************************************)
None == -1

Paths ==
  {q \in Inum \X PtrIdx \X (Cells \cup {None}) \X (Cells \cup {None}) :
     /\ q[3] # None => get_ilevel(q[2]) >= 1
     /\ q[4] # None => q[3] # None /\ get_ilevel(q[2]) = 2}

Below(b, x, c) == IF x = 0 THEN 0 ELSE b[x][c]

PtrAt(t, b, q) ==
  LET x == t[q[1]].ptrs[q[2]]
  IN  IF q[3] = None THEN x
      ELSE IF q[4] = None THEN Below(b, x, q[3])
      ELSE Below(b, Below(b, x, q[3]), q[4])

\* Every block of a tree is a data block whose bit is set.
Marked(t, b, bm) ==
  \A q \in Paths : LET x == PtrAt(t, b, q)
                   IN  x # 0 => x \in DataBlocks /\ Bit(x) \in bm

\* No block is in two places of the trees, be it of one file or of two.
Unshared(t, b) ==
  \A q, r \in Paths :
    PtrAt(t, b, q) = PtrAt(t, b, r) /\ PtrAt(t, b, q) # 0 => q = r

\* The tables as they would be if the running call wrote its memory to disk.
MemInode == IF pc = "idle" THEN inode
            ELSE [inode EXCEPT ![req.inum].ptrs = stk[0].p]
MemBlk   == [x \in DataBlocks |->
               IF depth >= 1 /\ x = stk[1].n THEN stk[1].p
               ELSE IF depth = 2 /\ x = stk[2].n THEN stk[2].p
               ELSE IF pc = "zero" /\ x = Here THEN Zeros
               ELSE blk[x]]

\* The byte of file n at offset o, 0 where no block was ever written.
BlockPath(n, f) ==
  LET f1 == f - NDIRECT
      f2 == f1 - NINDRECT * Span(1)
  IN  IF f < NDIRECT THEN <<n, f, None, None>>
      ELSE IF f1 < NINDRECT * Span(1)
      THEN <<n, NDIRECT + f1 \div Span(1), f1 % Span(1), None>>
      ELSE <<n, NDIRECT + NINDRECT + f2 \div Span(2),
             (f2 \div Span(1)) % Span(1), f2 % Span(1)>>
MaxSize       == MaxBlocks * BLOCKSIZE
BlockOf(n, o) == IF o < MaxSize THEN PtrAt(inode, blk, BlockPath(n, o \div BLOCKSIZE)) ELSE 0
ByteAt(n, o)  == Below(blk, BlockOf(n, o), o % BLOCKSIZE)

-----------------------------------------------------------------------------
(***************************************************************************)
(* Properties.                                                             *)
(***************************************************************************)

Frame(d) == [n : Ptr, p : [IF d = 0 THEN PtrIdx ELSE Cells -> Cell], i : Nat]

\* Every variable keeps its type: disk sectors, frames of the walk, and the
\* counters of the struct share_arg.
TypeOK ==
  /\ bitmap \subseteq Usable
  /\ inode \in [Inum -> [size : Nat, ptrs : [PtrIdx -> Ptr]]]
  /\ blk \in [DataBlocks -> [Cells -> Cell]]
  /\ pc \in {"idle", "rw", "zero", "fail"}
  /\ req \in Requests \cup {NoReq}
  /\ depth \in 0 .. 2
  /\ DOMAIN stk = 0 .. 2 /\ \A d \in 0 .. 2 : stk[d] \in Frame(d)
  /\ stk[0].i <= NPTRS
  /\ \A d \in 1 .. 2 : stk[d].i <= NPTRS_PER_BLOCK
  /\ sa \in [boff : Nat, off : Nat, left : Nat, sz : Nat]
  /\ sa.left <= sa.sz
  /\ ret \in Int
  /\ ops \in 0 .. MaxOps /\ crashes \in 0 .. MaxCrashes

\* Whatever disk write a crash interrupts, every block a file on the disk can
\* reach is marked in the bitmap: bitmap_alloc() can never hand it out again.
ReachableIsMarked == Marked(inode, blk, bitmap)

\* Whatever disk write a crash interrupts, no block of the disk belongs to two
\* files, or to two places of one: the order bitmap, cleared indirect block,
\* data, indirect block, inode never exposes a half-built tree.
NoSharedBlock == Unshared(inode, blk)

\* As long as no call was interrupted, a marked block is in the tree of a file
\* or in the one the running call is building: a failed write leaks nothing.
NoLeak ==
  crashes = 0 =>
    \A i \in bitmap : \E q \in Paths : PtrAt(MemInode, MemBlk, q) = sdata + i

\* fs_write() returns less than it was asked to write only when bitmap_alloc()
\* has no bit left or the file would outgrow its pointers.
ShortWriteMeansNoRoom ==
  pc = "idle" /\ req.w /\ 0 <= ret /\ ret < req.sz =>
    Usable \subseteq bitmap \/ req.off + req.sz > MaxSize

\* What a read that has returned should have put in the caller's buffer.
ReadIsRight ==
  out = [k \in 1 .. Least(req.sz, inode[req.inum].size - req.off) |->
           ByteAt(req.inum, req.off + k - 1)]

ReadDone == pc = "idle" /\ ~req.w /\ ret > 0

\* The reads that do not leave, in mid-hole, a hole they started in, of a file
\* whose size its pointers reach: a write too far out stores nothing and sets
\* the size all the same.
FromData ==
  LET first == BlockOf(req.inum, req.off)
  IN  /\ inode[req.inum].size <= MaxSize
      /\ \/ first # 0
         \/ req.off % BLOCKSIZE = 0 /\ req.off < NDIRECT * BLOCKSIZE
         \/ \A o \in req.off .. req.off + Len(out) - 1 : BlockOf(req.inum, o) = 0

\* fs_read() returns the bytes of the file, zeros in its holes, when it starts
\* in an allocated block, at the start of a one-block hole, or stays in a hole.
ReadFromData == ReadDone /\ FromData => ReadIsRight

\* The same for every read, as "Handle reading sparse files" has it.
ReadAnywhere == ReadDone => ReadIsRight

\* How many steps the running call has left at most: the pointers that are
\* left in each frame, those of a frame that is not there yet included, and
\* for the pointer being visited what has to be done before it is followed.
FrameLeft(d) == IF depth < d THEN NPTRS_PER_BLOCK + 1 ELSE NPTRS_PER_BLOCK - stk[d].i
PtrLeft      == IF pc = "zero" THEN 1 ELSE IF Visiting /\ Here = 0 THEN 2 ELSE 0
WalkLeft ==
  LET base == NPTRS_PER_BLOCK + 2
  IN  (((NPTRS - stk[0].i) * base + FrameLeft(1)) * base + FrameLeft(2)) * 3 + PtrLeft
StepsLeft == IF pc = "idle" THEN 0 ELSE IF pc = "fail" THEN depth + 1 ELSE WalkLeft + 4

\* Whatever a call meets on the disk, each of its steps brings it nearer to its
\* return: no pointer is visited twice, no block allocated twice for one.
CallGetsOn == [][pc # "idle" => StepsLeft' \in 0 .. StepsLeft - 1]_vars

\* Every call returns: the walk over the pointers ends.
EveryCallReturns == pc # "idle" ~> pc = "idle"

=============================================================================
