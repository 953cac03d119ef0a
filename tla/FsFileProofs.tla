---------------------------- MODULE FsFileProofs ----------------------------
(***************************************************************************)
(* Proofs about FsFile and FsFiles, for every number and size of files,    *)
(* pointers and blocks: the disk's block trees are sound whatever disk     *)
(* write a crash interrupts, no block is lost, a call that comes short had *)
(* no room, a read gives the bytes of the file, and the calls do what      *)
(* FileSpec promises.                                                      *)
(***************************************************************************)
EXTENDS FsFiles, SequenceTheorems, TLAPS

-----------------------------------------------------------------------------
(***************************************************************************)
(* The inductive invariant.  The disk alone is not enough: while a call    *)
(* runs, the tree is the one of its memory, and the disk is behind it.     *)
(***************************************************************************)

Running == pc # "idle"

\* A running call serves a request for a file, as large as its buffer.
CallOK ==
  Running => /\ req \in Requests /\ req.inum \in Inum
             /\ req.w => sa.sz = Len(req.buf)

\* Each frame holds the block that the frame below it points to.
FramesOK ==
  /\ depth # 0 => /\ Running
                  /\ stk[0].i < NPTRS /\ get_ilevel(stk[0].i) >= depth
                  /\ stk[1].n # 0 /\ stk[1].n = stk[0].p[stk[0].i]
  /\ depth = 2 => /\ stk[1].i < NPTRS_PER_BLOCK
                  /\ stk[2].n # 0 /\ stk[2].n = stk[1].p[stk[1].i]
  /\ pc = "zero" => Top.i < Limit /\ ilevel > 0 /\ Here # 0

\* The block trees of the memory are sound.
MemMarked   == Marked(MemInode, MemBlk, bitmap)
MemUnshared == Unshared(MemInode, MemBlk)

\* A pointer on the disk is null or the one the memory has; that of a block
\* that is yet to be cleared is null.  A read changes no pointer.
Behind ==
  /\ Running => \A i \in PtrIdx : inode[req.inum].ptrs[i] \in {0, stk[0].p[i]}
  /\ Running /\ ~req.w => \A i \in PtrIdx : inode[req.inum].ptrs[i] = stk[0].p[i]
  /\ depth # 0 => \A c \in Cells : blk[stk[1].n][c] \in {0, stk[1].p[c]}
  /\ depth = 2 => \A c \in Cells : blk[stk[2].n][c] \in {0, stk[2].p[c]}
  /\ pc = "zero" => IF depth = 0 THEN inode[req.inum].ptrs[Top.i] = 0
                    ELSE blk[Top.n][Top.i] = 0

\* What a step may do to the trees of the memory: nothing, or add a pointer to
\* the block whose bit it sets.
Kept ==
  /\ bitmap' = bitmap
  /\ \A q \in Paths : PtrAt(MemInode', MemBlk', q) = PtrAt(MemInode, MemBlk, q)

Grown(t, b, t2, b2, f) ==
  \E s \in Paths :
    /\ PtrAt(t, b, s) = 0 /\ PtrAt(t2, b2, s) = f
    /\ \A q \in Paths : q # s => PtrAt(t2, b2, q) = PtrAt(t, b, q)

Added ==
  \E f \in DataBlocks : /\ bitmap' = bitmap \cup {Bit(f)}
                        /\ Grown(MemInode, MemBlk, MemInode', MemBlk', f)

IInv == TypeOK /\ CallOK /\ FramesOK /\ MemMarked /\ MemUnshared /\ Behind

-----------------------------------------------------------------------------
(***************************************************************************)
(* Facts about numbers.                                                    *)
(***************************************************************************)

\* bitmap_alloc() examines bits of data blocks only.
LEMMA UsableBits == \A i \in Usable : i \in Nat /\ sdata + i \in DataBlocks
<1> USE SizesAssumption
<1> SUFFICES ASSUME NEW i \in Usable PROVE i \in Nat /\ sdata + i \in DataBlocks
  OBVIOUS
<1> DEFINE k == nblock_dat \div BITS
<1>1. k \in Nat /\ BITS * k <= nblock_dat
  OBVIOUS
<1>2. i \in 0 .. BITS * k - 1
  BY DEF Usable
<1> QED
  BY <1>1, <1>2 DEF DataBlocks

\* A number below a limit of the walk is an index.
LEMMA Indices ==
  \A i \in Nat : /\ i < NPTRS => i \in PtrIdx
                 /\ i < NPTRS_PER_BLOCK => i \in Cells
BY SizesAssumption DEF NPTRS, NPTRS_PER_BLOCK, PtrIdx, Cells

\* The spans of the walk and the levels of pointers are numbers.
LEMMA SpanNat == \A l \in Int : Span(l) \in Nat /\ Span(l) * BLOCKSIZE \in Nat
BY SizesAssumption DEF Span, NPTRS_PER_BLOCK

LEMMA LevelRange == \A i \in Int : get_ilevel(i) \in 0 .. 2
BY DEF get_ilevel

\* An offset inside a block.
LEMMA ModRange == \A o \in Nat : o % BLOCKSIZE \in 0 .. BLOCKSIZE - 1
BY SizesAssumption

-----------------------------------------------------------------------------
(***************************************************************************)
(* Facts about block trees: t is an inode table, b are block contents.     *)
(***************************************************************************)

\* The shapes of a path.
LEMMA PathShapes ==
  ASSUME NEW q \in Paths
  PROVE  /\ q[1] \in Inum /\ q[2] \in PtrIdx
         /\ q = <<q[1], q[2], q[3], q[4]>>
         /\ \/ q[3] = None /\ q[4] = None
            \/ q[3] \in Cells /\ q[4] = None /\ get_ilevel(q[2]) >= 1
            \/ q[3] \in Cells /\ q[4] \in Cells /\ get_ilevel(q[2]) = 2
BY DEF Paths, None, Cells

LEMMA PathTop ==
  ASSUME NEW n \in Inum, NEW i \in PtrIdx, NEW t, NEW b
  PROVE  /\ <<n, i, None, None>> \in Paths
         /\ PtrAt(t, b, <<n, i, None, None>>) = t[n].ptrs[i]
BY DEF Paths, None, Cells, PtrAt

LEMMA PathOne ==
  ASSUME NEW n \in Inum, NEW i \in PtrIdx, NEW c \in Cells, NEW t, NEW b,
         get_ilevel(i) >= 1
  PROVE  /\ <<n, i, c, None>> \in Paths
         /\ PtrAt(t, b, <<n, i, c, None>>) = Below(b, t[n].ptrs[i], c)
BY DEF Paths, None, Cells, PtrAt

LEMMA PathTwo ==
  ASSUME NEW n \in Inum, NEW i \in PtrIdx, NEW c \in Cells, NEW d \in Cells,
         NEW t, NEW b, get_ilevel(i) = 2
  PROVE  /\ <<n, i, c, d>> \in Paths
         /\ PtrAt(t, b, <<n, i, c, d>>)
              = Below(b, Below(b, t[n].ptrs[i], c), d)
BY DEF Paths, None, Cells, PtrAt

\* y is an indirect block: of the i-th pointer of inode n, or of the c-th
\* pointer of the indirect block of that.
FirstBlock(t, n, i, y) ==
  get_ilevel(i) >= 1 /\ y = t[n].ptrs[i] /\ y # 0
SecondBlock(t, b, n, i, c, y) ==
  get_ilevel(i) = 2 /\ y = Below(b, t[n].ptrs[i], c) /\ y # 0

\* t2, b2 are t, b with a null pointer set to f: the i-th of inode n, or the
\* c-th of the indirect block y.  The contents of block f itself may change.
SetInInode(t, b, t2, b2, f, n, i) ==
  /\ t[n].ptrs[i] = 0 /\ t2[n].ptrs[i] = f
  /\ \A m \in Inum, j \in PtrIdx :
       m # n \/ j # i => t2[m].ptrs[j] = t[m].ptrs[j]
  /\ \A z \in DataBlocks, e \in Cells : z # f => b2[z][e] = b[z][e]

SetInBlock(t, b, t2, b2, f, y, c) ==
  /\ b[y][c] = 0 /\ b2[y][c] = f
  /\ \A m \in Inum, j \in PtrIdx : t2[m].ptrs[j] = t[m].ptrs[j]
  /\ \A z \in DataBlocks, e \in Cells :
       z # f /\ (z # y \/ e # c) => b2[z][e] = b[z][e]

Cleared(b, f) == \A c \in Cells : b[f][c] = 0

\* The path leads to a data block; b2 is b but for the contents of block y.
IsLeaf(s) ==
  get_ilevel(s[2]) = IF s[3] = None THEN 0 ELSE IF s[4] = None THEN 1 ELSE 2
SameBut(b, b2, y) == \A z \in DataBlocks : z # y => b2[z] = b[z]

\* Dropping pointers keeps the trees sound.
LEMMA FewerPointers ==
  ASSUME NEW t, NEW b, NEW t2, NEW b2, NEW bm, NEW bm2,
         Marked(t, b, bm), Unshared(t, b), bm \subseteq bm2,
         \A q \in Paths : PtrAt(t2, b2, q) \in {0, PtrAt(t, b, q)}
  PROVE  Marked(t2, b2, bm2) /\ Unshared(t2, b2)
BY DEF Marked, Unshared

\* Adding one pointer, to a block whose bit was clear, keeps them sound.
LEMMA OneMorePointer ==
  ASSUME NEW t, NEW b, NEW t2, NEW b2, NEW bm, NEW f \in DataBlocks,
         Marked(t, b, bm), Unshared(t, b), Bit(f) \notin bm,
         Grown(t, b, t2, b2, f)
  PROVE  Marked(t2, b2, bm \cup {Bit(f)}) /\ Unshared(t2, b2)
BY DEF Marked, Unshared, Grown

\* No pointer leads to a block whose bit is clear.
LEMMA NotFresh ==
  ASSUME NEW t, NEW b, NEW bm, NEW q \in Paths, NEW f,
         Marked(t, b, bm), Bit(f) \notin bm
  PROVE  PtrAt(t, b, q) = 0 \/ (PtrAt(t, b, q) \in DataBlocks /\ PtrAt(t, b, q) # f)
BY DEF Marked

\* A null pointer of an inode gets a block whose bit was clear; an indirect
\* block is taken to hold zeros.
LEMMA LinkInode ==
  ASSUME NEW t, NEW b, NEW t2, NEW b2, NEW bm, NEW f \in DataBlocks,
         NEW n \in Inum, NEW i \in PtrIdx,
         Marked(t, b, bm), Unshared(t, b), Bit(f) \notin bm,
         SetInInode(t, b, t2, b2, f, n, i),
         get_ilevel(i) > 0 => Cleared(b2, f)
  PROVE  Grown(t, b, t2, b2, f)
<1> USE DEF SetInInode, Cleared
<1> DEFINE s == <<n, i, None, None>>
<1>1. s \in Paths /\ PtrAt(t, b, s) = 0 /\ PtrAt(t2, b2, s) = f
  BY PathTop
<1>2. ASSUME NEW q \in Paths, q # s PROVE PtrAt(t2, b2, q) = PtrAt(t, b, q)
  <2> DEFINE p == <<q[1], q[2], None, None>>
             r == <<q[1], q[2], q[3], None>>
  <2>1. CASE q[1] = n /\ q[2] = i
    <3>1. q[3] \in Cells /\ get_ilevel(i) > 0
      BY <1>2, <2>1, PathShapes DEF get_ilevel
    <3>2. b2[f][q[3]] = 0 /\ f # 0
      BY <3>1, SizesAssumption DEF DataBlocks
    <3> QED
      BY <2>1, <3>1, <3>2, SMTT(60) DEF PtrAt, Below, None, Cells
  <2>2. CASE ~(q[1] = n /\ q[2] = i)
    <3>1. q[1] \in Inum /\ q[2] \in PtrIdx
      BY PathShapes
    <3>2. t2[q[1]].ptrs[q[2]] = t[q[1]].ptrs[q[2]]
      BY <2>2, <3>1
    <3>3. p \in Paths /\ PtrAt(t, b, p) = t[q[1]].ptrs[q[2]]
      BY <3>1, PathTop
    <3>4. \A c \in Cells : Below(b2, t[q[1]].ptrs[q[2]], c)
                            = Below(b, t[q[1]].ptrs[q[2]], c)
      BY <3>3 DEF Marked, Below
    <3>5. CASE q[3] = None
      BY <3>2, <3>5 DEF PtrAt
    <3>6. CASE q[3] \in Cells /\ q[4] = None
      BY <3>2, <3>4, <3>6 DEF PtrAt, None, Cells
    <3>7. CASE q[3] \in Cells /\ q[4] \in Cells /\ get_ilevel(q[2]) = 2
      <4>1. r \in Paths /\ PtrAt(t, b, r) = Below(b, t[q[1]].ptrs[q[2]], q[3])
        BY <3>1, <3>7, PathOne
      <4>2. Below(b2, PtrAt(t, b, r), q[4]) = Below(b, PtrAt(t, b, r), q[4])
        BY <3>7, <4>1 DEF Marked, Below
      <4> QED
        BY <3>2, <3>4, <3>7, <4>1, <4>2, SMTT(60) DEF PtrAt, None, Cells
    <3> QED
      BY <3>5, <3>6, <3>7, PathShapes
  <2> QED
    BY <2>1, <2>2
<1> QED
  BY <1>1, <1>2 DEF Grown

\* The same for a null pointer of the indirect block of an inode's pointer.
LEMMA LinkOne ==
  ASSUME NEW t, NEW b, NEW t2, NEW b2, NEW bm, NEW f \in DataBlocks,
         NEW n \in Inum, NEW i \in PtrIdx, NEW c \in Cells, NEW y,
         Marked(t, b, bm), Unshared(t, b), Bit(f) \notin bm,
         FirstBlock(t, n, i, y),
         SetInBlock(t, b, t2, b2, f, y, c),
         get_ilevel(i) = 2 => Cleared(b2, f)
  PROVE  Grown(t, b, t2, b2, f)
<1> USE DEF FirstBlock, SetInBlock, Cleared
<1> DEFINE s == <<n, i, c, None>>
           u == <<n, i, None, None>>
<1>1. s \in Paths /\ PtrAt(t, b, s) = 0 /\ PtrAt(t2, b2, s) = f
  BY PathOne DEF Below
<1>2. u \in Paths /\ PtrAt(t, b, u) = y
  BY PathTop
<1>3. y \in DataBlocks /\ Bit(y) \in bm /\ f # 0
  BY <1>2, SizesAssumption DEF Marked, DataBlocks
<1>4. ASSUME NEW q \in Paths, q # s PROVE PtrAt(t2, b2, q) = PtrAt(t, b, q)
  <2> DEFINE p == <<q[1], q[2], None, None>>
             r == <<q[1], q[2], q[3], None>>
             v == t[q[1]].ptrs[q[2]]
  <2>1. q[1] \in Inum /\ q[2] \in PtrIdx /\ t2[q[1]].ptrs[q[2]] = v
    BY PathShapes
  <2>2. p \in Paths /\ PtrAt(t, b, p) = v
    BY <2>1, PathTop
  <2>3. v = 0 \/ (v \in DataBlocks /\ v # f)
    BY <2>2, NotFresh
  <2>4. v = y => q[1] = n /\ q[2] = i
    BY <1>2, <2>2 DEF Unshared
  <2>5. CASE q[3] = None
    BY <2>1, <2>5 DEF PtrAt
  <2>6. CASE q[3] \in Cells /\ q[4] = None /\ get_ilevel(q[2]) >= 1
    <3>1. v # y \/ q[3] # c
      BY <1>4, <2>4, <2>6, PathShapes
    <3> QED
      BY <2>1, <2>3, <2>6, <3>1, SMTT(60) DEF PtrAt, Below, None, Cells
  <2>7. CASE q[3] \in Cells /\ q[4] \in Cells /\ get_ilevel(q[2]) = 2
    <3> DEFINE w == Below(b, v, q[3])
    <3>1. r \in Paths /\ PtrAt(t, b, r) = w
      BY <2>1, <2>7, PathOne
    <3>2. w = 0 \/ (w \in DataBlocks /\ w # f)
      BY <3>1, NotFresh
    <3>3. w # y
      BY <1>2, <1>3, <2>7, <3>1 DEF Unshared, None, Cells
    <3>4. Below(b2, w, q[4]) = Below(b, w, q[4])
      BY <2>7, <3>2, <3>3 DEF Below
    <3>5. CASE v = y /\ q[3] = c
      <4>1. Below(b2, v, q[3]) = f /\ Below(b2, f, q[4]) = 0
        BY <1>3, <2>4, <2>7, <3>5 DEF Below
      <4>2. w = 0
        BY <1>3, <3>5 DEF Below
      <4> HIDE DEF w
      <4>3. Below(b, w, q[4]) = 0
        BY <4>2 DEF Below
      <4> QED
        BY <2>1, <2>7, <4>1, <4>3 DEF PtrAt, None, Cells, w
    <3>6. CASE ~(v = y /\ q[3] = c)
      <4>1. Below(b2, v, q[3]) = w
        BY <2>3, <2>7, <3>6 DEF Below
      <4> QED
        BY <2>1, <2>7, <3>4, <4>1 DEF PtrAt, None, Cells
    <3> QED
      BY <3>5, <3>6
  <2> QED
    BY <2>5, <2>6, <2>7, PathShapes
<1> HIDE DEF s
<1> QED
  BY <1>1, <1>4 DEF Grown

\* The same for a null pointer two indirect blocks below an inode's pointer.
LEMMA LinkTwo ==
  ASSUME NEW t, NEW b, NEW t2, NEW b2, NEW bm, NEW f \in DataBlocks,
         NEW n \in Inum, NEW i \in PtrIdx, NEW c \in Cells, NEW d \in Cells, NEW y,
         Marked(t, b, bm), Unshared(t, b), Bit(f) \notin bm,
         SecondBlock(t, b, n, i, c, y),
         SetInBlock(t, b, t2, b2, f, y, d)
  PROVE  Grown(t, b, t2, b2, f)
<1> USE DEF SecondBlock, SetInBlock
<1> DEFINE s == <<n, i, c, d>>
           u == <<n, i, c, None>>
<1>0. u \in Paths /\ PtrAt(t, b, u) = y
  BY PathOne
<1>1. y \in DataBlocks /\ Bit(y) \in bm /\ f # 0
  BY <1>0, SizesAssumption DEF Marked, DataBlocks
<1>2. ASSUME NEW q \in Paths
      PROVE  /\ t2[q[1]].ptrs[q[2]] = t[q[1]].ptrs[q[2]]
             /\ q[3] \in Cells =>
                  /\ <<q[1], q[2], q[3], None>> \in Paths
                  /\ PtrAt(t, b, <<q[1], q[2], q[3], None>>)
                       = Below(b, t[q[1]].ptrs[q[2]], q[3])
                  /\ Below(b2, t[q[1]].ptrs[q[2]], q[3])
                       = Below(b, t[q[1]].ptrs[q[2]], q[3])
  <2> DEFINE p == <<q[1], q[2], None, None>>
             v == t[q[1]].ptrs[q[2]]
  <2>1. q[1] \in Inum /\ q[2] \in PtrIdx /\ t2[q[1]].ptrs[q[2]] = v
    BY PathShapes
  <2>2. p \in Paths /\ PtrAt(t, b, p) = v
    BY <2>1, PathTop
  <2>3. v = 0 \/ (v \in DataBlocks /\ v # f)
    BY <2>2, NotFresh
  <2>4. v # y
    BY <1>0, <1>1, <2>2 DEF Unshared, None, Cells
  <2>5. ASSUME q[3] \in Cells
        PROVE  /\ <<q[1], q[2], q[3], None>> \in Paths
               /\ PtrAt(t, b, <<q[1], q[2], q[3], None>>) = Below(b, v, q[3])
    <3>1. get_ilevel(q[2]) >= 1
      BY <2>5, PathShapes DEF None, Cells
    <3> QED
      BY <2>1, <2>5, <3>1, PathOne
  <2> QED
    BY <2>1, <2>3, <2>4, <2>5 DEF Below
<1>3. s \in Paths /\ PtrAt(t, b, s) = 0 /\ PtrAt(t2, b2, s) = f
  <2>1. /\ s \in Paths
        /\ PtrAt(t, b, s) = Below(b, Below(b, t[n].ptrs[i], c), d)
        /\ PtrAt(t2, b2, s) = Below(b2, Below(b2, t2[n].ptrs[i], c), d)
    BY PathTwo
  <2>2. s[1] = n /\ s[2] = i /\ s[3] = c
    OBVIOUS
  <2> HIDE DEF s
  <2>3. /\ t2[s[1]].ptrs[s[2]] = t[s[1]].ptrs[s[2]]
        /\ Below(b2, t[s[1]].ptrs[s[2]], s[3]) = Below(b, t[s[1]].ptrs[s[2]], s[3])
    BY <1>2, <2>1, <2>2
  <2> QED
    BY <1>1, <2>1, <2>2, <2>3, SMTT(60) DEF Below
<1>4. ASSUME NEW q \in Paths, q # s PROVE PtrAt(t2, b2, q) = PtrAt(t, b, q)
  <2> DEFINE v == t[q[1]].ptrs[q[2]]
             r == <<q[1], q[2], q[3], None>>
             w == Below(b, v, q[3])
  <2>0. t2[q[1]].ptrs[q[2]] = v
    BY <1>2
  <2>1. CASE q[3] = None
    BY <2>0, <2>1 DEF PtrAt
  <2>2. CASE q[3] \in Cells /\ q[4] = None
    <3>1. Below(b2, v, q[3]) = w
      BY <1>2, <2>2
    <3> QED
      BY <2>0, <2>2, <3>1 DEF PtrAt, None, Cells
  <2>3. CASE q[3] \in Cells /\ q[4] \in Cells
    <3>1. r \in Paths /\ PtrAt(t, b, r) = w /\ Below(b2, v, q[3]) = w
      BY <1>2, <2>3
    <3>2. w = 0 \/ (w \in DataBlocks /\ w # f)
      BY <3>1, NotFresh
    <3>3. w = y => q[1] = n /\ q[2] = i /\ q[3] = c
      BY <1>0, <1>1, <3>1 DEF Unshared
    <3>4. w # y \/ q[4] # d
      BY <1>4, <3>3, PathShapes
    <3>5. Below(b2, w, q[4]) = Below(b, w, q[4])
      BY <2>3, <3>2, <3>4 DEF Below
    <3> QED
      BY <2>0, <2>3, <3>1, <3>5 DEF PtrAt, None, Cells
  <2> QED
    BY <2>1, <2>2, <2>3, PathShapes
<1> HIDE DEF s
<1> QED
  BY <1>3, <1>4 DEF Grown

\* The contents of a data block are no pointers.
LEMMA LeafContents ==
  ASSUME NEW t, NEW b, NEW b2, NEW bm, NEW s \in Paths,
         Marked(t, b, bm), Unshared(t, b), PtrAt(t, b, s) # 0,
         IsLeaf(s), SameBut(b, b2, PtrAt(t, b, s))
  PROVE  /\ \A q \in Paths : PtrAt(t, b2, q) = PtrAt(t, b, q)
         /\ Marked(t, b2, bm) /\ Unshared(t, b2)
<1> USE DEF IsLeaf, SameBut
<1>1. ASSUME NEW q \in Paths PROVE PtrAt(t, b2, q) = PtrAt(t, b, q)
  <2> DEFINE p == <<q[1], q[2], None, None>>
             r == <<q[1], q[2], q[3], None>>
             v == t[q[1]].ptrs[q[2]]
             w == Below(b, v, q[3])
  <2>1. CASE q[3] = None
    BY <2>1 DEF PtrAt
  <2>2. CASE q[3] \in Cells /\ get_ilevel(q[2]) >= 1
    <3>1. p \in Paths /\ PtrAt(t, b, p) = v
      BY PathShapes, PathTop
    <3>2. v = 0 \/ (v \in DataBlocks /\ v # PtrAt(t, b, s))
      BY <2>2, <3>1, PathShapes DEF Marked, Unshared, None, Cells
    <3>3. Below(b2, v, q[3]) = w
      BY <3>2 DEF Below
    <3>4. r \in Paths /\ PtrAt(t, b, r) = w
      BY <2>2, PathShapes, PathOne
    <3>5. CASE q[4] = None
      BY <2>2, <3>3, <3>5 DEF PtrAt, None, Cells
    <3>6. CASE q[4] \in Cells /\ get_ilevel(q[2]) = 2
      <4>1. w = 0 \/ (w \in DataBlocks /\ w # PtrAt(t, b, s))
        BY <2>2, <3>4, <3>6, PathShapes DEF Marked, Unshared, None, Cells
      <4>2. Below(b2, w, q[4]) = Below(b, w, q[4])
        BY <4>1 DEF Below
      <4> QED
        BY <2>2, <3>3, <3>6, <4>2 DEF PtrAt, None, Cells
    <3> QED
      BY <2>2, <3>5, <3>6, PathShapes
  <2> QED
    BY <2>1, <2>2, PathShapes
<1> QED
  BY <1>1, FewerPointers

-----------------------------------------------------------------------------
(***************************************************************************)
(* The memory of a running call.                                           *)
(***************************************************************************)

\* The path of the pointer being visited.
HerePath == <<req.inum, stk[0].i,
              IF depth >= 1 THEN stk[1].i ELSE None,
              IF depth = 2 THEN stk[2].i ELSE None>>

\* The pointers of an inode, in the memory.
LEMMA MemPointers ==
  ASSUME TypeOK, CallOK
  PROVE  \A n \in Inum, i \in PtrIdx :
           MemInode[n].ptrs[i] = IF Running /\ n = req.inum THEN stk[0].p[i]
                                 ELSE inode[n].ptrs[i]
BY DEF TypeOK, CallOK, Running, MemInode

\* The blocks held by the frames are blocks of the tree, and distinct.
LEMMA FrameBlocks ==
  ASSUME IInv
  PROVE  /\ depth # 0 =>
              /\ stk[0].i \in PtrIdx /\ req.inum \in Inum
              /\ stk[1].n \in DataBlocks /\ stk[1].n = MemInode[req.inum].ptrs[stk[0].i]
              /\ PtrAt(MemInode, MemBlk, <<req.inum, stk[0].i, None, None>>) = stk[1].n
              /\ MemBlk[stk[1].n] = stk[1].p
         /\ depth = 2 =>
              /\ stk[1].i \in Cells /\ get_ilevel(stk[0].i) = 2
              /\ stk[2].n \in DataBlocks /\ stk[2].n = MemBlk[stk[1].n][stk[1].i]
              /\ PtrAt(MemInode, MemBlk, <<req.inum, stk[0].i, stk[1].i, None>>) = stk[2].n
              /\ stk[2].n # stk[1].n
              /\ MemBlk[stk[2].n] = stk[2].p
<1> USE DEF IInv
<1>0. stk[0].i \in Nat /\ stk[1].i \in Nat /\ depth \in 0 .. 2
  BY DEF TypeOK, Frame
<1>1. ASSUME depth # 0
      PROVE  /\ stk[0].i \in PtrIdx /\ req.inum \in Inum /\ Running
             /\ stk[1].n # 0 /\ stk[1].n = MemInode[req.inum].ptrs[stk[0].i]
  <2>1. stk[0].i \in PtrIdx /\ req.inum \in Inum /\ Running
    BY <1>0, <1>1, Indices DEF FramesOK, CallOK
  <2> QED
    BY <1>1, <2>1, MemPointers DEF FramesOK
<1>2. ASSUME depth # 0
      PROVE  /\ PtrAt(MemInode, MemBlk, <<req.inum, stk[0].i, None, None>>) = stk[1].n
             /\ stk[1].n \in DataBlocks /\ MemBlk[stk[1].n] = stk[1].p
  <2> DEFINE s == <<req.inum, stk[0].i, None, None>>
  <2>1. s \in Paths /\ PtrAt(MemInode, MemBlk, s) = stk[1].n
    BY <1>1, <1>2, PathTop
  <2>2. stk[1].n \in DataBlocks
    BY <1>1, <1>2, <2>1 DEF MemMarked, Marked
  <2> QED
    BY <1>0, <1>2, <2>1, <2>2 DEF MemBlk
<1>3. ASSUME depth = 2
      PROVE  /\ stk[1].i \in Cells /\ get_ilevel(stk[0].i) = 2
             /\ stk[2].n \in DataBlocks /\ stk[2].n = MemBlk[stk[1].n][stk[1].i]
             /\ PtrAt(MemInode, MemBlk, <<req.inum, stk[0].i, stk[1].i, None>>) = stk[2].n
             /\ stk[2].n # stk[1].n
             /\ MemBlk[stk[2].n] = stk[2].p
  <2> DEFINE s == <<req.inum, stk[0].i, None, None>>
             r == <<req.inum, stk[0].i, stk[1].i, None>>
  <2>1. stk[1].i \in Cells /\ get_ilevel(stk[0].i) = 2
    BY <1>0, <1>3, LevelRange, Indices DEF FramesOK
  <2>2. stk[2].n # 0 /\ stk[2].n = MemBlk[stk[1].n][stk[1].i]
    BY <1>2, <1>3 DEF FramesOK
  <2>3. r \in Paths
        /\ PtrAt(MemInode, MemBlk, r)
             = Below(MemBlk, MemInode[req.inum].ptrs[stk[0].i], stk[1].i)
    BY <1>1, <1>3, <2>1, PathOne
  <2>4. PtrAt(MemInode, MemBlk, r) = stk[2].n
    BY <1>1, <1>2, <1>3, <2>2, <2>3, SizesAssumption, SMTT(60) DEF Below, DataBlocks
  <2>5. stk[2].n \in DataBlocks
    BY <2>2, <2>3, <2>4 DEF MemMarked, Marked
  <2>6. s \in Paths /\ s # r
    BY <1>1, <1>3, <2>1, PathTop DEF None, Cells
  <2>7. stk[2].n # stk[1].n
    BY <1>2, <1>3, <2>2, <2>3, <2>4, <2>6, SMTT(60) DEF MemUnshared, Unshared
  <2> QED
    BY <1>3, <2>1, <2>2, <2>4, <2>5, <2>7 DEF MemBlk
<1> QED
  BY <1>1, <1>2, <1>3

\* The pointer being visited is a pointer of the tree; its block, if it has
\* one, is in no frame.
LEMMA VisitedPointer ==
  ASSUME IInv, Running, Top.i < Limit
  PROVE  /\ HerePath \in Paths /\ PtrAt(MemInode, MemBlk, HerePath) = Here
         /\ HerePath[1] = req.inum /\ HerePath[2] = stk[0].i
         /\ HerePath[3] = (IF depth >= 1 THEN stk[1].i ELSE None)
         /\ HerePath[4] = (IF depth = 2 THEN stk[2].i ELSE None)
         /\ Top.i \in IF depth = 0 THEN PtrIdx ELSE Cells
         /\ stk[0].i \in PtrIdx
         /\ Here # 0 => /\ Here \in DataBlocks /\ Bit(Here) \in bitmap
                        /\ depth # 0 => Here # stk[1].n
                        /\ depth = 2 => Here # stk[2].n
<1> USE DEF IInv
<1>0. /\ stk[0].i \in Nat /\ stk[1].i \in Nat /\ stk[2].i \in Nat
      /\ depth \in 0 .. 2 /\ req.inum \in Inum
  BY DEF TypeOK, Frame, CallOK
<1>1. /\ Top.i \in IF depth = 0 THEN PtrIdx ELSE Cells
      /\ stk[0].i \in PtrIdx
  BY <1>0, FrameBlocks, Indices DEF Top, Limit
<1>2. /\ HerePath[1] = req.inum /\ HerePath[2] = stk[0].i
      /\ HerePath[3] = (IF depth >= 1 THEN stk[1].i ELSE None)
      /\ HerePath[4] = (IF depth = 2 THEN stk[2].i ELSE None)
  BY DEF HerePath
<1>3. HerePath \in Paths /\ PtrAt(MemInode, MemBlk, HerePath) = Here
  <2>1. CASE depth = 0
    <3>1. HerePath = <<req.inum, stk[0].i, None, None>>
      BY <2>1 DEF HerePath
    <3>2. MemInode[req.inum].ptrs[stk[0].i] = Here
      BY <1>0, <1>1, <2>1, MemPointers DEF Here, Top
    <3> QED
      BY <1>0, <1>1, <3>1, <3>2, PathTop
  <2>2. CASE depth = 1
    <3>1. HerePath = <<req.inum, stk[0].i, stk[1].i, None>>
      BY <2>2 DEF HerePath
    <3>2. stk[1].i \in Cells /\ get_ilevel(stk[0].i) >= 1
      BY <1>1, <2>2 DEF Top, FramesOK
    <3>3. Below(MemBlk, stk[1].n, stk[1].i) = Here
      BY <2>2, FrameBlocks, SizesAssumption DEF Below, Here, Top, DataBlocks
    <3> QED
      BY <1>0, <1>1, <2>2, <3>1, <3>2, <3>3, PathOne, FrameBlocks
  <2>3. CASE depth = 2
    <3>1. HerePath = <<req.inum, stk[0].i, stk[1].i, stk[2].i>>
      BY <2>3 DEF HerePath
    <3>2. stk[2].i \in Cells
      BY <1>1, <2>3 DEF Top
    <3>3. Below(MemBlk, stk[1].n, stk[1].i) = stk[2].n
      BY <2>3, FrameBlocks, SizesAssumption DEF Below, DataBlocks
    <3>4. Below(MemBlk, stk[2].n, stk[2].i) = Here
      BY <2>3, FrameBlocks, SizesAssumption DEF Below, Here, Top, DataBlocks
    <3> QED
      BY <1>0, <1>1, <2>3, <3>1, <3>2, <3>3, <3>4, PathTwo, FrameBlocks
  <2> QED
    BY <1>0, <2>1, <2>2, <2>3
<1>4. ASSUME Here # 0
      PROVE  /\ Here \in DataBlocks /\ Bit(Here) \in bitmap
             /\ depth # 0 => Here # stk[1].n
             /\ depth = 2 => Here # stk[2].n
  <2>1. Here \in DataBlocks /\ Bit(Here) \in bitmap
    BY <1>3, <1>4 DEF MemMarked, Marked
  <2>2. ASSUME depth # 0 PROVE Here # stk[1].n
    <3> DEFINE s == <<req.inum, stk[0].i, None, None>>
    <3>1. s \in Paths /\ PtrAt(MemInode, MemBlk, s) = stk[1].n
      BY <1>0, <1>1, <2>2, PathTop, FrameBlocks
    <3>2. s # HerePath
      BY <1>0, <1>2, <2>2 DEF None
    <3> QED
      BY <1>3, <1>4, <3>1, <3>2 DEF MemUnshared, Unshared
  <2>3. ASSUME depth = 2 PROVE Here # stk[2].n
    <3> DEFINE s == <<req.inum, stk[0].i, stk[1].i, None>>
    <3>1. s \in Paths /\ PtrAt(MemInode, MemBlk, s) = stk[2].n
      BY <1>0, <1>1, <2>3, PathOne, FrameBlocks
    <3>2. s # HerePath
      BY <1>0, <1>2, <2>3 DEF None
    <3> QED
      BY <1>3, <1>4, <3>1, <3>2 DEF MemUnshared, Unshared
  <2> QED
    BY <2>1, <2>2, <2>3
<1> QED
  BY <1>1, <1>2, <1>3, <1>4

\* The trees of the disk are those of the memory with some pointers missing.
LEMMA DiskBehind ==
  ASSUME IInv
  PROVE  \A q \in Paths : PtrAt(inode, blk, q) \in {0, PtrAt(MemInode, MemBlk, q)}
<1> USE DEF IInv
<1>0. depth \in 0 .. 2 /\ (pc = "zero" => Running)
  BY DEF TypeOK, Running
<1>1. ASSUME NEW z \in DataBlocks, NEW c \in Cells, ~(pc = "zero" /\ z = Here)
      PROVE  blk[z][c] \in {0, MemBlk[z][c]}
  <2>1. CASE depth # 0 /\ z = stk[1].n
    BY <2>1, FrameBlocks DEF Behind
  <2>2. CASE depth = 2 /\ z = stk[2].n
    BY <2>2, FrameBlocks DEF Behind
  <2>3. CASE ~(depth # 0 /\ z = stk[1].n) /\ ~(depth = 2 /\ z = stk[2].n)
    BY <1>0, <1>1, <2>3 DEF MemBlk
  <2> QED
    BY <2>1, <2>2, <2>3
<1> SUFFICES ASSUME NEW q \in Paths
             PROVE  PtrAt(inode, blk, q) \in {0, PtrAt(MemInode, MemBlk, q)}
  OBVIOUS
<1> DEFINE p == <<q[1], q[2], None, None>>
           r == <<q[1], q[2], q[3], None>>
           v == inode[q[1]].ptrs[q[2]]
           w == Below(blk, v, q[3])
<1>2. q[1] \in Inum /\ q[2] \in PtrIdx
  BY PathShapes
<1>3. v = 0 \/ v = MemInode[q[1]].ptrs[q[2]]
  BY <1>2, MemPointers DEF Behind
<1>4. CASE v = 0 \/ q[3] = None
  BY <1>3, <1>4 DEF PtrAt, Below
<1>5. CASE v # 0 /\ q[3] \in Cells /\ get_ilevel(q[2]) >= 1
  <2>1. p \in Paths /\ PtrAt(MemInode, MemBlk, p) = v
    BY <1>2, <1>3, <1>5, PathTop
  <2>2. v \in DataBlocks
    BY <1>5, <2>1 DEF MemMarked, Marked
  <2>3. ~(pc = "zero" /\ v = Here)
    <3> SUFFICES ASSUME pc = "zero", v = Here PROVE FALSE
      OBVIOUS
    <3>1. p = HerePath
      BY <1>0, <1>5, <2>1, VisitedPointer DEF FramesOK, MemUnshared, Unshared
    <3>2. /\ HerePath[1] = req.inum /\ HerePath[2] = stk[0].i
          /\ HerePath[3] = (IF depth >= 1 THEN stk[1].i ELSE None)
      BY <1>0, VisitedPointer DEF FramesOK
    <3>3. stk[1].i # None
      BY DEF TypeOK, Frame, None
    <3>4. depth = 0 /\ q[1] = req.inum /\ q[2] = Top.i
      BY <1>0, <3>1, <3>2, <3>3 DEF Top
    <3> QED
      BY <1>5, <3>4 DEF Behind
  <2>4. w \in {0, Below(MemBlk, v, q[3])}
    BY <1>1, <1>5, <2>2, <2>3 DEF Below
  <2>5. CASE q[4] = None
    BY <1>3, <1>5, <2>4, <2>5 DEF PtrAt, None, Cells
  <2>6. CASE q[4] \in Cells /\ get_ilevel(q[2]) = 2
    <3>1. CASE w = 0
      <4>1. PtrAt(inode, blk, q) = Below(blk, w, q[4])
        BY <1>5, <2>6 DEF PtrAt, None, Cells
      <4> HIDE DEF w
      <4> QED
        BY <3>1, <4>1 DEF Below
    <3>2. CASE w # 0
      <4>1. r \in Paths /\ PtrAt(MemInode, MemBlk, r) = w
        BY <1>2, <1>3, <1>5, <2>4, <3>2, PathOne
      <4>2. w \in DataBlocks
        BY <3>2, <4>1 DEF MemMarked, Marked
      <4>3. ~(pc = "zero" /\ w = Here)
        <5> SUFFICES ASSUME pc = "zero", w = Here PROVE FALSE
          OBVIOUS
        <5>1. r = HerePath
          BY <1>0, <3>2, <4>1, VisitedPointer DEF FramesOK, MemUnshared, Unshared
        <5>2. /\ HerePath[1] = req.inum /\ HerePath[2] = stk[0].i
              /\ HerePath[3] = (IF depth >= 1 THEN stk[1].i ELSE None)
              /\ HerePath[4] = (IF depth = 2 THEN stk[2].i ELSE None)
          BY <1>0, VisitedPointer DEF FramesOK
        <5>3. stk[2].i # None /\ None \notin Cells
          BY DEF TypeOK, Frame, None, Cells
        <5>4. /\ depth = 1 /\ q[1] = req.inum /\ q[2] = stk[0].i
              /\ q[3] = Top.i
          BY <1>0, <1>5, <5>1, <5>2, <5>3 DEF Top
        <5>5. v = Top.n
          BY <1>3, <1>5, <5>4, FrameBlocks DEF Top
        <5> QED
          BY <1>5, <3>2, <5>4, <5>5 DEF Behind, Below
      <4>4. Below(blk, w, q[4]) \in {0, Below(MemBlk, w, q[4])}
        BY <1>1, <2>6, <3>2, <4>2, <4>3 DEF Below
      <4>5. w = Below(MemBlk, v, q[3])
        BY <2>4, <3>2
      <4> HIDE DEF w
      <4> QED
        BY <1>3, <1>5, <2>6, <4>4, <4>5 DEF PtrAt, None, Cells, w
    <3> QED
      BY <3>1, <3>2
  <2> QED
    BY <1>5, <2>5, <2>6, PathShapes
<1> QED
  BY <1>4, <1>5, PathShapes

\* The block trees of the disk are sound: what a crash leaves behind.
LEMMA DiskSound ==
  ASSUME IInv
  PROVE  Marked(inode, blk, bitmap) /\ Unshared(inode, blk)
BY DiskBehind, FewerPointers DEF IInv, MemMarked, MemUnshared

-----------------------------------------------------------------------------
(***************************************************************************)
(* The invariant is inductive: one lemma for each action.                  *)
(***************************************************************************)

\* The part of TypeOK about the frames.
StkOK ==
  /\ DOMAIN stk = 0 .. 2 /\ \A d \in 0 .. 2 : stk[d] \in Frame(d)
  /\ stk[0].i <= NPTRS
  /\ \A d \in 1 .. 2 : stk[d].i <= NPTRS_PER_BLOCK

\* Requests and counters of a call are numbers.
LEMMA RequestTypes ==
  \A r \in Requests : /\ r.w \in BOOLEAN /\ r.off \in Nat /\ r.sz \in Nat
                      /\ r.w => r.buf \in Seq({0} \cup Data) /\ r.sz = Len(r.buf)
<1> SUFFICES ASSUME NEW r \in Requests
             PROVE  /\ r.w \in BOOLEAN /\ r.off \in Nat /\ r.sz \in Nat
                    /\ r.w => r.buf \in Seq({0} \cup Data) /\ r.sz = Len(r.buf)
  OBVIOUS
<1>1. CASE \E n \in 0 .. NINODES, o \in Offsets, b \in Buffers :
             r = [w |-> TRUE, inum |-> n, off |-> o, sz |-> Len(b), buf |-> b]
  BY <1>1, RequestsAssumption
<1>2. CASE \E n \in 0 .. NINODES, o \in Offsets, z \in ReadSizes :
             r = [w |-> FALSE, inum |-> n, off |-> o, sz |-> z, buf |-> <<>>]
  BY <1>2, RequestsAssumption
<1> QED
  BY <1>1, <1>2 DEF Requests

LEMMA Counters ==
  ASSUME TypeOK
  PROVE  /\ ilevel \in Int /\ Span(ilevel) * BLOCKSIZE \in Nat /\ eblock \in Nat
         /\ consumed \in 0 .. sa.sz
         /\ NPTRS \in Nat /\ NPTRS_PER_BLOCK \in Nat \ {0}
<1>1. stk[0].i \in Int /\ depth \in Int
  BY DEF TypeOK, Frame
<1>2. ilevel \in Int
  BY <1>1, LevelRange DEF ilevel
<1>3. Span(ilevel) \in Nat /\ Span(ilevel) * BLOCKSIZE \in Nat
  BY <1>2, SpanNat
<1> QED
  BY <1>2, <1>3, SizesAssumption
  DEF TypeOK, eblock, consumed, NPTRS, NPTRS_PER_BLOCK

\* The loop goes on to the next pointer.
LEMMA Advance ==
  ASSUME TypeOK, Top.i < Limit, NextPtr
  PROVE  /\ StkOK'
         /\ stk'[0].p = stk[0].p
         /\ stk'[1].n = stk[1].n /\ stk'[1].p = stk[1].p
         /\ stk'[2].n = stk[2].n /\ stk'[2].p = stk[2].p
         /\ depth # 0 => stk'[0].i = stk[0].i
         /\ depth = 2 => stk'[1].i = stk[1].i
<1>1. depth \in 0 .. 2 /\ DOMAIN stk = 0 .. 2 /\ Top \in Frame(depth)
  BY DEF TypeOK, Top
<1>2. stk' = [stk EXCEPT ![depth].i = Top.i + 1]
  BY <1>1 DEF NextPtr, Top
<1>3. \A d \in 0 .. 2 : stk'[d] = IF d = depth THEN [Top EXCEPT !.i = Top.i + 1]
                                  ELSE stk[d]
  BY <1>1, <1>2 DEF Top
<1>4. \A d \in 0 .. 2 : stk'[d] \in Frame(d)
  BY <1>1, <1>3 DEF TypeOK, Frame
<1>5. \A d \in 0 .. 2 : stk'[d].n = stk[d].n /\ stk'[d].p = stk[d].p
  BY <1>1, <1>3 DEF Top, Frame
<1>6. \A d \in 0 .. 2 : stk'[d].i = IF d = depth THEN Top.i + 1 ELSE stk[d].i
  BY <1>1, <1>3 DEF Frame
<1>7. stk'[0].i <= NPTRS /\ \A d \in 1 .. 2 : stk'[d].i <= NPTRS_PER_BLOCK
  BY <1>1, <1>6, Counters DEF TypeOK, Limit, Frame
<1>8. StkOK'
  BY <1>1, <1>2, <1>4, <1>7 DEF StkOK
<1>9. /\ stk'[0].n = stk[0].n /\ stk'[0].p = stk[0].p
      /\ stk'[1].n = stk[1].n /\ stk'[1].p = stk[1].p
      /\ stk'[2].n = stk[2].n /\ stk'[2].p = stk[2].p
  BY <1>5
<1>10. /\ depth # 0 => stk'[0].i = stk[0].i
       /\ depth # 1 => stk'[1].i = stk[1].i
  BY <1>6
<1> QED
  BY <1>8, <1>9, <1>10

\* Some of the bytes that are left are consumed.
LEMMA Consume ==
  ASSUME TypeOK, NEW k \in 0 .. sa.left,
         sa' = [sa EXCEPT !.boff = eblock, !.left = @ - k, !.off = @ + k]
  PROVE  /\ sa' \in [boff : Nat, off : Nat, left : Nat, sz : Nat]
         /\ sa'.left <= sa'.sz /\ sa'.sz = sa.sz
<1>1. sa \in [boff : Nat, off : Nat, left : Nat, sz : Nat] /\ sa.left <= sa.sz
  BY DEF TypeOK
<1>2. /\ sa'.boff = eblock /\ sa'.off = sa.off + k
      /\ sa'.left = sa.left - k /\ sa'.sz = sa.sz
  BY <1>1
<1>3. sa' = [boff |-> sa'.boff, off |-> sa'.off, left |-> sa'.left, sz |-> sa'.sz]
  BY <1>1
<1>4. sa'.boff \in Nat /\ sa'.off \in Nat /\ sa'.left \in Nat
  BY <1>1, <1>2, Counters
<1> QED
  BY <1>1, <1>2, <1>3, <1>4

\* A step of the loop that leaves the disk and the frames' blocks alone.
LEMMA LoopStep ==
  ASSUME IInv, Visiting, NextPtr,
         UNCHANGED <<disk, pc, req, depth>>
  PROVE  (FramesOK /\ MemMarked /\ MemUnshared /\ Behind)' /\ Kept
<1> USE DEF IInv
<1>0. /\ depth \in 0 .. 2 /\ pc = "rw" /\ Top.i < Limit
      /\ bitmap' = bitmap /\ inode' = inode /\ blk' = blk
      /\ pc' = pc /\ req' = req /\ depth' = depth
  BY DEF TypeOK, Visiting, disk
<1>1. /\ stk'[0].p = stk[0].p
      /\ stk'[1].n = stk[1].n /\ stk'[1].p = stk[1].p
      /\ stk'[2].n = stk[2].n /\ stk'[2].p = stk[2].p
      /\ depth # 0 => stk'[0].i = stk[0].i
      /\ depth = 2 => stk'[1].i = stk[1].i
  BY <1>0, Advance
<1>2. FramesOK'
  BY <1>0, <1>1 DEF FramesOK, Running
<1>3. MemInode' = MemInode
  BY <1>0, <1>1 DEF MemInode
<1>4. MemBlk' = MemBlk
  BY <1>0, <1>1 DEF MemBlk
<1>5. (MemMarked /\ MemUnshared)'
  BY <1>0, <1>3, <1>4 DEF MemMarked, MemUnshared, Marked, Unshared
<1>6. Behind'
  BY <1>0, <1>1 DEF Behind, Running
<1>7. Kept
  BY <1>0, <1>3, <1>4 DEF Kept
<1> QED
  BY <1>2, <1>5, <1>6, <1>7

LEMMA SkipStep == IInv /\ Skip => IInv' /\ Kept
<1> SUFFICES ASSUME IInv, Skip PROVE IInv' /\ Kept
  OBVIOUS
<1> USE DEF IInv
<1>0. /\ Visiting /\ Top.i < Limit /\ NextPtr
      /\ bitmap' = bitmap /\ inode' = inode /\ blk' = blk
      /\ pc' = pc /\ req' = req /\ depth' = depth /\ ret' = ret
      /\ ops' = ops /\ crashes' = crashes
  BY DEF Skip, Visiting, disk
<1>1. TypeOK'
  <2>1. StkOK'
    BY <1>0, Advance
  <2>2. sa' \in [boff : Nat, off : Nat, left : Nat, sz : Nat] /\ sa'.left <= sa'.sz
    <3> DEFINE k == Span(ilevel) * BLOCKSIZE
    <3>1. sa' = [sa EXCEPT !.boff = eblock, !.off = @ + k]
      BY DEF Skip
    <3>2. k \in Nat /\ eblock \in Nat
      BY Counters
    <3>3. sa \in [boff : Nat, off : Nat, left : Nat, sz : Nat] /\ sa.left <= sa.sz
      BY DEF TypeOK
    <3> HIDE DEF k
    <3>4. /\ sa'.boff = eblock /\ sa'.off = sa.off + k
          /\ sa'.left = sa.left /\ sa'.sz = sa.sz
      BY <3>1, <3>3
    <3>5. sa' = [boff |-> sa'.boff, off |-> sa'.off, left |-> sa'.left, sz |-> sa'.sz]
      BY <3>1, <3>3
    <3>6. sa'.off \in Nat
      BY <3>2, <3>3, <3>4
    <3> QED
      BY <3>2, <3>3, <3>4, <3>5, <3>6
  <2> QED
    BY <1>0, <2>1, <2>2 DEF TypeOK, StkOK
<1>2. CallOK'
  BY DEF CallOK, Skip, Running, TypeOK
<1>3. (FramesOK /\ MemMarked /\ MemUnshared /\ Behind)' /\ Kept
  BY LoopStep DEF Skip
<1> QED
  BY <1>1, <1>2, <1>3

LEMMA HoleStep == IInv /\ Hole => IInv' /\ Kept
<1> SUFFICES ASSUME IInv, Hole PROVE IInv' /\ Kept
  OBVIOUS
<1> USE DEF IInv
<1>0. /\ Visiting /\ Top.i < Limit /\ NextPtr
      /\ bitmap' = bitmap /\ inode' = inode /\ blk' = blk
      /\ pc' = pc /\ req' = req /\ depth' = depth /\ ret' = ret
      /\ ops' = ops /\ crashes' = crashes
  BY DEF Hole, Visiting, disk
<1>1. TypeOK'
  <2>1. StkOK'
    BY <1>0, Advance
  <2>2. sa' \in [boff : Nat, off : Nat, left : Nat, sz : Nat] /\ sa'.left <= sa'.sz
    <3>1. sa' = [sa EXCEPT !.boff = eblock, !.left = @ - HoleSize, !.off = @ + HoleSize]
      BY DEF Hole
    <3>2. HoleSize \in 0 .. sa.left
      BY Counters DEF HoleSize, Least, TypeOK
    <3> QED
      BY <3>1, <3>2, Consume
  <2> QED
    BY <1>0, <2>1, <2>2 DEF TypeOK, StkOK
<1>2. CallOK'
  BY DEF CallOK, Hole, Running, TypeOK
<1>3. (FramesOK /\ MemMarked /\ MemUnshared /\ Behind)' /\ Kept
  BY LoopStep DEF Hole
<1> QED
  BY <1>1, <1>2, <1>3

LEMMA OutOfBlocksStep == IInv /\ OutOfBlocks => IInv' /\ Kept
<1> SUFFICES ASSUME IInv, OutOfBlocks PROVE IInv' /\ Kept
  OBVIOUS
<1> USE DEF IInv
<1>0. pc = "rw" /\ pc' = "fail" /\ UNCHANGED <<bitmap, inode, blk, req, stk, depth, sa>>
  BY DEF OutOfBlocks, Visiting, disk
<1>1. TypeOK'
  BY <1>0 DEF OutOfBlocks, TypeOK
<1>2. CallOK' /\ FramesOK' /\ Behind'
  BY <1>0 DEF CallOK, FramesOK, Behind, Running
<1>3. MemInode' = MemInode /\ MemBlk' = MemBlk
  BY <1>0 DEF MemInode, MemBlk
<1>4. (MemMarked /\ MemUnshared)'
  BY <1>0, <1>3 DEF MemMarked, MemUnshared, Marked, Unshared
<1>5. Kept
  BY <1>0, <1>3 DEF Kept
<1> QED
  BY <1>1, <1>2, <1>4, <1>5

\* The visited pointer is set.
LEMMA SetPointer ==
  ASSUME TypeOK, NEW v \in Ptr, SetHere(v)
  PROVE  /\ StkOK'
         /\ stk'[0].i = stk[0].i /\ stk'[0].n = stk[0].n
         /\ stk'[1].i = stk[1].i /\ stk'[1].n = stk[1].n
         /\ stk'[2].i = stk[2].i /\ stk'[2].n = stk[2].n
         /\ stk'[0].p = IF depth = 0 THEN [stk[0].p EXCEPT ![stk[0].i] = v] ELSE stk[0].p
         /\ stk'[1].p = IF depth = 1 THEN [stk[1].p EXCEPT ![stk[1].i] = v] ELSE stk[1].p
         /\ stk'[2].p = IF depth = 2 THEN [stk[2].p EXCEPT ![stk[2].i] = v] ELSE stk[2].p
<1>1. depth \in 0 .. 2 /\ DOMAIN stk = 0 .. 2 /\ Top \in Frame(depth)
  BY DEF TypeOK, Top
<1>2. v \in Cell
  BY DEF Ptr, Cell
<1>3. \A d \in 0 .. 2 : stk'[d] = IF d = depth THEN [Top EXCEPT !.p[Top.i] = v]
                                  ELSE stk[d]
  BY <1>1 DEF SetHere, Top
<1>4. \A d \in 0 .. 2 : stk'[d] \in Frame(d)
  <2>1. [Top EXCEPT !.p[Top.i] = v] \in Frame(depth)
    BY <1>1, <1>2 DEF Frame
  <2> QED
    BY <1>1, <1>3, <2>1 DEF TypeOK
<1>5. \A d \in 0 .. 2 : /\ stk'[d].i = stk[d].i /\ stk'[d].n = stk[d].n
                       /\ stk'[d].p = IF d = depth THEN [stk[d].p EXCEPT ![stk[d].i] = v]
                                      ELSE stk[d].p
  BY <1>1, <1>3 DEF Frame, Top
<1>6. stk'[0].i <= NPTRS /\ \A d \in 1 .. 2 : stk'[d].i <= NPTRS_PER_BLOCK
  BY <1>5 DEF TypeOK
<1>7. StkOK'
  BY <1>1, <1>4, <1>6 DEF StkOK, SetHere
<1>8. /\ stk'[0].i = stk[0].i /\ stk'[0].n = stk[0].n
      /\ stk'[1].i = stk[1].i /\ stk'[1].n = stk[1].n
      /\ stk'[2].i = stk[2].i /\ stk'[2].n = stk[2].n
  BY <1>5
<1>9. /\ stk'[0].p = IF 0 = depth THEN [stk[0].p EXCEPT ![stk[0].i] = v] ELSE stk[0].p
      /\ stk'[1].p = IF 1 = depth THEN [stk[1].p EXCEPT ![stk[1].i] = v] ELSE stk[1].p
      /\ stk'[2].p = IF 2 = depth THEN [stk[2].p EXCEPT ![stk[2].i] = v] ELSE stk[2].p
  BY <1>5
<1> QED
  BY <1>7, <1>8, <1>9

LEMMA AllocStep == IInv /\ Alloc => IInv' /\ Added
<1> SUFFICES ASSUME IInv, Alloc PROVE IInv' /\ Added
  OBVIOUS
<1> USE DEF IInv
<1>1. PICK i \in Usable : bitmap_alloc(i) /\ SetHere(sdata + i)
  BY DEF Alloc
<1> DEFINE f == sdata + i
<1>2. /\ f \in DataBlocks /\ f # 0 /\ f \in Ptr
      /\ Bit(f) = i /\ Bit(f) \notin bitmap
      /\ bitmap' = bitmap \cup {Bit(f)} /\ bitmap' \subseteq Usable
  BY <1>1, UsableBits, SizesAssumption
  DEF bitmap_alloc, DataBlocks, Ptr, Bit, TypeOK
<1> HIDE DEF f
<1>3. /\ pc = "rw" /\ Running /\ Top.i < Limit /\ Here = 0
      /\ pc' = (IF ilevel = 0 THEN "rw" ELSE "zero")
      /\ inode' = inode /\ blk' = blk /\ req' = req /\ depth' = depth
      /\ sa' = sa /\ ret' = ret /\ ops' = ops /\ crashes' = crashes
      /\ depth \in 0 .. 2
  BY DEF Alloc, zero, Visiting, Running, TypeOK
<1>4. SetHere(f)
  BY <1>1 DEF f
<1>5. /\ StkOK'
      /\ stk'[0].i = stk[0].i /\ stk'[0].n = stk[0].n
      /\ stk'[1].i = stk[1].i /\ stk'[1].n = stk[1].n
      /\ stk'[2].i = stk[2].i /\ stk'[2].n = stk[2].n
      /\ stk'[0].p = IF depth = 0 THEN [stk[0].p EXCEPT ![stk[0].i] = f] ELSE stk[0].p
      /\ stk'[1].p = IF depth = 1 THEN [stk[1].p EXCEPT ![stk[1].i] = f] ELSE stk[1].p
      /\ stk'[2].p = IF depth = 2 THEN [stk[2].p EXCEPT ![stk[2].i] = f] ELSE stk[2].p
  BY <1>2, <1>4, SetPointer
<1>6. /\ Top.i \in IF depth = 0 THEN PtrIdx ELSE Cells
      /\ stk[0].i \in PtrIdx /\ req.inum \in Inum
  BY <1>3, VisitedPointer DEF CallOK
<1>7. Here' = f
  <2>1. stk[0].p \in [PtrIdx -> Cell] /\ stk[1].p \in [Cells -> Cell]
        /\ stk[2].p \in [Cells -> Cell]
    BY DEF TypeOK, Frame
  <2> QED
    BY <1>3, <1>5, <1>6, <2>1 DEF Here, Top
<1>8. ilevel' = ilevel /\ Limit' = Limit /\ Top'.i = Top.i /\ ilevel >= 0
  <2>1. ilevel' = ilevel /\ Limit' = Limit /\ Top'.i = Top.i
    BY <1>3, <1>5 DEF ilevel, Limit, Top
  <2>2. get_ilevel(stk[0].i) \in 0 .. 2
    BY <1>6, LevelRange DEF PtrIdx
  <2> QED
    BY <1>3, <2>1, <2>2 DEF ilevel, FramesOK
<1>9. TypeOK'
  BY <1>2, <1>3, <1>5 DEF TypeOK, StkOK
<1>10. CallOK'
  BY <1>3 DEF CallOK, Running
<1>11. FramesOK'
  <2>1. depth # 0 => /\ Running'
                     /\ stk'[0].i < NPTRS /\ get_ilevel(stk'[0].i) >= depth
                     /\ stk'[1].n # 0 /\ stk'[1].n = stk'[0].p[stk'[0].i]
    BY <1>3, <1>5 DEF FramesOK, Running
  <2>2. depth = 2 => /\ stk'[1].i < NPTRS_PER_BLOCK
                     /\ stk'[2].n # 0 /\ stk'[2].n = stk'[1].p[stk'[1].i]
    BY <1>3, <1>5 DEF FramesOK
  <2>3. pc' = "zero" => Top'.i < Limit' /\ ilevel' > 0 /\ Here' # 0
    BY <1>2, <1>3, <1>7, <1>8, Counters
  <2> QED
    BY <1>3, <2>1, <2>2, <2>3 DEF FramesOK
<1>12. Behind'
  <2>1. stk[0].p \in [PtrIdx -> Cell] /\ stk[1].p \in [Cells -> Cell]
        /\ stk[2].p \in [Cells -> Cell]
    BY DEF TypeOK, Frame
  <2>2. \A j \in PtrIdx : inode[req.inum].ptrs[j] \in {0, stk'[0].p[j]}
    BY <1>3, <1>5, <1>6, <2>1, SMTT(60) DEF Behind, Here, Top
  <2>3. depth # 0 => \A c \in Cells : blk[stk[1].n][c] \in {0, stk'[1].p[c]}
    BY <1>3, <1>5, <1>6, <2>1, SMTT(60) DEF Behind, Here, Top
  <2>4. depth = 2 => \A c \in Cells : blk[stk[2].n][c] \in {0, stk'[2].p[c]}
    BY <1>3, <1>5, <1>6, <2>1 DEF Behind, Here, Top
  <2>5. IF depth = 0 THEN inode[req.inum].ptrs[stk[0].i] = 0
        ELSE blk[Top.n][Top.i] = 0
    BY <1>3, <1>6 DEF Behind, Here, Top
  <2>6. Top'.n = Top.n /\ Top'.i = Top.i
    BY <1>3, <1>5 DEF Top
  <2>7. req'.w
    BY <1>3 DEF Alloc
  <2>8. \A j \in PtrIdx : inode'[req'.inum].ptrs[j] \in {0, stk'[0].p[j]}
    BY <1>3, <2>2
  <2>9. depth' # 0 => \A c \in Cells : blk'[stk'[1].n][c] \in {0, stk'[1].p[c]}
    BY <1>3, <1>5, <2>3
  <2>10. depth' = 2 => \A c \in Cells : blk'[stk'[2].n][c] \in {0, stk'[2].p[c]}
    BY <1>3, <1>5, <2>4
  <2>11. IF depth' = 0 THEN inode'[req'.inum].ptrs[Top'.i] = 0
         ELSE blk'[Top'.n][Top'.i] = 0
    <3>1. depth = 0 => Top.i = stk[0].i
      BY DEF Top
    <3> QED BY <1>3, <2>5, <2>6, <3>1
  <2> QED
    BY <2>7, <2>8, <2>9, <2>10, <2>11 DEF Behind
<1>13. Grown(MemInode, MemBlk, MemInode', MemBlk', f)
  <2>0. CallOK' /\ TypeOK'
    BY <1>9, <1>10
  <2>1. \A m \in Inum, j \in PtrIdx :
          /\ MemInode[m].ptrs[j] = IF m = req.inum THEN stk[0].p[j] ELSE inode[m].ptrs[j]
          /\ MemInode'[m].ptrs[j] = IF m = req.inum THEN stk'[0].p[j] ELSE inode[m].ptrs[j]
    BY <1>3, <1>9, <1>10 DEF MemInode, TypeOK, Running
  <2>2. \A y \in DataBlocks :
          /\ MemBlk[y] = (IF depth >= 1 /\ y = stk[1].n THEN stk[1].p
                          ELSE IF depth = 2 /\ y = stk[2].n THEN stk[2].p ELSE blk[y])
          /\ MemBlk'[y] = (IF depth >= 1 /\ y = stk[1].n THEN stk'[1].p
                           ELSE IF depth = 2 /\ y = stk[2].n THEN stk'[2].p
                           ELSE IF pc' = "zero" /\ y = f THEN Zeros ELSE blk[y])
    BY <1>3, <1>5, <1>7 DEF MemBlk
  <2>3. stk[0].p \in [PtrIdx -> Cell] /\ stk[1].p \in [Cells -> Cell]
        /\ stk[2].p \in [Cells -> Cell]
    BY DEF TypeOK, Frame
  <2>4. \A c \in Cells : Zeros[c] = 0
    BY DEF Zeros
  <2>5. depth # 0 => stk[1].n # f
    <3> SUFFICES ASSUME depth # 0 PROVE stk[1].n # f
      OBVIOUS
    <3> DEFINE s == <<req.inum, stk[0].i, None, None>>
    <3>1. s \in Paths /\ PtrAt(MemInode, MemBlk, s) = stk[1].n
      BY <1>6, FrameBlocks, PathTop
    <3> QED
      BY <1>2, <3>1, FrameBlocks, NotFresh DEF MemMarked
  <2>6. depth = 2 => stk[2].n # f
    <3> SUFFICES ASSUME depth = 2 PROVE stk[2].n # f
      OBVIOUS
    <3> DEFINE s == <<req.inum, stk[0].i, stk[1].i, None>>
    <3>1. s \in Paths /\ PtrAt(MemInode, MemBlk, s) = stk[2].n
      BY <1>6, FrameBlocks, PathOne
    <3> QED
      BY <1>2, <3>1, FrameBlocks, NotFresh DEF MemMarked
  <2> DEFINE n == req.inum
             k == stk[0].i
  <2>9. n \in Inum /\ k \in PtrIdx
    BY <1>6
  <2>10. Marked(MemInode, MemBlk, bitmap) /\ Unshared(MemInode, MemBlk)
    BY DEF MemMarked, MemUnshared
  <2>7. CASE depth = 0
    <3>1. MemInode[n].ptrs[k] = 0 /\ MemInode'[n].ptrs[k] = f
      BY <1>3, <1>5, <1>6, <2>1, <2>3, <2>7 DEF Here, Top
    <3>2. \A m \in Inum, j \in PtrIdx :
            m # n \/ j # k => MemInode'[m].ptrs[j] = MemInode[m].ptrs[j]
      BY <1>5, <2>1, <2>3, <2>7
    <3>3. \A y \in DataBlocks, c \in Cells : y # f => MemBlk'[y][c] = MemBlk[y][c]
      BY <2>2, <2>7
    <3>4. get_ilevel(k) > 0 => \A c \in Cells : MemBlk'[f][c] = 0
      <4>1. get_ilevel(k) > 0 => pc' = "zero"
        BY <1>3, <1>6, <2>7, LevelRange DEF ilevel, PtrIdx
      <4> QED
        BY <1>2, <2>2, <2>4, <2>7, <4>1
    <3> HIDE DEF n, k
    <3>5. SetInInode(MemInode, MemBlk, MemInode', MemBlk', f, n, k)
      BY <3>1, <3>2, <3>3 DEF SetInInode
    <3>6. get_ilevel(k) > 0 => Cleared(MemBlk', f)
      BY <3>4 DEF Cleared
    <3> QED
      BY <1>2, <2>9, <2>10, <3>5, <3>6, LinkInode
  <2>11. \A m \in Inum, j \in PtrIdx : depth # 0 =>
            MemInode'[m].ptrs[j] = MemInode[m].ptrs[j]
    BY <1>5, <2>1
  <2>8. CASE depth = 1
    <3> DEFINE c == stk[1].i
               y == stk[1].n
    <3>1. /\ c \in Cells /\ get_ilevel(k) >= 1 /\ y \in DataBlocks
          /\ y = MemInode[n].ptrs[k] /\ y # 0 /\ y # f
      BY <1>6, <2>5, <2>8, FrameBlocks, SizesAssumption DEF FramesOK, Top, DataBlocks
    <3>2. MemBlk[y][c] = 0 /\ MemBlk'[y][c] = f
      <4>1. MemBlk[y] = stk[1].p /\ MemBlk'[y] = stk'[1].p
        BY <2>2, <2>8, <3>1
      <4>2. stk[1].p[c] = 0
        BY <1>3, <2>8 DEF Here, Top
      <4>3. stk'[1].p[c] = f
        BY <1>5, <2>3, <2>8, <3>1
      <4> QED BY <4>1, <4>2, <4>3
    <3>3. \A z \in DataBlocks, e \in Cells :
            z # f /\ (z # y \/ e # c) => MemBlk'[z][e] = MemBlk[z][e]
      BY <1>5, <2>2, <2>3, <2>8
    <3>4. get_ilevel(k) = 2 => \A e \in Cells : MemBlk'[f][e] = 0
      <4>1. get_ilevel(k) = 2 => pc' = "zero"
        BY <1>3, <2>8 DEF ilevel
      <4> QED
        BY <1>2, <2>2, <2>4, <2>5, <2>8, <4>1
    <3>5. \A m \in Inum, j \in PtrIdx : MemInode'[m].ptrs[j] = MemInode[m].ptrs[j]
      BY <2>8, <2>11
    <3>9. FirstBlock(MemInode, n, k, y) /\ c \in Cells
      BY <3>1 DEF FirstBlock
    <3> HIDE DEF n, k, c, y
    <3>6. SetInBlock(MemInode, MemBlk, MemInode', MemBlk', f, y, c)
      BY <3>2, <3>3, <3>5 DEF SetInBlock
    <3>7. get_ilevel(k) = 2 => Cleared(MemBlk', f)
      BY <3>4 DEF Cleared
    <3> QED
      BY <1>2, <2>9, <2>10, <3>6, <3>7, <3>9, LinkOne
  <2>12. CASE depth = 2
    <3> DEFINE c == stk[1].i
               d == stk[2].i
               y == stk[2].n
    <3>1. /\ c \in Cells /\ d \in Cells /\ get_ilevel(k) = 2 /\ y \in DataBlocks
          /\ y # 0 /\ y # f /\ stk[1].n # y
      BY <1>6, <2>6, <2>12, FrameBlocks, SizesAssumption DEF Top, DataBlocks
    <3>2. MemBlk[y][d] = 0 /\ MemBlk'[y][d] = f
      BY <1>3, <1>5, <1>6, <2>2, <2>3, <2>12, <3>1 DEF Here, Top
    <3>3. \A z \in DataBlocks, e \in Cells :
            z # f /\ (z # y \/ e # d) => MemBlk'[z][e] = MemBlk[z][e]
      BY <1>5, <2>2, <2>3, <2>12
    <3>4. y = Below(MemBlk, MemInode[n].ptrs[k], c)
      BY <2>12, FrameBlocks, SizesAssumption, SMTT(60) DEF Below, DataBlocks
    <3>5. \A m \in Inum, j \in PtrIdx : MemInode'[m].ptrs[j] = MemInode[m].ptrs[j]
      BY <2>11, <2>12
    <3>9. SecondBlock(MemInode, MemBlk, n, k, c, y)
      BY <3>1, <3>4 DEF SecondBlock
    <3> HIDE DEF n, k, c, d, y
    <3>6. SetInBlock(MemInode, MemBlk, MemInode', MemBlk', f, y, d)
      BY <3>2, <3>3, <3>5 DEF SetInBlock
    <3> QED
      BY <1>2, <2>9, <2>10, <3>1, <3>6, <3>9, LinkTwo
  <2> QED
    BY <1>3, <2>7, <2>8, <2>12
<1>14. (MemMarked /\ MemUnshared)'
  <2>1. Marked(MemInode', MemBlk', bitmap \cup {Bit(f)}) /\ Unshared(MemInode', MemBlk')
    BY <1>2, <1>13, OneMorePointer DEF MemMarked, MemUnshared
  <2> QED
    BY <1>2, <2>1 DEF MemMarked, MemUnshared, Marked, Unshared
<1>15. Added
  BY <1>2, <1>13 DEF Added
<1> QED
  BY <1>9, <1>10, <1>11, <1>12, <1>14, <1>15

LEMMA DataBlockStep == IInv /\ DataBlock => IInv' /\ Kept
<1> SUFFICES ASSUME IInv, DataBlock PROVE IInv' /\ Kept
  OBVIOUS
<1> USE DEF IInv
<1> DEFINE sz    == Least(sa.left, BLOCKSIZE - start)
           bytes == [c \in Cells |->
                       IF req.w /\ c >= start /\ c < start + sz
                       THEN req.buf[consumed + c - start + 1] ELSE blk[Here][c]]
<1>1. /\ Visiting /\ pc = "rw" /\ Running /\ Top.i < Limit /\ NextPtr
      /\ Here # 0 /\ ilevel = 0 /\ depth \in 0 .. 2
      /\ bitmap' = bitmap /\ inode' = inode /\ pc' = pc /\ req' = req
      /\ depth' = depth /\ ret' = ret /\ ops' = ops /\ crashes' = crashes
      /\ blk' = [blk EXCEPT ![Here] = bytes]
      /\ sa' = [sa EXCEPT !.boff = eblock, !.left = @ - sz, !.off = @ + sz]
  BY DEF DataBlock, Visiting, Running, TypeOK
<1>2. /\ Here \in DataBlocks
      /\ depth # 0 => Here # stk[1].n
      /\ depth = 2 => Here # stk[2].n
      /\ HerePath \in Paths /\ PtrAt(MemInode, MemBlk, HerePath) = Here
      /\ IsLeaf(HerePath)
  <2>1. /\ HerePath[2] = stk[0].i
        /\ HerePath[3] = (IF depth >= 1 THEN stk[1].i ELSE None)
        /\ HerePath[4] = (IF depth = 2 THEN stk[2].i ELSE None)
    BY <1>1, VisitedPointer
  <2>2. stk[1].i # None /\ stk[2].i # None /\ stk[0].i \in Nat
    BY DEF TypeOK, Frame, None
  <2>3. IsLeaf(HerePath)
    BY <1>1, <2>1, <2>2, LevelRange DEF IsLeaf, ilevel
  <2> QED
    BY <1>1, <2>3, VisitedPointer
<1>3. start \in 0 .. BLOCKSIZE - 1 /\ sz \in 0 .. sa.left /\ sz <= BLOCKSIZE - start
  <2>1. sa.off \in Nat /\ sa.left \in Nat
    BY DEF TypeOK
  <2>2. start \in 0 .. BLOCKSIZE - 1
    BY <2>1, ModRange DEF start
  <2> QED
    BY <2>1, <2>2, SizesAssumption DEF Least
<1>4. bytes \in [Cells -> Cell]
  <2> SUFFICES ASSUME NEW c \in Cells
               PROVE  (IF req.w /\ c >= start /\ c < start + sz
                       THEN req.buf[consumed + c - start + 1] ELSE blk[Here][c]) \in Cell
    OBVIOUS
  <2>1. blk[Here][c] \in Cell
    BY <1>2 DEF TypeOK
  <2>2. ASSUME req.w, c >= start, c < start + sz
        PROVE  req.buf[consumed + c - start + 1] \in Cell
    <3> HIDE DEF sz
    <3>1. req.buf \in Seq({0} \cup Data) /\ sa.sz = Len(req.buf)
      BY <1>1, <2>2, RequestTypes DEF CallOK
    <3>2. consumed = sa.sz - sa.left /\ sa.sz \in Nat /\ sa.left \in Nat /\ sa.left <= sa.sz
      BY DEF consumed, TypeOK
    <3>3. consumed + c - start + 1 \in 1 .. Len(req.buf)
      BY <1>3, <2>2, <3>1, <3>2, SizesAssumption DEF Cells
    <3> QED
      BY <3>1, <3>3 DEF Cell
  <2> QED
    BY <2>1, <2>2
<1> HIDE DEF sz, bytes
<1>5. TypeOK'
  <2>1. StkOK'
    BY <1>1, Advance
  <2>2. /\ sa' \in [boff : Nat, off : Nat, left : Nat, sz : Nat]
        /\ sa'.left <= sa'.sz
    BY <1>1, <1>3, Consume
  <2>3. blk' \in [DataBlocks -> [Cells -> Cell]]
    BY <1>1, <1>4 DEF TypeOK
  <2> QED
    BY <1>1, <2>1, <2>2, <2>3 DEF TypeOK, StkOK
<1>6. CallOK'
  <2>1. sa'.sz = sa.sz
    BY <1>1, <1>3, Consume
  <2> QED
    BY <1>1, <2>1 DEF CallOK, Running
<1>7. /\ stk'[0].p = stk[0].p
      /\ stk'[1].n = stk[1].n /\ stk'[1].p = stk[1].p
      /\ stk'[2].n = stk[2].n /\ stk'[2].p = stk[2].p
      /\ depth # 0 => stk'[0].i = stk[0].i
      /\ depth = 2 => stk'[1].i = stk[1].i
  BY <1>1, Advance
<1>8. FramesOK'
  BY <1>1, <1>7 DEF FramesOK, Running
<1>9. Behind'
  <2>1. \A z \in DataBlocks : z # Here => blk'[z] = blk[z]
    BY <1>1 DEF TypeOK
  <2> QED
    BY <1>1, <1>2, <1>7, <2>1, FrameBlocks, SMTT(60) DEF Behind, Running
<1>10. /\ MemInode' = MemInode
       /\ \A q \in Paths : PtrAt(MemInode, MemBlk', q) = PtrAt(MemInode, MemBlk, q)
       /\ Marked(MemInode, MemBlk', bitmap) /\ Unshared(MemInode, MemBlk')
  <2>1. MemInode' = MemInode
    BY <1>1, <1>7 DEF MemInode
  <2>2. SameBut(MemBlk, MemBlk', Here)
    BY <1>1, <1>7 DEF SameBut, MemBlk, TypeOK
  <2> QED
    BY <1>1, <1>2, <2>1, <2>2, LeafContents DEF MemMarked, MemUnshared
<1>11. (MemMarked /\ MemUnshared)'
  BY <1>1, <1>10 DEF MemMarked, MemUnshared, Marked, Unshared
<1>12. Kept
  BY <1>1, <1>10 DEF Kept
<1> QED
  BY <1>5, <1>6, <1>8, <1>9, <1>11, <1>12

LEMMA ZeroIndirectStep == IInv /\ ZeroIndirect => IInv' /\ Kept
<1> SUFFICES ASSUME IInv, ZeroIndirect PROVE IInv' /\ Kept
  OBVIOUS
<1> USE DEF IInv
<1>1. /\ pc = "zero" /\ pc' = "rw" /\ Running /\ depth \in 0 .. 2
      /\ bitmap' = bitmap /\ inode' = inode /\ req' = req /\ stk' = stk
      /\ depth' = depth /\ sa' = sa /\ ret' = ret /\ ops' = ops /\ crashes' = crashes
      /\ blk' = [blk EXCEPT ![Here] = Zeros]
  BY DEF ZeroIndirect, Running, TypeOK
<1>2. /\ Here \in DataBlocks
      /\ depth # 0 => Here # stk[1].n
      /\ depth = 2 => Here # stk[2].n
  BY <1>1, VisitedPointer DEF FramesOK
<1>3. Zeros \in [Cells -> Cell]
  BY DEF Zeros, Cell
<1>4. TypeOK'
  BY <1>1, <1>3 DEF TypeOK
<1>5. CallOK' /\ FramesOK'
  BY <1>1 DEF CallOK, FramesOK, Running
<1>6. Behind'
  <2>1. \A z \in DataBlocks : z # Here => blk'[z] = blk[z]
    BY <1>1 DEF TypeOK
  <2> QED
    BY <1>1, <1>2, <2>1, FrameBlocks, SMTT(60) DEF Behind, Running
<1>7. MemInode' = MemInode
  BY <1>1 DEF MemInode
<1>8. MemBlk' = MemBlk
  BY <1>1, <1>2 DEF MemBlk, TypeOK
<1>9. (MemMarked /\ MemUnshared)'
  BY <1>1, <1>7, <1>8 DEF MemMarked, MemUnshared, Marked, Unshared
<1>10. Kept
  BY <1>1, <1>7, <1>8 DEF Kept
<1> QED
  BY <1>4, <1>5, <1>6, <1>9, <1>10

LEMMA DescendStep == IInv /\ Descend => IInv' /\ Kept
<1> SUFFICES ASSUME IInv, Descend PROVE IInv' /\ Kept
  OBVIOUS
<1> USE DEF IInv
<1>1. /\ pc = "rw" /\ Running /\ Top.i < Limit /\ Here # 0 /\ ilevel > 0
      /\ depth \in 0 .. 2 /\ depth' = depth + 1
      /\ stk' = [stk EXCEPT ![depth + 1] = [n |-> Here, p |-> blk[Here], i |-> 0]]
      /\ bitmap' = bitmap /\ inode' = inode /\ blk' = blk
      /\ pc' = pc /\ req' = req /\ sa' = sa /\ ret' = ret
      /\ ops' = ops /\ crashes' = crashes
  BY DEF Descend, Visiting, Running, disk, TypeOK
<1>2. /\ Here \in DataBlocks
      /\ depth # 0 => Here # stk[1].n
      /\ stk[0].i \in PtrIdx
  BY <1>1, VisitedPointer
<1>3. depth \in 0 .. 1 /\ get_ilevel(stk[0].i) >= depth + 1
  <2>1. get_ilevel(stk[0].i) \in 0 .. 2
    BY <1>2, LevelRange DEF PtrIdx
  <2> QED
    BY <1>1, <2>1 DEF ilevel
<1>4. /\ stk'[0] = stk[0]
      /\ depth = 0 => stk'[1] = [n |-> Here, p |-> blk[Here], i |-> 0]
      /\ depth = 1 => stk'[1] = stk[1]
      /\ depth = 1 => stk'[2] = [n |-> Here, p |-> blk[Here], i |-> 0]
      /\ depth = 0 => stk'[2] = stk[2]
      /\ DOMAIN stk' = 0 .. 2
  BY <1>1, <1>3 DEF TypeOK
<1>5. TypeOK'
  <2>1. [n |-> Here, p |-> blk[Here], i |-> 0] \in Frame(depth + 1)
    BY <1>2, <1>3 DEF TypeOK, Frame, Ptr
  <2>2. \A d \in 0 .. 2 : stk'[d] = IF d = depth + 1 THEN [n |-> Here, p |-> blk[Here], i |-> 0]
                                   ELSE stk[d]
    BY <1>1, <1>3 DEF TypeOK
  <2>3. \A d \in 0 .. 2 : stk'[d] \in Frame(d)
    BY <2>1, <2>2 DEF TypeOK
  <2>4. stk'[0].i <= NPTRS /\ \A d \in 1 .. 2 : stk'[d].i <= NPTRS_PER_BLOCK
    BY <1>4, <2>2, Counters DEF TypeOK
  <2> QED
    BY <1>1, <1>3, <1>4, <2>3, <2>4 DEF TypeOK
<1>6. CallOK'
  BY <1>1 DEF CallOK, Running
<1>7. FramesOK'
  <2>1. CASE depth = 0
    <3>1. stk[0].i < NPTRS /\ Here = stk[0].p[stk[0].i]
      BY <1>1, <2>1 DEF Top, Limit, Here
    <3> QED
      BY <1>1, <1>3, <1>4, <2>1, <3>1 DEF FramesOK, Running
  <2>2. CASE depth = 1
    <3>1. stk[1].i < NPTRS_PER_BLOCK /\ Here = stk[1].p[stk[1].i]
      BY <1>1, <2>2 DEF Top, Limit, Here
    <3> QED
      BY <1>1, <1>3, <1>4, <2>2, <3>1 DEF FramesOK, Running
  <2> QED
    BY <1>3, <2>1, <2>2
<1>8. Behind'
  <2>1. CASE depth = 0
    BY <1>1, <1>4, <2>1 DEF Behind, Running
  <2>2. CASE depth = 1
    BY <1>1, <1>4, <2>2 DEF Behind, Running
  <2> QED
    BY <1>3, <2>1, <2>2
<1>9. MemInode' = MemInode
  <2>1. stk'[0].p = stk[0].p
    BY <1>4
  <2> QED
    BY <1>1, <2>1 DEF MemInode
<1>10. MemBlk' = MemBlk
  <2>1. CASE depth = 0
    BY <1>1, <1>4, <2>1 DEF MemBlk
  <2>2. CASE depth = 1
    BY <1>1, <1>2, <1>4, <2>2 DEF MemBlk
  <2> QED
    BY <1>3, <2>1, <2>2
<1>11. (MemMarked /\ MemUnshared)'
  BY <1>1, <1>9, <1>10 DEF MemMarked, MemUnshared, Marked, Unshared
<1>12. Kept
  BY <1>1, <1>9, <1>10 DEF Kept
<1> QED
  BY <1>5, <1>6, <1>7, <1>8, <1>11, <1>12

LEMMA WriteBackStep == IInv /\ WriteBack => IInv' /\ Kept
<1> SUFFICES ASSUME IInv, WriteBack PROVE IInv' /\ Kept
  OBVIOUS
<1> USE DEF IInv
<1> DEFINE k == IF pc = "rw" THEN stk[depth - 1].i + 1 ELSE stk[depth - 1].i
<1>1. /\ pc \in {"rw", "fail"} /\ Running /\ depth \in 1 .. 2 /\ depth' = depth - 1
      /\ stk' = [stk EXCEPT ![depth] = NoFrame, ![depth - 1].i = k]
      /\ blk' = [blk EXCEPT ![Top.n] = Top.p]
      /\ bitmap' = bitmap /\ inode' = inode
      /\ pc' = pc /\ req' = req /\ sa' = sa /\ ret' = ret
      /\ ops' = ops /\ crashes' = crashes
  BY DEF WriteBack, Leaving, Running, TypeOK
<1>2. stk[0] \in Frame(0) /\ stk[1] \in Frame(1) /\ stk[2] \in Frame(2)
      /\ DOMAIN stk = 0 .. 2
  BY DEF TypeOK
<1>3. /\ k \in Nat
      /\ depth = 1 => k <= NPTRS
      /\ depth = 2 => k <= NPTRS_PER_BLOCK
  BY <1>1, <1>2, Counters DEF FramesOK, Frame
<1> HIDE DEF k
<1>4. /\ depth = 1 => stk'[0] = [stk[0] EXCEPT !.i = k] /\ stk'[2] = stk[2]
      /\ depth = 2 => stk'[1] = [stk[1] EXCEPT !.i = k] /\ stk'[0] = stk[0]
      /\ depth = 1 => stk'[1] = NoFrame
      /\ depth = 2 => stk'[2] = NoFrame
      /\ DOMAIN stk' = 0 .. 2
  BY <1>1, <1>2
<1>5. NoFrame \in Frame(1) /\ NoFrame \in Frame(2)
  BY DEF NoFrame, Frame, Zeros, Cell, Ptr
<1>6. TypeOK'
  <2>1. stk'[0] \in Frame(0) /\ stk'[1] \in Frame(1) /\ stk'[2] \in Frame(2)
    BY <1>1, <1>2, <1>3, <1>4, <1>5 DEF Frame
  <2>2. \A d \in 0 .. 2 : d = 0 \/ d = 1 \/ d = 2
    OBVIOUS
  <2>3. \A d \in 0 .. 2 : stk'[d] \in Frame(d)
    BY <2>1, <2>2
  <2>4. stk'[0].i <= NPTRS /\ stk'[1].i <= NPTRS_PER_BLOCK /\ stk'[2].i <= NPTRS_PER_BLOCK
    BY <1>1, <1>2, <1>3, <1>4, Counters DEF TypeOK, NoFrame, Frame
  <2>5. \A d \in 1 .. 2 : stk'[d].i <= NPTRS_PER_BLOCK
    BY <2>2, <2>4
  <2>6. blk' \in [DataBlocks -> [Cells -> Cell]]
    <3>1. Top.p \in [Cells -> Cell]
      BY <1>1, <1>2 DEF Top, Frame
    <3> QED
      BY <1>1, <3>1 DEF TypeOK
  <2> QED
    BY <1>1, <1>4, <2>3, <2>4, <2>5, <2>6 DEF TypeOK
<1>7. CallOK'
  BY <1>1 DEF CallOK, Running
<1>8. FramesOK'
  <2>1. CASE depth = 1
    BY <1>1, <2>1 DEF FramesOK
  <2>2. CASE depth = 2
    <3>1. stk'[1].n = stk[1].n /\ stk'[0].i = stk[0].i /\ stk'[0].p = stk[0].p
      BY <1>2, <1>4, <2>2 DEF Frame
    <3>2. /\ stk[0].i < NPTRS /\ get_ilevel(stk[0].i) >= 2
          /\ stk[1].n # 0 /\ stk[1].n = stk[0].p[stk[0].i]
      BY <2>2 DEF FramesOK
    <3>3. get_ilevel(stk[0].i) >= 1
      <4>1. get_ilevel(stk[0].i) \in 0 .. 2
        BY <1>2, LevelRange DEF Frame
      <4> QED
        BY <3>2, <4>1
    <3>4. depth' = 1 /\ pc' # "zero"
      BY <1>1, <2>2
    <3> QED
      BY <1>1, <3>1, <3>2, <3>3, <3>4 DEF FramesOK, Running
  <2> QED
    BY <1>1, <2>1, <2>2
<1>9. /\ Top.n \in DataBlocks /\ Top = stk[depth]
      /\ depth = 2 => stk[1].n # stk[2].n
      /\ stk'[0].p = stk[0].p
      /\ depth = 2 => stk'[1].n = stk[1].n /\ stk'[1].p = stk[1].p
  BY <1>1, <1>2, <1>4, FrameBlocks DEF Top, Frame
<1>10. Behind'
  <2>0. /\ \A i \in PtrIdx : inode'[req'.inum].ptrs[i] \in {0, stk'[0].p[i]}
        /\ ~req'.w => \A i \in PtrIdx : inode'[req'.inum].ptrs[i] = stk'[0].p[i]
    BY <1>1, <1>9 DEF Behind
  <2>1. CASE depth = 1
    <3>1. depth' = 0 /\ pc' # "zero"
      BY <1>1, <2>1
    <3> QED
      BY <2>0, <3>1 DEF Behind
  <2>2. CASE depth = 2
    <3>1. blk'[stk[1].n] = blk[stk[1].n]
      BY <1>1, <1>9, <2>2, FrameBlocks DEF TypeOK, Top
    <3>2. \A c \in Cells : blk'[stk'[1].n][c] \in {0, stk'[1].p[c]}
      BY <1>9, <2>2, <3>1 DEF Behind
    <3>3. depth' = 1 /\ pc' # "zero"
      BY <1>1, <2>2
    <3> QED
      BY <2>0, <3>2, <3>3 DEF Behind
  <2> QED
    BY <1>1, <2>1, <2>2
<1>11. MemInode' = MemInode
  BY <1>1, <1>9 DEF MemInode
<1>12. MemBlk' = MemBlk
  <2>1. \A z \in DataBlocks : blk'[z] = IF z = stk[depth].n THEN stk[depth].p ELSE blk[z]
    BY <1>1, <1>9 DEF TypeOK
  <2>2. CASE depth = 1
    BY <1>1, <2>1, <2>2 DEF MemBlk
  <2>3. CASE depth = 2
    BY <1>1, <1>9, <2>1, <2>3 DEF MemBlk
  <2> QED
    BY <1>1, <2>2, <2>3
<1>13. (MemMarked /\ MemUnshared)'
  BY <1>1, <1>11, <1>12 DEF MemMarked, MemUnshared, Marked, Unshared
<1>14. Kept
  BY <1>1, <1>11, <1>12 DEF Kept
<1> QED
  BY <1>6, <1>7, <1>8, <1>10, <1>13, <1>14

\* Between calls the memory holds no tree of its own.
LEMMA IdleMemory ==
  ASSUME pc = "idle", depth = 0, blk \in [DataBlocks -> [Cells -> Cell]]
  PROVE  MemInode = inode /\ MemBlk = blk
BY DEF MemInode, MemBlk

LEMMA EmptyStack ==
  /\ DOMAIN NoStack = 0 .. 2 /\ \A d \in 0 .. 2 : NoStack[d] \in Frame(d)
  /\ NoStack[0].i <= NPTRS /\ \A d \in 1 .. 2 : NoStack[d].i <= NPTRS_PER_BLOCK
BY SizesAssumption
DEF NoStack, NoFrame, NoPtrs, Frame, Zeros, Cell, Ptr, NPTRS, NPTRS_PER_BLOCK

LEMMA InitHolds == Init => IInv
<1> SUFFICES ASSUME Init PROVE IInv
  OBVIOUS
<1> USE DEF Init
<1>1. TypeOK
  <2>1. inode \in [Inum -> [size : Nat, ptrs : [PtrIdx -> Ptr]]]
    BY DEF NoPtrs, Ptr
  <2>2. blk \in [DataBlocks -> [Cells -> Cell]]
    BY RequestsAssumption
  <2>3. stk = NoStack
    OBVIOUS
  <2>4. sa \in [boff : Nat, off : Nat, left : Nat, sz : Nat] /\ sa.left <= sa.sz
    BY DEF NoShare
  <2> QED
    BY <2>1, <2>2, <2>3, <2>4, EmptyStack, SizesAssumption DEF TypeOK
<1>2. CallOK /\ FramesOK /\ Behind
  BY DEF CallOK, FramesOK, Behind, Running
<1>3. \A q \in Paths : PtrAt(inode, blk, q) = 0
  BY PathShapes DEF PtrAt, Below, NoPtrs
<1>4. MemInode = inode /\ MemBlk = blk
  BY <1>1, IdleMemory DEF TypeOK
<1>5. MemMarked /\ MemUnshared
  BY <1>3, <1>4 DEF MemMarked, MemUnshared, Marked, Unshared
<1> QED
  BY <1>1, <1>2, <1>5 DEF IInv

LEMMA BeginStep == ASSUME NEW r \in Requests PROVE IInv /\ Begin(r) => IInv' /\ Kept
<1> SUFFICES ASSUME IInv, Begin(r) PROVE IInv' /\ Kept
  OBVIOUS
<1> USE DEF IInv
<1>1. /\ pc = "idle" /\ pc' = "rw" /\ req' = r /\ ops < MaxOps /\ ops' = ops + 1
      /\ bitmap' = bitmap /\ inode' = inode /\ blk' = blk
      /\ depth' = depth /\ depth = 0 /\ ret' = ret /\ crashes' = crashes
      /\ r.inum \in Inum /\ (r.w \/ r.off < inode[r.inum].size)
      /\ stk' = [stk EXCEPT ![0] = [n |-> 0, p |-> inode[r.inum].ptrs, i |-> 0]]
      /\ sa' = [boff |-> 0, off |-> r.off, left |-> Clamped(r), sz |-> Clamped(r)]
  BY DEF Begin, Request, disk, FramesOK, Running
<1>2. Clamped(r) \in Nat /\ (r.w => Clamped(r) = Len(r.buf)) /\ r.off \in Nat
  <2>1. inode[r.inum].size \in Nat
    BY <1>1 DEF TypeOK
  <2> QED
    BY <1>1, <2>1, RequestTypes DEF Clamped
<1>3. /\ stk'[0] = [n |-> 0, p |-> inode[r.inum].ptrs, i |-> 0]
      /\ stk'[1] = stk[1] /\ stk'[2] = stk[2] /\ DOMAIN stk' = 0 .. 2
  BY <1>1 DEF TypeOK
<1>4. TypeOK'
  <2>1. stk'[0] \in Frame(0)
    BY <1>1, <1>3 DEF TypeOK, Frame, Ptr, Cell
  <2>2. \A d \in 0 .. 2 : stk'[d] \in Frame(d)
    BY <1>1, <2>1 DEF TypeOK
  <2>3. stk'[0].i <= NPTRS /\ \A d \in 1 .. 2 : stk'[d].i <= NPTRS_PER_BLOCK
    BY <1>1, <1>3, Counters DEF TypeOK
  <2>4. ops' \in 0 .. MaxOps
    BY <1>1, SizesAssumption DEF TypeOK
  <2>5. sa' \in [boff : Nat, off : Nat, left : Nat, sz : Nat] /\ sa'.left <= sa'.sz
    BY <1>1, <1>2
  <2> QED
    BY <1>1, <1>3, <2>2, <2>3, <2>4, <2>5 DEF TypeOK
<1>5. CallOK'
  BY <1>1, <1>2 DEF CallOK, Running
<1>6. FramesOK'
  BY <1>1 DEF FramesOK
<1>7. Behind'
  BY <1>1, <1>3 DEF Behind, Running
<1>8. MemInode = inode /\ MemBlk = blk
  BY <1>1, IdleMemory DEF TypeOK
<1>9. MemInode' = MemInode
  BY <1>1, <1>3, <1>8 DEF MemInode, TypeOK
<1>10. MemBlk' = MemBlk
  BY <1>1 DEF MemBlk
<1>11. (MemMarked /\ MemUnshared)'
  BY <1>1, <1>9, <1>10 DEF MemMarked, MemUnshared, Marked, Unshared
<1>12. Kept
  BY <1>1, <1>9, <1>10 DEF Kept
<1> QED
  BY <1>4, <1>5, <1>6, <1>7, <1>11, <1>12

LEMMA RefuseStep == ASSUME NEW r \in Requests PROVE IInv /\ Refuse(r) => IInv' /\ Kept
<1> SUFFICES ASSUME IInv, Refuse(r) PROVE IInv' /\ Kept
  OBVIOUS
<1> USE DEF IInv
<1>1. /\ pc = "idle" /\ pc' = pc /\ req' = r /\ ops < MaxOps /\ ops' = ops + 1
      /\ bitmap' = bitmap /\ inode' = inode /\ blk' = blk /\ stk' = stk /\ sa' = sa
      /\ depth' = depth /\ ret' \in Int /\ crashes' = crashes
  BY DEF Refuse, Request, disk
<1>2. TypeOK'
  BY <1>1, SizesAssumption DEF TypeOK
<1>3. CallOK' /\ FramesOK' /\ Behind'
  BY <1>1 DEF CallOK, FramesOK, Behind, Running
<1>4. depth = 0
  BY <1>1 DEF FramesOK, Running
<1>5. MemInode' = MemInode /\ MemBlk' = MemBlk
  BY <1>1, <1>4 DEF MemInode, MemBlk
<1>6. (MemMarked /\ MemUnshared)'
  BY <1>1, <1>5 DEF MemMarked, MemUnshared, Marked, Unshared
<1>7. Kept
  BY <1>1, <1>5 DEF Kept
<1> QED
  BY <1>2, <1>3, <1>6, <1>7

LEMMA FinishStep == IInv /\ Finish => IInv' /\ Kept
<1> SUFFICES ASSUME IInv, Finish PROVE IInv' /\ Kept
  OBVIOUS
<1> USE DEF IInv
<1>1. /\ pc \in {"rw", "fail"} /\ Running /\ pc' = "idle" /\ depth = 0 /\ depth' = depth
      /\ bitmap' = bitmap /\ blk' = blk /\ req' = req
      /\ stk' = NoStack /\ sa' = NoShare /\ ret' = consumed
      /\ ops' = ops /\ crashes' = crashes
      /\ req \in Requests /\ req.inum \in Inum
      /\ inode' = IF req.w
                  THEN [inode EXCEPT ![req.inum] =
                          [size |-> Most(inode[req.inum].size, req.off + consumed),
                           ptrs |-> stk[0].p]]
                  ELSE inode
  BY DEF Finish, Leaving, Stores, NewSize, Running, Top, CallOK
<1>2. \A n \in Inum, i \in PtrIdx :
        MemInode[n].ptrs[i] = IF n = req.inum THEN stk[0].p[i] ELSE inode[n].ptrs[i]
  BY <1>1, MemPointers
<1>3. stk[0].p \in [PtrIdx -> Ptr]
  <2>1. stk[0].p \in [PtrIdx -> Cell]
    BY DEF TypeOK, Frame
  <2>2. ASSUME NEW i \in PtrIdx PROVE stk[0].p[i] \in Ptr
    <3> DEFINE s == <<req.inum, i, None, None>>
    <3>1. s \in Paths /\ PtrAt(MemInode, MemBlk, s) = stk[0].p[i]
      BY <1>1, <1>2, PathTop
    <3> QED
      BY <3>1 DEF MemMarked, Marked, Ptr
  <2> QED
    BY <2>1, <2>2
<1>4. inode' \in [Inum -> [size : Nat, ptrs : [PtrIdx -> Ptr]]]
  <2>1. Most(inode[req.inum].size, req.off + consumed) \in Nat
    <3>1. inode[req.inum].size \in Nat /\ req.off \in Nat
      BY <1>1, RequestTypes DEF TypeOK
    <3>2. consumed \in Nat
      BY Counters DEF TypeOK
    <3> QED
      BY <3>1, <3>2 DEF Most
  <2> QED
    BY <1>1, <1>3, <2>1 DEF TypeOK
<1>5. TypeOK'
  <2>1. sa' \in [boff : Nat, off : Nat, left : Nat, sz : Nat] /\ sa'.left <= sa'.sz
    BY <1>1 DEF NoShare
  <2>2. ret' \in Int
    BY <1>1, Counters DEF TypeOK
  <2> QED
    BY <1>1, <1>4, <2>1, <2>2, EmptyStack DEF TypeOK
<1>6. CallOK' /\ FramesOK' /\ Behind'
  BY <1>1 DEF CallOK, FramesOK, Behind, Running
<1>7. MemInode' = inode' /\ MemBlk' = blk'
  <2>1. blk' \in [DataBlocks -> [Cells -> Cell]]
    BY <1>5 DEF TypeOK
  <2> QED
    BY <1>1, <2>1 DEF MemInode, MemBlk
<1>8. \A q \in Paths : PtrAt(inode', blk, q) = PtrAt(MemInode, MemBlk, q)
  <2>1. MemBlk = blk
    BY <1>1 DEF MemBlk, TypeOK
  <2>2. \A n \in Inum, i \in PtrIdx : inode'[n].ptrs[i] = MemInode[n].ptrs[i]
    BY <1>1, <1>2 DEF TypeOK, Behind
  <2> QED
    BY <2>1, <2>2, PathShapes DEF PtrAt
<1>9. (MemMarked /\ MemUnshared)'
  <2>1. Marked(inode', blk, bitmap) /\ Unshared(inode', blk)
    BY <1>8, FewerPointers DEF MemMarked, MemUnshared
  <2> QED
    BY <1>1, <1>7, <2>1 DEF MemMarked, MemUnshared, Marked, Unshared
<1>10. Kept
  BY <1>1, <1>7, <1>8 DEF Kept
<1> QED
  BY <1>5, <1>6, <1>9, <1>10

LEMMA CrashStep == IInv /\ Crash => IInv'
<1> SUFFICES ASSUME IInv, Crash PROVE IInv'
  OBVIOUS
<1> USE DEF IInv
<1>1. /\ pc' = "idle" /\ req' = NoReq /\ stk' = NoStack /\ depth' = 0
      /\ sa' = NoShare /\ ret' = 0 /\ ops' = ops
      /\ crashes < MaxCrashes /\ crashes' = crashes + 1
      /\ bitmap' = bitmap /\ inode' = inode /\ blk' = blk
  BY DEF Crash, disk
<1>2. TypeOK'
  <2>1. sa' \in [boff : Nat, off : Nat, left : Nat, sz : Nat] /\ sa'.left <= sa'.sz
    BY <1>1 DEF NoShare
  <2>2. crashes' \in 0 .. MaxCrashes
    BY <1>1, SizesAssumption DEF TypeOK
  <2> QED
    BY <1>1, <2>1, <2>2, EmptyStack DEF TypeOK
<1>3. CallOK' /\ FramesOK' /\ Behind'
  BY <1>1 DEF CallOK, FramesOK, Behind, Running
<1>4. MemInode' = inode /\ MemBlk' = blk
  BY <1>1 DEF MemInode, MemBlk, TypeOK
<1>5. (MemMarked /\ MemUnshared)'
  BY <1>1, <1>4, DiskSound DEF MemMarked, MemUnshared, Marked, Unshared
<1> QED
  BY <1>2, <1>3, <1>5

LEMMA StutterStep == IInv /\ UNCHANGED vars => IInv'
<1> SUFFICES ASSUME IInv, UNCHANGED vars PROVE IInv'
  OBVIOUS
<1>1. /\ bitmap' = bitmap /\ inode' = inode /\ blk' = blk /\ pc' = pc /\ req' = req
      /\ stk' = stk /\ depth' = depth /\ sa' = sa /\ out' = out /\ ret' = ret
      /\ ops' = ops /\ crashes' = crashes
  BY DEF vars
<1>2. MemInode' = MemInode /\ MemBlk' = MemBlk
  BY <1>1 DEF MemInode, MemBlk, Here, Top
<1>3. TypeOK' /\ CallOK' /\ FramesOK' /\ Behind'
  BY <1>1
  DEF IInv, TypeOK, CallOK, FramesOK, Behind, Running, Here, Top, Limit, ilevel
<1>4. (MemMarked /\ MemUnshared)'
  BY <1>1, <1>2 DEF IInv, MemMarked, MemUnshared, Marked, Unshared
<1> QED
  BY <1>3, <1>4 DEF IInv

\* As long as no call was interrupted, what a step does to the bitmap it does
\* to the trees.
LEMMA LeakStep == ASSUME IInv, NoLeak, Next PROVE NoLeak'
<1>1. CASE Crash
  BY <1>1, SizesAssumption DEF Crash, NoLeak, IInv, TypeOK
<1>2. CASE Kept /\ crashes' = crashes
  BY <1>2 DEF Kept, NoLeak
<1>3. CASE Added /\ crashes' = crashes
  <2> SUFFICES ASSUME crashes = 0, NEW i \in bitmap'
               PROVE  \E q \in Paths : PtrAt(MemInode', MemBlk', q) = sdata + i
    BY <1>3 DEF NoLeak
  <2>1. PICK f \in DataBlocks : /\ bitmap' = bitmap \cup {Bit(f)}
                                /\ Grown(MemInode, MemBlk, MemInode', MemBlk', f)
    BY <1>3 DEF Added
  <2>2. CASE i = Bit(f)
    BY <2>1, <2>2, SizesAssumption DEF Grown, Bit, DataBlocks
  <2>3. CASE i \in bitmap
    <3>1. PICK q \in Paths : PtrAt(MemInode, MemBlk, q) = sdata + i
      BY <2>3 DEF NoLeak
    <3>2. sdata + i # 0
      BY <2>3, UsableBits, SizesAssumption DEF IInv, TypeOK, DataBlocks
    <3> QED
      BY <2>1, <3>1, <3>2 DEF Grown
  <2> QED
    BY <2>1, <2>2, <2>3
<1>4. crashes' = crashes \/ Crash
  BY DEF Next, recursive_rw, Begin, Refuse, Request, Skip, Alloc, ZeroIndirect, OutOfBlocks,
     Hole, Descend, DataBlock, WriteBack, Finish
<1>5. Kept \/ Added \/ Crash
  BY BeginStep, RefuseStep, SkipStep, AllocStep, ZeroIndirectStep, OutOfBlocksStep, HoleStep,
     DescendStep, DataBlockStep, WriteBackStep, FinishStep
  DEF Next, recursive_rw
<1> QED
  BY <1>1, <1>2, <1>3, <1>4, <1>5

LEMMA InductiveStep == IInv /\ [Next]_vars => IInv'
<1> SUFFICES ASSUME IInv, [Next]_vars PROVE IInv'
  OBVIOUS
<1>1. ASSUME NEW r \in Requests, Begin(r) PROVE IInv'
  BY <1>1, BeginStep
<1>2. ASSUME NEW r \in Requests, Refuse(r) PROVE IInv'
  BY <1>2, RefuseStep
<1>3. CASE Skip
  BY <1>3, SkipStep
<1>4. CASE Alloc
  BY <1>4, AllocStep
<1>5. CASE ZeroIndirect
  BY <1>5, ZeroIndirectStep
<1>6. CASE OutOfBlocks
  BY <1>6, OutOfBlocksStep
<1>7. CASE Hole
  BY <1>7, HoleStep
<1>8. CASE Descend
  BY <1>8, DescendStep
<1>9. CASE DataBlock
  BY <1>9, DataBlockStep
<1>10. CASE WriteBack
  BY <1>10, WriteBackStep
<1>11. CASE Finish
  BY <1>11, FinishStep
<1>12. CASE Crash
  BY <1>12, CrashStep
<1>13. CASE UNCHANGED vars
  BY <1>13, StutterStep
<1> QED
  BY <1>1, <1>2, <1>3, <1>4, <1>5, <1>6, <1>7, <1>8, <1>9, <1>10, <1>11,
     <1>12, <1>13 DEF Next, recursive_rw

\* Every behaviour of the file layer keeps the invariant.
THEOREM Inductive == Spec => []IInv
BY InitHolds, InductiveStep, PTL DEF Spec

-----------------------------------------------------------------------------

\* Disk sectors, frames and counters keep their types: recursive_rw() never
\* follows a pointer out of the data blocks.
THEOREM TypeCorrect == Spec => []TypeOK
BY Inductive, PTL DEF IInv

\* Whatever disk write a crash interrupts, every block that a file on the disk
\* can reach is marked in the bitmap.
THEOREM AlwaysMarked == Spec => []ReachableIsMarked
<1>1. IInv => ReachableIsMarked
  BY DiskSound DEF ReachableIsMarked
<1> QED
  BY <1>1, Inductive, PTL

\* Whatever disk write a crash interrupts, no block of the disk is in two
\* places of the files' trees.
THEOREM NeverShared == Spec => []NoSharedBlock
<1>1. IInv => NoSharedBlock
  BY DiskSound DEF NoSharedBlock
<1> QED
  BY <1>1, Inductive, PTL

\* As long as no call was interrupted, every block that is marked is in a tree:
\* a call that fails half way loses none of the blocks it has taken.
THEOREM NothingLeaks == Spec => []NoLeak
<1>1. Init => NoLeak
  BY DEF Init, NoLeak
<1>2. IInv /\ NoLeak /\ [Next]_vars => NoLeak'
  <2> SUFFICES ASSUME IInv, NoLeak, UNCHANGED vars PROVE NoLeak'
    BY LeakStep
  <2>1. MemInode' = MemInode /\ MemBlk' = MemBlk /\ bitmap' = bitmap /\ crashes' = crashes
    BY DEF vars, MemInode, MemBlk, Here, Top
  <2> QED
    BY <2>1 DEF NoLeak
<1> QED
  BY <1>1, <1>2, Inductive, PTL DEF Spec

-----------------------------------------------------------------------------
(***************************************************************************)
(* The walk comes to the blocks of the file in their order, and a write    *)
(* has stored just what lies before the place it has come to.              *)
(***************************************************************************)

(***************************************************************************)
(* Arithmetic of blocks.                                                   *)
(***************************************************************************)

LEMMA Division ==
  ASSUME NEW a \in Nat, NEW b \in Nat \ {0}
  PROVE  /\ a \div b \in Nat /\ a % b \in 0 .. b - 1
         /\ a = b * (a \div b) + (a % b)
OBVIOUS

\* The block of an offset, and the place in it.
LEMMA InBlock ==
  ASSUME NEW a \in Nat, NEW b \in Nat \ {0}, NEW q \in Nat,
         q * b <= a, a < q * b + b
  PROVE  a \div b = q /\ a % b = a - q * b
<1>1. /\ a \div b \in Nat /\ a % b \in 0 .. b - 1
      /\ a = b * (a \div b) + (a % b)
  BY Division
<1> DEFINE p == a \div b
<1>2. ASSUME p < q PROVE FALSE
  <2>1. p + 1 <= q
    BY <1>1, <1>2
  <2>2. b * (p + 1) <= b * q
    BY <1>1, <2>1
  <2> QED BY <1>1, <2>2
<1>3. ASSUME q < p PROVE FALSE
  <2>1. q + 1 <= p
    BY <1>1, <1>3
  <2>2. b * (q + 1) <= b * p
    BY <1>1, <2>1
  <2> QED BY <1>1, <2>2
<1>4. p = q
  BY <1>1, <1>2, <1>3
<1> QED BY <1>1, <1>4

LEMMA BlockBelow ==
  ASSUME NEW a \in Nat, NEW b \in Nat \ {0}, NEW n \in Nat
  PROVE  a \div b < n <=> a < n * b
<1>1. /\ a \div b \in Nat /\ a % b \in 0 .. b - 1
      /\ a = b * (a \div b) + (a % b)
  BY Division
<1> DEFINE p == a \div b
<1>2. ASSUME p < n PROVE a < n * b
  <2>1. p + 1 <= n
    BY <1>1, <1>2
  <2>2. b * (p + 1) <= b * n
    BY <1>1, <2>1
  <2> QED BY <1>1, <2>2
<1>3. ASSUME ~(p < n) PROVE ~(a < n * b)
  <2>1. b * p >= b * n
    BY <1>1, <1>3
  <2> QED BY <1>1, <2>1
<1> QED BY <1>2, <1>3

\* Multiples of a block do not change the place in it.
LEMMA Shifted ==
  ASSUME NEW a \in Nat, NEW b \in Nat \ {0}, NEW k \in Nat
  PROVE  (a + k * b) % b = a % b
<1>1. /\ a \div b \in Nat /\ a % b \in 0 .. b - 1
      /\ a = b * (a \div b) + (a % b)
  BY Division
<1>2. PICK p \in Nat, m \in 0 .. b - 1 : p = a \div b /\ m = a % b
  BY <1>1
<1>2a. PICK q \in Nat : q = p + k
  OBVIOUS
<1>3. PICK x \in Nat : x = a + k * b
  OBVIOUS
<1>4. q * b = p * b + k * b
  BY <1>2a
<1>5. PICK u \in Nat, v \in Nat : u = p * b /\ v = k * b
  OBVIOUS
<1>6. a = u + m
  BY <1>1, <1>2, <1>5
<1>7. x = a + v /\ q * b = u + v
  BY <1>3, <1>4, <1>5
<1>8. q * b <= x /\ x < q * b + b /\ x - q * b = m
  BY <1>6, <1>7
<1>9. x % b = x - q * b
  BY <1>8, InBlock
<1> QED BY <1>2, <1>3, <1>8, <1>9

-----------------------------------------------------------------------------
(***************************************************************************)
(* How much of a request of s bytes at offset o lies before position x of  *)
(* the file.                                                               *)
(***************************************************************************)
Reach(o, s, x) == Most(0, Least(s, x - o))

LEMMA ReachType ==
  ASSUME NEW o \in Nat, NEW s \in Nat, NEW x \in Nat
  PROVE  /\ Reach(o, s, x) \in 0 .. s
         /\ Reach(o, s, x) = IF x <= o THEN 0 ELSE IF x - o <= s THEN x - o ELSE s
BY DEF Reach, Most, Least

\* The positions of blocks.
LEMMA Positions ==
  \A b, n \in Nat : /\ b * BLOCKSIZE \in Nat /\ b + n \in Nat
                    /\ (b + n) * BLOCKSIZE = b * BLOCKSIZE + n * BLOCKSIZE
                    /\ (b + 1) * BLOCKSIZE = b * BLOCKSIZE + BLOCKSIZE
BY SizesAssumption

\* A pointer that is skipped covers nothing of the request.
LEMMA ReachSkip ==
  ASSUME NEW o \in Nat, NEW s \in Nat, NEW b \in Nat, NEW n \in Nat,
         ~(b <= (o + s) \div BLOCKSIZE /\ o \div BLOCKSIZE < b + n)
  PROVE  Reach(o, s, (b + n) * BLOCKSIZE) = Reach(o, s, b * BLOCKSIZE)
<1>0. BLOCKSIZE \in Nat \ {0} /\ o + s \in Nat
  BY SizesAssumption
<1>1. PICK x \in Nat, w \in Nat : x = b * BLOCKSIZE /\ w = n * BLOCKSIZE
  BY Positions
<1>2. (b + n) * BLOCKSIZE = x + w /\ x + w \in Nat /\ b + n \in Nat
  BY <1>1, Positions
<1>3. o + s < x \/ o >= x + w
  <2>1. CASE ~(b <= (o + s) \div BLOCKSIZE)
    <3>1. (o + s) \div BLOCKSIZE < b
      BY <1>0, <2>1, Division
    <3> QED BY <1>0, <1>1, <3>1, BlockBelow
  <2>2. CASE ~(o \div BLOCKSIZE < b + n)
    <3>1. ~(o < x + w)
      BY <1>0, <1>2, <2>2, BlockBelow
    <3> QED BY <1>2, <3>1
  <2> QED BY <2>1, <2>2
<1>4. PICK y \in Nat : y = x + w
  BY <1>2
<1>5. /\ Reach(o, s, x) = IF x <= o THEN 0 ELSE IF x - o <= s THEN x - o ELSE s
      /\ Reach(o, s, y) = IF y <= o THEN 0 ELSE IF y - o <= s THEN y - o ELSE s
  BY ReachType
<1>6. Reach(o, s, y) = Reach(o, s, x)
  BY <1>3, <1>4, <1>5
<1> QED BY <1>1, <1>2, <1>4, <1>6

\* Zeros for a pointer's whole coverage reach at least to its end, and no
\* further if they start at its beginning.
LEMMA ReachHole ==
  ASSUME NEW o \in Nat, NEW s \in Nat, NEW x \in Nat, NEW w \in Nat, NEW c \in Nat,
         Reach(o, s, x) <= c, c <= s
  PROVE  /\ Reach(o, s, x + w) <= c + Least(s - c, w)
         /\ c = Reach(o, s, x) /\ x >= o => c + Least(s - c, w) = Reach(o, s, x + w)
<1>1. x + w \in Nat
  OBVIOUS
<1>2. PICK y \in Nat : y = x + w
  BY <1>1
<1>3. Least(s - c, w) = IF s - c < w THEN s - c ELSE w
  BY DEF Least
<1>4. /\ Reach(o, s, x) = IF x <= o THEN 0 ELSE IF x - o <= s THEN x - o ELSE s
      /\ Reach(o, s, y) = IF y <= o THEN 0 ELSE IF y - o <= s THEN y - o ELSE s
  BY ReachType
<1>5. Reach(o, s, y) <= c + Least(s - c, w)
  BY <1>2, <1>3, <1>4
<1>6. c = Reach(o, s, x) /\ x >= o => c + Least(s - c, w) = Reach(o, s, y)
  BY <1>2, <1>3, <1>4
<1> QED BY <1>2, <1>5, <1>6

(***************************************************************************)
(* Blocks of a file and pointers: FirstOf(i) is the first block below      *)
(* pointer i of an inode, Place the block the walk has come to.            *)
(***************************************************************************)
FirstOf(i) ==
  IF i < NDIRECT THEN i
  ELSE IF i < NDIRECT + NINDRECT THEN NDIRECT + (i - NDIRECT) * Span(1)
  ELSE NDIRECT + NINDRECT * Span(1) + (i - NDIRECT - NINDRECT) * Span(2)

Place(s, d) ==
  FirstOf(s[0].i) + (IF d >= 1 THEN s[1].i * Span(get_ilevel(s[0].i) - 1) ELSE 0)
                  + (IF d = 2 THEN s[2].i ELSE 0)

LEMMA SmallMod == ASSUME NEW b \in Nat \ {0}, NEW a \in 0 .. b - 1 PROVE a % b = a
OBVIOUS

LEMMA Spans ==
  /\ Span(0) = 1 /\ Span(1) = BLOCKSIZE /\ Span(2) = BLOCKSIZE * BLOCKSIZE
  /\ Span(1) \in Nat \ {0} /\ Span(2) \in Nat \ {0}
  /\ Span(2) = Span(1) * Span(1)
BY SizesAssumption DEF Span, NPTRS_PER_BLOCK

LEMMA FirstNext ==
  ASSUME NEW i \in PtrIdx
  PROVE  /\ FirstOf(i) \in Nat /\ FirstOf(i + 1) = FirstOf(i) + Span(get_ilevel(i))
         /\ FirstOf(i + 1) <= MaxBlocks /\ MaxBlocks \in Nat
         /\ get_ilevel(i) = 0 <=> i < NDIRECT
<1>0. /\ i \in Nat /\ i < NDIRECT + NINDRECT + NDINDRECT
      /\ NDIRECT \in Nat /\ NINDRECT \in Nat /\ NDINDRECT \in Nat
  BY SizesAssumption DEF PtrIdx, NPTRS
<1>1. PICK B \in Nat \ {0}, S \in Nat \ {0} : B = Span(1) /\ S = Span(2)
  BY Spans
<1>2. PICK x \in Nat, y \in Nat : x = NINDRECT * B /\ y = NDINDRECT * S
  BY <1>0
<1>3. MaxBlocks = NDIRECT + x + y
  BY <1>1, <1>2 DEF MaxBlocks
<1>4. CASE i < NDIRECT
  <2>1. get_ilevel(i) = 0 /\ FirstOf(i) = i
    BY <1>4 DEF get_ilevel, FirstOf
  <2>2. FirstOf(i + 1) = i + 1
    <3>1. CASE i + 1 < NDIRECT
      BY <3>1 DEF FirstOf
    <3>2. CASE i + 1 = NDIRECT /\ 0 < NINDRECT
      <4>1. (i + 1 - NDIRECT) * Span(1) = 0
        BY <1>0, <1>1, <3>2
      <4> QED BY <1>0, <3>2, <4>1 DEF FirstOf
    <3>3. CASE i + 1 = NDIRECT /\ NINDRECT = 0
      <4>1. (i + 1 - NDIRECT - NINDRECT) * Span(2) = 0 /\ NINDRECT * Span(1) = 0
        BY <1>0, <1>1, <3>3
      <4> QED BY <1>0, <3>3, <4>1 DEF FirstOf
    <3> QED BY <1>0, <1>4, <3>1, <3>2, <3>3
  <2> QED BY <1>0, <1>2, <1>3, <1>4, <2>1, <2>2, Spans
<1>5. CASE i >= NDIRECT /\ i < NDIRECT + NINDRECT
  <2>1. PICK k \in Nat : k = i - NDIRECT /\ k + 1 <= NINDRECT
    BY <1>0, <1>5
  <2>2. PICK u \in Nat : u = k * B
    OBVIOUS
  <2>3. (k + 1) * B = u + B /\ (k + 1) * B <= x
    BY <1>0, <1>2, <2>1, <2>2
  <2>4. get_ilevel(i) = 1 /\ FirstOf(i) = NDIRECT + u
    BY <1>0, <1>1, <1>5, <2>1, <2>2 DEF get_ilevel, FirstOf
  <2>5. FirstOf(i + 1) = NDIRECT + u + B
    <3>1. CASE i + 1 < NDIRECT + NINDRECT
      <4>1. i + 1 - NDIRECT = k + 1 /\ ~(i + 1 < NDIRECT)
        BY <1>0, <1>5, <2>1
      <4> QED BY <1>0, <1>1, <2>3, <3>1, <4>1 DEF FirstOf
    <3>2. CASE i + 1 = NDIRECT + NINDRECT
      <4>1. (i + 1 - NDIRECT - NINDRECT) * Span(2) = 0 /\ NINDRECT = k + 1
        BY <1>0, <1>1, <2>1, <3>2
      <4>2. ~(i + 1 < NDIRECT) /\ ~(i + 1 < NDIRECT + NINDRECT)
        BY <1>0, <1>5, <3>2
      <4> QED BY <1>0, <1>1, <2>3, <3>2, <4>1, <4>2 DEF FirstOf
    <3> QED BY <1>0, <1>5, <3>1, <3>2
  <2> QED BY <1>0, <1>1, <1>2, <1>3, <1>5, <2>2, <2>3, <2>4, <2>5
<1>6. CASE i >= NDIRECT + NINDRECT
  <2>1. PICK k \in Nat : k = i - NDIRECT - NINDRECT /\ k + 1 <= NDINDRECT
    BY <1>0, <1>6
  <2>2. PICK u \in Nat : u = k * S
    OBVIOUS
  <2>3. (k + 1) * S = u + S /\ (k + 1) * S <= y
    BY <1>0, <1>2, <2>1, <2>2
  <2>4. get_ilevel(i) = 2 /\ FirstOf(i) = NDIRECT + x + u
    BY <1>0, <1>1, <1>2, <1>6, <2>1, <2>2 DEF get_ilevel, FirstOf
  <2>5. FirstOf(i + 1) = NDIRECT + x + u + S
    <3>1. i + 1 - NDIRECT - NINDRECT = k + 1 /\ ~(i + 1 < NDIRECT) /\ ~(i + 1 < NDIRECT + NINDRECT)
      BY <1>0, <1>6, <2>1
    <3> QED BY <1>0, <1>1, <1>2, <2>3, <3>1 DEF FirstOf
  <2> QED BY <1>0, <1>1, <1>2, <1>3, <1>6, <2>2, <2>3, <2>4, <2>5
<1> QED BY <1>0, <1>4, <1>5, <1>6

LEMMA FirstLast == FirstOf(NPTRS) = MaxBlocks /\ MaxBlocks \in Nat
<1>0. NDIRECT \in Nat /\ NINDRECT \in Nat /\ NDINDRECT \in Nat
  BY SizesAssumption
<1>1. PICK B \in Nat \ {0}, S \in Nat \ {0} : B = Span(1) /\ S = Span(2)
  BY Spans
<1>2. PICK x \in Nat, y \in Nat : x = NINDRECT * B /\ y = NDINDRECT * S
  BY <1>0
<1>3. MaxBlocks = NDIRECT + x + y
  BY <1>1, <1>2 DEF MaxBlocks
<1>4. NPTRS - NDIRECT - NINDRECT = NDINDRECT /\ ~(NPTRS < NDIRECT) /\ ~(NPTRS < NDIRECT + NINDRECT)
  BY <1>0 DEF NPTRS
<1>5. FirstOf(NPTRS) = NDIRECT + x + y
  BY <1>0, <1>1, <1>2, <1>4 DEF FirstOf
<1> QED BY <1>0, <1>3, <1>5

\* The path of a block, by the level of its pointer.
LEMMA PathOfDirect ==
  ASSUME NEW n \in Inum, NEW i \in PtrIdx, get_ilevel(i) = 0
  PROVE  BlockPath(n, FirstOf(i)) = <<n, i, None, None>>
BY SizesAssumption DEF BlockPath, FirstOf, get_ilevel, PtrIdx

LEMMA PathOfSingle ==
  ASSUME NEW n \in Inum, NEW i \in PtrIdx, get_ilevel(i) = 1, NEW c \in Cells
  PROVE  /\ FirstOf(i) + c \in Nat
         /\ BlockPath(n, FirstOf(i) + c) = <<n, i, c, None>>
<1>0. /\ i \in Nat /\ i >= NDIRECT /\ i < NDIRECT + NINDRECT
      /\ NDIRECT \in Nat /\ NINDRECT \in Nat
  BY SizesAssumption, FirstNext DEF PtrIdx, get_ilevel
<1>1. PICK B \in Nat \ {0} : B = Span(1) /\ c \in 0 .. B - 1
  BY Spans DEF Cells
<1>2. PICK k \in Nat : k = i - NDIRECT /\ k < NINDRECT /\ NDIRECT + k = i
  BY <1>0
<1>3. PICK u \in Nat : u = k * B
  OBVIOUS
<1>4. PICK f1 \in Nat : f1 = u + c
  BY <1>1
<1>5. FirstOf(i) + c = NDIRECT + f1
  BY <1>0, <1>1, <1>2, <1>3, <1>4 DEF FirstOf
<1>6. f1 \div B = k /\ f1 % B = c
  <2>1. k * B <= f1 /\ f1 < k * B + B /\ f1 - k * B = c
    BY <1>1, <1>3, <1>4
  <2> QED BY <2>1, InBlock
<1>7. f1 < NINDRECT * B
  BY <1>0, <1>2, <1>6, BlockBelow
<1>8. PICK f \in Nat : f = NDIRECT + f1
  BY <1>0
<1>9. f - NDIRECT = f1 /\ ~(f < NDIRECT)
  BY <1>0, <1>4, <1>8
<1>10. BlockPath(n, f) = <<n, NDIRECT + f1 \div B, f1 % B, None>>
  BY <1>1, <1>7, <1>9 DEF BlockPath
<1> QED BY <1>2, <1>5, <1>6, <1>8, <1>10

LEMMA PathOfDouble ==
  ASSUME NEW n \in Inum, NEW i \in PtrIdx, get_ilevel(i) = 2, NEW c \in Cells, NEW d \in Cells
  PROVE  /\ FirstOf(i) + c * Span(1) + d \in Nat
         /\ BlockPath(n, FirstOf(i) + c * Span(1) + d) = <<n, i, c, d>>
<1>0. /\ i \in Nat /\ i >= NDIRECT + NINDRECT /\ NDIRECT \in Nat /\ NINDRECT \in Nat
  BY SizesAssumption DEF PtrIdx, get_ilevel
<1>1. PICK B \in Nat \ {0}, S \in Nat \ {0} : B = Span(1) /\ S = Span(2) /\ S = B * B /\ c \in 0 .. B - 1 /\ d \in 0 .. B - 1
  BY Spans DEF Cells
<1>2. PICK k \in Nat : k = i - NDIRECT - NINDRECT /\ NDIRECT + NINDRECT + k = i
  BY <1>0
<1>3. PICK u \in Nat, v \in Nat, x \in Nat : u = k * S /\ v = c * B /\ x = NINDRECT * B
  BY <1>0, <1>1
<1>4. PICK f2 \in Nat : f2 = u + v + d
  BY <1>1
<1>5. FirstOf(i) + c * Span(1) + d = NDIRECT + x + f2
  BY <1>0, <1>1, <1>2, <1>3, <1>4 DEF FirstOf
<1>6. f2 \div S = k
  <2>1. v + B <= S
    <3>1. c + 1 <= B /\ (c + 1) * B = v + B
      BY <1>1, <1>3
    <3>2. (c + 1) * B <= B * B
      BY <1>1, <3>1
    <3> QED BY <1>1, <3>1, <3>2
  <2>2. k * S <= f2 /\ f2 < k * S + S
    BY <1>1, <1>3, <1>4, <2>1
  <2> QED BY <2>2, InBlock
<1>7. f2 \div B = k * B + c /\ f2 % B = d
  <2>1. PICK w \in Nat : w = k * B + c
    BY <1>1
  <2>2. w * B = u + v
    BY <1>1, <1>3, <2>1
  <2>3. w * B <= f2 /\ f2 < w * B + B /\ f2 - w * B = d
    BY <1>1, <1>4, <2>2
  <2> QED BY <2>1, <2>3, InBlock
<1>8. (f2 \div B) % B = c
  <2>1. c % B = c
    BY <1>1, SmallMod
  <2>2. (c + k * B) % B = c
    BY <1>1, <2>1, Shifted
  <2> QED BY <1>1, <1>7, <2>2
<1>9. PICK f \in Nat : f = NDIRECT + x + f2
  BY <1>0
<1>10. f - NDIRECT - x = f2 /\ ~(f < NDIRECT) /\ ~(f - NDIRECT < x)
  BY <1>0, <1>3, <1>4, <1>9
<1>11. BlockPath(n, f) = <<n, NDIRECT + NINDRECT + f2 \div S, (f2 \div B) % B, f2 % B>>
  BY <1>1, <1>3, <1>10 DEF BlockPath
<1> QED BY <1>2, <1>5, <1>6, <1>7, <1>8, <1>9, <1>11

\* The first block below a path, and the levels of pointers below it.
PosOf(q) ==
  FirstOf(q[2]) + (IF q[3] = None THEN 0 ELSE q[3] * Span(get_ilevel(q[2]) - 1))
                + (IF q[4] = None THEN 0 ELSE q[4])

Levels(q) == get_ilevel(q[2]) - (IF q[3] = None THEN 0 ELSE IF q[4] = None THEN 1 ELSE 2)

\* A number below a square is a pair.
LEMMA Pairs ==
  ASSUME NEW r \in 0 .. Span(2) - 1
  PROVE  \E c, d \in Cells : r = c * Span(1) + d
<1>1. PICK B \in Nat \ {0} : B = Span(1) /\ B * B = Span(2) /\ Cells = 0 .. B - 1
  BY Spans DEF Cells
<1>2. r \in Nat /\ r < B * B
  BY <1>1, Spans
<1>3. r \div B \in Nat /\ r % B \in 0 .. B - 1 /\ r = B * (r \div B) + (r % B)
  BY <1>1, <1>2, Division
<1>4. r \div B < B
  BY <1>1, <1>2, BlockBelow
<1>4a. r \div B \in Cells
  BY <1>1, <1>3, <1>4
<1>4b. r % B \in Cells
  BY <1>1, <1>3
<1>5. PICK c \in Cells, d \in Cells : c = r \div B /\ d = r % B
  BY <1>4a, <1>4b
<1>6. r = c * B + d
  BY <1>1, <1>3, <1>5
<1> QED BY <1>1, <1>6

\* Every block of a file is below one pointer of its inode.
LEMMA PointerOfBlock ==
  ASSUME NEW f \in 0 .. MaxBlocks - 1
  PROVE  \E i \in PtrIdx :
           \/ get_ilevel(i) = 0 /\ f = FirstOf(i)
           \/ get_ilevel(i) = 1 /\ \E c \in Cells : f = FirstOf(i) + c
           \/ get_ilevel(i) = 2 /\ \E c, d \in Cells : f = FirstOf(i) + c * Span(1) + d
<1>0. NDIRECT \in Nat /\ NINDRECT \in Nat /\ NDINDRECT \in Nat
  BY SizesAssumption
<1>1. PICK B \in Nat \ {0}, S \in Nat \ {0} : B = Span(1) /\ S = Span(2) /\ Cells = 0 .. B - 1
  BY Spans DEF Cells
<1>2. PICK x \in Nat, y \in Nat : x = NINDRECT * B /\ y = NDINDRECT * S
  BY <1>0
<1>3. MaxBlocks = NDIRECT + x + y /\ f \in Nat /\ f < NDIRECT + x + y
  <2>1. MaxBlocks = NDIRECT + x + y
    BY <1>0, <1>1, <1>2 DEF MaxBlocks
  <2> QED BY <1>0, <2>1, FirstLast
<1>4. CASE f < NDIRECT
  <2>1. f \in PtrIdx
    BY <1>0, <1>3, <1>4 DEF PtrIdx, NPTRS
  <2>2. get_ilevel(f) = 0 /\ f = FirstOf(f)
    BY <1>4 DEF get_ilevel, FirstOf
  <2> QED BY <2>1, <2>2
<1>5. CASE f >= NDIRECT /\ f < NDIRECT + x
  <2>1. PICK r \in Nat : r = f - NDIRECT /\ r < x
    BY <1>0, <1>3, <1>5
  <2>2. r \div B \in Nat /\ r % B \in 0 .. B - 1 /\ r = B * (r \div B) + (r % B)
    BY Division
  <2>3. r \div B < NINDRECT
    BY <1>0, <1>2, <2>1, BlockBelow
  <2>4. PICK k \in Nat, c \in 0 .. B - 1 : k = r \div B /\ c = r % B /\ r = k * B + c /\ k < NINDRECT
    BY <2>2, <2>3
  <2>5. PICK i \in Int : i = NDIRECT + k
    BY <1>0
  <2>5a. i \in PtrIdx
    BY <1>0, <2>4, <2>5 DEF PtrIdx, NPTRS
  <2>6. i - NDIRECT = k /\ ~(i < NDIRECT) /\ i < NDIRECT + NINDRECT
    BY <1>0, <2>4, <2>5
  <2>7. get_ilevel(i) = 1 /\ FirstOf(i) = NDIRECT + k * B
    BY <1>1, <2>6 DEF get_ilevel, FirstOf
  <2>8. f = NDIRECT + k * B + c
    BY <1>0, <1>3, <2>1, <2>4
  <2> QED BY <1>1, <2>4, <2>5a, <2>7, <2>8
<1>6. CASE f >= NDIRECT + x
  <2>1. PICK r \in Nat : r = f - NDIRECT - x /\ r < y
    BY <1>0, <1>3, <1>6
  <2>2. r \div S \in Nat /\ r % S \in 0 .. S - 1 /\ r = S * (r \div S) + (r % S)
    BY Division
  <2>3. r \div S < NDINDRECT
    BY <1>0, <1>2, <2>1, BlockBelow
  <2>4. PICK k \in Nat, e \in 0 .. S - 1 : k = r \div S /\ e = r % S /\ r = k * S + e /\ k < NDINDRECT
    BY <2>2, <2>3
  <2>5. PICK c \in Cells, d \in Cells : e = c * B + d
    BY <1>1, Pairs
  <2>6. PICK i \in PtrIdx : i = NDIRECT + NINDRECT + k
    BY <1>0, <2>4 DEF PtrIdx, NPTRS
  <2>7. i - NDIRECT - NINDRECT = k /\ ~(i < NDIRECT) /\ ~(i < NDIRECT + NINDRECT)
    BY <1>0, <2>4, <2>6
  <2>8. get_ilevel(i) = 2 /\ FirstOf(i) = NDIRECT + x + k * S
    BY <1>1, <1>2, <2>7 DEF get_ilevel, FirstOf
  <2>9. PICK u \in Nat, v \in Nat : u = k * S /\ v = c * B
    BY <1>1
  <2>10. r = u + e /\ e = v + d /\ d \in Nat /\ e \in Nat
    <3>1. r = u + e /\ e \in Nat
      BY <2>4, <2>9
    <3>2. e = v + d /\ d \in Nat
      BY <1>1, <2>5, <2>9
    <3> QED BY <3>1, <3>2
  <2>11. f = NDIRECT + x + r
    BY <1>0, <1>3, <2>1
  <2>12. f = NDIRECT + x + u + v + d
    BY <1>0, <2>10, <2>11
  <2> QED BY <1>1, <2>8, <2>9, <2>12
<1> QED BY <1>0, <1>2, <1>3, <1>4, <1>5, <1>6

\* The path of a block leads to it, and to no other.
LEMMA PathOfBlock ==
  ASSUME NEW n \in Inum, NEW f \in 0 .. MaxBlocks - 1
  PROVE  /\ BlockPath(n, f) \in Paths /\ IsLeaf(BlockPath(n, f))
         /\ BlockPath(n, f)[1] = n /\ PosOf(BlockPath(n, f)) = f
<1>1. PICK i \in PtrIdx :
           \/ get_ilevel(i) = 0 /\ f = FirstOf(i)
           \/ get_ilevel(i) = 1 /\ \E c \in Cells : f = FirstOf(i) + c
           \/ get_ilevel(i) = 2 /\ \E c, d \in Cells : f = FirstOf(i) + c * Span(1) + d
  BY PointerOfBlock
<1>2. FirstOf(i) \in Nat /\ None \notin Cells /\ Cells \subseteq Nat
  BY FirstNext DEF None, Cells
<1>3. CASE get_ilevel(i) = 0 /\ f = FirstOf(i)
  <2>1. BlockPath(n, f) = <<n, i, None, None>>
    BY <1>3, PathOfDirect
  <2> QED BY <1>2, <1>3, <2>1, PathTop DEF IsLeaf, PosOf
<1>4. CASE get_ilevel(i) = 1 /\ \E c \in Cells : f = FirstOf(i) + c
  <2>1. PICK c \in Cells : f = FirstOf(i) + c
    BY <1>4
  <2>2. BlockPath(n, f) = <<n, i, c, None>> /\ <<n, i, c, None>> \in Paths
    BY <1>4, <2>1, PathOfSingle, PathOne
  <2>3. c * Span(1 - 1) = c /\ c # None
    BY <1>2, Spans
  <2> QED BY <1>2, <1>4, <2>1, <2>2, <2>3 DEF IsLeaf, PosOf
<1>5. CASE get_ilevel(i) = 2 /\ \E c, d \in Cells : f = FirstOf(i) + c * Span(1) + d
  <2>1. PICK c \in Cells, d \in Cells : f = FirstOf(i) + c * Span(1) + d
    BY <1>5
  <2>2. BlockPath(n, f) = <<n, i, c, d>> /\ <<n, i, c, d>> \in Paths
    BY <1>5, <2>1, PathOfDouble, PathTwo
  <2>3. c # None /\ d # None /\ 2 - 1 = 1
    BY <1>2
  <2> QED BY <1>2, <1>5, <2>1, <2>2, <2>3 DEF IsLeaf, PosOf
<1> QED BY <1>1, <1>3, <1>4, <1>5

\* The blocks below a pointer: those of a null pointer are null.
LEMMA BlocksBelow ==
  ASSUME NEW q \in Paths, NEW k \in 0 .. Span(Levels(q)) - 1
  PROVE  /\ PosOf(q) \in Nat /\ Levels(q) \in 0 .. 2
         /\ \A t, b : PtrAt(t, b, q) = 0 => PtrAt(t, b, BlockPath(q[1], PosOf(q) + k)) = 0
         /\ Levels(q) = 0 => k = 0 /\ BlockPath(q[1], PosOf(q)) = q
<1> DEFINE n == q[1]
           i == q[2]
<1>1. n \in Inum /\ i \in PtrIdx /\ q = <<n, i, q[3], q[4]>> /\ get_ilevel(i) \in 0 .. 2
  BY PathShapes, LevelRange DEF PtrIdx
<1>2. FirstOf(i) \in Nat /\ None \notin Cells /\ Cells \subseteq Nat
  BY <1>1, FirstNext DEF None, Cells
<1>3. Span(1) \in Nat \ {0} /\ Span(2) \in Nat \ {0} /\ Span(0) = 1 /\ Cells = 0 .. Span(1) - 1
  BY Spans DEF Cells
<1>4. CASE q[3] = None
  <2>1. q[4] = None /\ PosOf(q) = FirstOf(i) /\ Levels(q) = get_ilevel(i)
    BY <1>1, <1>2, <1>4, PathShapes DEF PosOf, Levels
  <2>2. CASE get_ilevel(i) = 0
    <3>1. k = 0 /\ BlockPath(n, FirstOf(i)) = q
      BY <1>1, <1>3, <1>4, <2>1, <2>2, PathOfDirect
    <3> QED BY <1>2, <2>1, <2>2, <3>1
  <2>3. CASE get_ilevel(i) = 1
    <3>1. k \in Cells
      BY <1>3, <2>1, <2>3
    <3>2. BlockPath(n, FirstOf(i) + k) = <<n, i, k, None>>
      BY <1>1, <2>3, <3>1, PathOfSingle
    <3>3. \A t, b : PtrAt(t, b, q) = 0 => PtrAt(t, b, <<n, i, k, None>>) = 0
      BY <1>1, <1>2, <1>4, <3>1 DEF PtrAt, Below
    <3> QED BY <1>2, <2>1, <2>3, <3>2, <3>3
  <2>4. CASE get_ilevel(i) = 2
    <3>1. PICK c \in Cells, d \in Cells : k = c * Span(1) + d
      BY <2>1, <2>4, Pairs
    <3>2. BlockPath(n, FirstOf(i) + c * Span(1) + d) = <<n, i, c, d>>
      BY <1>1, <2>4, PathOfDouble
    <3>3. FirstOf(i) + c * Span(1) + d = FirstOf(i) + k
      BY <1>2, <1>3, <3>1
    <3>4. \A t, b : PtrAt(t, b, q) = 0 => PtrAt(t, b, <<n, i, c, d>>) = 0
      BY <1>1, <1>2, <1>4 DEF PtrAt, Below
    <3> QED BY <1>2, <2>1, <2>4, <3>2, <3>3, <3>4
  <2> QED BY <1>1, <2>2, <2>3, <2>4
<1>5. CASE q[3] \in Cells /\ q[4] = None /\ get_ilevel(i) >= 1
  <2> DEFINE c == q[3]
  <2>1. c # None /\ PosOf(q) = FirstOf(i) + c * Span(get_ilevel(i) - 1) /\ Levels(q) = get_ilevel(i) - 1
    <3>1. FirstOf(i) + c * Span(get_ilevel(i) - 1) + 0 = FirstOf(i) + c * Span(get_ilevel(i) - 1)
      BY <1>1, <1>2, <1>5, SpanNat
    <3> QED BY <1>2, <1>5, <3>1 DEF PosOf, Levels
  <2>2. CASE get_ilevel(i) = 1
    <3>1. k = 0 /\ PosOf(q) = FirstOf(i) + c /\ Levels(q) = 0
      BY <1>2, <1>3, <1>5, <2>1, <2>2
    <3>2. BlockPath(n, FirstOf(i) + c) = q
      BY <1>1, <1>5, <2>2, PathOfSingle
    <3>3. c \in Nat
      BY <1>2, <1>5
    <3> HIDE DEF c
    <3>4. PosOf(q) \in Nat /\ PosOf(q) + k = FirstOf(i) + c
      BY <1>2, <3>1, <3>3
    <3> QED BY <1>5, <3>1, <3>2, <3>4 DEF c
  <2>3. CASE get_ilevel(i) = 2
    <3>1. k \in Cells /\ PosOf(q) = FirstOf(i) + c * Span(1) /\ Levels(q) = 1
      BY <1>3, <2>1, <2>3
    <3>2. BlockPath(n, FirstOf(i) + c * Span(1) + k) = <<n, i, c, k>>
      BY <1>1, <1>5, <2>3, <3>1, PathOfDouble
    <3>3. \A t, b : PtrAt(t, b, q) = 0 => PtrAt(t, b, <<n, i, c, k>>) = 0
      BY <1>1, <1>2, <1>5, <3>1 DEF PtrAt, Below
    <3>4. FirstOf(i) + c * Span(1) \in Nat
      BY <1>2, <1>3, <1>5
    <3> QED BY <3>1, <3>2, <3>3, <3>4
  <2> QED BY <1>1, <1>5, <2>2, <2>3
<1>6. CASE q[3] \in Cells /\ q[4] \in Cells /\ get_ilevel(i) = 2
  <2>1. q[3] # None /\ q[4] # None /\ PosOf(q) = FirstOf(i) + q[3] * Span(1) + q[4] /\ Levels(q) = 0
    BY <1>2, <1>6 DEF PosOf, Levels
  <2>2. k = 0
    BY <1>3, <2>1
  <2>3. /\ FirstOf(i) + q[3] * Span(1) + q[4] \in Nat
        /\ BlockPath(n, FirstOf(i) + q[3] * Span(1) + q[4]) = q
    BY <1>1, <1>6, PathOfDouble
  <2> QED BY <2>1, <2>2, <2>3
<1> QED BY <1>1, <1>4, <1>5, <1>6, PathShapes

\* Where a call r is that has come to frame d of stack s with the counters a:
\* nothing before the block it visits is left out, and a write has stored
\* just what lies before.
At(r, s, d, a) ==
  /\ a.boff = Place(s, d)
  /\ \E k \in Nat : a.off = r.off + (a.sz - a.left) + k * BLOCKSIZE
  /\ Reach(r.off, a.sz, a.boff * BLOCKSIZE) <= a.sz - a.left
  /\ r.w => a.sz - a.left = Reach(r.off, a.sz, a.boff * BLOCKSIZE)

\* Only a write clears a block or runs out of them.
Walk ==
  /\ pc \in {"zero", "fail"} => req.w
  /\ pc \in {"rw", "zero"} => At(req, stk, depth, sa)
  /\ pc = "fail" => Usable \subseteq bitmap

\* The pointer being visited and its path.
LEMMA HerePlace ==
  ASSUME IInv, Running, Top.i < Limit
  PROVE  /\ HerePath \in Paths /\ HerePath[1] = req.inum
         /\ PosOf(HerePath) = Place(stk, depth) /\ Place(stk, depth) \in Nat
         /\ Levels(HerePath) = ilevel /\ ilevel \in 0 .. 2
         /\ PtrAt(MemInode, MemBlk, HerePath) = Here
<1>1. /\ HerePath \in Paths /\ PtrAt(MemInode, MemBlk, HerePath) = Here
      /\ HerePath[1] = req.inum /\ HerePath[2] = stk[0].i
      /\ HerePath[3] = (IF depth >= 1 THEN stk[1].i ELSE None)
      /\ HerePath[4] = (IF depth = 2 THEN stk[2].i ELSE None)
  BY VisitedPointer
<1>2. /\ stk[0].i \in Nat /\ stk[1].i \in Nat /\ stk[2].i \in Nat /\ depth \in 0 .. 2
      /\ stk[1].i # None /\ stk[2].i # None
  BY DEF IInv, TypeOK, Frame, None
<1>3. Levels(HerePath) = ilevel
  BY <1>1, <1>2, LevelRange DEF Levels, ilevel
<1>4. PosOf(HerePath) = Place(stk, depth)
  BY <1>1, <1>2 DEF PosOf, Place
<1>5. PosOf(HerePath) \in Nat /\ Levels(HerePath) \in 0 .. 2
  <2>1. Levels(HerePath) \in Int
    BY <1>1, <1>2, <1>3, LevelRange DEF ilevel
  <2>2. Span(Levels(HerePath)) \in Nat \ {0}
    BY <2>1, Spans DEF Span, NPTRS_PER_BLOCK
  <2>3. 0 \in 0 .. Span(Levels(HerePath)) - 1
    BY <2>2
  <2> QED BY <1>1, <2>3, BlocksBelow
<1> QED BY <1>1, <1>3, <1>4, <1>5

\* The loop goes on: the next block is behind the pointer's coverage.
LEMMA PlaceNext ==
  ASSUME IInv, Visiting, NextPtr
  PROVE  Place(stk', depth) = Place(stk, depth) + Span(ilevel)
<1>1. /\ depth \in 0 .. 2 /\ DOMAIN stk = 0 .. 2 /\ Top.i < Limit
      /\ stk[0] \in Frame(0) /\ stk[1] \in Frame(1) /\ stk[2] \in Frame(2)
  BY DEF IInv, TypeOK, Visiting
<1>2. stk[0].i \in Nat /\ stk[1].i \in Nat /\ stk[2].i \in Nat
  BY <1>1 DEF Frame
<1>3. stk[0].i \in PtrIdx
  BY <1>1, VisitedPointer DEF Running, Visiting
<1>4. /\ stk'[0].i = IF depth = 0 THEN stk[0].i + 1 ELSE stk[0].i
      /\ stk'[1].i = IF depth = 1 THEN stk[1].i + 1 ELSE stk[1].i
      /\ stk'[2].i = IF depth = 2 THEN stk[2].i + 1 ELSE stk[2].i
  BY <1>1 DEF NextPtr, Frame
<1>5. /\ FirstOf(stk[0].i) \in Nat /\ get_ilevel(stk[0].i) \in 0 .. 2
      /\ FirstOf(stk[0].i + 1) = FirstOf(stk[0].i) + Span(get_ilevel(stk[0].i))
  BY <1>2, <1>3, FirstNext, LevelRange
<1>6. CASE depth = 0
  <2>1. ilevel = get_ilevel(stk[0].i)
    BY <1>5, <1>6 DEF ilevel
  <2>2. Span(ilevel) \in Nat
    BY <1>5, <2>1, SpanNat
  <2> QED BY <1>4, <1>5, <1>6, <2>1, <2>2 DEF Place
<1>7. CASE depth = 1
  <2>1. ilevel = get_ilevel(stk[0].i) - 1 /\ ilevel \in Int
    BY <1>5, <1>7 DEF ilevel
  <2>2. PICK w \in Nat : w = Span(ilevel)
    BY <2>1, SpanNat
  <2>3. (stk[1].i + 1) * w = stk[1].i * w + w /\ stk[1].i * w \in Nat
    BY <1>2
  <2> QED BY <1>4, <1>5, <1>7, <2>1, <2>2, <2>3 DEF Place
<1>8. CASE depth = 2
  <2>1. get_ilevel(stk[0].i) = 2 /\ ilevel = 0 /\ Span(ilevel) = 1
    BY <1>5, <1>8, Spans DEF IInv, FramesOK, ilevel
  <2>2. Span(get_ilevel(stk[0].i) - 1) \in Nat
    BY <2>1, Spans
  <2>3. PICK x \in Nat : x = stk[1].i * Span(get_ilevel(stk[0].i) - 1)
    BY <1>2, <2>2
  <2> QED BY <1>2, <1>4, <1>5, <1>8, <2>1, <2>3 DEF Place
<1> QED BY <1>1, <1>6, <1>7, <1>8

\* A new frame starts with the first block of its pointer, a finished one ends
\* with the last.
LEMMA PlaceDown ==
  ASSUME IInv, Descend
  PROVE  Place(stk', depth') = Place(stk, depth)
<1>1. /\ depth \in 0 .. 2 /\ DOMAIN stk = 0 .. 2 /\ pc = "rw" /\ Top.i < Limit /\ ilevel > 0
      /\ depth' = depth + 1
      /\ stk' = [stk EXCEPT ![depth + 1] = [n |-> Here, p |-> blk[Here], i |-> 0]]
      /\ stk[0] \in Frame(0) /\ stk[1] \in Frame(1) /\ stk[2] \in Frame(2)
  BY DEF IInv, TypeOK, Visiting, Descend
<1>2. stk[0].i \in PtrIdx /\ stk[0].i \in Nat /\ stk[1].i \in Nat
  BY <1>1, VisitedPointer DEF Running, Frame
<1>3. get_ilevel(stk[0].i) \in 0 .. 2 /\ ilevel = get_ilevel(stk[0].i) - depth /\ FirstOf(stk[0].i) \in Nat
  BY <1>2, LevelRange, FirstNext DEF ilevel
<1>4. CASE depth = 0
  <2>1. stk'[0].i = stk[0].i /\ stk'[1].i = 0
    BY <1>1, <1>4
  <2>2. 0 * Span(get_ilevel(stk[0].i) - 1) = 0
    BY <1>3, SpanNat, SizesAssumption
  <2> QED BY <1>1, <1>3, <1>4, <2>1, <2>2 DEF Place
<1>5. CASE depth = 1
  <2>1. stk'[0].i = stk[0].i /\ stk'[1].i = stk[1].i /\ stk'[2].i = 0
    BY <1>1, <1>5
  <2>2. stk[1].i * Span(get_ilevel(stk[0].i) - 1) \in Nat
    BY <1>2, <1>3, SpanNat, SizesAssumption
  <2> QED BY <1>1, <1>3, <1>5, <2>1, <2>2 DEF Place
<1> QED BY <1>1, <1>3, <1>4, <1>5

LEMMA PlaceUp ==
  ASSUME IInv, WriteBack, pc = "rw"
  PROVE  Place(stk', depth') = Place(stk, depth)
<1>1. /\ depth \in 1 .. 2 /\ DOMAIN stk = 0 .. 2 /\ depth' = depth - 1
      /\ stk' = [stk EXCEPT ![depth] = NoFrame, ![depth - 1].i = stk[depth - 1].i + 1]
      /\ Top.i = Limit /\ Top = stk[depth]
      /\ stk[0] \in Frame(0) /\ stk[1] \in Frame(1) /\ stk[2] \in Frame(2)
  BY DEF IInv, TypeOK, WriteBack, Leaving, Top
<1>2. stk[0].i \in PtrIdx /\ stk[0].i \in Nat /\ stk[1].i \in Nat
  BY <1>1, FrameBlocks DEF Frame
<1>3. /\ get_ilevel(stk[0].i) \in 0 .. 2 /\ get_ilevel(stk[0].i) >= depth /\ FirstOf(stk[0].i) \in Nat
      /\ FirstOf(stk[0].i + 1) = FirstOf(stk[0].i) + Span(get_ilevel(stk[0].i))
  BY <1>1, <1>2, LevelRange, FirstNext DEF IInv, FramesOK
<1>4. CASE depth = 1
  <2>1. stk'[0].i = stk[0].i + 1 /\ stk[1].i = Span(1)
    BY <1>1, <1>4, Spans DEF Frame, Limit, NPTRS_PER_BLOCK
  <2>2. stk[1].i * Span(get_ilevel(stk[0].i) - 1) = Span(get_ilevel(stk[0].i))
    <3>1. CASE get_ilevel(stk[0].i) = 1
      BY <2>1, <3>1, Spans
    <3>2. CASE get_ilevel(stk[0].i) = 2
      BY <2>1, <3>2, Spans
    <3> QED BY <1>3, <1>4, <3>1, <3>2
  <2>3. Span(get_ilevel(stk[0].i)) \in Nat
    BY <1>3, SpanNat
  <2> QED BY <1>1, <1>3, <1>4, <2>1, <2>2, <2>3 DEF Place
<1>5. CASE depth = 2
  <2>1. stk'[0].i = stk[0].i /\ stk'[1].i = stk[1].i + 1 /\ stk[2].i = Span(1)
    BY <1>1, <1>5, Spans DEF Frame, Limit, NPTRS_PER_BLOCK
  <2>2. PICK w \in Nat : w = Span(1)
    BY Spans
  <2>3. Span(get_ilevel(stk[0].i) - 1) = w
    BY <1>3, <1>5, <2>2
  <2>4. PICK x \in Nat : x = stk[1].i * w
    BY <1>2
  <2>5. (stk[1].i + 1) * w = x + w
    BY <1>2, <2>4
  <2> QED BY <1>1, <1>3, <1>5, <2>1, <2>2, <2>3, <2>4, <2>5 DEF Place
<1> QED BY <1>1, <1>4, <1>5

\* The arguments and counters of a running call.
LEMMA CallTypes ==
  ASSUME IInv, Running
  PROVE  /\ req \in Requests /\ req.inum \in Inum
         /\ req.off \in Nat /\ req.sz \in Nat /\ req.w \in BOOLEAN
         /\ sa \in [boff : Nat, off : Nat, left : Nat, sz : Nat]
         /\ consumed \in Nat /\ consumed = sa.sz - sa.left /\ consumed <= sa.sz
         /\ sa.left = sa.sz - consumed
         /\ req.w => sa.sz = req.sz /\ req.buf \in Seq({0} \cup Data) /\ sa.sz = Len(req.buf)
<1>1. req \in Requests /\ req.inum \in Inum /\ (req.w => sa.sz = Len(req.buf))
  BY DEF IInv, CallOK
<1>2. sa \in [boff : Nat, off : Nat, left : Nat, sz : Nat] /\ sa.left <= sa.sz
  BY DEF IInv, TypeOK
<1>3. /\ consumed \in Nat /\ consumed = sa.sz - sa.left /\ consumed <= sa.sz
      /\ sa.left = sa.sz - consumed
  BY <1>2 DEF consumed
<1> QED BY <1>1, <1>2, <1>3, RequestTypes

\* The next byte's place in its block.
LEMMA StartPlace ==
  ASSUME IInv, Running, At(req, stk, depth, sa)
  PROVE  start = (req.off + consumed) % BLOCKSIZE
<1>1. PICK k \in Nat : sa.off = req.off + consumed + k * BLOCKSIZE
  BY DEF At, consumed
<1>2. PICK a \in Nat : a = req.off + consumed
  BY CallTypes
<1>3. sa.off = a + k * BLOCKSIZE
  BY <1>1, <1>2
<1>4. (a + k * BLOCKSIZE) % BLOCKSIZE = a % BLOCKSIZE
  BY Shifted, SizesAssumption
<1> QED BY <1>2, <1>3, <1>4 DEF start

\* The loop goes on with the counters a.
LEMMA NextAt ==
  ASSUME IInv, Visiting, NextPtr, At(req, stk, depth, sa),
         NEW c \in Nat, NEW x \in Nat, c <= sa.sz,
         sa' = [sa EXCEPT !.boff = eblock, !.left = sa.sz - c, !.off = @ + x],
         \E k \in Nat : x = c - consumed + k * BLOCKSIZE,
         Reach(req.off, sa.sz, eblock * BLOCKSIZE) <= c,
         req.w => c = Reach(req.off, sa.sz, eblock * BLOCKSIZE)
  PROVE  At(req, stk', depth, sa') /\ sa'.sz = sa.sz /\ sa'.sz - sa'.left = c
<1>1. Running
  BY DEF Visiting, Running
<1>2. PICK k \in Nat : sa.off = req.off + consumed + k * BLOCKSIZE
  BY DEF At, consumed
<1>3. PICK j \in Nat : x = c - consumed + j * BLOCKSIZE
  OBVIOUS
<1>4. PICK u \in Nat, v \in Nat : u = k * BLOCKSIZE /\ v = j * BLOCKSIZE
  BY SizesAssumption
<1>5. (k + j) * BLOCKSIZE = u + v /\ k + j \in Nat
  BY <1>4, SizesAssumption
<1>6. /\ sa'.boff = eblock /\ sa'.sz = sa.sz /\ sa'.left = sa.sz - c /\ sa'.off = sa.off + x
  BY <1>1, CallTypes
<1>7. sa'.sz - sa'.left = c
  BY <1>1, <1>6, CallTypes
<1>8. sa'.off = req.off + c + (k + j) * BLOCKSIZE
  <2>1. PICK o \in Nat, d \in Nat, p \in Nat : o = req.off /\ d = consumed /\ p = sa.off
    BY <1>1, CallTypes
  <2>2. p = o + d + u /\ x = c - d + v /\ sa'.off = p + x
    BY <1>2, <1>3, <1>4, <1>6, <2>1
  <2>3. sa'.off = o + c + (u + v)
    BY <2>1, <2>2
  <2> QED BY <1>5, <2>1, <2>3
<1>9. Place(stk', depth) = eblock
  BY PlaceNext DEF At, eblock
<1> QED BY <1>5, <1>6, <1>7, <1>8, <1>9 DEF At

\* The same for a pointer that is visited.
LEMMA VisitTypes ==
  ASSUME IInv, Visiting, At(req, stk, depth, sa)
  PROVE  /\ Running /\ sa.boff \in Nat /\ ilevel \in 0 .. 2
         /\ Span(ilevel) \in Nat \ {0} /\ eblock = sa.boff + Span(ilevel)
         /\ eblock \in Nat /\ sa.boff * BLOCKSIZE \in Nat /\ Span(ilevel) * BLOCKSIZE \in Nat
         /\ eblock * BLOCKSIZE = sa.boff * BLOCKSIZE + Span(ilevel) * BLOCKSIZE
         /\ Reach(req.off, sa.sz, sa.boff * BLOCKSIZE) <= consumed
         /\ req.w => consumed = Reach(req.off, sa.sz, sa.boff * BLOCKSIZE)
<1>1. Running
  BY DEF Visiting, Running
<1>2. sa.boff \in Nat
  BY <1>1, CallTypes
<1>3. ilevel \in 0 .. 2
  BY <1>1, HerePlace DEF Visiting
<1>4. Span(ilevel) \in Nat \ {0}
  BY <1>3, Spans DEF Span, NPTRS_PER_BLOCK
<1>5. eblock = sa.boff + Span(ilevel)
  BY DEF eblock
<1>6. /\ eblock \in Nat /\ sa.boff * BLOCKSIZE \in Nat /\ Span(ilevel) * BLOCKSIZE \in Nat
      /\ eblock * BLOCKSIZE = sa.boff * BLOCKSIZE + Span(ilevel) * BLOCKSIZE
  BY <1>2, <1>4, <1>5, Positions
<1>7. /\ Reach(req.off, sa.sz, sa.boff * BLOCKSIZE) <= consumed
      /\ req.w => consumed = Reach(req.off, sa.sz, sa.boff * BLOCKSIZE)
  BY DEF At, consumed
<1> QED BY <1>1, <1>2, <1>3, <1>4, <1>5, <1>6, <1>7

\* The pointers that are passed leave the walk where it belongs.
LEMMA SkipAt ==
  ASSUME IInv, Skip, At(req, stk, depth, sa)
  PROVE  At(req, stk', depth, sa') /\ sa'.sz = sa.sz /\ sa'.sz - sa'.left = consumed
<1>1. Visiting /\ ~Overlaps /\ NextPtr /\ sa' = [sa EXCEPT !.boff = eblock, !.off = @ + Span(ilevel) * BLOCKSIZE]
  BY DEF Skip
<1>2. PICK x \in Nat : x = Span(ilevel) * BLOCKSIZE
  BY <1>1, VisitTypes
<1>3. sa' = [sa EXCEPT !.boff = eblock, !.left = sa.sz - consumed, !.off = @ + x]
  BY <1>1, <1>2, VisitTypes, CallTypes
<1>4. Reach(req.off, sa.sz, eblock * BLOCKSIZE) = Reach(req.off, sa.sz, sa.boff * BLOCKSIZE)
  <2>1. ~(sa.boff <= (req.off + sa.sz) \div BLOCKSIZE /\ req.off \div BLOCKSIZE < sa.boff + Span(ilevel))
    BY <1>1 DEF Overlaps, eblockOf, sblockOf, eblock
  <2>2. req.off \in Nat /\ sa.sz \in Nat /\ sa.boff \in Nat /\ Span(ilevel) \in Nat
    BY <1>1, VisitTypes, CallTypes
  <2> QED BY <2>1, <2>2, ReachSkip DEF eblock
<1>5. x = consumed - consumed + Span(ilevel) * BLOCKSIZE
  BY <1>1, <1>2, VisitTypes, CallTypes
<1> QED BY <1>1, <1>3, <1>4, <1>5, VisitTypes, CallTypes, NextAt

LEMMA HoleAt ==
  ASSUME IInv, Hole, At(req, stk, depth, sa)
  PROVE  /\ At(req, stk', depth, sa') /\ sa'.sz = sa.sz /\ sa'.sz - sa'.left = consumed + HoleSize
         /\ HoleSize \in Nat /\ consumed + HoleSize <= sa.sz
<1>1. /\ Visiting /\ NextPtr /\ ~req.w
      /\ sa' = [sa EXCEPT !.boff = eblock, !.left = @ - HoleSize, !.off = @ + HoleSize]
  BY DEF Hole
<1>2. PICK w \in Nat : w = Span(ilevel) * BLOCKSIZE
  BY <1>1, VisitTypes
<1>3. HoleSize = Least(sa.sz - consumed, w)
  BY <1>1, <1>2, VisitTypes, CallTypes DEF HoleSize
<1>3a. PICK d \in Nat, z \in Nat : d = consumed /\ z = sa.sz /\ d <= z /\ sa.left = z - d
  BY <1>1, VisitTypes, CallTypes
<1>4. HoleSize \in Nat /\ consumed + HoleSize <= sa.sz /\ sa.sz - (consumed + HoleSize) = sa.left - HoleSize
  BY <1>2, <1>3, <1>3a DEF Least
<1>5. sa' = [sa EXCEPT !.boff = eblock, !.left = sa.sz - (consumed + HoleSize), !.off = @ + HoleSize]
  BY <1>1, <1>4, VisitTypes, CallTypes
<1>6. Reach(req.off, sa.sz, eblock * BLOCKSIZE) <= consumed + HoleSize
  <2>1. PICK x \in Nat, o \in Nat : x = sa.boff * BLOCKSIZE /\ o = req.off
    BY <1>1, VisitTypes, CallTypes
  <2>2. Reach(o, z, x) <= d
    BY <1>1, <1>3a, <2>1, VisitTypes
  <2>3. Reach(o, z, x + w) <= d + Least(z - d, w)
    BY <1>3a, <2>2, ReachHole
  <2> QED BY <1>1, <1>2, <1>3, <1>3a, <2>1, <2>3, VisitTypes
<1>7. PICK c \in Nat : c = consumed + HoleSize
  BY <1>3a, <1>4
<1>8. HoleSize = c - consumed + 0 * BLOCKSIZE
  <2>1. 0 * BLOCKSIZE = 0
    BY SizesAssumption
  <2>2. HoleSize = c - d + 0
    BY <1>3a, <1>4, <1>7
  <2> QED BY <1>3a, <2>1, <2>2
<1> QED BY <1>1, <1>4, <1>5, <1>6, <1>7, <1>8, NextAt

\* The bytes that are read or written in a data block.
Taken == Least(sa.left, BLOCKSIZE - start)

LEMMA TakenBytes ==
  ASSUME IInv, Visiting, Overlaps, ilevel = 0, At(req, stk, depth, sa)
  PROVE  /\ start \in Cells /\ Taken \in Nat /\ consumed + Taken <= sa.sz /\ start + Taken <= BLOCKSIZE
         /\ Reach(req.off, sa.sz, eblock * BLOCKSIZE) <= consumed + Taken
         /\ consumed = Reach(req.off, sa.sz, sa.boff * BLOCKSIZE) =>
              consumed + Taken = Reach(req.off, sa.sz, eblock * BLOCKSIZE)
         /\ consumed = Reach(req.off, sa.sz, sa.boff * BLOCKSIZE) /\ Taken > 0 =>
              sa.boff * BLOCKSIZE + start = req.off + consumed
         /\ Taken > 0 => sa.boff * BLOCKSIZE <= req.off + consumed
         /\ req.off < sa.boff * BLOCKSIZE + BLOCKSIZE
<1>0. /\ BLOCKSIZE \in Nat \ {0} /\ req.off \in Nat /\ consumed \in Nat /\ sa.sz \in Nat
      /\ sa.boff \in Nat /\ consumed <= sa.sz /\ sa.left = sa.sz - consumed
  BY VisitTypes, CallTypes, SizesAssumption
<1>1. PICK x \in Nat : x = sa.boff * BLOCKSIZE
  BY VisitTypes
<1>2. eblock * BLOCKSIZE = x + BLOCKSIZE /\ eblock = sa.boff + 1
  BY <1>0, <1>1, VisitTypes, Spans
<1>3. req.off < x + BLOCKSIZE
  <2>1. req.off \div BLOCKSIZE < eblock /\ eblock \in Nat
    BY VisitTypes DEF Overlaps, sblockOf
  <2> QED BY <1>0, <1>2, <2>1, BlockBelow
<1>4. start = (req.off + consumed) % BLOCKSIZE
  BY VisitTypes, StartPlace
<1>3a. PICK d \in Nat, o \in Nat, zz \in Nat :
         d = consumed /\ o = req.off /\ zz = sa.sz /\ d <= zz /\ sa.left = zz - d
  BY <1>0
<1>4a. PICK a \in Nat : a = o + d
  OBVIOUS
<1>5. PICK st \in 0 .. BLOCKSIZE - 1 : st = start /\ st = a % BLOCKSIZE
  BY <1>3a, <1>4, <1>4a, ModRange
<1>6. x <= req.off + consumed /\ req.off + consumed < x + BLOCKSIZE => st = req.off + consumed - x
  <2>1. x <= a /\ a < x + BLOCKSIZE => a % BLOCKSIZE = a - x
    BY <1>0, <1>1, InBlock
  <2> QED BY <1>3a, <1>4a, <1>5, <2>1
<1>7. PICK z \in Nat : z = Taken /\ z = Least(sa.sz - consumed, BLOCKSIZE - st)
  BY <1>0, <1>5 DEF Taken, Least
<1>8. Reach(req.off, sa.sz, x) <= consumed
  BY <1>1, VisitTypes
<1>9. /\ consumed + z <= sa.sz /\ st + z <= BLOCKSIZE
      /\ Reach(req.off, sa.sz, x + BLOCKSIZE) <= consumed + z
      /\ consumed = Reach(req.off, sa.sz, x) => consumed + z = Reach(req.off, sa.sz, x + BLOCKSIZE)
      /\ consumed = Reach(req.off, sa.sz, x) /\ z > 0 => x + st = req.off + consumed
      /\ z > 0 => x <= req.off + consumed
  <2>0. PICK B \in Nat \ {0} : B = BLOCKSIZE
    BY <1>0
  <2>1. /\ Reach(o, zz, x) <= d /\ o < x + B /\ st \in 0 .. B - 1
        /\ x <= o + d /\ o + d < x + B => st = o + d - x
        /\ z = Least(zz - d, B - st)
    BY <2>0, <1>3, <1>3a, <1>5, <1>6, <1>7, <1>8
  <2>1a. z = IF zz - d < B - st THEN zz - d ELSE B - st
    BY <2>1 DEF Least
  <2>1b. PICK y \in Nat : y = x + B
    OBVIOUS
  <2>1c. /\ Reach(o, zz, x) = IF x <= o THEN 0 ELSE IF x - o <= zz THEN x - o ELSE zz
         /\ Reach(o, zz, y) = IF y <= o THEN 0 ELSE IF y - o <= zz THEN y - o ELSE zz
    BY ReachType
  <2>1d. d + z <= zz /\ st + z <= B
    BY <1>3a, <2>1, <2>1a
  <2>1e. Reach(o, zz, y) <= d + z
    BY <1>3a, <2>1, <2>1a, <2>1b, <2>1c
  <2>1f. d = Reach(o, zz, x) => d + z = Reach(o, zz, y)
    BY <1>3a, <2>1, <2>1a, <2>1b, <2>1c
  <2>1g. d = Reach(o, zz, x) /\ z > 0 => x + st = o + d
    BY <1>3a, <2>1, <2>1a, <2>1b, <2>1c
  <2>1h. z > 0 => x <= o + d
    BY <1>3a, <2>1, <2>1a, <2>1b, <2>1c
  <2>2. /\ d + z <= zz /\ st + z <= BLOCKSIZE
        /\ Reach(o, zz, x + BLOCKSIZE) <= d + z
        /\ d = Reach(o, zz, x) => d + z = Reach(o, zz, x + BLOCKSIZE)
        /\ d = Reach(o, zz, x) /\ z > 0 => x + st = o + d
        /\ z > 0 => x <= o + d
    BY <2>0, <2>1b, <2>1d, <2>1e, <2>1f, <2>1g, <2>1h
  <2> QED BY <1>3a, <2>2
<1> QED BY <1>0, <1>1, <1>2, <1>3, <1>5, <1>7, <1>9 DEF Cells

LEMMA DataBlockAt ==
  ASSUME IInv, DataBlock, At(req, stk, depth, sa)
  PROVE  At(req, stk', depth, sa') /\ sa'.sz = sa.sz /\ sa'.sz - sa'.left = consumed + Taken
<1>1. /\ Visiting /\ NextPtr /\ Overlaps /\ ilevel = 0
      /\ sa' = [sa EXCEPT !.boff = eblock, !.left = @ - Taken, !.off = @ + Taken]
  BY DEF DataBlock, Taken
<1>2. /\ Taken \in Nat /\ consumed + Taken <= sa.sz
      /\ Reach(req.off, sa.sz, eblock * BLOCKSIZE) <= consumed + Taken
      /\ req.w => consumed + Taken = Reach(req.off, sa.sz, eblock * BLOCKSIZE)
  BY <1>1, TakenBytes, VisitTypes
<1>3. PICK c \in Nat : c = consumed + Taken
  <2>1. consumed \in Nat
    BY <1>1, VisitTypes, CallTypes
  <2>2. consumed + Taken \in Nat
    BY <1>2, <2>1
  <2> QED BY <2>2
<1>4. sa' = [sa EXCEPT !.boff = eblock, !.left = sa.sz - c, !.off = @ + Taken]
  <2>1. sa.sz - c = sa.left - Taken
    BY <1>1, <1>2, <1>3, VisitTypes, CallTypes
  <2> QED BY <1>1, <2>1, VisitTypes, CallTypes
<1>5. Taken = c - consumed + 0 * BLOCKSIZE
  <2>1. 0 * BLOCKSIZE = 0
    BY SizesAssumption
  <2>2. PICK d \in Nat : d = consumed
    BY <1>1, VisitTypes, CallTypes
  <2>3. Taken = c - d + 0
    BY <1>2, <1>3, <2>2
  <2> QED BY <2>1, <2>2, <2>3
<1> QED BY <1>1, <1>2, <1>3, <1>4, <1>5, NextAt

\* A step that leaves the frames' indices alone comes to the same place.
LEMMA SamePlace ==
  ASSUME NEW s, NEW u, NEW d, s[0].i = u[0].i, s[1].i = u[1].i, s[2].i = u[2].i
  PROVE  Place(s, d) = Place(u, d)
BY DEF Place

\* Every step keeps the walk where it belongs.
LEMMA WalkInit == Init => Walk
BY DEF Init, Walk

LEMMA WalkStep == IInv /\ Walk /\ [Next]_vars => Walk'
<1> SUFFICES ASSUME IInv, Walk, [Next]_vars PROVE Walk'
  OBVIOUS
<1>0. depth \in 0 .. 2 /\ (Running => req.w \in BOOLEAN)
  BY CallTypes DEF IInv, TypeOK
<1>1. ASSUME NEW r \in Requests, Begin(r) PROVE Walk'
  <2>1. /\ pc' = "rw" /\ req' = r /\ depth' = depth /\ depth = 0
        /\ stk' = [stk EXCEPT ![0] = [n |-> 0, p |-> inode[r.inum].ptrs, i |-> 0]]
        /\ sa' = [boff |-> 0, off |-> r.off, left |-> Clamped(r), sz |-> Clamped(r)]
        /\ r.inum \in Inum /\ (r.w \/ r.off < inode[r.inum].size)
    BY <1>1 DEF Begin, Request, IInv, FramesOK, Running
  <2>2. r.off \in Nat /\ Clamped(r) \in Nat
    <3>1. inode[r.inum].size \in Nat
      BY <2>1 DEF IInv, TypeOK
    <3> QED BY <2>1, <3>1, RequestTypes DEF Clamped
  <2>3. Place(stk', depth') = 0
    <3>1. stk'[0].i = 0 /\ depth' = 0
      BY <2>1 DEF IInv, TypeOK
    <3>2. FirstOf(0) = 0
      <4>1. CASE 0 < NDIRECT
        BY <4>1 DEF FirstOf
      <4>2. CASE NDIRECT = 0 /\ 0 < NINDRECT
        <5>1. 0 * Span(1) = 0
          BY Spans
        <5> QED BY <4>2, <5>1, SizesAssumption DEF FirstOf
      <4>3. CASE NDIRECT = 0 /\ NINDRECT = 0
        <5>1. 0 * Span(1) = 0 /\ 0 * Span(2) = 0
          BY Spans
        <5> QED BY <4>3, <5>1, SizesAssumption DEF FirstOf
      <4> QED BY <4>1, <4>2, <4>3, SizesAssumption
    <3> QED BY <3>1, <3>2 DEF Place
  <2>4. 0 * BLOCKSIZE = 0
    BY SizesAssumption
  <2>5. /\ sa'.boff = 0 /\ sa'.off = r.off /\ sa'.sz - sa'.left = 0 /\ sa'.sz = Clamped(r)
    BY <2>1, <2>2
  <2>6. sa'.off = req'.off + (sa'.sz - sa'.left) + 0 * BLOCKSIZE
    BY <2>1, <2>2, <2>4, <2>5
  <2>7. Reach(r.off, Clamped(r), 0) = 0
    BY <2>2, ReachType
  <2>8. At(req', stk', depth', sa')
    BY <2>1, <2>3, <2>4, <2>5, <2>6, <2>7 DEF At
  <2> QED BY <2>1, <2>8 DEF Walk
<1>2. ASSUME NEW r \in Requests, Refuse(r) PROVE Walk'
  BY <1>2 DEF Refuse, Request, Walk
<1>3. CASE Skip
  <2>1. pc' = "rw" /\ pc = "rw" /\ depth' = depth /\ req' = req
    BY <1>3 DEF Skip, Visiting
  <2> QED BY <1>3, <2>1, SkipAt DEF Walk
<1>4. CASE Alloc
  <2>1. PICK i \in Usable : SetHere(sdata + i)
    BY <1>4 DEF Alloc
  <2>2. /\ pc = "rw" /\ pc' \in {"rw", "zero"} /\ req.w /\ depth' = depth /\ sa' = sa /\ req' = req
    BY <1>4 DEF Alloc, Visiting
  <2>3. sdata + i \in Ptr
    BY <2>1, UsableBits DEF Ptr
  <2>4. stk'[0].i = stk[0].i /\ stk'[1].i = stk[1].i /\ stk'[2].i = stk[2].i
    BY <2>1, <2>3, SetPointer DEF IInv
  <2>5. Place(stk', depth) = Place(stk, depth)
    BY <2>4, SamePlace
  <2> QED BY <2>2, <2>5 DEF Walk, At
<1>5. CASE ZeroIndirect
  BY <1>5 DEF ZeroIndirect, Walk, At
<1>6. CASE OutOfBlocks
  BY <1>6 DEF OutOfBlocks, Walk, disk
<1>7. CASE Hole
  <2>1. pc' = "rw" /\ pc = "rw" /\ depth' = depth /\ req' = req
    BY <1>7 DEF Hole, Visiting
  <2> QED BY <1>7, <2>1, HoleAt DEF Walk
<1>8. CASE Descend
  <2>1. pc' = "rw" /\ pc = "rw" /\ req' = req /\ sa' = sa
    BY <1>8 DEF Descend, Visiting
  <2>2. Place(stk', depth') = Place(stk, depth)
    BY <1>8, PlaceDown
  <2> QED BY <2>1, <2>2 DEF Walk, At
<1>9. CASE DataBlock
  <2>1. pc' = "rw" /\ pc = "rw" /\ depth' = depth /\ req' = req
    BY <1>9 DEF DataBlock, Visiting
  <2> QED BY <1>9, <2>1, DataBlockAt DEF Walk
<1>10. CASE WriteBack
  <2>1. pc' = pc /\ pc \in {"rw", "fail"} /\ req' = req /\ sa' = sa /\ bitmap' = bitmap
    BY <1>10 DEF WriteBack, Leaving
  <2>2. CASE pc = "rw"
    <3>1. Place(stk', depth') = Place(stk, depth)
      BY <1>10, <2>2, PlaceUp
    <3> QED BY <2>1, <2>2, <3>1 DEF Walk, At
  <2>3. CASE pc = "fail"
    BY <2>1, <2>3 DEF Walk
  <2> QED BY <2>1, <2>2, <2>3
<1>11. CASE Finish
  BY <1>11 DEF Finish, Walk
<1>12. CASE Crash
  BY <1>12 DEF Crash, Walk
<1>13. CASE UNCHANGED vars
  BY <1>13 DEF vars, Walk, At, Place
<1> QED
  BY <1>1, <1>2, <1>3, <1>4, <1>5, <1>6, <1>7, <1>8, <1>9, <1>10, <1>11, <1>12, <1>13
  DEF Next, recursive_rw

\* Where a call ends that has not failed: all of the request that lies inside
\* the largest file is behind it.
LEMMA EndOfWalk ==
  ASSUME IInv, Walk, Running, depth = 0, pc = "rw", Top.i = Limit
  PROVE  /\ sa.boff * BLOCKSIZE = MaxSize /\ MaxSize \in Nat
         /\ Reach(req.off, sa.sz, MaxSize) <= consumed
         /\ req.w => consumed = Reach(req.off, sa.sz, MaxSize)
<1>1. stk[0].i = NPTRS
  BY DEF Top, Limit
<1>2. Place(stk, 0) = MaxBlocks
  <2>1. MaxBlocks \in Nat /\ FirstOf(NPTRS) = MaxBlocks
    BY FirstLast
  <2> QED BY <1>1, <2>1 DEF Place
<1>3. At(req, stk, depth, sa)
  BY DEF Walk
<1>4. sa.boff * BLOCKSIZE = MaxSize /\ MaxSize \in Nat
  BY <1>2, <1>3, FirstLast, SizesAssumption DEF At, MaxSize
<1> QED BY <1>3, <1>4 DEF At, consumed

\* fs_write() returns less than it was asked to write only when the bitmap has
\* no bit left or the file would outgrow its pointers: no pointer is passed
\* over and no failure is invented.
LEMMA ShortStep == IInv /\ Walk /\ ShortWriteMeansNoRoom /\ [Next]_vars => ShortWriteMeansNoRoom'
<1> SUFFICES ASSUME IInv, Walk, ShortWriteMeansNoRoom, [Next]_vars,
                    pc' = "idle", req'.w, 0 <= ret', ret' < req'.sz
             PROVE  (Usable \subseteq bitmap)' \/ (req.off + req.sz > MaxSize)'
  BY DEF ShortWriteMeansNoRoom
<1>1. ASSUME NEW r \in Requests, Begin(r) PROVE FALSE
  BY <1>1 DEF Begin
<1>2. ASSUME NEW r \in Requests, Refuse(r) PROVE FALSE
  BY <1>2 DEF Refuse, Request
<1>3. CASE recursive_rw
  BY <1>3 DEF recursive_rw, Skip, Alloc, ZeroIndirect, OutOfBlocks, Hole, Descend, DataBlock,
              WriteBack, Visiting, Leaving
<1>4. CASE Finish
  <2>1. /\ depth = 0 /\ (pc = "fail" \/ (pc = "rw" /\ Top.i = Limit)) /\ Running
        /\ ret' = consumed /\ req' = req /\ bitmap' = bitmap
    BY <1>4 DEF Finish, Leaving, Running
  <2>2. CASE pc = "fail"
    BY <2>1, <2>2 DEF Walk
  <2>3. CASE pc = "rw" /\ Top.i = Limit
    <3>1. consumed = Reach(req.off, sa.sz, MaxSize) /\ MaxSize \in Nat
      BY <2>1, <2>3, EndOfWalk
    <3>2. req.off \in Nat /\ req.sz \in Nat /\ sa.sz = req.sz
      BY <2>1, CallTypes
    <3>3. PICK o \in Nat, z \in Nat, x \in Nat : o = req.off /\ z = req.sz /\ x = MaxSize
      BY <3>1, <3>2
    <3>4. Reach(o, z, x) = IF x <= o THEN 0 ELSE IF x - o <= z THEN x - o ELSE z
      BY ReachType
    <3>5. Reach(o, z, x) < z
      BY <2>1, <3>1, <3>2, <3>3
    <3>6. o + z > x
      BY <3>4, <3>5
    <3> QED BY <2>1, <3>3, <3>6 DEF MaxSize
  <2> QED BY <2>1, <2>2, <2>3
<1>5. CASE Crash
  BY <1>5 DEF Crash, NoReq
<1>6. CASE UNCHANGED vars
  BY <1>6 DEF vars, ShortWriteMeansNoRoom
<1> QED BY <1>1, <1>2, <1>3, <1>4, <1>5, <1>6 DEF Next

\* fs_write() comes short only when no bit of the bitmap is left or the file
\* would outgrow its pointers: no byte of the buffer is passed over.
THEOREM ShortMeansFull == Spec => []ShortWriteMeansNoRoom
<1>1. Init => ShortWriteMeansNoRoom
  BY DEF Init, NoReq, ShortWriteMeansNoRoom
<1> QED BY <1>1, WalkInit, WalkStep, ShortStep, Inductive, PTL DEF Spec

-----------------------------------------------------------------------------
(***************************************************************************)
(* What a read puts into the caller's buffer.                              *)
(***************************************************************************)

\* The frames of a read are copies of the disk.
ReadFrames ==
  Running /\ ~req.w => /\ pc = "rw"
                       /\ depth # 0 => stk[1].p = blk[stk[1].n]
                       /\ depth = 2 => stk[2].p = blk[stk[2].n]

\* So are its trees.
LEMMA ReadTree ==
  ASSUME IInv, ReadFrames, Running, ~req.w
  PROVE  \A q \in Paths : PtrAt(MemInode, MemBlk, q) = PtrAt(inode, blk, q)
<1>1. \A n \in Inum, i \in PtrIdx : MemInode[n].ptrs[i] = inode[n].ptrs[i]
  BY MemPointers DEF IInv, Behind
<1>2. MemBlk = blk
  BY DEF MemBlk, ReadFrames, IInv, TypeOK
<1> QED BY <1>1, <1>2, PathShapes DEF PtrAt

LEMMA ReadFramesInit == Init => ReadFrames
BY DEF Init, ReadFrames, Running

LEMMA ReadFramesStep ==
  IInv /\ Walk /\ ReadFrames /\ [Next]_vars =>
    ReadFrames' /\ (Running /\ ~req.w /\ ~Crash => inode' = inode /\ blk' = blk /\ req' = req)
<1> SUFFICES ASSUME IInv, Walk, ReadFrames, [Next]_vars
             PROVE  ReadFrames' /\ (Running /\ ~req.w /\ ~Crash => inode' = inode /\ blk' = blk /\ req' = req)
  OBVIOUS
<1>0. /\ depth \in 0 .. 2 /\ DOMAIN stk = 0 .. 2 /\ stk[0] \in Frame(0) /\ stk[1] \in Frame(1)
      /\ stk[2] \in Frame(2) /\ blk \in [DataBlocks -> [Cells -> Cell]]
  BY DEF IInv, TypeOK
<1>1. ASSUME NEW r \in Requests, Begin(r)
      PROVE  ReadFrames' /\ ~Running
  <2>1. pc' = "rw" /\ depth' = 0 /\ ~Running
    BY <1>1 DEF Begin, Request, IInv, FramesOK, Running
  <2> QED BY <2>1 DEF ReadFrames
<1>2. ASSUME NEW r \in Requests, Refuse(r)
      PROVE  ReadFrames' /\ ~Running
  BY <1>2 DEF Refuse, Request, ReadFrames, Running
<1>3. ASSUME Skip \/ Hole PROVE ReadFrames' /\ inode' = inode /\ blk' = blk /\ req' = req
  <2>1. /\ Visiting /\ NextPtr /\ pc' = pc /\ pc = "rw" /\ depth' = depth /\ req' = req /\ blk' = blk
        /\ Top.i < Limit /\ inode' = inode
    BY <1>3 DEF Skip, Hole, Visiting, disk
  <2>2. stk'[1].n = stk[1].n /\ stk'[1].p = stk[1].p /\ stk'[2].n = stk[2].n /\ stk'[2].p = stk[2].p
    BY <2>1, Advance DEF IInv
  <2> QED BY <2>1, <2>2 DEF ReadFrames, Running
<1>4. ASSUME Alloc \/ OutOfBlocks PROVE ReadFrames' /\ Running /\ req.w
  BY <1>4 DEF Alloc, OutOfBlocks, ReadFrames, Running, Visiting
<1>5. ASSUME ZeroIndirect PROVE ReadFrames' /\ Running /\ req.w
  <2>1. Running /\ req.w
    BY <1>5 DEF ZeroIndirect, Walk, Running
  <2> QED BY <1>5, <2>1 DEF ReadFrames, ZeroIndirect
<1>6. ASSUME Descend PROVE ReadFrames' /\ inode' = inode /\ blk' = blk /\ req' = req
  <2>1. /\ pc = "rw" /\ pc' = pc /\ depth' = depth + 1 /\ req' = req /\ blk' = blk /\ inode' = inode
        /\ ilevel > 0 /\ Top.i < Limit
        /\ stk' = [stk EXCEPT ![depth + 1] = [n |-> Here, p |-> blk[Here], i |-> 0]]
    BY <1>6 DEF Descend, Visiting, disk
  <2>2. depth \in 0 .. 1
    <3>1. stk[0].i \in PtrIdx
      BY <2>1, VisitedPointer DEF Running
    <3> QED BY <1>0, <2>1, <3>1, LevelRange DEF ilevel, PtrIdx
  <2>3. stk'[depth + 1].p = blk[Here] /\ stk'[depth + 1].n = Here /\ (depth = 1 => stk'[1] = stk[1])
    BY <1>0, <2>1, <2>2
  <2>4. CASE depth = 0
    BY <2>1, <2>3, <2>4 DEF ReadFrames, Running
  <2>5. CASE depth = 1
    BY <2>1, <2>3, <2>5 DEF ReadFrames, Running
  <2> QED BY <2>1, <2>2, <2>4, <2>5
<1>7. ASSUME DataBlock PROVE ReadFrames' /\ req' = req /\ (~req.w => inode' = inode /\ blk' = blk)
  <2>1. /\ Visiting /\ NextPtr /\ pc' = pc /\ pc = "rw" /\ depth' = depth /\ req' = req
        /\ Top.i < Limit /\ inode' = inode /\ Running /\ Here # 0
    BY <1>7 DEF DataBlock, Visiting, Running
  <2>2. stk'[1].n = stk[1].n /\ stk'[1].p = stk[1].p /\ stk'[2].n = stk[2].n /\ stk'[2].p = stk[2].p
    BY <2>1, Advance DEF IInv
  <2>3. ASSUME ~req.w PROVE blk' = blk
    <3>1. blk' = [blk EXCEPT ![Here] = [c \in Cells |-> blk[Here][c]]]
      BY <1>7, <2>3 DEF DataBlock
    <3>2. Here \in DataBlocks
      BY <2>1, VisitedPointer
    <3>3. [c \in Cells |-> blk[Here][c]] = blk[Here]
      BY <1>0, <3>2
    <3> QED BY <1>0, <3>1, <3>2, <3>3
  <2> QED BY <2>1, <2>2, <2>3 DEF ReadFrames, Running
<1>8. ASSUME WriteBack PROVE ReadFrames' /\ req' = req /\ (~req.w => inode' = inode /\ blk' = blk)
  <2>1. /\ pc' = pc /\ req' = req /\ inode' = inode /\ depth \in 1 .. 2 /\ depth' = depth - 1
        /\ blk' = [blk EXCEPT ![Top.n] = Top.p] /\ Running
        /\ stk' = [stk EXCEPT ![depth] = NoFrame,
                              ![depth - 1].i = IF pc = "rw" THEN @ + 1 ELSE @]
    BY <1>0, <1>8 DEF WriteBack, Leaving, Running
  <2>2. ASSUME ~req.w PROVE blk' = blk /\ pc = "rw"
    <3>1. Top.p = blk[Top.n] /\ pc = "rw"
      BY <2>1, <2>2 DEF ReadFrames, Top
    <3> QED BY <1>0, <2>1, <3>1
  <2>3. depth = 2 => stk'[1].n = stk[1].n /\ stk'[1].p = stk[1].p
    BY <1>0, <2>1 DEF Frame
  <2> QED BY <2>1, <2>2, <2>3 DEF ReadFrames, Running
<1>9. ASSUME Finish PROVE ReadFrames' /\ req' = req /\ (~req.w => inode' = inode /\ blk' = blk)
  BY <1>9 DEF Finish, ReadFrames, Running, Stores
<1>10. CASE Crash
  BY <1>10 DEF Crash, ReadFrames, Running
<1>11. CASE UNCHANGED vars
  BY <1>11 DEF vars, ReadFrames, Running
<1>12. CASE recursive_rw
  <2>1. CASE Skip \/ Hole
    BY <1>3, <2>1
  <2>2. CASE Alloc \/ OutOfBlocks
    BY <1>4, <2>2
  <2> QED BY <1>12, <2>1, <2>2, <1>5, <1>6, <1>7, <1>8 DEF recursive_rw
<1> QED BY <1>1, <1>2, <1>9, <1>10, <1>11, <1>12 DEF Next

-----------------------------------------------------------------------------
\* The first block below a pointer of an indirect level is no direct one.
LEMMA FirstLow ==
  ASSUME NEW i \in PtrIdx, FirstOf(i) < NDIRECT
  PROVE  get_ilevel(i) = 0
<1>0. i \in Nat /\ NDIRECT \in Nat /\ NINDRECT \in Nat /\ NDINDRECT \in Nat
  BY SizesAssumption DEF PtrIdx
<1>1. PICK B \in Nat \ {0}, S \in Nat \ {0} : B = Span(1) /\ S = Span(2)
  BY Spans
<1>2. ASSUME i >= NDIRECT, i < NDIRECT + NINDRECT PROVE FALSE
  <2>1. PICK k \in Nat : k = i - NDIRECT
    BY <1>0, <1>2
  <2>2. k * B \in Nat
    OBVIOUS
  <2>3. FirstOf(i) = NDIRECT + k * B
    BY <1>0, <1>1, <1>2, <2>1 DEF FirstOf
  <2> QED BY <1>0, <2>2, <2>3
<1>3. ASSUME i >= NDIRECT + NINDRECT PROVE FALSE
  <2>1. PICK k \in Nat : k = i - NDIRECT - NINDRECT
    BY <1>0, <1>3
  <2>2. PICK u \in Nat, v \in Nat : u = k * S /\ v = NINDRECT * B
    BY <1>0
  <2>3. FirstOf(i) = NDIRECT + v + u
    BY <1>0, <1>1, <1>3, <2>1, <2>2 DEF FirstOf
  <2> QED BY <1>0, <2>3
<1> QED BY <1>0, <1>2, <1>3 DEF get_ilevel

\* The block at the end of a path is a block of a file.
LEMMA LeafBelow ==
  ASSUME NEW q \in Paths, Levels(q) = 0
  PROVE  PosOf(q) \in 0 .. MaxBlocks - 1
<1> DEFINE i == q[2]
<1>1. i \in PtrIdx /\ get_ilevel(i) \in 0 .. 2
  BY PathShapes, LevelRange DEF PtrIdx
<1>2. PICK f \in Nat, m \in Nat : /\ f = FirstOf(i) /\ m = MaxBlocks
                                  /\ f + Span(get_ilevel(i)) <= m
  BY <1>1, FirstNext
<1>3. PICK B \in Nat \ {0} : B = Span(1) /\ Span(2) = B * B /\ Cells = 0 .. B - 1 /\ Span(0) = 1
  BY Spans DEF Cells
<1>3a. None \notin Cells
  BY DEF None, Cells
<1>4. CASE q[3] = None
  <2>1. PosOf(q) = f /\ get_ilevel(i) = 0
    BY <1>1, <1>2, <1>3a, <1>4, PathShapes DEF PosOf, Levels
  <2> QED BY <1>2, <1>3, <2>1
<1>5. CASE q[3] \in Cells /\ q[4] = None /\ get_ilevel(i) >= 1
  <2>1. get_ilevel(i) = 1
    BY <1>1, <1>3a, <1>5 DEF Levels
  <2>2. PICK c \in 0 .. B - 1 : c = q[3]
    BY <1>3, <1>5
  <2>3. c * Span(0) = c
    BY <1>3
  <2>4. PosOf(q) = f + c
    BY <1>2, <1>3a, <1>5, <2>1, <2>2, <2>3 DEF PosOf
  <2> QED BY <1>2, <1>3, <2>1, <2>4
<1>6. CASE q[3] \in Cells /\ q[4] \in Cells /\ get_ilevel(i) = 2
  <2>1. PICK c \in 0 .. B - 1, d \in 0 .. B - 1 : c = q[3] /\ d = q[4]
    BY <1>3, <1>6
  <2>2. PICK v \in Nat, S \in Nat : v = c * B /\ S = B * B
    BY <1>3
  <2>3. v + B <= S
    <3>1. c + 1 <= B /\ (c + 1) * B = v + B
      BY <1>3, <2>2
    <3>2. (c + 1) * B <= B * B
      BY <3>1
    <3> QED BY <2>2, <3>1, <3>2
  <2>3a. get_ilevel(q[2]) - 1 = 1
    BY <1>6
  <2>3b. q[3] * Span(get_ilevel(q[2]) - 1) = v
    BY <1>3, <2>1, <2>2, <2>3a
  <2>4. PosOf(q) = f + v + d
    BY <1>2, <1>3a, <1>6, <2>1, <2>3b DEF PosOf
  <2>5. f + S <= m
    BY <1>2, <1>3, <1>6, <2>2
  <2> QED BY <1>2, <2>3, <2>4, <2>5
<1> QED BY <1>1, <1>4, <1>5, <1>6, PathShapes

\* Offsets whose block is among n blocks from b on.
LEMMA BlockRange ==
  ASSUME NEW o \in Nat, NEW b \in Nat, NEW n \in Nat,
         b * BLOCKSIZE <= o, o < (b + n) * BLOCKSIZE
  PROVE  /\ o \div BLOCKSIZE \in b .. b + n - 1
         /\ o \div BLOCKSIZE - b \in 0 .. n - 1
         /\ b + (o \div BLOCKSIZE - b) = o \div BLOCKSIZE
<1>1. BLOCKSIZE \in Nat \ {0} /\ b + n \in Nat
  BY SizesAssumption
<1>2. PICK p \in Nat : p = o \div BLOCKSIZE
  BY <1>1, Division
<1>3. p < b + n
  BY <1>1, <1>2, BlockBelow
<1>4. ~(p < b)
  <2>1. PICK x \in Nat : x = b * BLOCKSIZE
    BY <1>1
  <2>2. ~(o < x)
    BY <2>1
  <2>3. p < b <=> o < x
    BY <1>1, <1>2, <2>1, BlockBelow
  <2> QED BY <2>2, <2>3
<1> QED BY <1>2, <1>3, <1>4

\* The file has no byte below a null pointer of a read.
LEMMA HoleBytes ==
  ASSUME IInv, ReadFrames, ~req.w, Visiting, At(req, stk, depth, sa), Here = 0,
         NEW o \in Nat, sa.boff * BLOCKSIZE <= o, o < eblock * BLOCKSIZE
  PROVE  BlockOf(req.inum, o) = 0 /\ ByteAt(req.inum, o) = 0
<1>1. /\ Running /\ sa.boff \in Nat /\ Span(ilevel) \in Nat /\ eblock = sa.boff + Span(ilevel)
      /\ Top.i < Limit
  BY VisitTypes DEF Visiting
<1>2. PICK j \in 0 .. Span(ilevel) - 1 : j = o \div BLOCKSIZE - sa.boff /\ sa.boff + j = o \div BLOCKSIZE
  BY <1>1, BlockRange
<1>3. /\ HerePath \in Paths /\ HerePath[1] = req.inum /\ PosOf(HerePath) = sa.boff
      /\ Levels(HerePath) = ilevel /\ PtrAt(MemInode, MemBlk, HerePath) = Here
  BY <1>1, HerePlace DEF At
<1>4. PtrAt(inode, blk, HerePath) = 0
  BY <1>1, <1>3, ReadTree
<1>5. PtrAt(inode, blk, BlockPath(req.inum, sa.boff + j)) = 0
  BY <1>3, <1>4, BlocksBelow
<1>6. BlockOf(req.inum, o) = 0
  BY <1>2, <1>5 DEF BlockOf
<1> QED BY <1>6 DEF ByteAt, Below

\* The block that is visited at the end of a path is that of the file.
LEMMA LeafBytes ==
  ASSUME IInv, ReadFrames, ~req.w, Visiting, At(req, stk, depth, sa), Here # 0, ilevel = 0,
         NEW o \in Nat, sa.boff * BLOCKSIZE <= o, o < eblock * BLOCKSIZE
  PROVE  /\ BlockOf(req.inum, o) = Here
         /\ ByteAt(req.inum, o) = blk[Here][o - sa.boff * BLOCKSIZE]
<1>1. /\ Running /\ sa.boff \in Nat /\ Span(ilevel) = 1 /\ eblock = sa.boff + 1
      /\ Top.i < Limit /\ BLOCKSIZE \in Nat \ {0}
  BY VisitTypes, Spans, SizesAssumption DEF Visiting
<1>2. PICK x \in Nat : x = sa.boff * BLOCKSIZE /\ eblock * BLOCKSIZE = x + BLOCKSIZE
  BY <1>1, Positions
<1>3. o \div BLOCKSIZE = sa.boff /\ o % BLOCKSIZE = o - x
  BY <1>1, <1>2, InBlock
<1>4. /\ HerePath \in Paths /\ HerePath[1] = req.inum /\ PosOf(HerePath) = sa.boff
      /\ Levels(HerePath) = 0 /\ PtrAt(MemInode, MemBlk, HerePath) = Here
  BY <1>1, HerePlace DEF At
<1>5. PtrAt(inode, blk, HerePath) = Here
  BY <1>1, <1>4, ReadTree
<1>6. BlockPath(req.inum, sa.boff) = HerePath
  <2>1. 0 \in 0 .. Span(0) - 1
    BY Spans
  <2> QED BY <1>4, <2>1, BlocksBelow
<1>7. o < MaxSize
  <2>1. sa.boff \in 0 .. MaxBlocks - 1
    BY <1>4, LeafBelow
  <2>2. PICK m \in Nat : m = MaxBlocks
    BY FirstLast
  <2>3. o \div BLOCKSIZE < m
    BY <1>1, <1>3, <2>1, <2>2
  <2>4. o < m * BLOCKSIZE
    BY <1>1, <2>3, BlockBelow
  <2> QED BY <2>2, <2>4 DEF MaxSize
<1>8. BlockOf(req.inum, o) = Here
  BY <1>3, <1>5, <1>6, <1>7 DEF BlockOf
<1> QED BY <1>2, <1>3, <1>8 DEF ByteAt, Below

-----------------------------------------------------------------------------
\* What a read has appended to the caller's buffer.
Extended(S, s, z, f, t) ==
  /\ t \in Seq(S) /\ Len(t) = Len(s) + z
  /\ \A k \in 1 .. Len(s) : t[k] = s[k]
  /\ \A k \in Len(s) + 1 .. Len(s) + z : k - Len(s) \in 1 .. z /\ t[k] = f[k - Len(s)]
LEMMA Appended ==
  ASSUME NEW S, NEW s \in Seq(S), NEW z \in Nat, NEW f \in [1 .. z -> S], NEW t, t = s \o f
  PROVE  Extended(S, s, z, f, t)
<1>1. f \in Seq(S) /\ Len(f) = z
  <2>1. f \in Seq(S)
    BY SeqDef
  <2>2. DOMAIN f = 1 .. z /\ DOMAIN f = 1 .. Len(f) /\ Len(f) \in Nat
    BY <2>1, LenProperties
  <2> QED BY <2>1, <2>2
<1>2. t \in Seq(S) /\ Len(t) = Len(s) + z
  BY <1>1, ConcatProperties
<1>3. \A k \in 1 .. Len(t) : t[k] = IF k <= Len(s) THEN s[k] ELSE f[k - Len(s)]
  BY <1>1, ConcatProperties
<1>4. Len(s) \in Nat
  OBVIOUS
<1> QED BY <1>1, <1>2, <1>3, <1>4 DEF Extended

\* A read that starts in an allocated block, or at the start of a hole of one
\* block.
Aligned ==
  \/ BlockOf(req.inum, req.off) # 0
  \/ req.off % BLOCKSIZE = 0 /\ req.off < NDIRECT * BLOCKSIZE

\* The bytes that have been read are all there are up to the place the walk
\* has come to, and are those of the file.
Exact ==
  /\ consumed = Reach(req.off, sa.sz, sa.boff * BLOCKSIZE)
  /\ \A k \in 1 .. Len(out) : out[k] = ByteAt(req.inum, req.off + k - 1)

\* A read that stays in a hole has read zeros.
Nulls == \A o \in req.off .. req.off + consumed - 1 : BlockOf(req.inum, o) = 0
Blank == \A k \in 1 .. Len(out) : out[k] = 0

Read ==
  Running /\ ~req.w =>
    /\ req.off < inode[req.inum].size
    /\ sa.sz = Least(req.sz, inode[req.inum].size - req.off)
    /\ out \in Seq(Cell) /\ Len(out) = consumed
    /\ Aligned => Exact
    /\ Nulls => Blank

\* An aligned read comes to a null pointer at the beginning of its coverage.
LEMMA AlignedHole ==
  ASSUME IInv, ReadFrames, ~req.w, Visiting, At(req, stk, depth, sa), Here = 0, Overlaps, Aligned
  PROVE  sa.boff * BLOCKSIZE >= req.off
<1>1. /\ Running /\ sa.boff \in Nat /\ Span(ilevel) \in Nat /\ eblock = sa.boff + Span(ilevel)
      /\ eblock \in Nat /\ req.off \in Nat /\ BLOCKSIZE \in Nat \ {0} /\ Top.i < Limit
  BY VisitTypes, CallTypes, SizesAssumption DEF Visiting
<1>2. PICK x \in Nat : x = sa.boff * BLOCKSIZE
  BY <1>1
<1> SUFFICES ASSUME x < req.off PROVE FALSE
  BY <1>1, <1>2
<1>3. req.off < eblock * BLOCKSIZE
  <2>1. req.off \div BLOCKSIZE < eblock
    BY DEF Overlaps, sblockOf
  <2> QED BY <1>1, <2>1, BlockBelow
<1>4. BlockOf(req.inum, req.off) = 0
  BY <1>1, <1>2, <1>3, HoleBytes
<1>5. req.off % BLOCKSIZE = 0 /\ req.off < NDIRECT * BLOCKSIZE
  BY <1>4 DEF Aligned
<1>6. PICK f \in Nat : /\ f = req.off \div BLOCKSIZE
                       /\ req.off = BLOCKSIZE * f + (req.off % BLOCKSIZE)
  BY <1>1, Division
<1>7. f < NDIRECT
  BY <1>1, <1>5, <1>6, SizesAssumption, BlockBelow
<1>8. sa.boff <= f
  <2>1. PICK b \in Nat, n \in Nat, o \in Nat : b = sa.boff /\ n = Span(ilevel) /\ o = req.off
    BY <1>1
  <2>2. b * BLOCKSIZE <= o
    BY <1>1, <1>2, <2>1
  <2>3. o < (b + n) * BLOCKSIZE
    BY <1>1, <1>3, <2>1
  <2>4. o \div BLOCKSIZE \in b .. b + n - 1
    BY <2>2, <2>3, BlockRange
  <2> QED BY <1>6, <2>1, <2>4
<1>9. stk[0].i \in PtrIdx /\ stk[0].i \in Nat /\ stk[1].i \in Nat /\ stk[2].i \in Nat /\ depth \in 0 .. 2
  BY <1>1, VisitedPointer DEF IInv, TypeOK, Frame
<1>10. FirstOf(stk[0].i) <= sa.boff
  <2>1. FirstOf(stk[0].i) \in Nat /\ get_ilevel(stk[0].i) \in 0 .. 2
    BY <1>9, FirstNext, LevelRange
  <2>2. Span(get_ilevel(stk[0].i) - 1) \in Nat
    BY <2>1, SpanNat
  <2>3. PICK u \in Nat : u = stk[1].i * Span(get_ilevel(stk[0].i) - 1)
    BY <1>9, <2>2
  <2>4. sa.boff = Place(stk, depth)
    BY DEF At
  <2>5. sa.boff = FirstOf(stk[0].i) + (IF depth >= 1 THEN u ELSE 0) + (IF depth = 2 THEN stk[2].i ELSE 0)
    BY <2>3, <2>4 DEF Place
  <2> QED BY <1>9, <2>1, <2>5
<1>11. get_ilevel(stk[0].i) = 0
  <2>1. FirstOf(stk[0].i) < NDIRECT
    BY <1>1, <1>7, <1>8, <1>9, <1>10, FirstNext, SizesAssumption
  <2> QED BY <1>9, <2>1, FirstLow
<1>12. depth = 0 /\ ilevel = 0
  BY <1>9, <1>11 DEF IInv, FramesOK, ilevel
<1>13. eblock = sa.boff + 1
  BY <1>1, <1>12, Spans
<1>14. f < sa.boff + 1
  BY <1>6, <1>13 DEF Overlaps, sblockOf
<1>15. f = sa.boff
  BY <1>1, <1>8, <1>14
<1> QED BY <1>1, <1>2, <1>5, <1>6, <1>15

LEMMA SameBytes ==
  ASSUME inode' = inode, blk' = blk
  PROVE  \A n, o : BlockOf(n, o)' = BlockOf(n, o) /\ ByteAt(n, o)' = ByteAt(n, o)
BY DEF BlockOf, ByteAt

\* A step that reads nothing.
LEMMA ReadStays ==
  ASSUME Read, Running, ~req.w,
         inode' = inode, blk' = blk, req' = req, out' = out, consumed' = consumed, sa'.sz = sa.sz,
         Reach(req.off, sa.sz, sa'.boff * BLOCKSIZE) = Reach(req.off, sa.sz, sa.boff * BLOCKSIZE)
  PROVE  Read'
<1>1. /\ Aligned' = Aligned /\ Nulls' = Nulls /\ Blank' = Blank
  BY SameBytes DEF Aligned, Nulls, Blank
<1>2. Exact => Exact'
  BY SameBytes DEF Exact
<1> QED BY <1>1, <1>2 DEF Read

Appends(z, f) ==
  consumed' = consumed + z /\ f \in [1 .. z -> Cell] /\ out' = out \o f
StaysExact(z, f) ==
  Aligned /\ Exact =>
    /\ consumed + z = Reach(req.off, sa.sz, sa'.boff * BLOCKSIZE)
    /\ \A k \in 1 .. z : f[k] = ByteAt(req.inum, req.off + consumed + k - 1)
StaysBlank(z, f) ==
  \/ \A k \in 1 .. z : f[k] = 0
  \/ \E o \in req.off .. req.off + consumed + z - 1 : BlockOf(req.inum, o) # 0

\* A step that appends z cells f, those of the file if the read is aligned and
\* zeros if it stays in a hole.
LEMMA ReadGrows ==
  ASSUME IInv, Read, Running, ~req.w,
         inode' = inode, blk' = blk, req' = req, sa'.sz = sa.sz,
         NEW z \in Nat, NEW f, Appends(z, f), StaysExact(z, f), StaysBlank(z, f)
  PROVE  Read'
<1>1. req.off \in Nat /\ consumed \in Nat
  BY CallTypes
<1>1a. PICK b \in Nat, d \in Nat : b = req.off /\ d = consumed
  BY <1>1
<1>2. out \in Seq(Cell) /\ Len(out) = d
  BY <1>1a DEF Read
<1>3. /\ out' \in Seq(Cell) /\ Len(out') = d + z
      /\ \A k \in 1 .. d : out'[k] = out[k]
      /\ \A k \in d + 1 .. d + z : k - d \in 1 .. z /\ out'[k] = f[k - d]
  <2>1. /\ out' \in Seq(Cell) /\ Len(out') = Len(out) + z
        /\ \A k \in 1 .. Len(out) : out'[k] = out[k]
        /\ \A k \in Len(out) + 1 .. Len(out) + z :
             k - Len(out) \in 1 .. z /\ out'[k] = f[k - Len(out)]
    <3>1. f \in [1 .. z -> Cell] /\ out' = out \o f /\ out \in Seq(Cell)
      BY <1>2 DEF Appends
    <3>2. Extended(Cell, out, z, f, out')
      BY <3>1, Appended
    <3> QED BY <3>2 DEF Extended
  <2> QED BY <1>2, <2>1
<1>4. Aligned' = Aligned
  BY SameBytes DEF Aligned
<1>5. ASSUME Aligned PROVE Exact'
  <2>1. Exact
    BY <1>5 DEF Read
  <2>2. ASSUME NEW k \in 1 .. d + z PROVE out'[k] = ByteAt(req.inum, b + k - 1)
    <3>1. CASE k \in 1 .. d
      BY <1>1a, <1>2, <1>3, <2>1, <3>1 DEF Exact
    <3>2. CASE k \in d + 1 .. d + z
      <4>1. out'[k] = f[k - d] /\ k - d \in 1 .. z
        BY <1>3, <3>2
      <4>2. f[k - d] = ByteAt(req.inum, b + d + (k - d) - 1)
        <5>1. \A j \in 1 .. z : f[j] = ByteAt(req.inum, req.off + consumed + j - 1)
          BY <1>5, <2>1 DEF StaysExact
        <5> QED BY <1>1a, <4>1, <5>1
      <4>3. b + d + (k - d) - 1 = b + k - 1
        BY <3>2
      <4> QED BY <4>1, <4>2, <4>3
    <3> QED BY <1>1a, <3>1, <3>2
  <2>3. \A k \in 1 .. Len(out') : out'[k] = (ByteAt(req.inum, req.off + k - 1))'
    BY <1>1a, <1>3, <2>2, SameBytes
  <2>4. consumed' = Reach(req.off, sa.sz, sa'.boff * BLOCKSIZE)
    BY <1>5, <2>1 DEF StaysExact, Appends
  <2> QED BY <2>3, <2>4 DEF Exact
<1>6. ASSUME Nulls' PROVE Blank'
  <2>1. \A o \in b .. b + d + z - 1 : BlockOf(req.inum, o) = 0
    <3>1. consumed' = d + z
      BY <1>1a DEF Appends
    <3>2. b + (d + z) - 1 = b + d + z - 1
      OBVIOUS
    <3> QED BY <1>1a, <3>2, <1>6, <3>1, SameBytes DEF Nulls
  <2>2. Nulls
    <3>1. \A o \in b .. b + d - 1 : o \in b .. b + d + z - 1
      OBVIOUS
    <3> QED BY <1>1a, <2>1, <3>1 DEF Nulls
  <2>3. \A k \in 1 .. d : out[k] = 0
    BY <1>2, <2>2 DEF Read, Blank
  <2>4. \A k \in 1 .. z : f[k] = 0
    BY <1>1a, <2>1 DEF StaysBlank
  <2>5. ASSUME NEW k \in 1 .. d + z PROVE out'[k] = 0
    <3>1. CASE k \in 1 .. d
      BY <1>3, <2>3, <3>1
    <3>2. CASE k \in d + 1 .. d + z
      BY <1>3, <2>4, <3>2
    <3> QED BY <1>1a, <3>1, <3>2
  <2> QED BY <1>3, <2>5 DEF Blank
<1>7. out' \in Seq(Cell) /\ Len(out') = consumed'
  BY <1>1a, <1>3 DEF Appends
<1> QED BY <1>4, <1>5, <1>6, <1>7 DEF Read

LEMMA SkipRead ==
  ASSUME IInv, Walk, ReadFrames, Read, Skip, Running, ~req.w, inode' = inode, blk' = blk, req' = req
  PROVE  Read'
<1>1. /\ Visiting /\ ~Overlaps /\ out' = out /\ sa'.boff = eblock /\ At(req, stk, depth, sa)
      /\ req.off \in Nat /\ sa.sz \in Nat
  BY CallTypes DEF Skip, Walk, Visiting
<1>2. sa'.sz = sa.sz /\ consumed' = consumed
  BY <1>1, SkipAt DEF consumed
<1>3. Reach(req.off, sa.sz, eblock * BLOCKSIZE) = Reach(req.off, sa.sz, sa.boff * BLOCKSIZE)
  <2>1. ~(sa.boff <= (req.off + sa.sz) \div BLOCKSIZE /\ req.off \div BLOCKSIZE < sa.boff + Span(ilevel))
    BY <1>1 DEF Overlaps, eblockOf, sblockOf, eblock
  <2>2. sa.boff \in Nat /\ Span(ilevel) \in Nat
    BY <1>1, VisitTypes
  <2> QED BY <1>1, <2>1, <2>2, ReachSkip DEF eblock
<1> QED BY <1>1, <1>2, <1>3, ReadStays

LEMMA HoleRead ==
  ASSUME IInv, Walk, ReadFrames, Read, Hole, Running, ~req.w, inode' = inode, blk' = blk, req' = req
  PROVE  Read'
<1> DEFINE f == [k \in 1 .. HoleSize |-> 0]
<1>1. /\ Visiting /\ Overlaps /\ Here = 0 /\ out' = out \o f /\ sa'.boff = eblock
      /\ At(req, stk, depth, sa)
  BY CallTypes DEF Hole, Walk, Visiting
<1>2. /\ sa'.sz = sa.sz /\ consumed' = consumed + HoleSize
      /\ HoleSize \in Nat /\ consumed + HoleSize <= sa.sz
  BY <1>1, HoleAt DEF consumed
<1>3. f \in [1 .. HoleSize -> Cell] /\ \A k \in 1 .. HoleSize : f[k] = 0
  BY DEF Cell
<1> HIDE DEF f
<1>4. PICK o \in Nat, d \in Nat, s \in Nat, x \in Nat, w \in Nat :
        /\ o = req.off /\ d = consumed /\ s = sa.sz /\ x = sa.boff * BLOCKSIZE
        /\ w = Span(ilevel) * BLOCKSIZE /\ eblock * BLOCKSIZE = x + w
        /\ d <= s /\ sa.left = s - d
  BY <1>1, VisitTypes, CallTypes
<1>5. HoleSize = Least(s - d, w)
  BY <1>4 DEF HoleSize
<1>6. ASSUME Aligned, Exact
      PROVE  /\ consumed + HoleSize = Reach(req.off, sa.sz, sa'.boff * BLOCKSIZE)
             /\ \A k \in 1 .. HoleSize : f[k] = ByteAt(req.inum, req.off + consumed + k - 1)
  <2>1. x >= o
    BY <1>1, <1>4, <1>6, AlignedHole
  <2>2. d = Reach(o, s, x)
    BY <1>4, <1>6 DEF Exact
  <2>3. Reach(o, s, x) <= d
    BY <1>4, <2>2
  <2>3a. PICK y \in Nat : y = x + w
    BY <1>4
  <2>3b. /\ Reach(o, s, x) = IF x <= o THEN 0 ELSE IF x - o <= s THEN x - o ELSE s
         /\ Reach(o, s, y) = IF y <= o THEN 0 ELSE IF y - o <= s THEN y - o ELSE s
    BY ReachType
  <2>3c. Least(s - d, w) = IF s - d < w THEN s - d ELSE w
    BY DEF Least
  <2>3d. d <= s
    BY <1>4
  <2>4. d + Least(s - d, w) = Reach(o, s, x + w)
    BY <2>1, <2>2, <2>3a, <2>3b, <2>3c, <2>3d
  <2>5. ASSUME NEW k \in 1 .. HoleSize PROVE ByteAt(req.inum, req.off + consumed + k - 1) = 0
    <3>1. PICK p \in Nat : p = o + d + k - 1
      OBVIOUS
    <3>2. x <= p /\ p < x + w
      <4>1. Reach(o, s, x) = IF x <= o THEN 0 ELSE IF x - o <= s THEN x - o ELSE s
        BY ReachType
      <4>2. HoleSize = IF s - d < w THEN s - d ELSE w
        BY <1>5 DEF Least
      <4>3. k \in Nat /\ 1 <= k /\ k <= HoleSize
        OBVIOUS
      <4> QED BY <1>4, <2>1, <2>2, <3>1, <4>1, <4>2, <4>3
    <3>3. ByteAt(req.inum, p) = 0
      BY <1>1, <1>4, <3>2, HoleBytes
    <3> QED BY <1>4, <3>1, <3>3
  <2> QED BY <1>1, <1>3, <1>4, <1>5, <2>4, <2>5
<1>7. Appends(HoleSize, f) /\ StaysExact(HoleSize, f) /\ StaysBlank(HoleSize, f)
  BY <1>1, <1>2, <1>3, <1>6 DEF Appends, StaysExact, StaysBlank
<1> QED BY <1>1, <1>2, <1>3, <1>7, ReadGrows

LEMMA DataBlockRead ==
  ASSUME IInv, Walk, ReadFrames, Read, DataBlock, Running, ~req.w, inode' = inode, blk' = blk, req' = req
  PROVE  Read'
<1> DEFINE f == [k \in 1 .. Taken |-> blk[Here][start + k - 1]]
<1>1. /\ Visiting /\ Overlaps /\ Here # 0 /\ ilevel = 0 /\ sa'.boff = eblock
      /\ At(req, stk, depth, sa) /\ Here \in DataBlocks
  <2>1. Visiting /\ Overlaps /\ Here # 0 /\ ilevel = 0 /\ At(req, stk, depth, sa)
    BY DEF DataBlock, Walk, Visiting
  <2>2. Here \in DataBlocks
    BY <2>1, VisitedPointer DEF Visiting
  <2>3. sa'.boff = eblock
    BY CallTypes DEF DataBlock
  <2> QED BY <2>1, <2>2, <2>3
<1>2. /\ sa'.sz = sa.sz /\ consumed' = consumed + Taken
  BY <1>1, DataBlockAt DEF consumed
<1>3. /\ start \in Cells /\ Taken \in Nat /\ consumed + Taken <= sa.sz /\ start + Taken <= BLOCKSIZE
      /\ consumed = Reach(req.off, sa.sz, sa.boff * BLOCKSIZE) =>
           consumed + Taken = Reach(req.off, sa.sz, eblock * BLOCKSIZE)
      /\ consumed = Reach(req.off, sa.sz, sa.boff * BLOCKSIZE) /\ Taken > 0 =>
           sa.boff * BLOCKSIZE + start = req.off + consumed
      /\ Taken > 0 => sa.boff * BLOCKSIZE <= req.off + consumed
      /\ req.off < sa.boff * BLOCKSIZE + BLOCKSIZE
  BY <1>1, TakenBytes
<1>4. \A k \in 1 .. Taken : start + k - 1 \in Cells
  BY <1>3, SizesAssumption DEF Cells
<1>5. out' = out \o f
  <2> DEFINE bytes == [c \in Cells |->
                         IF req.w /\ c >= start /\ c < start + Taken
                         THEN req.buf[consumed + c - start + 1] ELSE blk[Here][c]]
  <2>1. out' = out \o [k \in 1 .. Taken |-> bytes[start + k - 1]]
    BY DEF DataBlock, Taken
  <2>2. \A k \in 1 .. Taken : bytes[start + k - 1] = blk[Here][start + k - 1]
    BY <1>4
  <2> HIDE DEF bytes
  <2> QED BY <2>1, <2>2
<1>6. f \in [1 .. Taken -> Cell]
  BY <1>1, <1>4 DEF IInv, TypeOK
<1>6a. \A k \in 1 .. Taken : f[k] = blk[Here][start + k - 1]
  OBVIOUS
<1> HIDE DEF f
<1>7. PICK o \in Nat, d \in Nat, x \in Nat, st \in Nat, z \in Nat, B \in Nat \ {0} :
        /\ o = req.off /\ d = consumed /\ x = sa.boff * BLOCKSIZE
        /\ eblock * BLOCKSIZE = x + B /\ st = start /\ z = Taken /\ B = BLOCKSIZE
  <2>1. eblock * BLOCKSIZE = sa.boff * BLOCKSIZE + BLOCKSIZE
    <3>1. sa.boff \in Nat /\ eblock = sa.boff + 1
      BY <1>1, VisitTypes, Spans
    <3> QED BY <3>1, Positions
  <2>2. req.off \in Nat /\ consumed \in Nat /\ sa.boff * BLOCKSIZE \in Nat /\ start \in Nat
    BY <1>1, <1>3, VisitTypes, CallTypes DEF Cells
  <2>3. Taken \in Nat /\ BLOCKSIZE \in Nat \ {0}
    BY <1>3, SizesAssumption
  <2> QED BY <2>1, <2>2, <2>3
<1>8. ASSUME Aligned, Exact
      PROVE  /\ consumed + Taken = Reach(req.off, sa.sz, sa'.boff * BLOCKSIZE)
             /\ \A k \in 1 .. Taken : f[k] = ByteAt(req.inum, req.off + consumed + k - 1)
  <2>1. consumed = Reach(req.off, sa.sz, sa.boff * BLOCKSIZE)
    BY <1>8 DEF Exact
  <2>2. ASSUME NEW k \in 1 .. z PROVE f[k] = ByteAt(req.inum, o + d + k - 1)
    <3>1. x + st = o + d
      BY <1>3, <1>7, <2>1
    <3>2. PICK p \in Nat : p = o + d + k - 1
      OBVIOUS
    <3>3. st + z <= B
      BY <1>3, <1>7
    <3>4. x <= p /\ p < x + B /\ p - x = st + k - 1
      BY <3>1, <3>2, <3>3
    <3>5. ByteAt(req.inum, p) = blk[Here][p - x]
      BY <1>1, <1>7, <3>4, LeafBytes
    <3> QED BY <1>6a, <1>7, <3>2, <3>4, <3>5
  <2> QED BY <1>1, <1>3, <1>7, <2>1, <2>2
<1>9. \/ \A k \in 1 .. Taken : f[k] = 0
      \/ \E y \in req.off .. req.off + consumed + Taken - 1 : BlockOf(req.inum, y) # 0
  <2>1. CASE Taken = 0
    BY <2>1
  <2>2. CASE Taken > 0
    <3>1. x <= o + d /\ o < x + B /\ z > 0
      BY <1>3, <1>7, <2>2
    <3>2. PICK y \in Nat : y = IF x <= o THEN o ELSE x
      OBVIOUS
    <3>3. x <= y /\ y < x + B /\ o <= y /\ y <= o + d + z - 1
      BY <3>1, <3>2, <1>7
    <3>4. BlockOf(req.inum, y) = Here
      BY <1>1, <1>7, <3>3, LeafBytes
    <3>5. y \in o .. o + d + z - 1
      BY <3>3
    <3> QED BY <1>1, <1>7, <3>4, <3>5
  <2> QED BY <1>3, <2>1, <2>2
<1>10. Appends(Taken, f) /\ StaysExact(Taken, f) /\ StaysBlank(Taken, f)
  BY <1>2, <1>5, <1>6, <1>8, <1>9 DEF Appends, StaysExact, StaysBlank
<1> QED BY <1>1, <1>2, <1>3, <1>5, <1>6, <1>10, ReadGrows

\* Every step keeps what a running read has put into the buffer right.
LEMMA ReadInit == Init => Read
BY DEF Init, Read, Running

LEMMA BeginRead == ASSUME IInv, NEW r \in Requests, Begin(r) PROVE Read'
<1> SUFFICES ASSUME ~r.w PROVE Read'
  BY DEF Begin, Request, Read
<1>1. /\ req' = r /\ inode' = inode /\ blk' = blk /\ out' = <<>>
      /\ sa' = [boff |-> 0, off |-> r.off, left |-> Clamped(r), sz |-> Clamped(r)]
      /\ r.inum \in Inum /\ r.off < inode[r.inum].size
  BY DEF Begin, Request, disk
<1>2. PICK s \in Nat, o \in Nat, m \in Nat : s = r.sz /\ o = r.off /\ m = inode[r.inum].size
  BY <1>1, RequestTypes DEF IInv, TypeOK
<1>3. Clamped(r) = Least(r.sz, inode[r.inum].size - r.off) /\ Clamped(r) \in Nat
  <2>1. Clamped(r) = IF o + s >= m THEN m - o ELSE s
    BY <1>2 DEF Clamped
  <2>2. Least(s, m - o) = IF s < m - o THEN s ELSE m - o
    BY DEF Least
  <2> QED BY <1>1, <1>2, <2>1, <2>2
<1>4. sa'.boff = 0 /\ sa'.sz = Clamped(r) /\ consumed' = 0
  BY <1>1, <1>3 DEF consumed
<1>5. out' \in Seq(Cell) /\ Len(out') = 0
  BY <1>1
<1>6. Exact'
  <2>1. 0 * BLOCKSIZE = 0
    BY SizesAssumption
  <2>2. Reach(o, Clamped(r), 0) = 0
    BY <1>3, ReachType
  <2> QED BY <1>1, <1>2, <1>4, <1>5, <2>1, <2>2 DEF Exact
<1>7. Blank'
  BY <1>5 DEF Blank
<1> QED BY <1>1, <1>3, <1>4, <1>5, <1>6, <1>7 DEF Read

LEMMA ReadStep == IInv /\ Walk /\ ReadFrames /\ Read /\ [Next]_vars => Read'
<1> SUFFICES ASSUME IInv, Walk, ReadFrames, Read, [Next]_vars PROVE Read'
  OBVIOUS
<1>1. ASSUME NEW r \in Requests, Begin(r) PROVE Read'
  BY <1>1, BeginRead
<1>2. ASSUME NEW r \in Requests, Refuse(r) PROVE Read'
  BY <1>2 DEF Refuse, Request, Read, Running
<1>3. CASE Finish \/ Crash
  BY <1>3 DEF Finish, Crash, Read, Running
<1>4. CASE UNCHANGED vars
  <2>1. /\ Running' = Running /\ req' = req /\ inode' = inode /\ blk' = blk /\ out' = out /\ sa' = sa
        /\ consumed' = consumed
    BY <1>4 DEF vars, Running, consumed
  <2>2. CASE Running /\ ~req.w
    BY <2>1, <2>2, ReadStays
  <2>3. CASE ~(Running /\ ~req.w)
    BY <2>1, <2>3 DEF Read
  <2> QED BY <2>2, <2>3
<1>5. CASE recursive_rw
  <2>1. Running /\ req' = req
    BY <1>5 DEF recursive_rw, Skip, Alloc, ZeroIndirect, OutOfBlocks, Hole, Descend, DataBlock,
                WriteBack, Visiting, Leaving, Running
  <2>2. CASE req.w
    BY <2>1, <2>2 DEF Read
  <2>3. CASE ~req.w
    <3>1. ~Crash
      BY <1>5, SizesAssumption
         DEF recursive_rw, Skip, Alloc, ZeroIndirect, OutOfBlocks, Hole, Descend, DataBlock,
             WriteBack, Crash, IInv, TypeOK, Visiting
    <3>2. inode' = inode /\ blk' = blk
      BY <2>1, <2>3, <3>1, ReadFramesStep
    <3>3. CASE Skip
      BY <2>1, <2>3, <3>2, <3>3, SkipRead
    <3>4. CASE Hole
      BY <2>1, <2>3, <3>2, <3>4, HoleRead
    <3>5. CASE DataBlock
      BY <2>1, <2>3, <3>2, <3>5, DataBlockRead
    <3>6. CASE Descend \/ WriteBack
      <4>1. out' = out /\ sa' = sa /\ consumed' = consumed
        BY <3>6 DEF Descend, WriteBack, consumed
      <4> QED BY <2>1, <2>3, <3>2, <4>1, ReadStays
    <3>7. ~Alloc /\ ~OutOfBlocks /\ ~ZeroIndirect
      BY <2>1, <2>3 DEF Alloc, OutOfBlocks, ZeroIndirect, Walk
    <3> QED BY <1>5, <3>3, <3>4, <3>5, <3>6, <3>7 DEF recursive_rw
  <2> QED BY <2>1, <2>2, <2>3, CallTypes
<1> QED BY <1>1, <1>2, <1>3, <1>4, <1>5 DEF Next

\* What a read that comes to its end has put into the buffer.
LEMMA ReadEnd ==
  ASSUME IInv, Walk, ReadFrames, Read, Finish, ~req.w, FromData
  PROVE  ReadIsRight
<1>1. /\ Running /\ depth = 0 /\ pc = "rw" /\ Top.i = Limit
      /\ out \in Seq(Cell) /\ Len(out) = consumed /\ req.inum \in Inum
      /\ req.off < inode[req.inum].size /\ sa.sz = Least(req.sz, inode[req.inum].size - req.off)
  BY CallTypes DEF Finish, Leaving, Running, Walk, Read
<1>2. PICK o \in Nat, s \in Nat, m \in Nat, x \in Nat, d \in Nat :
        /\ o = req.off /\ s = sa.sz /\ m = inode[req.inum].size /\ x = MaxSize /\ d = consumed
        /\ d <= s
  BY <1>1, CallTypes, EndOfWalk DEF IInv, TypeOK
<1>3. Reach(o, s, x) <= d /\ sa.boff * BLOCKSIZE = x
  BY <1>1, <1>2, EndOfWalk
<1>4. m <= x
  BY <1>2 DEF FromData
<1>5. s <= m - o
  <2>1. PICK z \in Nat : z = req.sz
    BY <1>1, CallTypes
  <2>2. s = IF z < m - o THEN z ELSE m - o
    BY <1>1, <1>2, <2>1 DEF Least
  <2> QED BY <2>2
<1>6. Reach(o, s, x) = s
  <2>1. Reach(o, s, x) = IF x <= o THEN 0 ELSE IF x - o <= s THEN x - o ELSE s
    BY ReachType
  <2> QED BY <1>1, <1>2, <1>4, <1>5, <2>1
<1>7. d = s
  BY <1>2, <1>3, <1>6
<1>8. \A k \in 1 .. s : out[k] = ByteAt(req.inum, req.off + k - 1)
  <2>1. CASE Aligned
    BY <1>1, <1>2, <1>7, <2>1 DEF Read, Exact
  <2>2. CASE ~Aligned
    <3>1. \A y \in req.off .. req.off + Len(out) - 1 : BlockOf(req.inum, y) = 0
      BY <2>2 DEF FromData, Aligned
    <3>2. Nulls
      BY <1>1, <3>1 DEF Nulls
    <3>3. \A k \in 1 .. s : out[k] = 0
      BY <1>1, <1>2, <1>7, <3>2 DEF Read, Blank
    <3>4. ASSUME NEW k \in 1 .. s PROVE ByteAt(req.inum, o + k - 1) = 0
      <4>1. o + k - 1 \in o .. o + s - 1
        OBVIOUS
      <4>2. BlockOf(req.inum, o + k - 1) = 0
        BY <1>1, <1>2, <1>7, <3>1, <4>1
      <4> QED BY <4>2 DEF ByteAt, Below
    <3> QED BY <1>2, <3>3, <3>4
  <2> QED BY <2>1, <2>2
<1>9. out \in [1 .. s -> Cell] /\ out = [k \in 1 .. s |-> out[k]]
  <2>1. out \in [1 .. Len(out) -> Cell]
    BY <1>1, LenProperties
  <2>2. Len(out) = s
    BY <1>1, <1>2, <1>7
  <2> QED BY <2>1, <2>2
<1>10. out = [k \in 1 .. s |-> ByteAt(req.inum, req.off + k - 1)]
  BY <1>8, <1>9
<1> QED BY <1>1, <1>2, <1>10 DEF ReadIsRight

LEMMA ReadDataStep ==
  IInv /\ Walk /\ ReadFrames /\ Read /\ ReadFromData /\ [Next]_vars => ReadFromData'
<1> SUFFICES ASSUME IInv, Walk, ReadFrames, Read, ReadFromData, [Next]_vars, ReadDone', FromData'
             PROVE  ReadIsRight'
  BY DEF ReadFromData
<1>1. ASSUME NEW r \in Requests, Begin(r) PROVE FALSE
  BY <1>1 DEF Begin, ReadDone
<1>2. ASSUME NEW r \in Requests, Refuse(r) PROVE FALSE
  BY <1>2 DEF Refuse, ReadDone
<1>3. CASE recursive_rw
  BY <1>3 DEF recursive_rw, Skip, Alloc, ZeroIndirect, OutOfBlocks, Hole, Descend, DataBlock,
              WriteBack, Visiting, Leaving, ReadDone
<1>4. CASE Finish
  <2>1. req' = req /\ out' = out /\ blk' = blk /\ ~req.w /\ inode' = inode
    BY <1>4 DEF Finish, ReadDone, Stores
  <2>2. FromData
    BY <2>1, SameBytes DEF FromData
  <2>3. ReadIsRight
    BY <1>4, <2>1, <2>2, ReadEnd
  <2> QED BY <2>1, <2>3, SameBytes DEF ReadIsRight
<1>5. CASE Crash
  BY <1>5 DEF Crash, ReadDone
<1>6. CASE UNCHANGED vars
  <2>1. /\ req' = req /\ out' = out /\ blk' = blk /\ inode' = inode /\ pc' = pc /\ ret' = ret
    BY <1>6 DEF vars
  <2>2. FromData /\ ReadDone
    BY <2>1, SameBytes DEF FromData, ReadDone
  <2> QED BY <2>1, <2>2, SameBytes DEF ReadFromData, ReadIsRight
<1> QED BY <1>1, <1>2, <1>3, <1>4, <1>5, <1>6 DEF Next

\* fs_read() gives the caller the bytes of the file and zeros for its holes,
\* when it starts in an allocated block or at the start of a hole of one block,
\* or stays in a hole.
THEOREM ReadsAreRight == Spec => []ReadFromData
<1>1. Init => ReadFromData
  BY DEF Init, ReadDone, ReadFromData
<1>2. IInv /\ Walk /\ ReadFrames /\ [Next]_vars => ReadFrames'
  BY ReadFramesStep
<1> QED BY <1>1, <1>2, WalkInit, WalkStep, ReadFramesInit, ReadInit, ReadStep, ReadDataStep,
           Inductive, PTL DEF Spec

-----------------------------------------------------------------------------
(***************************************************************************)
(* The bytes of the files. A write changes them on the disk when a data    *)
(* block that is linked already is written, when a block of pointers links *)
(* what the memory has built, and when the inode is stored; in the         *)
(* memory's trees only the first does.                                     *)
(***************************************************************************)

Offs == 0 .. MaxSize - 1

\* The block of a file at an offset, in any trees, and its path.
Leaf(t, b, n, o) == PtrAt(t, b, BlockPath(n, o \div BLOCKSIZE))

LEMMA LeafPath ==
  ASSUME NEW n \in Inum, NEW o \in Offs
  PROVE  /\ o \in Nat /\ o < MaxSize /\ o % BLOCKSIZE \in Cells
         /\ BlockPath(n, o \div BLOCKSIZE) \in Paths /\ IsLeaf(BlockPath(n, o \div BLOCKSIZE))
         /\ BlockPath(n, o \div BLOCKSIZE)[1] = n
         /\ PosOf(BlockPath(n, o \div BLOCKSIZE)) = o \div BLOCKSIZE
         /\ BlockOf(n, o) = Leaf(inode, blk, n, o)
         /\ ByteAt(n, o) = Below(blk, Leaf(inode, blk, n, o), o % BLOCKSIZE)
<1>1. PICK m \in Nat : m = MaxBlocks
  BY FirstLast
<1>2. BLOCKSIZE \in Nat \ {0}
  BY SizesAssumption
<1>3. MaxSize = m * BLOCKSIZE /\ MaxSize \in Nat
  BY <1>1, <1>2 DEF MaxSize
<1>4. o \in Nat /\ o < MaxSize
  BY <1>3 DEF Offs
<1>5. o \div BLOCKSIZE \in Nat /\ o % BLOCKSIZE \in Cells
  BY <1>2, <1>4, Division DEF Cells
<1>6. o \div BLOCKSIZE < m
  BY <1>2, <1>3, <1>4, BlockBelow
<1>7. o \div BLOCKSIZE \in 0 .. MaxBlocks - 1
  BY <1>1, <1>5, <1>6
<1>8. BlockOf(n, o) = Leaf(inode, blk, n, o)
  BY <1>4 DEF BlockOf, Leaf
<1>9. ByteAt(n, o) = Below(blk, Leaf(inode, blk, n, o), o % BLOCKSIZE)
  BY <1>8 DEF ByteAt
<1> QED BY <1>4, <1>5, <1>7, <1>8, <1>9, PathOfBlock

\* Contents of a block that is in no tree do not matter.
LEMMA OffTree ==
  ASSUME NEW t, NEW b, NEW b2, NEW bm, NEW f, Marked(t, b, bm), SameBut(b, b2, f),
         \A q \in Paths : PtrAt(t, b, q) # f
  PROVE  \A q \in Paths : PtrAt(t, b2, q) = PtrAt(t, b, q)
<1> SUFFICES ASSUME NEW q \in Paths PROVE PtrAt(t, b2, q) = PtrAt(t, b, q)
  OBVIOUS
<1> DEFINE p == <<q[1], q[2], None, None>>
           r == <<q[1], q[2], q[3], None>>
           v == t[q[1]].ptrs[q[2]]
           w == Below(b, v, q[3])
<1>1. CASE q[3] = None
  BY <1>1 DEF PtrAt
<1>2. CASE q[3] \in Cells /\ get_ilevel(q[2]) >= 1
  <2>1. p \in Paths /\ PtrAt(t, b, p) = v
    BY PathShapes, PathTop
  <2>2. v = 0 \/ (v \in DataBlocks /\ v # f)
    BY <2>1 DEF Marked
  <2>3. Below(b2, v, q[3]) = w
    BY <1>2, <2>2 DEF Below, SameBut
  <2>4. r \in Paths /\ PtrAt(t, b, r) = w
    BY <1>2, PathShapes, PathOne
  <2>5. CASE q[4] = None
    BY <1>2, <2>3, <2>5 DEF PtrAt, None, Cells
  <2>6. CASE q[4] \in Cells /\ get_ilevel(q[2]) = 2
    <3>1. w = 0 \/ (w \in DataBlocks /\ w # f)
      BY <2>4 DEF Marked
    <3>2. Below(b2, w, q[4]) = Below(b, w, q[4])
      BY <2>6, <3>1 DEF Below, SameBut
    <3> QED BY <1>2, <2>3, <2>6, <3>2 DEF PtrAt, None, Cells
  <2> QED BY <1>2, <2>5, <2>6, PathShapes
<1> QED BY <1>1, <1>2, PathShapes

\* Pointers that are added to blocks change none that were there.
Fuller(b, b2) == \A z \in DataBlocks, c \in Cells : b[z][c] \in {0, b2[z][c]}

LEMMA MorePointers ==
  ASSUME NEW t, NEW b, NEW b2, NEW bm, Marked(t, b, bm), Fuller(b, b2)
  PROVE  \A q \in Paths : PtrAt(t, b, q) \in {0, PtrAt(t, b2, q)}
<1> SUFFICES ASSUME NEW q \in Paths PROVE PtrAt(t, b, q) \in {0, PtrAt(t, b2, q)}
  OBVIOUS
<1> DEFINE p == <<q[1], q[2], None, None>>
           r == <<q[1], q[2], q[3], None>>
           v == t[q[1]].ptrs[q[2]]
           w == Below(b, v, q[3])
<1>1. CASE q[3] = None
  BY <1>1 DEF PtrAt
<1>2. CASE q[3] \in Cells /\ get_ilevel(q[2]) >= 1
  <2>1. p \in Paths /\ PtrAt(t, b, p) = v
    BY PathShapes, PathTop
  <2>2. v = 0 \/ v \in DataBlocks
    BY <2>1 DEF Marked
  <2>3. w \in {0, Below(b2, v, q[3])}
    BY <1>2, <2>2 DEF Below, Fuller
  <2>4. r \in Paths /\ PtrAt(t, b, r) = w
    BY <1>2, PathShapes, PathOne
  <2>5. CASE q[4] = None
    BY <1>2, <2>3, <2>5 DEF PtrAt, None, Cells
  <2>6. CASE q[4] \in Cells /\ get_ilevel(q[2]) = 2
    <3>1. w = 0 \/ w \in DataBlocks
      BY <2>4 DEF Marked
    <3>2. PtrAt(t, b, q) = Below(b, w, q[4]) /\ PtrAt(t, b2, q) = Below(b2, Below(b2, v, q[3]), q[4])
      BY <1>2, <2>6 DEF PtrAt, None, Cells
    <3> HIDE DEF w, v
    <3>3. CASE w = 0
      BY <3>2, <3>3 DEF Below
    <3>4. CASE w # 0
      <4>1. Below(b, w, q[4]) \in {0, Below(b2, w, q[4])}
        BY <2>6, <3>1 DEF Below, Fuller
      <4> QED BY <2>3, <3>2, <3>4, <4>1
    <3> QED BY <3>3, <3>4
  <2> QED BY <1>2, <2>5, <2>6, PathShapes
<1> QED BY <1>1, <1>2, PathShapes

\* DiskBehind of the next state.
LEMMA DiskBehindNow == IInv => \A q \in Paths : PtrAt(inode, blk, q) \in {0, PtrAt(MemInode, MemBlk, q)}
BY DiskBehind

LEMMA DiskBehindNext ==
  IInv' => \A q \in Paths : PtrAt(inode', blk', q) \in {0, PtrAt(MemInode', MemBlk', q)}
<1>1. (IInv => \A q \in Paths : PtrAt(inode, blk, q) \in {0, PtrAt(MemInode, MemBlk, q)})'
  BY DiskBehindNow, PTL
<1> QED BY <1>1

-----------------------------------------------------------------------------
\* The byte of a file with the trees of the memory.
MemByte(n, o) == Below(blk, Leaf(MemInode, MemBlk, n, o), o % BLOCKSIZE)

\* The first m bytes of a request, at the offsets they go to.
Written(r, m, n, o) == n = r.inum /\ o \in r.off .. r.off + m - 1

\* On a clear partition, blocks that were never marked are clear.
Fresh == cleared => \A b \in DataBlocks : Bit(b) \notin bitmap => blk[b] = Zeros

\* With the trees of the memory, the files hold what the running call has
\* written, and for the rest what they hold on the disk.
MemBytes ==
  cleared /\ Running /\ req.w =>
    \A n \in Inum, o \in Offs :
      /\ Written(req, consumed, n, o) => MemByte(n, o) = req.buf[o - req.off + 1]
      /\ ~Written(req, consumed, n, o) => MemByte(n, o) = ByteAt(n, o)

\* Past the end of a file the disk holds zeros, but for what a running call has
\* written there.
Gap ==
  cleared /\ crashes = 0 =>
    \A n \in Inum, o \in Offs :
      o >= inode[n].size /\ ~(Running /\ req.w /\ Written(req, consumed, n, o)) => ByteAt(n, o) = 0

\* What a step may do to the bytes on the disk.
DiskStep ==
  \A n \in Inum, o \in Offs :
    \/ ByteAt(n, o)' = ByteAt(n, o)
    \/ req.w /\ Written(req, consumed', n, o) /\ ByteAt(n, o)' = req.buf[o - req.off + 1]

\* A running write of a partition that was clear.
Writing == cleared /\ Running /\ req.w

LEMMA LeafTypes == \A q \in Paths : IsLeaf(q) <=> Levels(q) = 0
BY LevelRange, PathShapes DEF IsLeaf, Levels, PtrIdx

\* The data blocks of the memory's trees are in no frame and are not waiting to
\* be cleared.
LEMMA MemLeaf ==
  ASSUME IInv, Running, NEW q \in Paths, IsLeaf(q), PtrAt(MemInode, MemBlk, q) # 0
  PROVE  /\ PtrAt(MemInode, MemBlk, q) \in DataBlocks
         /\ Bit(PtrAt(MemInode, MemBlk, q)) \in bitmap
         /\ depth # 0 => PtrAt(MemInode, MemBlk, q) # stk[1].n
         /\ depth = 2 => PtrAt(MemInode, MemBlk, q) # stk[2].n
         /\ Top.i < Limit /\ PtrAt(MemInode, MemBlk, q) = Here => q = HerePath
         /\ pc = "zero" => PtrAt(MemInode, MemBlk, q) # Here
<1> DEFINE x == PtrAt(MemInode, MemBlk, q)
<1>0. None \notin Cells /\ depth \in 0 .. 2
  BY DEF None, Cells, IInv, TypeOK
<1>1. x \in DataBlocks /\ Bit(x) \in bitmap
  BY DEF IInv, MemMarked, Marked
<1>2. ASSUME depth # 0 PROVE x # stk[1].n
  <2> DEFINE s == <<req.inum, stk[0].i, None, None>>
  <2>1. stk[0].i \in PtrIdx /\ req.inum \in Inum /\ PtrAt(MemInode, MemBlk, s) = stk[1].n
    BY <1>2, FrameBlocks
  <2>2. s \in Paths /\ s[2] = stk[0].i /\ s[3] = None
    BY <2>1, PathTop
  <2>3. get_ilevel(stk[0].i) >= 1
    BY <1>0, <1>2, <2>1, LevelRange DEF IInv, FramesOK, PtrIdx
  <2>4. ~IsLeaf(s)
    BY <2>2, <2>3 DEF IsLeaf
  <2> HIDE DEF s
  <2> QED BY <2>1, <2>2, <2>4 DEF IInv, MemUnshared, Unshared
<1>3. ASSUME depth = 2 PROVE x # stk[2].n
  <2> DEFINE s == <<req.inum, stk[0].i, stk[1].i, None>>
  <2>1. /\ stk[0].i \in PtrIdx /\ req.inum \in Inum /\ stk[1].i \in Cells
        /\ get_ilevel(stk[0].i) = 2 /\ PtrAt(MemInode, MemBlk, s) = stk[2].n
    BY <1>3, FrameBlocks
  <2>2. s \in Paths /\ s[2] = stk[0].i /\ s[3] = stk[1].i /\ s[4] = None
    BY <2>1, PathOne
  <2>3. ~IsLeaf(s)
    BY <1>0, <2>1, <2>2 DEF IsLeaf
  <2> HIDE DEF s
  <2> QED BY <2>1, <2>2, <2>3 DEF IInv, MemUnshared, Unshared
<1>4. ASSUME Top.i < Limit, x = Here PROVE q = HerePath
  <2>1. HerePath \in Paths /\ PtrAt(MemInode, MemBlk, HerePath) = Here
    BY <1>4, VisitedPointer
  <2> QED BY <1>4, <2>1 DEF IInv, MemUnshared, Unshared
<1>5. ASSUME pc = "zero" PROVE x # Here
  <2>1. Top.i < Limit /\ ilevel > 0
    BY <1>5 DEF IInv, FramesOK
  <2>2. HerePath \in Paths /\ Levels(HerePath) = ilevel
    BY <2>1, HerePlace
  <2> QED BY <1>4, <2>1, <2>2, LeafTypes
<1> QED BY <1>1, <1>2, <1>3, <1>4, <1>5

LEMMA LeafKept ==
  ASSUME Kept
  PROVE  \A n \in Inum, o \in Offs : Leaf(MemInode', MemBlk', n, o) = Leaf(MemInode, MemBlk, n, o)
BY LeafPath DEF Kept, Leaf

\* A block of the disk that is no pointer of the disk's trees.
LEMMA Unlinked ==
  ASSUME IInv, Running, Top.i < Limit, Here # 0, PtrAt(inode, blk, HerePath) = 0,
         NEW b2, SameBut(blk, b2, Here)
  PROVE  \A q \in Paths : PtrAt(inode, blk, q) # Here /\ PtrAt(inode, b2, q) = PtrAt(inode, blk, q)
<1>1. HerePath \in Paths /\ PtrAt(MemInode, MemBlk, HerePath) = Here
  BY VisitedPointer
<1>2. \A q \in Paths : PtrAt(inode, blk, q) # Here
  BY <1>1, DiskBehind DEF IInv, MemUnshared, Unshared
<1>3. Marked(inode, blk, bitmap)
  BY DiskSound
<1> QED BY <1>2, <1>3, OffTree

\* The files' bytes on the disk, when a block changes that is no data block of
\* theirs.
LEMMA SameLeaves ==
  ASSUME IInv, NEW f \in DataBlocks, SameBut(blk, blk', f), inode' = inode,
         \A q \in Paths : PtrAt(inode, blk', q) = PtrAt(inode, blk, q),
         \A q \in Paths : IsLeaf(q) => PtrAt(inode, blk, q) # f
  PROVE  \A n \in Inum, o \in Offs : ByteAt(n, o)' = ByteAt(n, o)
<1> SUFFICES ASSUME NEW n \in Inum, NEW o \in Offs PROVE ByteAt(n, o)' = ByteAt(n, o)
  OBVIOUS
<1> DEFINE q == BlockPath(n, o \div BLOCKSIZE)
           x == PtrAt(inode, blk, q)
<1>1. /\ q \in Paths /\ IsLeaf(q) /\ o < MaxSize /\ o % BLOCKSIZE \in Cells
      /\ ByteAt(n, o) = Below(blk, x, o % BLOCKSIZE)
  BY LeafPath DEF Leaf
<1>2. ByteAt(n, o)' = Below(blk', PtrAt(inode', blk', q), o % BLOCKSIZE)
  BY <1>1 DEF ByteAt, BlockOf
<1>3. ByteAt(n, o)' = Below(blk', x, o % BLOCKSIZE)
  BY <1>1, <1>2
<1>4. x = 0 \/ (x \in DataBlocks /\ x # f)
  BY <1>1, DiskSound DEF Marked
<1> HIDE DEF x
<1>5. Below(blk', x, o % BLOCKSIZE) = Below(blk, x, o % BLOCKSIZE)
  BY <1>4 DEF Below, SameBut
<1> QED BY <1>1, <1>3, <1>5

-----------------------------------------------------------------------------
Serves == MemBytes' /\ DiskStep

\* A step that consumes nothing and writes to the disk only what the memory
\* holds.
LEMMA NothingConsumed ==
  ASSUME MemBytes, Writing, cleared' = cleared, req' = req, consumed' = consumed,
         \A n \in Inum, o \in Offs : MemByte(n, o)' = MemByte(n, o),
         \A n \in Inum, o \in Offs : ByteAt(n, o)' \in {ByteAt(n, o), MemByte(n, o)}
  PROVE  Serves
<1>1. \A n \in Inum, o \in Offs :
        /\ Written(req, consumed, n, o) => MemByte(n, o) = req.buf[o - req.off + 1]
        /\ ~Written(req, consumed, n, o) => MemByte(n, o) = ByteAt(n, o)
  BY DEF MemBytes, Writing
<1>2. MemBytes'
  BY <1>1 DEF MemBytes, Written
<1>3. DiskStep
  BY <1>1 DEF DiskStep, Writing
<1> QED BY <1>2, <1>3 DEF Serves

\* A step that writes no block of data or pointers.
LEMMA NothingStored ==
  ASSUME MemBytes, Writing, cleared' = cleared, req' = req, consumed' = consumed, Kept,
         inode' = inode, blk' = blk
  PROVE  Serves
<1>1. \A n \in Inum, o \in Offs : MemByte(n, o)' = MemByte(n, o)
  BY LeafKept DEF MemByte, Leaf
<1>2. \A n \in Inum, o \in Offs : ByteAt(n, o)' = ByteAt(n, o)
  BY SameBytes
<1> QED BY <1>1, <1>2, NothingConsumed

\* A fresh data block is clear.
LEMMA AllocBytes ==
  ASSUME IInv, Fresh, MemBytes, Writing, cleared' = cleared, Alloc
  PROVE  Serves
<1>1. /\ req' = req /\ consumed' = consumed /\ inode' = inode /\ blk' = blk
  BY DEF Alloc, consumed
<1>2. PICK i \in Usable : i \notin bitmap /\ bitmap' = bitmap \cup {i}
  BY DEF Alloc, bitmap_alloc
<1>3. PICK f \in DataBlocks : /\ bitmap' = bitmap \cup {Bit(f)}
                              /\ Grown(MemInode, MemBlk, MemInode', MemBlk', f)
  BY AllocStep DEF Added
<1>4. Bit(f) \notin bitmap /\ blk[f] = Zeros /\ f # 0
  BY <1>2, <1>3, SizesAssumption DEF Fresh, Writing, DataBlocks
<1>5. PICK s \in Paths : /\ PtrAt(MemInode, MemBlk, s) = 0 /\ PtrAt(MemInode', MemBlk', s) = f
                         /\ \A q \in Paths : q # s => PtrAt(MemInode', MemBlk', q) = PtrAt(MemInode, MemBlk, q)
  BY <1>3 DEF Grown
<1>6. ASSUME NEW n \in Inum, NEW o \in Offs PROVE MemByte(n, o)' = MemByte(n, o)
  <2> DEFINE q == BlockPath(n, o \div BLOCKSIZE)
  <2>1. q \in Paths /\ o % BLOCKSIZE \in Cells
    BY LeafPath
  <2>2. /\ MemByte(n, o) = Below(blk, PtrAt(MemInode, MemBlk, q), o % BLOCKSIZE)
        /\ MemByte(n, o)' = Below(blk, PtrAt(MemInode', MemBlk', q), o % BLOCKSIZE)
    BY <1>1 DEF MemByte, Leaf
  <2>3. CASE q # s
    BY <1>5, <2>1, <2>2, <2>3
  <2>4. CASE q = s
    <3>1. MemByte(n, o) = Below(blk, 0, o % BLOCKSIZE) /\ MemByte(n, o)' = Below(blk, f, o % BLOCKSIZE)
      BY <1>5, <2>2, <2>4
    <3> QED BY <1>4, <2>1, <3>1 DEF Below, Zeros
  <2> QED BY <2>3, <2>4
<1>7. \A n \in Inum, o \in Offs : ByteAt(n, o)' = ByteAt(n, o)
  BY <1>1, SameBytes
<1> QED BY <1>1, <1>6, <1>7, NothingConsumed

\* The block that is cleared is a pointer of no tree on the disk.
LEMMA ZeroBytes ==
  ASSUME IInv, MemBytes, Writing, cleared' = cleared, ZeroIndirect
  PROVE  Serves
<1>1. /\ pc = "zero" /\ Running /\ req' = req /\ consumed' = consumed /\ inode' = inode
      /\ blk' = [blk EXCEPT ![Here] = Zeros] /\ blk \in [DataBlocks -> [Cells -> Cell]]
  BY DEF ZeroIndirect, consumed, Writing, IInv, TypeOK
<1>2. Top.i < Limit /\ ilevel > 0 /\ Here # 0 /\ depth \in 0 .. 2
  BY <1>1 DEF IInv, FramesOK, TypeOK
<1>3. /\ Here \in DataBlocks /\ HerePath \in Paths /\ HerePath[1] = req.inum /\ HerePath[2] = stk[0].i
      /\ HerePath[3] = (IF depth >= 1 THEN stk[1].i ELSE None)
      /\ HerePath[4] = (IF depth = 2 THEN stk[2].i ELSE None)
      /\ stk[0].i \in PtrIdx
  BY <1>1, <1>2, VisitedPointer
<1>4. SameBut(blk, blk', Here)
  BY <1>1 DEF SameBut
<1>5. depth \in 0 .. 1
  BY <1>2, <1>3, LevelRange DEF ilevel, PtrIdx
<1>6. PtrAt(inode, blk, HerePath) = 0
  <2>1. CASE depth = 0
    <3>1. inode[req.inum].ptrs[stk[0].i] = 0
      BY <1>1, <2>1 DEF IInv, Behind, Top
    <3> QED BY <1>3, <2>1, <3>1 DEF PtrAt
  <2>2. CASE depth = 1
    <3>1. blk[stk[1].n][stk[1].i] = 0
      BY <1>1, <2>2 DEF IInv, Behind, Top
    <3>2. inode[req.inum].ptrs[stk[0].i] \in {0, stk[1].n}
      BY <1>1, <1>3, <2>2 DEF IInv, Behind, FramesOK
    <3>3. stk[1].i # None
      BY DEF IInv, TypeOK, Frame, None
    <3>4. PtrAt(inode, blk, HerePath) = Below(blk, inode[req.inum].ptrs[stk[0].i], stk[1].i)
      BY <1>3, <2>2, <3>3 DEF PtrAt
    <3> QED BY <3>1, <3>2, <3>4 DEF Below
  <2> QED BY <1>5, <2>1, <2>2
<1>7. \A q \in Paths : PtrAt(inode, blk, q) # Here /\ PtrAt(inode, blk', q) = PtrAt(inode, blk, q)
  BY <1>1, <1>2, <1>4, <1>6, Unlinked
<1>8. \A n \in Inum, o \in Offs : ByteAt(n, o)' = ByteAt(n, o)
  BY <1>1, <1>3, <1>4, <1>7, SameLeaves
<1>9. ASSUME NEW n \in Inum, NEW o \in Offs PROVE MemByte(n, o)' = MemByte(n, o)
  <2> DEFINE q == BlockPath(n, o \div BLOCKSIZE)
             x == PtrAt(MemInode, MemBlk, q)
  <2>1. q \in Paths /\ IsLeaf(q) /\ o % BLOCKSIZE \in Cells
    BY LeafPath
  <2>2. PtrAt(MemInode', MemBlk', q) = x
    BY <2>1, ZeroIndirectStep DEF Kept
  <2>3. MemByte(n, o) = Below(blk, x, o % BLOCKSIZE) /\ MemByte(n, o)' = Below(blk', x, o % BLOCKSIZE)
    BY <2>2 DEF MemByte, Leaf
  <2>4. x = 0 \/ (x \in DataBlocks /\ x # Here)
    BY <1>1, <2>1, MemLeaf
  <2> HIDE DEF x
  <2> QED BY <1>4, <2>3, <2>4 DEF Below, SameBut
<1> QED BY <1>1, <1>8, <1>9, NothingConsumed

\* A block of pointers written back links blocks to the disk's trees that the
\* memory's trees hold already.
LEMMA WriteBackBytes ==
  ASSUME IInv, MemBytes, Writing, cleared' = cleared, WriteBack
  PROVE  Serves
<1>1. /\ req' = req /\ consumed' = consumed /\ inode' = inode /\ depth \in 1 .. 2
      /\ blk' = [blk EXCEPT ![Top.n] = Top.p] /\ blk \in [DataBlocks -> [Cells -> Cell]]
      /\ Running
  BY DEF WriteBack, consumed, Writing, IInv, TypeOK
<1>2. /\ Top.n \in DataBlocks /\ (depth = 1 => Top.n = stk[1].n) /\ (depth = 2 => Top.n = stk[2].n)
  BY <1>1, FrameBlocks DEF Top
<1>3. SameBut(blk, blk', Top.n) /\ blk'[Top.n] = Top.p
  BY <1>1, <1>2 DEF SameBut
<1>4. Fuller(blk, blk')
  <2>1. \A c \in Cells : blk[Top.n][c] \in {0, Top.p[c]}
    BY <1>1 DEF IInv, Behind, Top
  <2> QED BY <1>3, <2>1 DEF Fuller, SameBut
<1>5. IInv' /\ Kept
  BY WriteBackStep
<1>6. \A q \in Paths : PtrAt(inode', blk', q) \in {0, PtrAt(MemInode, MemBlk, q)}
  BY <1>5, DiskBehindNext DEF Kept
<1>7. \A q \in Paths : PtrAt(inode, blk, q) \in {0, PtrAt(inode', blk', q)}
  <2>1. Marked(inode, blk, bitmap)
    BY DiskSound
  <2> QED BY <1>1, <1>4, <2>1, MorePointers
<1>8. ASSUME NEW n \in Inum, NEW o \in Offs
      PROVE  MemByte(n, o)' = MemByte(n, o) /\ ByteAt(n, o)' \in {ByteAt(n, o), MemByte(n, o)}
  <2> DEFINE q == BlockPath(n, o \div BLOCKSIZE)
             x == PtrAt(MemInode, MemBlk, q)
             y == PtrAt(inode, blk, q)
             z == PtrAt(inode', blk', q)
  <2>1. q \in Paths /\ IsLeaf(q) /\ o % BLOCKSIZE \in Cells /\ o < MaxSize
    BY LeafPath
  <2>2. PtrAt(MemInode', MemBlk', q) = x
    BY <1>5, <2>1 DEF Kept
  <2>3. MemByte(n, o) = Below(blk, x, o % BLOCKSIZE) /\ MemByte(n, o)' = Below(blk', x, o % BLOCKSIZE)
    BY <2>2 DEF MemByte, Leaf
  <2>4. ByteAt(n, o) = Below(blk, y, o % BLOCKSIZE) /\ ByteAt(n, o)' = Below(blk', z, o % BLOCKSIZE)
    BY <2>1 DEF ByteAt, BlockOf
  <2>5. x = 0 \/ (x \in DataBlocks /\ x # Top.n)
    BY <1>1, <1>2, <2>1, MemLeaf
  <2>6. z \in {0, x} /\ y \in {0, z}
    BY <1>6, <1>7, <2>1
  <2> HIDE DEF x, y, z, q
  <2>7. Below(blk', x, o % BLOCKSIZE) = Below(blk, x, o % BLOCKSIZE)
    BY <1>3, <2>5 DEF Below, SameBut
  <2> QED BY <2>3, <2>4, <2>6, <2>7 DEF Below
<1> QED BY <1>1, <1>8, NothingConsumed

\* A call begins with nothing written.
LEMMA BeginBytes ==
  ASSUME IInv, NEW r \in Requests, Begin(r)
  PROVE  MemBytes'
<1>1. /\ req' = r /\ inode' = inode /\ blk' = blk /\ bitmap' = bitmap /\ consumed' = 0
      /\ pc = "idle" /\ depth = 0 /\ r.off \in Nat
  BY RequestTypes DEF Begin, Request, disk, consumed, IInv, FramesOK, Running, TypeOK, Clamped
<1>2. Kept
  BY BeginStep
<1>3. MemInode = inode /\ MemBlk = blk
  BY <1>1, IdleMemory DEF IInv, TypeOK
<1>4. ASSUME NEW n \in Inum, NEW o \in Offs PROVE MemByte(n, o)' = ByteAt(n, o)'
  <2> DEFINE q == BlockPath(n, o \div BLOCKSIZE)
  <2>1. q \in Paths /\ o < MaxSize
    BY LeafPath
  <2>2. PtrAt(MemInode', MemBlk', q) = PtrAt(inode, blk, q)
    BY <1>2, <1>3, <2>1 DEF Kept
  <2>3. MemByte(n, o)' = Below(blk', PtrAt(MemInode', MemBlk', q), o % BLOCKSIZE)
    BY DEF MemByte, Leaf
  <2>4. ByteAt(n, o)' = Below(blk', PtrAt(inode', blk', q), o % BLOCKSIZE)
    BY <2>1 DEF ByteAt, BlockOf
  <2> QED BY <1>1, <2>2, <2>3, <2>4
<1>5. \A n, o : ~Written(r, 0, n, o)
  BY <1>1 DEF Written
<1> QED BY <1>1, <1>4, <1>5 DEF MemBytes

LEMMA IdleTrees == IInv => (pc = "idle" /\ depth = 0 => MemInode = inode /\ MemBlk = blk)
BY IdleMemory DEF IInv, TypeOK

LEMMA IdleTreesNext == IInv' => (pc' = "idle" /\ depth' = 0 => MemInode' = inode' /\ MemBlk' = blk')
<1>1. (IInv => (pc = "idle" /\ depth = 0 => MemInode = inode /\ MemBlk = blk))'
  BY IdleTrees, PTL
<1> QED BY <1>1

\* The inode that is written links the tree of the memory to the disk.
LEMMA FinishBytes ==
  ASSUME IInv, MemBytes, Finish, Writing
  PROVE  \A n \in Inum, o \in Offs : ByteAt(n, o)' = MemByte(n, o)
<1>1. pc' = "idle" /\ depth' = 0 /\ blk' = blk /\ depth = 0
  BY DEF Finish
<1>2. IInv' /\ Kept
  BY FinishStep
<1>3. MemInode' = inode' /\ MemBlk' = blk'
  BY <1>1, <1>2, IdleTreesNext
<1> SUFFICES ASSUME NEW n \in Inum, NEW o \in Offs PROVE ByteAt(n, o)' = MemByte(n, o)
  OBVIOUS
<1> DEFINE q == BlockPath(n, o \div BLOCKSIZE)
<1>4. q \in Paths /\ o < MaxSize
  BY LeafPath
<1>5. PtrAt(inode', blk', q) = PtrAt(MemInode, MemBlk, q)
  BY <1>2, <1>3, <1>4 DEF Kept
<1>6. ByteAt(n, o)' = Below(blk', PtrAt(inode', blk', q), o % BLOCKSIZE)
  BY <1>4 DEF ByteAt, BlockOf
<1> QED BY <1>1, <1>5, <1>6 DEF MemByte, Leaf

\* The bytes of a file that a write stores in the data block it visits.
Stored(n, o) == /\ BlockPath(n, o \div BLOCKSIZE) = HerePath
                /\ start <= o % BLOCKSIZE /\ o % BLOCKSIZE < start + Taken

\* They are the next bytes of the request.
LEMMA HereOffsets ==
  ASSUME IInv, Visiting, Overlaps, ilevel = 0, req.w, At(req, stk, depth, sa),
         NEW n \in Inum, NEW o \in Offs
  PROVE  /\ Written(req, consumed + Taken, n, o) <=> Written(req, consumed, n, o) \/ Stored(n, o)
         /\ Stored(n, o) => ~Written(req, consumed, n, o)
         /\ Stored(n, o) => consumed + (o % BLOCKSIZE) - start + 1 = o - req.off + 1
<1>1. /\ Running /\ Top.i < Limit /\ BLOCKSIZE \in Nat \ {0}
  BY SizesAssumption DEF Visiting, Running
<1>2. PICK x \in Nat, b \in Nat : b = sa.boff /\ x = b * BLOCKSIZE
  BY VisitTypes
<1>3. PICK f \in Nat, d \in Nat, t \in Nat, s \in 0 .. BLOCKSIZE - 1 :
        /\ f = req.off /\ d = consumed /\ t = Taken /\ s = start /\ s + t <= BLOCKSIZE
        /\ t > 0 => x + s = f + d
  BY <1>1, <1>2, TakenBytes, VisitTypes, CallTypes DEF Cells
<1>4. /\ HerePath \in Paths /\ HerePath[1] = req.inum /\ PosOf(HerePath) = b
      /\ Levels(HerePath) = 0
  BY <1>1, <1>2, HerePlace DEF At
<1>5. BlockPath(req.inum, b) = HerePath
  <2>1. 0 \in 0 .. Span(0) - 1
    BY Spans
  <2> QED BY <1>4, <2>1, BlocksBelow
<1> DEFINE q == BlockPath(n, o \div BLOCKSIZE)
<1>6. o \in Nat /\ o % BLOCKSIZE \in Nat /\ q[1] = n /\ PosOf(q) = o \div BLOCKSIZE
  <2>1. o \in Nat /\ q[1] = n /\ PosOf(q) = o \div BLOCKSIZE
    BY LeafPath
  <2>2. o % BLOCKSIZE \in 0 .. BLOCKSIZE - 1
    BY <1>1, <2>1, Division
  <2> QED BY <2>1, <2>2
<1>7. PICK p \in Nat, c \in Nat : /\ p = o \div BLOCKSIZE /\ c = o % BLOCKSIZE
                                 /\ o = BLOCKSIZE * p + c
  <2>1. o \in Nat
    BY <1>6
  <2>2. /\ o \div BLOCKSIZE \in Nat /\ o % BLOCKSIZE \in 0 .. BLOCKSIZE - 1
        /\ o = BLOCKSIZE * (o \div BLOCKSIZE) + (o % BLOCKSIZE)
    BY <1>1, <2>1, Division
  <2>3. PICK p \in Nat, c \in Nat : p = o \div BLOCKSIZE /\ c = o % BLOCKSIZE
    BY <2>2
  <2>4. o = BLOCKSIZE * p + c
    BY <2>2, <2>3
  <2> QED BY <2>3, <2>4
<1>7a. p = o \div BLOCKSIZE /\ c = o % BLOCKSIZE
  BY <1>7
<1>8. q = HerePath => n = req.inum /\ o = x + c
  <2> SUFFICES ASSUME q = HerePath PROVE n = req.inum /\ o = x + c
    OBVIOUS
  <2>1. n = req.inum
    BY <1>4, <1>6
  <2>2. PosOf(q) = PosOf(HerePath)
    OBVIOUS
  <2> HIDE DEF q
  <2>3. p = b
    BY <1>4, <1>6, <1>7a, <2>2
  <2>4. PICK w \in Nat : w = BLOCKSIZE * p /\ w = x
    BY <1>1, <1>2, <2>3
  <2>5. o = w + c
    BY <1>7, <2>4
  <2> QED BY <2>1, <2>4, <2>5
<1>9. n = req.inum /\ x <= o /\ o < x + BLOCKSIZE => q = HerePath /\ c = o - x
  <2>1. ASSUME x <= o, o < x + BLOCKSIZE PROVE p = b /\ c = o - x
    <3>1. o \in Nat /\ b * BLOCKSIZE <= o /\ o < b * BLOCKSIZE + BLOCKSIZE
      BY <1>2, <1>6, <2>1
    <3>2. o \div BLOCKSIZE = b /\ o % BLOCKSIZE = o - b * BLOCKSIZE
      BY <1>1, <1>2, <3>1, InBlock
    <3> QED BY <1>2, <1>7a, <3>2
  <2> QED BY <1>5, <1>7, <2>1
<1> DEFINE new == q = HerePath /\ s <= c /\ c < s + t
<1>10. new <=> n = req.inum /\ f + d <= o /\ o < f + d + t
  <2>1. ASSUME new PROVE n = req.inum /\ f + d <= o /\ o < f + d + t
    BY <1>3, <1>8, <2>1
  <2>2. ASSUME n = req.inum, f + d <= o, o < f + d + t PROVE new
    <3>1. x + s = f + d /\ t > 0
      BY <1>3, <1>6, <2>2
    <3>2. x <= o /\ o < x + BLOCKSIZE
      BY <1>1, <1>3, <1>6, <2>2, <3>1
    <3> QED BY <1>3, <1>6, <1>9, <2>2, <3>1, <3>2
  <2> QED BY <2>1, <2>2
<1>11. new => d + c - s + 1 = o - f + 1
  BY <1>3, <1>8
<1>12. Stored(n, o) <=> new
  BY <1>3, <1>7 DEF Stored
<1> HIDE DEF new
<1>13. Written(req, d + t, n, o) <=> n = req.inum /\ f <= o /\ o < f + d + t
  BY <1>3, <1>6 DEF Written
<1>14. Written(req, d, n, o) <=> n = req.inum /\ f <= o /\ o < f + d
  BY <1>3, <1>6 DEF Written
<1>15. /\ Written(req, consumed + Taken, n, o) <=> Written(req, d + t, n, o)
       /\ Written(req, consumed, n, o) <=> Written(req, d, n, o)
  BY <1>3
<1>17. Written(req, d + t, n, o) <=> Written(req, d, n, o) \/ new
  <2>1. f \in Nat /\ d \in Nat /\ t \in Nat
    OBVIOUS
  <2> QED BY <1>6, <1>10, <1>13, <1>14, <2>1
<1>18. new => ~Written(req, d, n, o)
  BY <1>3, <1>6, <1>10, <1>14
<1>19. new => consumed + (o % BLOCKSIZE) - start + 1 = o - req.off + 1
  <2>1. consumed + (o % BLOCKSIZE) - start + 1 = d + c - s + 1
    BY <1>3, <1>7
  <2>2. o - req.off + 1 = o - f + 1
    BY <1>3
  <2> QED BY <1>11, <2>1, <2>2
<1> QED BY <1>12, <1>15, <1>17, <1>18, <1>19

\* What becomes of the data block of a write.
LEMMA StoredBlock ==
  ASSUME IInv, Writing, DataBlock, At(req, stk, depth, sa)
  PROVE  /\ req' = req /\ inode' = inode /\ consumed' = consumed + Taken /\ Kept
         /\ Visiting /\ Overlaps /\ ilevel = 0 /\ Running /\ req.w /\ Top.i < Limit
         /\ Here \in DataBlocks /\ SameBut(blk, blk', Here) /\ Here # 0
         /\ HerePath \in Paths /\ PtrAt(MemInode, MemBlk, HerePath) = Here /\ IsLeaf(HerePath)
         /\ \A c \in Cells :
              blk'[Here][c] = IF start <= c /\ c < start + Taken
                              THEN req.buf[consumed + c - start + 1] ELSE blk[Here][c]
<1> DEFINE bytes == [c \in Cells |->
                       IF req.w /\ c >= start /\ c < start + Taken
                       THEN req.buf[consumed + c - start + 1] ELSE blk[Here][c]]
<1>1. /\ req' = req /\ inode' = inode /\ Visiting /\ Overlaps /\ ilevel = 0 /\ Running /\ req.w
      /\ Top.i < Limit /\ Here # 0 /\ blk' = [blk EXCEPT ![Here] = bytes]
      /\ blk \in [DataBlocks -> [Cells -> Cell]] /\ start \in Int /\ Taken \in Int
  BY TakenBytes DEF DataBlock, Writing, Visiting, Running, Taken, IInv, TypeOK, Cells
<1>2. consumed' = consumed + Taken /\ Kept
  BY DataBlockAt, DataBlockStep DEF consumed
<1>3. HerePath \in Paths /\ PtrAt(MemInode, MemBlk, HerePath) = Here /\ Here \in DataBlocks
  BY <1>1, VisitedPointer
<1>4. Levels(HerePath) = 0
  BY <1>1, HerePlace
<1>5. IsLeaf(HerePath)
  BY <1>3, <1>4, LeafTypes
<1>6. blk'[Here] = bytes /\ SameBut(blk, blk', Here)
  BY <1>1, <1>3 DEF SameBut
<1>7. \A c \in Cells : bytes[c] = IF start <= c /\ c < start + Taken
                                  THEN req.buf[consumed + c - start + 1] ELSE blk[Here][c]
  BY <1>1 DEF Cells
<1> QED BY <1>1, <1>2, <1>3, <1>5, <1>6, <1>7

\* A data block that is written serves the next bytes of the request, on the
\* disk too when the block is linked already.
LEMMA DataBlockBytes ==
  ASSUME IInv, Walk, MemBytes, Writing, cleared' = cleared, DataBlock
  PROVE  Serves
<1>0. At(req, stk, depth, sa)
  BY DEF Walk, DataBlock, Visiting
<1>1. /\ req' = req /\ inode' = inode /\ consumed' = consumed + Taken /\ Kept
      /\ Visiting /\ Overlaps /\ ilevel = 0 /\ Running /\ req.w /\ Top.i < Limit
      /\ Here \in DataBlocks /\ SameBut(blk, blk', Here) /\ Here # 0
      /\ HerePath \in Paths /\ PtrAt(MemInode, MemBlk, HerePath) = Here /\ IsLeaf(HerePath)
      /\ \A c \in Cells :
           blk'[Here][c] = IF start <= c /\ c < start + Taken
                           THEN req.buf[consumed + c - start + 1] ELSE blk[Here][c]
  BY <1>0, StoredBlock
<1>2. \A n \in Inum, o \in Offs :
        /\ Written(req, consumed, n, o) => MemByte(n, o) = req.buf[o - req.off + 1]
        /\ ~Written(req, consumed, n, o) => MemByte(n, o) = ByteAt(n, o)
  BY DEF MemBytes, Writing
<1>3. ASSUME NEW n \in Inum, NEW o \in Offs
      PROVE  /\ Written(req, consumed', n, o) <=> Written(req, consumed, n, o) \/ Stored(n, o)
             /\ Stored(n, o) => ~Written(req, consumed, n, o)
             /\ Stored(n, o) => blk'[Here][o % BLOCKSIZE] = req.buf[o - req.off + 1]
             /\ BlockPath(n, o \div BLOCKSIZE) = HerePath /\ ~Stored(n, o) =>
                  blk'[Here][o % BLOCKSIZE] = blk[Here][o % BLOCKSIZE]
  <2>1. o % BLOCKSIZE \in Cells
    BY LeafPath
  <2>2. /\ Written(req, consumed + Taken, n, o) <=> Written(req, consumed, n, o) \/ Stored(n, o)
        /\ Stored(n, o) => ~Written(req, consumed, n, o)
        /\ Stored(n, o) => consumed + (o % BLOCKSIZE) - start + 1 = o - req.off + 1
    BY <1>0, <1>1, HereOffsets
  <2>3. blk'[Here][o % BLOCKSIZE] =
          IF start <= o % BLOCKSIZE /\ o % BLOCKSIZE < start + Taken
          THEN req.buf[consumed + (o % BLOCKSIZE) - start + 1] ELSE blk[Here][o % BLOCKSIZE]
    BY <1>1, <2>1
  <2> QED BY <1>1, <2>2, <2>3 DEF Stored
<1>4. ASSUME NEW n \in Inum, NEW o \in Offs
      PROVE  MemByte(n, o)' = IF BlockPath(n, o \div BLOCKSIZE) = HerePath
                              THEN blk'[Here][o % BLOCKSIZE] ELSE MemByte(n, o)
  <2> DEFINE q == BlockPath(n, o \div BLOCKSIZE)
             x == PtrAt(MemInode, MemBlk, q)
  <2>1. q \in Paths /\ IsLeaf(q) /\ o % BLOCKSIZE \in Cells
    BY LeafPath
  <2>2. PtrAt(MemInode', MemBlk', q) = x
    BY <1>1, <2>1 DEF Kept
  <2>3. MemByte(n, o) = Below(blk, x, o % BLOCKSIZE) /\ MemByte(n, o)' = Below(blk', x, o % BLOCKSIZE)
    BY <2>2 DEF MemByte, Leaf
  <2>4. x = 0 \/ (x \in DataBlocks /\ (x = Here => q = HerePath))
    BY <1>1, <2>1, MemLeaf
  <2>5. q = HerePath => x = Here
    BY <1>1
  <2> HIDE DEF x, q
  <2>6. CASE q = HerePath
    BY <1>1, <2>3, <2>5, <2>6 DEF Below, q
  <2>7. CASE q # HerePath
    <3>1. Below(blk', x, o % BLOCKSIZE) = Below(blk, x, o % BLOCKSIZE)
      BY <1>1, <2>4, <2>7 DEF Below, SameBut
    <3> QED BY <2>3, <2>7, <3>1 DEF q
  <2> QED BY <2>6, <2>7
<1>5. CASE PtrAt(inode, blk, HerePath) = 0
  <2>1. \A q \in Paths : PtrAt(inode, blk, q) # Here /\ PtrAt(inode, blk', q) = PtrAt(inode, blk, q)
    BY <1>1, <1>5, Unlinked
  <2>2. \A n \in Inum, o \in Offs : ByteAt(n, o)' = ByteAt(n, o)
    BY <1>1, <2>1, SameLeaves
  <2>3. ASSUME NEW n \in Inum, NEW o \in Offs
        PROVE  BlockPath(n, o \div BLOCKSIZE) = HerePath /\ ~Stored(n, o) => MemByte(n, o)' = MemByte(n, o)
    <3>1. MemByte(n, o) = Below(blk, PtrAt(MemInode, MemBlk, BlockPath(n, o \div BLOCKSIZE)), o % BLOCKSIZE)
      BY DEF MemByte, Leaf
    <3> QED BY <1>1, <1>3, <1>4, <3>1 DEF Below
  <2>4. MemBytes'
    <3> SUFFICES ASSUME NEW n \in Inum, NEW o \in Offs
                 PROVE  /\ Written(req, consumed', n, o) => MemByte(n, o)' = req.buf[o - req.off + 1]
                        /\ ~Written(req, consumed', n, o) => MemByte(n, o)' = ByteAt(n, o)'
      BY <1>1 DEF MemBytes
    <3>1. MemByte(n, o)' = IF Stored(n, o) THEN req.buf[o - req.off + 1] ELSE MemByte(n, o)
      <4>1. CASE Stored(n, o)
        <5>1. BlockPath(n, o \div BLOCKSIZE) = HerePath
          BY <4>1 DEF Stored
        <5> QED BY <1>3, <1>4, <4>1, <5>1
      <4>2. CASE ~Stored(n, o)
        BY <1>4, <2>3, <4>2
      <4> QED BY <4>1, <4>2
    <3> QED BY <1>2, <1>3, <2>2, <3>1
  <2> QED BY <1>1, <2>2, <2>4 DEF Serves, DiskStep
<1>6. CASE PtrAt(inode, blk, HerePath) = Here
  <2>1. \A q \in Paths : PtrAt(inode, blk', q) = PtrAt(inode, blk, q)
    BY <1>1, <1>6, DiskSound, LeafContents
  <2>2. ASSUME NEW n \in Inum, NEW o \in Offs
        PROVE  /\ ByteAt(n, o)' = IF BlockPath(n, o \div BLOCKSIZE) = HerePath
                                  THEN blk'[Here][o % BLOCKSIZE] ELSE ByteAt(n, o)
               /\ BlockPath(n, o \div BLOCKSIZE) = HerePath =>
                    ByteAt(n, o) = blk[Here][o % BLOCKSIZE] /\ MemByte(n, o) = blk[Here][o % BLOCKSIZE]
    <3> DEFINE q == BlockPath(n, o \div BLOCKSIZE)
               y == PtrAt(inode, blk, q)
    <3>1. q \in Paths /\ o % BLOCKSIZE \in Cells /\ o < MaxSize
      BY LeafPath
    <3>2. /\ ByteAt(n, o) = Below(blk, y, o % BLOCKSIZE)
          /\ ByteAt(n, o)' = Below(blk', PtrAt(inode', blk', q), o % BLOCKSIZE)
          /\ MemByte(n, o) = Below(blk, PtrAt(MemInode, MemBlk, q), o % BLOCKSIZE)
      BY <3>1 DEF ByteAt, BlockOf, MemByte, Leaf
    <3>3. ByteAt(n, o)' = Below(blk', y, o % BLOCKSIZE)
      BY <1>1, <2>1, <3>1, <3>2
    <3>4. y = 0 \/ (y \in DataBlocks /\ (y = Here => q = HerePath))
      BY <1>1, <1>6, <3>1, DiskSound DEF Marked, Unshared
    <3>5. q = HerePath => y = Here /\ PtrAt(MemInode, MemBlk, q) = Here
      BY <1>1, <1>6
    <3> HIDE DEF y, q
    <3>6. CASE q = HerePath
      BY <1>1, <3>2, <3>3, <3>5, <3>6 DEF Below, q
    <3>7. CASE q # HerePath
      <4>1. Below(blk', y, o % BLOCKSIZE) = Below(blk, y, o % BLOCKSIZE)
        BY <1>1, <3>4, <3>7 DEF Below, SameBut
      <4> QED BY <3>2, <3>3, <3>7, <4>1 DEF q
    <3> QED BY <3>6, <3>7
  <2>3. ASSUME NEW n \in Inum, NEW o \in Offs
        PROVE  /\ Stored(n, o) => /\ MemByte(n, o)' = req.buf[o - req.off + 1]
                                  /\ ByteAt(n, o)' = req.buf[o - req.off + 1]
               /\ ~Stored(n, o) => MemByte(n, o)' = MemByte(n, o) /\ ByteAt(n, o)' = ByteAt(n, o)
    <3>1. CASE Stored(n, o)
      <4>1. BlockPath(n, o \div BLOCKSIZE) = HerePath
        BY <3>1 DEF Stored
      <4> QED BY <1>3, <1>4, <2>2, <3>1, <4>1
    <3>2. CASE ~Stored(n, o) /\ BlockPath(n, o \div BLOCKSIZE) = HerePath
      BY <1>3, <1>4, <2>2, <3>2
    <3>3. CASE BlockPath(n, o \div BLOCKSIZE) # HerePath
      <4>1. ~Stored(n, o)
        BY <3>3 DEF Stored
      <4> QED BY <1>4, <2>2, <3>3, <4>1
    <3> QED BY <3>1, <3>2, <3>3
  <2>4. MemBytes'
    <3> SUFFICES ASSUME NEW n \in Inum, NEW o \in Offs
                 PROVE  /\ Written(req, consumed', n, o) => MemByte(n, o)' = req.buf[o - req.off + 1]
                        /\ ~Written(req, consumed', n, o) => MemByte(n, o)' = ByteAt(n, o)'
      BY <1>1 DEF MemBytes
    <3> QED BY <1>2, <1>3, <2>3
  <2>5. DiskStep
    <3> SUFFICES ASSUME NEW n \in Inum, NEW o \in Offs
                 PROVE  \/ ByteAt(n, o)' = ByteAt(n, o)
                        \/ /\ req.w /\ Written(req, consumed', n, o)
                           /\ ByteAt(n, o)' = req.buf[o - req.off + 1]
      BY DEF DiskStep
    <3> QED BY <1>1, <1>3, <2>3
  <2> QED BY <2>4, <2>5 DEF Serves
<1>7. PtrAt(inode, blk, HerePath) \in {0, Here}
  BY <1>1, DiskBehind
<1> QED BY <1>5, <1>6, <1>7

\* What a step of recursive_rw() consumes.
LEMMA MoreConsumed ==
  ASSUME IInv, Walk, recursive_rw
  PROVE  /\ Running /\ req' = req /\ crashes' = crashes /\ inode' = inode
         /\ consumed \in Nat /\ consumed' \in Nat /\ consumed <= consumed' /\ consumed' <= sa.sz
         /\ ~DataBlock /\ ~Hole => consumed' = consumed
<1>1. /\ Running /\ req' = req /\ crashes' = crashes /\ inode' = inode
  BY DEF recursive_rw, Skip, Alloc, ZeroIndirect, OutOfBlocks, Hole, Descend, DataBlock,
         WriteBack, Visiting, Leaving, Running, disk
<1>2. /\ sa \in [boff : Nat, off : Nat, left : Nat, sz : Nat]
      /\ consumed \in Nat /\ consumed = sa.sz - sa.left /\ consumed <= sa.sz
  BY <1>1, CallTypes
<1>3. CASE Skip
  BY <1>1, <1>2, <1>3 DEF Skip, consumed, DataBlock, Hole
<1>4. CASE Alloc \/ OutOfBlocks \/ Descend \/ WriteBack \/ ZeroIndirect
  BY <1>1, <1>2, <1>4 DEF Alloc, OutOfBlocks, Descend, WriteBack, ZeroIndirect, consumed
<1>5. CASE Hole
  <2>1. PICK h \in Nat : h = HoleSize /\ h <= sa.left
    <3>1. Span(ilevel) * BLOCKSIZE \in Nat /\ sa.left \in Nat
      BY <1>2, Counters DEF IInv
    <3> QED BY <3>1 DEF HoleSize, Least
  <2>2. sa' = [sa EXCEPT !.boff = eblock, !.left = @ - h, !.off = @ + h]
    BY <1>5, <2>1 DEF Hole
  <2>3. sa'.sz = sa.sz /\ sa'.left = sa.left - h
    BY <1>2, <2>2
  <2> QED BY <1>1, <1>2, <1>5, <2>1, <2>3 DEF consumed
<1>6. CASE DataBlock
  <2>1. /\ Visiting /\ Overlaps /\ ilevel = 0 /\ At(req, stk, depth, sa)
    BY <1>6 DEF DataBlock, Walk, Visiting
  <2>2. consumed' = consumed + Taken
    BY <1>6, <2>1, DataBlockAt DEF consumed
  <2>3. Taken \in Nat /\ consumed + Taken <= sa.sz
    BY <2>1, TakenBytes
  <2> QED BY <1>1, <1>2, <1>6, <2>2, <2>3
<1> QED BY <1>3, <1>4, <1>5, <1>6 DEF recursive_rw

\* Every step of a write serves its request.
LEMMA WriteServes ==
  ASSUME IInv, Walk, Fresh, MemBytes, Writing, cleared' = cleared, recursive_rw
  PROVE  Serves
<1>1. req' = req /\ inode' = inode /\ (~DataBlock /\ ~Hole => consumed' = consumed)
  BY MoreConsumed
<1>2. CASE Skip
  <2>1. blk' = blk /\ ~DataBlock /\ ~Hole /\ Kept
    BY <1>2, SkipStep DEF Skip, disk, DataBlock, Hole
  <2> QED BY <1>1, <2>1, NothingStored
<1>3. CASE OutOfBlocks
  <2>1. blk' = blk /\ consumed' = consumed /\ Kept
    BY <1>3, OutOfBlocksStep DEF OutOfBlocks, disk, consumed
  <2> QED BY <1>1, <2>1, NothingStored
<1>4. CASE Descend
  <2>1. blk' = blk /\ consumed' = consumed /\ Kept
    BY <1>4, DescendStep DEF Descend, disk, consumed
  <2> QED BY <1>1, <2>1, NothingStored
<1>5. ~Hole
  BY DEF Hole, Writing
<1> QED BY <1>2, <1>3, <1>4, <1>5, AllocBytes, ZeroBytes, WriteBackBytes, DataBlockBytes
        DEF recursive_rw

-----------------------------------------------------------------------------
\* The steps of FsFiles.
Steps == [Next]_vars /\ cleared' = cleared

\* The memory's trees hold what has been written.
LEMMA MemBytesStep ==
  ASSUME IInv, Walk, Fresh, MemBytes, Steps
  PROVE  MemBytes'
<1>0. cleared' = cleared
  BY DEF Steps
<1>1. ASSUME NEW r \in Requests, Begin(r) PROVE MemBytes'
  BY <1>1, BeginBytes
<1>2. ASSUME NEW r \in Requests, Refuse(r) PROVE MemBytes'
  BY <1>2 DEF Refuse, Request, MemBytes, Running
<1>3. CASE Finish \/ Crash
  BY <1>3 DEF Finish, Crash, MemBytes, Running
<1>4. CASE recursive_rw
  <2>1. Running /\ req' = req
    BY <1>4, MoreConsumed
  <2>2. CASE Writing
    BY <1>0, <1>4, <2>2, WriteServes DEF Serves
  <2>3. CASE ~Writing
    BY <1>0, <2>1, <2>3 DEF MemBytes, Writing
  <2> QED BY <2>2, <2>3
<1>5. CASE UNCHANGED vars
  <2>1. /\ req' = req /\ sa' = sa /\ blk' = blk /\ inode' = inode /\ pc' = pc /\ stk' = stk
        /\ depth' = depth
    BY <1>5 DEF vars
  <2>2. MemInode' = MemInode /\ MemBlk' = MemBlk
    BY <2>1 DEF MemInode, MemBlk, Top, Here
  <2>3. \A n \in Inum, o \in Offs : MemByte(n, o)' = MemByte(n, o)
    BY <2>1, <2>2 DEF MemByte, Leaf
  <2>4. \A n \in Inum, o \in Offs : ByteAt(n, o)' = ByteAt(n, o)
    BY <2>1, SameBytes
  <2> QED BY <1>0, <2>1, <2>3, <2>4 DEF MemBytes, Running, consumed
<1> QED BY <1>1, <1>2, <1>3, <1>4, <1>5 DEF Steps, Next

-----------------------------------------------------------------------------
\* The blocks that a step may write are marked.
LEMMA MarkedWritten ==
  ASSUME IInv, [Next]_vars
  PROVE  /\ bitmap \subseteq bitmap'
         /\ \A b \in DataBlocks : Bit(b) \notin bitmap => blk'[b] = blk[b]
<1>0. blk \in [DataBlocks -> [Cells -> Cell]]
  BY DEF IInv, TypeOK
<1>1. CASE blk' = blk
  <2>1. bitmap \subseteq bitmap'
    BY <1>1 DEF Next, Begin, Refuse, Request, recursive_rw, Skip, Alloc, bitmap_alloc, ZeroIndirect,
           OutOfBlocks, Hole, Descend, DataBlock, WriteBack, Finish, Crash, disk, vars
  <2> QED BY <1>1, <2>1
<1>2. CASE ZeroIndirect \/ DataBlock
  <2>1. Running /\ Top.i < Limit /\ Here # 0 /\ bitmap' = bitmap
        /\ \E z : blk' = [blk EXCEPT ![Here] = z]
    BY <1>2 DEF ZeroIndirect, DataBlock, Visiting, Running, IInv, FramesOK
  <2>2. Here \in DataBlocks /\ Bit(Here) \in bitmap
    BY <2>1, VisitedPointer
  <2> QED BY <1>0, <2>1, <2>2
<1>3. CASE WriteBack
  <2>1. /\ depth \in 1 .. 2 /\ bitmap' = bitmap /\ blk' = [blk EXCEPT ![Top.n] = Top.p] /\ None \notin Cells
    BY <1>3 DEF WriteBack, IInv, TypeOK, None, Cells
  <2>2. CASE depth = 1
    <3> DEFINE s == <<req.inum, stk[0].i, None, None>>
    <3>1. stk[0].i \in PtrIdx /\ req.inum \in Inum /\ PtrAt(MemInode, MemBlk, s) = stk[1].n
      BY <2>2, FrameBlocks
    <3>2. s \in Paths /\ stk[1].n # 0
      BY <2>2, <3>1, PathTop DEF IInv, FramesOK
    <3> HIDE DEF s
    <3>3. Bit(Top.n) \in bitmap
      BY <2>2, <3>1, <3>2 DEF IInv, MemMarked, Marked, Top
    <3> QED BY <1>0, <2>1, <3>3
  <2>3. CASE depth = 2
    <3> DEFINE s == <<req.inum, stk[0].i, stk[1].i, None>>
    <3>1. /\ stk[0].i \in PtrIdx /\ req.inum \in Inum /\ stk[1].i \in Cells
          /\ get_ilevel(stk[0].i) = 2 /\ PtrAt(MemInode, MemBlk, s) = stk[2].n
      BY <2>3, FrameBlocks
    <3>2. s \in Paths /\ stk[2].n # 0
      BY <2>3, <3>1, PathOne DEF IInv, FramesOK
    <3> HIDE DEF s
    <3>3. Bit(Top.n) \in bitmap
      BY <2>3, <3>1, <3>2 DEF IInv, MemMarked, Marked, Top
    <3> QED BY <1>0, <2>1, <3>3
  <2> QED BY <2>1, <2>2, <2>3
<1>4. blk' = blk \/ ZeroIndirect \/ DataBlock \/ WriteBack
  BY DEF Next, Begin, Refuse, Request, recursive_rw, Skip, Alloc,
         OutOfBlocks, Hole, Descend, Finish, Crash, disk, vars
<1> QED BY <1>1, <1>2, <1>3, <1>4

\* A block that was never marked stays as it was.
LEMMA FreshStep ==
  ASSUME IInv, Fresh, Steps
  PROVE  Fresh'
BY MarkedWritten DEF Fresh, Steps

\* What a byte on the disk may become in any step but the last of a call.
LEMMA BytesStep ==
  ASSUME IInv, Walk, ReadFrames, Fresh, MemBytes, recursive_rw, cleared, cleared' = cleared
  PROVE  DiskStep /\ (~req.w => \A n \in Inum, o \in Offs : ByteAt(n, o)' = ByteAt(n, o))
<1>1. Running /\ req.w \in BOOLEAN
  BY MoreConsumed, CallTypes
<1>2. CASE req.w
  BY <1>1, <1>2, WriteServes DEF Writing, Serves
<1>3. CASE ~req.w
  <2>1. ~Crash
    BY MoreConsumed, SizesAssumption DEF Crash, IInv, TypeOK
  <2>2. inode' = inode /\ blk' = blk
    BY <1>1, <1>3, <2>1, ReadFramesStep DEF Next
  <2> QED BY <2>2, SameBytes DEF DiskStep
<1> QED BY <1>1, <1>2, <1>3

\* What the disk holds when a call returns.
LEMMA LastBytes ==
  ASSUME IInv, MemBytes, Finish, cleared, NEW n \in Inum, NEW o \in Offs
  PROVE  ByteAt(n, o)' = IF req.w /\ Written(req, consumed, n, o)
                         THEN req.buf[o - req.off + 1] ELSE ByteAt(n, o)
<1>1. Running /\ req.w \in BOOLEAN /\ blk' = blk
  BY CallTypes DEF Finish, Leaving, Running
<1>2. CASE req.w
  <2>1. ByteAt(n, o)' = MemByte(n, o)
    BY <1>1, <1>2, FinishBytes DEF Writing
  <2> QED BY <1>1, <1>2, <2>1 DEF MemBytes
<1>3. CASE ~req.w
  <2>1. inode' = inode
    BY <1>3 DEF Finish, Stores
  <2> QED BY <1>1, <1>3, <2>1, SameBytes
<1> QED BY <1>1, <1>2, <1>3

\* The size of a file when a call returns.
LEMMA LastSize ==
  ASSUME IInv, Finish, NEW n \in Inum
  PROVE  /\ inode'[n].size = IF req.w /\ n = req.inum /\ inode[n].size <= req.off + consumed
                             THEN req.off + consumed ELSE inode[n].size
         /\ inode'[n].size \in Nat /\ inode[n].size \in Nat
         /\ req.off \in Nat /\ consumed \in Nat /\ req.inum \in Inum
<1>1. /\ Running /\ req.w \in BOOLEAN /\ req.off \in Nat /\ consumed \in Nat /\ req.inum \in Inum
      /\ \A m \in Inum : inode[m].size \in Nat
  BY CallTypes DEF Finish, Leaving, Running, IInv, TypeOK
<1>2. CASE ~req.w
  BY <1>1, <1>2 DEF Finish, Stores
<1>3. CASE req.w
  <2>1. /\ inode' = [inode EXCEPT ![req.inum] = [size |-> NewSize, ptrs |-> Top.p]]
        /\ inode \in [Inum -> [size : Nat, ptrs : [PtrIdx -> Ptr]]]
    BY <1>3 DEF Finish, Stores, IInv, TypeOK
  <2>2. inode'[n].size = IF n = req.inum THEN NewSize ELSE inode[n].size
    BY <2>1
  <2>3. NewSize = IF inode[req.inum].size > req.off + consumed THEN inode[req.inum].size
                  ELSE req.off + consumed
    BY DEF NewSize, Most
  <2>4. CASE n = req.inum
    <3>1. inode'[n].size = IF inode[n].size > req.off + consumed THEN inode[n].size
                           ELSE req.off + consumed
      BY <2>2, <2>3, <2>4
    <3>2. PICK a \in Nat, b \in Nat, c \in Nat : a = inode[n].size /\ b = req.off /\ c = consumed
      BY <1>1
    <3>3. inode'[n].size = IF a <= b + c THEN b + c ELSE a
      BY <3>1, <3>2
    <3> QED BY <1>1, <1>3, <2>4, <3>2, <3>3
  <2>5. CASE n # req.inum
    BY <1>1, <2>2, <2>5
  <2> QED BY <2>4, <2>5
<1> QED BY <1>1, <1>2, <1>3

\* The bytes that a write has stored behind the end lie before the size it sets.
LEMMA GapStep ==
  ASSUME IInv, Walk, ReadFrames, Fresh, MemBytes, Gap, Steps
  PROVE  Gap'
<1> SUFFICES ASSUME cleared', crashes' = 0, NEW n \in Inum, NEW o \in Offs, o >= inode'[n].size,
                    ~(Running' /\ req'.w /\ Written(req', consumed', n, o))
             PROVE  ByteAt(n, o)' = 0
  BY DEF Gap
<1>0. cleared /\ cleared' = cleared /\ o \in Nat
  BY LeafPath DEF Steps
<1>1. ASSUME crashes = 0, o >= inode[n].size, ~(Running /\ req.w /\ Written(req, consumed, n, o))
      PROVE  ByteAt(n, o) = 0
  BY <1>0, <1>1 DEF Gap
<1>2. ASSUME NEW r \in Requests, Begin(r) \/ Refuse(r) PROVE ByteAt(n, o)' = 0
  <2>1. ~Running /\ inode' = inode /\ blk' = blk /\ crashes' = crashes
    BY <1>2 DEF Begin, Refuse, Request, disk, Running
  <2> QED BY <1>1, <2>1, SameBytes
<1>3. CASE recursive_rw
  <2>1. /\ Running /\ req' = req /\ crashes' = crashes /\ inode' = inode /\ Running'
        /\ consumed \in Nat /\ consumed' \in Nat /\ consumed <= consumed' /\ req.off \in Nat
        /\ req.w \in BOOLEAN
    BY <1>3, MoreConsumed, CallTypes
       DEF recursive_rw, Skip, Alloc, ZeroIndirect, OutOfBlocks, Hole, Descend, DataBlock,
           WriteBack, Visiting, Leaving, Running
  <2>2. DiskStep /\ (~req.w => ByteAt(n, o)' = ByteAt(n, o))
    BY <1>0, <1>3, BytesStep
  <2>3. CASE ~req.w
    BY <1>1, <2>1, <2>2, <2>3
  <2>4. CASE req.w
    <3>1. ~Written(req, consumed', n, o)
      BY <2>1, <2>4
    <3>2. ~Written(req, consumed, n, o)
      BY <1>0, <2>1, <3>1 DEF Written
    <3>3. ByteAt(n, o)' = ByteAt(n, o)
      BY <2>2, <3>1 DEF DiskStep
    <3> QED BY <1>1, <2>1, <3>2, <3>3
  <2> QED BY <2>1, <2>3, <2>4
<1>4. CASE Finish
  <2>1. crashes' = crashes
    BY <1>4 DEF Finish
  <2>2. /\ inode'[n].size = IF req.w /\ n = req.inum /\ inode[n].size <= req.off + consumed
                            THEN req.off + consumed ELSE inode[n].size
        /\ inode[n].size \in Nat /\ req.off \in Nat /\ consumed \in Nat
    BY <1>4, LastSize
  <2>3. o >= inode[n].size
    BY <1>0, <2>2
  <2>4. ~(req.w /\ Written(req, consumed, n, o))
    <3>1. ASSUME req.w, n = req.inum, o < req.off + consumed PROVE FALSE
      BY <1>0, <2>2, <3>1
    <3> QED BY <1>0, <2>2, <3>1 DEF Written
  <2>5. ByteAt(n, o)' = ByteAt(n, o)
    BY <1>0, <1>4, <2>4, LastBytes
  <2> QED BY <1>1, <2>1, <2>3, <2>4, <2>5
<1>5. CASE Crash
  BY <1>5 DEF Crash, IInv, TypeOK
<1>6. CASE UNCHANGED vars
  <2>1. /\ Running' = Running /\ req' = req /\ inode' = inode /\ blk' = blk /\ crashes' = crashes
        /\ consumed' = consumed
    BY <1>6 DEF vars, Running, consumed
  <2> QED BY <1>1, <2>1, SameBytes
<1> QED BY <1>2, <1>3, <1>4, <1>5, <1>6 DEF Steps, Next

-----------------------------------------------------------------------------
\* A formatted partition holds empty files.
LEMMA NoBytes ==
  ASSUME Init, NEW n \in Inum, NEW o \in Offs
  PROVE  ByteAt(n, o) = 0
<1> DEFINE q == BlockPath(n, o \div BLOCKSIZE)
<1>1. q \in Paths /\ o < MaxSize
  BY LeafPath
<1>2. \A m \in Inum, i \in PtrIdx : inode[m].ptrs[i] = 0
  BY DEF Init, NoPtrs
<1>3. PtrAt(inode, blk, q) = 0
  BY <1>1, <1>2, PathShapes DEF PtrAt, Below
<1>4. BlockOf(n, o) = 0
  BY <1>1, <1>3 DEF BlockOf
<1> QED BY <1>4 DEF ByteAt, Below

\* The inductive invariant of the files' bytes.
OnDisk == IInv /\ Walk /\ ReadFrames /\ Fresh /\ MemBytes /\ Gap

LEMMA OnDiskInit == FilesInit => OnDisk
<1> SUFFICES ASSUME FilesInit PROVE OnDisk
  OBVIOUS
<1>1. Init /\ IInv /\ Walk /\ ReadFrames
  BY InitHolds, WalkInit, ReadFramesInit DEF FilesInit
<1>2. Fresh
  BY DEF FilesInit, Fresh
<1>3. MemBytes
  BY <1>1 DEF Init, MemBytes, Running
<1>4. \A n \in Inum, o \in Offs : ByteAt(n, o) = 0
  BY <1>1, NoBytes
<1> QED BY <1>1, <1>2, <1>3, <1>4 DEF Gap, OnDisk

LEMMA OnDiskStep == OnDisk /\ [FilesNext]_<<vars, cleared>> => OnDisk'
<1> SUFFICES ASSUME OnDisk, [FilesNext]_<<vars, cleared>> PROVE OnDisk'
  OBVIOUS
<1>1. Steps
  BY DEF FilesNext, Steps
<1>2. [Next]_vars
  BY <1>1 DEF Steps
<1>3. IInv'
  BY <1>2, InductiveStep DEF OnDisk
<1> QED BY <1>1, <1>2, <1>3, WalkStep, ReadFramesStep, FreshStep, MemBytesStep, GapStep DEF OnDisk

\* As long as no call is interrupted, a file has zeros behind its end on a
\* partition that was clear: a write beyond the end leaves a gap of zeros.
THEOREM ZerosPastEnd == FilesSpec => []PastEndIsZero
<1>1. OnDisk => PastEndIsZero
  <2> SUFFICES ASSUME OnDisk, cleared, pc = "idle", crashes = 0,
                      NEW n \in Inum, NEW o \in inode[n].size .. MaxSize - 1
               PROVE  ByteAt(n, o) = 0
    BY DEF PastEndIsZero
  <2>1. inode[n].size \in Nat
    BY DEF OnDisk, IInv, TypeOK
  <2>2. MaxSize \in Nat
    BY FirstLast, SizesAssumption DEF MaxSize
  <2>3. o \in Offs /\ o >= inode[n].size
    BY <2>1, <2>2 DEF Offs
  <2> QED BY <2>3 DEF OnDisk, Gap, Running
<1> QED BY <1>1, OnDiskInit, OnDiskStep, PTL DEF FilesSpec

-----------------------------------------------------------------------------
(***************************************************************************)
(* FsFiles implements FileSpec.                                            *)
(***************************************************************************)

\* What FileSpec sees of a partition that was clear.
Sizes == [n \in Inum |-> IF cleared THEN inode[n].size ELSE 0]
Bytes == [n \in Inum |-> [o \in 0 .. MaxSize - 1 |-> IF cleared THEN ByteAt(n, o) ELSE 0]]
Calls == IF pc = "idle" \/ ~cleared THEN {} ELSE {req}

LEMMA FilesStart == FilesInit => Files!Init
<1> SUFFICES ASSUME FilesInit PROVE Files!Init
  OBVIOUS
<1>1. Sizes = [n \in Inum |-> 0]
  BY DEF FilesInit, Init, Sizes
<1>2. Bytes = [n \in Inum |-> [o \in Files!Positions |-> 0]]
  BY NoBytes DEF FilesInit, Bytes, Files!Positions, Offs
<1>3. Calls = {}
  BY DEF FilesInit, Init, Calls
<1> QED BY <1>1, <1>2, <1>3 DEF Files!Init, Sizes, Bytes, Calls

\* Steps that a file does not show.
LEMMA SameFiles ==
  ASSUME cleared' = cleared,
         \A n \in Inum : inode'[n].size = inode[n].size,
         \A n \in Inum, o \in Offs : ByteAt(n, o)' = ByteAt(n, o)
  PROVE  Sizes' = Sizes /\ Bytes' = Bytes
BY DEF Sizes, Bytes, Offs

\* On a partition that was not clear nothing is compared.
LEMMA NotCleared ==
  ASSUME ~cleared, cleared' = cleared
  PROVE  UNCHANGED Files!vars
<1>1. Sizes' = Sizes /\ Bytes' = Bytes /\ Calls' = Calls
  BY DEF Sizes, Bytes, Calls
<1> QED BY <1>1 DEF Files!vars, Sizes, Bytes, Calls

\* The other steps that FileSpec knows.
LEMMA FilesBegin ==
  ASSUME IInv, cleared, cleared' = cleared, NEW r \in Requests, Begin(r)
  PROVE  Files!Next
<1>1. /\ pc = "idle" /\ pc' = "rw" /\ req' = r /\ inode' = inode /\ blk' = blk /\ r.inum \in Inum
  BY DEF Begin, Request, disk
<1>2. Sizes' = Sizes /\ Bytes' = Bytes
  BY <1>1, SameBytes, SameFiles
<1>3. Calls = {} /\ Calls' = {r}
  BY <1>1 DEF Calls
<1>4. Files!Begin(r)
  BY <1>1, <1>2, <1>3 DEF Files!Begin, Sizes, Bytes, Calls
<1> QED BY <1>4 DEF Files!Next

\* A step of the walk changes some bytes of the request's range to the
\* request's, or none.
LEMMA FilesStore ==
  ASSUME IInv, Walk, ReadFrames, Fresh, MemBytes, cleared, cleared' = cleared, recursive_rw
  PROVE  Files!Next
<1>1. /\ Running /\ Running' /\ req' = req /\ inode' = inode /\ req \in Requests /\ req.inum \in Inum
      /\ consumed' \in Nat /\ consumed' <= sa.sz /\ (req.w => sa.sz = req.sz) /\ req.w \in BOOLEAN
      /\ req.off \in Nat /\ req.sz \in Nat
  BY MoreConsumed, CallTypes
     DEF recursive_rw, Skip, Alloc, ZeroIndirect, OutOfBlocks, Hole, Descend, DataBlock,
         WriteBack, Visiting, Leaving, Running
<1>2. DiskStep /\ (~req.w => \A n \in Inum, o \in Offs : ByteAt(n, o)' = ByteAt(n, o))
  BY BytesStep
<1>3. Sizes' = Sizes
  BY <1>1 DEF Sizes
<1>4. Calls = {req} /\ Calls' = {req}
  BY <1>1 DEF Calls, Running
<1>4a. PICK m \in Inum : m = req.inum
  BY <1>1
<1> DEFINE P == {o \in Files!Range(req, req.sz) : ByteAt(m, o)' # ByteAt(m, o)}
           F == IF req.w THEN [Bytes EXCEPT ![req.inum] =
                                 [o \in Files!Positions |-> IF o \in P THEN req.buf[o - req.off + 1]
                                                            ELSE @[o]]]
                ELSE Bytes
<1>5. Bytes' = F
  <2>1. CASE ~req.w
    BY <1>1, <1>2, <2>1, SameFiles
  <2>2. CASE req.w
    <3>1. ASSUME NEW n \in Inum, NEW o \in Offs
          PROVE  ByteAt(n, o)' = IF n = req.inum /\ o \in P THEN req.buf[o - req.off + 1] ELSE ByteAt(n, o)
      <4>1. CASE ByteAt(n, o)' = ByteAt(n, o)
        BY <1>4a, <4>1
      <4>2. CASE ByteAt(n, o)' # ByteAt(n, o)
        <5>1. Written(req, consumed', n, o) /\ ByteAt(n, o)' = req.buf[o - req.off + 1]
          BY <1>2, <4>2 DEF DiskStep
        <5>2. n = req.inum /\ o \in req.off .. req.off + req.sz - 1
          BY <1>1, <2>2, <5>1 DEF Written
        <5>3. o \in P
          BY <1>4a, <4>2, <5>2 DEF Files!Range, Files!Positions, Offs
        <5> QED BY <5>1, <5>2, <5>3
      <4> QED BY <4>1, <4>2
    <3> HIDE DEF P
    <3>2. ASSUME NEW n \in Inum PROVE Bytes'[n] = F[n]
      <4>1. Bytes'[n] = [o \in Offs |-> ByteAt(n, o)']
        BY DEF Bytes, Offs
      <4>2. F[n] = IF n = req.inum THEN [o \in Offs |-> IF o \in P THEN req.buf[o - req.off + 1]
                                                       ELSE ByteAt(n, o)]
                   ELSE [o \in Offs |-> ByteAt(n, o)]
        BY <1>1, <2>2 DEF Bytes, Offs, Files!Positions
      <4> QED BY <3>1, <4>1, <4>2
    <3>3. DOMAIN Bytes' = Inum /\ DOMAIN F = Inum
      BY <2>2 DEF Bytes
    <3>4. Bytes' = [n \in Inum |-> Bytes'[n]] /\ F = [n \in Inum |-> F[n]]
      BY <1>1, <2>2 DEF Bytes
    <3> HIDE DEF F
    <3> QED BY <3>2, <3>4
  <2> QED BY <1>1, <2>1, <2>2
<1>6. P \in SUBSET Files!Range(req, req.sz)
  OBVIOUS
<1> HIDE DEF P
<1>7. Bytes' = Files!Stored(req, P)
  BY <1>5 DEF Files!Stored, Bytes
<1>8. Files!Store(req)
  BY <1>3, <1>4, <1>6, <1>7 DEF Files!Store, Sizes, Bytes, Calls
<1> QED BY <1>1, <1>8 DEF Files!Next

\* A write that returns has stored all the bytes it reports.
LEMMA FilesEnd ==
  ASSUME IInv, MemBytes, cleared, cleared' = cleared, Finish
  PROVE  Files!Next
<1>1. /\ Running /\ req \in Requests /\ req.inum \in Inum /\ req.w \in BOOLEAN
      /\ pc' = "idle" /\ consumed \in Nat /\ consumed <= sa.sz /\ (req.w => sa.sz = req.sz)
      /\ req.off \in Nat /\ req.sz \in Nat
  BY CallTypes DEF Finish, Leaving, Running
<1>2. PICK m \in 0 .. req.sz : m = IF req.w THEN consumed ELSE 0
  BY <1>1
<1>3. PICK k \in Inum : k = req.inum
  BY <1>1
<1>4. Calls = {req} /\ Calls' = {}
  BY <1>1 DEF Calls, Running
<1> DEFINE P == Files!Range(req, m)
           F == [Bytes EXCEPT ![req.inum] =
                   [o \in Files!Positions |-> IF o \in P THEN req.buf[o - req.off + 1] ELSE @[o]]]
           S == [Sizes EXCEPT ![req.inum] = req.off + m]
<1>5. \A n \in Inum : /\ inode'[n].size = IF req.w /\ n = req.inum /\ inode[n].size <= req.off + consumed
                                          THEN req.off + consumed ELSE inode[n].size
                      /\ inode'[n].size \in Nat /\ inode[n].size \in Nat
  BY LastSize
<1>6. \A n \in Inum, o \in Offs : ByteAt(n, o)' = IF req.w /\ Written(req, consumed, n, o)
                                                  THEN req.buf[o - req.off + 1] ELSE ByteAt(n, o)
  BY LastBytes
<1>7. Bytes' = IF req.w THEN F ELSE Bytes
  <2>1. CASE ~req.w
    <3>1. \A n \in Inum : inode'[n].size = inode[n].size
      BY <1>5, <2>1
    <3>2. \A n \in Inum, o \in Offs : ByteAt(n, o)' = ByteAt(n, o)
      BY <1>6, <2>1
    <3>3. Bytes' = Bytes
      BY <3>2 DEF Bytes, Offs
    <3> QED BY <1>1, <2>1, <3>3
  <2>2. CASE req.w
    <3>1. ASSUME NEW n \in Inum, NEW o \in Offs
          PROVE  ByteAt(n, o)' = IF n = req.inum /\ o \in P THEN req.buf[o - req.off + 1] ELSE ByteAt(n, o)
      <4>1. Written(req, consumed, n, o) <=> n = req.inum /\ o \in P
        BY <1>2, <2>2 DEF Written, Files!Range, Files!Positions, Offs
      <4> HIDE DEF P
      <4> QED BY <1>6, <2>2, <4>1
    <3> HIDE DEF P
    <3>2. ASSUME NEW n \in Inum PROVE Bytes'[n] = F[n]
      <4>1. Bytes'[n] = [o \in Offs |-> ByteAt(n, o)']
        BY DEF Bytes, Offs
      <4>2. F[n] = IF n = req.inum THEN [o \in Offs |-> IF o \in P THEN req.buf[o - req.off + 1]
                                                       ELSE ByteAt(n, o)]
                   ELSE [o \in Offs |-> ByteAt(n, o)]
        BY <1>1 DEF Bytes, Offs, Files!Positions
      <4> QED BY <3>1, <4>1, <4>2
    <3>3. Bytes' = [n \in Inum |-> Bytes'[n]] /\ F = [n \in Inum |-> F[n]]
      BY <1>1 DEF Bytes
    <3> HIDE DEF F
    <3> QED BY <2>2, <3>2, <3>3
  <2> QED BY <1>1, <2>1, <2>2
<1>8. Sizes' = IF req.w /\ req.off + m > Sizes[req.inum] THEN S ELSE Sizes
  <2>1. Sizes' = [n \in Inum |-> inode'[n].size] /\ Sizes = [n \in Inum |-> inode[n].size]
    BY DEF Sizes
  <2>2. CASE ~req.w
    BY <1>5, <2>1, <2>2
  <2>3. CASE req.w
    <3>1. PICK a \in Nat : a = req.off + m
      BY <1>1, <1>2
    <3>2. Sizes[req.inum] = inode[req.inum].size
      BY <1>1, <2>1
    <3>3. \A n \in Inum : inode'[n].size = IF n = req.inum /\ inode[n].size <= a THEN a ELSE inode[n].size
      BY <1>2, <1>5, <2>3, <3>1
    <3>4. CASE a > inode[req.inum].size
      <4>1. \A n \in Inum : inode'[n].size = IF n = req.inum THEN a ELSE inode[n].size
        BY <1>1, <1>5, <3>1, <3>3, <3>4
      <4>2. Sizes' = [n \in Inum |-> IF n = req.inum THEN a ELSE inode[n].size]
        BY <2>1, <4>1
      <4>3. S = [n \in Inum |-> IF n = req.inum THEN a ELSE inode[n].size]
        BY <2>1, <3>1
      <4>4. req.off + m > Sizes[req.inum]
        BY <3>1, <3>2, <3>4
      <4> HIDE DEF S
      <4> QED BY <2>3, <4>2, <4>3, <4>4
    <3>5. CASE ~(a > inode[req.inum].size)
      <4>1. \A n \in Inum : inode'[n].size = inode[n].size
        BY <1>1, <1>5, <3>1, <3>3, <3>5
      <4>2. Sizes' = Sizes
        BY <2>1, <4>1
      <4>3. ~(req.off + m > Sizes[req.inum])
        BY <3>1, <3>2, <3>5
      <4> QED BY <4>2, <4>3
    <3> QED BY <3>4, <3>5
  <2> QED BY <1>1, <2>2, <2>3
<1>9. Bytes' = Files!Stored(req, P)
  <2> HIDE DEF P
  <2> QED BY <1>7 DEF Files!Stored, Bytes
<1>10. Files!End(req, m)
  BY <1>4, <1>8, <1>9 DEF Files!End, Sizes, Bytes, Calls
<1> QED BY <1>1, <1>2, <1>10 DEF Files!Next

LEMMA FilesCrash ==
  ASSUME IInv, cleared, cleared' = cleared, Crash
  PROVE  Files!Next
<1>1. /\ Running /\ pc' = "idle" /\ inode' = inode /\ blk' = blk
  BY DEF Crash, disk, Running
<1>2. Sizes' = Sizes /\ Bytes' = Bytes
  BY <1>1, SameBytes, SameFiles
<1>3. Calls # {} /\ Calls' = {}
  BY <1>1 DEF Calls, Running
<1>4. Files!Crash
  BY <1>2, <1>3 DEF Files!Crash, Sizes, Bytes, Calls
<1> QED BY <1>4 DEF Files!Next

LEMMA FilesStep == OnDisk /\ [FilesNext]_<<vars, cleared>> => [Files!Next]_Files!vars
<1> SUFFICES ASSUME OnDisk, [FilesNext]_<<vars, cleared>> PROVE [Files!Next]_Files!vars
  OBVIOUS
<1>1. [Next]_vars /\ cleared' = cleared
  BY DEF FilesNext
<1>2. CASE ~cleared
  BY <1>1, <1>2, NotCleared
<1>3. CASE cleared
  <2>1. ASSUME NEW r \in Requests, Begin(r) PROVE [Files!Next]_Files!vars
    BY <1>1, <1>3, <2>1, FilesBegin DEF OnDisk
  <2>2. ASSUME (\E r \in Requests : Refuse(r)) \/ UNCHANGED vars PROVE [Files!Next]_Files!vars
    <3>1. inode' = inode /\ blk' = blk /\ pc' = pc /\ (pc = "idle" \/ req' = req)
      BY <2>2 DEF Refuse, Request, disk, vars
    <3>2. Sizes' = Sizes /\ Bytes' = Bytes
      BY <1>1, <3>1, SameBytes, SameFiles
    <3>3. Calls' = Calls
      BY <1>1, <3>1 DEF Calls
    <3> QED BY <3>2, <3>3 DEF Files!vars, Sizes, Bytes, Calls
  <2>3. CASE recursive_rw
    BY <1>1, <1>3, <2>3, FilesStore DEF OnDisk
  <2>4. CASE Finish
    BY <1>1, <1>3, <2>4, FilesEnd DEF OnDisk
  <2>5. CASE Crash
    BY <1>1, <1>3, <2>5, FilesCrash DEF OnDisk
  <2> QED BY <1>1, <2>1, <2>2, <2>3, <2>4, <2>5 DEF Next
<1> QED BY <1>2, <1>3

\* On a partition that was clear the calls do what FileSpec promises, whatever
\* disk write a crash interrupts: they change bytes of their own file only, in
\* their own range, and the bytes and the size they report are on the disk.
THEOREM FilesRefined == FilesSpec => FilesAreSafe
BY OnDiskInit, OnDiskStep, FilesStart, FilesStep, PTL DEF FilesSpec, FilesAreSafe, Files!Spec

-----------------------------------------------------------------------------
(***************************************************************************)
(* A call comes to its end: what it has left to do is a number that every  *)
(* step of the call makes smaller.                                         *)
(***************************************************************************)

\* A digit more outweighs the digits behind it.
LEMMA Digit ==
  ASSUME NEW a \in Nat, NEW b \in Nat, NEW n \in Nat, NEW x \in Nat, NEW y \in Nat,
         a < b, x < n
  PROVE  a * n + x < b * n + y
<1>1. a * n + n <= b * n
  <2>1. a + 1 <= b
    OBVIOUS
  <2> QED BY <2>1
<1>2. PICK p \in Nat, q \in Nat : p = a * n /\ q = b * n
  OBVIOUS
<1> QED BY <1>1, <1>2

\* Four digits, as those of WalkLeft.
LEMMA Digits ==
  ASSUME NEW n \in Nat,
         NEW a \in Nat, NEW b \in Nat, NEW c \in Nat, NEW d \in Nat,
         NEW e \in Nat, NEW f \in Nat, NEW g \in Nat, NEW h \in Nat,
         f < n, g < n, h < 3,
         \/ e < a
         \/ e = a /\ f < b
         \/ e = a /\ f = b /\ g < c
         \/ e = a /\ f = b /\ g = c /\ h < d
  PROVE  ((e * n + f) * n + g) * 3 + h < ((a * n + b) * n + c) * 3 + d
<1>1. PICK i \in Nat, j \in Nat : i = e * n + f /\ j = a * n + b
  OBVIOUS
<1>2. \/ i < j
      \/ i = j /\ g < c
      \/ i = j /\ g = c /\ h < d
  <2>1. e < a => i < j
    BY <1>1, Digit
  <2>2. PICK p \in Nat, q \in Nat : p = e * n /\ q = a * n
    OBVIOUS
  <2>3. i = p + f /\ j = q + b
    BY <1>1, <2>2
  <2>4. e = a => p = q
    BY <2>2
  <2>5. e = a /\ f < b => i < j
    BY <2>3, <2>4
  <2>6. e = a /\ f = b => i = j
    BY <2>3, <2>4
  <2> QED BY <2>1, <2>5, <2>6
<1>3. PICK k \in Nat, l \in Nat : k = i * n + g /\ l = j * n + c
  OBVIOUS
<1>4. k < l \/ (k = l /\ h < d)
  <2>1. i < j => k < l
    BY <1>3, Digit
  <2>2. i = j => i * n = j * n
    OBVIOUS
  <2>3. PICK p \in Nat, q \in Nat : p = i * n /\ q = j * n
    OBVIOUS
  <2> QED BY <1>2, <1>3, <2>1, <2>2, <2>3
<1>5. k * 3 + h < l * 3 + d
  BY <1>4
<1> QED BY <1>1, <1>3, <1>5

\* The digits of what is left are digits.
LeftOK ==
  /\ NPTRS - stk[0].i \in Nat /\ NPTRS_PER_BLOCK + 2 \in Nat
  /\ \A d \in 1 .. 2 : FrameLeft(d) \in Nat /\ FrameLeft(d) < NPTRS_PER_BLOCK + 2
  /\ PtrLeft \in 0 .. 2 /\ WalkLeft \in Nat

LEMMA LeftTypes == TypeOK => LeftOK
<1> SUFFICES ASSUME TypeOK PROVE LeftOK
  OBVIOUS
<1>1. /\ depth \in 0 .. 2 /\ NPTRS \in Nat /\ NPTRS_PER_BLOCK \in Nat
      /\ stk[0].i \in Nat /\ stk[0].i <= NPTRS
      /\ \A d \in 1 .. 2 : stk[d].i \in Nat /\ stk[d].i <= NPTRS_PER_BLOCK
  BY Counters DEF TypeOK, Frame
<1>2. \A d \in 1 .. 2 : FrameLeft(d) \in Nat /\ FrameLeft(d) < NPTRS_PER_BLOCK + 2
  BY <1>1 DEF FrameLeft
<1>3. PtrLeft \in 0 .. 2
  BY DEF PtrLeft
<1>4. WalkLeft \in Nat
  <2>1. PICK a \in Nat, b \in Nat, c \in Nat, d \in Nat, n \in Nat :
          /\ a = NPTRS - stk[0].i /\ b = FrameLeft(1) /\ c = FrameLeft(2) /\ d = PtrLeft
          /\ n = NPTRS_PER_BLOCK + 2
    BY <1>1, <1>2, <1>3
  <2>2. ((a * n + b) * n + c) * 3 + d \in Nat
    OBVIOUS
  <2> QED BY <2>1, <2>2 DEF WalkLeft
<1> QED BY <1>1, <1>2, <1>3, <1>4 DEF LeftOK

\* A step of the walk that leaves less in one frame, and the same in those
\* below it.
LEMMA WalkFalls ==
  ASSUME TypeOK, TypeOK', pc \in {"rw", "zero"}, pc' \in {"rw", "zero"},
         \/ stk'[0].i > stk[0].i
         \/ stk'[0].i = stk[0].i /\ FrameLeft(1)' < FrameLeft(1)
         \/ stk'[0].i = stk[0].i /\ FrameLeft(1)' = FrameLeft(1) /\ FrameLeft(2)' < FrameLeft(2)
         \/ /\ stk'[0].i = stk[0].i /\ FrameLeft(1)' = FrameLeft(1)
            /\ FrameLeft(2)' = FrameLeft(2) /\ PtrLeft' < PtrLeft
  PROVE  StepsLeft' < StepsLeft
<1>1. PICK a \in Nat, b \in Nat, c \in Nat, d \in Nat, n \in Nat :
        /\ a = NPTRS - stk[0].i /\ b = FrameLeft(1) /\ c = FrameLeft(2) /\ d = PtrLeft
        /\ n = NPTRS_PER_BLOCK + 2
  BY LeftTypes, SMTT(60) DEF LeftOK
<1>2. PICK e \in Nat, f \in Nat, g \in Nat, h \in Nat :
        /\ e = NPTRS - stk'[0].i /\ f = FrameLeft(1)' /\ g = FrameLeft(2)' /\ h = PtrLeft'
        /\ f < n /\ g < n /\ h < 3
  <2>1. LeftOK'
    BY LeftTypes, PTL
  <2> QED BY <1>1, <2>1 DEF LeftOK
<1>3. \/ e < a
      \/ e = a /\ f < b
      \/ e = a /\ f = b /\ g < c
      \/ e = a /\ f = b /\ g = c /\ h < d
  <2>1. stk'[0].i \in Nat /\ stk[0].i \in Nat /\ NPTRS \in Nat
    BY Counters DEF TypeOK, Frame
  <2> QED BY <1>1, <1>2, <2>1
<1>4. ((e * n + f) * n + g) * 3 + h < ((a * n + b) * n + c) * 3 + d
  BY <1>2, <1>3, Digits
<1>5. WalkLeft = ((a * n + b) * n + c) * 3 + d /\ WalkLeft' = ((e * n + f) * n + g) * 3 + h
  BY <1>1, <1>2 DEF WalkLeft
<1>6. StepsLeft = WalkLeft + 4 /\ StepsLeft' = WalkLeft' + 4
  BY DEF StepsLeft
<1>7. PICK v \in Nat, w \in Nat : v = ((e * n + f) * n + g) * 3 + h
                                 /\ w = ((a * n + b) * n + c) * 3 + d
  OBVIOUS
<1> QED BY <1>4, <1>5, <1>6, <1>7
\* The loop goes on to the next pointer.
LEMMA NextFalls ==
  ASSUME IInv, IInv', Visiting, NextPtr, pc' = pc, depth' = depth
  PROVE  StepsLeft' < StepsLeft
<1>1. /\ TypeOK /\ TypeOK' /\ pc = "rw" /\ pc' = "rw" /\ depth \in 0 .. 2
      /\ Top.i < Limit /\ DOMAIN stk = 0 .. 2
  BY DEF IInv, TypeOK, Visiting
<1>2. /\ depth = 0 => stk'[0].i = stk[0].i + 1
      /\ depth # 0 => stk'[0].i = stk[0].i
      /\ depth = 1 => stk'[1].i = stk[1].i + 1
      /\ depth = 2 => stk'[1].i = stk[1].i /\ stk'[2].i = stk[2].i + 1
  BY <1>1 DEF NextPtr, TypeOK, Frame
<1>3. /\ stk[0].i \in Nat /\ stk[1].i \in Nat /\ stk[2].i \in Nat
      /\ NPTRS_PER_BLOCK \in Nat
  BY <1>1, Counters DEF TypeOK, Frame
<1>4. CASE depth = 0
  BY <1>1, <1>2, <1>3, <1>4, WalkFalls
<1>5. CASE depth = 1
  <2>1. FrameLeft(1)' < FrameLeft(1)
    BY <1>2, <1>3, <1>5 DEF FrameLeft
  <2> QED BY <1>1, <1>2, <1>5, <2>1, WalkFalls
<1>6. CASE depth = 2
  <2>1. FrameLeft(1)' = FrameLeft(1)
    BY <1>2, <1>6 DEF FrameLeft
  <2>2. FrameLeft(2)' < FrameLeft(2)
    BY <1>2, <1>3, <1>6 DEF FrameLeft
  <2> QED BY <1>1, <1>2, <1>6, <2>1, <2>2, WalkFalls
<1> QED BY <1>1, <1>4, <1>5, <1>6

\* The frame of an indirect block is entered with fewer pointers than were
\* counted for it before.
LEMMA DescendFalls == IInv /\ IInv' /\ Descend => StepsLeft' < StepsLeft
<1> SUFFICES ASSUME IInv, IInv', Descend PROVE StepsLeft' < StepsLeft
  OBVIOUS
<1>1. /\ TypeOK /\ TypeOK' /\ pc = "rw" /\ pc' = "rw" /\ depth \in 0 .. 2
      /\ depth' = depth + 1 /\ depth' \in 0 .. 2
      /\ stk' = [stk EXCEPT ![depth + 1] = [n |-> Here, p |-> blk[Here], i |-> 0]]
      /\ DOMAIN stk = 0 .. 2
  BY DEF IInv, TypeOK, Descend, Visiting
<1>2. /\ depth = 0 => stk'[1].i = 0
      /\ depth = 1 => stk'[1] = stk[1] /\ stk'[2].i = 0
      /\ stk'[0] = stk[0]
  BY <1>1
<1>3. NPTRS_PER_BLOCK \in Nat
  BY <1>1, Counters
<1>4. CASE depth = 0
  <2>1. FrameLeft(1)' < FrameLeft(1)
    BY <1>1, <1>2, <1>3, <1>4 DEF FrameLeft
  <2> QED BY <1>1, <1>2, <2>1, WalkFalls
<1>5. CASE depth = 1
  <2>1. FrameLeft(1)' = FrameLeft(1)
    BY <1>1, <1>2, <1>5 DEF FrameLeft
  <2>2. FrameLeft(2)' < FrameLeft(2)
    BY <1>1, <1>2, <1>3, <1>5 DEF FrameLeft
  <2> QED BY <1>1, <1>2, <2>1, <2>2, WalkFalls
<1> QED BY <1>1, <1>4, <1>5

\* The same pointer, with one thing less to do before it is followed.
LEMMA PtrFalls ==
  ASSUME IInv, IInv', pc \in {"rw", "zero"}, pc' \in {"rw", "zero"}, depth' = depth,
         stk'[0].i = stk[0].i, stk'[1].i = stk[1].i, stk'[2].i = stk[2].i,
         PtrLeft' < PtrLeft
  PROVE  StepsLeft' < StepsLeft
<1>1. FrameLeft(1)' = FrameLeft(1) /\ FrameLeft(2)' = FrameLeft(2)
  BY DEF FrameLeft
<1> QED BY <1>1, WalkFalls DEF IInv

\* The null pointer is replaced by that of the block allocated for it.
LEMMA AllocFalls == IInv /\ IInv' /\ Alloc => StepsLeft' < StepsLeft
<1> SUFFICES ASSUME IInv, IInv', Alloc PROVE StepsLeft' < StepsLeft
  OBVIOUS
<1>1. PICK i \in Usable : bitmap_alloc(i) /\ SetHere(sdata + i)
  BY DEF Alloc
<1>2. PICK f \in Ptr : f = sdata + i /\ f # 0
  BY UsableBits, SizesAssumption DEF DataBlocks, Ptr
<1>3. /\ TypeOK /\ pc = "rw" /\ pc' \in {"rw", "zero"} /\ depth' = depth /\ depth \in 0 .. 2
      /\ Here = 0 /\ Visiting
  BY DEF IInv, TypeOK, Alloc, Visiting
<1>4. /\ stk'[0].i = stk[0].i /\ stk'[1].i = stk[1].i /\ stk'[2].i = stk[2].i
      /\ depth = 0 => stk'[0].p = [stk[0].p EXCEPT ![stk[0].i] = f]
      /\ depth = 1 => stk'[1].p = [stk[1].p EXCEPT ![stk[1].i] = f]
      /\ depth = 2 => stk'[2].p = [stk[2].p EXCEPT ![stk[2].i] = f]
  BY <1>1, <1>2, <1>3, SetPointer
<1>5. Top.i \in IF depth = 0 THEN PtrIdx ELSE Cells
  BY <1>3, VisitedPointer DEF Visiting, Running
<1>6. stk[0].p \in [PtrIdx -> Cell] /\ stk[1].p \in [Cells -> Cell] /\ stk[2].p \in [Cells -> Cell]
  BY <1>3 DEF TypeOK, Frame
<1>7. Here' = f
  BY <1>3, <1>4, <1>5, <1>6 DEF Here, Top
<1>8. PtrLeft' <= 1
  BY <1>2, <1>7 DEF PtrLeft
<1>9. PtrLeft = 2
  BY <1>3 DEF PtrLeft
<1>10. PtrLeft' < PtrLeft
  <2>1. PtrLeft' \in 0 .. 2
    BY DEF PtrLeft
  <2> QED BY <1>8, <1>9, <2>1
<1> QED BY <1>3, <1>4, <1>10, PtrFalls

\* The indirect block just allocated is cleared.
LEMMA ZeroFalls == IInv /\ IInv' /\ ZeroIndirect => StepsLeft' < StepsLeft
<1> SUFFICES ASSUME IInv, IInv', ZeroIndirect PROVE StepsLeft' < StepsLeft
  OBVIOUS
<1>1. pc = "zero" /\ pc' = "rw" /\ depth' = depth /\ stk' = stk /\ Here # 0
  BY DEF IInv, FramesOK, ZeroIndirect
<1>2. Here' = Here
  BY <1>1 DEF Here, Top
<1>3. PtrLeft = 1 /\ PtrLeft' = 0
  BY <1>1, <1>2 DEF PtrLeft
<1> QED BY <1>1, <1>3, PtrFalls

\* The end of an indirect block: the caller's loop goes on, or is left too.
LEMMA WriteBackFalls == IInv /\ IInv' /\ WriteBack => StepsLeft' < StepsLeft
<1> SUFFICES ASSUME IInv, IInv', WriteBack PROVE StepsLeft' < StepsLeft
  OBVIOUS
<1>1. /\ TypeOK /\ TypeOK' /\ depth \in 1 .. 2 /\ depth' = depth - 1 /\ pc' = pc
      /\ pc \in {"rw", "fail"} /\ DOMAIN stk = 0 .. 2
      /\ stk' = [stk EXCEPT ![depth] = NoFrame,
                            ![depth - 1].i = IF pc = "rw" THEN @ + 1 ELSE @]
  BY DEF IInv, TypeOK, WriteBack, Leaving
<1>2. CASE pc = "fail"
  BY <1>1, <1>2 DEF StepsLeft
<1>3. CASE pc = "rw"
  <2>1. /\ depth = 1 => stk'[0].i = stk[0].i + 1
        /\ depth = 2 => stk'[0] = stk[0] /\ stk'[1].i = stk[1].i + 1
    BY <1>1, <1>3 DEF TypeOK, Frame
  <2>2. stk[0].i \in Nat /\ stk[1].i \in Nat /\ NPTRS_PER_BLOCK \in Nat
    BY <1>1, Counters DEF TypeOK, Frame
  <2>3. CASE depth = 1
    BY <1>1, <1>3, <2>1, <2>2, <2>3, WalkFalls
  <2>4. CASE depth = 2
    <3>1. FrameLeft(1)' < FrameLeft(1)
      BY <1>1, <2>1, <2>2, <2>4 DEF FrameLeft
    <3> QED BY <1>1, <1>3, <2>1, <2>4, <3>1, WalkFalls
  <2> QED BY <1>1, <2>3, <2>4
<1> QED BY <1>1, <1>2, <1>3

\* A failing call only has frames to leave.
LEMMA OutOfBlocksFalls == IInv /\ OutOfBlocks => StepsLeft' < StepsLeft
<1> SUFFICES ASSUME IInv, OutOfBlocks PROVE StepsLeft' < StepsLeft
  OBVIOUS
<1>1. pc = "rw" /\ pc' = "fail" /\ depth' = depth /\ depth \in 0 .. 2
  BY DEF IInv, TypeOK, OutOfBlocks, Visiting
<1>2. WalkLeft \in Nat
  BY LeftTypes DEF IInv, LeftOK
<1>3. StepsLeft = WalkLeft + 4 /\ StepsLeft' = depth + 1
  BY <1>1 DEF StepsLeft
<1> QED BY <1>1, <1>2, <1>3

\* A call that is running has a step left.
LEMMA ReturnFalls ==
  ASSUME IInv, pc # "idle", pc' = "idle"
  PROVE  StepsLeft' < StepsLeft
<1>1. WalkLeft \in Nat /\ depth \in Nat
  BY LeftTypes DEF IInv, LeftOK, TypeOK
<1> QED BY <1>1 DEF StepsLeft

LEMMA StepsNat == IInv => StepsLeft \in Nat
<1> SUFFICES ASSUME IInv PROVE StepsLeft \in Nat
  OBVIOUS
<1>1. WalkLeft \in Nat /\ depth \in Nat
  BY LeftTypes DEF IInv, LeftOK, TypeOK
<1> QED BY <1>1 DEF StepsLeft

LEMMA CallFalls == IInv /\ [Next]_vars => [pc # "idle" => StepsLeft' < StepsLeft]_vars
<1> SUFFICES ASSUME IInv, Next, pc # "idle" PROVE StepsLeft' < StepsLeft
  OBVIOUS
<1>0. IInv'
  BY InductiveStep
<1>1. ASSUME NEW r \in Requests, Begin(r) \/ Refuse(r) PROVE FALSE
  BY <1>1 DEF Begin, Refuse, Request
<1>2. CASE Skip
  BY <1>0, <1>2, NextFalls DEF Skip
<1>3. CASE Hole
  BY <1>0, <1>3, NextFalls DEF Hole
<1>4. CASE DataBlock
  BY <1>0, <1>4, NextFalls DEF DataBlock
<1>5. CASE Finish
  BY <1>5, ReturnFalls DEF Finish
<1>6. CASE Crash
  BY <1>6, ReturnFalls DEF Crash
<1> QED
  BY <1>0, <1>1, <1>2, <1>3, <1>4, <1>5, <1>6, AllocFalls, ZeroFalls, OutOfBlocksFalls,
     DescendFalls, WriteBackFalls DEF Next, recursive_rw

\* Whatever a call meets on the disk and wherever it is interrupted, each of
\* its steps leaves it less to do: recursive_rw() visits no pointer twice and
\* allocates at most once for each.
THEOREM CallsGetOn == Spec => CallGetsOn
<1>1. IInv /\ [Next]_vars => [pc # "idle" => StepsLeft' \in 0 .. StepsLeft - 1]_vars
  <2> SUFFICES ASSUME IInv, Next, vars' # vars, pc # "idle" PROVE StepsLeft' \in 0 .. StepsLeft - 1
    OBVIOUS
  <2>1. StepsLeft' < StepsLeft
    BY CallFalls
  <2>2. IInv'
    BY InductiveStep
  <2>3. StepsLeft \in Nat /\ StepsLeft' \in Nat
    <3>1. (IInv => StepsLeft \in Nat)'
      BY StepsNat, PTL
    <3> QED BY <2>2, <3>1, StepsNat
  <2> QED BY <2>1, <2>3
<1> QED BY <1>1, Inductive, PTL DEF Spec, CallGetsOn
=============================================================================
