---------------------------- MODULE FsFormatProofs ----------------------------
(***************************************************************************)
(* Proofs that formatting stays inside the partition and leaves nothing    *)
(* there, for every size of disk, of partition and of layout, provided     *)
(* that the superblock found on the partition is blank or one that an      *)
(* earlier fs_format() wrote there.                                        *)
(***************************************************************************)
EXTENDS FsFormat, TLAPS

\* The superblocks fs_init() finds on a partition that was never used, or was
\* a file system before.
OwnSupers == {Super(0, 0, FALSE), Super(startlba, nsectors, FALSE),
              Super(startlba, nsectors, TRUE)}

OwnContents ==
  \A d \in Contents : d \in [Disk -> Sector] /\ d[startlba].su \in OwnSupers

\* The loop that zeroes the partition runs over a superblock of this partition.
IInv ==
  /\ disk \in [Disk -> Sector] /\ first \in [Disk -> Sector]
  /\ disk[startlba].su \in OwnSupers /\ su \in OwnSupers
  /\ i \in Nat /\ (pc = "zero" => i <= su.nblock_tot) /\ (pc # "zero" => i = 0)
  /\ WritesInside

LEMMA Layout ==
  /\ startlba \in Nat /\ nsectors \in Nat /\ nsectors > 0
  /\ Partition \subseteq Disk /\ startlba \in Partition
  /\ \A b \in sinode .. sbitmap - 1 : b \in Partition /\ b # startlba
<1> USE LayoutAssumption DEF Partition, Disk, sinode, slog, sbitmap, nblock_dat
<1>1. startlba \in Nat /\ nsectors \in Nat /\ nsectors > 0
  OBVIOUS
<1>2. Partition \subseteq Disk /\ startlba \in Partition
  BY <1>1
<1>3. \A b \in sinode .. sbitmap - 1 : b \in Partition /\ b # startlba
  BY <1>1
<1> QED
  BY <1>1, <1>2, <1>3

LEMMA Blocks ==
  /\ ZeroBlock \in Sector /\ SuperBlock \in Sector
  /\ ZeroBlock.su \in OwnSupers /\ SuperBlock.su \in OwnSupers
BY Layout DEF ZeroBlock, SuperBlock, Block, Super, Sector, OwnSupers

LEMMA Supers == \A s \in OwnSupers : s.start \in Nat /\ s.nblock_tot \in Nat
                  /\ (s.nblock_tot # 0 => s.start = startlba /\ s.nblock_tot = nsectors)
BY Layout DEF OwnSupers, Super

LEMMA InitHolds == ASSUME OwnContents PROVE Init => IInv
BY Blocks DEF OwnContents, Init, IInv, WritesInside, OwnSupers, Super

LEMMA ZeroStep == IInv /\ Zero => IInv'
<1> SUFFICES ASSUME IInv, Zero PROVE IInv'
  OBVIOUS
<1> USE DEF IInv
<1>1. /\ pc = "zero" /\ pc' = pc /\ i < su.nblock_tot /\ i' = i + 1
      /\ disk' = [b \in Disk |-> IF b = su.start + i THEN ZeroBlock ELSE disk[b]]
      /\ su' = su /\ first' = first
  BY DEF Zero, ZeroCount, Zeroed
<1>2. su.start + i \in Partition
  BY <1>1, Supers, Layout DEF Partition
<1>3. disk' \in [Disk -> Sector]
  BY <1>1, Blocks
<1>4. disk'[startlba].su \in OwnSupers
  BY <1>1, Blocks, Layout
<1>5. i' \in Nat /\ i' <= su.nblock_tot
  BY <1>1, Supers
<1>6. WritesInside'
  BY <1>1, <1>2 DEF WritesInside
<1> QED
  BY <1>1, <1>3, <1>4, <1>5, <1>6

LEMMA WriteSuperStep == IInv /\ WriteSuper => IInv'
<1> SUFFICES ASSUME IInv, WriteSuper PROVE IInv'
  OBVIOUS
<1> USE DEF IInv
<1>1. /\ pc' = "alloc0" /\ i' = 0 /\ su' = SuperBlock.su /\ first' = first
      /\ disk' = [disk EXCEPT ![startlba] = SuperBlock]
  BY DEF WriteSuper
<1>2. disk' \in [Disk -> Sector] /\ disk'[startlba] = SuperBlock
  BY <1>1, Blocks, Layout
<1>3. WritesInside'
  BY <1>1, Layout DEF WritesInside
<1> QED
  BY <1>1, <1>2, <1>3, Blocks

LEMMA ReserveStep == IInv /\ Reserve => IInv'
<1> SUFFICES ASSUME IInv, Reserve PROVE IInv'
  OBVIOUS
<1> USE DEF IInv
<1>1. pc # "zero" /\ pc' # "zero" /\ su' = su /\ i' = i /\ first' = first
  BY DEF Reserve, AfterFirst
<1>2. CASE disk' = disk
  BY <1>1, <1>2 DEF WritesInside
<1>3. ASSUME NEW s \in FreeInodes, disk' = [disk EXCEPT ![s[1]].types[s[2]] = T_DIR]
      PROVE  IInv'
  <2>1. s[1] \in Partition /\ s[1] # startlba /\ s[2] \in Slots
    BY Layout DEF FreeInodes, Table
  <2>2. s[1] \in Disk
    BY <2>1, Layout
  <2>3. \A b \in Disk : b # s[1] => disk'[b] = disk[b]
    BY <1>3
  <2>4. disk' \in [Disk -> Sector]
    <3> DEFINE new == [disk[s[1]] EXCEPT !.types[s[2]] = T_DIR]
    <3>1. disk[s[1]] \in Sector
      BY <2>2
    <3>2. new.types \in [Slots -> 0 .. 3] /\ new.su = disk[s[1]].su
      BY <2>1, <3>1 DEF Sector, T_DIR
    <3>3. new \in Sector
      BY <3>1, <3>2 DEF Sector
    <3>4. disk' = [disk EXCEPT ![s[1]] = new]
      BY <1>3
    <3> HIDE DEF new
    <3> QED
      BY <3>3, <3>4
  <2>5. disk'[startlba] = disk[startlba]
    BY <2>1, <2>3, Layout
  <2>6. WritesInside'
    BY <1>1, <2>1, <2>3 DEF WritesInside
  <2> QED
    BY <1>1, <2>4, <2>5, <2>6
<1> QED
  BY <1>2, <1>3 DEF Reserve, alloc_inode, Take

\* fs_init() and the steps that write nothing.
LEMMA OtherSteps == IInv /\ (Start \/ Mount \/ Quit \/ Crash \/ UNCHANGED vars) => IInv'
<1> SUFFICES ASSUME IInv, Start \/ Mount \/ Quit \/ Crash \/ UNCHANGED vars PROVE IInv'
  OBVIOUS
<1> USE DEF IInv
<1>1. disk' = disk /\ first' = first
  BY DEF Start, Mount, fs_init, Quit, Crash, vars
<1>2. su' \in OwnSupers
  BY DEF Start, Mount, fs_init, Quit, Crash, vars, OwnSupers
<1>3. CASE UNCHANGED vars
  BY <1>1, <1>2, <1>3 DEF vars, WritesInside
<1>4. ASSUME Start \/ Mount \/ Quit \/ Crash PROVE i' = 0
  BY <1>4 DEF Start, Mount, fs_init, Quit, Crash
<1>5. 0 <= su'.nblock_tot
  BY <1>2, Supers
<1> QED
  BY <1>1, <1>2, <1>3, <1>4, <1>5 DEF WritesInside

LEMMA Inductive == IInv /\ [Next]_vars => IInv'
BY ZeroStep, WriteSuperStep, ReserveStep, OtherSteps DEF Next

-----------------------------------------------------------------------------
(***************************************************************************)
(* What a format that is not interrupted leaves.  A partition without a    *)
(* superblock is blank: the sectors of a partition that was used for       *)
(* something else are not zeroed (PartitionIsZeroed does not hold).        *)
(***************************************************************************)
BlankSuper  == Super(0, 0, FALSE)
BlankIsZero == \A d \in Contents : d[startlba].su = BlankSuper => \A b \in Partition : d[b] = ZeroBlock

\* The inodes of S are directories, everything else is zero.
Filled(S) ==
  /\ \A t \in Table : disk[t[1]].types[t[2]] = IF t \in S THEN T_DIR ELSE 0
  /\ \A b \in Partition \ (sinode .. sbitmap - 1) : b # startlba => disk[b] = ZeroBlock

\* Before the superblock is written, what it takes for a partition is zero as
\* far as the loop has come; the rest was so when the loop found no superblock.
Zeroing ==
  IF su.nblock_tot = 0 THEN \A b \in Partition : disk[b] = ZeroBlock
                       ELSE \A b \in startlba .. startlba + i - 1 : disk[b] = ZeroBlock

Progress ==
  /\ pc = "off" /\ disk[startlba].su = BlankSuper => \A b \in Partition : disk[b] = ZeroBlock
  /\ pc = "zero" => Zeroing
  /\ pc = "alloc0" => Filled({})
  /\ pc = "alloc1" => Filled({<<sinode, 0>>})
  /\ pc = "init" => Filled(Reserved)
  /\ pc = "mounted" /\ formatted => Filled(Reserved)
  /\ pc \in {"alloc0", "alloc1", "init", "mounted"} => disk[startlba].su.magic

Clean == ~crashed => Progress

LEMMA CleanStart == ASSUME OwnContents, BlankIsZero PROVE Init => Clean
BY DEF BlankIsZero, Init, Clean, Progress

LEMMA CleanZero == IInv /\ Clean /\ (Zero \/ WriteSuper) => Clean'
<1> SUFFICES ASSUME IInv, Clean, Zero \/ WriteSuper, ~crashed PROVE Progress'
  BY DEF Clean, Zero, WriteSuper
<1>1. disk \in [Disk -> Sector] /\ su \in OwnSupers /\ i \in Nat /\ pc = "zero" /\ Zeroing
  BY DEF IInv, Clean, Progress, Zero, WriteSuper
<1>2. CASE Zero
  <2>1. /\ i < su.nblock_tot /\ su' = su /\ pc' = "zero" /\ i' = i + 1
        /\ disk' = [b \in Disk |-> IF b = su.start + i THEN ZeroBlock ELSE disk[b]]
    BY <1>1, <1>2 DEF Zero, ZeroCount, Zeroed
  <2>2. su.nblock_tot \in Nat /\ (su.nblock_tot # 0 => su.start = startlba)
    BY <1>1, Supers
  <2>3. su.nblock_tot # 0 /\ su.start = startlba
    BY <1>1, <2>1, <2>2
  <2>4. ASSUME NEW b \in startlba .. startlba + i' - 1 PROVE disk'[b] = ZeroBlock
    <3>1. b = startlba + i \/ b \in startlba .. startlba + i - 1
      BY <1>1, <2>1, <2>3, Layout
    <3>2. b \in Disk
      BY <1>1, <2>1, <2>3, <3>1, Supers, Layout DEF Partition
    <3> QED
      BY <1>1, <2>1, <2>3, <3>1, <3>2 DEF Zeroing
  <2> QED
    BY <2>1, <2>3, <2>4 DEF Progress, Zeroing
<1>3. CASE WriteSuper
  <2>1. /\ i >= su.nblock_tot /\ pc' = "alloc0"
        /\ disk' = [disk EXCEPT ![startlba] = SuperBlock]
    BY <1>1, <1>3 DEF WriteSuper, ZeroCount
  <2>2. ASSUME NEW b \in Partition, b # startlba PROVE disk'[b] = ZeroBlock
    <3>1. disk[b] = ZeroBlock
      <4>1. CASE su.nblock_tot = 0
        BY <1>1, <4>1 DEF Zeroing
      <4>2. CASE su.nblock_tot # 0
        <5>1. b \in startlba .. startlba + i - 1
          BY <1>1, <2>1, <4>2, Supers, Layout DEF Partition
        <5> QED
          BY <1>1, <4>2, <5>1 DEF Zeroing
      <4> QED
        BY <4>1, <4>2
    <3> QED
      BY <2>1, <2>2, <3>1
  <2>3. disk'[startlba].su.magic
    BY <1>1, <2>1, Layout DEF SuperBlock, Block, Super
  <2>4. ASSUME NEW t \in Table PROVE disk'[t[1]].types[t[2]] = 0
    <3>1. t[1] \in Partition /\ t[1] # startlba /\ t[2] \in Slots
      BY Layout DEF Table
    <3> QED
      BY <2>2, <3>1 DEF ZeroBlock, Block
  <2>5. Filled({})'
    BY <2>2, <2>4 DEF Filled
  <2> QED
    BY <2>1, <2>3, <2>5 DEF Progress
<1> QED
  BY <1>2, <1>3

\* The inodes that alloc_inode() takes are those of the table's start.
LEMMA TakeNext ==
  ASSUME NEW S, NEW t \in Table, t \notin S, IInv, Filled(S), alloc_inode(T_DIR),
         \A u \in Table : Before(u, t) => u = t \/ u \in S
  PROVE  Filled(S \cup {t})' /\ disk'[startlba] = disk[startlba]
<1>1. \A u \in Table : u \in FreeInodes <=> u \notin S
  BY DEF FreeInodes, Filled, T_DIR
<1>2. disk' = [disk EXCEPT ![t[1]].types[t[2]] = T_DIR]
  <2>1. t \in FreeInodes
    BY <1>1
  <2>2. PICK s \in FreeInodes : Take(s, T_DIR)
    BY <2>1 DEF alloc_inode
  <2>3. s = t
    BY <1>1, <2>1, <2>2 DEF Take, FreeInodes
  <2> QED
    BY <2>2, <2>3 DEF Take
<1>3. /\ disk \in [Disk -> Sector] /\ t[1] \in sinode .. sbitmap - 1 /\ t[2] \in Slots
      /\ t[1] \in Disk /\ t[1] # startlba
  BY Layout DEF IInv, Table
<1>4. \A b \in Disk : b # t[1] => disk'[b] = disk[b]
  BY <1>2, <1>3
<1>5. ASSUME NEW u \in Table
      PROVE  disk'[u[1]].types[u[2]] = IF u \in S \cup {t} THEN T_DIR ELSE 0
  <2>1. u[1] \in Disk /\ u[2] \in Slots /\ u = <<u[1], u[2]>> /\ t = <<t[1], t[2]>>
    BY Layout DEF Table
  <2>2. disk[u[1]].types[u[2]] = IF u \in S THEN T_DIR ELSE 0
    BY DEF Filled
  <2>3. CASE u[1] # t[1]
    BY <1>4, <2>1, <2>2, <2>3
  <2>4. CASE u[1] = t[1]
    <3>1. disk[t[1]].types \in [Slots -> 0 .. 3]
      BY <1>3 DEF Sector
    <3>2. disk'[t[1]].types = [disk[t[1]].types EXCEPT ![t[2]] = T_DIR]
      BY <1>2, <1>3 DEF Sector
    <3> QED
      BY <1>3, <2>1, <2>2, <2>4, <3>1, <3>2
  <2> QED
    BY <2>3, <2>4
<1>6. ASSUME NEW b \in Partition \ (sinode .. sbitmap - 1), b # startlba
      PROVE  disk'[b] = ZeroBlock
  BY <1>3, <1>4, <1>6, Layout DEF Filled
<1>7. disk'[startlba] = disk[startlba]
  BY <1>3, <1>4, Layout
<1> QED
  BY <1>5, <1>6, <1>7 DEF Filled

LEMMA FirstTwo ==
  /\ <<sinode, 0>> \in Table /\ <<sinode, 1>> \in Table
  /\ \A u \in Table : Before(u, <<sinode, 0>>) => u = <<sinode, 0>>
  /\ \A u \in Table : Before(u, <<sinode, 1>>) => u = <<sinode, 1>> \/ u = <<sinode, 0>>
<1> USE LayoutAssumption DEF Table, sinode, slog, sbitmap, Slots, Before
<1>1. <<sinode, 0>> \in Table /\ <<sinode, 1>> \in Table
  OBVIOUS
<1>2. \A u \in Table : Before(u, <<sinode, 0>>) => u = <<sinode, 0>>
  OBVIOUS
<1>3. \A u \in Table : Before(u, <<sinode, 1>>) => u = <<sinode, 1>> \/ u = <<sinode, 0>>
  OBVIOUS
<1> QED
  BY <1>1, <1>2, <1>3

LEMMA CleanReserve == IInv /\ Clean /\ Reserve => Clean'
<1> SUFFICES ASSUME IInv, Clean, Reserve, ~crashed PROVE Progress'
  BY DEF Clean, Reserve
<1>1. Progress /\ alloc_inode(T_DIR)
  BY DEF Clean, Reserve
<1>2. CASE pc = "alloc0"
  <2>1. Filled({}) /\ disk[startlba].su.magic /\ pc' = "alloc1"
    BY <1>1, <1>2 DEF Progress, Reserve, AfterFirst
  <2>2. Filled({} \cup {<<sinode, 0>>})' /\ disk'[startlba] = disk[startlba]
    BY <1>1, <2>1, FirstTwo, TakeNext
  <2>3. {} \cup {<<sinode, 0>>} = {<<sinode, 0>>}
    OBVIOUS
  <2>4. Filled({<<sinode, 0>>})'
    BY <2>2, <2>3
  <2> QED
    BY <2>1, <2>2, <2>4 DEF Progress
<1>3. CASE pc = "alloc1"
  <2>1. Filled({<<sinode, 0>>}) /\ disk[startlba].su.magic /\ pc' = "init"
    BY <1>1, <1>3 DEF Progress, Reserve
  <2>2. Filled({<<sinode, 0>>} \cup {<<sinode, 1>>})' /\ disk'[startlba] = disk[startlba]
    BY <1>1, <2>1, FirstTwo, TakeNext
  <2>3. {<<sinode, 0>>} \cup {<<sinode, 1>>} = Reserved
    BY DEF Reserved
  <2>4. Filled(Reserved)'
    BY <2>2, <2>3
  <2> QED
    BY <2>1, <2>2, <2>4 DEF Progress
<1> QED
  BY <1>2, <1>3 DEF Reserve

LEMMA CleanOther == IInv /\ Clean /\ (Start \/ Mount \/ Quit \/ Crash \/ UNCHANGED vars) => Clean'
<1> SUFFICES ASSUME IInv, Clean, ~crashed', Start \/ Mount \/ Quit \/ Crash \/ UNCHANGED vars
             PROVE  Progress'
  BY DEF Clean
<1>1. Progress /\ disk' = disk
  BY DEF Clean, Start, Mount, fs_init, Quit, Crash, vars
<1>2. \A S : Filled(S)' <=> Filled(S)
  BY <1>1 DEF Filled
<1>3. CASE Start
  <2>1. pc = "off" /\ i = 0 /\ i' = 0 /\ su' = disk[startlba].su /\ formatted' = FALSE
    BY <1>3 DEF Start, fs_init, IInv
  <2>2. CASE HasMagic
    BY <1>1, <1>3, <2>1, <2>2 DEF Start, fs_init, HasMagic, Progress
  <2>3. CASE ~HasMagic
    <3>1. pc' = "zero"
      BY <1>3, <2>3 DEF Start, fs_init
    <3>2. su' \in OwnSupers /\ ~su'.magic
      BY <2>1, <2>3 DEF IInv, HasMagic
    <3>3. su'.nblock_tot = 0 => su' = BlankSuper
      BY <3>2, Layout DEF OwnSupers, BlankSuper, Super
    <3>4. startlba .. startlba + i' - 1 = {}
      BY <2>1, Layout
    <3>5. Zeroing'
      BY <1>1, <2>1, <3>3, <3>4 DEF Zeroing, Progress
    <3> QED
      BY <3>1, <3>5 DEF Progress
  <2> QED
    BY <2>2, <2>3
<1>4. CASE Mount
  <2>1. pc = "init" /\ pc' = "mounted"
    BY <1>1, <1>4 DEF Mount, fs_init, HasMagic, Progress
  <2> QED
    BY <1>1, <1>2, <2>1 DEF Progress
<1>5. CASE Quit
  <2>1. pc = "mounted" /\ pc' = "off"
    BY <1>5 DEF Quit
  <2>2. disk'[startlba].su # BlankSuper
    BY <1>1, <2>1 DEF Progress, BlankSuper, Super
  <2> QED
    BY <2>1, <2>2 DEF Progress
<1>6. CASE UNCHANGED vars
  BY <1>1, <1>2, <1>6 DEF vars, Progress, Zeroing
<1> QED
  BY <1>3, <1>4, <1>5, <1>6 DEF Crash

-----------------------------------------------------------------------------
\* However often mkfs is stopped and started again, it writes no sector
\* outside the partition.
THEOREM NeverOutside == ASSUME OwnContents PROVE Spec => []WritesInside
<1>1. Init => IInv
  BY InitHolds
<1>2. IInv => WritesInside
  BY DEF IInv
<1> QED
  BY <1>1, <1>2, Inductive, PTL DEF Spec

\* A partition that mkfs has formatted without a stop holds two inodes, the
\* null one and the root, and nothing else.
THEOREM FormatsEmpty ==
  ASSUME OwnContents, BlankIsZero PROVE Spec => []FormattedIsEmpty
<1>1. Init => IInv /\ Clean
  BY InitHolds, CleanStart
<1>2. IInv /\ Clean /\ [Next]_vars => (IInv /\ Clean)'
  BY Inductive, CleanZero, CleanReserve, CleanOther DEF Next
<1>3. IInv /\ Clean => FormattedIsEmpty
  BY DEF Clean, Progress, Filled, FormattedIsEmpty
<1> QED
  BY <1>1, <1>2, <1>3, PTL DEF Spec
=============================================================================
