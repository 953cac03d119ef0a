------------------------------- MODULE FsFormat -------------------------------
(***************************************************************************)
(* How a partition becomes a file system: fs_init() and fs_format() of     *)
(* fs/fs.c, as main() of mkfs/mkfs.c calls them.  mkfs reads the first     *)
(* sector of the partition; unless it is a superblock it formats the       *)
(* partition and reads it again.  One step performs one disk_write().      *)
(*                                                                         *)
(* A sector is what union block makes of it: the fields of a superblock,   *)
(* and the types of a few inodes; type 0 is a free inode.                  *)
(***************************************************************************)
EXTENDS Integers

CONSTANTS
  SECTORS,            \* sectors of the disk
  startlba, nsectors, \* the partition
  NBLOCKS_LOG, nblock_inode, NINODES_PER_BLOCK,
  Contents            \* what the sectors of the disk may hold at first

T_DIR == 2

Disk      == 0 .. SECTORS - 1
Partition == startlba .. startlba + nsectors - 1
Slots     == 0 .. NINODES_PER_BLOCK - 1

\* The layout fs_format() gives the partition.
slog       == startlba + 1
sinode     == slog + NBLOCKS_LOG
sbitmap    == sinode + nblock_inode
sdata      == sbitmap + 1
nblock_dat == nsectors - (NBLOCKS_LOG + nblock_inode + 1 + 1)

\* The partition has room for the layout and at least one data block; the
\* inode table has room for the two reserved inodes.
ASSUME LayoutAssumption ==
  /\ SECTORS \in Nat /\ startlba \in Nat \ {0} /\ nsectors \in Nat
  /\ startlba + nsectors <= SECTORS
  /\ NBLOCKS_LOG \in Nat /\ nblock_inode \in Nat \ {0} /\ NINODES_PER_BLOCK \in Nat
  /\ NINODES_PER_BLOCK >= 2
  /\ nblock_dat >= 1

\* The fields of a superblock that matter here.
Super(s, n, m) == [start |-> s, nblock_tot |-> n, magic |-> m]
Block(su, t)   == [su |-> su, types |-> [j \in Slots |-> t]]

ZeroBlock  == Block(Super(0, 0, FALSE), 0)
SuperBlock == Block(Super(startlba, nsectors, TRUE), 1)

VARIABLES
  disk,
  pc,       \* "off", "zero", "alloc0", "alloc1", "init" or "mounted"
  su,       \* fs.su: the superblock in memory
  i,        \* sectors that were zeroed
  first,    \* contents of the disk when the machine was first switched on
  formatted,  \* this mkfs has formatted the partition and done nothing else
  crashed     \* some mkfs was cut short

vars == <<disk, pc, su, i, first, formatted, crashed>>

-----------------------------------------------------------------------------
Init ==
  /\ disk \in Contents /\ first = disk
  /\ pc = "off" /\ su = Super(0, 0, FALSE) /\ i = 0
  /\ formatted = FALSE /\ crashed = FALSE

\* Mutant: the magic number is not looked at.
HasMagic_never == FALSE
HasMagic == disk[startlba].su.magic

\* fs_init(): fs.su is set whether or not the magic number is there.
fs_init(otherwise) ==
  /\ su' = disk[startlba].su
  /\ pc' = IF HasMagic THEN "mounted" ELSE otherwise
  /\ UNCHANGED <<disk, i, first, crashed>>

Start == pc = "off" /\ fs_init("zero") /\ formatted' = FALSE

(***************************************************************************)
(* fs_format().                                                            *)
(***************************************************************************)

\* Mutant: the sectors are counted from the start of the disk.
Zeroed_abs == i
Zeroed == su.start + i

ZeroCount == su.nblock_tot

\* The loop that zeroes the partition runs over the superblock in memory,
\* the one that was there before.
Zero ==
  /\ pc = "zero" /\ i < ZeroCount
  /\ disk' = [b \in Disk |-> IF b = Zeroed THEN ZeroBlock ELSE disk[b]]
  /\ i' = i + 1
  /\ UNCHANGED <<pc, su, first, formatted, crashed>>

WriteSuper ==
  /\ pc = "zero" /\ i >= ZeroCount
  /\ disk' = [disk EXCEPT ![startlba] = SuperBlock]
  /\ su' = SuperBlock.su /\ i' = 0 /\ pc' = "alloc0"
  /\ UNCHANGED <<first, formatted, crashed>>

\* alloc_inode() takes the first inode whose type is 0, if there is one;
\* fs_format() does not look at what it returns.
Table == {<<b, j>> : b \in sinode .. sbitmap - 1, j \in Slots}
FreeInodes == {s \in Table : disk[s[1]].types[s[2]] = 0}
Before(s, t) == s[1] < t[1] \/ (s[1] = t[1] /\ s[2] <= t[2])

Take(s, type) ==
  /\ \A t \in FreeInodes : Before(s, t)
  /\ disk' = [disk EXCEPT ![s[1]].types[s[2]] = type]

alloc_inode(type) ==
  \/ \E s \in FreeInodes : Take(s, type)
  \/ FreeInodes = {} /\ UNCHANGED disk

\* Mutant: one inode is reserved only.
AfterFirst_init == "init"
AfterFirst == "alloc1"

Reserve ==
  /\ \/ pc = "alloc0" /\ pc' = AfterFirst
     \/ pc = "alloc1" /\ pc' = "init"
  /\ alloc_inode(T_DIR)
  /\ UNCHANGED <<su, i, first, formatted, crashed>>

\* main() calls fs_init() again, and asserts that it succeeds.
Mount == pc = "init" /\ fs_init("off") /\ formatted' = TRUE

Quit ==
  /\ pc = "mounted" /\ pc' = "off"
  /\ UNCHANGED <<disk, su, i, first, formatted, crashed>>

\* The machine stops between two writes; memory is lost.
Crash ==
  /\ pc \notin {"off", "mounted"}
  /\ pc' = "off" /\ su' = Super(0, 0, FALSE) /\ i' = 0
  /\ formatted' = FALSE /\ crashed' = TRUE
  /\ UNCHANGED <<disk, first>>

Next == Start \/ Zero \/ WriteSuper \/ Reserve \/ Mount \/ Quit \/ Crash

Spec == Init /\ [][Next]_vars

-----------------------------------------------------------------------------
(***************************************************************************)
(* Properties.                                                             *)
(***************************************************************************)

Reserved   == {<<sinode, 0>>, <<sinode, 1>>}

Sector == [su : [start : Nat, nblock_tot : Nat, magic : BOOLEAN], types : [Slots -> 0 .. 3]]

\* Sectors keep their types, and the loop that zeroes the partition does not
\* count beyond it.
TypeOK ==
  /\ disk \in [Disk -> Sector]
  /\ pc \in {"off", "zero", "alloc0", "alloc1", "init", "mounted"}
  /\ su \in {Super(0, 0, FALSE), Super(startlba, nsectors, FALSE), SuperBlock.su}
  /\ i \in 0 .. nsectors
  /\ formatted \in BOOLEAN /\ crashed \in BOOLEAN

\* However often mkfs is stopped and started again, no sector outside the
\* partition is ever written.
WritesInside == \A b \in Disk \ Partition : disk[b] = first[b]

\* A partition that this mkfs has formatted holds two inodes, the null one
\* and the root, and nothing else: no inode, block or bit of what was there
\* before is left.
FormattedIsEmpty ==
  pc = "mounted" /\ formatted /\ ~crashed =>
    /\ \A s \in Table : disk[s[1]].types[s[2]] = IF s \in Reserved THEN T_DIR ELSE 0
    /\ \A b \in Partition \ (sinode .. sbitmap - 1) :
         b # startlba => disk[b] = ZeroBlock

\* The same of the sectors alone: "Zero the partition".
PartitionIsZeroed ==
  pc = "alloc0" => \A b \in Partition \ {startlba} : disk[b] = ZeroBlock

=============================================================================
