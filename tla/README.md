# A verification development for 386

`386` is a hobby operating system for the i386. What exists of it is a boot
loader, *grab*, a small inode file system, *fs*, that the boot loader and a host
tool, *mkfs*, share, and a kernel that is still an empty loop. This directory
holds TLA+ models of its parts, TLC runs of small instances of them, and TLAPS
proofs of what matters most for every instance.

The code has no tests. Its own promises are `fs/README.md` ("no failure recovery,
no concurrent accesses allowed, no caching (i.e., very inefficient but correct)"),
`kernel/include/fs.h`, and the comments; the properties take them, and the
hazards listed in `PROJECT.json`, as their starting point.

## 1. Inventory

One processor runs everything with interrupts off; there are no threads. What
interleaves is the program with the outside: the machine may stop between two
disk writes, a disk controller executes a command while the driver goes on, keys
are pressed while the program is busy, and a user may give legal commands in any
order. Nearly every hazard is one of these, or a boundary.

| part | state | operations | used by |
|---|---|---|---|
| file layer, `fs/fs.c` | on disk: bitmap, inode table, data blocks; in memory: `struct share_arg` and the recursion of one call | `fs_read`, `fs_write`, `fs_geti` | name layer, mkfs, grab |
| name layer, `fs/fs.c` | on disk: types, link counts, directory entries | `fs_lookup`, `fs_mknod`, `alloc_inode`, `free_inode` | mkfs, grab |
| mounting and formatting, `fs/fs.c` | `fs.su`, `fs.init`; on disk: the superblock | `fs_init`, `fs_format` | `main` of mkfs, `getXY` of grab |
| freeing, `fs/fs.c` | bitmap, inode table | `bitmap_free`, `free_indirect`, `free_inode` | only `fs_mknod`, for an inode without blocks |
| mkfs, `mkfs/mkfs.c` | none but the local variables of a command | `ls migrate retrieve read write mkdir touch` | the user of the host |
| keyboard, `grab/kbd.c` | parser state, sequence index, modifier bits | `parse_scancode`, `kbd_poll_event` | command line, boot menu |
| screen, `grab/vga.c`, `printf.c` | text buffer, cursor | `vga_putchar`, `vga_scroll`, `vga_set_color`, `putchar`, `printf` | everything in grab |
| command line, `grab/shell.c` | `buf`, `len`, `off`, `start` | one per key | the user |
| session, `grab/shell.c` | `grab.rootdrive`, `grab.rootpartition`, the menu's row | `ls`, `set`, `boot` | command line, `shell()` |
| IDE, `grab/ide.c` | the table of drives, `ide.drive_sel`; the controllers | `ide_init`, `ide_sel`, `ide_get_partitions`, `ide_read_lba`, `ide_write_lba` | `fs_init`'s callbacks, session |
| PCI, `grab/pci.c` | the table of devices | `pci_prob_dev`, `pci_get_dev`, `pci_list`, reads and writes of configuration space | `start2` |
| start of stage 2, `grab/stage2.c` | how far it is | `start2` | boot sector |
| boot sector | registers, memory | straight line | BIOS |
| `util.c`, `pio.c`, `panic.c` | none | pure loops, port accesses | everything |
| kernel | none yet | none yet | `boot` |

How they interact: `fs.c` reaches a disk through three callbacks given to
`fs_init`. In mkfs these are `read` and `write` on a disk image; in grab they are the
IDE driver, which takes the drive from `ide.drive_sel`. So two pieces of global
state, the superblock and the selected drive, must name the same volume, and no
function is given either. The command line, the menu and every `printf` share the
one cursor of the screen. `start2` brings grab up: it scans the PCI buses, refuses
the machine or lets the IDE driver probe its drives, and calls `shell`.

What makes each part correct:

* **file layer**: the trees of blocks stay trees whatever write is interrupted;
  nothing is lost by a failed write; a read gives what was written, zeros elsewhere;
  a call changes its own range of its own file only; it ends.
* **name layer**: entries form a tree without dangling entries or duplicate names;
  link counts count; what was created is found; a failure gives its inode back.
* **mounting, formatting**: nothing outside the partition is written; a formatted
  partition is empty but for its root.
* **keyboard**: events are those of the keys, in order, with the modifiers of their
  press; the parser never loses its place; modifiers do not stick.
* **command line**: the command that runs is the line that was typed; the screen
  shows it.
* **session**: what boots is the highlighted entry of the root that was set.
* **mkfs**: a copied file is the original, a copy that was cut short its beginning;
  no command and no restart harms a file it was not given.
* **IDE**: drives are measured right; writes reach a drive in order; a read gives what
  was written last, or fails; every wait ends.
* **PCI**: every function of every bus that is followed is found once.
* **start**: the ports of a controller are touched only if it is there.

## 2. Modules

| module | models | uses |
|---|---|---|
| `FsFile` | file layer | |
| `FsFiles` | its refinement | `FsFile`, `FileSpec` |
| `FileSpec` | abstract files: a size and bytes, changed in pieces | |
| `FsDir` | name layer | `NameSpec` |
| `NameSpec` | abstract tree of names | |
| `FsFormat` | mounting and formatting | |
| `Mkfs` | commands of mkfs | `FsFormat` |
| `Kbd` | keyboard driver and keyboard | |
| `Shell` | command line and screen | `LineSpec` |
| `LineSpec` | abstract line: what is left and right of a cursor | |
| `Grab` | session: drive selection, superblock, root, boot menu | |
| `Ide` | disk driver and the two controllers | |
| `Pci` | scan of the buses | |
| `Printf` | numbers and fields of `printf`, `str2uint` | |
| `Start2` | start of stage 2 | `Pci`, `Ide`, `Printf` |
| `MC*` | constants for TLC | |
| `FsFileProofs`, `FsDirProofs`, `FsFormatProofs`, `MkfsProofs`, `KbdProofs`, `ShellProofs`, `GrabProofs`, `Start2Proofs` | theorems | |

Definitions keep the names of the C code. Where a guard or an assignment of the
code is the kind of place a bug would be made, it is an operator of its own, and
next to it stands a variant that makes the bug (`Clamped_not`, `Freed_dir`, ...).
No specification uses a variant; they say which change of the code a property
would notice.

### FsFile, FsFiles

One step performs at most one `disk_write`. `bitmap`, `inode` and `blk` are the
disk; everything else is the memory of the running call and is lost in `Crash`. The
recursion of `recursive_rw` is a stack of three frames: `stk[0]` is the loop of
`inode_rw` over `di.ptrs`, `stk[1]` and `stk[2]` are the loops over the buffer `b` of an
indirect block. A frame holds the block it was read from, its pointers as changed
in memory, and the loop index. Each way through the function is an action: `Skip`
(no overlap), `Alloc`, `ZeroIndirect` and `OutOfBlocks` (null pointer of a write), `Hole` (null
pointer of a read), `Descend`, `DataBlock`, `WriteBack` (end of a loop, or failure),
`Finish` (end of `inode_rw`). `Begin` and `Refuse` are the first half of `inode_rw`.

A cell is a byte of a data block or a pointer of an indirect block, so a block has as
many bytes as pointers; the code needs no relation between the two numbers. A data
block is read and written in one step: nothing else runs in between. Unused data
blocks hold anything in `Stale`, since `fs_format` does not always clear them.

`FsFiles` holds the refinement mapping to `FileSpec`. It reads files off the disk by the
pointers of the inode, independently of the walk. Blocks that a running write has yet
to link to its inode are not part of the file there, so that `FileSpec` lets bytes appear
in any pieces, and requires those the call reports at its end. The comparison is for
partitions whose data blocks were zero (`cleared`), since the code never clears one.

### FsDir

One step performs one write that another call can see. An `fs_write` of an entry is one
step: by `FsFile` its commit point is the write of the directory's inode, or, when
the directory's block is there already, that of the size in it. It fails only when a
new block is needed, which is when the entries fill their blocks (`LinkFails`). A path
is a sequence of slashes and names; `fs_lookup` and `getname` are translated token by
token, with what they make of leading, trailing and repeated slashes. Names of
MAXNAME characters and more are one class. Directories are written by `fs_mknod` only;
the write command of mkfs, which lets a user write into one, is in `Mkfs`.

### FsFormat

A sector is what `union block` makes of it: some fields of a superblock and the types
of some inodes. One step performs one `disk_write`. `Start` is the first `fs_init` of
mkfs; without a magic number `Zero` runs over the superblock *in memory*, which is the
one found on the partition; then `WriteSuper`, two calls of `alloc_inode`, which take the
first free inode of the table (`Take`), and `Mount`. `Crash` may fall anywhere between, and
mkfs starts again.

### Mkfs

`Mkfs` goes on where `FsFormat` is `"mounted"`: `Prompt` reads a command, the others carry it
out by calls of `fs.c`, each of which does what `FileSpec` and `NameSpec` say (one step per
call). `migrate` is `MigrateCreate`, `MigrateOpen` and a `MigrateByte` for each byte, in the
order of the code: the file is made before the host's is opened. `retrieve` and `write`
likewise. The inode table is that of `FsFormat`, so that a file's inode, its name and the
table can disagree. The room of the disk is a number of entries and bytes that are in
no hole. A call of `panic` is the state `"panic"`, which only `Kill` leaves. `Kill` stops mkfs in
any command, with what a call that is cut short may leave (`HalfDone`), and mkfs starts
again on what is there. `source` is a history variable: what a file is a copy of.

A name stands for a path, and `Parent` gives its directory: another name, the root, or none, which is
a path that is relative or too long or whose parent is never there. `fs_mknod` makes a name that has
a place (`Placed`: its parent is there and a directory) if there are an inode and room; every other
outcome is NULLINUM, on which `migrate` panics and `mkdir` and `touch` say nothing. What `fs_write` stores
ends at the room of the disk and at the largest file (`Fits`), and a negative size is refused with -1.

`do_read` asks for no type, so `write` is also given directories. `WriteFile` is what it does to a file;
`WriteDirectory` puts the buffer over entries: some of them are gone, with all that is below, or
hold another inode number (`Scribble`). `scribbled` notes it, and the model takes no command
afterwards, since what a later one meets depends on the bytes that were written.

What `ls` and `read` print is left out. A command without its words does nothing; `mkdir`
and `touch` then go on with an uninitialised path (mkfs.c:194), which is like any path. That
`read` of a host file may fail with -1, which the loop takes for a byte, is not modelled:
host files are plain files.

### Kbd

`parse_scancode` is translated branch by branch; `Read` is one turn of the loop of
`kbd_poll_event`. The keyboard is external: `Press` and `Release` send the make and break
codes of scan code set 1, as the driver's own tables give them, and note in
`expected` the event a user would expect. `MaxBytes` bounds how far the reader lags.
Keys that kbd.h gives no number are named by their make codes. Left out: fake shifts around
arrows when Num Lock is on, and the exchange of keypad Enter and slash
in the table at kbd.c:222-225 (neither key is in `Keys`). A lock toggles once per make
code, typematic ones included, in the driver and in the keyboard model alike.

### Shell

`textbuf`, `cursor` and `vga_scroll` are the screen; `buf`, `len`, `off`, `start` the line. Each
key is an action that changes both, as the code does. `Enter(s)` prints a newline, the output
s of the command and a prompt through `putchar`. `InsertPanics` is the panic of
`vga_putchar`. The line as the user thinks of it is `LineSpec`.

### Grab

`drive_sel` is `ide.drive_sel`, `su` and `init` are `fs.su` and `fs.init`, `root` the two fields of
`grab`. A command reads `Volume(drive_sel, su)`, whatever these are. `getXY` is translated with
what it leaves behind when it fails; `ls` without an argument leaves the last drive
selected. `strayed` is a history variable: some command came after the `set` that
set the root. All drives are partitioned alike, and a partition without a file
system is blank: with different layouts a wrong superblock leads to sectors in
the middle of something, which can only be worse. Malformed arguments return
without effect and are left out.

### Ide

The driver is a program of polls and port writes; each poll that decides something is a
step. `Issue`, `ReadFailed` and `ReadData` are `ide_rw_abs`, which is called by `ide_init`
(`Answer` to `ReadTable`: cylinders are counted until one cannot be read, then heads, then
the table is taken from the first sector) and by a request (`Request`, `Return`).
The controllers are external: `Execute` is the end of the busy state, `Settle` the moment the
data can be read, `Wake` a drive that begins to answer. A controller has one command at a
time, and a write is in the controller when the driver returns. `want` is a history
variable: what sectors hold once every command is executed. Ports are numbers of
cylinders, heads and sectors modulo the width of their registers (`CWRAP`, `MAXH`); division
by a negative number of heads is that of the processor.

### Pci, Printf, Start2

The recursion of `_pci_prob_dev` is a stack of frames with its two loop counters and `nfun`.
A device of one function may answer for every function number (`alias`). `Overrun` is
the write behind the table of ten places; the model ends there. `Start2` composes the scan
with the list that is printed, the check of the controller, and `Ide`. `Printf` gives what
is printed as operators: `_int`, the width and the padding. The loops of `_int`, `str2uint` and
`printf` are functions over the places they run through: what is left of a number after
k divisions, what is read of one after k digits, and what `printf` has done after k
characters of its format. `widbuf` and its pointer are locals of that loop's body in the
code, which count on keeping their value from one character to the next, as they do in the build.

## 3. Runs

| run | shows | expected |
|---|---|---|
| `FsFileCrash` | soundness of the block trees under a crash, short writes, reads; each step brings a call nearer to its return; `FsFiles` implements `FileSpec`; bytes past the end of a file are zero | holds |
| `FsFileSparse` | a read from the middle of a hole is right | violated |
| `FsDirNames` | tree of names, link counts, lookup; `FsDir` implements `NameSpec` | holds |
| `MkfsSession` | formatting stays in the partition and empties it; commands copy right, survive stops and restarts, harm nothing but what they were given and what is below it, come nearer to their end with each call, and panic only for a reason | holds |
| `FsFormatForeign` | the partition is zeroed, whatever it held | violated |
| `KbdKeys` | order, modifiers and completeness of events | holds |
| `KbdCtrl` | left control is a modifier | violated |
| `ShellLine` | line, buffer and screen agree, the screen until it scrolls under the line | holds |
| `GrabMenu` | the highlighted system of the root is booted, at once after set | holds |
| `GrabRoot` | the menu is that of the root also after other commands, a refused set among them | violated |
| `Start2Up` | functions are found once, listed in columns; drives are measured right; writes in order, reads right; scan, probing and requests come nearer to their end with each step, and every wait ends | holds |
| `PciBridges` | the scan goes on behind a bridge | violated |

A violated property states what a comment of the code says; `PROJECT.json` quotes it
under `findings`, with the line that disagrees. In words:

* fs.c:267: a read that starts in a hole is filled for the hole's full length.
* fs.c:515: `fs_format` zeroes what an old superblock names, not the partition.
* kbd.c:209: left control is not a modifier.
* shell.c:166: `boot` does not use the root that `set` has stored.
* pci.c:65: class and subclass of a bridge are exchanged, so that no bridge is followed.

The models also do, because the code does, what no property here forbids:

* fs.c:51: up to seven data blocks, past the last whole byte of the bitmap, are never used.
* fs.c:333: a write that ends on a block boundary takes one block too many.
* fs.c:349: a write beyond the largest file stores nothing but makes the file larger.
* fs.c:432: `fs_mknod("/")` makes a file without a name.
* kbd.c:79: print screen never matches.
* shell.c:327: when the screen scrolls under the line that is edited, the line is lost
  on the screen, and the next character panics.
* mkfs.c:97: a `migrate` that fails leaves an empty or short file, whose name stays taken; given a
  path where no file can be made, or one that would grow past the largest file, it panics.
* mkfs.c:178: `write` does not look at the type. The names below a directory that it is given are gone, or
  lead elsewhere: after `mkdir /a`, the command `write / 2 00` makes the inode number of `/a` 0x3030, and a path below
  it ends in a failed assertion (fs.c:378, 466), although inode numbers in entries are "supposedly valid" (fs.c:465).
* mkfs.c:179: `write` panics for every negative size but -1, which does nothing, and past the largest file.
* fs.c:503: a `set` of grab that is refused leaves the superblock of a partition that is no file system, and
  `boot` then stops in `fs_lookup`.
* shell.c:193: a menu with more entries than the screen has rows stops the machine at its last row.
* mkfs.c:138: `retrieve` does not look whether the host took a byte.
* ide.c:137: a write behind the last sector returns 0.
* ide.c:178: a drive whose first sector cannot be read gets the table that is in the buffer,
  that of the drive before.
* ide.c:90: a channel without drives whose lines read as all ones is waited for for ever.
* ide.c:109: a write that fails is never noticed.

### Bounds

* `FsFile`: one pointer of each level, blocks of two cells: files of 1 + 2 + 4 blocks,
  so that every path through the recursion, both partial blocks and both kinds of
  indirect block occur. Two calls, of which the second meets what the first left
  or what a crash made of it; offsets 0, 1, 3, 6, 12 reach each level and the last
  block, 20 is past the largest file. Bitmap bytes of four bits, nine data blocks: the
  disk fills in the middle of a call. Unused blocks are all zero or all not.
* `FsDir`: three inodes to create, two names, blocks of two entries; every path of up
  to three tokens and longer ones with doubled and trailing slashes. A
  directory of three entries needs a second block, so that growing may fail.
* `FsFormat`: eight sectors, two inode blocks of two inodes. Blank, in use, and in use
  with a broken magic number; any number of crashes.
* `Mkfs`: on these disks, three commands, so that a file is made, changed and copied back,
  with any number of stops and restarts in between. Two names in the root, one below the first of
  them, which is a file, a directory or not there, and a path without a parent; a file of the host
  of two bytes, or missing. A buffer of two bytes and files of four at most: writes that are cut by
  the buffer, reach the end of the largest file or start behind it, leave a gap, or have a negative
  size. Two free inodes and room for five entries and bytes, so that each runs out.
* `Kbd`: two letters' worth of keys (one of the keypad), an arrow, pause, left and
  right control, left shift and caps lock, and up to nine bytes waiting. All
  parser states that these keys reach are reached at every lag.
* `Shell`: three rows of three cells and a line of five characters, which wraps, ends
  anywhere on the screen and crosses its end. Output of no, one and two rows.
* `Grab`: three drives, two partitions each, every mix of unused, blank, without /boot,
  with an empty one, with a file of that name, with systems that fit the screen of
  three rows and with systems that do not.
* `Start2`: two devices of two functions on bus 0, of every mix of nothing, a plain
  function, the controller in either mode, a bridge, and devices that the scan takes for
  bridges, to one and two buses; a table of six places, which some machines overrun.
  Drives of up to three cylinders and three heads, with two sectors a track: good, without
  table, too large, with a bad sector in the data, on a track that is measured, or at the
  start; on one or both places of a channel, or on both channels; a floating channel. Two
  requests, the second of which meets a write that is still being executed. Buses are varied
  without drives and drives with one kind of bus, since the two meet only in whether the
  driver is started.

`CHECK_DEADLOCK FALSE` stands where the program may stop: the calls of `FsFile`, the
requests of `Ide`, the commands of `Mkfs` and the keyboard's keys are bounded, `panic` ends
`Shell` and `Start2`, a booted or stopped machine ends `Grab`, an assertion of mkfs
ends `FsFormat`.

### Fairness

* `EveryCallReturns`: weak fairness of the steps of a running call. The call has the
  processor to itself, with interrupts off, and waits for nobody inside `fs.c`.
* `CommandsEnd`: weak fairness of the steps of a command of mkfs, an ordinary process
  whose calls return (`EveryCallReturns`).
* `WaitsEnd`: weak fairness of the scan and of the driver, which have the processor to
  themselves, and of each controller: the status of a controller that was given a command
  does change, else the driver cannot be right.

No fairness is assumed of callers, of users, of keys, of stops, or of drives that are
slow to answer when they are probed.

## 4. Proofs

| theorem | says |
|---|---|
| `FsFileProofs!TypeCorrect` | `FsFile` keeps its types |
| `FsFileProofs!AlwaysMarked` | a block that a file reaches is marked |
| `FsFileProofs!NeverShared` | no block is in two places |
| `FsFileProofs!NothingLeaks` | without a crash, a marked block is in a file or in the running call |
| `FsFileProofs!ShortMeansFull` | a write comes short only for lack of room |
| `FsFileProofs!ReadsAreRight` | a read that does not leave a hole in its middle gives the bytes of the file |
| `FsFileProofs!ZerosPastEnd` | behind the end of a file there are zeros |
| `FsFileProofs!FilesRefined` | `FsFiles` implements `FileSpec` |
| `FsFileProofs!CallsGetOn` | each step brings a call nearer to its return |
| `FsDirProofs!TypeCorrect` | `FsDir` keeps its types |
| `FsDirProofs!TreeOfNames` | entries lead to inodes in use, each is named once, directories form a tree |
| `FsDirProofs!NamesDiffer` | no directory has two entries of a name |
| `FsDirProofs!CountsAreRight` | link counts count |
| `FsDirProofs!CreatedAreFound` | what `fs_mknod` made, `fs_lookup` finds |
| `FsDirProofs!NamesKept` | `FsDir` implements `NameSpec` |
| `FsFormatProofs!NeverOutside` | formatting stays inside the partition |
| `FsFormatProofs!FormatsEmpty` | a formatted partition is empty |
| `MkfsProofs!TypeCorrect` | `Mkfs` keeps its types, its files their length, the disk its room |
| `MkfsProofs!InodesAreRight` | every name has an inode of its own, of its type, as long as `write` was given files only |
| `MkfsProofs!CopiedRight` | copies are the original, or a beginning of it |
| `MkfsProofs!FilesAreKept` | no command and no restart harms a file it was not given, or that is not below a directory given to `write` |
| `MkfsProofs!SessionInside`, `SessionStartsEmpty` | the two properties of `FsFormat`, with sessions of commands in between |
| `MkfsProofs!PanicsAreTrue` | a panic comes of a disk without room or inodes, a path without a place, the largest file, a negative size, or a directory that was overwritten |
| `MkfsProofs!CommandsGetOn` | each call brings a command nearer to its end |
| `KbdProofs!TypeCorrect` | `Kbd` keeps its types |
| `KbdProofs!NothingIsLost` | every key is returned as an event |
| `KbdProofs!InOrder` | events are in order, with the modifiers of their moment |
| `ShellProofs!TypeCorrect` | `Shell` keeps its types |
| `ShellProofs!ScreenIsBuffer` | the screen shows the buffer until it scrolls under the line |
| `ShellProofs!LineIsRun` | `Shell` implements `LineSpec` |
| `GrabProofs!TypeCorrect` | `Grab` keeps its types |
| `GrabProofs!RootStarts` | boot does not stop after set |
| `GrabProofs!RootIsBooted` | boot shows the root after set |
| `GrabProofs!HighlightedIsLoaded` | the lit row is that of the entry that enter loads |
| `Start2Proofs!TypeCorrect` | scan and driver keep their types |
| `Start2Proofs!EverythingFound` | the table holds every function of every bus that is followed, once |
| `Start2Proofs!RightController` | ports are touched only if the controller is there |
| `Start2Proofs!DrivesMeasured` | geometry and table of a drive are its own |
| `Start2Proofs!LastIsWriting` | writes reach a drive in order |
| `Start2Proofs!ReadsLastWrite` | a read gives what was written last, or fails |
| `Start2Proofs!LinesUp` | the list is in columns, and each shows the number of its field |
| `Start2Proofs!StartEnds` | each step of the scan, and of driver or controllers, brings the start or a request nearer to its end |
| `Start2Proofs!AnswersCome` | a read waits only on a controller that will answer |

They hold for every value of the constants that satisfies the named assumptions:
any number of inodes, pointers, blocks, cells, names, calls and crashes; any disk,
partition and layout; any screen and buffer; any number of drives and partitions; any
geometry of the drives, any buses and any number of requests.

**FsFile.** That reachable blocks are marked is not inductive: a running write holds
pointers in memory that are on no disk yet. `IInv` therefore says the same of the trees
*as they would be if memory were written*, and relates the two:

* `TypeOK`;
* `CallOK`, `FramesOK`: a running call is on an inode of the table, frame d + 1 walks the
  block that frame d is visiting, and the depth is that of the pointer's level;
* `MemMarked`: in the trees made of the frames, every pointer is a data block whose bit is set;
* `MemUnshared`: in these trees no block occurs twice;
* `Behind`: a pointer on the disk is null or is the pointer of the memory trees.

From the last three the disk's trees are marked and unshared at every moment, and
since a crash throws memory away it leaves a state in which memory *is* the disk.
An allocation takes a bit that was clear, hence, by `MemMarked`, a block that is in
no tree. That an indirect block is cleared before any pointer to it reaches the disk is
what keeps `Behind` true. `NothingLeaks` needs no more than how a step changes the memory
trees, which is what the lemma of each action states: it leaves every pointer (`Kept`) or adds
one, to the block whose bit it sets (`Added`).

What the bytes of a file are takes three more invariants.

* `Walk` says where the call is. The block number `sa.boff` that the code counts is the place
  of the frames' indices in the order of the file's blocks (`Place`), `sa.off` is where the next
  byte goes but for whole blocks, and nothing of the request before that place is left out;
  a write has stored just what lies before it (`At`). The arithmetic is that of `BlockPath`, the
  reference that finds a block's path by division, against the sums of the walk
  (`PathOfBlock`, `BlocksBelow`). At the end of the walk the place is that of the largest file,
  so a write that ends there has stored all that fits, and one that fails has met a full bitmap:
  `ShortMeansFull`.
* `ReadFrames` and `Read`: the frames of a read are what the disk holds, and its buffer is the
  beginning of what it asked for. A null pointer is met at the beginning of its coverage, or the
  read has not left the hole it started in; the third way is the finding of `FsFileSparse`.
* `Fresh`, `MemBytes` and `Gap`: blocks that were never marked are clear; in the memory's trees the
  files hold what the running call has written and for the rest what is on the disk; behind
  the end of a file is nothing but what the running call has put there. A step then changes
  the disk only to what the memory's trees hold (`Serves`): in place, when the data block
  is linked already, or by writing the block of pointers, or the inode, that links it. That is a
  `Store` of `FileSpec`, and `Finish`, after which disk and memory are one, is its `End`.

**FsDir.** A crash of `fs_mknod` may leave an inode without an entry, or an entry without
the link count, and a failure gives an inode back. `IInv` is the types, and

* `Reserved` and `Packed`: the two reserved inodes are in use, and inodes in use come before
  the free ones, since an inode is only given back by the call that took it, the last one.
  So an entry leads to an inode younger than its directory, and there is no cycle;
* `EntriesOK`: an entry lies in a directory, leads to an inode in use, and no two entries
  have a name in one directory or an inode in common;
* `CallOK`: the call's inode is not counted, has no entry before the entry is written and
  one afterwards; until then its name is not in the directory, which is older;
* `CountsOK`: entries and link counts of an inode agree but for the running call.

The code takes the first free inode and the first free entry; that there is one uses the
least element of a finite set of numbers, from the library's well-founded order on `Nat`.

The lookup adds `Routed`: the path of the running call leads to its directory, and with the name
added to the new inode once the entry is written. In a tree a sequence of names that leads to an
inode is the only one that does, and it is shorter than the inode's number, so that
`NameSpec`, which looks only at sequences that short, sees every inode. Writing an entry adds
the one sequence that ends with it and changes none, since its inode has no entries of its own
yet. That the names of a path are those of its parent and then the last one, whatever slashes
there are, is shown token by token.

**FsFormat.** `IInv` says that the superblock in memory and the one on the partition are
among the three that a partition can have which was blank or a file system, and
that the loop counts within it; for `FormatsEmpty`, `Clean` says what is zeroed and reserved so far (`Zeroing`,
`Progress`), where a partition that is not zeroed by the loop was blank. `OwnContents` and `BlankIsZero`, the
assumptions, say so of the first contents of the disk; `FsFormatForeign` shows that this is
needed.

**Shell.** The refinement to `LineSpec` maps the buffer to what is left and right of the
cursor. `BufOK` says that the line ends inside the buffer with its cursor inside the line; the
rest is how the two halves change when a character is inserted or deleted between them,
for sequences of any length. The screen plays no part in that refinement.

`ScreenIsBuffer` is about the screen alone. What `printf` does is followed character by character: the
cursor stays on the screen, since a newline at the end scrolls, and a prompt that is printed
after that leaves the cursor short of the last row's end. `RoomAssumption` says what this
takes: a prompt and a command are no longer than the screen without a row, far less than the 1920
cells of the code. The invariant then says where the line starts, that the cells from there on
are the buffer, and where the cursor is once the screen has scrolled under the line (`Placed`,
`Drawn`).

**Grab.** `IInv` says that while no command has strayed, drive and superblock are those
of the root (`AtRoot`) and its /boot has entries; that the row of the menu is that of
an entry, and that this row, and no other, is lit (`Lit`).

**Mkfs.** The invariant is that of `FsFormat` and three parts.

* `Phases`: what the disk is known to hold in each phase. A session uses a file system only if
  the format was never stopped, so that the two reserved inodes are taken and no command
  gets one of them; without this, `InodesMatch` does not survive a restart.
* `Files`: the tree of names, its inodes (`InodesMatch`), lengths and room (`Sizes`), and what each
  file is a copy of (`Copies`), with the file of a running `migrate` excepted, of which only the
  bytes so far are there.
* `Session`: what the running command knows: that its words are names, how far a copy is
  (`Copying`, `Fetching`), that a `retrieve` that is over has written the whole file (`Fetched`).

That the room is kept to is about a sum over all files, and needs that a sum may be taken in
any order: the lemmas `TotalRun`, `AnyOrder` and `TotalAdd`, by induction over the size of a finite
set. Assumed are finite sets of names and hosts (`SessionAssumption`), that the tree found on
the disk fits it (`OldTreeAssumption`), what a parent may be (`PathAssumption`), and `OwnContents` of `FsFormat`.

`FilesAreKept` needs the names below a directory, on any level (`Under`, the least set of names closed
under `Parent`), and that what is below an entry that was hit is below the directory (`Below`). `Copies`
survives a write on a directory because bytes do; `InodesMatch` does not, and is limited to sessions without one.

`PanicsAreTrue` follows the panics back to the call that came short. A byte or a piece of which less was
stored than was expected means that one more would not fit (`Stored` is the largest number that does): either it
would lie past the largest file (`TooLarge`), or what is in no hole has reached the room
(`MigrateByteReason`, `WriteFileReason`), by the same sums taken of a file that grew (`UsedGrows`). An entry that was
not made means that there is no inode, no room or no directory for it (`MigratePanicReason`). It
says that `write` panics for these reasons only, and not because the end of a
buffer cut the words short.

**Kbd.** `Caught` says that the parser, going on from where it is over the bytes that wait, returns
the expected events that are left, in their order, and comes to its first state with the
modifiers that are held. So it covers any lag, and the middle of a sequence. Reading a byte is
one step along this run, and a key appends bytes that a parser in its first state takes
back to it. It is proved for the keys of `Decodable`: all that the driver has codes for but
left control and print screen, which the driver does get wrong (section 3).

**Start2.** The scan works through the buses with a stack; `ScanInv` says that the table holds
the functions passed so far (`Sound`, `Complete`), each at one place (`Once`), where what has been
passed is read off the frames. Which buses are followed is a recursive function over steps
away from the root; its equations come from functions over bounded runs of numbers, which exist by
induction over their length. `Checked` is what is known after the look into the table.
`TopologiesAssumption` says that functions are at addresses of eight, five and three bits, that the fields
of a header have 16 bits or eight, and that a device that answers for every function number does not
say it has several.

The invariant of the driver has two halves. While it probes: the command
that was given is the one of the cylinder or head that is counted (`Command`), an answer is
the drive's answer to it (`Result`), so that the counters are below the drive's size
(`Counting`) and the buffer holds the first sector when the table is taken
(`FirstSectors`). While it serves requests: registers hold the address of the
request (`Asked`, `Handling`), at most one write per channel is not on its medium and it is
the channel's command (`Ordered`), an answer is that of the sector (`Served`); `Quiet`
and `Waits` say which controllers are busy when. That two sectors are never sent to one
address is lemma `Chs`, the arithmetic of `lba_to_chs` over any geometry. Assumed are a
machine's drives (`MachinesAssumption`), requests on cylinders that the registers can hold
(`LbasAssumption`: sector numbers beyond it wrap around in the registers and reach
another sector), and the machine's functions (`TopologiesAssumption`). The scan keeps its frames
on devices that exist and its table to functions that respond.

`LinesUp` is about text. What `_int` prints of a number of 16 bits has at most five digits
(`Dividing`), none of them a leading zero, and read back by `str2uint`'s rule is the number
(`FiguresRight`); filled up with spaces it is a cell of eight characters (`CellShows`); and
`printf` appends one such cell for each three characters of the format (`FieldStep`,
`FieldAdded`, `RowShows`). That fields have 16 bits is what the widths of an address and of
`struct pcihdr` say (`PciAssumption`, `TopologiesAssumption`).

**Coming to an end.** Liveness rests on fairness and on a number that falls. The number is proved:
`CallsGetOn`, `CommandsGetOn` and `StartEnds` say that `StepsLeft`, `CallsLeft`, `ScanLeft` and
`WaitLeft`, natural numbers in every reachable state, are smaller after each step. All but `CallsLeft`
are written as digits to a base that no digit reaches, the slowest loop first, so that a step that
advances one loop may start the inner ones again: the frames of the walk over the pointers; the
places of the table, the frames of the scan, devices and functions; the drives to probe, the polls and
cylinders or heads of one, the command, and what the controllers do with it. That the digits stay
below the base is where the invariants are needed, for the scan that its frames and its table
share the bound of the table (`Deep`), for the driver that nothing is waited for that does not come
(`AnswersCome`). A call that is not in the way of another, and an `ide_init` that is not held up by a floating
channel, then lack only the processor.

**Left to TLC.** The temporal half of liveness (`EveryCallReturns`, `CommandsEnd`, `WaitsEnd`): that a step
which is always possible is taken at last needs fairness and `ENABLED`, which are out of the prover's
reach. Every other property of a run that holds is a theorem.

**Left to the proofs.** Two invariants are the safety half of a liveness property that the runs check, and
are stated by theorems only: `AnswersCome` (of `WaitsEnd`) and `PanicsAreTrue` (of `CommandsEnd`). So are the
type invariants of `FsDir`, `Grab` and `Kbd`, which the runs of these modules do not repeat.

Induction over an operator is out of reach too, but induction over a set is not: where
the proofs need it, over the tokens of a path, the characters of a print or a format, the digits of a
number, the buses or the files of a disk, the numbers for which a statement fails have a least element
in the library's well-founded order on `Nat`, and there is none.

## 5. Not modelled

* Arithmetic of 32 bits: offsets near 2^32, sizes below -0x10000000 (fs.c:316-331), `nblock_dat` of
  a partition too small for the layout, patterns of negative numbers in `printf`.
* Paths of MAXPATH and names of exactly MAXNAME characters, which overrun arrays by
  amounts that depend on the stack (fs.c:410-414, 440-443).
* In `Mkfs`: `mkdir /` and `touch /`, which make an entry with an empty name (fs.c:432); what an inode holds
  that an overwritten entry leads to, names that appear so, the size of a directory that was written to, and
  every command after such a write; what a write that was stopped has left of the blocks between the end of a file
  and its offset.
* The header of the list of PCI functions.
* Freeing of blocks: `free_indirect` and the part of `free_inode` that calls it are reached
  by no caller, since the only inode ever freed has no blocks; so `bitmap_free`, which takes
  the bit from the block's absolute number where `bitmap_alloc` counts from the first data
  block (fs.c:72), never runs.
* Reads and writes of a configuration space by table index (pci.c:115, 127): no caller.
* `apply_shift`, a table; the string functions: pure loops. `strncmp` (util.c:49) never counts
  its `n` down and compares whole strings; mkfs is linked with the host's.
* In `printf`: that a sign is not counted in the width (printf.c:75) and what a width of more
  than ten digits does (printf.c:131) are in `Printf`, but no caller prints such a field.
  `%c`, `%u`, `%p` and `%t`.
* The bytes a memory map or a module argument of `start2` holds: they are not used.
* The boot sector, port accesses: straight lines. The kernel: empty.

## 6. Plan

Done, in this order: `FsFile` with `FileSpec`; `FsDir` with `NameSpec`; `FsFormat`; `Kbd`; `Shell` with
`LineSpec`; `Grab`; `Mkfs`; `Ide`, `Pci`, `Printf` and `Start2`; the proofs of section 4. A module for the
freeing of blocks was planned and dropped: that code has no caller.

Left: `Fs32`, the bounds of `inode_rw` with 32-bit arithmetic, as an operator over the edges of
the ranges.
