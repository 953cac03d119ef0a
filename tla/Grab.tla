--------------------------------- MODULE Grab ---------------------------------
(***************************************************************************)
(* A session of the boot loader: the commands ls, set and boot of          *)
(* grab/shell.c and the boot menu, over the drive selection of grab/ide.c  *)
(* and the one superblock that fs/fs.c keeps.  Which volume a command      *)
(* reads is not an argument of it: it is whatever drive was selected and   *)
(* whatever superblock was read last, and both outlive the command that    *)
(* chose them.                                                             *)
(*                                                                         *)
(* All drives are partitioned alike, so that a superblock of partition y   *)
(* leads, on any drive, to partition y.  A partition without a file system *)
(* is blank.                                                               *)
(***************************************************************************)
EXTENDS Integers, Sequences

CONSTANTS
  NDRIVES, NPARTS,  \* 4 and 4 in the source
  ROWS,             \* rows of the screen
  Disks             \* the drives a machine may have

Drives     == 0 .. NDRIVES - 1
Partitions == 0 .. NPARTS - 1
Blank      == -1           \* the superblock of no partition
NoRoot     == <<-1, -1>>

ASSUME GrabAssumption ==
  /\ NDRIVES \in Nat \ {0} /\ NPARTS \in Nat \ {0} /\ ROWS \in Nat \ {0}
  /\ Disks \subseteq [Drives -> [exist : BOOLEAN, msdos : BOOLEAN,
                                 part : [Partitions -> [nsectors : BOOLEAN, fs : BOOLEAN,
                                                        boot : {"missing", "file", "dir"},
                                                        entries : Seq(STRING)]]]]

VARIABLES
  disk,         \* the drives of this machine
  drive_sel,    \* ide.drive_sel
  su, init,     \* fs.su and fs.init
  root,         \* grab.rootdrive and grab.rootpartition
  pc,           \* "set0" and "boot0" at the start of shell(), "prompt", "menu",
                \* "booted", or "stopped" in panic() or a failed assert()
  row,          \* the selected row of the menu
  highlighted,  \* rows shown in the other colour
  booted,       \* the entry that was loaded
  strayed       \* a command has selected or mounted something since root was set

fs   == <<su, init>>
menu == <<row, highlighted, booted>>
vars == <<disk, drive_sel, su, init, root, pc, row, highlighted, booted, strayed>>

-----------------------------------------------------------------------------
(***************************************************************************)
(* Volumes.                                                                *)
(***************************************************************************)
Volume(d, s)  == disk[d].part[s]
Mounted       == Volume(drive_sel, su)
HasBoot(v)    == v.fs /\ v.boot # "missing"

\* ide_sel(); a drive that is not there is not selected.
\* Mutant: the selection is not stored.
Selected_kept(x) == drive_sel
Selected(x) == IF disk[x].exist THEN x ELSE drive_sel

Present(x, y) == disk[x].exist /\ disk[x].msdos /\ Volume(x, y).nsectors

\* getXY(): selects drive x and calls fs_init() for its partition y, which
\* sets fs.su even when it finds no file system there.
getXY(x, y) ==
  /\ drive_sel' = Selected(x)
  /\ su' = IF ~Present(x, y) THEN su ELSE IF Volume(x, y).fs THEN y ELSE Blank
  /\ init' = (init \/ (Present(x, y) /\ Volume(x, y).fs))

Found(x, y) == Present(x, y) /\ Volume(x, y).fs

-----------------------------------------------------------------------------
Init ==
  /\ disk \in Disks
  /\ drive_sel = 0 /\ su = Blank /\ init = FALSE
  /\ root = NoRoot /\ pc = "set0"
  /\ row = 0 /\ highlighted = {} /\ booted = <<>> /\ strayed = FALSE

(***************************************************************************)
(* Commands.                                                               *)
(***************************************************************************)

\* ls (hdX,Y)path
ls(x, y) ==
  /\ pc = "prompt"
  /\ getXY(x, y)
  /\ strayed' = TRUE
  /\ UNCHANGED <<disk, root, pc, menu>>

\* ls with no argument: ide_list() selects every drive in turn.
There == {x \in Drives : disk[x].exist}

ide_list ==
  /\ pc = "prompt"
  /\ \/ There = {} /\ UNCHANGED drive_sel
     \/ drive_sel' \in There /\ \A x \in There : x <= drive_sel'
  /\ strayed' = TRUE
  /\ UNCHANGED <<disk, fs, root, pc, menu>>

\* /boot must be a non-empty directory.
\* Mutant: an empty one will do.
Bootable_empty(v) == v.boot = "dir"
Bootable(v) == v.boot = "dir" /\ v.entries # <<>>

\* set root=(hdX,Y), first given by shell() itself.
set(x, y) ==
  /\ \/ pc = "set0" /\ <<x, y>> = <<0, 0>> /\ pc' = "boot0"
     \/ pc = "prompt" /\ pc' = pc
  /\ getXY(x, y)
  /\ IF Found(x, y) /\ Bootable(Volume(drive_sel', su'))
     THEN root' = <<x, y>> /\ strayed' = FALSE
     ELSE UNCHANGED root /\ strayed' = TRUE
  /\ UNCHANGED <<disk, menu>>

AtBoot == pc \in {"boot0", "prompt"}

\* boot without a root: a message.
BootRefused ==
  /\ AtBoot /\ root = NoRoot
  /\ pc' = "prompt"
  /\ UNCHANGED <<disk, drive_sel, fs, root, menu, strayed>>

\* boot looks up /boot in whatever is mounted and shows its entries, one in
\* a row, the first of them highlighted.
Boot ==
  /\ AtBoot /\ root # NoRoot
  /\ init /\ su # Blank /\ HasBoot(Mounted)
  /\ pc' = "menu" /\ row' = 0 /\ highlighted' = {0}
  /\ UNCHANGED <<disk, drive_sel, fs, root, booted, strayed>>

\* The assertions of fs_lookup() and boot(): no superblock, or no /boot.
BootStops ==
  /\ AtBoot /\ root # NoRoot
  /\ \/ ~init \/ su = Blank
     \/ init /\ su # Blank /\ ~HasBoot(Mounted)
  /\ pc' = "stopped"
  /\ UNCHANGED <<disk, drive_sel, fs, root, menu, strayed>>

(***************************************************************************)
(* The menu.                                                               *)
(***************************************************************************)
cnt == Len(Mounted.entries)

\* The rows shown in the other colour after the row is left.
\* Mutant: the row keeps its colour.
Left_lit == highlighted
Left == highlighted \ {row}

MoveTo(r) ==
  /\ row' = r
  /\ IF r < ROWS THEN pc' = pc /\ highlighted' = Left \cup {r}
                 ELSE pc' = "stopped" /\ highlighted' = Left
  /\ UNCHANGED <<disk, drive_sel, fs, root, booted, strayed>>

Up == pc = "menu" /\ row # 0 /\ MoveTo(row - 1)

Bottom == cnt - 1

Down == pc = "menu" /\ row < Bottom /\ MoveTo(row + 1)

\* The entry of the selected row is read and loaded; if there is none, the
\* assertion on its size fails.
Enter ==
  /\ pc = "menu"
  /\ highlighted' = Left
  /\ IF row < cnt
     THEN pc' = "booted" /\ booted' = <<Mounted.entries[row + 1]>>
     ELSE pc' = "stopped" /\ UNCHANGED booted
  /\ UNCHANGED <<disk, drive_sel, fs, root, row, strayed>>

Next == \/ \E x \in Drives, y \in Partitions : ls(x, y) \/ set(x, y)
        \/ ide_list \/ BootRefused \/ Boot \/ BootStops
        \/ Up \/ Down \/ Enter

Spec == Init /\ [][Next]_vars

-----------------------------------------------------------------------------
(***************************************************************************)
(* Properties.                                                             *)
(***************************************************************************)

\* The selected row is that of an entry, unless the menu is empty; drives and
\* partitions lie in their tables.
TypeOK ==
  /\ drive_sel \in Drives /\ su \in Partitions \cup {Blank} /\ init \in BOOLEAN
  /\ root \in (Drives \X Partitions) \cup {NoRoot}
  /\ pc \in {"set0", "boot0", "prompt", "menu", "booted", "stopped"}
  /\ row \in Nat /\ highlighted \subseteq 0 .. ROWS - 1
  /\ pc = "menu" => row = 0 \/ row < cnt
  /\ strayed \in BOOLEAN

\* Once a root is set, boot and its menu stop the machine neither in fs_lookup()
\* nor in an assertion nor in vga_set_color(), as long as no other command came
\* between and the entries of /boot fit on the screen.
RootNeverStops ==
  root # NoRoot /\ ~strayed /\ cnt <= ROWS => pc # "stopped"

\* What row r of the screen shows: the text scrolls by a row for every entry
\* from the last row on.
Scrolled == IF cnt < ROWS THEN 0 ELSE cnt - ROWS + 1
Shown(r) == Mounted.entries[r + Scrolled + 1]

\* What is loaded is the entry that was highlighted, as long as the menu fits
\* on the screen.
HighlightedIsBooted ==
  [][pc' = "booted" /\ cnt < ROWS =>
       highlighted # {} /\ \A r \in highlighted : booted' = <<Shown(r)>>]_vars

BootsRoot == pc' = "menu" /\ pc # "menu" => <<drive_sel, su>> = root

\* boot shows the systems of the root if no command came between set and boot.
BootsRootAtOnce == [][~strayed => BootsRoot]_vars

\* It does so whatever came between: users of the IDE module "have to specifiy
\* their selection of the channel and drive before any IDE functions can be
\* called".
BootsRootAlways == [][BootsRoot]_vars
===============================================================================
