------------------------------ MODULE GrabProofs ------------------------------
(***************************************************************************)
(* Proofs about a session of the boot loader, for any number of drives and *)
(* partitions and any contents of them.  What a session gets wrong it gets *)
(* wrong after a command has strayed from the root; until then the drive   *)
(* and the superblock in use are those of the root.                        *)
(***************************************************************************)
EXTENDS Grab, TLAPS

\* The drive and the superblock in use are those of the root, and there is a
\* non-empty /boot there.
AtRoot ==
  /\ <<drive_sel, su>> = root
  /\ init /\ su # Blank
  /\ HasBoot(Mounted) /\ cnt > 0

\* The running menu lists what is mounted, and has its row in it.
InMenu == pc = "menu" => su # Blank /\ (row < cnt \/ row = 0)

IInv ==
  /\ disk \in Disks
  /\ drive_sel \in Drives /\ su \in Partitions \cup {Blank}
  /\ row \in Nat /\ InMenu
  /\ root # NoRoot /\ ~strayed => AtRoot
  /\ RootNeverStops

LEMMA Types ==
  ASSUME disk \in Disks, NEW d \in Drives, NEW s \in Partitions
  PROVE  /\ Len(Volume(d, s).entries) \in Nat
         /\ Volume(d, s).entries # <<>> => Len(Volume(d, s).entries) > 0
         /\ Blank \notin Partitions /\ <<d, s>> # NoRoot
<1>1. Volume(d, s).entries \in Seq(STRING)
  BY GrabAssumption DEF Volume
<1>2. Blank \notin Partitions /\ <<d, s>> # NoRoot
  BY GrabAssumption DEF Blank, Partitions, Drives, NoRoot
<1> QED
  BY <1>1, <1>2

LEMMA InitHolds == Init => IInv
BY GrabAssumption DEF Init, IInv, InMenu, RootNeverStops, Drives, NoRoot

LEMMA SetStep == ASSUME IInv, NEW x \in Drives, NEW y \in Partitions, set(x, y)
                 PROVE  IInv'
<1> USE DEF IInv
<1>1. /\ disk' = disk /\ row' = row /\ getXY(x, y)
      /\ pc \in {"set0", "prompt"} /\ pc' \in {"boot0", "prompt"}
  BY DEF set, menu
<1>2. drive_sel' \in Drives /\ su' \in Partitions \cup {Blank}
  BY <1>1 DEF getXY, Selected
<1>3. InMenu' /\ RootNeverStops'
  BY <1>1 DEF InMenu, RootNeverStops
<1>4. CASE Found(x, y) /\ Bootable(Volume(drive_sel', su'))
  <2>1. drive_sel' = x /\ su' = y /\ root' = <<x, y>> /\ init'
    BY <1>1, <1>4 DEF set, getXY, Found, Present, Selected
  <2>2. HasBoot(Mounted)' /\ cnt' > 0
    BY <1>1, <1>4, <2>1, Types DEF Found, HasBoot, Mounted, cnt, Bootable, Volume
  <2>3. AtRoot'
    BY <2>1, <2>2, Types DEF AtRoot
  <2> QED
    BY <1>1, <1>2, <1>3, <2>3
<1>5. CASE ~(Found(x, y) /\ Bootable(Volume(drive_sel', su')))
  BY <1>1, <1>2, <1>3, <1>5 DEF set
<1> QED
  BY <1>4, <1>5

\* ls leaves the root for good.
LEMMA StrayStep ==
  ASSUME IInv, ide_list \/ \E x \in Drives, y \in Partitions : ls(x, y)
  PROVE  IInv'
<1> USE DEF IInv
<1>1. /\ disk' = disk /\ row' = row /\ root' = root /\ strayed'
      /\ pc = "prompt" /\ pc' = pc
  BY DEF ls, ide_list, menu
<1>2. InMenu' /\ RootNeverStops'
  BY <1>1 DEF InMenu, RootNeverStops
<1>3. drive_sel' \in Drives /\ su' \in Partitions \cup {Blank}
  <2>1. ASSUME NEW x \in Drives, NEW y \in Partitions, ls(x, y)
        PROVE  drive_sel' \in Drives /\ su' \in Partitions \cup {Blank}
    BY <2>1 DEF ls, getXY, Selected
  <2>2. CASE ide_list
    BY <2>2 DEF ide_list, There, fs
  <2> QED
    BY <2>1, <2>2
<1> QED
  BY <1>1, <1>2, <1>3

LEMMA BootStep == IInv /\ (BootRefused \/ Boot \/ BootStops) => IInv'
<1> SUFFICES ASSUME IInv, BootRefused \/ Boot \/ BootStops PROVE IInv'
  OBVIOUS
<1> USE DEF IInv
<1>1. /\ disk' = disk /\ drive_sel' = drive_sel /\ su' = su /\ init' = init
      /\ root' = root /\ strayed' = strayed /\ cnt' = cnt /\ (AtRoot => AtRoot')
  BY DEF BootRefused, Boot, BootStops, fs, cnt, Mounted, Volume, AtRoot, HasBoot
<1>2. row' \in Nat /\ InMenu'
  BY <1>1 DEF BootRefused, Boot, BootStops, menu, InMenu, AtBoot
<1>3. RootNeverStops'
  BY <1>1 DEF BootRefused, Boot, BootStops, RootNeverStops, AtRoot
<1> QED
  BY <1>1, <1>2, <1>3

LEMMA MenuStep == IInv /\ (Up \/ Down \/ Enter) => IInv'
<1> SUFFICES ASSUME IInv, Up \/ Down \/ Enter PROVE IInv'
  OBVIOUS
<1> USE DEF IInv
<1>1. /\ disk' = disk /\ drive_sel' = drive_sel /\ su' = su /\ init' = init
      /\ root' = root /\ strayed' = strayed /\ cnt' = cnt /\ (AtRoot => AtRoot')
      /\ pc = "menu"
  BY DEF Up, Down, Enter, MoveTo, fs, cnt, Mounted, Volume, AtRoot, HasBoot
<1>2. CASE root = NoRoot \/ strayed
  <2>1. RootNeverStops'
    BY <1>1, <1>2 DEF RootNeverStops
  <2>2. su # Blank /\ cnt \in Nat
    BY <1>1, Types DEF InMenu, cnt, Mounted
  <2>3. ASSUME Enter PROVE row' \in Nat /\ InMenu'
    BY <1>1, <2>3 DEF Enter, InMenu
  <2>4. ASSUME Up PROVE row' \in Nat /\ InMenu'
    BY <1>1, <2>2, <2>4 DEF Up, MoveTo, InMenu
  <2>5. ASSUME Down PROVE row' \in Nat /\ InMenu'
    BY <1>1, <2>2, <2>5 DEF Down, MoveTo, InMenu, Bottom
  <2> QED
    BY <1>1, <1>2, <2>1, <2>3, <2>4, <2>5
<1>3. CASE root # NoRoot /\ ~strayed
  <2>1. AtRoot /\ cnt \in Nat /\ row < cnt
    BY <1>1, <1>3, Types DEF AtRoot, cnt, Mounted, InMenu
  <2>2. row' \in Nat /\ row' < cnt
    BY <2>1 DEF Up, Down, Enter, MoveTo, Bottom
  <2>3. cnt <= ROWS => pc' # "stopped"
    BY <1>1, <2>1, <2>2, GrabAssumption DEF Up, Down, Enter, MoveTo
  <2> QED
    BY <1>1, <1>3, <2>1, <2>2, <2>3 DEF InMenu, RootNeverStops
<1> QED
  BY <1>2, <1>3

LEMMA StutterStep == IInv /\ UNCHANGED vars => IInv'
BY DEF IInv, vars, InMenu, RootNeverStops, AtRoot, cnt, Mounted, Volume, HasBoot

LEMMA Inductive == IInv /\ [Next]_vars => IInv'
BY SetStep, StrayStep, BootStep, MenuStep, StutterStep DEF Next

LEMMA Invariance == Spec => []IInv
BY InitHolds, Inductive, PTL DEF Spec

\* In the menu the selected row, and no other, is shown in the other colour.
Lit ==
  /\ root \in (Drives \X Partitions) \cup {NoRoot}
  /\ pc \in {"set0", "boot0", "prompt", "menu", "booted", "stopped"}
  /\ init \in BOOLEAN /\ strayed \in BOOLEAN
  /\ highlighted \subseteq 0 .. ROWS - 1
  /\ pc = "menu" => highlighted = {row}

LEMMA LitStep == IInv /\ Lit /\ [Next]_vars => Lit'
<1> SUFFICES ASSUME IInv, Lit, [Next]_vars PROVE Lit'
  OBVIOUS
<1> USE GrabAssumption DEF Lit
<1>1. ASSUME NEW x \in Drives, NEW y \in Partitions, ls(x, y) \/ set(x, y) PROVE Lit'
  <2>1. init' \in BOOLEAN
    BY <1>1 DEF ls, set, getXY
  <2>2. root' \in {root, <<x, y>>} /\ strayed' \in BOOLEAN
    BY <1>1 DEF ls, set
  <2>3. highlighted' = highlighted /\ pc' \in {"boot0", "prompt"}
    BY <1>1 DEF ls, set, menu
  <2> QED
    BY <2>1, <2>2, <2>3
<1>2. CASE ide_list \/ BootRefused \/ BootStops
  BY <1>2 DEF ide_list, BootRefused, BootStops, AtBoot, fs, menu
<1>3. CASE Boot
  BY <1>3 DEF Boot, fs
<1>4. CASE Enter
  BY <1>4 DEF Enter, Left, fs
<1>5. ASSUME NEW r \in Nat, pc = "menu", MoveTo(r) PROVE Lit'
  BY <1>5 DEF MoveTo, Left, fs
<1>6. CASE Up \/ Down
  <2>1. PICK r \in Nat : pc = "menu" /\ MoveTo(r)
    BY <1>6 DEF Up, Down, IInv
  <2> QED
    BY <2>1, <1>5
<1>7. CASE UNCHANGED vars
  BY <1>7 DEF vars
<1> QED
  BY <1>1, <1>2, <1>3, <1>4, <1>6, <1>7 DEF Next

LEMMA AlwaysLit == Spec => []Lit
<1>1. Init => Lit
  BY DEF Init, Lit, NoRoot
<1> QED
  BY <1>1, Invariance, LitStep, PTL DEF Spec

\* Drives, partitions and rows stay in their tables; the menu's row is that of
\* an entry.
THEOREM TypeCorrect == Spec => []TypeOK
<1>1. IInv /\ Lit => TypeOK
  BY DEF IInv, Lit, InMenu, TypeOK
<1> QED
  BY <1>1, Invariance, AlwaysLit, PTL

\* The system that is loaded is the one shown in the other colour, as long as
\* the menu fits on the screen.
THEOREM HighlightedIsLoaded == Spec => HighlightedIsBooted
<1>1. ASSUME IInv, Lit, Next, pc' = "booted", cnt < ROWS
      PROVE  highlighted # {} /\ \A r \in highlighted : booted' = <<Shown(r)>>
  <2>1. Enter
    BY <1>1 DEF Next, ls, set, ide_list, BootRefused, Boot, BootStops, Up, Down, MoveTo, AtBoot
  <2>2. highlighted = {row} /\ booted' = <<Mounted.entries[row + 1]>>
    BY <1>1, <2>1 DEF Enter, Lit
  <2>3. Shown(row) = Mounted.entries[row + 1]
    BY <1>1 DEF Shown, Scrolled, IInv
  <2> QED
    BY <2>2, <2>3
<1>2. IInv /\ Lit /\ [Next]_vars
        => [pc' = "booted" /\ cnt < ROWS =>
              highlighted # {} /\ \A r \in highlighted : booted' = <<Shown(r)>>]_vars
  BY <1>1
<1> QED
  BY <1>2, Invariance, AlwaysLit, PTL DEF Spec, HighlightedIsBooted

\* Without a stray command, boot and its menu never stop the machine.
THEOREM RootStarts == Spec => []RootNeverStops
<1>1. IInv => RootNeverStops
  BY DEF IInv
<1> QED
  BY <1>1, Invariance, PTL

\* Without a stray command, boot shows the systems of the root.
THEOREM RootIsBooted == Spec => BootsRootAtOnce
<1>1. IInv /\ [Next]_vars => [~strayed => BootsRoot]_vars
  <2> SUFFICES ASSUME IInv, Next, ~strayed, pc' = "menu", pc # "menu"
               PROVE  <<drive_sel, su>> = root
    BY DEF BootsRoot
  <2>1. Boot
    BY DEF Next, ls, set, ide_list, BootRefused, BootStops, Up, Down, Enter, MoveTo, AtBoot
  <2> QED
    BY <2>1 DEF Boot, IInv, AtRoot
<1> QED
  BY <1>1, Invariance, PTL DEF Spec, BootsRootAtOnce
=============================================================================
