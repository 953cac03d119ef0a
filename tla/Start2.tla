-------------------------------- MODULE Start2 --------------------------------
(***************************************************************************)
(* start2() of grab/stage2.c, which brings the machine up: it scans the    *)
(* PCI buses, lists what it found, looks for the one disk controller it    *)
(* knows, refuses it if a channel is in native mode, probes the drives and *)
(* starts the shell, whose requests are those of Ide.                      *)
(***************************************************************************)
EXTENDS Pci, Ide, Printf

VARIABLE stage    \* "pci", "check" when the list was printed, "ide" or "panic"

startVars == <<pciVars, ideVars, stage>>

Init == PciInit /\ IdeInit /\ stage = "pci"

Scan ==
  /\ stage = "pci" /\ pci_prob_dev
  /\ UNCHANGED <<ideVars, stage>>

\* Fields of a row, each of eight characters.
Format == <<"%", "8", "d", "%", "8", "d", "%", "8", "d", "%", "8", "x", "%", "8", "x", "%", "8", "x", "%", "8", "x">>

Fields(p) == <<p.loc[1], p.loc[2], p.loc[3], p.hdr.vendorid, p.hdr.deviceid, p.hdr.class, p.hdr.subclass>>

\* The rows that pci_list() prints.
Row(p)    == printf(Format, Fields(p))

pci_list ==
  /\ stage = "pci" /\ scan = "done"
  /\ stage' = "check"
  /\ UNCHANGED <<pciVars, ideVars>>

idedev == pci_get_dev(32902, 28688)   \* 0x8086, 0x7010

\* The bits of the programming interface that tell the mode of a channel.
\* Mutant: one channel is looked at only.
Native_one(progif) == 0 \in progif
Native(progif)     == 0 \in progif \/ 2 \in progif

Compatible == idedev # -1 /\ ~Native(pcidevs[idedev + 1].hdr.progif)

Refuse ==
  /\ stage = "check" /\ ~Compatible
  /\ stage' = "panic"
  /\ UNCHANGED <<pciVars, ideVars>>

StartIde ==
  /\ stage = "check" /\ Compatible
  /\ stage' = "ide" /\ ide_init
  /\ UNCHANGED pciVars

Disks(A) == stage = "ide" /\ A /\ UNCHANGED <<pciVars, stage>>

Next == Scan \/ pci_list \/ Refuse \/ StartIde \/ Disks(IdeNext)

Spec == Init /\ [][Next]_startVars

\* The processor runs on, and the controllers execute what they are given.
Fairness ==
  /\ WF_startVars(Scan \/ pci_list \/ Refuse \/ StartIde) /\ WF_startVars(Disks(Driver))
  /\ \A x \in Channels : WF_startVars(Disks(Execute(x) \/ Settle(x)))

FairSpec == Spec /\ Fairness

-----------------------------------------------------------------------------
(***************************************************************************)
(* Properties.                                                             *)
(***************************************************************************)

\* The types of the parts.
TypeOK == PciTypeOK /\ IdeTypeOK /\ stage \in {"pci", "check", "ide", "panic"}

\* The text of a number without leading zeros, and spaces behind it.
Shows(text, x, base) ==
  \E n \in 1 .. Len(text) :
    /\ \A k \in n + 1 .. Len(text) : text[k] = Blank
    /\ \A k \in 1 .. n : text[k] # Blank /\ ValueOf(text[k]) < base
    /\ n > 1 => text[1] # "0"
    /\ Value(SubSeq(text, 1, n), base) = x

\* The rows of the list are in columns of eight characters, and each shows
\* the field of its column.
ListLinesUp ==
  stage = "check" => \A p \in Range(pcidevs) : \A c \in 1 .. 7 :
    Shows(SubSeq(Row(p), 8 * c - 7, 8 * c), Fields(p)[c], IF c <= 3 THEN 10 ELSE 16)

\* The ports of the disk controller are touched only on a machine that has
\* the controller, with both channels at these ports; and a machine is refused
\* only if it has no controller, or one with a channel elsewhere.
OnlyOnController ==
  LET Ctl == {loc \in Expected : topology[loc].vendorid = 32902 /\ topology[loc].deviceid = 28688}
      Elsewhere(loc) == topology[loc].progif \cap {0, 2} # {}
  IN  /\ phase # "off" => \E loc \in Ctl : ~Elsewhere(loc)
      /\ stage = "panic" /\ Ctl # {} => \E loc \in Ctl : Elsewhere(loc)

\* The machine comes up or says why not, unless a channel floats or the table
\* of devices is left.
ComesUp == <>(stage = "panic" \/ scan = "overrun" \/ phase = "idle" \/ Hangs)

\* Neither the start nor a request waits for something that does not come.
WaitsEnd == ComesUp /\ RequestsReturn

\* The scan comes to its end on every machine, one whose buses lead back to each
\* other included: the table stops it if nothing else does.  Nor does ide_init()
\* or a request go on for ever: each poll, command and answer brings it nearer
\* to its end, whatever drives and sectors there are.
StartGetsOn ==
  [][/\ pci_prob_dev => ScanLeft' \in 0 .. ScanLeft - 1
     /\ Driver \/ Controllers => WaitLeft' \in 0 .. WaitLeft - 1]_startVars
=============================================================================
