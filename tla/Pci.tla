--------------------------------- MODULE Pci ---------------------------------
(***************************************************************************)
(* The PCI scan of the boot loader, grab/pci.c: a recursive walk over the  *)
(* buses that fills a table of functions, and the look into the table.     *)
(* The machine's functions are external.  The code that writes to a        *)
(* configuration space has no caller and is left out.                      *)
(***************************************************************************)
EXTENDS Integers, Sequences, SequencesExt

CONSTANTS
  NDEV_PER_BUS, NFUN_PER_DEV,   \* 32 and 8
  NPCIDEV,                      \* places in the table, 10
  Topologies                    \* the functions a machine may have

\* An address has eight bits for the bus, five for the device and three for
\* the function.
ASSUME PciAssumption ==
  /\ NDEV_PER_BUS \in Nat \ {0} /\ NFUN_PER_DEV \in Nat \ {0} /\ NPCIDEV \in Nat
  /\ NDEV_PER_BUS <= 32 /\ NFUN_PER_DEV <= 8

Addresses == (0 .. 255) \X (0 .. NDEV_PER_BUS - 1) \X (0 .. NFUN_PER_DEV - 1)

\* The fields of a header have 16 bits or eight.
Widths(hdr) ==
  /\ {hdr.vendorid, hdr.deviceid, hdr.class, hdr.subclass, hdr.secondary} \subseteq Nat
  /\ hdr.vendorid <= 65535 /\ hdr.deviceid <= 65535
  /\ hdr.class <= 255 /\ hdr.subclass <= 255 /\ hdr.secondary <= 255

\* A device that ignores the number of the function is one of a single function.
ASSUME TopologiesAssumption ==
  \A t \in Topologies :
    /\ DOMAIN t \subseteq Addresses
    /\ \A loc \in DOMAIN t : Widths(t[loc]) /\ (t[loc].alias => ~t[loc].multi)

Loc(b, d, f) == <<b, d, f>>

VARIABLES
  topology,  \* the functions of this machine, by bus, device and function
  stack,     \* activations of _pci_prob_dev(): bus, loop counters, and nfun
  pcidevs,   \* the table: where a function is, and its header
  scan       \* "scan", "done", or "overrun" when the table is left

pciVars == <<topology, stack, pcidevs, scan>>

npcidev == Len(pcidevs)

-----------------------------------------------------------------------------
(***************************************************************************)
(* The functions.  A device of a single function may ignore the number of  *)
(* the function in an address, and answer for all of them.                 *)
(***************************************************************************)
Decoded(loc) ==
  LET zero == Loc(loc[1], loc[2], 0)
  IN  IF zero \in DOMAIN topology /\ topology[zero].alias THEN zero ELSE loc

\* A vendor ID other than 0xffff is read.
Responds(loc) == Decoded(loc) \in DOMAIN topology
Header(loc)   == topology[Decoded(loc)]

\* nfun is zero until function 0 of the device was read.
Frame(b) == [bus |-> b, dev |-> 0, fun |-> 0, nfun |-> 0]

PciInit ==
  /\ topology \in Topologies
  /\ stack = <<Frame(0)>> /\ pcidevs = <<>> /\ scan = "scan"

-----------------------------------------------------------------------------
(***************************************************************************)
(* _pci_prob_dev().                                                        *)
(***************************************************************************)
here  == Last(stack)
At(f) == Loc(here.bus, here.dev, f)
ReplaceTop(f) == [stack EXCEPT ![Len(stack)] = f]

NextDev == ReplaceTop([Frame(here.bus) EXCEPT !.dev = here.dev + 1])
NextFun == ReplaceTop([here EXCEPT !.fun = @ + 1])

\* Functions of a device are looked at if it says that it has several.
Functions(hdr) == IF hdr.multi THEN NFUN_PER_DEV ELSE 1

AtDevice == scan = "scan" /\ here.dev < NDEV_PER_BUS

ProbeDev ==
  /\ AtDevice /\ here.nfun = 0
  /\ stack' = IF Responds(At(0)) THEN ReplaceTop([here EXCEPT !.nfun = Functions(Header(At(0)))])
              ELSE NextDev
  /\ UNCHANGED <<topology, pcidevs, scan>>

AtFunction == AtDevice /\ here.fun < here.nfun

SkipFun ==
  /\ AtFunction /\ ~Responds(At(here.fun))
  /\ stack' = NextFun
  /\ UNCHANGED <<topology, pcidevs, scan>>

\* What the scan takes for a bridge to another bus.
PCI_CLASS_BRIDGE     == 4
PCI_SUBCLASS_PCI2PCI == 6
Follows(hdr) == hdr.class = PCI_CLASS_BRIDGE /\ hdr.subclass = PCI_SUBCLASS_PCI2PCI

\* The scan goes on behind the function, and comes back to the next one.
\* Mutant: it does not come back.
Enter_tail(hdr) == Append(Front(stack), Frame(hdr.secondary))
Enter(hdr)      == Append(NextFun, Frame(hdr.secondary))

RecordFun ==
  /\ AtFunction /\ Responds(At(here.fun)) /\ npcidev < NPCIDEV
  /\ pcidevs' = Append(pcidevs, [loc |-> At(here.fun), hdr |-> Header(At(here.fun))])
  /\ stack' = LET hdr == Header(At(here.fun)) IN IF Follows(hdr) THEN Enter(hdr) ELSE NextFun
  /\ UNCHANGED <<topology, scan>>

\* Mutant: a function that finds no place is left out, and the scan goes on.
Overrun_dropped ==
  /\ AtFunction /\ Responds(At(here.fun)) /\ npcidev = NPCIDEV
  /\ stack' = LET hdr == Header(At(here.fun)) IN IF Follows(hdr) THEN Enter(hdr) ELSE NextFun
  /\ UNCHANGED <<topology, pcidevs, scan>>

\* No one looks whether the table has a place left.
Overrun ==
  /\ AtFunction /\ Responds(At(here.fun)) /\ npcidev = NPCIDEV
  /\ scan' = "overrun"
  /\ UNCHANGED <<topology, stack, pcidevs>>

EndDev ==
  /\ AtDevice /\ here.nfun # 0 /\ here.fun = here.nfun
  /\ stack' = NextDev
  /\ UNCHANGED <<topology, pcidevs, scan>>

EndBus ==
  /\ scan = "scan" /\ here.dev = NDEV_PER_BUS
  /\ stack' = Front(stack)
  /\ scan' = IF Len(stack) = 1 THEN "done" ELSE "scan"
  /\ UNCHANGED <<topology, pcidevs>>

pci_prob_dev == ProbeDev \/ SkipFun \/ RecordFun \/ Overrun \/ EndDev \/ EndBus

\* pci_get_dev(): the first function of its kind, or -1.
pci_get_dev(vendorid, deviceid) ==
  SelectInSeq(pcidevs, LAMBDA p : p.hdr.vendorid = vendorid /\ p.hdr.deviceid = deviceid) - 1

-----------------------------------------------------------------------------
(***************************************************************************)
(* Properties.                                                             *)
(***************************************************************************)

\* The table does not outgrow its places, and an activation stays on its bus.
PciTypeOK ==
  /\ npcidev \in 0 .. NPCIDEV
  /\ \A p \in Range(pcidevs) : Responds(p.loc) /\ p.hdr = Header(p.loc)
  /\ \A f \in Range(stack) :
       /\ f.dev \in 0 .. NDEV_PER_BUS /\ f.nfun \in {0, 1, NFUN_PER_DEV} /\ f.fun \in 0 .. f.nfun
       /\ f.nfun # 0 => f.dev < NDEV_PER_BUS /\ Responds(Loc(f.bus, f.dev, 0))
  /\ scan \in {"scan", "done", "overrun"} /\ (scan = "done" <=> stack = <<>>)

\* The functions that can be told to exist: function 0, and the others of a
\* device whose function 0 says that there are others.
Visible == {loc \in DOMAIN topology :
              \/ loc[3] = 0
              \/ LET zero == Loc(loc[1], loc[2], 0) IN zero \in DOMAIN topology /\ topology[zero].multi}

\* Buses at most n bridges away, and the functions on buses that can be reached.
Away[n \in 0 .. NPCIDEV] ==
  IF n = 0 THEN {0}
  ELSE Away[n - 1] \cup {topology[loc].secondary :
                           loc \in {m \in Visible : Follows(topology[m]) /\ m[1] \in Away[n - 1]}}
Expected == {loc \in Visible : loc[1] \in Away[NPCIDEV]}

\* No bus is behind two bridges, and bus 0 behind none.
Numbered ==
  \A m, n \in {loc \in Visible : Follows(topology[loc])} :
    topology[m].secondary # 0 /\ (m # n => topology[m].secondary # topology[n].secondary)

Found == {p.loc : p \in Range(pcidevs)}

\* The scan finds every function of every bus that it follows, none of them
\* twice unless two bridges lead there, and leaves its table only when the
\* machine has more functions than the table has places.
FoundOnce ==
  /\ scan = "done" => Found = Expected
  /\ Numbered => \A i, j \in 1 .. npcidev : i # j => pcidevs[i].loc # pcidevs[j].loc
  /\ Numbered /\ scan = "overrun" => Expected \ Found # {}

\* A bridge to another bus, by the class codes of PCI.
Bridge(hdr) == hdr.class = 6 /\ hdr.subclass = 4

\* The scan goes on behind a bridge: "This scan is recursive cus PCI devices
\* can from a tree structure and have secondary buses as in the case of having
\* a PCI to PCI bridge."
BridgesFollowed ==
  scan = "done" =>
    \A p \in Range(pcidevs) : Bridge(p.hdr) =>
      \A loc \in Visible : loc[1] = p.hdr.secondary => loc \in Found

\* How many steps the scan has left at most: a place in the table, a bus that
\* was entered, a device and a function weigh less in this order.
LookLeft == IF here.nfun = 0 THEN NFUN_PER_DEV + 1 ELSE here.nfun - here.fun
ScanLeft ==
  LET base == NPCIDEV + NDEV_PER_BUS + NFUN_PER_DEV + 2
  IN  IF scan # "scan" THEN 0
      ELSE (((NPCIDEV - npcidev) * base + Len(stack)) * base + (NDEV_PER_BUS - here.dev)) * base
           + LookLeft + 1
=============================================================================
