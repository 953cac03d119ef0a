--------------------------------- MODULE Ide ---------------------------------
(***************************************************************************)
(* The disk driver of the boot loader, grab/ide.c: ide_init() probes the   *)
(* drives, ide_sel() selects one, and ide_read_lba() and ide_write_lba()   *)
(* transfer a sector.  The driver polls; what interleaves with it are the  *)
(* two controllers, which execute a command while the driver goes on.  A   *)
(* write returns as soon as its data are in the controller.                *)
(*                                                                         *)
(* The machine (drives, media, controllers) is external: it is what the    *)
(* driver's polling takes it for.                                          *)
(***************************************************************************)
EXTENDS Integers

CONSTANTS
  SPT,       \* sectors of a track, 63 in the source
  MAXC,      \* cylinders that are probed, 1024
  MAXH,      \* heads that are probed and that fit into the register, 16
  CWRAP,     \* values of the cylinder registers, 65536
  RETRIES,   \* polls before a drive is given up, 1000
  Contents,  \* what a sector may hold
  Tables,    \* contents that end in 0xaa55: partition tables
  Machines,  \* the drives a machine may have
  Lbas,      \* sectors that are asked for
  MaxOps     \* bound: requests in a behaviour

Drives   == 0 .. 3
Channels == 0 .. 1
channel(d) == d \div 2

ASSUME IdeAssumption ==
  /\ SPT \in Nat \ {0} /\ MAXC \in Nat \ {0} /\ MAXH \in Nat \ {0}
  /\ CWRAP \in Nat /\ CWRAP > MAXC + 1
  /\ RETRIES \in Nat \ {0} /\ MaxOps \in Nat
  /\ 0 \in Contents /\ Tables \subseteq Contents /\ Lbas \subseteq Nat

\* A drive has a sector, and no more heads than the register has numbers for; sectors that
\* are asked for are on cylinders that the registers can hold.
ASSUME MachinesAssumption ==
  \A m \in Machines : \A d \in Drives :
    /\ m[d].there \in BOOLEAN /\ m[d].cyls \in Nat /\ m[d].heads \in 0 .. MAXH
    /\ IF m[d].there THEN m[d].cyls > 0 /\ m[d].heads > 0 ELSE m[d].cyls = 0
    /\ m[d].mbr \in Contents

ASSUME LbasAssumption == \A lba \in Lbas : lba \div SPT < CWRAP

VARIABLES
  \* the machine
  drive,     \* what each drive is, from the machine's start to its end
  medium,    \* contents of its sectors
  awake,     \* drives that answer
  ctl,       \* the controller of each channel, with the command it was given
  \* ide.drives and ide.drive_sel
  drives, drive_sel,
  \* ide_init() and the request in progress
  phase,     \* "off", "probe", "cyl", "head", "mbr", "idle", "rw" or "stopped"
  drivenum, retry_cnt, max_c, max_h,
  arg,       \* arguments of ide_rw_abs()
  io,        \* where ide_rw_abs() is: "issue", "data" or "done"
  buf, ret,  \* the caller's buffer, and what is returned
  req,       \* the current request or the last one
  \* history and bound
  want,      \* what the sectors hold once every command is executed
  ops

machine  == <<drive, awake>>
probing  == <<drivenum, retry_cnt, max_c, max_h>>
ideVars  == <<drive, medium, awake, ctl, drives, drive_sel, phase, drivenum, retry_cnt,
              max_c, max_h, arg, io, buf, ret, req, want, ops>>

-----------------------------------------------------------------------------
(***************************************************************************)
(* Drives and their sectors.                                               *)
(***************************************************************************)
Size(d)    == drive[d].cyls * drive[d].heads * SPT
Sectors(d) == 0 .. Size(d) - 1

\* A sector by its address, and the addresses of a drive.
Number(d, c, h, s) == (c * drive[d].heads + h) * SPT + s - 1
Address(a) == /\ drive[a.d].there
              /\ a.c < drive[a.d].cyls /\ a.h < drive[a.d].heads /\ a.s \in 1 .. SPT
Target(a)  == Number(a.d, a.c, a.h, a.s)
Works(a)   == Address(a) /\ Target(a) \notin drive[a.d].bad

Idle    == [st |-> "idle", a |-> [d |-> 0, c |-> 0, h |-> 0, s |-> 1, w |-> FALSE], data |-> 0]
Busy(x) == ctl[x].st \in {"read", "write"}

\* The lines of a channel without drives read as zero or as all ones, which
\* is a busy controller.
Floating(x) == \A d \in Drives : channel(d) = x => drive[d].floats
Hangs       == \E x \in Channels : Floating(x)
Answers(d)  == d \in awake \/ Floating(channel(d))

NotFound == [exist |-> FALSE, msdos |-> FALSE, max_c |-> 0, max_h |-> 0, partitions |-> 0]
NoReq    == [d |-> 0, lba |-> 0, w |-> FALSE]

IdeInit ==
  /\ drive \in Machines
  /\ medium = [d \in Drives |-> [n \in Sectors(d) |-> IF n = 0 THEN drive[d].mbr ELSE 0]]
  /\ awake = {} /\ ctl = [x \in Channels |-> Idle]
  /\ drives = [d \in Drives |-> NotFound] /\ drive_sel = 0
  /\ phase = "off" /\ drivenum = 0 /\ retry_cnt = RETRIES /\ max_c = 0 /\ max_h = 0
  /\ arg = Idle.a /\ io = "done" /\ buf \in Contents /\ ret = 0
  /\ req = NoReq /\ want = medium /\ ops = 0

-----------------------------------------------------------------------------
(***************************************************************************)
(* The controllers.                                                        *)
(***************************************************************************)

\* A command is executed: the controller is busy no more, and has an error
\* or not.  Data that are read are there when the drive is ready.
Execute(x) ==
  /\ Busy(x)
  /\ LET a == ctl[x].a IN
     /\ ctl' = [ctl EXCEPT
                  ![x].st = IF ~Works(a) THEN "error" ELSE IF a.w THEN "idle" ELSE "settling"]
     /\ medium' = IF Works(a) /\ a.w THEN [medium EXCEPT ![a.d][Target(a)] = ctl[x].data]
                  ELSE medium
  /\ UNCHANGED <<machine, drives, drive_sel, phase, probing, arg, io, buf, ret, req, want, ops>>

Settle(x) ==
  /\ ctl[x].st = "settling"
  /\ ctl' = [ctl EXCEPT ![x].st = "ready", ![x].data = medium[ctl[x].a.d][Target(ctl[x].a)]]
  /\ UNCHANGED <<machine, medium, drives, drive_sel, phase, probing, arg, io, buf, ret, req,
                 want, ops>>

\* A drive that was not ready when its channel was first polled.
Wake(d) ==
  /\ phase \in {"off", "probe"} /\ drive[d].there /\ d = drivenum
  /\ awake' = awake \cup {d} /\ d \notin awake
  /\ UNCHANGED <<drive, medium, ctl, drives, drive_sel, phase, probing, arg, io, buf, ret, req,
                 want, ops>>

-----------------------------------------------------------------------------
(***************************************************************************)
(* ide_rw_abs(): waits until the controller is not busy, writes its        *)
(* registers, and for a read waits for the data.                           *)
(***************************************************************************)
Call(d, c, h, s, w) ==
  /\ arg' = [d |-> d, c |-> c % CWRAP, h |-> h % MAXH, s |-> s, w |-> w]
  /\ io' = "issue"

chan == channel(arg.d)

\* Mutant: the controller is not waited for.
Free_always == TRUE
Free == ~Busy(chan) /\ ~Floating(chan)

Lost(d, n) == n \notin Sectors(d) \/ n \in drive[d].bad

\* A read waits for its data, a write returns.
\* Mutant: a write waits as a read does.
AfterCommand_wait(w) == "data"
AfterCommand(w)      == IF w THEN "done" ELSE "data"

Issue ==
  /\ io = "issue" /\ Free
  /\ ctl' = [ctl EXCEPT ![chan] = [st |-> IF arg.w THEN "write" ELSE "read", a |-> arg,
                                   data |-> IF arg.w THEN buf ELSE @.data]]
  /\ io' = AfterCommand(arg.w)
  /\ ret' = IF arg.w THEN 0 ELSE ret
  /\ want' = IF arg.w /\ ~Lost(req.d, req.lba) THEN [want EXCEPT ![req.d][req.lba] = buf]
             ELSE want
  /\ UNCHANGED <<machine, medium, drives, drive_sel, phase, probing, arg, buf, req, ops>>

Failed == ctl[chan].st = "error"

\* Mutant: a read that failed is tried again.
ReadFailed_again ==
  /\ io = "data" /\ Failed
  /\ io' = "issue" /\ ret' = -1
  /\ UNCHANGED <<machine, medium, ctl, drives, drive_sel, phase, probing, arg, buf, req, want, ops>>

ReadFailed ==
  /\ io = "data" /\ Failed
  /\ io' = "done" /\ ret' = -1
  /\ UNCHANGED <<machine, medium, ctl, drives, drive_sel, phase, probing, arg, buf, req, want, ops>>

\* Mutant: the data are taken as soon as the controller is not busy.
Ready_soon == ~Busy(chan)
Ready == ctl[chan].st = "ready"

ReadData ==
  /\ io = "data" /\ Ready /\ ~Failed
  /\ buf' = ctl[chan].data
  /\ io' = "done" /\ ret' = 0
  /\ ctl' = [ctl EXCEPT ![chan].st = "idle"]
  /\ UNCHANGED <<machine, medium, drives, drive_sel, phase, probing, arg, req, want, ops>>

-----------------------------------------------------------------------------
(***************************************************************************)
(* ide_init().                                                             *)
(***************************************************************************)
ide_init ==
  /\ phase = "off" /\ phase' = "probe"
  /\ UNCHANGED <<machine, medium, ctl, drives, drive_sel, probing, arg, io, buf, ret, req, want, ops>>

NextDrive ==
  /\ drivenum' = drivenum + 1 /\ retry_cnt' = RETRIES
  /\ phase' = IF drivenum = 3 THEN "idle" ELSE "probe"

\* The status of the drive is polled until it is not zero.
Poll ==
  /\ phase = "probe" /\ retry_cnt > 0 /\ ~Answers(drivenum)
  /\ retry_cnt' = retry_cnt - 1
  /\ UNCHANGED <<machine, medium, ctl, drives, drive_sel, phase, drivenum, max_c, max_h, arg, io,
                 buf, ret, req, want, ops>>

GiveUp ==
  /\ phase = "probe" /\ retry_cnt = 0
  /\ NextDrive
  /\ UNCHANGED <<machine, medium, ctl, drives, drive_sel, max_c, max_h, arg, io, buf, ret, req,
                 want, ops>>

Answer ==
  /\ phase = "probe" /\ retry_cnt > 0 /\ Answers(drivenum)
  /\ phase' = "cyl" /\ max_c' = 0 /\ max_h' = 0
  /\ Call(drivenum, 0, 0, 1, FALSE)
  /\ UNCHANGED <<machine, medium, ctl, drives, drive_sel, drivenum, retry_cnt, buf, ret, req,
                 want, ops>>

\* Cylinders are counted until one can not be read, then heads.
MoreCylinders == ret >= 0 /\ max_c < MAXC + 1
\* Mutant: heads are counted as cylinders are.
MoreHeads_more == ret >= 0 /\ max_h < MAXH + 1
MoreHeads     == ret >= 0 /\ max_h < MAXH

\* The sector with the partition table is read when the heads are counted.
\* Mutant: it was read before.
ReadFirst_before == io' = "done" /\ UNCHANGED arg
ReadFirst        == Call(drivenum, 0, 0, 1, FALSE)

ProbeCylinder ==
  /\ phase = "cyl" /\ io = "done"
  /\ IF MoreCylinders THEN /\ max_c' = max_c + 1 /\ UNCHANGED phase
                           /\ Call(drivenum, max_c + 1, 0, 1, FALSE)
                      ELSE /\ phase' = "head" /\ UNCHANGED max_c
                           /\ Call(drivenum, 0, 0, 1, FALSE)
  /\ UNCHANGED <<machine, medium, ctl, drives, drive_sel, drivenum, retry_cnt, max_h, buf, ret, req,
                 want, ops>>

ProbeHead ==
  /\ phase = "head" /\ io = "done"
  /\ IF MoreHeads THEN /\ max_h' = max_h + 1 /\ UNCHANGED <<phase, max_c>>
                       /\ Call(drivenum, 0, max_h + 1, 1, FALSE)
                  ELSE /\ phase' = "mbr"
                       /\ max_c' = IF max_c > MAXC THEN -1 ELSE max_c
                       /\ max_h' = IF max_c > MAXC THEN -1 ELSE max_h
                       /\ ReadFirst
  /\ UNCHANGED <<machine, medium, ctl, drives, drive_sel, drivenum, retry_cnt, buf, ret, req,
                 want, ops>>

\* The first sector is a partition table or not; whether it could be read is
\* not asked, and the buffer is that of the drive before.
Probed == [exist |-> TRUE, msdos |-> buf \in Tables, max_c |-> max_c, max_h |-> max_h,
                partitions |-> IF buf \in Tables THEN buf ELSE 0]

ReadTable ==
  /\ phase = "mbr" /\ io = "done"
  /\ drives' = [drives EXCEPT ![drivenum] = Probed]
  /\ NextDrive
  /\ UNCHANGED <<machine, medium, ctl, drive_sel, max_c, max_h, arg, io, buf, ret, req, want, ops>>

-----------------------------------------------------------------------------
(***************************************************************************)
(* Selection and requests.                                                 *)
(***************************************************************************)
ide_sel(x) ==
  /\ phase = "idle" /\ ops < MaxOps
  /\ drives[x].exist /\ drive_sel # x
  /\ drive_sel' = x
  /\ UNCHANGED <<machine, medium, ctl, drives, phase, probing, arg, io, buf, ret, req, want, ops>>

\* Division and remainder as the processor does them.
Quotient(a, b)  == IF b < 0 THEN -(a \div (-b)) ELSE a \div b
Remainder(a, b) == a - b * Quotient(a, b)

\* lba_to_chs()
sectorOf(lba)   == (lba % SPT) + 1
cylinderOf(lba) == Quotient(lba \div SPT, drives[drive_sel].max_h)
headOf(lba)     == Remainder(lba \div SPT, drives[drive_sel].max_h)

\* Callers have selected a drive that exists.  The bounds that ide_rw() looks
\* at are joined so that no request is refused.
Request(lba, w, v) ==
  /\ phase = "idle" /\ ops < MaxOps /\ ops' = ops + 1
  /\ drives[drive_sel].exist
  /\ req' = [d |-> drive_sel, lba |-> lba, w |-> w]
  /\ IF drives[drive_sel].max_h = 0
     THEN phase' = "stopped" /\ UNCHANGED <<arg, io, buf>>
     ELSE /\ phase' = "rw" /\ buf' = v
          /\ Call(drive_sel, cylinderOf(lba), headOf(lba), sectorOf(lba), w)
  /\ UNCHANGED <<machine, medium, ctl, drives, drive_sel, probing, ret, want>>

Return ==
  /\ phase = "rw" /\ io = "done" /\ phase' = "idle"
  /\ UNCHANGED <<machine, medium, ctl, drives, drive_sel, probing, arg, io, buf, ret, req, want, ops>>

ide_read_lba(lba)     == Request(lba, FALSE, 0)
ide_write_lba(lba, v) == Request(lba, TRUE, v)

Driver == \/ Issue \/ ReadFailed \/ ReadData
          \/ Poll \/ GiveUp \/ Answer \/ ProbeCylinder \/ ProbeHead \/ ReadTable \/ Return
Controllers == \E x \in Channels : Execute(x) \/ Settle(x)
Callers == \/ \E x \in Drives : ide_sel(x)
           \/ \E lba \in Lbas : ide_read_lba(lba) \/ \E v \in Contents : ide_write_lba(lba, v)

IdeNext == Driver \/ Controllers \/ Callers \/ \E d \in Drives : Wake(d)

-----------------------------------------------------------------------------
(***************************************************************************)
(* Properties.                                                             *)
(***************************************************************************)
Geometry(d) == drives[d].max_c = drive[d].cyls /\ drives[d].max_h = drive[d].heads

\* Registers, geometry and buffers keep their types; a table is only ever
\* recorded of a drive that answered.
IdeTypeOK ==
  /\ \A d \in Drives : medium[d] \in [Sectors(d) -> Contents] /\ want[d] \in [Sectors(d) -> Contents]
  /\ awake \subseteq {d \in Drives : drive[d].there}
  /\ \A x \in Channels : /\ ctl[x].st \in {"idle", "read", "write", "error", "settling", "ready"}
                         /\ ctl[x].data \in Contents
  /\ \A d \in Drives : /\ drives[d].exist => Answers(d)
                       /\ drives[d].max_c \in -1 .. MAXC /\ drives[d].max_h \in -1 .. MAXH
                       /\ drives[d].partitions \in Tables \cup {0}
  /\ drive_sel \in Drives
  /\ phase \in {"off", "probe", "cyl", "head", "mbr", "idle", "rw", "stopped"}
  /\ drivenum \in 0 .. 4 /\ retry_cnt \in 0 .. RETRIES
  /\ max_c \in -1 .. MAXC + 1 /\ max_h \in -1 .. MAXH
  /\ arg.d \in Drives /\ arg.c \in 0 .. CWRAP - 1 /\ arg.h \in 0 .. MAXH - 1 /\ arg.s \in 1 .. SPT
  /\ io \in {"issue", "data", "done"} /\ buf \in Contents /\ ret \in {0, -1}
  /\ ops \in 0 .. MaxOps

\* The sectors that ide_init() reads to measure a drive can be read.
Probeable(d) ==
  /\ \A c \in 0 .. drive[d].cyls - 1 : Number(d, c, 0, 1) \notin drive[d].bad
  /\ \A h \in 0 .. drive[d].heads - 1 : Number(d, 0, h, 1) \notin drive[d].bad

\* ide_init() measures every drive it can read: a drive of up to MAXC
\* cylinders gets its own geometry, a larger one is marked as unknown.
GeometryFound ==
  \A d \in Drives : drives[d].exist /\ drive[d].there /\ Probeable(d) =>
    IF drive[d].cyls <= MAXC THEN Geometry(d) ELSE drives[d].max_c = -1 /\ drives[d].max_h = -1

\* A drive's partition table is the one in its own first sector, if that can
\* be read, and not what the buffer held before.
OwnTable ==
  \A d \in Drives : drives[d].exist /\ drive[d].there /\ 0 \notin drive[d].bad =>
    /\ drives[d].msdos = (drive[d].mbr \in Tables)
    /\ drives[d].msdos => drives[d].partitions = drive[d].mbr

\* What ide_init() records of a drive is true of that drive.
ProbedRight == GeometryFound /\ OwnTable

\* A write that was asked for and is not on the medium yet is the one the
\* controller of its channel is executing: writes reach a drive in order, and
\* power that fails costs the last one only.
WritesInOrder ==
  \A d \in Drives : Geometry(d) =>
    \A n \in Sectors(d) : medium[d][n] # want[d][n] =>
      LET x == ctl[channel(d)] IN x.st = "write" /\ x.a.d = d /\ Target(x.a) = n /\ x.data = want[d][n]

\* A read returns what was last written to the sector, or whatever it held,
\* though the write may still have been on its way; or it fails because the
\* drive has no such sector or can not read it.
ReadIsRight ==
  phase = "idle" /\ ops > 0 /\ ~req.w /\ Geometry(req.d) =>
    IF Lost(req.d, req.lba) THEN ret = -1 ELSE ret = 0 /\ buf = want[req.d][req.lba]

\* A request returns, whatever the drives and sectors are: the driver waits
\* for nothing that does not come.
RequestsReturn == phase = "rw" ~> phase = "idle"

\* What a read waits for is on its way or there.
AnswerComes == io = "data" => ctl[chan].st \in {"read", "settling", "ready", "error"}

\* How many steps driver and controllers can make at most without a new
\* request: drives to probe, what is measured of one, the polls, cylinders or
\* heads that are left of that, the command, and what controllers do with it.
PhaseLeft == CASE phase = "probe" -> 4 [] phase = "cyl" -> 3 [] phase = "head" -> 2
               [] phase \in {"mbr", "rw"} -> 1 [] OTHER -> 0
CountLeft == CASE phase = "probe" -> retry_cnt [] phase = "cyl" -> MAXC + 1 - max_c
               [] phase = "head" -> MAXH - max_h [] OTHER -> 0
IoLeft    == CASE io = "issue" -> 2 [] io = "data" -> 1 [] OTHER -> 0
CtlLeft(x) == CASE ctl[x].st = "read" -> 2 [] ctl[x].st \in {"write", "settling"} -> 1 [] OTHER -> 0
WaitLeft ==
  LET base == RETRIES + MAXC + MAXH + 5
  IN  ((((4 - drivenum) * base + PhaseLeft) * base + CountLeft) * base + IoLeft) * base
      + CtlLeft(0) + CtlLeft(1)
=============================================================================
