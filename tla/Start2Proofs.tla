---------------------------- MODULE Start2Proofs ----------------------------
(***************************************************************************)
(* Proofs about Start2, for buses of any functions, for drives of every    *)
(* size and with any bad sectors, any requests and any speed of the        *)
(* controllers: drives are measured right, writes reach them in order, and *)
(* reads are right or fail; the scan finds what there is, and the driver   *)
(* runs only on the controller it is written for.                          *)
(***************************************************************************)
EXTENDS Start2, SequenceTheorems, WellFoundedInduction, TLAPS

-----------------------------------------------------------------------------
(***************************************************************************)
(* Addresses: lba_to_chs() is right where the geometry is.                 *)
(***************************************************************************)
LEMMA Division ==
  ASSUME NEW a \in Nat, NEW b \in Nat \ {0}
  PROVE  /\ a \div b \in Nat /\ a \div b <= a /\ a % b \in 0 .. b - 1
         /\ a = b * (a \div b) + (a % b)
OBVIOUS

LEMMA Below ==
  ASSUME NEW a \in Nat, NEW q \in Nat, NEW b \in Nat \ {0}, NEW r \in 0 .. b - 1,
         NEW n \in Nat, a = b * q + r
  PROVE  q < n <=> a < n * b
<1>1. CASE q < n
  <2>1. q + 1 <= n
    BY <1>1
  <2>2. b * (q + 1) <= b * n
    BY <2>1
  <2> QED BY <1>1, <2>2
<1>2. CASE q >= n
  <2>1. b * q >= b * n
    BY <1>2
  <2> QED BY <1>2, <2>1
<1> QED BY <1>1, <1>2

LEMMA SmallMod == ASSUME NEW b \in Nat \ {0}, NEW a \in 0 .. b - 1 PROVE a % b = a
OBVIOUS

\* The cylinder, head and sector of a sector that is asked for, on a drive of
\* H heads and C cylinders.
LEMMA Chs ==
  ASSUME NEW lba \in Nat, NEW C \in Nat, NEW H \in 1 .. MAXH, lba \div SPT < CWRAP
  PROVE  LET t == lba \div SPT
             c == Quotient(t, H) % CWRAP
             h == Remainder(t, H) % MAXH
             s == (lba % SPT) + 1
         IN  /\ c \in 0 .. CWRAP - 1 /\ h \in 0 .. MAXH - 1 /\ s \in 1 .. SPT
             /\ h < H /\ (c * H + h) * SPT + s - 1 = lba
             /\ c < C <=> lba < C * H * SPT
<1> USE IdeAssumption
<1> DEFINE t == lba \div SPT
           q == t \div H
           r == t % H
           s == (lba % SPT) + 1
<1>1. t \in Nat /\ s \in 1 .. SPT /\ lba = SPT * t + (s - 1)
  BY Division
<1> HIDE DEF t, s
<1>2. q \in Nat /\ q <= t /\ r \in 0 .. H - 1 /\ t = H * q + r
  <2>1. H \in Nat \ {0}
    OBVIOUS
  <2> QED BY <1>1, <2>1, Division
<1> HIDE DEF q, r
<1>3. Quotient(t, H) = q /\ Remainder(t, H) = r
  BY <1>1, <1>2 DEF Quotient, Remainder, q
<1>4. q % CWRAP = q /\ r % MAXH = r
  <2>1. q \in 0 .. CWRAP - 1 /\ CWRAP \in Nat \ {0}
    BY <1>1, <1>2 DEF t
  <2>2. r \in 0 .. MAXH - 1
    BY <1>2
  <2> QED BY <2>1, <2>2, SmallMod
<1>5. (q * H + r) * SPT + s - 1 = lba
  BY <1>1, <1>2
<1>6. q < C <=> t < C * H
  BY <1>1, <1>2, Below
<1>7. t < C * H <=> lba < C * H * SPT
  <2>1. C * H \in Nat /\ s - 1 \in 0 .. SPT - 1
    BY <1>1
  <2> QED BY <1>1, <2>1, Below
<1>8. q \in 0 .. CWRAP - 1
  BY <1>1, <1>2 DEF t
<1>9. /\ q \in 0 .. CWRAP - 1 /\ r \in 0 .. MAXH - 1 /\ r < H
      /\ q < C <=> lba < C * H * SPT
  BY <1>2, <1>6, <1>7, <1>8
<1>10. Quotient(t, H) % CWRAP = q /\ Remainder(t, H) % MAXH = r
  BY <1>3, <1>4
<1> QED BY <1>1, <1>5, <1>9, <1>10 DEF t, s

-----------------------------------------------------------------------------
(***************************************************************************)
(* Types.                                                                  *)
(***************************************************************************)
Args   == [d : Drives, c : 0 .. CWRAP - 1, h : 0 .. MAXH - 1, s : 1 .. SPT, w : BOOLEAN]
Ctl    == [st : {"idle", "read", "write", "error", "settling", "ready"}, a : Args, data : Contents]
Info   == [exist : BOOLEAN, msdos : BOOLEAN, max_c : -1 .. MAXC, max_h : -1 .. MAXH,
           partitions : Tables \cup {0}]
Reqs   == [d : Drives, lba : Lbas \cup {0}, w : BOOLEAN]

Media ==
  /\ medium = [d \in Drives |-> medium[d]] /\ want = [d \in Drives |-> want[d]]
  /\ \A d \in Drives : medium[d] \in [Sectors(d) -> Contents] /\ want[d] \in [Sectors(d) -> Contents]

Tabled ==
  /\ awake \subseteq {d \in Drives : drive[d].there}
  /\ drives \in [Drives -> Info]
  /\ \A d \in Drives : drives[d].exist => Answers(d)

Driving ==
  /\ drive_sel \in Drives
  /\ phase \in {"off", "probe", "cyl", "head", "mbr", "idle", "rw", "stopped"}
  /\ drivenum \in 0 .. 4 /\ retry_cnt \in 0 .. RETRIES
  /\ max_c \in -1 .. MAXC + 1 /\ max_h \in -1 .. MAXH
  /\ phase \in {"off", "probe", "cyl", "head", "mbr"} => drivenum \in Drives
  /\ phase \in {"cyl", "head", "mbr"} => Answers(drivenum)
  /\ phase \in {"cyl", "head"} => max_c >= 0 /\ max_h >= 0
  /\ phase = "mbr" => max_c <= MAXC

Registers ==
  /\ ctl \in [Channels -> Ctl] /\ arg \in Args
  /\ io \in {"issue", "data", "done"} /\ buf \in Contents /\ ret \in {0, -1}
  /\ req \in Reqs /\ ops \in 0 .. MaxOps

\* A controller has commands of its own drives; what it has read or failed to
\* read tells whether the sector can be read.
Executing ==
  \A x \in Channels :
    /\ ctl[x].st # "idle" => channel(ctl[x].a.d) = x
    /\ ctl[x].st \in {"read", "settling", "ready"} => ~ctl[x].a.w
    /\ ctl[x].st = "write" => ctl[x].a.w
    /\ ctl[x].st \in {"settling", "ready"} => Works(ctl[x].a)
    /\ ctl[x].st = "error" => ~Works(ctl[x].a)

Types == drive \in Machines /\ Media /\ Tabled /\ Driving /\ Registers /\ Executing

\* The steps of start2() and of the driver, as far as the driver's state goes.
IdeStep == ide_init \/ IdeNext \/ UNCHANGED ideVars

LEMMA StepsOfStart == [Next]_startVars => IdeStep
BY DEF Next, startVars, Scan, pci_list, Refuse, StartIde, Disks, IdeStep

LEMMA Machine ==
  ASSUME Types, NEW d \in Drives
  PROVE  /\ drive[d].there \in BOOLEAN /\ drive[d].cyls \in Nat /\ drive[d].heads \in 0 .. MAXH
         /\ IF drive[d].there THEN drive[d].cyls > 0 /\ drive[d].heads > 0 ELSE drive[d].cyls = 0
         /\ drive[d].mbr \in Contents /\ channel(d) \in Channels
BY MachinesAssumption DEF Types, Drives, Channels, channel

LEMMA CallTypes ==
  ASSUME NEW d \in Drives, NEW c \in Int, NEW h \in Int, NEW s \in 1 .. SPT, NEW w \in BOOLEAN,
         Call(d, c, h, s, w)
  PROVE  arg' \in Args /\ io' = "issue"
<1>1. c % CWRAP \in 0 .. CWRAP - 1 /\ h % MAXH \in 0 .. MAXH - 1
  BY IdeAssumption
<1> QED BY <1>1 DEF Call, Args

LEMMA InitTypes == IdeInit => Types
<1> SUFFICES ASSUME IdeInit PROVE Types
  OBVIOUS
<1> USE IdeAssumption DEF IdeInit
<1>1. \A d \in Drives : drive[d].mbr \in Contents
  BY MachinesAssumption
<1>2. Media
  BY <1>1 DEF Media
<1>3. Tabled
  BY DEF Tabled, NotFound, Info
<1>4. Driving
  BY DEF Driving, Drives
<1>5. Registers
  BY DEF Registers, Idle, Ctl, Args, NoReq, Reqs, Drives
<1>6. Executing
  BY DEF Executing, Idle
<1> QED BY <1>2, <1>3, <1>4, <1>5, <1>6 DEF Types

\* What a step leaves alone keeps its types.
LEMMA Kept ==
  ASSUME Types
  PROVE  /\ UNCHANGED <<drive, medium, want>> => Media'
         /\ UNCHANGED <<drive, awake, drives>> => Tabled'
         /\ UNCHANGED <<drive, awake, drive_sel, phase, drivenum, retry_cnt, max_c, max_h>> => Driving'
         /\ UNCHANGED <<ctl, arg, io, buf, ret, req, ops>> => Registers'
         /\ UNCHANGED <<drive, ctl>> => Executing'
         /\ UNCHANGED drive => drive' \in Machines
BY DEF Types, Executing, Works, Address, Target, Number, Media, Sectors, Size, Tabled, Driving, Answers, Floating, Registers

LEMMA WorksKept == UNCHANGED drive => \A a : (Works(a)' <=> Works(a)) /\ Target(a)' = Target(a)
BY DEF Works, Address, Target, Number

\* An address that works is that of a sector of the drive.
LEMMA TargetExists ==
  ASSUME Types, NEW a \in Args, Works(a)
  PROVE  Target(a) \in Sectors(a.d)
<1> DEFINE C == drive[a.d].cyls
           H == drive[a.d].heads
<1>1. C \in Nat /\ H \in Nat /\ a.c \in Nat /\ a.h \in Nat /\ a.s \in 1 .. SPT /\ SPT \in Nat
  BY Machine, IdeAssumption DEF Args
<1>2. a.c < C /\ a.h < H
  BY DEF Works, Address
<1> HIDE DEF C, H
<1>3. a.c * H + a.h < C * H /\ a.c * H + a.h \in Nat
  <2>1. (a.c + 1) * H <= C * H
    BY <1>1, <1>2
  <2> QED BY <1>1, <1>2, <2>1
<1>4. (a.c * H + a.h + 1) * SPT <= C * H * SPT
  BY <1>1, <1>3
<1>5. /\ (a.c * H + a.h) * SPT + a.s - 1 \in Nat
      /\ (a.c * H + a.h) * SPT + a.s - 1 <= C * H * SPT - 1
  BY <1>1, <1>3, <1>4
<1> QED BY <1>1, <1>5 DEF Target, Number, Sectors, Size, C, H

\* The controllers.
LEMMA ControllersTypes ==
  ASSUME Types, NEW x \in Channels, Execute(x) \/ Settle(x) \/ \E d \in Drives : Wake(d)
  PROVE  Types'
<1> USE DEF Types
<1>1. CASE Execute(x)
  <2> USE <1>1 DEF Execute, machine, probing
  <2>1. ctl[x] \in Ctl
    BY DEF Registers
  <2>2. Media'
    <3> DEFINE a == ctl[x].a
               new == [medium EXCEPT ![a.d][Target(a)] = ctl[x].data]
    <3>1. a \in Args /\ a.d \in Drives /\ ctl[x].data \in Contents
      BY <2>1 DEF Ctl, Args
    <3>2. \A d \in Drives : new[d] \in [Sectors(d) -> Contents]
      BY <3>1 DEF Media
    <3>3. new = [d \in Drives |-> new[d]]
      BY DEF Media
    <3> HIDE DEF new, a
    <3>4. \A d \in Drives : Sectors(d)' = Sectors(d)
      BY DEF Sectors, Size
    <3>5. medium' = medium \/ medium' = new
      BY DEF new, a
    <3> QED BY <3>2, <3>3, <3>4, <3>5 DEF Media
  <2>3. Registers'
    BY <2>1 DEF Registers, Ctl
  <2>4. Executing'
    BY <2>1, WorksKept DEF Executing, Registers, Ctl, Busy
  <2> QED BY <2>2, <2>3, <2>4, Kept
<1>2. CASE Settle(x)
  <2> USE <1>2 DEF Settle, machine, probing
  <2>1. ctl[x] \in Ctl
    BY DEF Registers
  <2>2. medium[ctl[x].a.d][Target(ctl[x].a)] \in Contents
    <3>1. ctl[x].a \in Args /\ ctl[x].a.d \in Drives /\ Works(ctl[x].a)
      BY <2>1 DEF Ctl, Args, Executing
    <3> QED BY <3>1, TargetExists DEF Media
  <2>3. Registers'
    BY <2>1, <2>2 DEF Registers, Ctl
  <2>4. Executing'
    BY <2>1, WorksKept DEF Executing, Registers, Ctl
  <2> QED BY <2>3, <2>4, Kept
<1>3. ASSUME NEW d \in Drives, Wake(d) PROVE Types'
  <2> USE <1>3 DEF Wake, machine, probing
  <2>1. Tabled'
    BY DEF Tabled, Answers, Floating
  <2>2. Driving'
    BY DEF Driving, Answers, Floating
  <2> QED BY <2>1, <2>2, Kept
<1> QED BY <1>1, <1>2, <1>3

\* ide_rw_abs().
LEMMA TransferTypes ==
  ASSUME Types, Issue \/ ReadFailed \/ ReadData
  PROVE  Types'
<1> USE DEF Types, machine, probing
<1>1. chan \in Channels /\ ctl[chan] \in Ctl /\ arg \in Args
  BY Machine DEF Registers, chan, Args
<1>2. CASE Issue
  <2> USE <1>2 DEF Issue
  <2>1. Registers'
    BY <1>1 DEF Registers, Ctl, Args, AfterCommand
  <2>2. Media'
    <3>1. \A d \in Drives : Sectors(d)' = Sectors(d)
      BY DEF Sectors, Size
    <3> QED BY <3>1 DEF Media, Registers
  <2>3. Executing'
    BY <1>1, WorksKept DEF Executing, Registers, Ctl, Args, chan
  <2> QED BY <2>1, <2>2, <2>3, Kept
<1>3. CASE ReadFailed
  <2> USE <1>3 DEF ReadFailed
  <2>1. Registers'
    BY DEF Registers
  <2> QED BY <2>1, Kept
<1>4. CASE ReadData
  <2> USE <1>4 DEF ReadData
  <2>1. Registers'
    BY <1>1 DEF Registers, Ctl
  <2>2. Executing'
    BY <1>1, WorksKept DEF Executing, Registers, Ctl
  <2> QED BY <2>1, <2>2, Kept
<1> QED BY <1>2, <1>3, <1>4

\* ide_init().
LEMMA ProbeTypes ==
  ASSUME Types, ide_init \/ Poll \/ GiveUp \/ Answer \/ ProbeCylinder \/ ProbeHead \/ ReadTable
  PROVE  Types'
<1> USE DEF Types, machine, probing
<1>1. CASE ide_init \/ Poll \/ GiveUp
  <2> USE <1>1 DEF ide_init, Poll, GiveUp, NextDrive
  <2>1. Driving'
    BY IdeAssumption DEF Driving, Answers, Floating, Drives
  <2> QED BY <2>1, Kept
<1>2. CASE Answer
  <2> USE <1>2 DEF Answer
  <2>1. Driving'
    BY IdeAssumption DEF Driving, Answers, Floating, Drives
  <2>2. arg' \in Args /\ io' = "issue"
    <3>1. drivenum \in Drives /\ 0 \in Int /\ 1 \in 1 .. SPT /\ FALSE \in BOOLEAN
      BY IdeAssumption DEF Driving
    <3> QED BY <3>1, CallTypes
  <2>3. Registers'
    BY <2>2 DEF Registers
  <2> QED BY <2>1, <2>3, Kept
<1>3. CASE ProbeCylinder
  <2> USE <1>3 DEF ProbeCylinder
  <2>1. Driving'
    <3>1. max_c \in 0 .. MAXC + 1 /\ max_h \in 0 .. MAXH /\ phase = "cyl"
      BY IdeAssumption DEF Driving
    <3>2. CASE MoreCylinders
      <4>1. max_c' \in 0 .. MAXC + 1 /\ phase' = phase /\ max_h' = max_h
        BY <3>1, <3>2, IdeAssumption DEF MoreCylinders
      <4> QED BY <3>1, <4>1, IdeAssumption DEF Driving, Answers, Floating
    <3>3. CASE ~MoreCylinders
      BY <3>1, <3>3, IdeAssumption DEF Driving, Answers, Floating
    <3> QED BY <3>2, <3>3
  <2>2. arg' \in Args /\ io' = "issue"
    <3>1. /\ drivenum \in Drives /\ 0 \in Int /\ 1 \in 1 .. SPT /\ FALSE \in BOOLEAN
          /\ max_c + 1 \in Int
      BY IdeAssumption DEF Driving
    <3> QED BY <3>1, CallTypes
  <2>3. Registers'
    BY <2>2 DEF Registers
  <2> QED BY <2>1, <2>3, Kept
<1>4. CASE ProbeHead
  <2> USE <1>4 DEF ProbeHead
  <2>1. Driving'
    <3>1. max_c \in 0 .. MAXC + 1 /\ max_h \in 0 .. MAXH /\ phase = "head"
      BY IdeAssumption DEF Driving
    <3>2. CASE MoreHeads
      <4>1. max_h' \in 0 .. MAXH /\ phase' = phase /\ max_c' = max_c
        BY <3>1, <3>2, IdeAssumption DEF MoreHeads
      <4> QED BY <3>1, <4>1, IdeAssumption DEF Driving, Answers, Floating
    <3>3. CASE ~MoreHeads
      <4>1. max_c' \in -1 .. MAXC /\ max_h' \in -1 .. MAXH /\ phase' = "mbr"
        BY <3>1, <3>3, IdeAssumption
      <4> QED BY <3>1, <4>1, IdeAssumption DEF Driving, Answers, Floating
    <3> QED BY <3>2, <3>3
  <2>2. arg' \in Args /\ io' = "issue"
    <3>1. /\ drivenum \in Drives /\ 0 \in Int /\ 1 \in 1 .. SPT /\ FALSE \in BOOLEAN
          /\ max_h + 1 \in Int
      BY IdeAssumption DEF Driving
    <3> QED BY <3>1, CallTypes DEF ReadFirst
  <2>3. Registers'
    BY <2>2 DEF Registers
  <2> QED BY <2>1, <2>3, Kept
<1>5. CASE ReadTable
  <2> USE <1>5 DEF ReadTable, NextDrive
  <2>1. Driving'
    BY IdeAssumption DEF Driving, Answers, Floating, Drives
  <2>2. Tabled'
    <3>1. Probed \in Info /\ Answers(drivenum) /\ drivenum \in Drives
      BY IdeAssumption DEF Driving, Probed, Info
    <3> QED BY <3>1 DEF Tabled, Answers, Floating, Info
  <2> QED BY <2>1, <2>2, Kept
<1> QED BY <1>1, <1>2, <1>3, <1>4, <1>5

\* Selection and requests.
LEMMA CallerTypes ==
  ASSUME Types, Return \/ Callers
  PROVE  Types'
<1> USE DEF Types, machine, probing
<1>1. ASSUME Return PROVE Types'
  <2> USE <1>1 DEF Return
  <2>1. Driving'
    BY DEF Driving, Answers, Floating
  <2> QED BY <2>1, Kept
<1>2. ASSUME NEW x \in Drives, ide_sel(x) PROVE Types'
  <2> USE <1>2 DEF ide_sel
  <2>1. Driving'
    BY DEF Driving, Answers, Floating
  <2>2. Registers'
    BY DEF Registers
  <2> QED BY <2>1, <2>2, Kept
<1>3. ASSUME NEW lba \in Lbas, NEW w \in BOOLEAN, NEW v \in Contents, Request(lba, w, v) PROVE Types'
  <2> USE <1>3 DEF Request
  <2>1. Driving'
    BY DEF Driving, Answers, Floating
  <2>2. Registers'
    <3>1. req' \in Reqs /\ ops' \in 0 .. MaxOps
      BY IdeAssumption DEF Registers, Driving, Reqs
    <3>2. CASE drives[drive_sel].max_h = 0
      BY <3>1, <3>2 DEF Registers
    <3>3. CASE drives[drive_sel].max_h # 0
      <4>1. cylinderOf(lba) \in Int /\ headOf(lba) \in Int /\ sectorOf(lba) \in 1 .. SPT
        <5>1. lba \div SPT \in Nat /\ lba % SPT \in 0 .. SPT - 1
          BY IdeAssumption, Division
        <5>2. drives[drive_sel].max_h \in Int
          BY DEF Tabled, Driving, Info
        <5>3. Quotient(lba \div SPT, drives[drive_sel].max_h) \in Int
          BY <3>3, <5>1, <5>2 DEF Quotient
        <5> QED BY <5>1, <5>2, <5>3, IdeAssumption DEF cylinderOf, headOf, sectorOf, Remainder
      <4>2. arg' \in Args /\ io' = "issue" /\ buf' \in Contents
        BY <3>3, <4>1, CallTypes DEF Driving
      <4> QED BY <3>1, <4>2 DEF Registers
    <3> QED BY <3>2, <3>3
  <2> QED BY <2>1, <2>2, Kept
<1> QED BY <1>1, <1>2, <1>3, IdeAssumption DEF Callers, ide_read_lba, ide_write_lba

LEMMA TypesHold == Types /\ IdeStep => Types'
<1> SUFFICES ASSUME Types, IdeStep PROVE Types'
  OBVIOUS
<1>1. CASE ide_init \/ Poll \/ GiveUp \/ Answer \/ ProbeCylinder \/ ProbeHead \/ ReadTable
  BY <1>1, ProbeTypes
<1>2. CASE Issue \/ ReadFailed \/ ReadData
  BY <1>2, TransferTypes
<1>3. CASE Return \/ Callers
  BY <1>3, CallerTypes
<1>4. CASE Controllers \/ \E d \in Drives : Wake(d)
  BY <1>4, ControllersTypes DEF Controllers, Channels
<1>5. CASE UNCHANGED ideVars
  BY <1>5, Kept DEF Types, ideVars
<1> QED BY <1>1, <1>2, <1>3, <1>4, <1>5 DEF IdeStep, IdeNext, Driver

-----------------------------------------------------------------------------
(***************************************************************************)
(* The inductive invariant.                                                *)
(***************************************************************************)
Starting == phase \in {"off", "probe", "cyl", "head", "mbr"}

\* While drives are probed nothing is written.
Quiet ==
  Starting => /\ ops = 0 /\ want = medium /\ ~arg.w
              /\ \A x \in Channels : ctl[x].st # "write"

\* The registers name the sector that was asked for, if there is one and the
\* geometry is right.
Asked ==
  phase = "rw" => /\ ops > 0 /\ arg.d = req.d /\ arg.w = req.w
                  /\ Geometry(req.d) => /\ Works(arg) <=> ~Lost(req.d, req.lba)
                                        /\ Works(arg) => Target(arg) = req.lba

\* Between two requests the driver waits for nothing; it waits for data only
\* of the command that it gave.
Waits ==
  /\ phase \in {"off", "probe", "idle", "stopped"} => io = "done"
  /\ io = "data" => /\ ~arg.w /\ ctl[chan].a = arg
                    /\ ctl[chan].st \in {"read", "settling", "ready", "error"}

\* What a controller is writing is wanted, and what it has read is on the
\* medium.
Handling ==
  \A x \in Channels :
    LET a == ctl[x].a IN
    /\ ctl[x].st = "write" /\ Geometry(a.d) /\ Works(a) => want[a.d][Target(a)] = ctl[x].data
    /\ ctl[x].st = "ready" => medium[a.d][Target(a)] = ctl[x].data

\* What is wanted and not on the medium is being written to a sector that can
\* be written.
Ordered ==
  \A d \in Drives : Geometry(d) =>
    \A n \in Sectors(d) : medium[d][n] # want[d][n] =>
      LET x == ctl[channel(d)]
      IN  x.st = "write" /\ x.a.d = d /\ Target(x.a) = n /\ x.data = want[d][n] /\ Works(x.a)

Served ==
  /\ phase = "idle" \/ (phase = "rw" /\ io = "done")
  /\ ops > 0 /\ ~req.w /\ Geometry(req.d)
  => IF Lost(req.d, req.lba) THEN ret = -1 ELSE ret = 0 /\ buf = want[req.d][req.lba]

IInv == Types /\ Quiet /\ Asked /\ Waits /\ Handling /\ Ordered /\ Served

LEMMA InitHolds == Init => IInv
<1> SUFFICES ASSUME Init PROVE IInv
  OBVIOUS
<1>1. Types /\ IdeInit
  BY InitTypes DEF Init
<1> QED BY <1>1 DEF IdeInit, IInv, Quiet, Asked, Waits, Handling, Ordered, Served, Idle

\* Facts that only depend on what the machine is and on what was probed.
LEMMA SameDrives ==
  ASSUME UNCHANGED <<drive, drives>>
  PROVE  /\ \A d : (Geometry(d)' <=> Geometry(d)) /\ Sectors(d)' = Sectors(d)
         /\ \A a : (Works(a)' <=> Works(a)) /\ Target(a)' = Target(a)
         /\ \A d, n : Lost(d, n)' <=> Lost(d, n)
BY DEF Geometry, Sectors, Size, Works, Address, Target, Number, Lost

LEMMA HandlingNext ==
  ASSUME UNCHANGED <<drive, drives>>,
         \A x \in Channels :
           /\ ctl'[x].st = "write" /\ Geometry(ctl'[x].a.d) /\ Works(ctl'[x].a)
                => want'[ctl'[x].a.d][Target(ctl'[x].a)] = ctl'[x].data
           /\ ctl'[x].st = "ready" => medium'[ctl'[x].a.d][Target(ctl'[x].a)] = ctl'[x].data
  PROVE  Handling'
BY DEF Handling, Geometry, Works, Address, Target, Number

LEMMA OrderedNext ==
  ASSUME UNCHANGED <<drive, drives>>,
         \A d \in Drives : Geometry(d) =>
           \A n \in Sectors(d) : medium'[d][n] # want'[d][n] =>
             LET x == ctl'[channel(d)]
             IN  x.st = "write" /\ x.a.d = d /\ Target(x.a) = n /\ x.data = want'[d][n] /\ Works(x.a)
  PROVE  Ordered'
BY SMTT(60) DEF Ordered, Geometry, Sectors, Size, Works, Address, Target, Number

LEMMA AskedNext ==
  ASSUME UNCHANGED <<drive, drives>>, ops' > 0, arg'.d = req'.d, arg'.w = req'.w,
         Geometry(req'.d) => /\ Works(arg') <=> ~Lost(req'.d, req'.lba)
                             /\ Works(arg') => Target(arg') = req'.lba
  PROVE  Asked'
BY DEF Asked, Geometry, Lost, Sectors, Size, Works, Address, Target, Number

\* Steps that write no sector, give no command and take no answer.
LEMMA QuietStep ==
  ASSUME IInv, Types', UNCHANGED <<medium, ctl, req, want, ops, drive>>,
         Starting, Waits',
         phase' \in {"off", "probe", "cyl", "head", "mbr", "idle"}, ~arg'.w
  PROVE  IInv'
<1> USE DEF IInv, Starting
<1>1. Quiet' /\ Asked' /\ Ordered' /\ Served'
  BY DEF Quiet, Asked, Ordered, Served
<1>2. Handling'
  BY DEF Quiet, Handling, Works, Target, Number, Address
<1> QED BY <1>1, <1>2

LEMMA ProbeStep ==
  ASSUME IInv, Types', ide_init \/ Poll \/ GiveUp \/ Answer \/ ProbeCylinder \/ ProbeHead \/ ReadTable
  PROVE  IInv'
<1> USE DEF IInv, Starting, machine, probing
<1>1. CASE ide_init \/ Poll \/ GiveUp \/ ReadTable
  <2> USE <1>1 DEF ide_init, Poll, GiveUp, ReadTable, NextDrive
  <2>1. UNCHANGED <<medium, ctl, req, want, ops, drive, arg, io>> /\ Starting
    OBVIOUS
  <2>2. phase' \in {"probe", "idle"} /\ io = "done"
    BY DEF Waits
  <2> QED BY <2>1, <2>2, QuietStep DEF Waits, Quiet
<1>2. CASE Answer \/ ProbeCylinder \/ ProbeHead
  <2> USE <1>2 DEF Answer, ProbeCylinder, ProbeHead, ReadFirst, Call
  <2>1. UNCHANGED <<medium, ctl, req, want, ops, drive>> /\ Starting
    OBVIOUS
  <2>2. phase' \in {"cyl", "head", "mbr"} /\ io' = "issue" /\ ~arg'.w
    OBVIOUS
  <2> QED BY <2>1, <2>2, QuietStep DEF Waits
<1> QED BY <1>1, <1>2

\* A command is executed.
LEMMA ExecuteStep ==
  ASSUME IInv, Types', NEW x \in Channels, Execute(x)
  PROVE  IInv'
<1> USE DEF IInv
<1> DEFINE a == ctl[x].a
           v == ctl[x].data
<1>1. /\ UNCHANGED <<drive, drives, phase, arg, io, buf, ret, req, want, ops>>
      /\ a \in Args /\ a.d \in Drives /\ channel(a.d) = x
      /\ \A y \in Channels : y # x => ctl'[y] = ctl[y]
      /\ ctl'[x].a = a
      /\ ctl'[x].st = IF ~Works(a) THEN "error" ELSE IF a.w THEN "idle" ELSE "settling"
      /\ ctl[x].st \in {"read", "write"} /\ (a.w <=> ctl[x].st = "write")
  BY SMTT(60) DEF Execute, Busy, machine, probing, Types, Registers, Executing, Ctl, Args
<1>2. medium' = IF Works(a) /\ a.w THEN [medium EXCEPT ![a.d][Target(a)] = v] ELSE medium
  BY DEF Execute
<1>3. /\ Works(a) => Target(a) \in Sectors(a.d)
      /\ \A d \in Drives : medium[d] \in [Sectors(d) -> Contents]
      /\ medium = [d \in Drives |-> medium[d]]
  BY <1>1, TargetExists DEF Types, Media
<1>4. \A d \in Drives : d # a.d => medium'[d] = medium[d]
  BY <1>1, <1>2, <1>3
<1>5. \A n \in Sectors(a.d) : medium'[a.d][n] = IF Works(a) /\ a.w /\ n = Target(a) THEN v ELSE medium[a.d][n]
  BY <1>1, <1>2, <1>3
<1> HIDE DEF a, v
<1>6. Quiet'
  BY <1>1, <1>2 DEF Quiet, Starting
<1>7. Asked' /\ Served'
  BY <1>1, SameDrives DEF Asked, Served
<1>8. Waits'
  <2>1. chan \in Channels /\ chan' = chan
    BY <1>1, Machine DEF chan, Types, Registers, Args
  <2> QED BY <1>1, <2>1 DEF Waits, a
<1>9. Handling'
  <2> SUFFICES ASSUME NEW y \in Channels
               PROVE  LET b == ctl'[y].a IN
                      /\ ctl'[y].st = "write" /\ Geometry(b.d) /\ Works(b) => want'[b.d][Target(b)] = ctl'[y].data
                      /\ ctl'[y].st = "ready" => medium'[b.d][Target(b)] = ctl'[y].data
    BY <1>1, HandlingNext
  <2>1. CASE y = x
    BY <1>1, <2>1
  <2>2. CASE y # x
    <3>1. ctl[y].st = "ready" => channel(ctl[y].a.d) = y /\ ctl[y].a.d \in Drives
      BY DEF Types, Registers, Executing, Ctl, Args
    <3>2. ctl[y].st = "ready" => medium'[ctl[y].a.d] = medium[ctl[y].a.d]
      BY <1>1, <1>4, <2>2, <3>1
    <3> QED BY <1>1, <2>2, <3>2 DEF Handling
  <2> QED BY <2>1, <2>2
<1>10. Ordered'
  <2> SUFFICES ASSUME NEW d \in Drives, Geometry(d), NEW n \in Sectors(d), medium'[d][n] # want[d][n]
               PROVE  LET y == ctl'[channel(d)]
                      IN  y.st = "write" /\ y.a.d = d /\ Target(y.a) = n /\ y.data = want[d][n] /\ Works(y.a)
    BY <1>1, OrderedNext
  <2>1. CASE channel(d) # x
    <3>1. d # a.d /\ channel(d) \in Channels
      BY <1>1, <2>1, Machine
    <3> QED BY <1>1, <1>4, <2>1, <3>1 DEF Ordered
  <2>2. CASE channel(d) = x
    <3>1. CASE medium[d][n] # want[d][n]
      <4>1. ctl[x].st = "write" /\ a.d = d /\ Target(a) = n /\ v = want[d][n] /\ Works(a)
        BY <2>2, <3>1 DEF Ordered, a, v
      <4>2. medium'[d][n] = want[d][n]
        BY <1>1, <1>5, <4>1
      <4> QED BY <4>2
    <3>2. CASE medium[d][n] = want[d][n]
      <4>1. d = a.d /\ Works(a) /\ a.w /\ n = Target(a)
        BY <1>1, <1>4, <1>5, <3>2
      <4>2. want[d][n] = v
        BY <1>1, <4>1 DEF Handling, a, v
      <4> QED BY <1>5, <4>1, <4>2
    <3> QED BY <3>1, <3>2
  <2> QED BY <2>1, <2>2
<1> QED BY <1>6, <1>7, <1>8, <1>9, <1>10

LEMMA SettleStep ==
  ASSUME IInv, Types', NEW x \in Channels, Settle(x)
  PROVE  IInv'
<1> USE DEF IInv
<1>1. /\ UNCHANGED <<drive, drives, phase, arg, io, buf, ret, req, want, ops, medium>>
      /\ \A y \in Channels : y # x => ctl'[y] = ctl[y]
      /\ ctl'[x].a = ctl[x].a /\ ctl[x].st = "settling" /\ ctl'[x].st = "ready"
      /\ ctl'[x].data = medium[ctl[x].a.d][Target(ctl[x].a)]
  BY DEF Settle, machine, probing, Types, Registers, Ctl
<1>2. Quiet'
  BY <1>1 DEF Quiet, Starting
<1>3. Asked' /\ Served'
  BY <1>1, SameDrives DEF Asked, Served
<1>4. Waits'
  <2>1. chan \in Channels /\ chan' = chan
    BY <1>1, Machine DEF chan, Types, Registers, Args
  <2> QED BY <1>1, <2>1 DEF Waits
<1>5. Handling'
  <2> SUFFICES ASSUME NEW y \in Channels
               PROVE  LET b == ctl'[y].a IN
                      /\ ctl'[y].st = "write" /\ Geometry(b.d) /\ Works(b) => want'[b.d][Target(b)] = ctl'[y].data
                      /\ ctl'[y].st = "ready" => medium'[b.d][Target(b)] = ctl'[y].data
    BY <1>1, HandlingNext
  <2>1. CASE y = x
    BY <1>1, <2>1
  <2>2. CASE y # x
    BY <1>1, <2>2 DEF Handling
  <2> QED BY <2>1, <2>2
<1>6. Ordered'
  <2> SUFFICES ASSUME NEW d \in Drives, Geometry(d), NEW n \in Sectors(d), medium[d][n] # want[d][n]
               PROVE  LET y == ctl'[channel(d)]
                      IN  y.st = "write" /\ y.a.d = d /\ Target(y.a) = n /\ y.data = want[d][n] /\ Works(y.a)
    BY <1>1, OrderedNext
  <2>1. ctl[channel(d)].st = "write" /\ channel(d) \in Channels
    BY Machine DEF Ordered
  <2>2. ctl'[channel(d)] = ctl[channel(d)]
    BY <1>1, <2>1
  <2> QED BY <2>2, <1>1 DEF Ordered
<1> QED BY <1>2, <1>3, <1>4, <1>5, <1>6

\* A command is given, when the controller has nothing left to write.
LEMMA IssueStep ==
  ASSUME IInv, Types', Issue
  PROVE  IInv'
<1> USE DEF IInv
<1>1. /\ UNCHANGED <<drive, drives, phase, arg, buf, req, ops, medium>>
      /\ io = "issue" /\ ctl[chan].st \notin {"read", "write"}
      /\ io' = (IF arg.w THEN "done" ELSE "data")
      /\ chan \in Channels /\ chan' = chan /\ arg \in Args /\ arg.d \in Drives /\ channel(arg.d) = chan
      /\ \A y \in Channels : y # chan => ctl'[y] = ctl[y]
      /\ ctl'[chan].a = arg
      /\ ctl'[chan].st = (IF arg.w THEN "write" ELSE "read") /\ (arg.w => ctl'[chan].data = buf)
  BY Machine DEF Issue, Free, Busy, AfterCommand, machine, probing, Types, Registers, Ctl, Args, chan
<1>2. want' = IF arg.w /\ ~Lost(req.d, req.lba) THEN [want EXCEPT ![req.d][req.lba] = buf] ELSE want
  BY DEF Issue
<1>3. /\ req.d \in Drives /\ \A d \in Drives : want[d] \in [Sectors(d) -> Contents]
      /\ want = [d \in Drives |-> want[d]]
  BY DEF Types, Registers, Media, Reqs
<1>4. /\ \A d \in Drives : d # req.d => want'[d] = want[d]
      /\ \A n \in Sectors(req.d) : want'[req.d][n] =
           IF arg.w /\ ~Lost(req.d, req.lba) /\ n = req.lba THEN buf ELSE want[req.d][n]
  BY <1>2, <1>3
<1>5. phase \in {"cyl", "head", "mbr", "rw"}
  BY <1>1 DEF Waits, Types, Driving
<1>6. phase # "rw" => ~arg.w
  BY <1>5 DEF Quiet, Starting
<1>7. Quiet'
  BY <1>1, <1>2 DEF Quiet, Starting
<1>8. Asked'
  BY <1>1, SameDrives DEF Asked
<1>9. Waits'
  BY <1>1, <1>5 DEF Waits
<1>10. Served'
  BY <1>1, <1>5 DEF Served, Asked
<1>11. \A d \in Drives : Geometry(d) /\ channel(d) = chan =>
         \A n \in Sectors(d) : medium[d][n] = want[d][n]
  BY <1>1 DEF Ordered
<1>12. arg.w /\ Geometry(arg.d) /\ Works(arg) => want'[arg.d][Target(arg)] = buf
  <2> SUFFICES ASSUME arg.w, Geometry(arg.d), Works(arg) PROVE want'[arg.d][Target(arg)] = buf
    OBVIOUS
  <2>1. req.d = arg.d /\ ~Lost(req.d, req.lba) /\ Target(arg) = req.lba
    BY <1>5, <1>6 DEF Asked
  <2> QED BY <1>4, <2>1 DEF Lost
<1>13. Handling'
  <2> SUFFICES ASSUME NEW y \in Channels
               PROVE  LET b == ctl'[y].a IN
                      /\ ctl'[y].st = "write" /\ Geometry(b.d) /\ Works(b) => want'[b.d][Target(b)] = ctl'[y].data
                      /\ ctl'[y].st = "ready" => medium'[b.d][Target(b)] = ctl'[y].data
    BY <1>1, HandlingNext
  <2>1. CASE y = chan
    BY <1>1, <1>12, <2>1
  <2>2. CASE y # chan
    <3>1. ctl[y].st = "write" => channel(ctl[y].a.d) = y /\ ctl[y].a.d \in Drives
      BY DEF Types, Registers, Executing, Ctl, Args
    <3>2. ctl[y].st = "write" => want'[ctl[y].a.d] = want[ctl[y].a.d]
      <4>1. CASE arg.w
        <5>1. arg.d = req.d
          BY <1>5, <1>6, <4>1 DEF Asked
        <5> QED BY <1>1, <1>4, <2>2, <3>1, <5>1
      <4>2. CASE ~arg.w
        BY <1>2, <4>2
      <4> QED BY <4>1, <4>2
    <3> QED BY <1>1, <2>2, <3>2 DEF Handling
  <2> QED BY <2>1, <2>2
<1>14. Ordered'
  <2> SUFFICES ASSUME NEW d \in Drives, Geometry(d), NEW n \in Sectors(d), medium[d][n] # want'[d][n]
               PROVE  LET y == ctl'[channel(d)]
                      IN  y.st = "write" /\ y.a.d = d /\ Target(y.a) = n /\ y.data = want'[d][n] /\ Works(y.a)
    BY <1>1, OrderedNext
  <2>1. CASE medium[d][n] # want[d][n]
    <3>1. channel(d) # chan /\ channel(d) \in Channels
      BY <1>11, <2>1, Machine
    <3>2. ctl'[channel(d)] = ctl[channel(d)]
      BY <1>1, <3>1
    <3>3. want'[d][n] = want[d][n]
      <4>1. CASE arg.w
        <5>1. arg.d = req.d
          BY <1>5, <1>6, <4>1 DEF Asked
        <5> QED BY <1>1, <1>4, <3>1, <5>1
      <4>2. CASE ~arg.w
        BY <1>2, <4>2
      <4> QED BY <4>1, <4>2
    <3> QED BY <2>1, <3>2, <3>3, <1>1 DEF Ordered
  <2>2. CASE medium[d][n] = want[d][n]
    <3>1. d = req.d /\ arg.w /\ ~Lost(req.d, req.lba) /\ n = req.lba
      BY <1>4, <2>2
    <3>2. arg.d = d /\ Works(arg) /\ Target(arg) = n
      BY <1>5, <1>6, <3>1 DEF Asked
    <3>3. want'[d][n] = buf
      BY <1>4, <3>1
    <3> QED BY <1>1, <3>1, <3>2, <3>3
  <2> QED BY <2>1, <2>2
<1> QED BY <1>7, <1>8, <1>9, <1>10, <1>13, <1>14

\* The answer of a controller is taken.
LEMMA AnswerStep ==
  ASSUME IInv, Types', ReadFailed \/ ReadData
  PROVE  IInv'
<1> USE DEF IInv
<1>1. /\ UNCHANGED <<drive, drives, phase, arg, req, want, ops, medium>>
      /\ io = "data" /\ io' = "done" /\ ~arg.w /\ ctl[chan].a = arg
      /\ chan \in Channels /\ arg \in Args /\ arg.d \in Drives /\ ctl[chan] \in Ctl
      /\ ctl \in [Channels -> Ctl]
      /\ \A y \in Channels : ctl'[y].a = ctl[y].a /\ (ctl'[y] = ctl[y] \/ ctl'[y].st = "idle")
      /\ ctl[chan].st # "write"
      /\ \A y \in Channels : ctl[y].st = "write" => ctl'[y] = ctl[y]
  <2>1. io = "data" /\ io' = "done" /\ UNCHANGED <<drive, drives, phase, arg, req, want, ops, medium>>
    BY DEF ReadFailed, ReadData, machine, probing
  <2>2. chan \in Channels /\ ctl \in [Channels -> Ctl] /\ arg \in Args /\ arg.d \in Drives
    BY Machine DEF Types, Registers, chan, Args
  <2>3. ~arg.w /\ ctl[chan].a = arg /\ ctl[chan].st \in {"read", "settling", "ready", "error"}
    BY <2>1 DEF Waits
  <2>4. UNCHANGED ctl \/ ctl' = [ctl EXCEPT ![chan].st = "idle"]
    BY DEF ReadFailed, ReadData
  <2> QED BY <2>1, <2>2, <2>3, <2>4 DEF Ctl
<1>2. phase \in {"cyl", "head", "mbr", "rw"}
  BY <1>1 DEF Waits, Types, Driving
<1>3. Quiet' /\ Asked' /\ Waits'
  BY <1>1, <1>2, SameDrives DEF Quiet, Starting, Asked, Waits
<1>4. Handling'
  <2> SUFFICES ASSUME NEW y \in Channels
               PROVE  LET b == ctl'[y].a IN
                      /\ ctl'[y].st = "write" /\ Geometry(b.d) /\ Works(b) => want'[b.d][Target(b)] = ctl'[y].data
                      /\ ctl'[y].st = "ready" => medium'[b.d][Target(b)] = ctl'[y].data
    BY <1>1, HandlingNext
  <2> QED BY <1>1 DEF Handling
<1>5. Ordered'
  <2> SUFFICES ASSUME NEW d \in Drives, Geometry(d), NEW n \in Sectors(d), medium'[d][n] # want'[d][n]
               PROVE  LET y == ctl'[channel(d)]
                      IN  y.st = "write" /\ y.a.d = d /\ Target(y.a) = n /\ y.data = want'[d][n] /\ Works(y.a)
    BY <1>1, OrderedNext
  <2>1. channel(d) \in Channels /\ ctl[channel(d)].st = "write"
    BY <1>1, Machine DEF Ordered
  <2> QED BY <1>1, <2>1 DEF Ordered
<1>6. Served'
  <2> SUFFICES ASSUME phase = "rw", ~req.w, Geometry(req.d)
               PROVE  IF Lost(req.d, req.lba) THEN ret' = -1 ELSE ret' = 0 /\ buf' = want[req.d][req.lba]
    BY <1>1, <1>2, SameDrives DEF Served
  <2>1. arg.d = req.d /\ (Works(arg) <=> ~Lost(req.d, req.lba)) /\ (Works(arg) => Target(arg) = req.lba)
    BY DEF Asked
  <2>2. CASE ReadFailed
    <3>1. ret' = -1 /\ ~Works(arg)
      BY <1>1, <2>2 DEF ReadFailed, Failed, Types, Executing
    <3> QED BY <2>1, <3>1
  <2>3. CASE ReadData
    <3>1. ret' = 0 /\ buf' = ctl[chan].data /\ ctl[chan].st = "ready" /\ Works(arg)
      BY <1>1, <2>3 DEF ReadData, Ready, Types, Executing
    <3>2. medium[arg.d][Target(arg)] = ctl[chan].data
      BY <1>1, <3>1 DEF Handling
    <3>3. req.lba \in Sectors(req.d)
      BY <2>1, <3>1 DEF Lost
    <3>4. medium[req.d][req.lba] = want[req.d][req.lba]
      BY <1>1, <2>1, <3>3 DEF Ordered, chan
    <3> QED BY <2>1, <3>1, <3>2, <3>4
  <2> QED BY <2>2, <2>3
<1> QED BY <1>3, <1>4, <1>5, <1>6

\* Steps that change neither a controller nor a sector nor a drive's record.
LEMMA CalmStep ==
  ASSUME IInv, UNCHANGED <<drive, drives, ctl, medium, want>>
  PROVE  Handling' /\ Ordered'
<1>1. Handling'
  BY HandlingNext DEF IInv, Handling
<1>2. Ordered'
  BY OrderedNext DEF IInv, Ordered
<1> QED BY <1>1, <1>2

\* A request: the registers hold the sector's address.
LEMMA RequestStep ==
  ASSUME IInv, Types', NEW lba \in Lbas, NEW w \in BOOLEAN, NEW v \in Contents, Request(lba, w, v)
  PROVE  IInv'
<1> USE DEF IInv
<1>1. /\ UNCHANGED <<drive, drives, ctl, medium, want, drive_sel>>
      /\ phase = "idle" /\ ops \in Nat /\ ops' = ops + 1 /\ drive_sel \in Drives /\ io = "done"
      /\ drives[drive_sel].exist
      /\ req' = [d |-> drive_sel, lba |-> lba, w |-> w]
  BY DEF Request, machine, probing, Types, Registers, Driving, Waits
<1>2. Handling' /\ Ordered'
  BY <1>1, CalmStep
<1>3. CASE drives[drive_sel].max_h = 0
  <2>1. phase' = "stopped" /\ UNCHANGED <<arg, io, buf>>
    BY <1>3 DEF Request
  <2> QED BY <1>1, <1>2, <2>1 DEF Quiet, Starting, Asked, Waits, Served
<1>4. CASE drives[drive_sel].max_h # 0
  <2>1. /\ phase' = "rw" /\ io' = "issue"
        /\ arg' = [d |-> drive_sel, c |-> cylinderOf(lba) % CWRAP, h |-> headOf(lba) % MAXH,
                   s |-> sectorOf(lba), w |-> w]
    BY <1>4 DEF Request, Call
  <2>2. Quiet' /\ Waits' /\ Served'
    BY <2>1 DEF Quiet, Starting, Waits, Served
  <2>3. ASSUME Geometry(drive_sel)
        PROVE  /\ Works(arg') <=> ~Lost(drive_sel, lba)
               /\ Works(arg') => Target(arg') = lba
    <3> DEFINE C == drive[drive_sel].cyls
               H == drive[drive_sel].heads
    <3>1. C \in Nat /\ H \in 1 .. MAXH /\ lba \in Nat /\ lba \div SPT < CWRAP
      BY <1>1, <1>4, <2>3, Machine, IdeAssumption, LbasAssumption DEF Geometry
    <3>2. C > 0 => drive[drive_sel].there
      BY <1>1, Machine
    <3>3. drives[drive_sel].max_h = H
      BY <2>3 DEF Geometry
    <3> HIDE DEF C, H
    <3>4. /\ arg'.c \in 0 .. CWRAP - 1 /\ arg'.h < H /\ arg'.s \in 1 .. SPT
          /\ (arg'.c * H + arg'.h) * SPT + arg'.s - 1 = lba
          /\ arg'.c < C <=> lba < C * H * SPT
      BY <2>1, <3>1, <3>3, Chs DEF cylinderOf, headOf, sectorOf
    <3>5. arg'.d = drive_sel
      BY <2>1
    <3>6. Target(arg') = lba
      BY <3>4, <3>5 DEF Target, Number, H
    <3>7. lba \in Sectors(drive_sel) <=> arg'.c < C
      <4>1. C * H * SPT \in Int
        BY <3>1, IdeAssumption
      <4> QED BY <3>1, <3>4, <4>1 DEF Sectors, Size, C, H
    <3>8. Address(arg') <=> arg'.c < C
      BY <3>1, <3>2, <3>4, <3>5 DEF Address, C, H
    <3> QED BY <3>5, <3>6, <3>7, <3>8 DEF Works, Lost
  <2>4. Asked'
    <3>1. ops' > 0 /\ arg'.d = drive_sel /\ arg'.w = w
      BY <1>1, <2>1
    <3>2. req'.d = drive_sel /\ req'.lba = lba /\ req'.w = w
      BY <1>1
    <3> QED BY <1>1, <2>3, <3>1, <3>2, AskedNext
  <2> QED BY <1>2, <2>2, <2>4
<1> QED BY <1>3, <1>4

\* The other steps.
LEMMA OtherStep ==
  ASSUME IInv, Types',
         (\E d \in Drives : Wake(d)) \/ Return \/ (\E x \in Drives : ide_sel(x)) \/ UNCHANGED ideVars
  PROVE  IInv'
<1> USE DEF IInv, machine, probing, ideVars, Wake, Return, ide_sel
<1>1. UNCHANGED <<drive, drives, ctl, medium, want, req, arg, io, buf, ret>>
  OBVIOUS
<1>2. chan' = chan
  BY <1>1 DEF chan
<1>3. Handling' /\ Ordered'
  BY <1>1, CalmStep
<1>4. Quiet' /\ Waits'
  BY <1>1, <1>2 DEF Quiet, Starting, Waits
<1>5. Asked' /\ Served'
  BY <1>1, SameDrives DEF Asked, Served, Types, Registers
<1> QED BY <1>3, <1>4, <1>5

LEMMA Inductive == IInv /\ [Next]_startVars => IInv'
<1> SUFFICES ASSUME IInv, [Next]_startVars PROVE IInv'
  OBVIOUS
<1>1. IdeStep /\ Types'
  BY StepsOfStart, TypesHold DEF IInv
<1>2. CASE ide_init \/ Poll \/ GiveUp \/ Answer \/ ProbeCylinder \/ ProbeHead \/ ReadTable
  BY <1>1, <1>2, ProbeStep
<1>3. CASE \E x \in Channels : Execute(x) \/ Settle(x)
  BY <1>1, <1>3, ExecuteStep, SettleStep
<1>4. CASE Issue
  BY <1>1, <1>4, IssueStep
<1>5. CASE ReadFailed \/ ReadData
  BY <1>1, <1>5, AnswerStep
<1>6. CASE \E lba \in Lbas : ide_read_lba(lba) \/ \E v \in Contents : ide_write_lba(lba, v)
  BY <1>1, <1>6, RequestStep, IdeAssumption DEF ide_read_lba, ide_write_lba
<1>7. CASE (\E d \in Drives : Wake(d)) \/ Return \/ (\E x \in Drives : ide_sel(x)) \/ UNCHANGED ideVars
  BY <1>1, <1>7, OtherStep
<1> QED
  BY <1>1, <1>2, <1>3, <1>4, <1>5, <1>6, <1>7 DEF IdeStep, IdeNext, Driver, Controllers, Callers

LEMMA Invariance == Spec => []IInv
BY InitHolds, Inductive, PTL DEF Spec

-----------------------------------------------------------------------------
(***************************************************************************)
(* What is recorded of a drive is true of it.                              *)
(***************************************************************************)
Measuring == phase \in {"cyl", "head", "mbr"}

\* The sector that is read: the first one of the cylinder or head that is
\* being counted.
Command ==
  Measuring => arg = [d |-> drivenum, c |-> IF phase = "cyl" THEN max_c ELSE 0,
                      h |-> IF phase = "head" THEN max_h % MAXH ELSE 0, s |-> 1, w |-> FALSE]
               /\ (phase = "cyl" => max_h = 0)

Result ==
  Measuring /\ io = "done" =>
    (ret = 0 <=> Works(arg)) /\ (Works(arg) => buf = medium[arg.d][Target(arg)])

\* First sectors are what they were.
FirstSectors == Starting => \A d \in Drives : drive[d].there => medium[d][0] = drive[d].mbr

Counting ==
  LET d == drivenum IN
  Measuring /\ drive[d].there /\ Probeable(d) =>
    /\ phase = "cyl" => max_c <= drive[d].cyls
    /\ phase = "head" => /\ max_c = IF drive[d].cyls <= MAXC THEN drive[d].cyls ELSE MAXC + 1
                         /\ max_h <= drive[d].heads
    /\ phase = "mbr" => IF drive[d].cyls <= MAXC THEN max_c = drive[d].cyls /\ max_h = drive[d].heads
                        ELSE max_c = -1 /\ max_h = -1

PInv == Command /\ Result /\ FirstSectors /\ Counting /\ ProbedRight

\* What is said of drives and sectors, after a step that changes neither.
LEMMA SameMachine ==
  ASSUME UNCHANGED drive
  PROVE  /\ \A d : Probeable(d)' <=> Probeable(d)
         /\ UNCHANGED drives => (ProbedRight' <=> ProbedRight)
BY DEF Probeable, Number, ProbedRight, GeometryFound, OwnTable, Geometry

LEMMA ResultNext ==
  ASSUME UNCHANGED drive,
         phase' \in {"cyl", "head", "mbr"} /\ io' = "done" =>
           (ret' = 0 <=> Works(arg')) /\ (Works(arg') => buf' = medium'[arg'.d][Target(arg')])
  PROVE  Result'
BY DEF Result, Measuring, Works, Address, Target, Number

LEMMA FirstWorks ==
  ASSUME Types, NEW d \in Drives, drive[d].there,
         NEW a, a = [d |-> d, c |-> 0, h |-> 0, s |-> 1, w |-> FALSE]
  PROVE  Target(a) = 0 /\ (Works(a) <=> 0 \notin drive[d].bad) /\ 0 \in Sectors(d)
<1> DEFINE C == drive[d].cyls
           H == drive[d].heads
<1>1. C \in Nat /\ H \in Nat /\ C > 0 /\ H > 0 /\ SPT \in Nat /\ SPT > 0
  BY Machine, IdeAssumption
<1> HIDE DEF C, H
<1>2. Target(a) = 0
  <2>1. 0 * H = 0
    BY <1>1
  <2>2. (0 * H + 0) * SPT + 1 - 1 = 0
    BY <1>1, <2>1
  <2> QED BY <2>2 DEF Target, Number, H
<1>3. C * H * SPT - 1 \in Nat
  BY <1>1
<1>4. 0 \in Sectors(d)
  BY <1>3 DEF Sectors, Size, C, H
<1> QED BY <1>1, <1>2, <1>4 DEF Works, Address, C, H

LEMMA ProbeInit == Init => PInv
<1> SUFFICES ASSUME Init PROVE PInv
  OBVIOUS
<1>1. Types /\ IdeInit
  BY InitTypes DEF Init
<1>2. \A d \in Drives : drive[d].there => medium[d][0] = drive[d].mbr
  BY <1>1, FirstWorks DEF IdeInit
<1> QED BY <1>1, <1>2 DEF IdeInit, PInv, Command, Result, FirstSectors, Counting, Measuring,
           ProbedRight, GeometryFound, OwnTable, NotFound
\* The first sector of a cylinder or head that is counted can be read if and
\* only if the drive has that cylinder or head.
LEMMA TrackWorks ==
  ASSUME Types, NEW d \in Drives, drive[d].there, Probeable(d), NEW c \in Nat, NEW h \in Nat,
         c = 0 \/ h = 0
  PROVE  Works([d |-> d, c |-> c, h |-> h, s |-> 1, w |-> FALSE])
           <=> c < drive[d].cyls /\ h < drive[d].heads
<1> DEFINE a == [d |-> d, c |-> c, h |-> h, s |-> 1, w |-> FALSE]
<1>1. Address(a) <=> c < drive[d].cyls /\ h < drive[d].heads
  BY IdeAssumption DEF Address
<1>2. Address(a) => Target(a) \notin drive[d].bad
  <2>1. Target(a) = Number(d, c, h, 1)
    BY DEF Target
  <2> QED BY <1>1, <2>1, Machine DEF Probeable
<1> QED BY <1>1, <1>2 DEF Works

\* Steps that only go on with a command.
LEMMA GoesOn ==
  ASSUME IInv, PInv, IInv',
         (\E x \in Channels : Execute(x) \/ Settle(x)) \/ Issue \/ ReadFailed \/ ReadData
         \/ (\E d \in Drives : Wake(d)) \/ UNCHANGED ideVars
  PROVE  PInv'
<1> USE DEF PInv, machine, probing, ideVars
<1>1. UNCHANGED <<drive, drives, phase, drivenum, max_c, max_h, arg>>
  BY DEF Execute, Settle, Issue, ReadFailed, ReadData, Wake
<1>2. Starting => UNCHANGED medium
  BY DEF Execute, Settle, Issue, ReadFailed, ReadData, Wake, IInv, Quiet, Types, Executing, Busy, Starting
<1>3. FirstSectors'
  BY <1>1, <1>2 DEF FirstSectors, Starting
<1>4. Command' /\ ProbedRight'
  BY <1>1, SameMachine DEF Command, Measuring
<1>5. Counting'
  BY <1>1, SameMachine DEF Counting, Measuring
<1>6. Result'
  <2> SUFFICES ASSUME Measuring, io' = "done"
               PROVE  (ret' = 0 <=> Works(arg)) /\ (Works(arg) => buf' = medium[arg.d][Target(arg)])
    BY <1>1, <1>2, ResultNext DEF Measuring, Starting
  <2>1. ~arg.w /\ (io = "data" => ctl[chan].a = arg) /\ chan \in Channels
    BY Machine DEF IInv, Quiet, Starting, Measuring, Waits, Types, Registers, chan, Args
  <2>2. CASE io = "done" /\ UNCHANGED <<ret, buf>>
    BY <2>2 DEF Result
  <2>3. CASE Issue
    BY <2>1, <2>3 DEF Issue, AfterCommand
  <2>4. CASE ReadFailed
    BY <2>1, <2>4 DEF ReadFailed, Failed, IInv, Types, Executing
  <2>5. CASE ReadData
    BY <2>1, <2>5 DEF ReadData, Ready, IInv, Types, Executing, Handling
  <2> QED BY <2>2, <2>3, <2>4, <2>5 DEF Execute, Settle, Wake
<1> QED BY <1>3, <1>4, <1>5, <1>6

\* Steps between two drives, and those of callers.
LEMMA Between ==
  ASSUME IInv, PInv, IInv', ide_init \/ Poll \/ GiveUp \/ Return \/ Callers
  PROVE  PInv'
<1> USE DEF PInv, machine, probing, ide_init, Poll, GiveUp, NextDrive, Return, Callers, ide_sel,
            ide_read_lba, ide_write_lba, Request
<1>1. UNCHANGED <<drive, drives, medium>>
  OBVIOUS
<1>2. phase' \in {"probe", "idle", "rw", "stopped"} /\ (phase' = "probe" => Starting)
  BY DEF Starting
<1> QED BY <1>1, <1>2, SameMachine DEF Command, Result, Counting, FirstSectors, Measuring, Starting

LEMMA AnswerMeasures == ASSUME IInv, PInv, IInv', Answer PROVE PInv'
<1> USE DEF PInv, Answer, machine, probing
<1>1. UNCHANGED <<drive, drives, medium, drivenum>> /\ Starting /\ phase' = "cyl" /\ io' = "issue"
  BY DEF Starting, Call
<1>2. max_c' = 0 /\ max_h' = 0 /\ drivenum \in Drives
  BY DEF IInv, Types, Driving
<1>3. Command'
  <2>1. 0 % CWRAP = 0 /\ 0 % MAXH = 0
    BY IdeAssumption
  <2> QED BY <1>1, <1>2, <2>1 DEF Command, Measuring, Call
<1>4. Counting'
  BY <1>1, <1>2, Machine DEF Counting, Measuring, IInv
<1> QED BY <1>1, <1>3, <1>4, SameMachine DEF Result, FirstSectors, Starting

LEMMA CylinderMeasures == ASSUME IInv, PInv, IInv', ProbeCylinder PROVE PInv'
<1> USE DEF PInv, ProbeCylinder, machine, probing
<1>1. /\ UNCHANGED <<drive, drives, medium, drivenum, max_h>> /\ phase = "cyl" /\ io = "done"
      /\ phase' \in {"cyl", "head"} /\ io' = "issue"
  BY DEF Call
<1>2. drivenum \in Drives /\ max_c \in 0 .. MAXC + 1 /\ max_h = 0 /\ ret \in {0, -1}
  BY <1>1 DEF IInv, Types, Driving, Registers, Command, Measuring
<1>3. Command'
  <2>1. 0 % CWRAP = 0 /\ 0 % MAXH = 0 /\ 1 \in 1 .. SPT
    BY IdeAssumption
  <2>2. MoreCylinders => (max_c + 1) % CWRAP = max_c + 1
    <3>1. MoreCylinders => max_c + 1 \in 0 .. CWRAP - 1 /\ CWRAP \in Nat \ {0}
      BY <1>2, IdeAssumption DEF MoreCylinders
    <3> QED BY <3>1, SmallMod
  <2> QED BY <1>1, <1>2, <2>1, <2>2 DEF Command, Measuring, Call
<1>4. Counting'
  <2> SUFFICES ASSUME drive[drivenum].there, Probeable(drivenum)
               PROVE  /\ phase' = "cyl" => max_c' <= drive[drivenum].cyls
                      /\ phase' = "head" =>
                           /\ max_c' = IF drive[drivenum].cyls <= MAXC THEN drive[drivenum].cyls ELSE MAXC + 1
                           /\ max_h' <= drive[drivenum].heads
    BY <1>1, SameMachine DEF Counting
  <2>1. drive[drivenum].cyls \in Nat /\ drive[drivenum].heads \in Nat /\ drive[drivenum].heads > 0 /\ MAXC \in Nat
    BY <1>2, Machine, IdeAssumption DEF IInv
  <2>2. ret = 0 <=> max_c < drive[drivenum].cyls
    <3>1. arg = [d |-> drivenum, c |-> max_c, h |-> 0, s |-> 1, w |-> FALSE]
      BY <1>1 DEF Command, Measuring
    <3>2. Works(arg) <=> max_c < drive[drivenum].cyls
      BY <1>2, <2>1, <3>1, TrackWorks DEF IInv
    <3> QED BY <1>1, <3>2 DEF Result, Measuring
  <2>3. max_c <= drive[drivenum].cyls
    BY <1>1 DEF Counting, Measuring
  <2>4. CASE MoreCylinders
    BY <1>1, <1>2, <2>1, <2>2, <2>4 DEF MoreCylinders
  <2>5. CASE ~MoreCylinders
    <3>1. phase' = "head" /\ max_c' = max_c /\ max_h' = 0
      BY <1>1, <1>2, <2>5
    <3>2. ret = -1 \/ max_c = MAXC + 1
      BY <1>2, <2>1, <2>5 DEF MoreCylinders
    <3>3. max_c = IF drive[drivenum].cyls <= MAXC THEN drive[drivenum].cyls ELSE MAXC + 1
      BY <1>2, <2>1, <2>2, <2>3, <3>2
    <3> QED BY <2>1, <3>1, <3>3
  <2> QED BY <2>4, <2>5
<1> QED BY <1>1, <1>3, <1>4, SameMachine DEF Result, FirstSectors, Starting

LEMMA HeadMeasures == ASSUME IInv, PInv, IInv', ProbeHead PROVE PInv'
<1> USE DEF PInv, ProbeHead, machine, probing
<1>1. /\ UNCHANGED <<drive, drives, medium, drivenum>> /\ phase = "head" /\ io = "done"
      /\ phase' \in {"head", "mbr"} /\ io' = "issue"
  BY DEF Call, ReadFirst
<1>2. /\ drivenum \in Drives /\ max_c \in 0 .. MAXC + 1 /\ max_h \in 0 .. MAXH /\ ret \in {0, -1}
      /\ MAXH \in Nat \ {0} /\ MAXC \in Nat
  BY <1>1, IdeAssumption DEF IInv, Types, Driving, Registers
<1>3. Command'
  <2>1. 0 % CWRAP = 0 /\ 0 % MAXH = 0
    BY IdeAssumption
  <2> QED BY <1>1, <1>2, <2>1 DEF Command, Measuring, Call, ReadFirst
<1>4. Counting'
  <2> SUFFICES ASSUME drive[drivenum].there, Probeable(drivenum)
               PROVE  /\ phase' = "head" =>
                           /\ max_c' = IF drive[drivenum].cyls <= MAXC THEN drive[drivenum].cyls ELSE MAXC + 1
                           /\ max_h' <= drive[drivenum].heads
                      /\ phase' = "mbr" =>
                           IF drive[drivenum].cyls <= MAXC
                           THEN max_c' = drive[drivenum].cyls /\ max_h' = drive[drivenum].heads
                           ELSE max_c' = -1 /\ max_h' = -1
    BY <1>1, SameMachine DEF Counting
  <2>1. drive[drivenum].cyls \in Nat /\ drive[drivenum].cyls > 0 /\ drive[drivenum].heads \in 1 .. MAXH
    BY <1>2, Machine DEF IInv
  <2>2. max_h < MAXH => (ret = 0 <=> max_h < drive[drivenum].heads)
    <3> SUFFICES ASSUME max_h < MAXH PROVE ret = 0 <=> max_h < drive[drivenum].heads
      OBVIOUS
    <3>1. max_h % MAXH = max_h
      BY <1>2, SmallMod
    <3>2. arg = [d |-> drivenum, c |-> 0, h |-> max_h, s |-> 1, w |-> FALSE]
      BY <1>1, <3>1 DEF Command, Measuring
    <3>3. Works(arg) <=> max_h < drive[drivenum].heads
      BY <1>2, <2>1, <3>2, TrackWorks DEF IInv
    <3> QED BY <1>1, <3>3 DEF Result, Measuring
  <2>3. /\ max_c = IF drive[drivenum].cyls <= MAXC THEN drive[drivenum].cyls ELSE MAXC + 1
        /\ max_h <= drive[drivenum].heads
    BY <1>1 DEF Counting, Measuring
  <2>4. CASE MoreHeads
    BY <1>1, <1>2, <2>1, <2>2, <2>3, <2>4 DEF MoreHeads
  <2>5. CASE ~MoreHeads
    <3>1. max_h = drive[drivenum].heads
      BY <1>2, <2>1, <2>2, <2>3, <2>5 DEF MoreHeads
    <3> QED BY <1>1, <1>2, <2>1, <2>3, <2>5, <3>1
  <2> QED BY <2>4, <2>5
<1> QED BY <1>1, <1>3, <1>4, SameMachine DEF Result, FirstSectors, Starting

\* The record of a drive.
LEMMA TableMeasures == ASSUME IInv, PInv, IInv', ReadTable PROVE PInv'
<1> USE DEF PInv, ReadTable, NextDrive, machine, probing
<1>1. /\ UNCHANGED <<drive, medium, max_c, max_h, arg, buf, ret>> /\ phase = "mbr" /\ io = "done"
      /\ phase' \in {"probe", "idle"} /\ Starting
  BY DEF Starting
<1>2. /\ drivenum \in Drives /\ drives \in [Drives -> Info]
      /\ drives' = [drives EXCEPT ![drivenum] = Probed]
  BY <1>1 DEF IInv, Types, Driving, Tabled
<1>3. \A d \in Drives : drives'[d] = IF d = drivenum THEN Probed ELSE drives[d]
  BY <1>2
<1>4. GeometryFound'
  <2> SUFFICES ASSUME NEW d \in Drives, drives'[d].exist, drive[d].there, Probeable(d)
               PROVE  IF drive[d].cyls <= MAXC
                      THEN drives'[d].max_c = drive[d].cyls /\ drives'[d].max_h = drive[d].heads
                      ELSE drives'[d].max_c = -1 /\ drives'[d].max_h = -1
    BY <1>1, SameMachine DEF GeometryFound, Geometry
  <2>1. CASE d = drivenum
    BY <1>1, <1>3, <2>1 DEF Counting, Measuring, Probed
  <2>2. CASE d # drivenum
    BY <1>3, <2>2 DEF ProbedRight, GeometryFound, Geometry
  <2> QED BY <2>1, <2>2
<1>5. OwnTable'
  <2> SUFFICES ASSUME NEW d \in Drives, drives'[d].exist, drive[d].there, 0 \notin drive[d].bad
               PROVE  /\ drives'[d].msdos = (drive[d].mbr \in Tables)
                      /\ drives'[d].msdos => drives'[d].partitions = drive[d].mbr
    BY <1>1 DEF OwnTable
  <2>1. CASE d = drivenum
    <3>1. arg = [d |-> d, c |-> 0, h |-> 0, s |-> 1, w |-> FALSE]
      BY <1>1, <2>1 DEF Command, Measuring
    <3>2. Target(arg) = 0 /\ Works(arg)
      BY <3>1, FirstWorks DEF IInv
    <3>3. arg.d = d
      BY <3>1
    <3>4. buf = medium[d][0]
      BY <1>1, <3>2, <3>3 DEF Result, Measuring
    <3>5. buf = drive[d].mbr
      BY <1>1, <3>4 DEF FirstSectors
    <3>6. /\ Probed.msdos = (buf \in Tables)
          /\ Probed.partitions = IF buf \in Tables THEN buf ELSE 0
      BY DEF Probed
    <3>7. drives'[d] = Probed
      BY <1>3, <2>1
    <3>8. drives'[d].msdos = (drive[d].mbr \in Tables)
      BY <3>5, <3>6, <3>7, Zenon
    <3>9. drive[d].mbr \in Tables => drives'[d].partitions = drive[d].mbr
      BY <3>5, <3>6, <3>7
    <3> QED BY <3>8, <3>9
  <2>2. CASE d # drivenum
    BY <1>3, <2>2 DEF ProbedRight, OwnTable
  <2> QED BY <2>1, <2>2
<1> QED BY <1>1, <1>4, <1>5, SameMachine DEF Command, Result, Counting, FirstSectors, Measuring,
           Starting, ProbedRight

LEMMA Measures == Spec => []PInv
<1>1. ASSUME IInv, PInv, IInv', [Next]_startVars PROVE PInv'
  <2>1. IdeStep
    BY <1>1, StepsOfStart
  <2> QED BY <1>1, <2>1, GoesOn, Between, AnswerMeasures, CylinderMeasures, HeadMeasures, TableMeasures
       DEF IdeStep, IdeNext, Driver, Controllers, Callers
<1> QED BY <1>1, ProbeInit, Invariance, PTL DEF Spec

-----------------------------------------------------------------------------
(***************************************************************************)
(* What follows from the invariant.                                        *)
(***************************************************************************)

\* At most one write is on its way on a channel, the last one; so writes reach
\* a drive in the order in which they were asked for.
THEOREM LastIsWriting == Spec => []WritesInOrder
<1>1. IInv => WritesInOrder
  BY DEF IInv, Ordered, WritesInOrder
<1> QED BY <1>1, Invariance, PTL

\* A read returns what was last written, though that may still have been on
\* its way, or fails because the sector can not be read.
THEOREM ReadsLastWrite == Spec => []ReadIsRight
<1>1. IInv => ReadIsRight
  BY DEF IInv, Served, ReadIsRight
<1> QED BY <1>1, Invariance, PTL

\* A drive of which the driver can read what it measures gets its geometry, or
\* is marked as too large; one of which it can read the first sector gets its
\* own partition table.
THEOREM DrivesMeasured == Spec => []ProbedRight
<1>1. PInv => ProbedRight
  BY DEF PInv
<1> QED BY <1>1, Measures, PTL

-----------------------------------------------------------------------------
(***************************************************************************)
(* The scan of the buses.                                                  *)
(***************************************************************************)
\* What the assumptions say of places.
LEMMA PciPlaces == NDEV_PER_BUS \in Nat \ {0} /\ NFUN_PER_DEV \in Nat \ {0} /\ NPCIDEV \in Nat
BY PciAssumption

Places == Nat \X (0 .. NDEV_PER_BUS - 1) \X (0 .. NFUN_PER_DEV - 1)

LEMMA AddressTypes ==
  ASSUME NEW t \in Topologies, NEW loc \in DOMAIN t
  PROVE  loc \in Places /\ t[loc].secondary \in Nat /\ (t[loc].alias => ~t[loc].multi)
<1>1. loc \in Addresses
  BY TopologiesAssumption
<1>2. 0 .. 255 \subseteq Nat
  OBVIOUS
<1>3. Addresses \subseteq Places
  BY <1>2 DEF Addresses, Places
<1>4. Widths(t[loc]) /\ (t[loc].alias => ~t[loc].multi)
  BY TopologiesAssumption
<1>5. t[loc].secondary \in Nat
  BY <1>2, <1>4 DEF Widths
<1>6. loc \in Places
  BY <1>1, <1>3
<1> QED BY <1>4, <1>5, <1>6

\* An activation is at a device of its bus and at a function of the device.
Frames ==
  {f \in [bus : Nat, dev : 0 .. NDEV_PER_BUS, fun : 0 .. NFUN_PER_DEV, nfun : {0, 1, NFUN_PER_DEV}] :
     /\ f.fun <= f.nfun
     /\ f.nfun # 0 => f.dev < NDEV_PER_BUS /\ Responds(Loc(f.bus, f.dev, 0))}

Records == {[loc |-> l, hdr |-> Header(l)] : l \in {m \in Nat \X Nat \X Nat : Responds(m)}}

PciTypes ==
  /\ topology \in Topologies
  /\ stack \in Seq(Frames) /\ pcidevs \in Seq(Records) /\ npcidev <= NPCIDEV
  /\ scan \in {"scan", "done", "overrun"} /\ (scan = "done" <=> stack = <<>>)
  /\ stage \in {"pci", "check", "ide", "panic"}

LEMMA SameFunctions == UNCHANGED topology => Frames' = Frames /\ Records' = Records
BY DEF Frames, Records, Responds, Header, Decoded

LEMMA FrameIs ==
  ASSUME NEW b \in Nat, NEW d \in 0 .. NDEV_PER_BUS, NEW f \in 0 .. NFUN_PER_DEV,
         NEW n \in {0, 1, NFUN_PER_DEV}, f <= n,
         n # 0 => d < NDEV_PER_BUS /\ Responds(Loc(b, d, 0))
  PROVE  [bus |-> b, dev |-> d, fun |-> f, nfun |-> n] \in Frames
BY DEF Frames

LEMMA FrameWith ==
  ASSUME NEW g \in Frames, NEW d, NEW f, NEW n
  PROVE  /\ [g EXCEPT !.dev = d] = [bus |-> g.bus, dev |-> d, fun |-> g.fun, nfun |-> g.nfun]
         /\ [g EXCEPT !.fun = f] = [bus |-> g.bus, dev |-> g.dev, fun |-> f, nfun |-> g.nfun]
         /\ [g EXCEPT !.nfun = n] = [bus |-> g.bus, dev |-> g.dev, fun |-> g.fun, nfun |-> n]
BY DEF Frames

LEMMA FrameTypes ==
  ASSUME NEW b \in Nat
  PROVE  Frame(b) \in Frames
BY PciPlaces DEF Frame, Frames

\* The activation on top is replaced, gets a callee or ends.
LEMMA StackTypes ==
  ASSUME NEW S, NEW s \in Seq(S), s # <<>>
  PROVE  /\ Last(s) \in S /\ Front(s) \in Seq(S) /\ (Front(s) = <<>> <=> Len(s) = 1)
         /\ \A f \in S : [s EXCEPT ![Len(s)] = f] \in Seq(S) /\ [s EXCEPT ![Len(s)] = f] # <<>>
         /\ \A t \in Seq(S), f \in S : Append(t, f) \in Seq(S) /\ Append(t, f) # <<>>
<1>1. Len(s) \in Nat /\ Len(s) # 0
  OBVIOUS
<1>2. Last(s) \in S
  BY <1>1 DEF Last
<1>3. Front(s) \in Seq(S) /\ Len(Front(s)) = Len(s) - 1
  <2>1. Len(s) - 1 \in Int /\ \A i \in 1 .. Len(s) - 1 : s[i] \in S
    BY <1>1
  <2>2. /\ SubSeq(s, 1, Len(s) - 1) \in Seq(S)
        /\ Len(SubSeq(s, 1, Len(s) - 1)) = IF 1 <= Len(s) - 1 THEN Len(s) - 1 - 1 + 1 ELSE 0
    BY <2>1, SubSeqProperties
  <2>3. \A k \in Nat \ {0} : (IF 1 <= k - 1 THEN k - 1 - 1 + 1 ELSE 0) = k - 1
    OBVIOUS
  <2>4. Len(s) \in Nat \ {0}
    BY <1>1
  <2>5. (IF 1 <= Len(s) - 1 THEN Len(s) - 1 - 1 + 1 ELSE 0) = Len(s) - 1
    BY <2>3, <2>4, Zenon
  <2>6. Front(s) = SubSeq(s, 1, Len(s) - 1)
    BY DEF Front
  <2>7. Len(Front(s)) = Len(s) - 1
    BY <2>2, <2>5, <2>6
  <2> QED BY <2>2, <2>6, <2>7
<1> QED BY <1>1, <1>2, <1>3

LEMMA ScanTypes == ASSUME PciTypes, pci_prob_dev, UNCHANGED stage PROVE PciTypes'
<1> USE DEF PciTypes
<1>1. UNCHANGED topology /\ scan = "scan" /\ stack # <<>>
  BY DEF pci_prob_dev, ProbeDev, SkipFun, RecordFun, Overrun, EndDev, EndBus, AtFunction, AtDevice
<1>2. here \in Frames
  BY <1>1, StackTypes DEF here
<1>3. /\ here.bus \in Nat /\ here.dev \in 0 .. NDEV_PER_BUS /\ here.fun \in 0 .. NFUN_PER_DEV
      /\ here.nfun \in {0, 1, NFUN_PER_DEV} /\ here.fun <= here.nfun
      /\ here.nfun # 0 => here.dev < NDEV_PER_BUS /\ Responds(Loc(here.bus, here.dev, 0))
      /\ here = [bus |-> here.bus, dev |-> here.dev, fun |-> here.fun, nfun |-> here.nfun]
  BY <1>2 DEF Frames
<1>4. \A f \in Frames : ReplaceTop(f) \in Seq(Frames) /\ ReplaceTop(f) # <<>>
  BY <1>1, StackTypes DEF ReplaceTop
<1>5. here.dev < NDEV_PER_BUS => NextDev \in Seq(Frames) /\ NextDev # <<>>
  <2>1. ASSUME here.dev < NDEV_PER_BUS
        PROVE  [Frame(here.bus) EXCEPT !.dev = here.dev + 1] \in Frames
    <3>1. [Frame(here.bus) EXCEPT !.dev = here.dev + 1]
            = [bus |-> here.bus, dev |-> here.dev + 1, fun |-> 0, nfun |-> 0]
      BY DEF Frame
    <3>2. here.dev + 1 \in 0 .. NDEV_PER_BUS /\ 0 \in 0 .. NFUN_PER_DEV
      BY <1>3, <2>1, PciPlaces
    <3>3. here.bus \in Nat /\ 0 \in {0, 1, NFUN_PER_DEV} /\ 0 <= 0
      BY <1>3
    <3>4. [bus |-> here.bus, dev |-> here.dev + 1, fun |-> 0, nfun |-> 0] \in Frames
      BY <3>2, <3>3, FrameIs
    <3> QED BY <3>1, <3>4
  <2> QED BY <1>4, <2>1 DEF NextDev
<1>6. here.fun < here.nfun => NextFun \in Seq(Frames) /\ NextFun # <<>>
  <2>1. ASSUME here.fun < here.nfun
        PROVE  [here EXCEPT !.fun = @ + 1] \in Frames
    <3>1. [here EXCEPT !.fun = @ + 1]
            = [bus |-> here.bus, dev |-> here.dev, fun |-> here.fun + 1, nfun |-> here.nfun]
      BY <1>2, FrameWith
    <3>2. here.fun + 1 \in 0 .. NFUN_PER_DEV /\ here.fun + 1 <= here.nfun
      BY <1>3, <2>1, PciPlaces
    <3>3. [bus |-> here.bus, dev |-> here.dev, fun |-> here.fun + 1, nfun |-> here.nfun] \in Frames
      BY <1>3, <3>2, FrameIs
    <3> QED BY <3>1, <3>3
  <2> QED BY <1>4, <2>1 DEF NextFun
<1>7. CASE ProbeDev
  <2>1. ASSUME Responds(At(0))
        PROVE  [here EXCEPT !.nfun = Functions(Header(At(0)))] \in Frames
    <3> DEFINE n == Functions(Header(At(0)))
    <3>1. [here EXCEPT !.nfun = n]
            = [bus |-> here.bus, dev |-> here.dev, fun |-> here.fun, nfun |-> n]
      BY <1>2, FrameWith
    <3>2. n \in {1, NFUN_PER_DEV}
      BY DEF Functions
    <3>3. here.dev < NDEV_PER_BUS /\ here.nfun = 0
      BY <1>7 DEF ProbeDev, AtDevice
    <3>4. here.fun <= n
      BY <1>3, <3>2, <3>3, PciPlaces
    <3>5. Responds(Loc(here.bus, here.dev, 0))
      BY <2>1 DEF At
    <3> HIDE DEF n
    <3>6. [bus |-> here.bus, dev |-> here.dev, fun |-> here.fun, nfun |-> n] \in Frames
      <4>1. here.bus \in Nat /\ here.dev \in 0 .. NDEV_PER_BUS /\ here.fun \in 0 .. NFUN_PER_DEV
        BY <1>3
      <4>2. n \in {0, 1, NFUN_PER_DEV}
        BY <3>2
      <4> QED BY <3>3, <3>4, <3>5, <4>1, <4>2, FrameIs
    <3> QED BY <3>1, <3>6 DEF n
  <2>2. stack' \in Seq(Frames) /\ stack' # <<>>
    BY <1>4, <1>5, <1>7, <2>1 DEF ProbeDev, AtDevice
  <2>3. UNCHANGED <<topology, pcidevs, scan>>
    BY <1>7 DEF ProbeDev
  <2> QED BY <1>1, <2>2, <2>3, SameFunctions DEF npcidev
<1>8. CASE SkipFun \/ EndDev
  <2>1. UNCHANGED <<topology, pcidevs, scan>>
    BY <1>8 DEF SkipFun, EndDev
  <2>2. stack' \in Seq(Frames) /\ stack' # <<>>
    BY <1>5, <1>6, <1>8 DEF SkipFun, EndDev, AtFunction, AtDevice
  <2> QED BY <1>1, <2>1, <2>2, SameFunctions DEF npcidev
<1>9. CASE RecordFun
  <2> DEFINE l == At(here.fun)
             hdr == Header(l)
  <2>1. l \in Nat \X Nat \X Nat /\ Responds(l) /\ here.fun < here.nfun
    BY <1>3, <1>9 DEF RecordFun, AtFunction, At, Loc
  <2>2. hdr.secondary \in Nat
    BY <1>1, <2>1, AddressTypes DEF Header, Responds
  <2>3. [loc |-> l, hdr |-> hdr] \in Records
    BY <2>1 DEF Records
  <2>4. /\ pcidevs' = Append(pcidevs, [loc |-> l, hdr |-> hdr]) /\ Len(pcidevs) < NPCIDEV
        /\ stack' = (IF Follows(hdr) THEN Append(NextFun, Frame(hdr.secondary)) ELSE NextFun)
        /\ UNCHANGED <<topology, scan>>
    BY <1>9 DEF RecordFun, Enter, npcidev
  <2> HIDE DEF l, hdr
  <2>5. pcidevs' \in Seq(Records) /\ Len(pcidevs') <= NPCIDEV
    BY <2>3, <2>4, PciPlaces
  <2>6. stack' \in Seq(Frames) /\ stack' # <<>>
    BY <1>1, <1>6, <2>1, <2>2, <2>4, FrameTypes, StackTypes
  <2> QED BY <1>1, <2>4, <2>5, <2>6, SameFunctions DEF npcidev
<1>10. CASE Overrun
  BY <1>1, <1>10, SameFunctions DEF Overrun, npcidev
<1>11. CASE EndBus
  BY <1>1, <1>11, StackTypes, SameFunctions DEF EndBus, npcidev
<1> QED BY <1>7, <1>8, <1>9, <1>10, <1>11 DEF pci_prob_dev

LEMMA PciTypesHold == Spec => []PciTypes
<1>1. Init => PciTypes
  <2> SUFFICES ASSUME Init PROVE PciTypes
    OBVIOUS
  <2>1. Frame(0) \in Frames
    BY FrameTypes
  <2> QED BY <2>1, PciPlaces DEF Init, PciInit, PciTypes, npcidev
<1>2. PciTypes /\ [Next]_startVars => PciTypes'
  <2> SUFFICES ASSUME PciTypes, [Next]_startVars PROVE PciTypes'
    OBVIOUS
  <2>1. CASE Scan
    BY <2>1, ScanTypes DEF Scan
  <2>2. CASE pci_list \/ Refuse \/ StartIde \/ Disks(IdeNext) \/ UNCHANGED startVars
    <3>1. UNCHANGED pciVars /\ stage' \in {"pci", "check", "ide", "panic"}
      BY <2>2 DEF pci_list, Refuse, StartIde, Disks, startVars, PciTypes
    <3> QED BY <3>1, SameFunctions DEF PciTypes, pciVars, npcidev
  <2> QED BY <2>1, <2>2 DEF Next
<1> QED BY <1>1, <1>2, PTL DEF Spec

\* The table keeps to its places, an activation to its bus; the registers,
\* the geometry and the counters of the disk driver keep their ranges.
THEOREM TypeCorrect == Spec => []TypeOK
<1>1. PciTypes => PciTypeOK /\ stage \in {"pci", "check", "ide", "panic"}
  <2> SUFFICES ASSUME PciTypes PROVE PciTypeOK
    BY DEF PciTypes
  <2>1. \A f \in Range(stack) : f \in Frames
    <3>1. stack \in Seq(Frames)
      BY DEF PciTypes
    <3>2. \A i \in DOMAIN stack : stack[i] \in Frames
      BY <3>1
    <3> QED BY <3>2 DEF Range
  <2>2. \A p \in Range(pcidevs) : p \in Records
    <3>1. pcidevs \in Seq(Records)
      BY DEF PciTypes
    <3>2. \A i \in DOMAIN pcidevs : pcidevs[i] \in Records
      BY <3>1
    <3> QED BY <3>2 DEF Range
  <2>3. npcidev \in 0 .. NPCIDEV
    BY PciPlaces DEF PciTypes, npcidev
  <2>4. \A p \in Records : Responds(p.loc) /\ p.hdr = Header(p.loc)
    BY DEF Records
  <2>5. \A f \in Frames :
          /\ f.dev \in 0 .. NDEV_PER_BUS /\ f.nfun \in {0, 1, NFUN_PER_DEV} /\ f.fun \in 0 .. f.nfun
          /\ f.nfun # 0 => f.dev < NDEV_PER_BUS /\ Responds(Loc(f.bus, f.dev, 0))
    BY PciPlaces DEF Frames
  <2> QED BY <2>1, <2>2, <2>3, <2>4, <2>5 DEF PciTypes, PciTypeOK
<1>2. IInv => IdeTypeOK
  <2> SUFFICES ASSUME Types PROVE IdeTypeOK
    BY DEF IInv
  <2>1. \A x \in Channels : ctl[x] \in Ctl
    BY DEF Types, Registers
  <2>2. \A d \in Drives : drives[d] \in Info
    BY DEF Types, Tabled
  <2> QED BY <2>1, <2>2 DEF Types, Media, Tabled, Driving, Registers, IdeTypeOK, Ctl, Info, Args
<1> QED BY <1>1, <1>2, PciTypesHold, Invariance, PTL DEF TypeOK

-----------------------------------------------------------------------------
(***************************************************************************)
(* What the scan finds.  First the buses that it can reach, as a function  *)
(* of the machine; Away is recursive, so that its equations have to be     *)
(* derived from the existence of a function that obeys them.               *)
(***************************************************************************)

LEMMA NatSetInduction ==
  ASSUME NEW S, 0 \in S, \A n \in Nat : n \in S => n + 1 \in S
  PROVE  Nat \subseteq S
<1> DEFINE T == Nat \ S
           R == OpToRel(<, Nat)
<1>1. SUFFICES ASSUME T # {}
               PROVE  FALSE
  OBVIOUS
<1>2. IsWellFoundedOn(R, Nat)
  BY NatLessThanWellFounded
<1>3. T \subseteq Nat
  OBVIOUS
<1> HIDE DEF T, R
<1>4. PICK x \in T : \A y \in T : ~(<<y, x>> \in R)
  BY <1>1, <1>2, <1>3, WFMin
<1> USE DEF T
<1>5. x # 0 /\ x \in Nat /\ x - 1 \in Nat
  OBVIOUS
<1>6. <<x - 1, x>> \in R
  BY <1>5 DEF R, OpToRel
<1> QED
  BY <1>4, <1>5, <1>6

\* Of a machine with the functions t: those that can be told to exist, the
\* bridges among them, the buses that these lead to from the buses B, and the
\* buses n bridges away.
VisibleIn(t) ==
  {loc \in DOMAIN t :
     \/ loc[3] = 0
     \/ LET zero == Loc(loc[1], loc[2], 0) IN zero \in DOMAIN t /\ t[zero].multi}

Reached(t, B) ==
  B \cup {t[loc].secondary : loc \in {m \in VisibleIn(t) : Follows(t[m]) /\ m[1] \in B}}

AwayIn(t) == LET away[n \in 0 .. NPCIDEV] == IF n = 0 THEN {0} ELSE Reached(t, away[n - 1]) IN away

NumberedIn(t) ==
  \A m, n \in {loc \in VisibleIn(t) : Follows(t[loc])} :
    t[m].secondary # 0 /\ (m # n => t[m].secondary # t[n].secondary)

LEMMA Views ==
  /\ Visible = VisibleIn(topology) /\ Visible' = VisibleIn(topology')
  /\ Away = AwayIn(topology) /\ Away' = AwayIn(topology')
  /\ Numbered = NumberedIn(topology) /\ Numbered' = NumberedIn(topology')
<1>1. Visible = VisibleIn(topology) /\ Visible' = VisibleIn(topology')
  BY DEF Visible, VisibleIn
<1>2. Away = AwayIn(topology) /\ Away' = AwayIn(topology')
  BY DEF Away, AwayIn, Reached, Visible, VisibleIn, Follows
<1>3. Numbered = NumberedIn(topology) /\ Numbered' = NumberedIn(topology')
  BY DEF Numbered, NumberedIn, Visible, VisibleIn, Follows
<1> QED BY <1>1, <1>2, <1>3

LEMMA AwayRun ==
  ASSUME NEW t
  PROVE  /\ AwayIn(t)[0] = {0}
         /\ \A n \in 1 .. NPCIDEV : AwayIn(t)[n] = Reached(t, AwayIn(t)[n - 1])
<1> USE PciPlaces
<1> DEFINE Run(n, f) == f[0] = {0} /\ \A k \in 1 .. n : f[k] = Reached(t, f[k - 1])
           S == {n \in Nat : \E f : f = [k \in 0 .. n |-> f[k]] /\ Run(n, f)}
<1>1. 0 \in S
  <2> DEFINE f == [k \in 0 .. 0 |-> {0}]
  <2>1. f = [k \in 0 .. 0 |-> f[k]] /\ Run(0, f)
    OBVIOUS
  <2> QED BY <2>1
<1>2. ASSUME NEW n \in Nat, n \in S PROVE n + 1 \in S
  <2>1. PICK f : f = [k \in 0 .. n |-> f[k]] /\ Run(n, f)
    BY <1>2
  <2> DEFINE last == Reached(t, f[n])
             g == [k \in 0 .. n + 1 |-> IF k <= n THEN f[k] ELSE last]
  <2>2. g = [k \in 0 .. n + 1 |-> g[k]]
    OBVIOUS
  <2>3. g[0] = {0}
    BY <2>1
  <2>4. ASSUME NEW k \in 1 .. n + 1
        PROVE  g[k] = Reached(t, g[k - 1])
    <3>1. CASE k <= n
      <4>1. g[k] = f[k] /\ g[k - 1] = f[k - 1] /\ k \in 1 .. n
        BY <3>1
      <4> HIDE DEF g
      <4> QED BY <2>1, <4>1
    <3>2. CASE k = n + 1
      <4>1. g[k] = last /\ g[k - 1] = f[n]
        BY <3>2
      <4> HIDE DEF g
      <4> QED BY <4>1
    <3> QED BY <3>1, <3>2
  <2> HIDE DEF g
  <2>5. Run(n + 1, g)
    BY <2>3, <2>4
  <2>6. \E h : h = [k \in 0 .. n + 1 |-> h[k]] /\ Run(n + 1, h)
    <3> HIDE DEF Run
    <3> QED BY <2>2, <2>5
  <2> HIDE DEF Run
  <2> QED BY <2>6
<1> HIDE DEF S
<1>3. Nat \subseteq S
  BY <1>1, <1>2, NatSetInduction
<1>4. PICK f : f = [k \in 0 .. NPCIDEV |-> f[k]] /\ Run(NPCIDEV, f)
  BY <1>3 DEF S
<1> DEFINE Reach(h, n) == IF n = 0 THEN {0} ELSE Reached(t, h[n - 1])
           Again(h) == [n \in 0 .. NPCIDEV |-> Reach(h, n)]
           g == CHOOSE h : h = Again(h)
<1>5. f = Again(f)
  <2>1. ASSUME NEW n \in 0 .. NPCIDEV PROVE f[n] = Reach(f, n)
    BY <1>4
  <2> HIDE DEF Reach
  <2> QED BY <1>4, <2>1
<1>6. g = Again(g)
  <2> HIDE DEF Again
  <2> QED BY <1>5
<1>7. AwayIn(t) = g
  BY DEF AwayIn
<1> HIDE DEF g
<1>8. \A n \in 0 .. NPCIDEV : g[n] = Reach(g, n)
  <2> HIDE DEF Reach
  <2> QED BY <1>6
<1>9. g[0] = {0} /\ \A n \in 1 .. NPCIDEV : g[n] = Reached(t, g[n - 1])
  <2>1. g[0] = {0}
    BY <1>8
  <2>2. ASSUME NEW n \in 1 .. NPCIDEV PROVE g[n] = Reached(t, g[n - 1])
    <3>1. n \in 0 .. NPCIDEV /\ n # 0
      OBVIOUS
    <3> QED BY <1>8, <3>1
  <2> QED BY <2>1, <2>2
<1> QED BY <1>7, <1>9

\* A bus that is reached stays so.
LEMMA AwayGrows ==
  ASSUME NEW t, NEW n \in 0 .. NPCIDEV
  PROVE  AwayIn(t)[n] \subseteq AwayIn(t)[NPCIDEV]
<1> USE PciPlaces
<1> DEFINE S == {k \in Nat : \A i \in 0 .. NPCIDEV : i + k <= NPCIDEV => AwayIn(t)[i] \subseteq AwayIn(t)[i + k]}
<1>1. 0 \in S
  OBVIOUS
<1>2. ASSUME NEW k \in Nat, k \in S PROVE k + 1 \in S
  <2> SUFFICES ASSUME NEW i \in 0 .. NPCIDEV, i + (k + 1) <= NPCIDEV
               PROVE  AwayIn(t)[i] \subseteq AwayIn(t)[i + (k + 1)]
    OBVIOUS
  <2>1. AwayIn(t)[i] \subseteq AwayIn(t)[i + k]
    BY <1>2
  <2>2. i + (k + 1) \in 1 .. NPCIDEV /\ (i + (k + 1)) - 1 = i + k
    OBVIOUS
  <2>3. AwayIn(t)[i + (k + 1)] = Reached(t, AwayIn(t)[i + k])
    BY <2>2, AwayRun
  <2>4. AwayIn(t)[i + k] \subseteq Reached(t, AwayIn(t)[i + k])
    BY DEF Reached
  <2> QED BY <2>1, <2>3, <2>4
<1> HIDE DEF S
<1>3. NPCIDEV - n \in S
  BY <1>1, <1>2, NatSetInduction
<1> USE DEF S
<1> QED BY <1>3


-----------------------------------------------------------------------------
(***************************************************************************)
(* The places ahead of an activation, and what a scan has done: on a bus   *)
(* that it follows, each function is in the table or ahead of an           *)
(* activation (Complete); an activation is no deeper than the table is     *)
(* long (Sound); and if buses are numbered, it is the only one on its bus, *)
(* and what it has ahead is not in the table (Once).                       *)
(***************************************************************************)
Ahead(f, loc) == loc[1] = f.bus /\ (loc[2] > f.dev \/ (loc[2] = f.dev /\ loc[3] >= f.fun))

IsFound(tab, loc) == \E j \in 1 .. Len(tab) : tab[j].loc = loc

IsStarted(tab, b) == b = 0 \/ \E j \in 1 .. Len(tab) : Follows(tab[j].hdr) /\ tab[j].hdr.secondary = b

\* The number of functions that an activation looks at.
Counts(t, f) ==
  f.nfun # 0 => LET zero == Loc(f.bus, f.dev, 0) IN zero \in DOMAIN t /\ f.nfun = Functions(t[zero])

Listed(t, tab) == \A j \in 1 .. Len(tab) : tab[j].loc \in VisibleIn(t) /\ tab[j].hdr = t[tab[j].loc]

Complete(t, stk, tab) ==
  \A loc \in VisibleIn(t) : IsStarted(tab, loc[1]) =>
    IsFound(tab, loc) \/ \E k \in 1 .. Len(stk) : Ahead(stk[k], loc)

Sound(t, stk, tab) ==
  /\ Len(stk) <= Len(tab) + 1 /\ Len(tab) <= NPCIDEV
  /\ \A k \in 1 .. Len(stk) : stk[k].bus \in AwayIn(t)[k - 1]
  /\ \A j \in 1 .. Len(tab) : tab[j].loc[1] \in AwayIn(t)[NPCIDEV]

Once(stk, tab) ==
  /\ \A i, j \in 1 .. Len(tab) : i # j => tab[i].loc # tab[j].loc
  /\ \A k, m \in 1 .. Len(stk) : k # m => stk[k].bus # stk[m].bus
  /\ \A k \in 1 .. Len(stk) : IsStarted(tab, stk[k].bus)
  /\ \A j \in 1 .. Len(tab) : IsStarted(tab, tab[j].loc[1])
  /\ \A k \in 1 .. Len(stk) : \A j \in 1 .. Len(tab) : ~Ahead(stk[k], tab[j].loc)

Scanned(t, stk, tab) ==
  /\ Len(stk) \in Nat /\ Len(tab) \in Nat
  /\ \A k \in 1 .. Len(stk) : Counts(t, stk[k])
  /\ Listed(t, tab) /\ Complete(t, stk, tab) /\ Sound(t, stk, tab)
  /\ NumberedIn(t) => Once(stk, tab)

\* The activation goes on, and has the same functions ahead.
Continues(t, stk, stk2) ==
  LET n == Len(stk)
  IN  /\ n > 0 /\ Len(stk2) = n /\ \A k \in 1 .. n - 1 : stk2[k] = stk[k]
      /\ stk2[n].bus = stk[n].bus /\ Counts(t, stk2[n])
      /\ \A loc \in VisibleIn(t) : Ahead(stk2[n], loc) <=> Ahead(stk[n], loc)

LEMMA ScanContinues ==
  ASSUME NEW t, NEW stk, NEW stk2, NEW tab, Scanned(t, stk, tab), Continues(t, stk, stk2)
  PROVE  Scanned(t, stk2, tab)
<1> DEFINE n == Len(stk)
<1>1. /\ n \in Nat \ {0} /\ Len(stk2) = n /\ \A k \in 1 .. n - 1 : stk2[k] = stk[k]
      /\ stk2[n].bus = stk[n].bus /\ Counts(t, stk2[n])
      /\ \A loc \in VisibleIn(t) : Ahead(stk2[n], loc) <=> Ahead(stk[n], loc)
  BY DEF Scanned, Continues
<1> HIDE DEF n
<1>2. \A k \in 1 .. n : /\ stk2[k].bus = stk[k].bus
                        /\ \A loc \in VisibleIn(t) : Ahead(stk2[k], loc) <=> Ahead(stk[k], loc)
  BY <1>1
<1>3. \A k \in 1 .. n : Counts(t, stk2[k])
  <2>1. \A k \in 1 .. n : Counts(t, stk[k])
    BY DEF Scanned, n
  <2> QED BY <1>1, <2>1
<1>4. Complete(t, stk2, tab)
  BY <1>1, <1>2 DEF Scanned, Complete, n
<1>5. Sound(t, stk2, tab)
  BY <1>1, <1>2 DEF Scanned, Sound, n
<1>6. ASSUME NumberedIn(t) PROVE Once(stk2, tab)
  <2>1. Once(stk, tab) /\ \A j \in 1 .. Len(tab) : tab[j].loc \in VisibleIn(t)
    BY <1>6 DEF Scanned, Listed
  <2>2. \A k \in 1 .. n : \A j \in 1 .. Len(tab) : ~Ahead(stk2[k], tab[j].loc)
    BY <1>2, <2>1 DEF Once, n
  <2>3. \A k, m \in 1 .. n : k # m => stk2[k].bus # stk2[m].bus
    BY <1>2, <2>1 DEF Once, n
  <2>4. \A k \in 1 .. n : IsStarted(tab, stk2[k].bus)
    BY <1>2, <2>1 DEF Once, n
  <2> QED BY <1>1, <2>1, <2>2, <2>3, <2>4 DEF Once
<1> QED BY <1>1, <1>3, <1>4, <1>5, <1>6 DEF Scanned

\* The activation is at its end, and the one below it goes on.
GoesBack(t, stk, stk2) ==
  LET n == Len(stk)
  IN  /\ n > 0 /\ Len(stk2) = n - 1 /\ \A k \in 1 .. n - 1 : stk2[k] = stk[k]
      /\ \A loc \in VisibleIn(t) : ~Ahead(stk[n], loc)

LEMMA ScanGoesBack ==
  ASSUME NEW t, NEW stk, NEW stk2, NEW tab, Scanned(t, stk, tab), GoesBack(t, stk, stk2)
  PROVE  Scanned(t, stk2, tab)
<1> DEFINE n == Len(stk)
<1>1. /\ n \in Nat \ {0} /\ Len(stk2) = n - 1 /\ \A k \in 1 .. n - 1 : stk2[k] = stk[k]
      /\ \A loc \in VisibleIn(t) : ~Ahead(stk[n], loc)
  BY DEF Scanned, GoesBack
<1> HIDE DEF n
<1>2. \A k \in 1 .. n - 1 : k \in 1 .. n
  BY <1>1
<1>3. \A k \in 1 .. n - 1 : Counts(t, stk2[k])
  <2>1. \A k \in 1 .. n : Counts(t, stk[k])
    BY DEF Scanned, n
  <2> QED BY <1>1, <1>2, <2>1
<1>4. Complete(t, stk2, tab)
  <2> SUFFICES ASSUME NEW loc \in VisibleIn(t), IsStarted(tab, loc[1]), ~IsFound(tab, loc)
               PROVE  \E k \in 1 .. n - 1 : Ahead(stk2[k], loc)
    BY <1>1 DEF Complete
  <2>1. PICK k \in 1 .. n : Ahead(stk[k], loc)
    BY DEF Scanned, Complete, n
  <2>2. k \in 1 .. n - 1
    BY <1>1, <2>1
  <2> QED BY <1>1, <2>1, <2>2
<1>5. Sound(t, stk2, tab)
  BY <1>1, <1>2 DEF Scanned, Sound, n
<1>6. ASSUME NumberedIn(t) PROVE Once(stk2, tab)
  <2>1. Once(stk, tab)
    BY <1>6 DEF Scanned
  <2> QED BY <1>1, <1>2, <2>1 DEF Once, n
<1>7. n - 1 \in Nat
  BY <1>1
<1> QED BY <1>1, <1>3, <1>4, <1>5, <1>6, <1>7 DEF Scanned

\* The activation records the function l, and goes on behind it if it leads to
\* another bus.
Enlists(t, stk, tab, stk2, tab2, l) ==
  LET n == Len(stk)
      m == Len(tab)
  IN  /\ n > 0 /\ m < NPCIDEV /\ l \in VisibleIn(t) /\ Ahead(stk[n], l)
      /\ Len(tab2) = m + 1 /\ \A j \in 1 .. m : tab2[j] = tab[j]
      /\ tab2[m + 1].loc = l /\ tab2[m + 1].hdr = t[l]
      /\ \A k \in 1 .. n - 1 : stk2[k] = stk[k]
      /\ stk2[n].bus = stk[n].bus /\ Counts(t, stk2[n])
      /\ \A loc \in VisibleIn(t) : Ahead(stk2[n], loc) <=> Ahead(stk[n], loc) /\ loc # l
      /\ IF Follows(t[l]) THEN Len(stk2) = n + 1 /\ stk2[n + 1] = Frame(t[l].secondary)
                          ELSE Len(stk2) = n

LEMMA ScanRecords ==
  ASSUME NEW t \in Topologies, NEW stk, NEW tab, NEW stk2, NEW tab2, NEW l,
         Scanned(t, stk, tab), Enlists(t, stk, tab, stk2, tab2, l)
  PROVE  Scanned(t, stk2, tab2)
<1> DEFINE n == Len(stk)
           m == Len(tab)
           b == t[l].secondary
<1>1. /\ n \in Nat \ {0} /\ m \in Nat /\ m < NPCIDEV /\ l \in VisibleIn(t) /\ Ahead(stk[n], l)
      /\ Len(tab2) = m + 1 /\ \A j \in 1 .. m : tab2[j] = tab[j]
      /\ tab2[m + 1].loc = l /\ tab2[m + 1].hdr = t[l]
      /\ \A k \in 1 .. n - 1 : stk2[k] = stk[k]
      /\ stk2[n].bus = stk[n].bus /\ Counts(t, stk2[n])
      /\ \A loc \in VisibleIn(t) : Ahead(stk2[n], loc) <=> Ahead(stk[n], loc) /\ loc # l
      /\ IF Follows(t[l]) THEN Len(stk2) = n + 1 /\ stk2[n + 1] = Frame(b) ELSE Len(stk2) = n
  BY DEF Scanned, Enlists
<1>2. /\ \A k \in 1 .. n : Counts(t, stk[k])
      /\ \A j \in 1 .. m : tab[j].loc \in VisibleIn(t) /\ tab[j].hdr = t[tab[j].loc]
      /\ Complete(t, stk, tab) /\ Sound(t, stk, tab)
      /\ NumberedIn(t) => Once(stk, tab)
  BY DEF Scanned, Listed
<1>3. \A loc \in VisibleIn(t) : loc \in Places
  BY AddressTypes DEF VisibleIn, Places
<1> HIDE DEF n, m
<1>4. n \in 1 .. n /\ \A k \in 1 .. n : k # n => k \in 1 .. n - 1
  BY <1>1
<1>5. \A k \in 1 .. n :
        /\ stk2[k].bus = stk[k].bus
        /\ \A loc \in VisibleIn(t) : Ahead(stk2[k], loc) => Ahead(stk[k], loc)
        /\ Counts(t, stk2[k])
        /\ \A loc \in VisibleIn(t) : Ahead(stk[k], loc) => Ahead(stk2[k], loc) \/ loc = l
  BY <1>1, <1>2, <1>4
<1>6. \A x : IsFound(tab2, x) <=> IsFound(tab, x) \/ x = l
  <2>1. \A j \in 1 .. m : j \in 1 .. m + 1 /\ tab2[j].loc = tab[j].loc
    BY <1>1
  <2>2. m + 1 \in 1 .. m + 1 /\ \A j \in 1 .. m + 1 : j \in 1 .. m \/ j = m + 1
    BY <1>1
  <2> QED BY <1>1, <2>1, <2>2 DEF IsFound, m
<1>7. \A x : IsStarted(tab2, x) <=> IsStarted(tab, x) \/ (Follows(t[l]) /\ x = b)
  <2>1. \A j \in 1 .. m : j \in 1 .. m + 1 /\ tab2[j].hdr = tab[j].hdr
    BY <1>1
  <2>2. m + 1 \in 1 .. m + 1 /\ \A j \in 1 .. m + 1 : j \in 1 .. m \/ j = m + 1
    BY <1>1
  <2>3. tab2[m + 1].hdr.secondary = b /\ (Follows(tab2[m + 1].hdr) <=> Follows(t[l]))
    BY <1>1
  <2>4. ASSUME NEW x PROVE IsStarted(tab, x) => IsStarted(tab2, x)
    BY <1>1, <2>1 DEF IsStarted, m
  <2>5. ASSUME NEW x, Follows(t[l]), x = b PROVE IsStarted(tab2, x)
    BY <1>1, <2>2, <2>3, <2>5 DEF IsStarted
  <2>6. ASSUME NEW x, IsStarted(tab2, x) PROVE IsStarted(tab, x) \/ (Follows(t[l]) /\ x = b)
    BY <1>1, <2>1, <2>2, <2>3, <2>6 DEF IsStarted, m
  <2> QED BY <2>4, <2>5, <2>6
<1>8. /\ Len(stk2) \in Nat /\ \A k \in 1 .. n : k \in 1 .. Len(stk2)
      /\ \A k \in 1 .. Len(stk2) : k \in 1 .. n \/ (k = n + 1 /\ Follows(t[l]) /\ stk2[k] = Frame(b))
      /\ Follows(t[l]) => n + 1 \in 1 .. Len(stk2)
  BY <1>1
<1>9. l[1] = stk[n].bus /\ b \in Nat
  BY <1>1, AddressTypes DEF Ahead, VisibleIn, Places
<1>10. /\ Frame(b).bus = b /\ Frame(b).nfun = 0
       /\ \A loc \in VisibleIn(t) : Ahead(Frame(b), loc) <=> loc[1] = b
  BY <1>3 DEF Frame, Ahead, Places
<1> HIDE DEF b
<1>11. \A k \in 1 .. Len(stk2) : Counts(t, stk2[k])
  BY <1>5, <1>8, <1>10 DEF Counts
<1>12. Listed(t, tab2)
  BY <1>1, <1>2 DEF Listed
<1>13. Complete(t, stk2, tab2)
  <2> SUFFICES ASSUME NEW loc \in VisibleIn(t), IsStarted(tab2, loc[1]), loc # l, ~IsFound(tab, loc)
               PROVE  \E k \in 1 .. Len(stk2) : Ahead(stk2[k], loc)
    BY <1>6 DEF Complete
  <2>1. CASE IsStarted(tab, loc[1])
    <3>1. PICK k \in 1 .. n : Ahead(stk[k], loc)
      BY <1>2, <2>1 DEF Complete, n
    <3> QED BY <1>5, <1>8, <3>1
  <2>2. CASE Follows(t[l]) /\ loc[1] = b
    <3>1. stk2[n + 1] = Frame(b)
      BY <1>1, <2>2
    <3>2. Ahead(stk2[n + 1], loc)
      BY <1>10, <2>2, <3>1
    <3> QED BY <1>8, <2>2, <3>2
  <2> QED BY <1>7, <2>1, <2>2
<1>14. Sound(t, stk2, tab2)
  <2>1. /\ n <= m + 1 /\ \A k \in 1 .. n : stk[k].bus \in AwayIn(t)[k - 1]
        /\ \A j \in 1 .. m : tab[j].loc[1] \in AwayIn(t)[NPCIDEV]
    BY <1>2 DEF Sound, n, m
  <2>2. n - 1 \in 0 .. NPCIDEV /\ n \in 1 .. NPCIDEV
    BY <1>1, <2>1, PciPlaces
  <2>3. l[1] \in AwayIn(t)[n - 1]
    BY <1>4, <1>9, <2>1
  <2>4. l[1] \in AwayIn(t)[NPCIDEV]
    BY <2>2, <2>3, AwayGrows
  <2>5. \A j \in 1 .. Len(tab2) : tab2[j].loc[1] \in AwayIn(t)[NPCIDEV]
    <3>1. \A j \in 1 .. m + 1 : j \in 1 .. m \/ j = m + 1
      BY <1>1
    <3> QED BY <1>1, <2>1, <2>4, <3>1
  <2>6. Follows(t[l]) => b \in AwayIn(t)[n]
    <3>1. AwayIn(t)[n] = Reached(t, AwayIn(t)[n - 1])
      BY <2>2, AwayRun
    <3> QED BY <1>1, <2>3, <3>1 DEF Reached, b
  <2>7. \A k \in 1 .. n : stk2[k].bus \in AwayIn(t)[k - 1]
    BY <1>5, <2>1
  <2>8. Follows(t[l]) => stk2[n + 1].bus \in AwayIn(t)[(n + 1) - 1]
    <3>1. (n + 1) - 1 = n
      BY <1>1
    <3> QED BY <1>1, <1>10, <2>6, <3>1
  <2>9. \A k \in 1 .. Len(stk2) : stk2[k].bus \in AwayIn(t)[k - 1]
    BY <1>8, <2>7, <2>8
  <2>10. Len(stk2) <= (m + 1) + 1 /\ m + 1 <= NPCIDEV
    BY <1>1, <2>1, PciPlaces
  <2> QED BY <1>1, <2>5, <2>9, <2>10 DEF Sound
<1>15. ASSUME NumberedIn(t) PROVE Once(stk2, tab2)
  <2>1. /\ \A i, j \in 1 .. m : i # j => tab[i].loc # tab[j].loc
        /\ \A k, i \in 1 .. n : k # i => stk[k].bus # stk[i].bus
        /\ \A k \in 1 .. n : IsStarted(tab, stk[k].bus)
        /\ \A j \in 1 .. m : IsStarted(tab, tab[j].loc[1])
        /\ \A k \in 1 .. n : \A j \in 1 .. m : ~Ahead(stk[k], tab[j].loc)
    BY <1>2, <1>15 DEF Once, n, m
  <2>2. ~IsFound(tab, l)
    BY <1>1, <1>4, <2>1 DEF IsFound, m
  <2>3. Follows(t[l]) => ~IsStarted(tab, b)
    <3> SUFFICES ASSUME Follows(t[l]), IsStarted(tab, b) PROVE FALSE
      OBVIOUS
    <3>1. b # 0
      BY <1>1, <1>15 DEF NumberedIn, b
    <3>2. PICK j \in 1 .. m : Follows(tab[j].hdr) /\ tab[j].hdr.secondary = b
      BY <3>1 DEF IsStarted, m
    <3>3. tab[j].loc \in VisibleIn(t) /\ Follows(t[tab[j].loc]) /\ t[tab[j].loc].secondary = b
      BY <1>2, <3>2
    <3>4. tab[j].loc = l
      BY <1>1, <1>15, <3>3 DEF NumberedIn, b
    <3> QED BY <2>2, <3>4 DEF IsFound, m
  <2>4. \A j \in 1 .. m + 1 : j \in 1 .. m \/ j = m + 1
    BY <1>1
  <2>5. \A i, j \in 1 .. Len(tab2) : i # j => tab2[i].loc # tab2[j].loc
    <3>1. \A j \in 1 .. m : tab2[j].loc = tab[j].loc /\ tab[j].loc # l
      BY <1>1, <2>2 DEF IsFound, m
    <3> QED BY <1>1, <2>1, <2>4, <3>1
  <2>6. \A k \in 1 .. n : IsStarted(tab2, stk2[k].bus) /\ (Follows(t[l]) => stk2[k].bus # b)
    BY <1>5, <1>7, <2>1, <2>3
  <2>7. \A k, i \in 1 .. Len(stk2) : k # i => stk2[k].bus # stk2[i].bus
    <3>1. \A k, i \in 1 .. n : k # i => stk2[k].bus # stk2[i].bus
      BY <1>5, <2>1
    <3> QED BY <1>8, <1>10, <2>6, <3>1
  <2>8. \A k \in 1 .. Len(stk2) : IsStarted(tab2, stk2[k].bus)
    BY <1>7, <1>8, <1>10, <2>6
  <2>9. \A j \in 1 .. Len(tab2) : IsStarted(tab2, tab2[j].loc[1])
    BY <1>1, <1>4, <1>7, <1>9, <2>1, <2>4
  <2>10. \A j \in 1 .. Len(tab2) : IsStarted(tab, tab2[j].loc[1]) /\ tab2[j].loc \in VisibleIn(t)
    BY <1>1, <1>2, <1>4, <1>9, <2>1, <2>4
  <2>11. \A k \in 1 .. n : \A j \in 1 .. Len(tab2) : ~Ahead(stk2[k], tab2[j].loc)
    <3> SUFFICES ASSUME NEW k \in 1 .. n, NEW j \in 1 .. Len(tab2), Ahead(stk2[k], tab2[j].loc)
                 PROVE  FALSE
      OBVIOUS
    <3>1. Ahead(stk[k], tab2[j].loc)
      BY <1>5, <2>10
    <3>2. CASE j \in 1 .. m
      BY <1>1, <2>1, <3>1, <3>2
    <3>3. CASE j = m + 1
      <4>1. tab2[j].loc = l
        BY <1>1, <3>3
      <4>2. stk[k].bus = stk[n].bus
        BY <1>9, <3>1, <4>1 DEF Ahead
      <4>3. k = n
        BY <1>4, <2>1, <4>2
      <4> QED BY <1>1, <4>1, <4>3
    <3> QED BY <1>1, <2>4, <3>2, <3>3
  <2>12. ASSUME Follows(t[l]), NEW j \in 1 .. Len(tab2) PROVE ~Ahead(stk2[n + 1], tab2[j].loc)
    BY <1>1, <1>10, <2>3, <2>10, <2>12
  <2>13. \A k \in 1 .. Len(stk2) : \A j \in 1 .. Len(tab2) : ~Ahead(stk2[k], tab2[j].loc)
    BY <1>8, <2>11, <2>12
  <2> QED BY <2>5, <2>7, <2>8, <2>9, <2>13 DEF Once
<1>16. Len(tab2) \in Nat
  BY <1>1
<1> QED BY <1>8, <1>11, <1>12, <1>13, <1>14, <1>15, <1>16 DEF Scanned

-----------------------------------------------------------------------------
(***************************************************************************)
(* Where the scan is.                                                      *)
(***************************************************************************)
LEMMA Here ==
  ASSUME PciTypes, scan = "scan", Scanned(topology, stack, pcidevs)
  PROVE  /\ stack \in Seq(Frames) /\ Len(stack) \in Nat \ {0} /\ here = stack[Len(stack)]
         /\ here \in Frames /\ Counts(topology, here)
         /\ here.bus \in Nat /\ here.dev \in 0 .. NDEV_PER_BUS /\ here.fun \in 0 .. NFUN_PER_DEV
         /\ here.nfun \in {0, 1, NFUN_PER_DEV} /\ here.fun <= here.nfun
         /\ here.nfun # 0 => here.dev < NDEV_PER_BUS
         /\ here = [bus |-> here.bus, dev |-> here.dev, fun |-> here.fun, nfun |-> here.nfun]
<1>1. stack \in Seq(Frames) /\ stack # <<>>
  BY DEF PciTypes
<1>2. Len(stack) \in Nat \ {0}
  BY <1>1, EmptySeq
<1>3. here = stack[Len(stack)]
  BY DEF here, Last
<1>4. here \in Frames
  BY <1>1, <1>2, <1>3, ElementOfSeq
<1>5. Counts(topology, here)
  BY <1>2, <1>3 DEF Scanned
<1> QED BY <1>1, <1>2, <1>3, <1>4, <1>5 DEF Frames

\* Function 0, and a function that the scan looks at.
LEMMA Zero ==
  /\ Responds(At(0)) <=> At(0) \in DOMAIN topology
  /\ Header(At(0)) = topology[At(0)]
BY DEF Responds, Header, Decoded, At, Loc

LEMMA Looked ==
  ASSUME PciTypes, Scanned(topology, stack, pcidevs), AtFunction
  PROVE  LET l == At(here.fun)
         IN  /\ Responds(l) <=> l \in VisibleIn(topology)
             /\ Header(l) = topology[l]
<1> DEFINE l == At(here.fun)
           zero == Loc(here.bus, here.dev, 0)
<1>1. scan = "scan" /\ here.fun < here.nfun
  BY DEF AtFunction, AtDevice
<1>2. /\ here.fun \in 0 .. NFUN_PER_DEV /\ here.nfun \in {0, 1, NFUN_PER_DEV}
      /\ zero \in DOMAIN topology /\ here.nfun = Functions(topology[zero])
  BY <1>1, Here, PciPlaces DEF Counts
<1>3. l[1] = here.bus /\ l[2] = here.dev /\ l[3] = here.fun
  BY DEF At, Loc
<1>4. CASE here.fun = 0
  <2>1. l = zero /\ Decoded(l) = l
    BY <1>4 DEF At, Decoded, Loc
  <2> QED BY <1>2, <1>3, <1>4, <2>1 DEF Responds, Header, VisibleIn
<1>5. CASE here.fun # 0
  <2>1. topology[zero].multi
    BY <1>1, <1>2, <1>5 DEF Functions
  <2>2. ~topology[zero].alias
    BY <1>2, <2>1, AddressTypes DEF PciTypes
  <2>3. Decoded(l) = l
    BY <1>3, <2>2 DEF Decoded
  <2> QED BY <1>2, <1>3, <2>1, <2>3 DEF Responds, Header, VisibleIn
<1> QED BY <1>4, <1>5

\* What is ahead of an activation that goes on.
LEMMA NextAhead ==
  ASSUME NEW x \in Places, NEW f, f.dev \in Nat, f.fun \in Nat, NEW g, g.bus = f.bus
  PROVE  /\ g.dev = f.dev /\ g.fun = f.fun + 1
              => (Ahead(g, x) <=> Ahead(f, x) /\ x # Loc(f.bus, f.dev, f.fun))
         /\ g.dev = f.dev + 1 /\ g.fun = 0 => (Ahead(g, x) <=> Ahead(f, x) /\ x[2] # f.dev)
<1>1. PICK a \in Nat, b \in Nat, c \in Nat : x = <<a, b, c>>
  BY DEF Places
<1>2. x # Loc(f.bus, f.dev, f.fun) <=> ~(a = f.bus /\ b = f.dev /\ c = f.fun)
  BY <1>1 DEF Loc
<1>3. x[1] = a /\ x[2] = b /\ x[3] = c
  BY <1>1
<1> QED BY <1>2, <1>3 DEF Ahead

LEMMA Tops ==
  ASSUME NEW S, NEW s \in Seq(S), Len(s) \in Nat \ {0}, NEW f, NEW g
  PROVE  LET n == Len(s)
             t == [s EXCEPT ![n] = f]
         IN  /\ Len(t) = n /\ t[n] = f /\ \A k \in 1 .. n - 1 : t[k] = s[k]
             /\ Len(Append(t, g)) = n + 1 /\ Append(t, g)[n + 1] = g
             /\ \A k \in 1 .. n : Append(t, g)[k] = t[k]
             /\ Len(Front(s)) = n - 1 /\ \A k \in 1 .. n - 1 : Front(s)[k] = s[k]
<1> DEFINE n == Len(s)
           t == [s EXCEPT ![n] = f]
           T == S \cup {f}
<1>1. n \in Nat \ {0}
  OBVIOUS
<1>2. s \in Seq(T)
  OBVIOUS
<1>3. t \in Seq(T) /\ Len(t) = n /\ \A k \in 1 .. n : t[k] = IF k = n THEN f ELSE s[k]
  <2>1. n \in 1 .. Len(s) /\ f \in T
    BY <1>1
  <2> QED BY <1>2, <2>1, ExceptSeq
<1>4. t[n] = f /\ \A k \in 1 .. n - 1 : t[k] = s[k]
  <2> HIDE DEF n, t
  <2> QED BY <1>1, <1>3
<1>5. /\ Len(Append(t, g)) = n + 1 /\ Append(t, g)[n + 1] = g
      /\ \A k \in 1 .. n : Append(t, g)[k] = t[k]
  <2>1. t \in Seq(T \cup {g}) /\ g \in T \cup {g}
    BY <1>3
  <2> HIDE DEF t
  <2> QED BY <1>3, <2>1, AppendProperties
<1>6. Len(Front(s)) = n - 1 /\ \A k \in 1 .. n - 1 : Front(s)[k] = s[k]
  <2>1. Front(s) = SubSeq(s, 1, n - 1)
    BY DEF Front
  <2>2. n - 1 \in Nat /\ \A i \in 1 .. n - 1 : s[i] \in S
    BY <1>1
  <2>3. /\ Len(SubSeq(s, 1, n - 1)) = IF 1 <= n - 1 THEN n - 1 - 1 + 1 ELSE 0
        /\ \A i \in 1 .. n - 1 - 1 + 1 : SubSeq(s, 1, n - 1)[i] = s[1 + i - 1]
    BY <2>2, SubSeqProperties
  <2> HIDE DEF n
  <2>4. (IF 1 <= n - 1 THEN n - 1 - 1 + 1 ELSE 0) = n - 1
    BY <1>1
  <2>5. \A i \in 1 .. n - 1 : i \in 1 .. n - 1 - 1 + 1 /\ 1 + i - 1 = i
    BY <1>1
  <2> QED BY <2>1, <2>3, <2>4, <2>5
<1> QED BY <1>4, <1>5, <1>6

\* A function that can be reached is not in the table.
Left(t, tab) == \E loc \in VisibleIn(t) : loc[1] \in AwayIn(t)[NPCIDEV] /\ ~IsFound(tab, loc)

ScanInv ==
  /\ Scanned(topology, stack, pcidevs)
  /\ scan = "overrun" /\ NumberedIn(topology) => Left(topology, pcidevs)

LEMMA ScanStep ==
  ASSUME PciTypes, ScanInv, pci_prob_dev
  PROVE  /\ Scanned(topology, stack', pcidevs')
         /\ scan' = "overrun" /\ NumberedIn(topology) => Left(topology, pcidevs')
<1> DEFINE n == Len(stack)
<1>1. /\ scan = "scan" /\ PciTypes /\ Scanned(topology, stack, pcidevs) /\ topology \in Topologies
      /\ \A loc \in VisibleIn(topology) : loc \in Places
  <2>1. \A loc \in VisibleIn(topology) : loc \in Places
    BY AddressTypes DEF ScanInv, PciTypes, VisibleIn, Places
  <2> QED BY <2>1 DEF ScanInv, PciTypes, pci_prob_dev, ProbeDev, SkipFun, RecordFun, Overrun, EndDev, EndBus, AtFunction, AtDevice
<1>2. /\ stack \in Seq(Frames) /\ n \in Nat \ {0} /\ here = stack[n]
      /\ here \in Frames /\ Counts(topology, here)
      /\ here.bus \in Nat /\ here.dev \in 0 .. NDEV_PER_BUS /\ here.fun \in 0 .. NFUN_PER_DEV
      /\ here.nfun \in {0, 1, NFUN_PER_DEV} /\ here.fun <= here.nfun
      /\ here.nfun # 0 => here.dev < NDEV_PER_BUS
      /\ here = [bus |-> here.bus, dev |-> here.dev, fun |-> here.fun, nfun |-> here.nfun]
  BY <1>1, Here
<1>3. ASSUME NEW g PROVE /\ Len(ReplaceTop(g)) = n /\ ReplaceTop(g)[n] = g
                         /\ \A k \in 1 .. n - 1 : ReplaceTop(g)[k] = stack[k]
  BY <1>2, Tops DEF ReplaceTop
<1> HIDE DEF n
<1>4. ASSUME NEW g, stack' = ReplaceTop(g), UNCHANGED pcidevs, g.bus = here.bus, Counts(topology, g),
             \A loc \in VisibleIn(topology) : Ahead(g, loc) <=> Ahead(here, loc)
      PROVE  Scanned(topology, stack', pcidevs')
  <2>1. Continues(topology, stack, stack')
    BY <1>2, <1>3, <1>4 DEF Continues, n
  <2> QED BY <1>1, <1>4, <2>1, ScanContinues
\* The scan goes on to the next device.
<1>5. ASSUME stack' = NextDev, UNCHANGED pcidevs, here.dev < NDEV_PER_BUS,
             \A loc \in VisibleIn(topology) : Ahead(here, loc) => loc[2] # here.dev
      PROVE  Scanned(topology, stack', pcidevs')
  <2> DEFINE g == [bus |-> here.bus, dev |-> here.dev + 1, fun |-> 0, nfun |-> 0]
  <2>1. stack' = ReplaceTop(g)
    BY <1>5 DEF NextDev, Frame
  <2>2. g.bus = here.bus /\ g.dev = here.dev + 1 /\ g.fun = 0 /\ Counts(topology, g)
    BY DEF Counts
  <2> HIDE DEF g
  <2>3. \A loc \in VisibleIn(topology) : Ahead(g, loc) <=> Ahead(here, loc)
    BY <1>1, <1>2, <1>5, <2>2, NextAhead
  <2> QED BY <1>4, <1>5, <2>1, <2>2, <2>3
<1> DEFINE next == [bus |-> here.bus, dev |-> here.dev, fun |-> here.fun + 1, nfun |-> here.nfun]
<1>6. /\ NextFun = ReplaceTop(next) /\ next.bus = here.bus /\ Counts(topology, next)
      /\ \A loc \in VisibleIn(topology) : Ahead(next, loc) <=> Ahead(here, loc) /\ loc # At(here.fun)
  <2>1. [here EXCEPT !.fun = @ + 1] = next
    BY <1>2, FrameWith
  <2>2. next.bus = here.bus /\ next.dev = here.dev /\ next.fun = here.fun + 1 /\ next.nfun = here.nfun
    OBVIOUS
  <2> HIDE DEF next
  <2>3. Counts(topology, next)
    BY <1>2, <2>2 DEF Counts
  <2>4. \A loc \in VisibleIn(topology) : Ahead(next, loc) <=> Ahead(here, loc) /\ loc # At(here.fun)
    BY <1>1, <1>2, <2>2, NextAhead DEF At
  <2> QED BY <2>1, <2>2, <2>3, <2>4 DEF NextFun
<1> HIDE DEF next
<1>7. CASE ProbeDev
  <2>1. here.dev < NDEV_PER_BUS /\ here.nfun = 0 /\ here.fun = 0 /\ UNCHANGED <<pcidevs, scan>>
    BY <1>2, <1>7 DEF ProbeDev, AtDevice
  <2>2. CASE Responds(At(0))
    <3> DEFINE k == Functions(topology[At(0)])
               g == [bus |-> here.bus, dev |-> here.dev, fun |-> here.fun, nfun |-> k]
    <3>1. stack' = ReplaceTop(g)
      BY <1>2, <1>7, <2>2, FrameWith, Zero DEF ProbeDev
    <3>2. g.bus = here.bus /\ g.dev = here.dev /\ g.fun = here.fun /\ g.nfun = k
      OBVIOUS
    <3> HIDE DEF g
    <3>3. Counts(topology, g)
      BY <2>2, <3>2, Zero DEF Counts, At
    <3>4. \A loc \in VisibleIn(topology) : Ahead(g, loc) <=> Ahead(here, loc)
      BY <3>2 DEF Ahead
    <3> QED BY <1>1, <1>4, <2>1, <3>1, <3>2, <3>3, <3>4
  <2>3. CASE ~Responds(At(0))
    <3>1. \A loc \in VisibleIn(topology) : Ahead(here, loc) => loc[2] # here.dev
      <4> SUFFICES ASSUME NEW loc \in VisibleIn(topology), loc[1] = here.bus, loc[2] = here.dev
                   PROVE  FALSE
        BY DEF Ahead
      <4>1. At(0) \notin DOMAIN topology
        BY <2>3, Zero
      <4>2. loc[3] = 0 => loc = At(0)
        <5>1. loc \in Places
          BY <1>1
        <5> QED BY <5>1 DEF Places, At, Loc
      <4> QED BY <4>1, <4>2 DEF VisibleIn, At
    <3>2. stack' = NextDev
      BY <1>7, <2>3 DEF ProbeDev
    <3> QED BY <1>1, <1>5, <2>1, <3>1, <3>2
  <2> QED BY <2>2, <2>3
<1>8. CASE SkipFun
  <2>1. At(here.fun) \notin VisibleIn(topology)
    BY <1>1, <1>8, Looked DEF SkipFun
  <2>2. \A loc \in VisibleIn(topology) : Ahead(next, loc) <=> Ahead(here, loc)
    BY <1>6, <2>1
  <2>3. stack' = ReplaceTop(next) /\ UNCHANGED <<pcidevs, scan>>
    BY <1>6, <1>8 DEF SkipFun
  <2> QED BY <1>1, <1>4, <1>6, <2>2, <2>3
<1>9. CASE RecordFun
  <2> DEFINE l == At(here.fun)
             b == topology[l].secondary
  <2>1. /\ l \in VisibleIn(topology) /\ Header(l) = topology[l]
        /\ Len(pcidevs) < NPCIDEV /\ UNCHANGED scan
        /\ pcidevs' = Append(pcidevs, [loc |-> l, hdr |-> topology[l]])
        /\ stack' = IF Follows(topology[l]) THEN Append(NextFun, Frame(b)) ELSE NextFun
    BY <1>1, <1>9, Looked DEF RecordFun, Enter, npcidev
  <2>2. Ahead(here, l)
    BY <1>2 DEF Ahead, At, Loc
  <2> HIDE DEF l
  <2>3. /\ Len(pcidevs') = Len(pcidevs) + 1 /\ \A j \in 1 .. Len(pcidevs) : pcidevs'[j] = pcidevs[j]
        /\ pcidevs'[Len(pcidevs) + 1] = [loc |-> l, hdr |-> topology[l]]
    <3> DEFINE R == Records \cup {[loc |-> l, hdr |-> topology[l]]}
    <3>1. pcidevs \in Seq(R) /\ [loc |-> l, hdr |-> topology[l]] \in R
      BY <1>1 DEF PciTypes
    <3> HIDE DEF R
    <3> QED BY <2>1, <3>1, AppendProperties
  <2>4. /\ Len(NextFun) = n /\ NextFun[n] = next /\ \A k \in 1 .. n - 1 : NextFun[k] = stack[k]
        /\ Len(Append(NextFun, Frame(b))) = n + 1 /\ Append(NextFun, Frame(b))[n + 1] = Frame(b)
        /\ \A k \in 1 .. n : Append(NextFun, Frame(b))[k] = NextFun[k]
    BY <1>2, <1>6, Tops DEF ReplaceTop, n
  <2>5. /\ \A k \in 1 .. n - 1 : stack'[k] = stack[k]
        /\ stack'[n] = next
        /\ IF Follows(topology[l]) THEN Len(stack') = n + 1 /\ stack'[n + 1] = Frame(b)
                                   ELSE Len(stack') = n
    <3>1. n \in 1 .. n /\ \A k \in 1 .. n - 1 : k \in 1 .. n
      BY <1>2
    <3> QED BY <2>1, <2>4, <3>1
  <2>6. \A loc \in VisibleIn(topology) : Ahead(next, loc) <=> Ahead(here, loc) /\ loc # l
    BY <1>6 DEF l
  <2>7. Enlists(topology, stack, pcidevs, stack', pcidevs', l)
    BY <1>2, <1>6, <2>1, <2>2, <2>3, <2>5, <2>6 DEF Enlists, n
  <2> QED BY <1>1, <2>1, <2>7, ScanRecords
<1>10. CASE Overrun
  <2> DEFINE l == At(here.fun)
  <2>1. l \in VisibleIn(topology) /\ Len(pcidevs) = NPCIDEV /\ UNCHANGED <<stack, pcidevs>>
    BY <1>1, <1>10, Looked DEF Overrun, npcidev
  <2>2. Ahead(here, l) /\ l[1] = here.bus
    BY <1>2 DEF Ahead, At, Loc
  <2> HIDE DEF l
  <2>3. l[1] \in AwayIn(topology)[NPCIDEV]
    <3>1. n - 1 \in 0 .. NPCIDEV /\ n \in 1 .. n /\ here.bus \in AwayIn(topology)[n - 1]
      BY <1>1, <1>2, <2>1, PciPlaces DEF Scanned, Sound, n
    <3> QED BY <2>2, <3>1, AwayGrows
  <2>4. ASSUME NumberedIn(topology) PROVE ~IsFound(pcidevs, l)
    <3>1. n \in 1 .. Len(stack)
      BY <1>2 DEF n
    <3> QED BY <1>1, <1>2, <2>2, <2>4, <3>1 DEF Scanned, Once, IsFound
  <2> QED BY <1>1, <2>1, <2>3, <2>4 DEF Left
<1>11. CASE EndDev
  <2>1. /\ here.dev < NDEV_PER_BUS /\ here.nfun # 0 /\ here.fun = here.nfun
        /\ stack' = NextDev /\ UNCHANGED <<pcidevs, scan>>
    BY <1>11 DEF EndDev, AtDevice
  <2>2. \A loc \in VisibleIn(topology) : Ahead(here, loc) => loc[2] # here.dev
    <3> SUFFICES ASSUME NEW loc \in VisibleIn(topology), loc[1] = here.bus, loc[2] = here.dev,
                        loc[3] >= here.fun
                 PROVE  FALSE
      BY <1>1, <1>2 DEF Ahead, Places
    <3>1. loc \in Places /\ loc[3] < NFUN_PER_DEV /\ loc[3] # 0
      BY <1>1, <1>2, <2>1, PciPlaces DEF Places
    <3>2. topology[Loc(here.bus, here.dev, 0)].multi
      BY <3>1 DEF VisibleIn
    <3>3. here.nfun = NFUN_PER_DEV
      BY <1>2, <2>1, <3>2 DEF Counts, Functions
    <3> QED BY <2>1, <3>1, <3>3, PciPlaces DEF Places
  <2> QED BY <1>1, <1>5, <2>1, <2>2
<1>12. CASE EndBus
  <2>1. here.dev = NDEV_PER_BUS /\ stack' = Front(stack) /\ UNCHANGED pcidevs /\ scan' # "overrun"
    BY <1>12 DEF EndBus
  <2>2. \A loc \in VisibleIn(topology) : ~Ahead(here, loc)
    BY <1>1, <2>1, PciPlaces DEF Ahead, Places
  <2>3. Len(Front(stack)) = n - 1 /\ \A k \in 1 .. n - 1 : Front(stack)[k] = stack[k]
    BY <1>2, Tops DEF n
  <2>4. GoesBack(topology, stack, stack')
    BY <1>2, <2>1, <2>2, <2>3 DEF GoesBack, n
  <2> QED BY <1>1, <2>1, <2>4, ScanGoesBack
<1> QED BY <1>7, <1>8, <1>9, <1>10, <1>11, <1>12 DEF ScanInv, pci_prob_dev


LEMMA ScanAlways == Spec => [](PciTypes /\ ScanInv)
<1>1. ASSUME Init PROVE ScanInv
  <2> USE <1>1 DEF Init, PciInit
  <2>1. Len(stack) = 1 /\ stack[1] = Frame(0) /\ Len(pcidevs) = 0 /\ 1 .. 0 = {}
    OBVIOUS
  <2>2. Frame(0).bus = 0 /\ Frame(0).dev = 0 /\ Frame(0).fun = 0 /\ Frame(0).nfun = 0
    BY DEF Frame
  <2>3. Listed(topology, pcidevs)
    BY <2>1 DEF Listed
  <2>4. Complete(topology, stack, pcidevs)
    <3> SUFFICES ASSUME NEW loc \in VisibleIn(topology), loc[1] = 0
                 PROVE  Ahead(stack[1], loc)
      BY <2>1 DEF Complete, IsStarted
    <3>1. loc \in Places
      BY AddressTypes DEF VisibleIn, Places
    <3> QED BY <2>1, <2>2, <3>1, PciPlaces DEF Ahead, Places
  <2>5. Sound(topology, stack, pcidevs)
    BY <2>1, <2>2, AwayRun, PciPlaces DEF Sound
  <2>6. Once(stack, pcidevs)
    BY <2>1, <2>2 DEF Once, IsStarted
  <2>7. \A k \in 1 .. Len(stack) : Counts(topology, stack[k])
    BY <2>1, <2>2 DEF Counts
  <2> QED BY <2>1, <2>3, <2>4, <2>5, <2>6, <2>7 DEF ScanInv, Scanned
<1>2. ASSUME PciTypes, ScanInv, [Next]_startVars PROVE ScanInv'
  <2>1. CASE Scan
    <3>1. UNCHANGED topology
      BY <2>1 DEF Scan, pci_prob_dev, ProbeDev, SkipFun, RecordFun, Overrun, EndDev, EndBus
    <3> QED BY <1>2, <2>1, <3>1, ScanStep DEF Scan, ScanInv
  <2>2. CASE pci_list \/ Refuse \/ StartIde \/ Disks(IdeNext) \/ UNCHANGED startVars
    <3>1. UNCHANGED <<topology, stack, pcidevs, scan>>
      BY <2>2 DEF pci_list, Refuse, StartIde, Disks, startVars, pciVars
    <3> QED BY <1>2, <3>1 DEF ScanInv
  <2> QED BY <1>2, <2>1, <2>2 DEF Next
<1> QED BY <1>1, <1>2, PciTypesHold, PTL DEF Spec

\* A scan that is at its end has found everything on the buses that can be
\* reached.
LEMMA AllFound ==
  ASSUME NEW t, NEW stk, NEW tab, Scanned(t, stk, tab), Len(stk) = 0,
         NEW loc \in VisibleIn(t), loc[1] \in AwayIn(t)[NPCIDEV]
  PROVE  IsFound(tab, loc)
<1> DEFINE S == {n \in Nat : n <= NPCIDEV => \A b \in AwayIn(t)[n] : IsStarted(tab, b)}
<1>1. 0 \in S
  BY AwayRun DEF IsStarted
<1>2. \A x \in VisibleIn(t) : IsStarted(tab, x[1]) => IsFound(tab, x)
  BY DEF Scanned, Complete
<1>3. ASSUME NEW n \in Nat, n \in S PROVE n + 1 \in S
  <2> SUFFICES ASSUME n + 1 <= NPCIDEV, NEW b \in AwayIn(t)[n + 1] PROVE IsStarted(tab, b)
    OBVIOUS
  <2>1. n + 1 \in 1 .. NPCIDEV /\ (n + 1) - 1 = n /\ \A c \in AwayIn(t)[n] : IsStarted(tab, c)
    BY <1>3, PciPlaces
  <2>2. b \in Reached(t, AwayIn(t)[n])
    BY <2>1, AwayRun
  <2>3. CASE b \in AwayIn(t)[n]
    BY <2>1, <2>3
  <2>4. ASSUME NEW m \in VisibleIn(t), Follows(t[m]), m[1] \in AwayIn(t)[n], b = t[m].secondary
        PROVE  IsStarted(tab, b)
    <3>1. PICK j \in 1 .. Len(tab) : tab[j].loc = m
      BY <1>2, <2>1, <2>4 DEF IsFound
    <3> QED BY <2>4, <3>1 DEF Scanned, Listed, IsStarted
  <2> QED BY <2>2, <2>3, <2>4 DEF Reached
<1> HIDE DEF S
<1>4. NPCIDEV \in S
  BY <1>1, <1>3, NatSetInduction, PciPlaces
<1>5. IsStarted(tab, loc[1])
  BY <1>4, PciPlaces DEF S
<1> QED BY <1>2, <1>5

LEMMA ScanIsRight == ASSUME PciTypes, ScanInv PROVE FoundOnce
<1>1. Visible = VisibleIn(topology) /\ Away = AwayIn(topology) /\ Numbered = NumberedIn(topology)
  BY Views
<1>2. /\ npcidev = Len(pcidevs) /\ Scanned(topology, stack, pcidevs)
      /\ Len(pcidevs) \in Nat
  BY DEF npcidev, ScanInv, Scanned
<1>3. \A loc : loc \in Found <=> IsFound(pcidevs, loc)
  <2>1. DOMAIN pcidevs = 1 .. Len(pcidevs)
    BY DEF PciTypes
  <2> QED BY <2>1 DEF Found, Range, IsFound
<1>4. \A loc : loc \in Expected <=> loc \in VisibleIn(topology) /\ loc[1] \in AwayIn(topology)[NPCIDEV]
  BY <1>1 DEF Expected
<1>5. Found \subseteq Expected
  BY <1>2, <1>3, <1>4 DEF Scanned, Listed, Sound, IsFound
<1>6. ASSUME scan = "done" PROVE Expected \subseteq Found
  <2>1. Len(stack) = 0
    BY <1>6, EmptySeq DEF PciTypes
  <2> QED BY <1>2, <1>3, <1>4, <2>1, AllFound
<1>7. ASSUME Numbered PROVE \A i, j \in 1 .. npcidev : i # j => pcidevs[i].loc # pcidevs[j].loc
  BY <1>1, <1>2, <1>7 DEF Scanned, Once
<1>8. ASSUME Numbered, scan = "overrun" PROVE Expected \ Found # {}
  BY <1>1, <1>3, <1>4, <1>8 DEF ScanInv, Left
<1> QED BY <1>5, <1>6, <1>7, <1>8 DEF FoundOnce

\* The scan finds what is on the buses that it follows, none of it twice unless
\* two bridges lead there, and leaves its table only when the machine has more
\* than there are places.
THEOREM EverythingFound == Spec => []FoundOnce
BY ScanAlways, ScanIsRight, PTL

-----------------------------------------------------------------------------
(***************************************************************************)
(* The controller.                                                         *)
(***************************************************************************)

\* The list is printed after the scan; the driver runs if the controller that
\* was found is the right one, and the machine stops if not.
Checked ==
  /\ stage # "pci" => scan = "done"
  /\ stage = "ide" => Compatible
  /\ stage = "panic" => ~Compatible
  /\ phase # "off" => stage = "ide"

LEMMA CheckedAlways == Spec => []Checked
<1>1. ASSUME Init PROVE Checked
  BY <1>1 DEF Init, PciInit, IdeInit, Checked
<1>2. ASSUME Checked, [Next]_startVars PROVE Checked'
  <2>1. UNCHANGED <<topology, pcidevs>> => Compatible' = Compatible
    BY DEF Compatible, idedev, pci_get_dev, SelectInSeq, Min, Native
  <2> USE <1>2 DEF Checked
  <2>2. CASE Scan
    BY <2>2 DEF Scan, ideVars
  <2>3. CASE pci_list
    BY <2>3 DEF pci_list, ideVars, pciVars
  <2>4. CASE Refuse
    BY <2>1, <2>4 DEF Refuse, ideVars, pciVars
  <2>5. CASE StartIde
    BY <2>1, <2>5 DEF StartIde, pciVars
  <2>6. CASE Disks(IdeNext)
    BY <2>1, <2>6 DEF Disks, pciVars
  <2>7. CASE UNCHANGED startVars
    BY <2>1, <2>7 DEF startVars, pciVars, ideVars
  <2> QED BY <1>2, <2>2, <2>3, <2>4, <2>5, <2>6, <2>7 DEF Next
<1> QED BY <1>1, <1>2, PTL DEF Spec

\* pci_get_dev(): a place in the table with the function asked for, if there
\* is one.
LEMMA Got ==
  ASSUME NEW v, NEW d, Len(pcidevs) \in Nat
  PROVE  LET k == pci_get_dev(v, d) + 1
             Is(p) == p.hdr.vendorid = v /\ p.hdr.deviceid = d
         IN  /\ k \in Nat /\ pci_get_dev(v, d) = k - 1
             /\ k # 0 => k \in 1 .. Len(pcidevs) /\ Is(pcidevs[k])
             /\ (\E j \in 1 .. Len(pcidevs) : Is(pcidevs[j])) => k # 0
<1> DEFINE I == {i \in 1 .. Len(pcidevs) : pcidevs[i].hdr.vendorid = v /\ pcidevs[i].hdr.deviceid = d}
<1>1. pci_get_dev(v, d) = (IF I # {} THEN Min(I) ELSE 0) - 1
  BY DEF pci_get_dev, SelectInSeq
<1>2. ASSUME I # {} PROVE Min(I) \in I
  <2> DEFINE S == {n \in Nat : \A T \in SUBSET (1 .. n) : T # {} => \E x \in T : \A y \in T : x <= y}
  <2>1. 0 \in S
    <3>1. 1 .. 0 = {}
      OBVIOUS
    <3> QED BY <3>1
  <2>2. ASSUME NEW n \in Nat, n \in S PROVE n + 1 \in S
    <3> SUFFICES ASSUME NEW T \in SUBSET (1 .. n + 1), T # {} PROVE \E x \in T : \A y \in T : x <= y
      OBVIOUS
    <3>1. CASE T \ {n + 1} = {}
      <4>1. \A x \in T : x = n + 1
        BY <3>1
      <4>2. PICK z \in T : TRUE
        OBVIOUS
      <4>3. z = n + 1 /\ n + 1 <= n + 1
        BY <4>1
      <4> QED BY <4>1, <4>2, <4>3
    <3>2. CASE T \ {n + 1} # {}
      <4>1. T \ {n + 1} \in SUBSET (1 .. n)
        OBVIOUS
      <4>2. PICK x \in T \ {n + 1} : \A y \in T \ {n + 1} : x <= y
        BY <2>2, <3>2, <4>1
      <4> QED BY <4>1, <4>2
    <3> QED BY <3>1, <3>2
  <2> HIDE DEF S
  <2>3. Len(pcidevs) \in S
    BY <2>1, <2>2, NatSetInduction
  <2>4. \E x \in I : \A y \in I : x <= y
    BY <1>2, <2>3 DEF S
  <2> HIDE DEF I
  <2> QED BY <2>4 DEF Min
<1>3. I \subseteq 1 .. Len(pcidevs)
  OBVIOUS
<1>4. \A j \in 1 .. Len(pcidevs) :
        j \in I <=> pcidevs[j].hdr.vendorid = v /\ pcidevs[j].hdr.deviceid = d
  OBVIOUS
<1>5. (\E j \in 1 .. Len(pcidevs) : pcidevs[j].hdr.vendorid = v /\ pcidevs[j].hdr.deviceid = d) => I # {}
  OBVIOUS
<1> DEFINE m == IF I # {} THEN Min(I) ELSE 0
<1>6. m \in Nat /\ m <= Len(pcidevs) /\ (m # 0 => m \in I) /\ (I # {} => m # 0)
  <2> HIDE DEF I
  <2>1. CASE I # {}
    <3> DEFINE x == Min(I)
    <3>1. x \in I /\ x \in 1 .. Len(pcidevs)
      BY <1>2, <1>3, <2>1
    <3>2. m = x
      BY <2>1
    <3> HIDE DEF x, m
    <3> QED BY <3>1, <3>2
  <2>2. CASE I = {}
    <3>1. m = 0
      BY <2>2
    <3> HIDE DEF m
    <3> QED BY <2>2, <3>1
  <2> QED BY <2>1, <2>2
<1> HIDE DEF I, m
<1>7. pci_get_dev(v, d) = m - 1
  BY <1>1 DEF m
<1>8. m - 1 + 1 = m
  BY <1>6
<1> QED BY <1>3, <1>4, <1>5, <1>6, <1>7, <1>8

LEMMA ControllerIsRight ==
  ASSUME PciTypes, ScanInv, FoundOnce, Checked
  PROVE  OnlyOnController
<1> DEFINE Is(hdr) == hdr.vendorid = 32902 /\ hdr.deviceid = 28688
           Ctl0 == {loc \in Expected : topology[loc].vendorid = 32902 /\ topology[loc].deviceid = 28688}
           k == idedev + 1
<1>1. Len(pcidevs) \in Nat /\ \A j \in 1 .. Len(pcidevs) : pcidevs[j].hdr = topology[pcidevs[j].loc]
  BY DEF ScanInv, Scanned, Listed
<1>2. DOMAIN pcidevs = 1 .. Len(pcidevs)
  BY DEF PciTypes
<1>3. /\ k # 0 => k \in 1 .. Len(pcidevs) /\ Is(pcidevs[k].hdr)
      /\ (\E j \in 1 .. Len(pcidevs) : Is(pcidevs[j].hdr)) => k # 0
  BY <1>1, Got DEF idedev
<1>10. k \in Nat /\ idedev = k - 1
  BY <1>1, Got DEF idedev
<1> HIDE DEF k
<1>4. Compatible <=> k # 0 /\ ~Native(pcidevs[k].hdr.progif)
  <2>1. idedev # -1 <=> k # 0
    BY <1>10
  <2> QED BY <2>1 DEF Compatible, k
<1>5. ASSUME scan = "done", k # 0
      PROVE  pcidevs[k].loc \in Ctl0 /\ pcidevs[k].hdr = topology[pcidevs[k].loc]
  BY <1>1, <1>2, <1>3, <1>5 DEF FoundOnce, Found, Range
<1>6. ASSUME scan = "done", NEW loc \in Ctl0 PROVE k # 0
  <2>1. PICK j \in 1 .. Len(pcidevs) : pcidevs[j].loc = loc
    BY <1>2, <1>6 DEF FoundOnce, Found, Range
  <2> QED BY <1>1, <1>3, <1>6, <2>1
<1>7. \A x : Native(x) <=> x \cap {0, 2} # {}
  BY DEF Native
<1>8. ASSUME phase # "off" PROVE \E loc \in Ctl0 : ~(topology[loc].progif \cap {0, 2} # {})
  BY <1>4, <1>5, <1>7, <1>8 DEF Checked
<1>9. ASSUME stage = "panic", Ctl0 # {} PROVE \E loc \in Ctl0 : topology[loc].progif \cap {0, 2} # {}
  BY <1>4, <1>5, <1>6, <1>7, <1>9 DEF Checked
<1> QED BY <1>8, <1>9 DEF OnlyOnController

\* The disk driver runs only on a machine that has the controller at the ports
\* that it uses, and only a machine without is refused.
THEOREM RightController == Spec => []OnlyOnController
BY ScanAlways, ScanIsRight, CheckedAlways, ControllerIsRight, PTL
-----------------------------------------------------------------------------
(***************************************************************************)
(* The start of stage 2 comes to its end: what is left to do is a number,  *)
(* and every step makes it smaller.                                        *)
(***************************************************************************)

\* A digit more outweighs the digits behind it.
LEMMA Digit ==
  ASSUME NEW a \in Nat, NEW b \in Nat, NEW n \in Nat, NEW x \in Nat, NEW y \in Nat, x < n
  PROVE  /\ a < b => a * n + x < b * n + y
         /\ a = b /\ x < y => a * n + x < b * n + y
         /\ a = b /\ x = y => a * n + x = b * n + y
         /\ a * n + x \in Nat
<1>1. ASSUME a < b PROVE a * n + n <= b * n
  <2>1. a + 1 <= b
    BY <1>1
  <2> QED BY <2>1
<1>2. PICK p \in Nat, q \in Nat : p = a * n /\ q = b * n
  OBVIOUS
<1>3. a = b => p = q
  BY <1>2
<1>4. a < b => p + n <= q
  BY <1>1, <1>2
<1> QED BY <1>2, <1>3, <1>4

\* Numbers of five digits.
LEMMA Digits ==
  ASSUME NEW n \in Nat,
         NEW a \in Nat, NEW b \in Nat, NEW c \in Nat, NEW d \in Nat, NEW e \in Nat,
         NEW p \in Nat, NEW q \in Nat, NEW r \in Nat, NEW s \in Nat, NEW t \in Nat,
         q < n, r < n, s < n, t < n,
         \/ p < a
         \/ p = a /\ q < b
         \/ p = a /\ q = b /\ r < c
         \/ p = a /\ q = b /\ r = c /\ s < d
         \/ p = a /\ q = b /\ r = c /\ s = d /\ t < e
  PROVE  (((p * n + q) * n + r) * n + s) * n + t < (((a * n + b) * n + c) * n + d) * n + e
<1>1. PICK p1 \in Nat, a1 \in Nat : p1 = p * n + q /\ a1 = a * n + b
  OBVIOUS
<1>2. PICK p2 \in Nat, a2 \in Nat : p2 = p1 * n + r /\ a2 = a1 * n + c
  OBVIOUS
<1>3. PICK p3 \in Nat, a3 \in Nat : p3 = p2 * n + s /\ a3 = a2 * n + d
  OBVIOUS
<1>4. PICK p4 \in Nat, a4 \in Nat : p4 = p3 * n + t /\ a4 = a3 * n + e
  OBVIOUS
<1>5. /\ (p < a => p1 < a1) /\ (p = a /\ q < b => p1 < a1)
      /\ (p = a /\ q = b => p1 = a1)
  BY <1>1, Digit
<1>6. /\ (p1 < a1 => p2 < a2) /\ (p1 = a1 /\ r < c => p2 < a2)
      /\ (p1 = a1 /\ r = c => p2 = a2)
  BY <1>2, Digit
<1>7. /\ (p2 < a2 => p3 < a3) /\ (p2 = a2 /\ s < d => p3 < a3)
      /\ (p2 = a2 /\ s = d => p3 = a3)
  BY <1>3, Digit
<1>8. /\ (p3 < a3 => p4 < a4) /\ (p3 = a3 /\ t < e => p4 < a4)
  BY <1>4, Digit
<1>9. p4 < a4
  BY <1>5, <1>6, <1>7, <1>8
<1>10. /\ p4 = (((p * n + q) * n + r) * n + s) * n + t
       /\ a4 = (((a * n + b) * n + c) * n + d) * n + e
  BY <1>1, <1>2, <1>3, <1>4, Zenon
<1> QED BY <1>9, <1>10

\* The scan has entered no more buses than it has recorded functions, and bus 0.
Deep == Len(stack) <= npcidev + 1

\* The digits of ScanLeft.
ScanDigits ==
  scan = "scan" => /\ NPCIDEV - npcidev \in 0 .. NPCIDEV /\ Len(stack) \in 1 .. NPCIDEV + 1
                   /\ NDEV_PER_BUS - here.dev \in 0 .. NDEV_PER_BUS
                   /\ LookLeft \in 0 .. NFUN_PER_DEV + 1
                   /\ npcidev \in Nat /\ here.dev \in Nat

LEMMA ScanDigitsHold == PciTypes /\ ScanInv /\ Deep => ScanDigits
<1> SUFFICES ASSUME PciTypes, ScanInv, Deep, scan = "scan" PROVE ScanDigits
  BY DEF ScanDigits
<1>1. /\ Len(stack) \in Nat \ {0} /\ here.dev \in 0 .. NDEV_PER_BUS
      /\ here.fun \in 0 .. NFUN_PER_DEV /\ here.nfun \in {0, 1, NFUN_PER_DEV}
      /\ here.fun <= here.nfun
  BY Here DEF ScanInv
<1>2. npcidev \in 0 .. NPCIDEV
  BY PciPlaces DEF PciTypes, npcidev
<1>3. /\ NPCIDEV - npcidev \in 0 .. NPCIDEV /\ Len(stack) \in 1 .. NPCIDEV + 1
      /\ NDEV_PER_BUS - here.dev \in 0 .. NDEV_PER_BUS
  BY <1>1, <1>2, PciPlaces DEF Deep
<1>4. LookLeft \in 0 .. NFUN_PER_DEV + 1
  BY <1>1, PciPlaces DEF LookLeft
<1> QED BY <1>1, <1>2, <1>3, <1>4 DEF ScanDigits

LEMMA ScanNat == ScanDigits => ScanLeft \in Nat
<1> SUFFICES ASSUME ScanDigits, scan = "scan" PROVE ScanLeft \in Nat
  BY DEF ScanLeft
<1> DEFINE n == NPCIDEV + NDEV_PER_BUS + NFUN_PER_DEV + 2
           b == NPCIDEV - npcidev
           c == Len(stack)
           d == NDEV_PER_BUS - here.dev
           e == LookLeft
<1>1. n \in Nat /\ b \in Nat /\ c \in Nat /\ d \in Nat /\ e \in Nat
  BY PciPlaces DEF ScanDigits
<1>2. ScanLeft = ((b * n + c) * n + d) * n + e + 1
  BY DEF ScanLeft
<1> HIDE DEF n, b, c, d, e
<1>3. ((b * n + c) * n + d) * n + e + 1 \in Nat
  BY <1>1
<1> QED BY <1>2, <1>3

LEMMA ScanFalls ==
  ASSUME ScanDigits, ScanDigits', scan = "scan",
         \/ scan' # "scan"
         \/ npcidev' > npcidev
         \/ npcidev' = npcidev /\ Len(stack') < Len(stack)
         \/ npcidev' = npcidev /\ Len(stack') = Len(stack) /\ here'.dev > here.dev
         \/ /\ npcidev' = npcidev /\ Len(stack') = Len(stack) /\ here'.dev = here.dev
            /\ LookLeft' < LookLeft
  PROVE  ScanLeft' < ScanLeft
<1> DEFINE n == NPCIDEV + NDEV_PER_BUS + NFUN_PER_DEV + 2
           b == NPCIDEV - npcidev    q == NPCIDEV - npcidev'
           c == Len(stack)           r == Len(stack')
           d == NDEV_PER_BUS - here.dev    s == NDEV_PER_BUS - here'.dev
           e == LookLeft             t == LookLeft'
<1>1. n \in Nat /\ b \in Nat /\ c \in Nat /\ d \in Nat /\ e \in Nat
  BY PciPlaces DEF ScanDigits
<1>2. ScanLeft = ((b * n + c) * n + d) * n + e + 1
  BY DEF ScanLeft
<1>3. scan' = "scan" => ScanLeft' = ((q * n + r) * n + s) * n + t + 1
  BY DEF ScanLeft
<1>4. scan' # "scan" => ScanLeft' = 0
  BY DEF ScanLeft
<1>5. ASSUME scan' = "scan"
      PROVE  /\ q \in Nat /\ r \in Nat /\ s \in Nat /\ t \in Nat
             /\ q < n /\ r < n /\ s < n /\ t < n
             /\ \/ q < b
                \/ q = b /\ r < c
                \/ q = b /\ r = c /\ s < d
                \/ q = b /\ r = c /\ s = d /\ t < e
  <2>1. /\ q \in 0 .. NPCIDEV /\ r \in 1 .. NPCIDEV + 1 /\ s \in 0 .. NDEV_PER_BUS
        /\ t \in 0 .. NFUN_PER_DEV + 1
        /\ npcidev \in Nat /\ npcidev' \in Nat /\ here.dev \in Nat /\ here'.dev \in Nat
    BY <1>5 DEF ScanDigits
  <2>2. q < n /\ r < n /\ s < n /\ t < n
    <3> HIDE DEF q, r, s, t
    <3> QED BY <2>1, PciPlaces
  <2>3. npcidev' > npcidev => q < b
    <3>1. \A x, y \in Nat : x > y => NPCIDEV - x < NPCIDEV - y
      BY PciPlaces
    <3> QED BY <2>1, <3>1
  <2>4. npcidev' = npcidev => q = b
    OBVIOUS
  <2>5. here'.dev > here.dev => s < d
    <3>1. \A x, y \in Nat : x > y => NDEV_PER_BUS - x < NDEV_PER_BUS - y
      BY PciPlaces
    <3> QED BY <2>1, <3>1
  <2>6. here'.dev = here.dev => s = d
    OBVIOUS
  <2>7. q \in Nat /\ r \in Nat /\ s \in Nat /\ t \in Nat
    <3> HIDE DEF q, r, s, t
    <3> QED BY <2>1, PciPlaces
  <2> HIDE DEF q, s, b, d
  <2> QED BY <1>5, <2>2, <2>3, <2>4, <2>5, <2>6, <2>7
<1> HIDE DEF n, b, c, d, e, q, r, s, t
<1>6. ((b * n + c) * n + d) * n + e \in Nat
  BY <1>1
<1>7. CASE scan' # "scan"
  BY <1>2, <1>4, <1>6, <1>7
<1>8. CASE scan' = "scan"
  <2>1. ((((0 * n + q) * n + r) * n + s) * n + t) < ((((0 * n + b) * n + c) * n + d) * n + e)
    BY <1>1, <1>5, <1>8, Digits, ZenonT(60)
  <2>2. 0 * n + q = q /\ 0 * n + b = b
    BY <1>1, <1>5, <1>8
  <2>3. ((q * n + r) * n + s) * n + t < ((b * n + c) * n + d) * n + e
    BY <2>1, <2>2
  <2>4. ((q * n + r) * n + s) * n + t \in Nat
    <3>1. q \in Nat /\ r \in Nat /\ s \in Nat /\ t \in Nat
      BY <1>5, <1>8
    <3> QED BY <1>1, <3>1
  <2>5. PICK v \in Nat, w \in Nat : /\ v = ((q * n + r) * n + s) * n + t
                                    /\ w = ((b * n + c) * n + d) * n + e
    BY <1>6, <2>4
  <2> QED BY <1>2, <1>3, <1>8, <2>3, <2>5
<1> QED BY <1>7, <1>8

\* How a step of the scan moves on.
LEMMA ScanMoves ==
  ASSUME PciTypes, ScanInv, Deep, pci_prob_dev
  PROVE  /\ scan = "scan" /\ Deep'
         /\ \/ scan' # "scan"
            \/ npcidev' > npcidev
            \/ npcidev' = npcidev /\ Len(stack') < Len(stack)
            \/ npcidev' = npcidev /\ Len(stack') = Len(stack) /\ here'.dev > here.dev
            \/ /\ npcidev' = npcidev /\ Len(stack') = Len(stack) /\ here'.dev = here.dev
               /\ LookLeft' < LookLeft
<1> DEFINE n == Len(stack)
<1>1. scan = "scan"
  BY DEF pci_prob_dev, ProbeDev, SkipFun, RecordFun, Overrun, EndDev, EndBus, AtFunction, AtDevice
<1>2. /\ stack \in Seq(Frames) /\ n \in Nat \ {0} /\ npcidev \in Nat
      /\ here \in Frames /\ here.dev \in Nat /\ here.fun \in Nat
      /\ here.nfun \in {0, 1, NFUN_PER_DEV}
      /\ here = [bus |-> here.bus, dev |-> here.dev, fun |-> here.fun, nfun |-> here.nfun]
  BY <1>1, Here, PciPlaces DEF ScanInv, PciTypes, npcidev
<1>3. ASSUME NEW g PROVE /\ Len(ReplaceTop(g)) = n /\ Last(ReplaceTop(g)) = g
                         /\ \A h : Len(Append(ReplaceTop(g), h)) = n + 1
  <2>1. Len(ReplaceTop(g)) = n /\ ReplaceTop(g)[n] = g
    BY <1>2, Tops DEF ReplaceTop
  <2>2. \A h : Len(Append(ReplaceTop(g), h)) = n + 1
    BY <1>2, Tops DEF ReplaceTop
  <2> QED BY <2>1, <2>2 DEF Last
<1>4. Len(Front(stack)) = n - 1
  BY <1>2, Tops
<1> HIDE DEF n
<1>5. CASE ProbeDev
  <2>1. here.nfun = 0 /\ pcidevs' = pcidevs /\ scan' = scan
    BY <1>5 DEF ProbeDev
  <2>2. CASE Responds(At(0))
    <3>1. stack' = ReplaceTop([here EXCEPT !.nfun = Functions(Header(At(0)))])
      BY <1>5, <2>2 DEF ProbeDev
    <3>2. here' = [here EXCEPT !.nfun = Functions(Header(At(0)))] /\ Len(stack') = n
      BY <1>3, <3>1 DEF here
    <3>3. here'.dev = here.dev /\ here'.fun = here.fun /\ here'.nfun \in {1, NFUN_PER_DEV}
      BY <1>2, <3>2 DEF Functions
    <3>4. LookLeft' < LookLeft
      BY <1>2, <2>1, <3>3, PciPlaces DEF LookLeft
    <3> QED BY <1>1, <2>1, <3>2, <3>3, <3>4 DEF npcidev, Deep, n
  <2>3. CASE ~Responds(At(0))
    <3>1. stack' = NextDev
      BY <1>5, <2>3 DEF ProbeDev
    <3>2. here' = [Frame(here.bus) EXCEPT !.dev = here.dev + 1] /\ Len(stack') = n
      BY <1>3, <3>1 DEF here, NextDev
    <3>3. here'.dev = here.dev + 1
      BY <3>2 DEF Frame
    <3> QED BY <1>1, <1>2, <2>1, <3>2, <3>3 DEF npcidev, Deep, n
  <2> QED BY <2>2, <2>3
<1>6. here.fun < here.nfun => /\ Last(NextFun).dev = here.dev
                              /\ Last(NextFun).fun = here.fun + 1
                              /\ Last(NextFun).nfun = here.nfun /\ Len(NextFun) = n
                              /\ \A h : Len(Append(NextFun, h)) = n + 1
  <2>1. [here EXCEPT !.fun = @ + 1]
          = [bus |-> here.bus, dev |-> here.dev, fun |-> here.fun + 1, nfun |-> here.nfun]
    BY <1>2
  <2> QED BY <1>3, <2>1 DEF NextFun
<1>7. CASE SkipFun
  <2>1. here.fun < here.nfun /\ stack' = NextFun /\ pcidevs' = pcidevs /\ scan' = scan
    BY <1>7 DEF SkipFun, AtFunction
  <2>2. /\ here'.dev = here.dev /\ here'.fun = here.fun + 1 /\ here'.nfun = here.nfun
        /\ Len(stack') = n
    BY <1>6, <2>1 DEF here
  <2>3. LookLeft' < LookLeft
    BY <1>2, <2>1, <2>2, PciPlaces DEF LookLeft
  <2> QED BY <1>1, <2>1, <2>2, <2>3 DEF npcidev, Deep, n
<1>8. CASE RecordFun
  <2>1. here.fun < here.nfun /\ scan' = scan
    BY <1>8 DEF RecordFun, AtFunction
  <2>2. npcidev' = npcidev + 1
    BY <1>8 DEF RecordFun, npcidev, PciTypes
  <2>3. Len(stack') \in {n, n + 1}
    <3>1. \/ stack' = NextFun
          \/ \E h : stack' = Append(NextFun, h)
      BY <1>8 DEF RecordFun, Enter
    <3> QED BY <1>6, <2>1, <3>1
  <2> QED BY <1>1, <1>2, <2>2, <2>3 DEF Deep, n
<1>9. CASE Overrun
  <2>1. scan' = "overrun" /\ stack' = stack /\ pcidevs' = pcidevs
    BY <1>9 DEF Overrun
  <2> QED BY <1>1, <2>1 DEF Deep, npcidev
<1>10. CASE EndDev
  <2>1. stack' = NextDev /\ pcidevs' = pcidevs /\ scan' = scan
    BY <1>10 DEF EndDev
  <2>2. here' = [Frame(here.bus) EXCEPT !.dev = here.dev + 1] /\ Len(stack') = n
    BY <1>3, <2>1 DEF here, NextDev
  <2>3. here'.dev = here.dev + 1
    BY <2>2 DEF Frame
  <2> QED BY <1>1, <1>2, <2>1, <2>2, <2>3 DEF npcidev, Deep, n
<1>11. CASE EndBus
  <2>1. stack' = Front(stack) /\ pcidevs' = pcidevs
    BY <1>11 DEF EndBus
  <2>2. Len(stack') = n - 1
    BY <1>4, <2>1
  <2> QED BY <1>1, <1>2, <2>1, <2>2 DEF npcidev, Deep, n
<1> QED BY <1>5, <1>7, <1>8, <1>9, <1>10, <1>11 DEF pci_prob_dev

LEMMA ScanStays ==
  [Next]_startVars => pci_prob_dev \/ UNCHANGED pciVars
BY DEF Next, startVars, Scan, pci_list, Refuse, StartIde, Disks

LEMMA DeepAlways == Spec => []Deep
<1>1. Init => Deep
  BY DEF Init, PciInit, Deep, npcidev
<1>2. PciTypes /\ ScanInv /\ Deep /\ [Next]_startVars => Deep'
  <2> SUFFICES ASSUME PciTypes, ScanInv, Deep, pci_prob_dev \/ UNCHANGED pciVars PROVE Deep'
    BY ScanStays
  <2>1. CASE pci_prob_dev
    BY <2>1, ScanMoves
  <2>2. CASE UNCHANGED pciVars
    BY <2>2 DEF pciVars, Deep, npcidev
  <2> QED BY <2>1, <2>2
<1> QED BY <1>1, <1>2, ScanAlways, PTL DEF Spec

\* Each step leaves places, entered buses, devices or functions to fewer steps.
LEMMA ScanStepFalls ==
  ASSUME PciTypes, PciTypes', ScanInv, ScanInv', Deep, Deep', pci_prob_dev
  PROVE  ScanLeft' \in 0 .. ScanLeft - 1
<1>1. ScanDigits
  BY ScanDigitsHold
<1>2. ScanDigits'
  BY ScanDigitsHold, PTL
<1>3. ScanLeft' < ScanLeft
  BY <1>1, <1>2, ScanMoves, ScanFalls
<1>4. ScanLeft \in Nat /\ ScanLeft' \in Nat
  <2>1. (ScanDigits => ScanLeft \in Nat)'
    BY ScanNat, PTL
  <2> QED BY <1>1, <1>2, <2>1, ScanNat
<1> QED BY <1>3, <1>4
-----------------------------------------------------------------------------

\* The answer to a command that a read waits for is on its way or there: it is
\* not taken by another command nor lost.
THEOREM AnswersCome == Spec => []AnswerComes
<1>1. IInv => AnswerComes
  BY DEF IInv, Waits, AnswerComes
<1> QED BY <1>1, Invariance, PTL

\* The digits of WaitLeft.
CtlsLeft == CtlLeft(0) + CtlLeft(1)
WaitBase == RETRIES + MAXC + MAXH + 5
WaitDigits ==
  /\ drivenum \in 0 .. 4 /\ 4 - drivenum \in Nat /\ PhaseLeft \in 0 .. 4
  /\ CountLeft \in Nat /\ CountLeft < WaitBase
  /\ IoLeft \in 0 .. 2 /\ CtlLeft(0) \in 0 .. 2 /\ CtlLeft(1) \in 0 .. 2 /\ CtlsLeft \in 0 .. 4

LEMMA WaitDigitsHold == Types => WaitDigits
<1> SUFFICES ASSUME Types PROVE WaitDigits
  OBVIOUS
<1>1. /\ drivenum \in 0 .. 4 /\ retry_cnt \in 0 .. RETRIES
      /\ max_c \in -1 .. MAXC + 1 /\ max_h \in -1 .. MAXH
  BY DEF Types, Driving
<1>2. PhaseLeft \in 0 .. 4
  BY DEF PhaseLeft
<1>3. CountLeft \in Nat /\ CountLeft < WaitBase
  <2>1. CountLeft \in {retry_cnt, MAXC + 1 - max_c, MAXH - max_h, 0}
    BY DEF CountLeft
  <2>2. \A x \in {retry_cnt, MAXC + 1 - max_c, MAXH - max_h, 0} : x \in Nat /\ x < WaitBase
    BY <1>1, IdeAssumption DEF WaitBase
  <2> QED BY <2>1, <2>2
<1>4. IoLeft \in 0 .. 2
  BY DEF IoLeft
<1>5. CtlLeft(0) \in 0 .. 2 /\ CtlLeft(1) \in 0 .. 2
  BY DEF CtlLeft
<1>6. CtlsLeft \in 0 .. 4
  BY <1>5 DEF CtlsLeft
<1> QED BY <1>1, <1>2, <1>3, <1>4, <1>5, <1>6 DEF WaitDigits

LEMMA WaitNat == IInv => WaitLeft \in Nat
<1> SUFFICES ASSUME IInv PROVE WaitLeft \in Nat
  OBVIOUS
<1> DEFINE n == WaitBase
           a == 4 - drivenum
           b == PhaseLeft
           c == CountLeft
           d == IoLeft
           e == CtlLeft(0)
           f == CtlLeft(1)
<1>1. /\ n \in Nat /\ a \in Nat /\ b \in Nat /\ c \in Nat /\ d \in Nat
      /\ e \in Nat /\ f \in Nat
  BY WaitDigitsHold, IdeAssumption DEF IInv, WaitDigits, WaitBase
<1>2. WaitLeft = (((a * n + b) * n + c) * n + d) * n + e + f
  BY DEF WaitLeft, WaitBase
<1> HIDE DEF n, a, b, c, d, e, f
<1>3. (((a * n + b) * n + c) * n + d) * n + e + f \in Nat
  BY <1>1
<1> QED BY <1>2, <1>3

LEMMA WaitFalls ==
  ASSUME WaitDigits, WaitDigits',
         \/ drivenum' > drivenum
         \/ drivenum' = drivenum /\ PhaseLeft' < PhaseLeft
         \/ drivenum' = drivenum /\ PhaseLeft' = PhaseLeft /\ CountLeft' < CountLeft
         \/ /\ drivenum' = drivenum /\ PhaseLeft' = PhaseLeft /\ CountLeft' = CountLeft
            /\ IoLeft' < IoLeft
         \/ /\ drivenum' = drivenum /\ PhaseLeft' = PhaseLeft /\ CountLeft' = CountLeft
            /\ IoLeft' = IoLeft /\ CtlsLeft' < CtlsLeft
  PROVE  WaitLeft' < WaitLeft
<1> DEFINE n == WaitBase
           a == 4 - drivenum    p == 4 - drivenum'
           b == PhaseLeft       q == PhaseLeft'
           c == CountLeft       r == CountLeft'
           d == IoLeft          s == IoLeft'
           e == CtlsLeft        t == CtlsLeft'
<1>1. n \in Nat /\ 4 < n
  BY IdeAssumption DEF WaitBase
<1>2. a \in Nat /\ b \in Nat /\ c \in Nat /\ d \in Nat /\ e \in Nat
  BY DEF WaitDigits
<1>3. /\ p \in Nat /\ q \in 0 .. 4 /\ r \in Nat /\ s \in 0 .. 2 /\ t \in 0 .. 4
      /\ r < n
  BY DEF WaitDigits, WaitBase
<1>4. drivenum' > drivenum => p < a
  <2>1. \A x, y \in 0 .. 4 : x > y => 4 - x < 4 - y
    OBVIOUS
  <2>2. drivenum \in 0 .. 4 /\ drivenum' \in 0 .. 4
    BY DEF WaitDigits
  <2> QED BY <2>1, <2>2
<1>5. drivenum' = drivenum => p = a
  OBVIOUS
<1>6. WaitLeft = (((a * n + b) * n + c) * n + d) * n + e
  <2>1. WaitLeft = (((a * n + b) * n + c) * n + d) * n + CtlLeft(0) + CtlLeft(1)
    BY DEF WaitLeft, WaitBase
  <2>2. PICK v \in Nat : v = (((a * n + b) * n + c) * n + d) * n
    <3> HIDE DEF a, b, c, d, n
    <3>1. (((a * n + b) * n + c) * n + d) * n \in Nat
      BY <1>1, <1>2
    <3> QED BY <3>1
  <2>3. v + CtlLeft(0) + CtlLeft(1) = v + CtlsLeft
    BY DEF WaitDigits, CtlsLeft
  <2> QED BY <2>1, <2>2, <2>3
<1>7. WaitLeft' = (((p * n + q) * n + r) * n + s) * n + t
  <2>1. WaitLeft' = (((p * n + q) * n + r) * n + s) * n + CtlLeft(0)' + CtlLeft(1)'
    BY DEF WaitLeft, WaitBase
  <2>2. PICK v \in Nat : v = (((p * n + q) * n + r) * n + s) * n
    <3> HIDE DEF p, q, r, s, n
    <3>1. (((p * n + q) * n + r) * n + s) * n \in Nat
      BY <1>1, <1>3
    <3> QED BY <3>1
  <2>3. v + CtlLeft(0)' + CtlLeft(1)' = v + CtlsLeft'
    BY DEF WaitDigits, CtlsLeft
  <2> QED BY <2>1, <2>2, <2>3
<1>8. \/ p < a
      \/ p = a /\ q < b
      \/ p = a /\ q = b /\ r < c
      \/ p = a /\ q = b /\ r = c /\ s < d
      \/ p = a /\ q = b /\ r = c /\ s = d /\ t < e
  <2> HIDE DEF p, a
  <2> QED BY <1>4, <1>5
<1> HIDE DEF n, a, b, c, d, e, p, q, r, s, t
<1>9. q \in Nat /\ s \in Nat /\ t \in Nat /\ q < n /\ s < n /\ t < n
  BY <1>1, <1>3
<1>10. (((p * n + q) * n + r) * n + s) * n + t < (((a * n + b) * n + c) * n + d) * n + e
  BY <1>1, <1>2, <1>3, <1>8, <1>9, Digits
<1> QED BY <1>6, <1>7, <1>10

\* What the driver and the controllers do brings the work nearer to its end.
LEMMA DriverFalls == ASSUME IInv, IInv', Driver PROVE WaitLeft' < WaitLeft
<1>1. /\ Types /\ Types' /\ WaitDigits /\ WaitDigits'
  <2>1. Types /\ Types' /\ WaitDigits
    BY WaitDigitsHold DEF IInv
  <2>2. WaitDigits'
    BY <2>1, WaitDigitsHold, PTL
  <2> QED BY <2>1, <2>2
<1>2. /\ drivenum \in 0 .. 4 /\ retry_cnt \in Nat /\ max_c \in Int /\ max_h \in Int
      /\ MAXC \in Nat /\ MAXH \in Nat
      /\ phase \in {"off", "probe", "cyl", "head", "mbr"} => drivenum \in 0 .. 3
  BY <1>1, IdeAssumption DEF Types, Driving, Drives
<1>3. CASE Issue
  <2>1. drivenum' = drivenum /\ PhaseLeft' = PhaseLeft /\ CountLeft' = CountLeft
    BY <1>3 DEF Issue, PhaseLeft, CountLeft, probing
  <2>2. IoLeft' < IoLeft
    BY <1>3 DEF Issue, IoLeft, AfterCommand
  <2> QED BY <1>1, <2>1, <2>2, WaitFalls
<1>4. CASE ReadFailed \/ ReadData
  <2>1. drivenum' = drivenum /\ PhaseLeft' = PhaseLeft /\ CountLeft' = CountLeft
    BY <1>4 DEF ReadFailed, ReadData, PhaseLeft, CountLeft, probing
  <2>2. IoLeft' < IoLeft
    BY <1>4 DEF ReadFailed, ReadData, IoLeft
  <2> QED BY <1>1, <2>1, <2>2, WaitFalls
<1>5. CASE Poll
  <2>1. drivenum' = drivenum /\ PhaseLeft' = PhaseLeft
    BY <1>5 DEF Poll, PhaseLeft
  <2>2. CountLeft' < CountLeft
    BY <1>2, <1>5 DEF Poll, CountLeft
  <2> QED BY <1>1, <2>1, <2>2, WaitFalls
<1>6. CASE GiveUp \/ ReadTable
  <2>1. drivenum' > drivenum
    BY <1>2, <1>6 DEF GiveUp, ReadTable, NextDrive
  <2> QED BY <1>1, <2>1, WaitFalls
<1>7. CASE Answer
  <2>1. drivenum' = drivenum /\ PhaseLeft' < PhaseLeft
    BY <1>7 DEF Answer, PhaseLeft
  <2> QED BY <1>1, <2>1, WaitFalls
<1>8. CASE ProbeCylinder
  <2>1. drivenum' = drivenum /\ phase = "cyl"
    BY <1>8 DEF ProbeCylinder
  <2>2. CASE MoreCylinders
    <3>1. max_c' = max_c + 1 /\ phase' = "cyl"
      BY <1>8, <2>1, <2>2 DEF ProbeCylinder
    <3>2. PhaseLeft' = PhaseLeft
      BY <2>1, <3>1 DEF PhaseLeft
    <3>3. CountLeft' < CountLeft
      BY <1>2, <2>1, <3>1 DEF CountLeft
    <3> QED BY <1>1, <2>1, <3>2, <3>3, WaitFalls
  <2>3. CASE ~MoreCylinders
    <3>1. PhaseLeft' < PhaseLeft
      BY <1>8, <2>1, <2>3 DEF ProbeCylinder, PhaseLeft
    <3> QED BY <1>1, <2>1, <3>1, WaitFalls
  <2> QED BY <2>2, <2>3
<1>9. CASE ProbeHead
  <2>1. drivenum' = drivenum /\ phase = "head"
    BY <1>9 DEF ProbeHead
  <2>2. CASE MoreHeads
    <3>1. max_h' = max_h + 1 /\ phase' = "head"
      BY <1>9, <2>1, <2>2 DEF ProbeHead
    <3>2. PhaseLeft' = PhaseLeft
      BY <2>1, <3>1 DEF PhaseLeft
    <3>3. CountLeft' < CountLeft
      BY <1>2, <2>1, <3>1 DEF CountLeft
    <3> QED BY <1>1, <2>1, <3>2, <3>3, WaitFalls
  <2>3. CASE ~MoreHeads
    <3>1. PhaseLeft' < PhaseLeft
      BY <1>9, <2>1, <2>3 DEF ProbeHead, PhaseLeft
    <3> QED BY <1>1, <2>1, <3>1, WaitFalls
  <2> QED BY <2>2, <2>3
<1>10. CASE Return
  <2>1. drivenum' = drivenum /\ PhaseLeft' < PhaseLeft
    BY <1>10 DEF Return, PhaseLeft, probing
  <2> QED BY <1>1, <2>1, WaitFalls
<1> QED BY <1>3, <1>4, <1>5, <1>6, <1>7, <1>8, <1>9, <1>10 DEF Driver

LEMMA ControllersFall == ASSUME IInv, IInv', Controllers PROVE WaitLeft' < WaitLeft
<1>1. /\ Types /\ Types' /\ WaitDigits /\ WaitDigits'
  <2>1. Types /\ Types' /\ WaitDigits
    BY WaitDigitsHold DEF IInv
  <2>2. WaitDigits'
    BY <2>1, WaitDigitsHold, PTL
  <2> QED BY <2>1, <2>2
<1>2. PICK x \in {0, 1} : Execute(x) \/ Settle(x)
  BY DEF Controllers, Channels
<1>3. DOMAIN ctl = {0, 1} /\ \A y \in {0, 1} : ctl[y] \in Ctl
  BY <1>1 DEF Types, Registers, Channels
<1>4. \A y \in {0, 1} : y # x => ctl'[y] = ctl[y]
  BY <1>2, <1>3 DEF Execute, Settle
<1>5. /\ ctl[x].st = "read" => ctl'[x].st \in {"error", "settling"}
      /\ ctl[x].st = "write" => ctl'[x].st \in {"error", "idle"}
      /\ ctl[x].st = "settling" => ctl'[x].st = "ready"
      /\ ctl[x].st \in {"read", "write", "settling"}
  <2>1. CASE Execute(x)
    <3>1. ctl[x].st \in {"read", "write"}
      BY <2>1 DEF Execute, Busy
    <3>2. ctl'[x].st = IF ~Works(ctl[x].a) THEN "error" ELSE IF ctl[x].a.w THEN "idle" ELSE "settling"
      BY <1>3, <2>1 DEF Execute, Ctl
    <3>3. ctl[x].st = "read" => ~ctl[x].a.w
      BY <1>1 DEF Types, Executing, Channels
    <3>4. ctl[x].st = "write" => ctl[x].a.w
      BY <1>1 DEF Types, Executing, Channels
    <3> QED BY <3>1, <3>2, <3>3, <3>4
  <2>2. CASE Settle(x)
    BY <1>3, <2>2 DEF Settle, Ctl
  <2> QED BY <1>2, <2>1, <2>2
<1>6. CtlsLeft' < CtlsLeft
  <2>1. CtlLeft(x)' < CtlLeft(x)
    BY <1>5 DEF CtlLeft
  <2>2. \A y \in {0, 1} : y # x => CtlLeft(y)' = CtlLeft(y)
    BY <1>4 DEF CtlLeft
  <2>3. x = 0 \/ x = 1
    OBVIOUS
  <2> QED BY <1>1, <2>1, <2>2, <2>3 DEF CtlsLeft, WaitDigits
<1>7. /\ drivenum' = drivenum /\ PhaseLeft' = PhaseLeft /\ CountLeft' = CountLeft
      /\ IoLeft' = IoLeft
  BY <1>2 DEF Execute, Settle, PhaseLeft, CountLeft, IoLeft, probing
<1> QED BY <1>1, <1>6, <1>7, WaitFalls

LEMMA DriverStepFalls ==
  ASSUME IInv, IInv', Driver \/ Controllers
  PROVE  WaitLeft' \in 0 .. WaitLeft - 1
<1>1. WaitLeft' < WaitLeft
  BY DriverFalls, ControllersFall
<1>2. WaitLeft \in Nat /\ WaitLeft' \in Nat
  <2>1. (IInv => WaitLeft \in Nat)'
    BY WaitNat, PTL
  <2> QED BY <2>1, WaitNat
<1> QED BY <1>1, <1>2

\* The scan of any machine's buses ends, be it because the table is full, and
\* so do the measuring of the drives, a request and the controllers' work,
\* whatever drives and bad sectors there are: each step leaves fewer.
THEOREM StartEnds == Spec => StartGetsOn
<1> DEFINE I == PciTypes /\ ScanInv /\ Deep /\ IInv
<1>1. I /\ I' /\ [Next]_startVars =>
        [/\ pci_prob_dev => ScanLeft' \in 0 .. ScanLeft - 1
         /\ Driver \/ Controllers => WaitLeft' \in 0 .. WaitLeft - 1]_startVars
  BY ScanStepFalls, DriverStepFalls
<1>2. Spec => []I
  BY ScanAlways, DeepAlways, Invariance, PTL
<1> QED BY <1>1, <1>2, PTL DEF Spec, StartGetsOn
-----------------------------------------------------------------------------
(***************************************************************************)
(* The text of a number: printf() divides until nothing is left, and the   *)
(* digits, read back, are the number.  The functions that Printf defines   *)
(* by recursion exist, as Away does.                                       *)
(***************************************************************************)
Chars == {digits[k] : k \in 1 .. 16} \cup {Blank}

LEMMA Digits16 ==
  \A d \in 0 .. 15 : /\ digits[d + 1] \in Chars /\ digits[d + 1] # Blank /\ ValueOf(digits[d + 1]) = d
                     /\ digits[d + 1] = "0" => d = 0
<1>0. /\ digits[1] = "0" /\ digits[2] = "1" /\ digits[3] = "2" /\ digits[4] = "3"
      /\ digits[5] = "4" /\ digits[6] = "5" /\ digits[7] = "6" /\ digits[8] = "7"
      /\ digits[9] = "8" /\ digits[10] = "9" /\ digits[11] = "a" /\ digits[12] = "b"
      /\ digits[13] = "c" /\ digits[14] = "d" /\ digits[15] = "e" /\ digits[16] = "f"
  BY DEF digits
<1>1. \A j, k \in 1 .. 16 : digits[j] = digits[k] => j = k
  BY <1>0
<1> SUFFICES ASSUME NEW d \in 0 .. 15
             PROVE  /\ digits[d + 1] \in Chars /\ digits[d + 1] # Blank /\ ValueOf(digits[d + 1]) = d
                    /\ digits[d + 1] = "0" => d = 0
  OBVIOUS
<1>2. d + 1 \in 1 .. 16
  OBVIOUS
<1>3. digits[d + 1] \in Chars
  BY <1>2 DEF Chars
<1>4. \A k \in 1 .. 16 : digits[k] # Blank /\ (digits[k] = "0" => k = 1)
  <2>1. /\ "0" # Blank /\ "1" # Blank /\ "2" # Blank /\ "3" # Blank /\ "4" # Blank /\ "5" # Blank
        /\ "6" # Blank /\ "7" # Blank /\ "8" # Blank /\ "9" # Blank /\ "a" # Blank /\ "b" # Blank
        /\ "c" # Blank /\ "d" # Blank /\ "e" # Blank /\ "f" # Blank
    BY Zenon DEF Blank
  <2> QED BY <1>0, <2>1
<1>5. ValueOf(digits[d + 1]) = d
  <2> DEFINE j == CHOOSE k \in 1 .. 16 : digits[k] = digits[d + 1]
  <2>1. j \in 1 .. 16 /\ digits[j] = digits[d + 1]
    BY <1>2
  <2>2. ValueOf(digits[d + 1]) = j - 1
    BY DEF ValueOf
  <2> HIDE DEF j
  <2>3. j = d + 1
    BY <1>1, <1>2, <2>1
  <2> QED BY <2>2, <2>3
<1> QED BY <1>2, <1>3, <1>4, <1>5

\* What is left of x after k divisions.
LEMMA QuotientRun ==
  ASSUME NEW x, NEW base
  PROVE  LET left == Quotients(x, base)
         IN  left[0] = x /\ \A k \in 1 .. 11 : left[k] = left[k - 1] \div base
<1> DEFINE Then(v) == v \div base
           Run(n, f) == f[0] = x /\ \A k \in 1 .. n : f[k] = Then(f[k - 1])
           S == {n \in Nat : \E f : f = [k \in 0 .. n |-> f[k]] /\ Run(n, f)}
<1> HIDE DEF Then
<1>1. 0 \in S
  <2> DEFINE f == [k \in 0 .. 0 |-> x]
  <2>1. f = [k \in 0 .. 0 |-> f[k]] /\ Run(0, f)
    OBVIOUS
  <2> QED BY <2>1
<1>2. ASSUME NEW n \in Nat, n \in S PROVE n + 1 \in S
  <2>1. PICK f : f = [k \in 0 .. n |-> f[k]] /\ Run(n, f)
    BY <1>2
  <2> DEFINE new == Then(f[n])
             g == [k \in 0 .. n + 1 |-> IF k <= n THEN f[k] ELSE new]
  <2>2. g = [k \in 0 .. n + 1 |-> g[k]] /\ g[0] = x
    BY <2>1
  <2>3. ASSUME NEW k \in 1 .. n + 1 PROVE g[k] = Then(g[k - 1])
    <3>1. CASE k <= n
      <4>1. g[k] = f[k] /\ g[k - 1] = f[k - 1] /\ k \in 1 .. n
        BY <3>1
      <4> HIDE DEF g
      <4> QED BY <2>1, <4>1
    <3>2. CASE k = n + 1
      <4>1. g[k] = new /\ g[k - 1] = f[n]
        BY <3>2
      <4> HIDE DEF g
      <4> QED BY <4>1
    <3> QED BY <3>1, <3>2
  <2> HIDE DEF g
  <2>4. Run(n + 1, g)
    BY <2>2, <2>3
  <2>5. \E h : h = [k \in 0 .. n + 1 |-> h[k]] /\ Run(n + 1, h)
    <3> HIDE DEF Run
    <3> QED BY <2>2, <2>4
  <2> HIDE DEF Run
  <2> QED BY <2>5
<1> HIDE DEF S
<1>3. Nat \subseteq S
  BY <1>1, <1>2, NatSetInduction
<1>4. PICK f : f = [k \in 0 .. 11 |-> f[k]] /\ Run(11, f)
  BY <1>3 DEF S
<1> DEFINE Placed(h, k) == IF k = 0 THEN x ELSE Then(h[k - 1])
           Again(h) == [k \in 0 .. 11 |-> Placed(h, k)]
           g == CHOOSE h : h = Again(h)
<1>5. f = Again(f)
  <2>1. ASSUME NEW k \in 0 .. 11 PROVE f[k] = Placed(f, k)
    BY <1>4
  <2> HIDE DEF Placed
  <2> QED BY <1>4, <2>1
<1>6. g = Again(g)
  <2> HIDE DEF Again
  <2> QED BY <1>5
<1>7. Quotients(x, base) = g
  BY DEF Quotients, Then
<1> HIDE DEF g
<1>8. \A k \in 0 .. 11 : g[k] = Placed(g, k)
  <2> HIDE DEF Placed
  <2> QED BY <1>6
<1>9. g[0] = x /\ \A k \in 1 .. 11 : g[k] = Then(g[k - 1])
  <2>1. g[0] = x
    BY <1>8
  <2>2. ASSUME NEW k \in 1 .. 11 PROVE g[k] = Then(g[k - 1])
    <3>1. k \in 0 .. 11 /\ k # 0
      OBVIOUS
    <3> QED BY <1>8, <3>1
  <2> QED BY <2>1, <2>2
<1> QED BY <1>7, <1>9 DEF Then

\* What has been read of a number after k characters.
LEMMA ValueRun ==
  ASSUME NEW s, Len(s) \in Nat, NEW base
  PROVE  \E x : /\ Value(s, base) = x[Len(s)] /\ x[0] = 0
                /\ \A k \in 1 .. Len(s) : x[k] = base * x[k - 1] + ValueOf(s[k])
<1> DEFINE Then(v, k) == base * v + ValueOf(s[k])
           Run(n, f) == f[0] = 0 /\ \A k \in 1 .. n : f[k] = Then(f[k - 1], k)
           S == {n \in Nat : \E f : f = [k \in 0 .. n |-> f[k]] /\ Run(n, f)}
<1> HIDE DEF Then
<1>1. 0 \in S
  <2> DEFINE f == [k \in 0 .. 0 |-> 0]
  <2>1. f = [k \in 0 .. 0 |-> f[k]] /\ Run(0, f)
    OBVIOUS
  <2> QED BY <2>1
<1>2. ASSUME NEW n \in Nat, n \in S PROVE n + 1 \in S
  <2>1. PICK f : f = [k \in 0 .. n |-> f[k]] /\ Run(n, f)
    BY <1>2
  <2> DEFINE new == Then(f[n], n + 1)
             g == [k \in 0 .. n + 1 |-> IF k <= n THEN f[k] ELSE new]
  <2>2. g = [k \in 0 .. n + 1 |-> g[k]] /\ g[0] = 0
    BY <2>1
  <2>3. ASSUME NEW k \in 1 .. n + 1 PROVE g[k] = Then(g[k - 1], k)
    <3>1. CASE k <= n
      <4>1. g[k] = f[k] /\ g[k - 1] = f[k - 1] /\ k \in 1 .. n
        BY <3>1
      <4> HIDE DEF g
      <4> QED BY <2>1, <4>1
    <3>2. CASE k = n + 1
      <4>1. g[k] = new /\ g[k - 1] = f[n]
        BY <3>2
      <4> HIDE DEF g
      <4> QED BY <3>2, <4>1
    <3> QED BY <3>1, <3>2
  <2> HIDE DEF g
  <2>4. Run(n + 1, g)
    BY <2>2, <2>3
  <2>5. \E h : h = [k \in 0 .. n + 1 |-> h[k]] /\ Run(n + 1, h)
    <3> HIDE DEF Run
    <3> QED BY <2>2, <2>4
  <2> HIDE DEF Run
  <2> QED BY <2>5
<1> HIDE DEF S
<1>3. Nat \subseteq S
  BY <1>1, <1>2, NatSetInduction
<1> DEFINE N == Len(s)
<1>4. PICK f : f = [k \in 0 .. N |-> f[k]] /\ Run(N, f)
  BY <1>3 DEF S
<1> HIDE DEF N
<1> DEFINE Placed(h, k) == IF k = 0 THEN 0 ELSE Then(h[k - 1], k)
           Again(h) == [k \in 0 .. N |-> Placed(h, k)]
           g == CHOOSE h : h = Again(h)
<1>0. N \in Nat
  BY DEF N
<1>5. f = Again(f)
  <2>1. ASSUME NEW k \in 0 .. N PROVE f[k] = Placed(f, k)
    BY <1>0, <1>4
  <2> HIDE DEF Placed
  <2> QED BY <1>4, <2>1
<1>6. g = Again(g)
  <2> HIDE DEF Again
  <2> QED BY <1>5
<1>7. Value(s, base) = g[N]
  BY DEF Value, Then, N
<1> HIDE DEF g
<1>8. \A k \in 0 .. N : g[k] = Placed(g, k)
  <2> HIDE DEF Placed
  <2> QED BY <1>6
<1>9. g[0] = 0 /\ \A k \in 1 .. N : g[k] = Then(g[k - 1], k)
  <2>1. g[0] = 0
    BY <1>0, <1>8
  <2>2. ASSUME NEW k \in 1 .. N PROVE g[k] = Then(g[k - 1], k)
    <3>1. k \in 0 .. N /\ k # 0
      BY <1>0
    <3> QED BY <1>8, <3>1
  <2> QED BY <2>1, <2>2
<1> QED BY <1>7, <1>9 DEF Then, N

\* What printf() has done after k characters of its format.
LEMMA PrintfRun ==
  ASSUME NEW format, Len(format) \in Nat, NEW args
  PROVE  \E p : /\ printf(format, args) = p[Len(format)].out /\ p[0] = Begin
                /\ \A k \in 1 .. Len(format) : p[k] = Step(p[k - 1], format[k], args)
<1> DEFINE Run(n, f) == f[0] = Begin /\ \A k \in 1 .. n : f[k] = Step(f[k - 1], format[k], args)
           S == {n \in Nat : \E f : f = [k \in 0 .. n |-> f[k]] /\ Run(n, f)}
<1>1. 0 \in S
  <2> DEFINE f == [k \in 0 .. 0 |-> Begin]
  <2>1. f = [k \in 0 .. 0 |-> f[k]] /\ Run(0, f)
    OBVIOUS
  <2> QED BY <2>1
<1>2. ASSUME NEW n \in Nat, n \in S PROVE n + 1 \in S
  <2>1. PICK f : f = [k \in 0 .. n |-> f[k]] /\ Run(n, f)
    BY <1>2
  <2> DEFINE new == Step(f[n], format[n + 1], args)
             g == [k \in 0 .. n + 1 |-> IF k <= n THEN f[k] ELSE new]
  <2>2. g = [k \in 0 .. n + 1 |-> g[k]] /\ g[0] = Begin
    BY <2>1
  <2>3. ASSUME NEW k \in 1 .. n + 1 PROVE g[k] = Step(g[k - 1], format[k], args)
    <3>1. CASE k <= n
      <4>1. g[k] = f[k] /\ g[k - 1] = f[k - 1] /\ k \in 1 .. n
        BY <3>1
      <4> HIDE DEF g
      <4> QED BY <2>1, <4>1
    <3>2. CASE k = n + 1
      <4>1. g[k] = new /\ g[k - 1] = f[n]
        BY <3>2
      <4> HIDE DEF g
      <4> QED BY <3>2, <4>1
    <3> QED BY <3>1, <3>2
  <2> HIDE DEF g
  <2>4. Run(n + 1, g)
    BY <2>2, <2>3
  <2>5. \E h : h = [k \in 0 .. n + 1 |-> h[k]] /\ Run(n + 1, h)
    <3> HIDE DEF Run
    <3> QED BY <2>2, <2>4
  <2> HIDE DEF Run
  <2> QED BY <2>5
<1> HIDE DEF S
<1>3. Nat \subseteq S
  BY <1>1, <1>2, NatSetInduction
<1> DEFINE N == Len(format)
<1>4. PICK f : f = [k \in 0 .. N |-> f[k]] /\ Run(N, f)
  BY <1>3 DEF S
<1> HIDE DEF N
<1> DEFINE Placed(h, k) == IF k = 0 THEN Begin ELSE Step(h[k - 1], format[k], args)
           Again(h) == [k \in 0 .. N |-> Placed(h, k)]
           g == CHOOSE h : h = Again(h)
<1>0. N \in Nat
  BY DEF N
<1>5. f = Again(f)
  <2>1. ASSUME NEW k \in 0 .. N PROVE f[k] = Placed(f, k)
    BY <1>0, <1>4, SMTT(60)
  <2> HIDE DEF Placed
  <2> QED BY <1>4, <2>1
<1>6. g = Again(g)
  <2> HIDE DEF Again
  <2> QED BY <1>5
<1>7. printf(format, args) = g[N].out
  BY DEF printf, N
<1> HIDE DEF g
<1>8. \A k \in 0 .. N : g[k] = Placed(g, k)
  <2> HIDE DEF Placed
  <2> QED BY <1>6
<1>9. g[0] = Begin /\ \A k \in 1 .. N : g[k] = Step(g[k - 1], format[k], args)
  <2>1. g[0] = Begin
    BY <1>0, <1>8
  <2>2. ASSUME NEW k \in 1 .. N PROVE g[k] = Step(g[k - 1], format[k], args)
    <3>1. k \in 0 .. N /\ k # 0
      BY <1>0
    <3> QED BY <1>8, <3>1
  <2> QED BY <2>1, <2>2
<1> QED BY <1>7, <1>9 DEF N

\* The number of digits of x, and that a number of 16 bits has at most five.
Count(x, base) ==
  LET left == Quotients(x, base)
  IN  CHOOSE k \in 0 .. 11 : left[k] = 0 /\ (k > 0 => left[k - 1] # 0)

Divides(left, n, x, base) ==
  /\ n \in 1 .. 5 /\ left[0] = x /\ left[n] = 0 /\ left[n - 1] # 0
  /\ \A k \in 0 .. 5 : left[k] \in Nat
  /\ \A k \in 1 .. 5 : left[k] = left[k - 1] \div base

Small(x) == x <= 65535

LEMMA Dividing ==
  ASSUME NEW x \in Nat, Small(x), x # 0, NEW base \in {10, 16}
  PROVE  Divides(Quotients(x, base), Count(x, base), x, base)
<1> DEFINE left == Quotients(x, base)
           Ends(k) == left[k] = 0 /\ (k > 0 => left[k - 1] # 0)
           n == CHOOSE k \in 0 .. 11 : Ends(k)
<1>1. left[0] = x /\ \A k \in 1 .. 11 : left[k] = left[k - 1] \div base
  BY QuotientRun
<1> HIDE DEF left
<1>2. \A a \in Nat : /\ a \div base \in Nat /\ base * (a \div base) <= a
                     /\ a = 0 => a \div base = 0
  <2>1. CASE base = 10
    BY <2>1
  <2>2. CASE base = 16
    BY <2>2
  <2> QED BY <2>1, <2>2
<1>3. \A a, b \in Nat : base * b <= a => 10 * b <= a
  <2>1. CASE base = 10
    BY <2>1
  <2>2. CASE base = 16
    BY <2>2
  <2> QED BY <2>1, <2>2
<1>4. \A k \in 1 .. 11 : left[k - 1] \in Nat =>
        left[k] \in Nat /\ 10 * left[k] <= left[k - 1] /\ (left[k - 1] = 0 => left[k] = 0)
  BY <1>1, <1>2, <1>3
<1>5. /\ left[0] \in Nat /\ left[0] <= 65535 /\ left[1] \in Nat /\ left[1] <= 6553 /\ left[2] \in Nat /\ left[2] <= 655
      /\ left[3] \in Nat /\ left[3] <= 65 /\ left[4] \in Nat /\ left[4] <= 6 /\ left[5] \in Nat /\ left[5] = 0
  <2>1. left[0] \in Nat /\ left[0] <= 65535
    BY <1>1 DEF Small
  <2>2. \A k \in 1 .. 11, a, b \in Nat : left[k - 1] = a /\ a < 10 * b => left[k] \in Nat /\ left[k] < b
    <3> SUFFICES ASSUME NEW k \in 1 .. 11, NEW a \in Nat, NEW b \in Nat, left[k - 1] = a, a < 10 * b
                 PROVE  left[k] \in Nat /\ left[k] < b
      OBVIOUS
    <3>1. left[k] \in Nat /\ 10 * left[k] <= a
      BY <1>4
    <3> DEFINE c == left[k]
    <3> HIDE DEF c
    <3>2. c \in Nat /\ 10 * c <= a => c < b
      OBVIOUS
    <3> QED BY <3>1, <3>2 DEF c
  <2>3. \A k \in 1 .. 11, b \in Nat : left[k - 1] \in Nat /\ left[k - 1] < 10 * b => left[k] \in Nat /\ left[k] < b
    BY <2>2
  <2>4. left[1] \in Nat /\ left[1] < 6554
    BY <2>1, <2>3
  <2>5. left[2] \in Nat /\ left[2] < 656
    BY <2>3, <2>4
  <2>6. left[3] \in Nat /\ left[3] < 66
    BY <2>3, <2>5
  <2>7. left[4] \in Nat /\ left[4] < 7
    BY <2>3, <2>6
  <2>8. left[5] \in Nat /\ left[5] < 1
    BY <2>3, <2>7
  <2> QED BY <2>1, <2>4, <2>5, <2>6, <2>7, <2>8
<1>6. left[6] = 0 /\ left[7] = 0 /\ left[8] = 0 /\ left[9] = 0 /\ left[10] = 0 /\ left[11] = 0
  <2>1. left[6] = 0
    BY <1>4, <1>5
  <2>2. left[7] = 0
    BY <1>4, <2>1
  <2>3. left[8] = 0
    BY <1>4, <2>2
  <2>4. left[9] = 0
    BY <1>4, <2>3
  <2>5. left[10] = 0
    BY <1>4, <2>4
  <2>6. left[11] = 0
    BY <1>4, <2>5
  <2> QED BY <2>1, <2>2, <2>3, <2>4, <2>5, <2>6
<1>7. \E k \in 0 .. 11 : Ends(k)
  <2>1. CASE left[1] = 0
    BY <1>1, <2>1
  <2>2. CASE left[1] # 0 /\ left[2] = 0
    BY <2>2
  <2>3. CASE left[2] # 0 /\ left[3] = 0
    BY <2>3
  <2>4. CASE left[3] # 0 /\ left[4] = 0
    BY <2>4
  <2>5. CASE left[4] # 0
    BY <1>5, <2>5
  <2> QED BY <2>1, <2>2, <2>3, <2>4, <2>5
<1>8. n \in 0 .. 11 /\ Ends(n)
  BY <1>7
<1> HIDE DEF n
<1>9. n \in 1 .. 5
  <2>1. n # 0
    BY <1>1, <1>8
  <2>2. left[n - 1] # 0
    BY <1>8, <2>1
  <2>3. n \notin 6 .. 11
    <3> SUFFICES ASSUME n \in 6 .. 11 PROVE FALSE
      OBVIOUS
    <3>1. n - 1 \in {5, 6, 7, 8, 9, 10}
      OBVIOUS
    <3> QED BY <1>5, <1>6, <2>2, <3>1
  <2> QED BY <1>8, <2>1, <2>3
<1>10. left[n] = 0 /\ left[n - 1] # 0
  BY <1>8, <1>9
<1>11. \A k \in 0 .. 5 : left[k] \in Nat
  <2>1. \A k \in 0 .. 5 : k \in {0, 1, 2, 3, 4, 5}
    OBVIOUS
  <2> QED BY <1>5, <2>1
<1>12. \A k \in 1 .. 5 : left[k] = left[k - 1] \div base
  BY <1>1
<1>13. Divides(left, n, x, base)
  BY <1>1, <1>9, <1>10, <1>11, <1>12 DEF Divides
<1>14. n = Count(x, base)
  BY DEF n, left, Count
<1> QED BY <1>13, <1>14 DEF left

\* The n characters of text are the number x, without leading zeros.
IsNumber(text, n, x, base) ==
  /\ n \in 1 .. 5 /\ text \in Seq(Chars) /\ Len(text) = n
  /\ \A k \in 1 .. n : text[k] # Blank /\ ValueOf(text[k]) < base
  /\ n > 1 => text[1] # "0"
  /\ Value(text, base) = x

LEMMA TextIs ==
  ASSUME NEW n \in Nat, NEW f \in [1 .. n -> Chars] PROVE f \in Seq(Chars) /\ Len(f) = n
<1>1. f \in Seq(Chars)
  BY SeqDef
<1> DEFINE k == Len(f)
<1>2. k \in Nat /\ 1 .. k = 1 .. n
  BY <1>1, LenProperties
<1> HIDE DEF k
<1>3. k <= n
  <2> SUFFICES ASSUME k > n PROVE FALSE
    BY <1>2
  <2>1. k \in 1 .. k /\ k \notin 1 .. n
    BY <1>2
  <2> QED BY <1>2, <2>1
<1>4. n <= k
  <2> SUFFICES ASSUME n > k PROVE FALSE
    BY <1>2
  <2>1. n \in 1 .. n /\ n \notin 1 .. k
    BY <1>2
  <2> QED BY <1>2, <2>1
<1>5. k = n
  BY <1>2, <1>3, <1>4
<1> QED BY <1>1, <1>5 DEF k

LEMMA FiguresRight ==
  ASSUME NEW x \in Nat, Small(x), x # 0, NEW base \in {10, 16}
  PROVE  IsNumber(Figures(x, base), Len(Figures(x, base)), x, base)
<1> DEFINE left == Quotients(x, base)
           n == Count(x, base)
           text == [k \in 1 .. n |-> digits[(left[n - k] % base) + 1]]
<1>2. Figures(x, base) = text
  BY DEF Figures, Count
<1> HIDE DEF left, n
<1>1. /\ n \in 1 .. 5 /\ left[0] = x /\ left[n] = 0 /\ left[n - 1] # 0
      /\ \A k \in 0 .. 5 : left[k] \in Nat
      /\ \A k \in 1 .. 5 : left[k] = left[k - 1] \div base
  <2>1. Divides(left, n, x, base)
    BY Dividing DEF left, n
  <2> QED BY <2>1 DEF Divides
<1>3. \A a \in Nat : a % base \in 0 .. 15 /\ a % base < base /\ a = base * (a \div base) + (a % base)
                     /\ (a \div base = 0 => a % base = a)
  <2>1. CASE base = 10
    BY <2>1
  <2>2. CASE base = 16
    BY <2>2
  <2> QED BY <2>1, <2>2
<1>4. ASSUME NEW k \in 1 .. n
      PROVE  /\ text[k] \in Chars /\ text[k] # Blank /\ ValueOf(text[k]) = left[n - k] % base
             /\ left[n - k] % base < base /\ n - k \in 0 .. 5 /\ left[n - k] \in Nat
             /\ text[k] = "0" => left[n - k] % base = 0
  <2>1. n - k \in 0 .. 5
    BY <1>1
  <2>2. left[n - k] \in Nat
    BY <1>1, <2>1
  <2>3. left[n - k] % base \in 0 .. 15 /\ left[n - k] % base < base
    BY <1>3, <2>2
  <2>4. text[k] = digits[(left[n - k] % base) + 1]
    OBVIOUS
  <2> QED BY <2>1, <2>2, <2>3, <2>4, Digits16
<1>5. text \in [1 .. n -> Chars]
  <2>1. \A k \in 1 .. n : text[k] \in Chars
    BY <1>4
  <2> QED BY <2>1
<1> HIDE DEF text
<1>6. text \in Seq(Chars) /\ Len(text) = n
  BY <1>1, <1>5, TextIs
<1>7. n > 1 => text[1] # "0"
  <2>1. n - 1 \in 0 .. 5 /\ n \in 1 .. 5 /\ 1 \in 1 .. n
    BY <1>1
  <2>2. left[n - 1] \div base = 0
    BY <1>1, <2>1
  <2>3. left[n - 1] % base = left[n - 1]
    BY <1>1, <1>3, <2>1, <2>2
  <2> QED BY <1>1, <1>4, <2>1, <2>3
<1>8. Value(text, base) = x
  <2>1. PICK v : /\ Value(text, base) = v[n] /\ v[0] = 0
                 /\ \A k \in 1 .. n : v[k] = base * v[k - 1] + ValueOf(text[k])
    <3>1. Len(text) \in Nat
      BY <1>1, <1>6
    <3>2. \E v : /\ Value(text, base) = v[Len(text)] /\ v[0] = 0
                 /\ \A k \in 1 .. Len(text) : v[k] = base * v[k - 1] + ValueOf(text[k])
      BY <3>1, ValueRun
    <3> QED BY <1>6, <3>2
  <2> DEFINE S == {k \in Nat : k <= n => v[k] = left[n - k]}
  <2>2. 0 \in S
    BY <1>1, <2>1
  <2>3. ASSUME NEW k \in Nat, k \in S PROVE k + 1 \in S
    <3> SUFFICES ASSUME k + 1 <= n PROVE v[k + 1] = left[n - (k + 1)]
      OBVIOUS
    <3>1. k + 1 \in 1 .. n /\ n - k \in 1 .. 5 /\ n - (k + 1) = (n - k) - 1 /\ k <= n
      BY <1>1
    <3> DEFINE a == left[n - (k + 1)]
    <3>2. v[k] = left[n - k] /\ left[n - k] = a \div base
      BY <1>1, <2>3, <3>1
    <3>3. v[k + 1] = base * v[k] + ValueOf(text[k + 1])
      <4>1. (k + 1) - 1 = k
        OBVIOUS
      <4> QED BY <2>1, <3>1, <4>1
    <3>4. ValueOf(text[k + 1]) = a % base /\ a \in Nat
      BY <1>4, <3>1
    <3> HIDE DEF a
    <3>5. v[k + 1] = a
      BY <1>3, <3>2, <3>3, <3>4
    <3> QED BY <3>5 DEF a
  <2> HIDE DEF S
  <2>4. Nat \subseteq S
    BY <2>2, <2>3, NatSetInduction
  <2>5. v[n] = left[n - n]
    BY <1>1, <2>4 DEF S
  <2> QED BY <1>1, <2>1, <2>5
<1>9. \A k \in 1 .. n : text[k] # Blank /\ ValueOf(text[k]) < base
  BY <1>4
<1> QED BY <1>1, <1>2, <1>6, <1>7, <1>8, <1>9 DEF IsNumber

\* What _int() prints, and the length it returns.
LEMMA IntPrinted ==
  ASSUME NEW x \in Nat, Small(x), NEW base \in {10, 16}
  PROVE  IsNumber(_int(x, base).text, _int(x, base).n, x, base)
<1>1. CASE x = 0
  <2> DEFINE text == <<"0">>
  <2>1. _int(x, base).text = text /\ _int(x, base).n = 1
    BY <1>1 DEF _int, Printed
  <2>2. digits[1] = "0"
    BY DEF digits
  <2>3. "0" \in Chars /\ "0" # Blank /\ ValueOf("0") = 0
    <3>1. digits[0 + 1] \in Chars /\ digits[0 + 1] # Blank /\ ValueOf(digits[0 + 1]) = 0
      BY Digits16
    <3> QED BY <2>2, <3>1
  <2>4. text \in Seq(Chars) /\ Len(text) = 1 /\ text[1] = "0"
    BY <2>3
  <2> HIDE DEF text
  <2>5. Value(text, base) = 0
    <3>1. PICK v : /\ Value(text, base) = v[1] /\ v[0] = 0
                   /\ \A k \in 1 .. 1 : v[k] = base * v[k - 1] + ValueOf(text[k])
      BY <2>4, ValueRun
    <3>2. v[1] = base * v[0] + ValueOf(text[1])
      BY <3>1
    <3> QED BY <2>3, <2>4, <3>1, <3>2
  <2>6. \A k \in 1 .. 1 : text[k] # Blank /\ ValueOf(text[k]) < base
    BY <2>3, <2>4
  <2>7. IsNumber(text, 1, 0, base)
    BY <2>4, <2>5, <2>6 DEF IsNumber
  <2> QED BY <1>1, <2>1, <2>7
<1>2. CASE x # 0
  <2>1. ~(x < 0)
    OBVIOUS
  <2>2. _int(x, base).text = Figures(x, base) /\ _int(x, base).n = Len(Figures(x, base))
    BY <1>2, <2>1 DEF _int, Printed
  <2> QED BY <1>2, <2>2, FiguresRight
<1> QED BY <1>1, <1>2

\* A field of a row: the digits, and spaces up to eight characters.
Cell(x, base) == LET v == _int(x, base) IN v.text \o Spaces(8 - v.n)

LEMMA CellShows ==
  ASSUME NEW x \in Nat, Small(x), NEW base \in {10, 16}
  PROVE  Cell(x, base) \in Seq(Chars) /\ Len(Cell(x, base)) = 8 /\ Shows(Cell(x, base), x, base)
<1> DEFINE text == _int(x, base).text
           n == _int(x, base).n
           w == Cell(x, base)
<1>1. IsNumber(text, n, x, base)
  BY IntPrinted
<1>2. w = text \o Spaces(8 - n)
  BY DEF Cell
<1> HIDE DEF text, n, w
<1>3. /\ n \in 1 .. 5 /\ text \in Seq(Chars) /\ Len(text) = n
      /\ \A k \in 1 .. n : text[k] # Blank /\ ValueOf(text[k]) < base
      /\ n > 1 => text[1] # "0"
      /\ Value(text, base) = x
  BY <1>1 DEF IsNumber
<1> DEFINE m == 8 - n
           fill == Spaces(m)
<1>4. m \in Nat /\ n + m = 8
  BY <1>3
<1>5. fill \in [1 .. m -> Chars] /\ \A k \in 1 .. m : fill[k] = Blank
  BY DEF Spaces, Chars
<1> HIDE DEF m, fill
<1>6. fill \in Seq(Chars) /\ Len(fill) = m
  BY <1>4, <1>5, TextIs
<1>7. /\ w \in Seq(Chars) /\ Len(w) = n + m
      /\ \A i \in 1 .. n + m : w[i] = IF i <= n THEN text[i] ELSE fill[i - n]
  BY <1>2, <1>3, <1>6, ConcatProperties, SMTT(60) DEF fill, m
<1>8. Len(w) = 8 /\ \A i \in 1 .. 8 : w[i] = IF i <= n THEN text[i] ELSE fill[i - n]
  BY <1>4, <1>7
<1>9. \A i \in n + 1 .. 8 : w[i] = Blank
  <2> SUFFICES ASSUME NEW i \in n + 1 .. 8 PROVE w[i] = Blank
    OBVIOUS
  <2>1. i \in 1 .. 8 /\ ~(i <= n) /\ i - n \in 1 .. m
    BY <1>3, <1>4
  <2> QED BY <1>5, <1>8, <2>1
<1>10. \A i \in 1 .. n : w[i] = text[i]
  BY <1>3, <1>8
<1>11. SubSeq(w, 1, n) = text
  <2> DEFINE t == SubSeq(w, 1, n)
  <2>1. \A i \in 1 .. n : w[i] \in Chars
    BY <1>3, <1>10, ElementOfSeq
  <2>2. 1 \in Int /\ n \in Int /\ 1 <= n /\ n - 1 + 1 = n /\ \A i \in 1 .. n : 1 + i - 1 = i
    BY <1>3
  <2>3. t \in Seq(Chars) /\ Len(t) = (IF 1 <= n THEN n - 1 + 1 ELSE 0) /\ \A i \in 1 .. n - 1 + 1 : t[i] = w[1 + i - 1]
    BY <2>1, <2>2, SubSeqProperties
  <2> HIDE DEF t
  <2>4. Len(t) = n /\ \A i \in 1 .. n : t[i] = text[i]
    BY <1>10, <2>2, <2>3
  <2>5. t = text
    BY <1>3, <2>3, <2>4, SeqEqual
  <2> QED BY <2>5 DEF t
<1>12. Shows(w, x, base)
  <2>1. n \in 1 .. 8 /\ 1 \in 1 .. n
    BY <1>3
  <2>2. \A k \in 1 .. n : w[k] # Blank /\ ValueOf(w[k]) < base
    BY <1>3, <1>10
  <2>3. n > 1 => w[1] # "0"
    BY <1>3, <1>10, <2>1
  <2>4. Value(SubSeq(w, 1, n), base) = x
    BY <1>3, <1>11
  <2>5. n \in 1 .. Len(w) /\ \A k \in n + 1 .. Len(w) : w[k] = Blank
    BY <1>8, <1>9, <2>1
  <2> QED BY <2>2, <2>3, <2>4, <2>5, Zenon DEF Shows
<1>13. w \in Seq(Chars) /\ Len(w) = 8 /\ Shows(w, x, base)
  BY <1>7, <1>8, <1>12
<1> QED BY <1>13, Zenon DEF w

\* The width of a field, and the conversions.
LEMMA Characters ==
  /\ isdigit("8") /\ ~isdigit("d") /\ ~isdigit("x")
  /\ Len(<<"8">>) = 1 /\ str2uint(<<"8">>) = 8
<1>1. /\ digits[1] = "0" /\ digits[2] = "1" /\ digits[3] = "2" /\ digits[4] = "3" /\ digits[5] = "4"
      /\ digits[6] = "5" /\ digits[7] = "6" /\ digits[8] = "7" /\ digits[9] = "8" /\ digits[10] = "9"
  BY DEF digits
<1>2. isdigit("8")
  BY <1>1 DEF isdigit
<1>3. ~isdigit("d") /\ ~isdigit("x")
  <2>1. \A k \in 1 .. 10 : k \in {1, 2, 3, 4, 5, 6, 7, 8, 9, 10}
    OBVIOUS
  <2> QED BY <1>1, <2>1 DEF isdigit
<1> DEFINE s == <<"8">>
<1>4. Len(s) = 1 /\ s[1] = "8"
  OBVIOUS
<1>5. ValueOf("8") = 8
  <2>1. ValueOf(digits[8 + 1]) = 8
    BY Digits16
  <2> QED BY <1>1, <2>1
<1> HIDE DEF s
<1>6. Value(s, 10) = 8
  <2> DEFINE base == 10
  <2>1. Len(s) \in Nat
    BY <1>4
  <2>2. base * 0 + 8 = 8
    OBVIOUS
  <2> HIDE DEF base
  <2>3. PICK v : /\ Value(s, base) = v[Len(s)] /\ v[0] = 0
                 /\ \A k \in 1 .. Len(s) : v[k] = base * v[k - 1] + ValueOf(s[k])
    BY <2>1, ValueRun
  <2>4. v[1] = base * v[0] + ValueOf(s[1])
    BY <1>4, <2>3
  <2>5. Value(s, base) = 8
    BY <1>4, <1>5, <2>2, <2>3, <2>4
  <2> QED BY <2>5 DEF base
<1> QED BY <1>2, <1>3, <1>4, <1>6 DEF str2uint, s

\* What printf() has done.
Parts == {"state", "widbuf", "ap", "out"}
Stands(p, s, w, c, o) == DOMAIN p = Parts /\ p.state = s /\ p.widbuf = w /\ p.ap = c /\ p.out = o

LEMMA Starts ==
  ASSUME NEW p, NEW w, NEW c, NEW o, NEW args, Stands(p, "REGULAR", w, c, o)
  PROVE  Stands(Step(p, "%", args), "SPECIFIER", <<>>, c, o)
<1> DEFINE new == <<>>
<1>1. p.state = "REGULAR"
  BY DEF Stands
<1>2. Step(p, "%", args) = [p EXCEPT !.state = "SPECIFIER", !.widbuf = new]
  BY <1>1 DEF Step
<1> HIDE DEF new
<1>3. Stands([p EXCEPT !.state = "SPECIFIER", !.widbuf = new], "SPECIFIER", new, c, o)
  BY DEF Stands, Parts
<1>4. Stands(Step(p, "%", args), "SPECIFIER", new, c, o)
  BY <1>2, <1>3
<1> QED BY <1>4 DEF new

LEMMA Widens ==
  ASSUME NEW p, NEW c, NEW o, NEW args, Stands(p, "SPECIFIER", <<>>, c, o)
  PROVE  Stands(Step(p, "8", args), "SPECIFIER", <<"8">>, c, o)
<1> DEFINE new == Append(p.widbuf, "8")
<1>1. p.state # "REGULAR" /\ p.widbuf = <<>>
  BY DEF Stands
<1>2. Len(p.widbuf) < 10 /\ new = <<"8">>
  BY <1>1
<1>3. Step(p, "8", args) = [p EXCEPT !.widbuf = new]
  BY <1>1, <1>2, Characters DEF Step
<1> HIDE DEF new
<1>4. Stands([p EXCEPT !.widbuf = new], "SPECIFIER", new, c, o)
  BY DEF Stands, Parts
<1>5. Stands(Step(p, "8", args), "SPECIFIER", new, c, o)
  BY <1>3, <1>4
<1> QED BY <1>2, <1>5

LEMMA Converts ==
  ASSUME NEW p, NEW w, NEW c, NEW o, NEW args, NEW type, Stands(p, "SPECIFIER", w, c, o), ~isdigit(type),
         NEW t, NEW n, Converted(type, args[c]) = Printed(t, n)
  PROVE  Stands(Step(p, type, args), "REGULAR", w, c + 1, o \o t \o Spaces(Padding(w, n)))
<1> DEFINE v == Converted(type, args[p.ap])
           new == p.out \o v.text \o Spaces(Padding(p.widbuf, v.n))
           next == p.ap + 1
<1>1. p.state # "REGULAR" /\ p.widbuf = w /\ p.ap = c /\ p.out = o
  BY DEF Stands
<1>2. Step(p, type, args) = [p EXCEPT !.state = "REGULAR", !.ap = next, !.out = new]
  BY <1>1 DEF Step
<1>3. v.text = t /\ v.n = n
  BY <1>1 DEF Printed
<1>4. new = o \o t \o Spaces(Padding(w, n)) /\ next = c + 1
  <2> HIDE DEF v
  <2> QED BY <1>1, <1>3
<1> HIDE DEF new, next
<1>5. Stands([p EXCEPT !.state = "REGULAR", !.ap = next, !.out = new], "REGULAR", w, next, new)
  BY DEF Stands, Parts
<1> QED BY <1>2, <1>4, <1>5

LEMMA Joined ==
  ASSUME NEW o \in Seq(Chars), NEW t \in Seq(Chars), NEW u \in Seq(Chars)
  PROVE  (o \o t) \o u = o \o (t \o u)
BY ConcatAssociative

LEMMA FieldStep ==
  ASSUME NEW p0, NEW w, NEW c, NEW o \in Seq(Chars), NEW args, Stands(p0, "REGULAR", w, c, o),
         NEW type \in {"d", "x"}, NEW t \in Seq(Chars), NEW n \in 1 .. 5,
         Converted(type, args[c]) = Printed(t, n),
         NEW p1, p1 = Step(p0, "%", args), NEW p2, p2 = Step(p1, "8", args), NEW p3, p3 = Step(p2, type, args)
  PROVE  Stands(p3, "REGULAR", <<"8">>, c + 1, o \o (t \o Spaces(8 - n)))
<1> DEFINE m == 8 - n
           u == Spaces(m)
<1>1. Stands(p2, "SPECIFIER", <<"8">>, c, o)
  <2>1. Stands(p1, "SPECIFIER", <<>>, c, o)
    BY Starts
  <2> QED BY <2>1, Widens
<1>2. Padding(<<"8">>, n) = m
  <2>1. <<"8">> # <<>>
    OBVIOUS
  <2>2. ~(8 <= n)
    OBVIOUS
  <2> QED BY <2>1, <2>2, Characters DEF Padding
<1>3. m \in Nat
  OBVIOUS
<1>4. ~isdigit(type)
  BY Characters
<1> HIDE DEF m
<1>5. u \in Seq(Chars)
  <2>1. u \in [1 .. m -> Chars]
    BY DEF Spaces, Chars
  <2> QED BY <1>3, <2>1, TextIs
<1>6. Stands(p3, "REGULAR", <<"8">>, c + 1, (o \o t) \o u)
  <2>1. Stands(p3, "REGULAR", <<"8">>, c + 1, o \o t \o Spaces(Padding(<<"8">>, n)))
    BY <1>1, <1>4, Converts
  <2> QED BY <1>2, <2>1
<1> HIDE DEF u
<1>7. (o \o t) \o u = o \o (t \o u)
  BY <1>5, Joined
<1> QED BY <1>6, <1>7 DEF u, m

\* A row that is one field longer shows the fields before as it did.
LEMMA FieldAdded ==
  ASSUME NEW o \in Seq(Chars), NEW w \in Seq(Chars), NEW c \in Nat, Len(o) = 8 * c, Len(w) = 8
  PROVE  /\ o \o w \in Seq(Chars) /\ Len(o \o w) = 8 * (c + 1)
         /\ SubSeq(o \o w, 8 * (c + 1) - 7, 8 * (c + 1)) = w
         /\ \A j \in 1 .. c : SubSeq(o \o w, 8 * j - 7, 8 * j) = SubSeq(o, 8 * j - 7, 8 * j)
<1> DEFINE r == o \o w
<1>1. /\ r \in Seq(Chars) /\ Len(r) = Len(o) + Len(w)
      /\ \A i \in 1 .. Len(o) + Len(w) : r[i] = IF i <= Len(o) THEN o[i] ELSE w[i - Len(o)]
  BY ConcatProperties
<1> HIDE DEF r
<1>2. Len(r) = 8 * (c + 1) /\ \A i \in 1 .. 8 * (c + 1) : r[i] = (IF i <= 8 * c THEN o[i] ELSE w[i - 8 * c]) /\ r[i] \in Chars
  <2>1. Len(r) = 8 * (c + 1)
    BY <1>1
  <2>2. \A i \in 1 .. 8 * (c + 1) : r[i] = IF i <= 8 * c THEN o[i] ELSE w[i - 8 * c]
    BY <1>1, <2>1
  <2>3. \A i \in 1 .. 8 * (c + 1) : r[i] \in Chars
    BY <1>1, <2>1, ElementOfSeq
  <2> QED BY <2>1, <2>2, <2>3
<1>3. \A i \in 1 .. 8 * c : o[i] \in Chars
  BY ElementOfSeq
<1>4. ASSUME NEW s, NEW j \in 1 .. c + 1, \A i \in 8 * j - 7 .. 8 * j : s[i] \in Chars
      PROVE  LET t == SubSeq(s, 8 * j - 7, 8 * j)
             IN  t \in Seq(Chars) /\ Len(t) = 8 /\ \A i \in 1 .. 8 : t[i] = s[8 * j - 8 + i]
  <2> DEFINE a == 8 * j - 7
             b == 8 * j
             t == SubSeq(s, a, b)
  <2>1. a \in Int /\ b \in Int /\ a <= b /\ b - a + 1 = 8 /\ \A i \in 1 .. 8 : a + i - 1 = 8 * j - 8 + i
    OBVIOUS
  <2>2. \A i \in a .. b : s[i] \in Chars
    BY <1>4
  <2> HIDE DEF a, b
  <2>3. /\ t \in Seq(Chars) /\ Len(t) = (IF a <= b THEN b - a + 1 ELSE 0)
        /\ \A i \in 1 .. b - a + 1 : t[i] = s[a + i - 1]
    BY <2>1, <2>2, SubSeqProperties
  <2> HIDE DEF t
  <2>4. t \in Seq(Chars) /\ Len(t) = 8 /\ \A i \in 1 .. 8 : t[i] = s[8 * j - 8 + i]
    BY <2>1, <2>3
  <2> QED BY <2>4 DEF t, a, b
<1>5. SubSeq(r, 8 * (c + 1) - 7, 8 * (c + 1)) = w
  <2> DEFINE j == c + 1
             t == SubSeq(r, 8 * j - 7, 8 * j)
  <2>1. j \in 1 .. c + 1 /\ \A i \in 8 * j - 7 .. 8 * j : i \in 1 .. 8 * (c + 1)
    OBVIOUS
  <2>2. t \in Seq(Chars) /\ Len(t) = 8 /\ \A i \in 1 .. 8 : t[i] = r[8 * j - 8 + i]
    BY <1>2, <1>4, <2>1
  <2> HIDE DEF t
  <2>3. ASSUME NEW i \in 1 .. 8 PROVE t[i] = w[i]
    <3>1. 8 * j - 8 + i \in 1 .. 8 * (c + 1) /\ ~(8 * j - 8 + i <= 8 * c) /\ (8 * j - 8 + i) - 8 * c = i
      OBVIOUS
    <3> QED BY <1>2, <2>2, <3>1
  <2>4. t = w
    BY <2>2, <2>3, SeqEqual
  <2> QED BY <2>4 DEF t, j
<1>6. ASSUME NEW j \in 1 .. c PROVE SubSeq(r, 8 * j - 7, 8 * j) = SubSeq(o, 8 * j - 7, 8 * j)
  <2> DEFINE t == SubSeq(r, 8 * j - 7, 8 * j)
             u == SubSeq(o, 8 * j - 7, 8 * j)
  <2>1. j \in 1 .. c + 1 /\ \A i \in 8 * j - 7 .. 8 * j : i \in 1 .. 8 * (c + 1) /\ i \in 1 .. 8 * c
    OBVIOUS
  <2>2. t \in Seq(Chars) /\ Len(t) = 8 /\ \A i \in 1 .. 8 : t[i] = r[8 * j - 8 + i]
    BY <1>2, <1>4, <2>1
  <2>3. u \in Seq(Chars) /\ Len(u) = 8 /\ \A i \in 1 .. 8 : u[i] = o[8 * j - 8 + i]
    BY <1>3, <1>4, <2>1
  <2> HIDE DEF t, u
  <2>4. ASSUME NEW i \in 1 .. 8 PROVE t[i] = u[i]
    <3>1. 8 * j - 8 + i \in 1 .. 8 * (c + 1) /\ 8 * j - 8 + i <= 8 * c
      OBVIOUS
    <3> QED BY <1>2, <2>2, <2>3, <3>1
  <2>5. t = u
    BY <2>2, <2>3, <2>4, SeqEqual
  <2> QED BY <2>5 DEF t, u
<1> QED BY <1>1, <1>2, <1>5, <1>6 DEF r

Base(c) == IF c <= 3 THEN 10 ELSE 16

LEMMA FormatIs ==
  /\ Len(Format) = 21
  /\ \A c \in 1 .. 7 : /\ Format[3 * c - 2] = "%" /\ Format[3 * c - 1] = "8"
                       /\ Format[3 * c] = IF c <= 3 THEN "d" ELSE "x"
<1>1. Len(Format) = 21
  BY DEF Format
<1>2. /\ Format[1] = "%" /\ Format[2] = "8" /\ Format[3] = "d" /\ Format[4] = "%" /\ Format[5] = "8"
      /\ Format[6] = "d" /\ Format[7] = "%" /\ Format[8] = "8" /\ Format[9] = "d" /\ Format[10] = "%"
      /\ Format[11] = "8" /\ Format[12] = "x" /\ Format[13] = "%" /\ Format[14] = "8" /\ Format[15] = "x"
      /\ Format[16] = "%" /\ Format[17] = "8" /\ Format[18] = "x" /\ Format[19] = "%" /\ Format[20] = "8"
      /\ Format[21] = "x"
  BY DEF Format
<1>3. \A c \in 1 .. 7 : c \in {1, 2, 3, 4, 5, 6, 7}
  OBVIOUS
<1> QED BY <1>1, <1>2, <1>3

\* What seven fields of 16 bits each are printed as.
LEMMA RowShows ==
  ASSUME NEW args, \A c \in 1 .. 7 : args[c] \in Nat /\ Small(args[c])
  PROVE  \A c \in 1 .. 7 : Shows(SubSeq(printf(Format, args), 8 * c - 7, 8 * c), args[c], Base(c))
<1> DEFINE Col(o, c) == SubSeq(o, 8 * c - 7, 8 * c)
           Field(c) == Cell(args[c], Base(c))
<1>1. PICK p : /\ printf(Format, args) = p[21].out /\ p[0] = Begin
               /\ \A k \in 1 .. 21 : p[k] = Step(p[k - 1], Format[k], args)
  <2>1. Len(Format) \in Nat
    BY FormatIs
  <2>2. \E p : /\ printf(Format, args) = p[Len(Format)].out /\ p[0] = Begin
               /\ \A k \in 1 .. Len(Format) : p[k] = Step(p[k - 1], Format[k], args)
    BY <2>1, PrintfRun
  <2> QED BY <2>2, FormatIs
<1>2. \A c \in 1 .. 7 : Base(c) \in {10, 16} /\ Field(c) \in Seq(Chars) /\ Len(Field(c)) = 8 /\ Shows(Field(c), args[c], Base(c))
  <2> SUFFICES ASSUME NEW c \in 1 .. 7
               PROVE  /\ Base(c) \in {10, 16} /\ Field(c) \in Seq(Chars) /\ Len(Field(c)) = 8
                      /\ Shows(Field(c), args[c], Base(c))
    OBVIOUS
  <2>1. Base(c) \in {10, 16}
    BY DEF Base
  <2> QED BY <2>1, CellShows
<1> DEFINE Done(q, c) ==
             \E w, o : /\ Stands(q, "REGULAR", w, c + 1, o) /\ o \in Seq(Chars) /\ Len(o) = 8 * c
                       /\ \A j \in 1 .. c : Col(o, j) = Field(j)
           S == {c \in Nat : c <= 7 => Done(p[3 * c], c)}
<1>3. 0 \in S
  <2> DEFINE none == <<>>
  <2>1. none \in Seq(Chars) /\ Len(none) = 0
    OBVIOUS
  <2>2. Begin = [state |-> "REGULAR", widbuf |-> none, ap |-> 1, out |-> none]
    BY DEF Begin
  <2> HIDE DEF none
  <2>3. Stands(Begin, "REGULAR", none, 1, none)
    BY <2>2 DEF Stands, Parts
  <2>4. 3 * 0 = 0 /\ 0 + 1 = 1 /\ 8 * 0 = 0 /\ 1 .. 0 = {}
    OBVIOUS
  <2>5. Stands(p[3 * 0], "REGULAR", none, 0 + 1, none)
    BY <1>1, <2>3, <2>4
  <2> HIDE DEF Col, Field
  <2> QED BY <2>1, <2>4, <2>5
<1>4. ASSUME NEW c \in Nat, c \in S PROVE c + 1 \in S
  <2> SUFFICES ASSUME c + 1 <= 7 PROVE Done(p[3 * (c + 1)], c + 1)
    <3> HIDE DEF Done
    <3> QED OBVIOUS
  <2> DEFINE d == c + 1
             type == IF d <= 3 THEN "d" ELSE "x"
             t == _int(args[d], Base(d)).text
             n == _int(args[d], Base(d)).n
             cell == t \o Spaces(8 - n)
  <2>1. d \in 1 .. 7 /\ c <= 7 /\ d \in Nat
    OBVIOUS
  <2>2. PICK w, o : /\ Stands(p[3 * c], "REGULAR", w, d, o) /\ o \in Seq(Chars) /\ Len(o) = 8 * c
                    /\ \A j \in 1 .. c : Col(o, j) = Field(j)
    BY <1>4, <2>1
  <2> HIDE DEF Col, Field
  <2>3. type \in {"d", "x"} /\ Base(d) = (IF type = "d" THEN 10 ELSE 16) /\ Format[3 * d] = type
        /\ Format[3 * d - 2] = "%" /\ Format[3 * d - 1] = "8"
    BY <2>1, FormatIs DEF Base
  <2>4. t \in Seq(Chars) /\ n \in 1 .. 5
    <3>1. IsNumber(t, n, args[d], Base(d))
      BY <1>2, <2>1, IntPrinted
    <3> HIDE DEF t, n
    <3> QED BY <3>1 DEF IsNumber
  <2>5. Converted(type, args[d]) = Printed(t, n)
    <3>1. _int(args[d], Base(d)) = Printed(t, n)
      BY DEF _int, Printed
    <3> HIDE DEF t, n
    <3>2. Converted(type, args[d]) = _int(args[d], Base(d))
      BY <2>3 DEF Converted
    <3> QED BY <3>1, <3>2
  <2>6. Field(d) = cell
    BY Zenon DEF Field, Cell
  <2> HIDE DEF t, n, type
  <2>7. /\ p[3 * d - 2] = Step(p[3 * c], "%", args) /\ p[3 * d - 1] = Step(p[3 * d - 2], "8", args)
        /\ p[3 * d] = Step(p[3 * d - 1], type, args)
    <3>1. /\ 3 * d - 2 \in 1 .. 21 /\ 3 * d - 1 \in 1 .. 21 /\ 3 * d \in 1 .. 21
          /\ (3 * d - 2) - 1 = 3 * c /\ (3 * d - 1) - 1 = 3 * d - 2
      BY <2>1
    <3>2. p[3 * d - 2] = Step(p[3 * c], "%", args)
      BY <1>1, <2>3, <3>1
    <3>3. p[3 * d - 1] = Step(p[3 * d - 2], "8", args)
      BY <1>1, <2>3, <3>1
    <3>4. p[3 * d] = Step(p[3 * d - 1], type, args)
      BY <1>1, <2>3, <3>1
    <3> QED BY <3>2, <3>3, <3>4
  <2> HIDE DEF d
  <2>8. Stands(p[3 * d], "REGULAR", <<"8">>, d + 1, o \o cell)
    BY <2>2, <2>3, <2>4, <2>5, <2>7, FieldStep
  <2>9. cell \in Seq(Chars) /\ Len(cell) = 8
    BY <1>2, <2>1, <2>6
  <2> DEFINE r == o \o cell
  <2> HIDE DEF cell
  <2>10. /\ r \in Seq(Chars) /\ Len(r) = 8 * d /\ Col(r, d) = cell
         /\ \A j \in 1 .. c : Col(r, j) = Col(o, j)
    <3>1. /\ r \in Seq(Chars) /\ Len(r) = 8 * (c + 1)
          /\ SubSeq(r, 8 * (c + 1) - 7, 8 * (c + 1)) = cell
          /\ \A j \in 1 .. c : SubSeq(r, 8 * j - 7, 8 * j) = SubSeq(o, 8 * j - 7, 8 * j)
      <4>1. o \in Seq(Chars) /\ Len(o) = 8 * c /\ cell \in Seq(Chars) /\ Len(cell) = 8
        BY <2>2, <2>9
      <4> QED BY <4>1, FieldAdded, ZenonT(60)
    <3> HIDE DEF r
    <3> QED BY <3>1, Zenon DEF Col, d
  <2> HIDE DEF r
  <2>11. ASSUME NEW j \in 1 .. d PROVE Col(r, j) = Field(j)
    <3>1. CASE j = d
      BY <2>6, <2>10, <3>1
    <3>2. CASE j # d
      <4>1. j \in 1 .. c
        BY <3>2 DEF d
      <4> QED BY <2>2, <2>10, <4>1
    <3> QED BY <3>1, <3>2
  <2>12. Stands(p[3 * d], "REGULAR", <<"8">>, d + 1, r)
    BY <2>8 DEF r
  <2>13. Done(p[3 * d], d)
    BY <2>10, <2>11, <2>12
  <2> QED BY <2>13 DEF d
<1> HIDE DEF S
<1>5. Nat \subseteq S
  BY <1>3, <1>4, NatSetInduction
<1>6. Done(p[21], 7)
  <2>1. 7 \in S /\ 3 * 7 = 21
    BY <1>5
  <2> HIDE DEF Done
  <2> QED BY <2>1 DEF S
<1>7. PICK w, o : Stands(p[21], "REGULAR", w, 7 + 1, o) /\ \A j \in 1 .. 7 : Col(o, j) = Field(j)
  BY <1>6
<1>8. printf(Format, args) = o
  BY <1>1, <1>7 DEF Stands
<1> HIDE DEF Col, Field
<1>9. \A c \in 1 .. 7 : Shows(Col(printf(Format, args), c), args[c], Base(c))
  BY <1>2, <1>7, <1>8
<1> QED BY <1>9 DEF Col

\* The fields of a function that a machine has fit into 16 bits.
LEMMA FieldsSmall ==
  ASSUME NEW loc \in DOMAIN topology, topology \in Topologies, NEW q, q.loc = loc, q.hdr = topology[loc]
  PROVE  \A c \in 1 .. 7 : Fields(q)[c] \in Nat /\ Small(Fields(q)[c])
<1>1. loc \in Addresses /\ Widths(q.hdr) /\ NDEV_PER_BUS \in Nat /\ NDEV_PER_BUS <= 32
      /\ NFUN_PER_DEV \in Nat /\ NFUN_PER_DEV <= 8
  BY TopologiesAssumption, PciAssumption
<1>2. loc[1] \in 0 .. 255 /\ loc[2] \in 0 .. NDEV_PER_BUS - 1 /\ loc[3] \in 0 .. NFUN_PER_DEV - 1
  BY <1>1 DEF Addresses
<1>3. \A k \in Nat : k <= 255 => Small(k)
  BY DEF Small
<1>4. /\ loc[1] \in Nat /\ loc[1] <= 255 /\ loc[2] \in Nat /\ loc[2] <= 255
      /\ loc[3] \in Nat /\ loc[3] <= 255
  BY <1>1, <1>2
<1>5. /\ q.hdr.vendorid \in Nat /\ Small(q.hdr.vendorid) /\ q.hdr.deviceid \in Nat /\ Small(q.hdr.deviceid)
      /\ q.hdr.class \in Nat /\ q.hdr.class <= 255 /\ q.hdr.subclass \in Nat /\ q.hdr.subclass <= 255
  BY <1>1 DEF Widths, Small
<1>6. /\ Fields(q)[1] = loc[1] /\ Fields(q)[2] = loc[2] /\ Fields(q)[3] = loc[3]
      /\ Fields(q)[4] = q.hdr.vendorid /\ Fields(q)[5] = q.hdr.deviceid
      /\ Fields(q)[6] = q.hdr.class /\ Fields(q)[7] = q.hdr.subclass
  BY DEF Fields
<1>7. \A c \in 1 .. 7 : c \in {1, 2, 3, 4, 5, 6, 7}
  OBVIOUS
<1> QED BY <1>3, <1>4, <1>5, <1>6, <1>7

\* A row of the list of pci_list() is in columns of eight characters, and each
\* column shows its field: the number, without leading zeros, then spaces.
THEOREM LinesUp == Spec => []ListLinesUp
<1>1. PciTypes /\ ScanInv => ListLinesUp
  <2> SUFFICES ASSUME PciTypes, ScanInv, NEW q \in Range(pcidevs), NEW c \in 1 .. 7
               PROVE  Shows(SubSeq(Row(q), 8 * c - 7, 8 * c), Fields(q)[c], IF c <= 3 THEN 10 ELSE 16)
    BY DEF ListLinesUp
  <2>1. PICK j \in 1 .. Len(pcidevs) : q = pcidevs[j]
    <3>1. pcidevs \in Seq(Records)
      BY DEF PciTypes
    <3>2. DOMAIN pcidevs = 1 .. Len(pcidevs)
      BY <3>1, LenProperties
    <3> QED BY <3>2 DEF Range
  <2>2. /\ q.loc \in DOMAIN topology /\ q.hdr = topology[q.loc] /\ topology \in Topologies
    <3>1. topology \in Topologies
      BY DEF PciTypes
    <3>2. pcidevs[j].loc \in VisibleIn(topology) /\ pcidevs[j].hdr = topology[pcidevs[j].loc]
      BY DEF ScanInv, Scanned, Listed
    <3>3. pcidevs[j].loc \in DOMAIN topology
      BY <3>2 DEF VisibleIn
    <3> QED BY <2>1, <3>1, <3>2, <3>3
  <2>3. \A k \in 1 .. 7 : Fields(q)[k] \in Nat /\ Small(Fields(q)[k])
    BY <2>2, FieldsSmall
  <2>4. Shows(SubSeq(printf(Format, Fields(q)), 8 * c - 7, 8 * c), Fields(q)[c], Base(c))
    BY <2>3, RowShows
  <2> QED BY <2>4, Zenon DEF Row, Base
<1> QED BY <1>1, ScanAlways, PTL
=============================================================================
