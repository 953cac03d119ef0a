------------------------------ MODULE FileSpec ------------------------------
(***************************************************************************)
(* What fs/fs.c promises of its files, with no word of blocks, pointers or *)
(* bitmaps: a file is a size and an array of bytes, and a call changes     *)
(* bytes of its own file only, inside the range it was given, to the bytes *)
(* it was given.  The bytes may reach the disk in any order and in pieces; *)
(* a call that returns m has stored its first m bytes, and the size        *)
(* changes together with the return.  A crash loses the call in progress   *)
(* and nothing else.                                                       *)
(***************************************************************************)
EXTENDS Integers, Sequences

CONSTANTS
  Inum,      \* inode numbers
  MaxSize,   \* bytes a file can hold
  Requests   \* the requests callers make

VARIABLES
  size,    \* size of each file
  bytes,   \* bytes of each file, beyond its size too
  call     \* the request in progress, a set of none or one

vars == <<size, bytes, call>>

Positions == 0 .. MaxSize - 1

\* Positions of the first m bytes of a request.
Range(r, m) == Positions \cap r.off .. r.off + m - 1

Init ==
  /\ size = [n \in Inum |-> 0]
  /\ bytes = [n \in Inum |-> [o \in Positions |-> 0]]
  /\ call = {}

\* The bytes of the request at positions P are stored.
Stored(r, P) ==
  IF r.w THEN [bytes EXCEPT ![r.inum] =
                 [o \in Positions |-> IF o \in P THEN r.buf[o - r.off + 1]
                                      ELSE @[o]]]
  ELSE bytes

Begin(r) ==
  /\ call = {} /\ call' = {r}
  /\ r.inum \in Inum
  /\ UNCHANGED <<size, bytes>>

\* Some of the bytes reach the disk.
Store(r) ==
  /\ r \in call
  /\ \E P \in SUBSET Range(r, r.sz) : bytes' = Stored(r, P)
  /\ UNCHANGED <<size, call>>

\* The call returns m; the m bytes it reports are those on the disk.
End(r, m) ==
  /\ r \in call /\ call' = {}
  /\ bytes' = Stored(r, Range(r, m))
  /\ size' = IF r.w /\ r.off + m > size[r.inum]
             THEN [size EXCEPT ![r.inum] = r.off + m] ELSE size

Crash == call # {} /\ call' = {} /\ UNCHANGED <<size, bytes>>

Next == \/ \E r \in Requests : Begin(r) \/ Store(r) \/ \E m \in 0 .. r.sz : End(r, m)
        \/ Crash

Spec == Init /\ [][Next]_vars
=============================================================================
