------------------------------ MODULE NameSpec ------------------------------
(***************************************************************************)
(* What fs/fs.c promises of the names of its files, with no word of        *)
(* entries, slashes or link counts: a tree of names, to which a call adds  *)
(* one name below a directory that is there, in one step.  Names are never *)
(* removed or changed.  A crash loses the call in progress and no name.    *)
(***************************************************************************)
EXTENDS Sequences, SequencesExt

CONSTANTS
  Inum,     \* inode numbers
  Routes,   \* sequences of names, the root's is empty
  Root,     \* inode number of the root
  Dir,      \* type of a directory
  Types     \* types a call may ask for

VARIABLES
  node,   \* inode number and type of each name in the tree, by its route
  call    \* the call in progress, a set of none or one

vars == <<node, call>>

Init ==
  /\ node = [r \in {<<>>} |-> [inum |-> Root, type |-> Dir]]
  /\ call = {}

\* A call for a new name in a directory, and the inode it will have.
Calls == [route : Routes \ {<<>>}, type : Types, inum : Inum]

Begin ==
  /\ call = {} /\ call' # {}
  /\ \E c \in Calls :
       /\ call' = {c}
       /\ c.route \notin DOMAIN node
       /\ Front(c.route) \in DOMAIN node /\ node[Front(c.route)].type = Dir
       /\ \A s \in DOMAIN node : node[s].inum # c.inum
  /\ UNCHANGED node

\* The name appears, and is there for good.
Appear(c) ==
  /\ c \in call /\ c.route \notin DOMAIN node
  /\ node' = [s \in DOMAIN node \cup {c.route} |->
                IF s = c.route THEN [inum |-> c.inum, type |-> c.type] ELSE node[s]]
  /\ UNCHANGED call

\* The call ends, with or without its name; so does it in a crash.
End == call # {} /\ call' = {} /\ UNCHANGED node

Next == Begin \/ (\E c \in call : Appear(c)) \/ End

Spec == Init /\ [][Next]_vars
=============================================================================
