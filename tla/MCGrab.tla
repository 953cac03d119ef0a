------------------------------- MODULE MCGrab -------------------------------
(* Three drives of two partitions, one of which may be missing or have no    *)
(* partition table; systems, empty and missing /boot directories, blank and  *)
(* unused partitions; a menu that fills the screen and one that scrolls.     *)
EXTENDS Grab

Part(fs_, boot, entries) == [nsectors |-> TRUE, fs |-> fs_, boot |-> boot, entries |-> entries]

Unused  == [nsectors |-> FALSE, fs |-> FALSE, boot |-> "missing", entries |-> <<>>]
Raw     == Part(FALSE, "missing", <<>>)
NoBoot  == Part(TRUE, "missing", <<>>)
Empty   == Part(TRUE, "dir", <<>>)
File    == Part(TRUE, "file", <<"text">>)
Systems(n) == Part(TRUE, "dir", [k \in 1 .. n |-> <<"one", "two", "three", "four">>[k]])

MCParts == {Unused, Raw, NoBoot, Empty, File, Systems(2), Systems(4)}

Table(p, q) == [y \in Partitions |-> IF y = 0 THEN p ELSE q]
Drive(p, q) == [exist |-> TRUE, msdos |-> TRUE, part |-> Table(p, q)]
Absent      == [exist |-> FALSE, msdos |-> FALSE, part |-> Table(Unused, Unused)]
NoTable     == [exist |-> TRUE, msdos |-> FALSE, part |-> Table(Unused, Unused)]

\* Any first partitions on two drives, and a third drive of every kind.
MCDisks ==
  {[x \in Drives |-> CASE x = 0 -> Drive(p, q) [] x = 1 -> Drive(Systems(2), r) [] x = 2 -> d] :
     p \in MCParts, q \in {Raw, Systems(1)}, r \in MCParts,
     d \in {Absent, NoTable, Drive(Systems(3), NoBoot)}}
=============================================================================
