------------------------------ MODULE LineSpec ------------------------------
(***************************************************************************)
(* What the command line of grab/shell.c promises to whoever types on it,  *)
(* with no word of arrays or of the screen: a line with a cursor in it,    *)
(* and the command that enter runs.                                        *)
(***************************************************************************)
EXTENDS Sequences, SequencesExt, Naturals

CONSTANTS
  Chars,  \* printable characters
  Room    \* characters a line can hold

VARIABLES
  left,   \* what is before the cursor
  right,  \* what is after it
  ran     \* the last command that was run

vars == <<left, right, ran>>

Init == left = <<>> /\ right = <<>> /\ ran = <<>>

Type(c) ==
  /\ Len(left) + Len(right) < Room
  /\ left' = Append(left, c)
  /\ UNCHANGED <<right, ran>>

Backspace == left # <<>> /\ left' = Front(left) /\ UNCHANGED <<right, ran>>

MoveLeft ==
  /\ left # <<>>
  /\ left' = Front(left) /\ right' = <<Last(left)>> \o right
  /\ UNCHANGED ran

MoveRight ==
  /\ right # <<>>
  /\ left' = Append(left, Head(right)) /\ right' = Tail(right)
  /\ UNCHANGED ran

\* Enter runs the whole line, wherever the cursor is.
Enter == ran' = left \o right /\ left' = <<>> /\ right' = <<>>

Next == (\E c \in Chars : Type(c)) \/ Backspace \/ MoveLeft \/ MoveRight \/ Enter

Spec == Init /\ [][Next]_vars
=============================================================================
