----------------------------- MODULE ShellProofs -----------------------------
(***************************************************************************)
(* Proofs that the command buffer of Shell is the line of LineSpec, and    *)
(* that the screen shows that buffer, for every size of screen and of      *)
(* buffer, every prompt and every output.  Nothing the screen does can     *)
(* disturb the buffer: the editor never reads back what it has drawn.      *)
(***************************************************************************)
EXTENDS Shell, SequenceTheorems, WellFoundedInduction, TLAPS

\* The part of the types that the buffer alone keeps.
BufOK ==
  /\ buf \in [0 .. CMDLEN - 1 -> Chars \cup {NUL}]
  /\ len \in 0 .. CMDLEN - 1 /\ off \in 0 .. len
  /\ \A i \in 0 .. len - 1 : buf[i] \in Chars

LEMMA InitBuf == Init => BufOK
BY ScreenAssumption DEF Init, BufOK

LEMMA BufStep == BufOK /\ [Next]_vars => BufOK'
<1> SUFFICES ASSUME BufOK, [Next]_vars PROVE BufOK'
  OBVIOUS
<1> USE ScreenAssumption DEF BufOK
<1>1. ASSUME NEW c \in Chars, Insert(c) PROVE BufOK'
  <2>1. len < CMDLEN - 1 /\ off' = off + 1 /\ len' = len + 1
    BY <1>1 DEF Insert, Full
  <2>2. \A i \in 0 .. CMDLEN - 1 :
          buf'[i] = IF i \in off + 1 .. len THEN buf[i - 1] ELSE IF i = off THEN c ELSE buf[i]
    BY <1>1 DEF Insert
  <2>3. buf' \in [0 .. CMDLEN - 1 -> Chars \cup {NUL}]
    BY <1>1, <2>1 DEF Insert
  <2>4. \A i \in 0 .. len : buf'[i] \in Chars
    BY <2>1, <2>2
  <2> QED
    BY <2>1, <2>3, <2>4
<1>2. CASE Backspace
  <2>1. off > 0 /\ off' = off - 1 /\ len' = len - 1
    BY <1>2 DEF Backspace
  <2>2. \A i \in 0 .. CMDLEN - 1 :
          buf'[i] = IF i \in off - 1 .. len - 1 THEN buf[i + 1] ELSE buf[i]
    BY <1>2 DEF Backspace
  <2>3. buf' \in [0 .. CMDLEN - 1 -> Chars \cup {NUL}]
    BY <1>2, <2>1 DEF Backspace
  <2>4. \A i \in 0 .. len - 2 : buf'[i] \in Chars
    BY <2>1, <2>2
  <2> QED
    BY <2>1, <2>3, <2>4
<1>3. CASE Left
  BY <1>3 DEF Left
<1>4. CASE Right
  BY <1>4 DEF Right
<1>5. ASSUME NEW s \in Outputs, Enter(s) PROVE BufOK'
  <2>1. buf' = [buf EXCEPT ![len] = NUL] /\ off' = 0 /\ len' = 0
    BY <1>5 DEF Enter, Terminator
  <2> QED
    BY <2>1
<1>6. CASE InsertPanics
  BY <1>6 DEF InsertPanics, line
<1>7. CASE UNCHANGED vars
  BY <1>7 DEF vars, line
<1> QED
  BY <1>1, <1>2, <1>3, <1>4, <1>5, <1>6, <1>7 DEF Next

-----------------------------------------------------------------------------
(***************************************************************************)
(* The line, as a pair of sequences.                                       *)
(***************************************************************************)

Before(b, o)   == [i \in 1 .. o |-> b[i - 1]]
After(b, o, l) == [i \in 1 .. l - o |-> b[o + i - 1]]

\* The first l characters of c are those of a command.
IsLine(c, l) == \A i \in 0 .. l - 1 : c[i] \in Chars

LEMMA BeforeAt ==
  ASSUME NEW c, NEW o, NEW i \in 1 .. o
  PROVE  Before(c, o)[i] = c[i - 1]
BY DEF Before

LEMMA AfterAt ==
  ASSUME NEW c, NEW o, NEW l, NEW i \in 1 .. l - o
  PROVE  After(c, o, l)[i] = c[o + i - 1]
BY DEF After

LEMMA Halves ==
  ASSUME NEW c, NEW l \in Nat, NEW o \in 0 .. l, IsLine(c, l)
  PROVE  /\ Before(c, o) \in Seq(Chars) /\ Len(Before(c, o)) = o
         /\ After(c, o, l) \in Seq(Chars) /\ Len(After(c, o, l)) = l - o
<1>1. Before(c, o) \in [1 .. o -> Chars]
  BY DEF Before, IsLine
<1>2. After(c, o, l) \in [1 .. l - o -> Chars]
  BY DEF After, IsLine
<1>3. o \in Nat /\ l - o \in Nat
  OBVIOUS
<1> QED
  BY <1>1, <1>2, <1>3

LEMMA SameLine ==
  ASSUME NEW s \in Seq(Chars), NEW t \in Seq(Chars), Len(s) = Len(t),
         \A i \in 1 .. Len(s) : s[i] = t[i]
  PROVE  s = t
BY SeqEqual

\* How a line is told, element by element, from another.
LEMMA AppendIs ==
  ASSUME NEW s \in Seq(Chars), NEW t \in Seq(Chars), NEW c \in Chars,
         Len(t) = Len(s) + 1, t[Len(s) + 1] = c, \A i \in 1 .. Len(s) : t[i] = s[i]
  PROVE  t = Append(s, c)
<1>1. Append(s, c) \in Seq(Chars) /\ Len(Append(s, c)) = Len(s) + 1
  OBVIOUS
<1>2. \A i \in 1 .. Len(t) : t[i] = Append(s, c)[i]
  BY AppendProperties
<1> QED
  BY <1>1, <1>2, SameLine

LEMMA FrontIs ==
  ASSUME NEW s \in Seq(Chars), NEW t \in Seq(Chars),
         Len(s) = Len(t) + 1, \A i \in 1 .. Len(t) : t[i] = s[i]
  PROVE  t = SubSeq(s, 1, Len(s) - 1)
<1> DEFINE f == SubSeq(s, 1, Len(s) - 1)
<1>1. f \in Seq(Chars) /\ Len(f) = Len(t) /\ \A i \in 1 .. Len(t) : f[i] = s[i]
  BY SubSeqProperties
<1> QED
  BY <1>1, SameLine

LEMMA ConcatIs ==
  ASSUME NEW s \in Seq(Chars), NEW r \in Seq(Chars), NEW t \in Seq(Chars),
         Len(t) = Len(s) + Len(r), \A i \in 1 .. Len(s) : t[i] = s[i],
         \A i \in 1 .. Len(r) : t[Len(s) + i] = r[i]
  PROVE  t = s \o r
<1>1. s \o r \in Seq(Chars) /\ Len(s \o r) = Len(t)
  BY ConcatProperties
<1>2. ASSUME NEW i \in 1 .. Len(t) PROVE t[i] = (s \o r)[i]
  <2>1. CASE i <= Len(s)
    BY <2>1, ConcatProperties
  <2>2. CASE i > Len(s)
    <3>1. i - Len(s) \in 1 .. Len(r) /\ Len(s) + (i - Len(s)) = i
      BY <2>2
    <3>2. t[i] = r[i - Len(s)]
      BY <3>1
    <3> QED
      BY <2>2, <3>2, ConcatProperties
  <2> QED
    BY <2>1, <2>2
<1> QED
  BY <1>1, <1>2, SameLine

LEMMA PushIs ==
  ASSUME NEW s \in Seq(Chars), NEW t \in Seq(Chars), NEW c \in Chars,
         Len(t) = Len(s) + 1, t[1] = c, \A i \in 1 .. Len(s) : t[i + 1] = s[i]
  PROVE  t = <<c>> \o s
<1>1. <<c>> \in Seq(Chars) /\ Len(<<c>>) = 1 /\ <<c>>[1] = c
  OBVIOUS
<1>2. \A i \in 1 .. 1 : t[i] = <<c>>[i]
  BY <1>1
<1>3. \A i \in 1 .. Len(s) : t[1 + i] = s[i]
  OBVIOUS
<1> QED
  BY <1>1, <1>2, <1>3, ConcatIs

LEMMA TailIs ==
  ASSUME NEW s \in Seq(Chars), NEW t \in Seq(Chars),
         Len(s) = Len(t) + 1, \A i \in 1 .. Len(t) : t[i] = s[i + 1]
  PROVE  t = Tail(s)
<1>1. Tail(s) \in Seq(Chars) /\ Len(Tail(s)) = Len(t) /\ \A i \in 1 .. Len(t) : Tail(s)[i] = s[i + 1]
  BY HeadTailProperties
<1> QED
  BY <1>1, SameLine

-----------------------------------------------------------------------------
(***************************************************************************)
(* What each edit of the buffer c, which leaves d, does to the line.       *)
(***************************************************************************)

Inserted(c, d, l, o, x) ==
  \A i \in 0 .. l : d[i] = IF i \in o + 1 .. l THEN c[i - 1] ELSE IF i = o THEN x ELSE c[i]

Removed(c, d, l, o) ==
  \A i \in 0 .. l - 2 : d[i] = IF i \in o - 1 .. l - 1 THEN c[i + 1] ELSE c[i]

LEMMA OnInsert ==
  ASSUME NEW c, NEW d, NEW l \in Nat, NEW o \in 0 .. l, NEW x \in Chars, IsLine(c, l),
         Inserted(c, d, l, o, x)
  PROVE  /\ Before(d, o + 1) = Append(Before(c, o), x)
         /\ After(d, o + 1, l + 1) = After(c, o, l)
<1>1. l + 1 \in Nat /\ o + 1 \in 0 .. l + 1 /\ IsLine(d, l + 1)
  BY DEF IsLine, Inserted
<1>2. /\ Before(c, o) \in Seq(Chars) /\ Len(Before(c, o)) = o
      /\ After(c, o, l) \in Seq(Chars) /\ Len(After(c, o, l)) = l - o
  BY Halves
<1>3. /\ Before(d, o + 1) \in Seq(Chars) /\ Len(Before(d, o + 1)) = o + 1
      /\ After(d, o + 1, l + 1) \in Seq(Chars) /\ Len(After(d, o + 1, l + 1)) = l + 1 - (o + 1)
  <2>1. PICK p, m : p = o + 1 /\ m = l + 1
    OBVIOUS
  <2>2. m \in Nat /\ p \in 0 .. m /\ IsLine(d, m)
    BY <1>1, <2>1
  <2>3. /\ Before(d, p) \in Seq(Chars) /\ Len(Before(d, p)) = p
        /\ After(d, p, m) \in Seq(Chars) /\ Len(After(d, p, m)) = m - p
    BY <2>2, Halves
  <2> QED
    BY <2>1, <2>3
<1>4. ASSUME NEW i \in 1 .. o PROVE Before(d, o + 1)[i] = Before(c, o)[i]
  <2>1. Before(c, o)[i] = c[i - 1] /\ i \in 1 .. o + 1
    BY BeforeAt
  <2>2. Before(d, o + 1)[i] = d[i - 1]
    BY <2>1, BeforeAt
  <2>3. d[i - 1] = c[i - 1]
    BY DEF Inserted
  <2> QED
    BY <2>1, <2>2, <2>3
<1>5. Before(d, o + 1)[o + 1] = x
  <2>1. o + 1 \in 1 .. o + 1 /\ d[o + 1 - 1] = x
    BY DEF Inserted
  <2> QED
    BY <2>1, BeforeAt
<1>6. ASSUME NEW i \in 1 .. l - o PROVE After(d, o + 1, l + 1)[i] = After(c, o, l)[i]
  <2>1. After(c, o, l)[i] = c[o + i - 1] /\ i \in 1 .. l + 1 - (o + 1)
    BY AfterAt
  <2>2. After(d, o + 1, l + 1)[i] = d[o + 1 + i - 1]
    BY <2>1, AfterAt
  <2>3. d[o + 1 + i - 1] = c[o + i - 1]
    <3>1. o + 1 + i - 1 \in o + 1 .. l /\ o + 1 + i - 1 - 1 = o + i - 1
      OBVIOUS
    <3> QED
      BY <3>1 DEF Inserted
  <2> QED
    BY <2>1, <2>2, <2>3
<1>7. Before(d, o + 1) = Append(Before(c, o), x)
  BY <1>2, <1>3, <1>4, <1>5, AppendIs
<1>8. After(d, o + 1, l + 1) = After(c, o, l)
  BY <1>2, <1>3, <1>6, SameLine
<1> QED
  BY <1>7, <1>8

LEMMA OnBackspace ==
  ASSUME NEW c, NEW d, NEW l \in Nat, NEW o \in 1 .. l, IsLine(c, l),
         Removed(c, d, l, o)
  PROVE  /\ Before(c, o) # <<>>
         /\ Before(d, o - 1) = SubSeq(Before(c, o), 1, Len(Before(c, o)) - 1)
         /\ After(d, o - 1, l - 1) = After(c, o, l)
<1>1. l - 1 \in Nat /\ o - 1 \in 0 .. l - 1 /\ o \in 0 .. l /\ IsLine(d, l - 1)
  BY DEF IsLine, Removed
<1>2. /\ Before(c, o) \in Seq(Chars) /\ Len(Before(c, o)) = o
      /\ After(c, o, l) \in Seq(Chars) /\ Len(After(c, o, l)) = l - o
  BY <1>1, Halves
<1>3. /\ Before(d, o - 1) \in Seq(Chars) /\ Len(Before(d, o - 1)) = o - 1
      /\ After(d, o - 1, l - 1) \in Seq(Chars) /\ Len(After(d, o - 1, l - 1)) = l - 1 - (o - 1)
  BY <1>1, Halves
<1>4. ASSUME NEW i \in 1 .. o - 1 PROVE Before(d, o - 1)[i] = Before(c, o)[i]
  <2>1. Before(d, o - 1)[i] = d[i - 1] /\ i \in 1 .. o
    BY BeforeAt
  <2>2. Before(c, o)[i] = c[i - 1]
    BY <2>1, BeforeAt
  <2>3. d[i - 1] = c[i - 1]
    BY <2>1 DEF Removed
  <2> QED
    BY <2>1, <2>2, <2>3
<1>5. ASSUME NEW i \in 1 .. l - o PROVE After(d, o - 1, l - 1)[i] = After(c, o, l)[i]
  <2>1. After(c, o, l)[i] = c[o + i - 1] /\ i \in 1 .. l - 1 - (o - 1)
    BY AfterAt
  <2>2. After(d, o - 1, l - 1)[i] = d[o - 1 + i - 1]
    BY <2>1, AfterAt
  <2>3. d[o - 1 + i - 1] = c[o + i - 1]
    <3>1. /\ o - 1 + i - 1 \in o - 1 .. l - 1 /\ o - 1 + i - 1 \in 0 .. l - 2
          /\ o - 1 + i - 1 + 1 = o + i - 1
      OBVIOUS
    <3> QED
      BY <3>1 DEF Removed
  <2> QED
    BY <2>1, <2>2, <2>3
<1>6. Before(d, o - 1) = SubSeq(Before(c, o), 1, Len(Before(c, o)) - 1)
  BY <1>2, <1>3, <1>4, FrontIs
<1>7. After(d, o - 1, l - 1) = After(c, o, l)
  BY <1>2, <1>3, <1>5, SameLine
<1> QED
  BY <1>2, <1>6, <1>7

LEMMA OnLeft ==
  ASSUME NEW c, NEW l \in Nat, NEW o \in 1 .. l, IsLine(c, l)
  PROVE  /\ Before(c, o) # <<>>
         /\ Before(c, o - 1) = SubSeq(Before(c, o), 1, Len(Before(c, o)) - 1)
         /\ After(c, o - 1, l) = <<Before(c, o)[Len(Before(c, o))]>> \o After(c, o, l)
<1>1. o - 1 \in 0 .. l /\ o \in 0 .. l
  OBVIOUS
<1>2. /\ Before(c, o) \in Seq(Chars) /\ Len(Before(c, o)) = o
      /\ After(c, o, l) \in Seq(Chars) /\ Len(After(c, o, l)) = l - o
  BY <1>1, Halves
<1>3. /\ Before(c, o - 1) \in Seq(Chars) /\ Len(Before(c, o - 1)) = o - 1
      /\ After(c, o - 1, l) \in Seq(Chars) /\ Len(After(c, o - 1, l)) = l - (o - 1)
  BY <1>1, Halves
<1>4. ASSUME NEW i \in 1 .. o - 1 PROVE Before(c, o - 1)[i] = Before(c, o)[i]
  <2>1. Before(c, o - 1)[i] = c[i - 1] /\ i \in 1 .. o
    BY BeforeAt
  <2> QED
    BY <2>1, BeforeAt
<1>5. /\ Before(c, o)[o] \in Chars
      /\ After(c, o - 1, l)[1] = Before(c, o)[o]
  <2>1. Before(c, o)[o] = c[o - 1] /\ o \in 1 .. o
    BY BeforeAt
  <2>2. c[o - 1] \in Chars
    BY DEF IsLine
  <2>3. 1 \in 1 .. l - (o - 1) /\ o - 1 + 1 - 1 = o - 1
    OBVIOUS
  <2>4. After(c, o - 1, l)[1] = c[o - 1 + 1 - 1]
    BY <2>3, AfterAt
  <2> QED
    BY <2>1, <2>2, <2>3, <2>4
<1>6. ASSUME NEW i \in 1 .. l - o PROVE After(c, o - 1, l)[i + 1] = After(c, o, l)[i]
  <2>1. After(c, o, l)[i] = c[o + i - 1]
    BY AfterAt
  <2>2. i + 1 \in 1 .. l - (o - 1) /\ o - 1 + (i + 1) - 1 = o + i - 1
    OBVIOUS
  <2>3. After(c, o - 1, l)[i + 1] = c[o - 1 + (i + 1) - 1]
    BY <2>2, AfterAt
  <2> QED
    BY <2>1, <2>2, <2>3
<1>7. Before(c, o - 1) = SubSeq(Before(c, o), 1, Len(Before(c, o)) - 1)
  BY <1>2, <1>3, <1>4, FrontIs
<1>8. After(c, o - 1, l) = <<Before(c, o)[o]>> \o After(c, o, l)
  BY <1>2, <1>3, <1>5, <1>6, PushIs
<1> QED
  BY <1>2, <1>7, <1>8

LEMMA OnRight ==
  ASSUME NEW c, NEW l \in Nat, NEW o \in 0 .. l - 1, IsLine(c, l)
  PROVE  /\ After(c, o, l) # <<>>
         /\ Before(c, o + 1) = Append(Before(c, o), Head(After(c, o, l)))
         /\ After(c, o + 1, l) = Tail(After(c, o, l))
<1>1. o + 1 \in 0 .. l /\ o \in 0 .. l
  OBVIOUS
<1>2. /\ Before(c, o) \in Seq(Chars) /\ Len(Before(c, o)) = o
      /\ After(c, o, l) \in Seq(Chars) /\ Len(After(c, o, l)) = l - o
  BY <1>1, Halves
<1>3. /\ Before(c, o + 1) \in Seq(Chars) /\ Len(Before(c, o + 1)) = o + 1
      /\ After(c, o + 1, l) \in Seq(Chars) /\ Len(After(c, o + 1, l)) = l - (o + 1)
  BY <1>1, Halves
<1>4. Head(After(c, o, l)) = c[o] /\ c[o] \in Chars
  <2>1. 1 \in 1 .. l - o /\ o + 1 - 1 = o
    OBVIOUS
  <2>2. After(c, o, l)[1] = c[o + 1 - 1]
    BY <2>1, AfterAt
  <2>3. c[o] \in Chars
    BY DEF IsLine
  <2> QED
    BY <1>2, <2>1, <2>2, <2>3
<1>5. Before(c, o + 1)[o + 1] = c[o]
  <2>1. o + 1 \in 1 .. o + 1 /\ o + 1 - 1 = o
    OBVIOUS
  <2> QED
    BY <2>1, BeforeAt
<1>6. ASSUME NEW i \in 1 .. o PROVE Before(c, o + 1)[i] = Before(c, o)[i]
  <2>1. Before(c, o)[i] = c[i - 1] /\ i \in 1 .. o + 1
    BY BeforeAt
  <2> QED
    BY <2>1, BeforeAt
<1>7. ASSUME NEW i \in 1 .. l - (o + 1) PROVE After(c, o + 1, l)[i] = After(c, o, l)[i + 1]
  <2>1. After(c, o + 1, l)[i] = c[o + 1 + i - 1]
    BY AfterAt
  <2>2. i + 1 \in 1 .. l - o /\ o + 1 + i - 1 = o + (i + 1) - 1
    OBVIOUS
  <2>3. After(c, o, l)[i + 1] = c[o + (i + 1) - 1]
    BY <2>2, AfterAt
  <2> QED
    BY <2>1, <2>2, <2>3
<1>8. Before(c, o + 1) = Append(Before(c, o), Head(After(c, o, l)))
  BY <1>2, <1>3, <1>4, <1>5, <1>6, AppendIs
<1>9. After(c, o + 1, l) = Tail(After(c, o, l))
  BY <1>2, <1>3, <1>7, TailIs
<1> QED
  BY <1>2, <1>8, <1>9

LEMMA OnEnter ==
  ASSUME NEW c, NEW d, NEW l \in Nat, NEW o \in 0 .. l, IsLine(c, l)
  PROVE  /\ [i \in 1 .. l |-> c[i - 1]] = Before(c, o) \o After(c, o, l)
         /\ Before(d, 0) = <<>> /\ After(d, 0, 0) = <<>>
<1>1. l \in 0 .. l /\ [i \in 1 .. l |-> c[i - 1]] = Before(c, l)
  BY DEF Before
<1>2. Before(c, l) \in Seq(Chars) /\ Len(Before(c, l)) = l
  BY <1>1, Halves
<1>3. /\ Before(c, o) \in Seq(Chars) /\ Len(Before(c, o)) = o
      /\ After(c, o, l) \in Seq(Chars) /\ Len(After(c, o, l)) = l - o
  BY Halves
<1>4. ASSUME NEW i \in 1 .. o PROVE Before(c, l)[i] = Before(c, o)[i]
  <2>1. Before(c, o)[i] = c[i - 1] /\ i \in 1 .. l
    BY BeforeAt
  <2> QED
    BY <2>1, BeforeAt
<1>5. ASSUME NEW i \in 1 .. l - o PROVE Before(c, l)[o + i] = After(c, o, l)[i]
  <2>1. After(c, o, l)[i] = c[o + i - 1] /\ o + i \in 1 .. l
    BY AfterAt
  <2> QED
    BY <2>1, BeforeAt
<1>6. Before(c, l) = Before(c, o) \o After(c, o, l)
  <2>1. /\ Len(Before(c, l)) = Len(Before(c, o)) + Len(After(c, o, l))
        /\ \A i \in 1 .. Len(Before(c, o)) : Before(c, l)[i] = Before(c, o)[i]
        /\ \A i \in 1 .. Len(After(c, o, l)) :
             Before(c, l)[Len(Before(c, o)) + i] = After(c, o, l)[i]
    BY <1>2, <1>3, <1>4, <1>5
  <2> QED
    BY <1>2, <1>3, <2>1, ConcatIs
<1>7. Before(d, 0) = <<>> /\ After(d, 0, 0) = <<>>
  BY DEF Before, After
<1> QED
  BY <1>1, <1>6, <1>7

-----------------------------------------------------------------------------
\* The halves are LineSpec's, and its steps are those of the command line.
LEMMA EditorStep ==
  ASSUME BufOK, [Next]_vars
  PROVE  [Editor!Next]_(Editor!vars)
<1> DEFINE b == Before(buf, off)
           a == After(buf, off, len)
           B == Before(buf', off')
           A == After(buf', off', len')
<1>1. /\ len \in Nat /\ off \in 0 .. len /\ len <= CMDLEN - 1 /\ CMDLEN \in Nat
      /\ buf \in [0 .. CMDLEN - 1 -> Chars \cup {NUL}]
      /\ IsLine(buf, len)
  BY ScreenAssumption DEF BufOK, IsLine
<1>2. ASSUME NEW c \in Chars, Insert(c)
      PROVE  Len(b) + Len(a) < CMDLEN - 1 /\ B = Append(b, c) /\ A = a /\ ran' = ran
  <2>1. len < CMDLEN - 1 /\ off' = off + 1 /\ len' = len + 1 /\ ran' = ran
    BY <1>1, <1>2 DEF Insert, Full
  <2>2. Inserted(buf, buf', len, off, c)
    BY <1>1, <1>2, <2>1 DEF Insert, Inserted
  <2>3. B = Append(b, c) /\ A = a
    BY <1>1, <2>1, <2>2, OnInsert
  <2>4. Len(b) = off /\ Len(a) = len - off
    BY <1>1, Halves
  <2> QED
    BY <1>1, <2>1, <2>3, <2>4
<1>3. ASSUME Backspace
      PROVE  b # <<>> /\ B = SubSeq(b, 1, Len(b) - 1) /\ A = a /\ ran' = ran
  <2>1. off \in 1 .. len /\ off' = off - 1 /\ len' = len - 1 /\ ran' = ran
    BY <1>1, <1>3 DEF Backspace
  <2>2. Removed(buf, buf', len, off)
    BY <1>1, <1>3 DEF Backspace, Removed
  <2> QED
    BY <1>1, <2>1, <2>2, OnBackspace
<1>4. ASSUME Left
      PROVE  /\ b # <<>> /\ B = SubSeq(b, 1, Len(b) - 1)
             /\ A = <<b[Len(b)]>> \o a /\ ran' = ran
  <2>1. off \in 1 .. len /\ off' = off - 1 /\ len' = len /\ buf' = buf /\ ran' = ran
    BY <1>1, <1>4 DEF Left
  <2> QED
    BY <1>1, <2>1, OnLeft
<1>5. ASSUME Right
      PROVE  a # <<>> /\ B = Append(b, Head(a)) /\ A = Tail(a) /\ ran' = ran
  <2>1. off \in 0 .. len - 1 /\ off' = off + 1 /\ len' = len /\ buf' = buf /\ ran' = ran
    BY <1>1, <1>5 DEF Right
  <2> QED
    BY <1>1, <2>1, OnRight
<1>6. ASSUME NEW s \in Outputs, Enter(s)
      PROVE  ran' = b \o a /\ B = <<>> /\ A = <<>>
  <2>1. off' = 0 /\ len' = 0 /\ ran' = [i \in 1 .. len |-> buf[i - 1]]
    BY <1>6 DEF Enter, Terminator
  <2> QED
    BY <1>1, <2>1, OnEnter
<1>7. CASE InsertPanics \/ UNCHANGED vars
  BY <1>7 DEF InsertPanics, vars, line, Editor!vars
<1>8. CASE Next /\ ~InsertPanics
  BY <1>2, <1>3, <1>4, <1>5, <1>6, <1>8
  DEF Next, Before, After, Editor!Next, Editor!Type, Editor!Backspace, Editor!MoveLeft,
      Editor!MoveRight, Editor!Enter, Editor!Front, Editor!Last
<1> QED
  BY <1>7, <1>8

LEMMA EditorInit == Init => Editor!Init
<1> SUFFICES ASSUME Init PROVE Editor!Init
  OBVIOUS
<1>1. off = 0 /\ len = 0 /\ ran = <<>>
  BY DEF Init
<1> QED
  BY <1>1 DEF Editor!Init

\* Whatever becomes of the screen, the command that enter runs is the line that
\* was edited.
THEOREM LineIsRun == Spec => BufferIsTheLine
<1>1. Spec => []BufOK
  BY InitBuf, BufStep, PTL DEF Spec
<1> QED
  BY <1>1, EditorInit, EditorStep, PTL DEF Spec, BufferIsTheLine, Editor!Spec

-----------------------------------------------------------------------------
(***************************************************************************)
(* printf() is a recursive function: what it does to a screen is shown by  *)
(* induction on the length of what it prints.                              *)
(***************************************************************************)

LEMMA NatSetInduction ==
  ASSUME NEW S, 0 \in S, \A n \in Nat : n \in S => n + 1 \in S
  PROVE  Nat \subseteq S
<1> DEFINE T == Nat \ S
           R == OpToRel(<, Nat)
<1>1. SUFFICES ASSUME T # {}
               PROVE  FALSE
  OBVIOUS
<1>2. IsWellFoundedOn(R, Nat)
  BY NatLessThanWellFounded
<1>3. T \subseteq Nat
  OBVIOUS
<1> HIDE DEF T, R
<1>4. PICK x \in T : \A y \in T : ~(<<y, x>> \in R)
  BY <1>1, <1>2, <1>3, WFMin
<1> USE DEF T
<1>5. x # 0 /\ x \in Nat /\ x - 1 \in Nat
  OBVIOUS
<1>6. <<x - 1, x>> \in R
  BY <1>5 DEF R, OpToRel
<1> QED
  BY <1>4, <1>5, <1>6

Printable == Shown \cup {NewLine}

Screens == [text : [0 .. CELLS - 1 -> Shown], cursor : 0 .. CELLS - 1]

LEMMA Sizes ==
  /\ COLS \in Nat \ {0} /\ CELLS \in Nat /\ LastRow \in 0 .. CELLS - 1
  /\ LastRow = CELLS - COLS /\ COLS < CELLS
<1>1. COLS \in Nat /\ COLS >= 1 /\ ROWS \in Nat /\ ROWS >= 2
  BY ScreenAssumption
<1>2. CELLS \in Nat /\ CELLS >= COLS + COLS
  BY <1>1 DEF CELLS
<1> QED
  BY <1>1, <1>2 DEF LastRow

LEMMA ScrollTypes ==
  ASSUME NEW text \in [0 .. CELLS - 1 -> Shown], NEW o \in Nat
  PROVE  vga_scroll(text, o) \in Screens
<1>1. CASE o < CELLS
  BY <1>1, Sizes DEF vga_scroll, Screens
<1>2. CASE ~(o < CELLS)
  <2> DEFINE t == [c \in 0 .. CELLS - 1 |-> IF c < CELLS - COLS THEN text[c + COLS] ELSE Blank]
  <2>1. ASSUME NEW c \in 0 .. CELLS - 1
        PROVE  (IF c < CELLS - COLS THEN text[c + COLS] ELSE Blank) \in Shown
    <3>1. Blank \in Shown
      BY DEF Shown, Blank, NewLine
    <3>2. c < CELLS - COLS => c + COLS \in 0 .. CELLS - 1
      BY Sizes
    <3> QED
      BY <3>1, <3>2
  <2>2. t \in [0 .. CELLS - 1 -> Shown]
    BY <2>1
  <2>3. vga_scroll(text, o) = [text |-> t, cursor |-> LastRow]
    BY <1>2 DEF vga_scroll
  <2> HIDE DEF t
  <2> QED
    BY <2>2, <2>3, Sizes DEF Screens
<1> QED
  BY <1>1, <1>2

LEMMA PutcharTypes ==
  ASSUME NEW v \in Screens, NEW c \in Printable
  PROVE  putchar(v, c) \in Screens
<1>1. v.text \in [0 .. CELLS - 1 -> Shown] /\ v.cursor \in 0 .. CELLS - 1 /\ v.cursor \in Nat
  BY Sizes DEF Screens
<1>2. CASE c = NewLine
  <2>1. v.cursor + COLS - (v.cursor % COLS) \in Nat
    BY <1>1, Sizes
  <2> QED
    BY <1>1, <1>2, <2>1, ScrollTypes DEF putchar
<1>3. CASE c # NewLine
  <2>1. [v.text EXCEPT ![v.cursor] = c] \in [0 .. CELLS - 1 -> Shown] /\ v.cursor + 1 \in Nat
    BY <1>1, <1>3 DEF Printable
  <2> QED
    BY <1>3, <2>1, ScrollTypes DEF putchar
<1> QED
  BY <1>2, <1>3

\* The screens that printf() goes through.
PrintStep(f, v, s) == [k \in 0 .. Len(s) |-> IF k = 0 THEN v ELSE putchar(f[k - 1], s[k])]

LEMMA PrintfRun ==
  ASSUME NEW v \in Screens, NEW s \in Seq(Printable)
  PROVE  \E f \in [0 .. Len(s) -> Screens] :
            /\ f[0] = v /\ printf(v, s) = f[Len(s)]
            /\ \A k \in 1 .. Len(s) : f[k] = putchar(f[k - 1], s[k])
<1> DEFINE Run(n, f) == /\ f[0] = v
                        /\ \A k \in 1 .. n : f[k] = putchar(f[k - 1], s[k])
           S == {n \in Nat : n <= Len(s) => \E f \in [0 .. n -> Screens] : Run(n, f)}
<1>1. 0 \in S
  <2> DEFINE f == [k \in 0 .. 0 |-> v]
  <2>1. f \in [0 .. 0 -> Screens] /\ Run(0, f)
    OBVIOUS
  <2> QED
    BY <2>1
<1>2. ASSUME NEW n \in Nat, n \in S
      PROVE  n + 1 \in S
  <2>1. SUFFICES ASSUME n + 1 <= Len(s)
                 PROVE  \E g \in [0 .. n + 1 -> Screens] : Run(n + 1, g)
    OBVIOUS
  <2>2. PICK f \in [0 .. n -> Screens] : Run(n, f)
    BY <1>2, <2>1
  <2> DEFINE g == [k \in 0 .. n + 1 |-> IF k <= n THEN f[k] ELSE putchar(f[n], s[n + 1])]
  <2>3. putchar(f[n], s[n + 1]) \in Screens
    <3>1. s[n + 1] \in Printable /\ f[n] \in Screens
      BY <2>1, <2>2
    <3> QED
      BY <3>1, PutcharTypes
  <2>4. g \in [0 .. n + 1 -> Screens]
    BY <2>2, <2>3
  <2>5. Run(n + 1, g)
    <3>1. g[0] = v
      BY <2>2
    <3>2. ASSUME NEW k \in 1 .. n + 1
          PROVE  g[k] = putchar(g[k - 1], s[k])
      <4>1. CASE k <= n
        <5>1. g[k] = f[k] /\ g[k - 1] = f[k - 1] /\ k \in 1 .. n
          BY <4>1
        <5> HIDE DEF g
        <5> QED
          BY <2>2, <5>1
      <4>2. CASE k = n + 1
        <5>1. g[k] = putchar(f[n], s[n + 1]) /\ g[k - 1] = f[n] /\ k - 1 = n
          BY <4>2
        <5> HIDE DEF g
        <5> QED
          BY <4>2, <5>1
      <4> QED
        BY <4>1, <4>2
    <3> HIDE DEF g
    <3> QED
      BY <3>1, <3>2
  <2> QED
    BY <2>4, <2>5
<1> HIDE DEF S
<1>3. Nat \subseteq S
  BY <1>1, <1>2, NatSetInduction
<1>4. Len(s) \in Nat
  OBVIOUS
<1>5. PICK f \in [0 .. Len(s) -> Screens] : Run(Len(s), f)
  BY <1>3, <1>4 DEF S
<1>6. f = PrintStep(f, v, s)
  BY <1>4, <1>5 DEF PrintStep
\* The function that printf() chooses is this one.
<1> DEFINE g == CHOOSE h : h = PrintStep(h, v, s)
<1>7. g = PrintStep(g, v, s)
  BY <1>6
<1>8. printf(v, s) = g[Len(s)]
  BY DEF printf, PrintStep
<1> HIDE DEF g
<1>9. /\ g[0] = v
      /\ \A k \in 1 .. Len(s) : g[k] = putchar(g[k - 1], s[k])
  BY <1>4, <1>7 DEF PrintStep
<1> DEFINE E == {n \in Nat : n <= Len(s) => g[n] = f[n]}
<1>10. Nat \subseteq E
  <2>1. 0 \in E
    BY <1>5, <1>9
  <2>2. ASSUME NEW n \in Nat, n \in E
        PROVE  n + 1 \in E
    <3>1. SUFFICES ASSUME n + 1 <= Len(s)
                   PROVE  g[n + 1] = f[n + 1]
      OBVIOUS
    <3>2. n + 1 \in 1 .. Len(s) /\ (n + 1) - 1 = n /\ g[n] = f[n]
      BY <1>4, <2>2, <3>1
    <3>3. g[n + 1] = putchar(g[(n + 1) - 1], s[n + 1]) /\ f[n + 1] = putchar(f[(n + 1) - 1], s[n + 1])
      BY <1>5, <1>9, <3>2
    <3> QED
      BY <3>2, <3>3
  <2> HIDE DEF E
  <2> QED
    BY <2>1, <2>2, NatSetInduction
<1>11. printf(v, s) = f[Len(s)]
  BY <1>4, <1>8, <1>10
<1> QED
  BY <1>5, <1>11

\* Whatever was printed before it, and however often the screen scrolled, the
\* prompt stands before the cursor.
LEMMA PromptShown ==
  ASSUME NEW v \in Screens, NEW s \in Seq(Printable)
  PROVE  LET w == printf(v, s \o Prompt)
         IN  /\ w \in Screens /\ Len(Prompt) <= w.cursor
             /\ \A i \in 1 .. Len(Prompt) : w.text[w.cursor - Len(Prompt) + i - 1] = Prompt[i]
<1> DEFINE m == Len(s)
           p == Len(Prompt)
           t == s \o Prompt
<1>1. /\ Prompt \in Seq(Shown) /\ Prompt \in Seq(Printable) /\ p <= CELLS - COLS
      /\ m \in Nat /\ p \in Nat
  BY RoomAssumption DEF Printable
<1>2. /\ t \in Seq(Printable) /\ Len(t) = m + p
      /\ \A k \in 1 .. p : t[m + k] = Prompt[k]
  <2>1. /\ t \in Seq(Printable) /\ Len(t) = Len(s) + Len(Prompt)
        /\ \A i \in 1 .. Len(s) + Len(Prompt) :
              t[i] = IF i <= Len(s) THEN s[i] ELSE Prompt[i - Len(s)]
    BY <1>1, ConcatProperties
  <2>2. ASSUME NEW k \in 1 .. p
        PROVE  t[m + k] = Prompt[k]
    <3>1. m + k \in 1 .. m + p /\ ~(m + k <= m) /\ (m + k) - m = k
      BY <1>1
    <3> QED
      BY <2>1, <3>1
  <2> QED
    BY <2>1, <2>2
<1> HIDE DEF t, m, p
<1>3. PICK f \in [0 .. Len(t) -> Screens] :
        /\ f[0] = v /\ printf(v, t) = f[Len(t)]
        /\ \A k \in 1 .. Len(t) : f[k] = putchar(f[k - 1], t[k])
  BY <1>2, PrintfRun
<1> DEFINE Stands(w, k) == /\ k <= w.cursor
                           /\ \A i \in 1 .. k : w.text[w.cursor - k + i - 1] = Prompt[i]
           S == {k \in Nat : k <= p => Stands(f[m + k], k)}
<1>4. 0 \in S
  <2>1. f[m + 0].cursor \in Nat
    <3>1. m + 0 \in 0 .. Len(t)
      BY <1>1, <1>2
    <3> QED
      BY <1>3, <3>1, Sizes DEF Screens
  <2> QED
    BY <2>1
<1>5. ASSUME NEW k \in Nat, k \in S
      PROVE  k + 1 \in S
  <2>1. SUFFICES ASSUME k + 1 <= p
                 PROVE  Stands(f[m + (k + 1)], k + 1)
    OBVIOUS
  <2> DEFINE u == f[m + k]
             w == f[m + (k + 1)]
             x == Prompt[k + 1]
             text == [u.text EXCEPT ![u.cursor] = x]
  <2>2. k < p /\ Stands(u, k)
    BY <1>1, <1>5, <2>1
  <2>3. u \in Screens /\ w = putchar(u, x) /\ x \in Shown
    <3>1. /\ m + k \in 0 .. Len(t) /\ m + (k + 1) \in 1 .. Len(t)
          /\ (m + (k + 1)) - 1 = m + k /\ k + 1 \in 1 .. p
      BY <1>1, <1>2, <2>1
    <3>2. f[m + (k + 1)] = putchar(f[(m + (k + 1)) - 1], t[m + (k + 1)])
      BY <1>3, <3>1
    <3>3. t[m + (k + 1)] = Prompt[k + 1]
      BY <1>2, <3>1
    <3>4. Prompt[k + 1] \in Shown
      BY <1>1, <3>1 DEF p
    <3> QED
      BY <1>3, <3>1, <3>2, <3>3, <3>4
  <2>4. u.cursor \in 0 .. CELLS - 1 /\ u.text \in [0 .. CELLS - 1 -> Shown]
    BY <2>3 DEF Screens
  <2> HIDE DEF u, w, x
  <2>5. w = vga_scroll(text, u.cursor + 1)
    BY <2>3 DEF putchar, Shown
  <2>6. \A i \in 1 .. k + 1 : text[u.cursor + 1 - (k + 1) + i - 1] = Prompt[i]
    <3> SUFFICES ASSUME NEW i \in 1 .. k + 1
                 PROVE  text[u.cursor + 1 - (k + 1) + i - 1] = Prompt[i]
      OBVIOUS
    <3>1. CASE i = k + 1
      <4>1. u.cursor + 1 - (k + 1) + i - 1 = u.cursor
        BY <3>1, <2>4
      <4>2. text[u.cursor] = x
        BY <2>4
      <4> QED
        BY <3>1, <4>1, <4>2 DEF x
    <3>2. CASE i \in 1 .. k
      <4> DEFINE j == u.cursor - k + i - 1
      <4>1. u.cursor + 1 - (k + 1) + i - 1 = j /\ j \in 0 .. CELLS - 1 /\ j # u.cursor
        BY <2>2, <2>4, <3>2, Sizes
      <4>2. u.text[j] = Prompt[i]
        BY <2>2, <3>2
      <4> HIDE DEF j
      <4>3. text[j] = u.text[j]
        BY <2>4, <4>1
      <4> QED
        BY <4>1, <4>2, <4>3
    <3> QED
      BY <3>1, <3>2
  <2> HIDE DEF text
  <2>7. ASSUME u.cursor + 1 < CELLS
        PROVE  Stands(w, k + 1)
    <3>1. w.text = text /\ w.cursor = u.cursor + 1
      BY <2>5, <2>7 DEF vga_scroll
    <3>2. k + 1 <= w.cursor
      BY <2>2, <2>4, <3>1
    <3>3. ASSUME NEW i \in 1 .. k + 1
          PROVE  w.text[w.cursor - (k + 1) + i - 1] = Prompt[i]
      <4>1. text[u.cursor + 1 - (k + 1) + i - 1] = Prompt[i]
        BY <2>6
      <4> QED
        BY <3>1, <4>1
    <3> QED
      BY <3>2, <3>3
  <2>8. ASSUME ~(u.cursor + 1 < CELLS)
        PROVE  Stands(w, k + 1)
    <3>1. /\ w.text = [c \in 0 .. CELLS - 1 |-> IF c < CELLS - COLS THEN text[c + COLS] ELSE Blank]
          /\ w.cursor = CELLS - COLS
      BY <2>5, <2>8, Sizes DEF vga_scroll
    <3>2. u.cursor + 1 = CELLS /\ k + 1 <= CELLS - COLS
      BY <1>1, <2>1, <2>4, <2>8, Sizes
    <3>4. k + 1 <= w.cursor
      BY <3>1, <3>2
    <3>3. ASSUME NEW i \in 1 .. k + 1
          PROVE  w.text[w.cursor - (k + 1) + i - 1] = Prompt[i]
      <4> DEFINE c == CELLS - COLS - (k + 1) + i - 1
      <4>1. c \in 0 .. CELLS - 1 /\ c < CELLS - COLS /\ c + COLS = u.cursor + 1 - (k + 1) + i - 1
        BY <3>2, Sizes
      <4>2. w.cursor - (k + 1) + i - 1 = c
        BY <3>1
      <4> HIDE DEF c
      <4>3. w.text[c] = text[c + COLS]
        BY <3>1, <4>1
      <4> QED
        BY <2>6, <4>1, <4>2, <4>3
    <3> QED
      BY <3>3, <3>4
  <2> QED
    BY <2>7, <2>8 DEF w
<1> HIDE DEF S
<1>6. p \in S
  BY <1>1, <1>4, <1>5, NatSetInduction
<1>7. Stands(f[Len(t)], p) /\ f[Len(t)] \in Screens
  BY <1>1, <1>2, <1>3, <1>6 DEF S
<1> QED
  BY <1>3, <1>7 DEF t, p

-----------------------------------------------------------------------------
(***************************************************************************)
(* The screen and the buffer together.  Once the screen has scrolled under *)
(* the command the cursor is one row above where it belongs; it can still  *)
(* not leave the screen, since a command that reached the end of the       *)
(* screen cannot start in its first row.                                   *)
(***************************************************************************)

Placed ==
  /\ cursor \in 0 .. CELLS - 1 /\ start \in 0 .. CELLS - 1
  /\ start + len <= CELLS
  /\ ~scrolled => cursor = start + off
  /\ scrolled => cursor = start + off - COLS /\ start >= CELLS - CMDLEN + 1

Flags == scrolled \in BOOLEAN /\ stopped \in BOOLEAN

Drawn ==
  /\ textbuf \in [0 .. CELLS - 1 -> Shown]
  /\ Len(Prompt) <= start
  /\ ~scrolled =>
       /\ \A i \in 1 .. Len(Prompt) : textbuf[start - Len(Prompt) + i - 1] = Prompt[i]
       /\ \A i \in 0 .. len - 1 : textbuf[start + i] = buf[i]

SInv == BufOK /\ Flags /\ Placed /\ Drawn

LEMMA MoveFacts ==
  ASSUME NEW text, NEW o \in Nat, MoveTo(text, o)
  PROVE  /\ o < CELLS => textbuf' = text /\ cursor' = o /\ (scrolled' <=> scrolled)
         /\ ~(o < CELLS) => cursor' = CELLS - COLS /\ scrolled'
         /\ text \in [0 .. CELLS - 1 -> Shown] => textbuf' \in [0 .. CELLS - 1 -> Shown]
<1>1. /\ textbuf' = vga_scroll(text, o).text /\ cursor' = vga_scroll(text, o).cursor
      /\ scrolled' = (scrolled \/ o >= CELLS)
  BY DEF MoveTo, Show
<1>2. o < CELLS => textbuf' = text /\ cursor' = o
  BY <1>1 DEF vga_scroll
<1>3. ~(o < CELLS) => cursor' = CELLS - COLS
  BY <1>1 DEF vga_scroll, LastRow
<1>4. text \in [0 .. CELLS - 1 -> Shown] => textbuf' \in [0 .. CELLS - 1 -> Shown]
  BY <1>1, ScrollTypes DEF Screens
<1>5. o < CELLS => (scrolled' <=> scrolled)
  <2>1. o < CELLS => ~(o >= CELLS)
    BY Sizes
  <2> QED
    BY <1>1, <2>1
<1>6. ~(o < CELLS) => scrolled'
  <2>1. ~(o < CELLS) => o >= CELLS
    BY Sizes
  <2> QED
    BY <1>1, <2>1
<1> QED
  BY <1>2, <1>3, <1>4, <1>5, <1>6

LEMMA InitS == Init => SInv
<1> SUFFICES ASSUME Init PROVE SInv
  OBVIOUS
<1> DEFINE v == [text |-> [c \in 0 .. CELLS - 1 |-> Blank], cursor |-> 0]
           w == printf(v, Prompt)
<1>1. v \in Screens
  <2>1. Blank \in Shown
    BY DEF Shown, Blank, NewLine
  <2> QED
    BY <2>1, Sizes DEF Screens
<1>2. <<>> \in Seq(Printable) /\ <<>> \o Prompt = Prompt
  <2>1. Prompt \in Seq(Shown)
    BY RoomAssumption
  <2> QED
    BY <2>1, ConcatEmptySeq
<1>3. /\ textbuf = w.text /\ cursor = w.cursor /\ start = w.cursor
      /\ off = 0 /\ len = 0 /\ scrolled = FALSE /\ stopped = FALSE
  BY DEF Init
<1> HIDE DEF v
<1>4. /\ w \in Screens /\ Len(Prompt) <= w.cursor
      /\ \A i \in 1 .. Len(Prompt) : w.text[w.cursor - Len(Prompt) + i - 1] = Prompt[i]
  <2> DEFINE u == printf(v, <<>> \o Prompt)
  <2>1. /\ u \in Screens /\ Len(Prompt) <= u.cursor
        /\ \A i \in 1 .. Len(Prompt) : u.text[u.cursor - Len(Prompt) + i - 1] = Prompt[i]
    BY <1>1, <1>2, PromptShown
  <2>2. u = w
    BY <1>2
  <2> HIDE DEF u, w
  <2> QED
    BY <2>1, <2>2
<1> HIDE DEF w
<1>5. w.text \in [0 .. CELLS - 1 -> Shown] /\ w.cursor \in 0 .. CELLS - 1
  BY <1>4 DEF Screens
<1>6. Placed
  <2>1. start \in 0 .. CELLS - 1 /\ cursor = start /\ start \in Nat /\ start <= CELLS
    BY <1>3, <1>5, Sizes
  <2>2. off = 0 /\ len = 0 /\ ~scrolled
    BY <1>3
  <2> QED
    BY <2>1, <2>2 DEF Placed
<1>8. Flags
  BY <1>3 DEF Flags
<1>7. Drawn
  BY <1>3, <1>4, <1>5 DEF Drawn
<1> QED
  BY <1>6, <1>7, <1>8, InitBuf DEF SInv

LEMMA EnterS ==
  ASSUME SInv, NEW s \in Outputs, Enter(s)
  PROVE  Placed' /\ Drawn'
<1> DEFINE v == [text |-> textbuf, cursor |-> cursor]
           w == printf(v, <<NewLine>> \o s \o Prompt)
<1>1. v \in Screens
  BY DEF SInv, Placed, Drawn, Screens
<1>2. <<NewLine>> \o s \in Seq(Printable)
  <2>1. s \in Seq(Printable)
    BY RoomAssumption DEF Printable
  <2>2. <<NewLine>> \in Seq(Printable)
    BY DEF Printable
  <2> QED
    BY <2>1, <2>2
<1>3. /\ textbuf' = w.text /\ cursor' = w.cursor /\ start' = w.cursor
      /\ off' = 0 /\ len' = 0 /\ scrolled' = FALSE /\ stopped' = stopped
  BY DEF Enter, Show
<1> HIDE DEF v
<1>4. /\ w \in Screens /\ Len(Prompt) <= w.cursor
      /\ \A i \in 1 .. Len(Prompt) : w.text[w.cursor - Len(Prompt) + i - 1] = Prompt[i]
  BY <1>1, <1>2, PromptShown
<1> HIDE DEF w
<1>5. w.text \in [0 .. CELLS - 1 -> Shown] /\ w.cursor \in 0 .. CELLS - 1
  BY <1>4 DEF Screens
<1>6. Placed'
  <2>1. start' \in 0 .. CELLS - 1 /\ cursor' = start' /\ start' \in Nat /\ start' <= CELLS
    BY <1>3, <1>5, Sizes
  <2>2. off' = 0 /\ len' = 0 /\ ~scrolled'
    BY <1>3
  <2>3. start' + len' <= CELLS /\ cursor' = start' + off'
    <3>1. \A x \in Nat : x + 0 = x
      OBVIOUS
    <3>2. start' \in Nat /\ start' <= CELLS /\ len' = 0 /\ off' = 0 /\ cursor' = start'
      BY <2>1, <2>2
    <3> QED
      BY <3>1, <3>2, Zenon
  <2>4. cursor' \in 0 .. CELLS - 1 /\ start' \in 0 .. CELLS - 1
    BY <2>1
  <2> QED
    BY <2>2, <2>3, <2>4 DEF Placed
<1>7. Drawn'
  BY <1>3, <1>4, <1>5 DEF Drawn
<1> QED
  BY <1>6, <1>7

\* The numbers that the steps below reason with.
LEMMA Numbers ==
  ASSUME SInv
  PROVE  /\ COLS \in Nat /\ COLS >= 1 /\ CELLS \in Nat /\ CMDLEN \in Nat /\ COLS < CELLS
         /\ CMDLEN <= CELLS - COLS + 1
         /\ cursor \in Nat /\ cursor < CELLS /\ start \in Nat /\ start < CELLS
         /\ len \in Nat /\ len <= CMDLEN - 1 /\ off \in Nat /\ off <= len
BY Sizes, ScreenAssumption, RoomAssumption DEF SInv, BufOK, Placed

\* Where the characters of the prompt stand.
LEMMA PromptPlace ==
  ASSUME SInv, NEW i \in 1 .. Len(Prompt)
  PROVE  /\ start - Len(Prompt) + i - 1 \in 0 .. CELLS - 1
         /\ start - Len(Prompt) + i - 1 < start
<1>1. Len(Prompt) \in Nat /\ Len(Prompt) <= start
  BY RoomAssumption DEF SInv, Drawn
<1> DEFINE p == Len(Prompt)
<1> HIDE DEF p
<1>2. p \in Nat /\ p <= start /\ i \in 1 .. p
  BY <1>1 DEF p
<1>3. start - p + i - 1 \in 0 .. CELLS - 1 /\ start - p + i - 1 < start
  BY <1>2, Numbers
<1> QED
  BY <1>3 DEF p

LEMMA RightS ==
  ASSUME SInv, Right
  PROVE  Placed' /\ Drawn'
<1>1. /\ off < len /\ off' = off + 1
      /\ start' = start /\ buf' = buf /\ len' = len
  BY DEF Right
<1>9. MoveTo(textbuf, cursor + 1)
  BY DEF Right
<1>2. cursor + 1 \in Nat
  BY Numbers
<1>3. /\ cursor + 1 < CELLS => textbuf' = textbuf /\ cursor' = cursor + 1 /\ (scrolled' <=> scrolled)
      /\ ~(cursor + 1 < CELLS) => cursor' = CELLS - COLS /\ scrolled'
      /\ textbuf' \in [0 .. CELLS - 1 -> Shown]
  BY <1>1, <1>2, <1>9, MoveFacts DEF SInv, Drawn
<1>0. /\ start + len <= CELLS
      /\ ~scrolled => cursor = start + off
      /\ scrolled => cursor = start + off - COLS /\ start >= CELLS - CMDLEN + 1
  BY DEF SInv, Placed
<1>4. Placed'
  <2>1. CASE cursor + 1 < CELLS
    <3>1. cursor' = cursor + 1 /\ (scrolled' <=> scrolled)
      BY <1>3, <2>1
    <3> QED
      BY <1>0, <1>1, <2>1, <3>1, Numbers DEF Placed
  <2>2. CASE ~(cursor + 1 < CELLS)
    <3>1. ~scrolled /\ start + off + 1 = CELLS
      BY <1>1, <2>2, Numbers DEF SInv, Placed
    <3>2. cursor' = CELLS - COLS /\ scrolled'
      BY <1>3, <2>2
    <3> QED
      BY <1>0, <1>1, <3>1, <3>2, Numbers DEF Placed
  <2> QED
    BY <2>1, <2>2
<1>5. Drawn'
  BY <1>1, <1>3 DEF SInv, Drawn
<1> QED
  BY <1>4, <1>5

LEMMA LeftS ==
  ASSUME SInv, Left
  PROVE  Placed' /\ Drawn'
<1>1. /\ off > 0 /\ off' = off - 1
      /\ start' = start /\ buf' = buf /\ len' = len
  BY DEF Left
<1>9. MoveTo(textbuf, cursor - 1)
  BY DEF Left
<1>2. cursor - 1 \in Nat /\ cursor - 1 < CELLS
  BY <1>1, Numbers DEF SInv, Placed
<1>3. textbuf' = textbuf /\ cursor' = cursor - 1 /\ (scrolled' <=> scrolled)
  BY <1>1, <1>2, <1>9, MoveFacts
<1>4. Placed'
  BY <1>1, <1>2, <1>3, Numbers DEF SInv, Placed
<1>5. Drawn'
  BY <1>1, <1>3 DEF SInv, Drawn
<1> QED
  BY <1>4, <1>5

LEMMA InsertS ==
  ASSUME SInv, NEW c \in Chars, Insert(c)
  PROVE  Placed' /\ Drawn'
<1> DEFINE text == Put(buf', off, len)
<1>1. /\ len < CMDLEN - 1 /\ start + len < CELLS
      /\ off' = off + 1 /\ len' = len + 1
      /\ start' = start
  BY Numbers DEF Insert, Full, OnScreen
<1>9. MoveTo(text, cursor + 1)
  BY DEF Insert
<1>2. /\ \A i \in 0 .. off - 1 : buf'[i] = buf[i]
      /\ \A i \in 0 .. len : buf'[i] \in Chars
  <2>1. DOMAIN buf = 0 .. CMDLEN - 1
    BY DEF SInv, BufOK
  <2>2. buf' = [i \in 0 .. CMDLEN - 1 |-> IF i \in off + 1 .. len THEN buf[i - 1]
                                          ELSE IF i = off THEN c ELSE buf[i]]
    BY <2>1 DEF Insert
  <2>3. \A i \in 0 .. off - 1 : buf'[i] = buf[i]
    BY <2>2, Numbers
  <2>4. BufOK'
    BY BufStep DEF SInv, Next
  <2>5. \A i \in 0 .. len : buf'[i] \in Chars
    BY <1>1, <2>4, Numbers DEF BufOK
  <2> QED
    BY <2>3, <2>5
<1>3. /\ text \in [0 .. CELLS - 1 -> Shown]
      /\ \A x \in 0 .. CELLS - 1 : x < start + off => text[x] = textbuf[x]
      /\ \A i \in off .. len : text[start + i] = buf'[i]
  <2>1. textbuf \in [0 .. CELLS - 1 -> Shown] /\ Chars \subseteq Shown
    BY ScreenAssumption DEF SInv, Drawn, Shown
  <2>2. ASSUME NEW x \in 0 .. CELLS - 1
        PROVE  (IF x \in start + off .. start + len THEN buf'[x - start] ELSE textbuf[x]) \in Shown
    <3>1. x \in start + off .. start + len => x - start \in 0 .. len
      BY Numbers
    <3> QED
      BY <1>2, <2>1, <3>1
  <2>3. text = [x \in 0 .. CELLS - 1 |->
                  IF x \in start + off .. start + len THEN buf'[x - start] ELSE textbuf[x]]
    BY DEF Put
  <2> HIDE DEF text
  <2>4. text \in [0 .. CELLS - 1 -> Shown]
    BY <2>2, <2>3
  <2>5. \A x \in 0 .. CELLS - 1 : x < start + off => text[x] = textbuf[x]
    BY <2>3, Numbers
  <2>6. ASSUME NEW i \in off .. len
        PROVE  text[start + i] = buf'[i]
    <3>1. start + i \in 0 .. CELLS - 1 /\ start + i \in start + off .. start + len
          /\ (start + i) - start = i
      BY <1>1, Numbers
    <3> QED
      BY <2>3, <3>1
  <2> QED
    BY <2>4, <2>5, <2>6
<1> HIDE DEF text
<1>4. cursor + 1 \in Nat
  BY Numbers
<1>5. /\ cursor + 1 < CELLS => textbuf' = text /\ cursor' = cursor + 1 /\ (scrolled' <=> scrolled)
      /\ ~(cursor + 1 < CELLS) => cursor' = CELLS - COLS /\ scrolled'
      /\ textbuf' \in [0 .. CELLS - 1 -> Shown]
  BY <1>1, <1>3, <1>4, <1>9, MoveFacts
<1>0. /\ start + len <= CELLS
      /\ ~scrolled => cursor = start + off
      /\ scrolled => cursor = start + off - COLS /\ start >= CELLS - CMDLEN + 1
  BY DEF SInv, Placed
<1>6. Placed'
  <2>1. CASE cursor + 1 < CELLS
    <3>1. cursor' = cursor + 1 /\ (scrolled' <=> scrolled)
      BY <1>5, <2>1
    <3> QED
      BY <1>0, <1>1, <2>1, <3>1, Numbers DEF Placed
  <2>2. CASE ~(cursor + 1 < CELLS)
    <3>1. ~scrolled /\ start + off + 1 = CELLS
      BY <1>1, <2>2, Numbers DEF SInv, Placed
    <3>2. cursor' = CELLS - COLS /\ scrolled'
      BY <1>5, <2>2
    <3> QED
      BY <1>0, <1>1, <3>1, <3>2, Numbers DEF Placed
  <2> QED
    BY <2>1, <2>2
<1>7. Drawn'
  <2>1. ASSUME ~scrolled'
        PROVE  /\ \A i \in 1 .. Len(Prompt) : textbuf'[start - Len(Prompt) + i - 1] = Prompt[i]
               /\ \A i \in 0 .. len : textbuf'[start + i] = buf'[i]
    <3>1. textbuf' = text /\ ~scrolled
      BY <1>5, <2>1
    <3>2. /\ \A i \in 1 .. Len(Prompt) : textbuf[start - Len(Prompt) + i - 1] = Prompt[i]
          /\ \A i \in 0 .. len - 1 : textbuf[start + i] = buf[i]
      BY <3>1 DEF SInv, Drawn
    <3>3. ASSUME NEW i \in 1 .. Len(Prompt)
          PROVE  text[start - Len(Prompt) + i - 1] = Prompt[i]
      <4> DEFINE x == start - Len(Prompt) + i - 1
      <4>2. x \in 0 .. CELLS - 1 /\ x < start
        BY PromptPlace
      <4> HIDE DEF x
      <4>3. x < start + off
        BY <4>2, Numbers
      <4>1. x \in 0 .. CELLS - 1 /\ x < start + off /\ x = start - Len(Prompt) + i - 1
        BY <4>2, <4>3 DEF x
      <4> QED
        BY <1>3, <3>2, <4>1
    <3>4. ASSUME NEW i \in 0 .. len
          PROVE  text[start + i] = buf'[i]
      <4>1. CASE i \in off .. len
        BY <1>3, <4>1
      <4>2. CASE i \in 0 .. off - 1
        <5>1. start + i \in 0 .. CELLS - 1 /\ start + i < start + off /\ i \in 0 .. len - 1
          BY <4>2, <1>1, Numbers
        <5> QED
          BY <1>2, <1>3, <3>2, <4>2, <5>1
      <4> QED
        BY <4>1, <4>2, Numbers
    <3> QED
      BY <3>1, <3>3, <3>4
  <2>2. len' - 1 = len
    BY <1>1, Numbers
  <2>3. Len(Prompt) <= start' /\ start' = start
    BY <1>1 DEF SInv, Drawn
  <2> QED
    BY <1>5, <2>1, <2>2, <2>3 DEF Drawn
<1> QED
  BY <1>6, <1>7

LEMMA BackspaceS ==
  ASSUME SInv, Backspace
  PROVE  Placed' /\ Drawn'
<1> DEFINE put == Put(buf', off - 1, len - 1)
           text == [put EXCEPT ![start + len - 1] = Blank]
<1>1. /\ off > 0 /\ off' = off - 1 /\ len' = len - 1
      /\ start' = start
  BY DEF Backspace, Redrawn
<1>9. MoveTo(text, cursor - 1)
  BY DEF Backspace, Redrawn
<1>2. /\ \A i \in 0 .. off - 2 : buf'[i] = buf[i]
      /\ \A i \in 0 .. len - 2 : buf'[i] \in Chars
  <2>1. DOMAIN buf = 0 .. CMDLEN - 1
    BY DEF SInv, BufOK
  <2>2. buf' = [i \in 0 .. CMDLEN - 1 |-> IF i \in off - 1 .. len - 1 THEN buf[i + 1] ELSE buf[i]]
    BY <2>1 DEF Backspace
  <2>3. \A i \in 0 .. off - 2 : buf'[i] = buf[i]
    BY <2>2, Numbers
  <2>4. BufOK'
    BY BufStep DEF SInv, Next
  <2>5. \A i \in 0 .. len - 2 : buf'[i] \in Chars
    BY <1>1, <2>4, Numbers DEF BufOK
  <2> QED
    BY <2>3, <2>5
<1>3. /\ text \in [0 .. CELLS - 1 -> Shown]
      /\ \A x \in 0 .. CELLS - 1 : x < start + off - 1 => text[x] = textbuf[x]
      /\ \A i \in off - 1 .. len - 2 : text[start + i] = buf'[i]
  <2>1. textbuf \in [0 .. CELLS - 1 -> Shown] /\ Chars \subseteq Shown /\ Blank \in Shown
    BY ScreenAssumption DEF SInv, Drawn, Shown, Blank, NewLine
  <2> DEFINE last == start + len - 1
  <2>2. text = [x \in 0 .. CELLS - 1 |->
                  IF x = last THEN Blank
                  ELSE IF x \in start + (off - 1) .. start + (len - 1) THEN buf'[x - start]
                  ELSE textbuf[x]]
    BY DEF Put
  <2>3. last \in Nat /\ off - 1 \in Nat
    BY <1>1, Numbers
  <2> HIDE DEF text, put
  <2>4. ASSUME NEW x \in 0 .. CELLS - 1
        PROVE  (IF x = last THEN Blank
                ELSE IF x \in start + (off - 1) .. start + (len - 1) THEN buf'[x - start]
                ELSE textbuf[x]) \in Shown
    <3>1. x # last /\ x \in start + (off - 1) .. start + (len - 1) => x - start \in 0 .. len - 2
      BY <1>1, Numbers
    <3> QED
      BY <1>2, <2>1, <3>1
  <2>5. text \in [0 .. CELLS - 1 -> Shown]
    BY <2>2, <2>4
  <2>6. ASSUME NEW x \in 0 .. CELLS - 1, x < start + off - 1
        PROVE  text[x] = textbuf[x]
    <3>1. x # last /\ x \notin start + (off - 1) .. start + (len - 1)
      BY <1>1, <2>6, Numbers
    <3> QED
      BY <2>2, <3>1
  <2>7. ASSUME NEW i \in off - 1 .. len - 2
        PROVE  text[start + i] = buf'[i]
    <3>1. /\ start + i \in 0 .. CELLS - 1 /\ start + i \in start + (off - 1) .. start + (len - 1)
          /\ start + i # last /\ (start + i) - start = i
      BY <1>1, <2>3, Numbers DEF SInv, Placed
    <3> HIDE DEF last
    <3> QED
      BY <2>2, <3>1
  <2> QED
    BY <2>5, <2>6, <2>7
<1> HIDE DEF text
<1>4. cursor - 1 \in Nat /\ cursor - 1 < CELLS
  BY <1>1, Numbers DEF SInv, Placed
<1>5. /\ textbuf' = text /\ cursor' = cursor - 1 /\ (scrolled' <=> scrolled)
      /\ textbuf' \in [0 .. CELLS - 1 -> Shown]
  BY <1>1, <1>3, <1>4, <1>9, MoveFacts
<1>0. /\ start + len <= CELLS
      /\ ~scrolled => cursor = start + off
      /\ scrolled => cursor = start + off - COLS /\ start >= CELLS - CMDLEN + 1
  BY DEF SInv, Placed
<1>6. Placed'
  <2>1. cursor' = cursor - 1 /\ (scrolled' <=> scrolled)
    BY <1>5
  <2> QED
    BY <1>0, <1>1, <1>4, <2>1, Numbers DEF Placed
<1>7. Drawn'
  <2>1. ASSUME ~scrolled'
        PROVE  /\ \A i \in 1 .. Len(Prompt) : textbuf'[start - Len(Prompt) + i - 1] = Prompt[i]
               /\ \A i \in 0 .. len - 2 : textbuf'[start + i] = buf'[i]
    <3>1. textbuf' = text /\ ~scrolled
      BY <1>5, <2>1
    <3>2. /\ \A i \in 1 .. Len(Prompt) : textbuf[start - Len(Prompt) + i - 1] = Prompt[i]
          /\ \A i \in 0 .. len - 1 : textbuf[start + i] = buf[i]
      BY <3>1 DEF SInv, Drawn
    <3>3. ASSUME NEW i \in 1 .. Len(Prompt)
          PROVE  text[start - Len(Prompt) + i - 1] = Prompt[i]
      <4> DEFINE x == start - Len(Prompt) + i - 1
      <4>2. x \in 0 .. CELLS - 1 /\ x < start
        BY PromptPlace
      <4> HIDE DEF x
      <4>3. x < start + off - 1
        BY <1>1, <4>2, Numbers, SMTT(60)
      <4>1. x \in 0 .. CELLS - 1 /\ x < start + off - 1 /\ x = start - Len(Prompt) + i - 1
        BY <4>2, <4>3 DEF x
      <4> QED
        BY <1>3, <3>2, <4>1
    <3>4. ASSUME NEW i \in 0 .. len - 2
          PROVE  text[start + i] = buf'[i]
      <4>1. CASE i \in off - 1 .. len - 2
        BY <1>3, <4>1
      <4>2. CASE i \in 0 .. off - 2
        <5>1. start + i \in 0 .. CELLS - 1 /\ start + i < start + off - 1 /\ i \in 0 .. len - 1
          BY <4>2, Numbers DEF SInv, Placed
        <5> QED
          BY <1>2, <1>3, <3>2, <4>2, <5>1
      <4> QED
        BY <4>1, <4>2, Numbers
    <3> QED
      BY <3>1, <3>3, <3>4
  <2>2. len' - 1 = len - 2
    BY <1>1, Numbers
  <2>3. Len(Prompt) <= start' /\ start' = start
    BY <1>1 DEF SInv, Drawn
  <2> QED
    BY <1>5, <2>1, <2>2, <2>3 DEF Drawn
<1> QED
  BY <1>6, <1>7

LEMMA StepS ==
  ASSUME SInv, [Next]_vars
  PROVE  SInv'
<1>1. BufOK'
  BY BufStep DEF SInv
<1>3. Flags'
  <2>1. Flags
    BY DEF SInv
  <2>2. ASSUME NEW text, NEW o, MoveTo(text, o)
        PROVE  scrolled' \in BOOLEAN
    BY <2>2 DEF MoveTo
  <2>3. CASE \E c \in Chars : Insert(c)
    BY <2>1, <2>2, <2>3 DEF Insert, Flags
  <2>4. CASE Left
    BY <2>1, <2>2, <2>4 DEF Left, Flags
  <2>5. CASE Right
    BY <2>1, <2>2, <2>5 DEF Right, Flags
  <2>6. CASE Backspace
    BY <2>1, <2>2, <2>6 DEF Backspace, Flags
  <2>7. CASE \E s \in Outputs : Enter(s)
    BY <2>1, <2>7 DEF Enter, Flags
  <2>8. CASE InsertPanics
    BY <2>1, <2>8 DEF InsertPanics, Flags
  <2>9. CASE UNCHANGED vars
    BY <2>1, <2>9 DEF vars, Flags
  <2> QED
    BY <2>3, <2>4, <2>5, <2>6, <2>7, <2>8, <2>9 DEF Next
<1>2. Placed' /\ Drawn'
  <2>1. CASE InsertPanics
    BY <2>1 DEF InsertPanics, line, SInv, Placed, Drawn
  <2>2. CASE UNCHANGED vars
    BY <2>2 DEF vars, line, SInv, Placed, Drawn
  <2> QED
    BY <2>1, <2>2, InsertS, LeftS, RightS, BackspaceS, EnterS DEF Next
<1> QED
  BY <1>1, <1>2, <1>3 DEF SInv

LEMMA ShellInvariant == Spec => []SInv
BY InitS, StepS, PTL DEF Spec

\* The positions given to vga_putchar() and vga_set_cursor() and the indices of
\* the command buffer of shell() lie in their arrays, also after the screen has
\* scrolled under the command.
THEOREM TypeCorrect == Spec => []TypeOK
<1>1. SInv => TypeOK
  BY DEF SInv, BufOK, Flags, Placed, Drawn, TypeOK
<1> QED
  BY <1>1, ShellInvariant, PTL

\* As long as the screen has not scrolled under the command, it shows the whole
\* prompt, the command as it is in the buffer of shell(), and the cursor at the
\* place the next character goes to.
THEOREM ScreenIsBuffer == Spec => []ScreenFollowsBuffer
<1>1. SInv => ScreenFollowsBuffer
  <2> SUFFICES ASSUME SInv, ~scrolled
               PROVE  ScreenShowsLine
    BY DEF ScreenFollowsBuffer
  <2>1. \A i \in 0 .. len - 1 : start + i < CELLS
    BY Numbers DEF SInv, Placed
  <2> QED
    BY <2>1 DEF SInv, Placed, Drawn, ScreenShowsLine
<1> QED
  BY <1>1, ShellInvariant, PTL

=============================================================================
