-------------------------------- MODULE Shell --------------------------------
(***************************************************************************)
(* The command line of shell() in grab/shell.c, with the text buffer and   *)
(* the cursor of grab/vga.c and the putchar() of grab/printf.c.  The same  *)
(* line lives in the array buf and on the screen, and the two are edited   *)
(* side by side.                                                           *)
(***************************************************************************)
EXTENDS Integers, Sequences

CONSTANTS
  COLS, ROWS,  \* size of the screen, 80 and 25 in the source
  CMDLEN,      \* size of the command buffer, 2 * COLS in the source
  Chars,       \* printable characters
  Prompt,      \* the characters of the prompt
  Outputs      \* what a command may print; NewLine is the newline

NewLine == "newline"
Blank   == "blank"   \* an empty cell or a space
NUL     == "nul"

ASSUME ScreenAssumption ==
  /\ COLS \in Nat \ {0} /\ ROWS \in Nat \ {0, 1} /\ CMDLEN \in Nat \ {0}
  /\ {NewLine, Blank, NUL} \cap Chars = {}

VARIABLES
  textbuf,   \* the text buffer of the screen
  cursor,    \* position of the cursor in it
  start,     \* where the command starts in it
  off,       \* cursor offset from the start of the command
  buf, len,  \* the command buffer and the length of the command
  ran,       \* the last command that was processed
  scrolled,  \* the screen scrolled since the prompt was printed
  stopped    \* panic() was called

line == <<start, off, buf, len>>
vars == <<textbuf, cursor, start, off, buf, len, ran, scrolled, stopped>>

CELLS == COLS * ROWS

\* What a cell may show.
Printed == UNION {{s[i] : i \in DOMAIN s} : s \in Outputs \cup {Prompt}}
Shown   == (Chars \cup {Blank} \cup Printed) \ {NewLine}

\* The prompt, and a command, are no longer than what remains after a scroll:
\* 6 and 160 against 1920 in the source.
ASSUME RoomAssumption ==
  /\ Outputs \subseteq Seq(Shown \cup {NewLine})
  /\ Prompt \in Seq(Shown) /\ Len(Prompt) <= CELLS - COLS
  /\ CMDLEN <= CELLS - COLS + 1

-----------------------------------------------------------------------------
(***************************************************************************)
(* The screen.                                                             *)
(***************************************************************************)

LastRow == CELLS - COLS

\* vga_scroll(): a position past the end moves the text up by one row; the
\* cursor goes to the start of the last row.
vga_scroll(text, o) ==
  IF o < CELLS THEN [text |-> text, cursor |-> o]
  ELSE [text   |-> [c \in 0 .. CELLS - 1 |->
                      IF c < CELLS - COLS THEN text[c + COLS] ELSE Blank],
        cursor |-> LastRow]

putchar(v, c) ==
  IF c = NewLine THEN vga_scroll(v.text, v.cursor + COLS - (v.cursor % COLS))
  ELSE vga_scroll([v.text EXCEPT ![v.cursor] = c], v.cursor + 1)

printf(v, s) ==
  LET after[k \in 0 .. Len(s)] == IF k = 0 THEN v ELSE putchar(after[k - 1], s[k])
  IN  after[Len(s)]

Show(v) == textbuf' = v.text /\ cursor' = v.cursor

\* vga_putchar() of line l to the positions from start + first to start + last,
\* which must lie on the screen.
OnScreen(last) == start + last < CELLS
Put(l, first, last) ==
  [c \in 0 .. CELLS - 1 |->
     IF c \in start + first .. start + last THEN l[c - start] ELSE textbuf[c]]

-----------------------------------------------------------------------------
Init ==
  /\ LET v == printf([text |-> [c \in 0 .. CELLS - 1 |-> Blank], cursor |-> 0], Prompt)
     IN  textbuf = v.text /\ cursor = v.cursor /\ start = v.cursor
  /\ off = 0 /\ len = 0 /\ buf = [i \in 0 .. CMDLEN - 1 |-> NUL]
  /\ ran = <<>> /\ scrolled = FALSE /\ stopped = FALSE

Key == ~stopped

\* vga_set_cursor(vga_scroll(...)) after the text was changed.
MoveTo(text, o) ==
  /\ Show(vga_scroll(text, o))
  /\ scrolled' = (scrolled \/ o >= CELLS)

\* Mutant: no room is kept for the terminator.
Full_late == len >= CMDLEN
Full == len >= CMDLEN - 1

Insert(c) ==
  /\ Key /\ ~Full /\ OnScreen(len)
  /\ buf' = [i \in DOMAIN buf |-> IF i \in off + 1 .. len THEN buf[i - 1]
                                  ELSE IF i = off THEN c ELSE buf[i]]
  /\ MoveTo(Put(buf', off, len), cursor + 1)
  /\ off' = off + 1 /\ len' = len + 1
  /\ UNCHANGED <<start, ran, stopped>>

\* vga_putchar() is given a position past the end of the screen, and panics;
\* what the loop has shifted by then is not seen by anybody.
InsertPanics ==
  /\ Key /\ ~Full /\ ~OnScreen(len)
  /\ stopped' = TRUE
  /\ UNCHANGED <<textbuf, cursor, line, ran, scrolled>>

Left ==
  /\ Key /\ off > 0
  /\ off' = off - 1
  /\ MoveTo(textbuf, cursor - 1)
  /\ UNCHANGED <<start, buf, len, ran, stopped>>

Right ==
  /\ Key /\ off < len
  /\ off' = off + 1
  /\ MoveTo(textbuf, cursor + 1)
  /\ UNCHANGED <<start, buf, len, ran, stopped>>

\* Mutant: the first character after the cursor is not redrawn.
Redrawn_late == off
Redrawn == off - 1

\* The cells it writes hold characters of the command: no panic is possible.
Backspace ==
  /\ Key /\ off > 0
  /\ buf' = [i \in DOMAIN buf |-> IF i \in off - 1 .. len - 1 THEN buf[i + 1] ELSE buf[i]]
  /\ MoveTo([Put(buf', Redrawn, len - 1) EXCEPT ![start + len - 1] = Blank], cursor - 1)
  /\ off' = off - 1 /\ len' = len - 1
  /\ UNCHANGED <<start, ran, stopped>>

\* The command is processed and prints s, then a new prompt is printed.
\* Mutant: the command is cut at the cursor.
Terminator_off == off
Terminator == len

Enter(s) ==
  /\ Key
  /\ ran' = [i \in 1 .. Terminator |-> buf[i - 1]]
  /\ buf' = [buf EXCEPT ![Terminator] = NUL]
  /\ LET v == printf([text |-> textbuf, cursor |-> cursor], <<NewLine>> \o s \o Prompt)
     IN  Show(v) /\ start' = v.cursor
  /\ off' = 0 /\ len' = 0 /\ scrolled' = FALSE
  /\ UNCHANGED stopped

Next == \/ \E c \in Chars : Insert(c)
        \/ InsertPanics \/ Left \/ Right \/ Backspace
        \/ \E s \in Outputs : Enter(s)

Spec == Init /\ [][Next]_vars

-----------------------------------------------------------------------------
(***************************************************************************)
(* Properties.                                                             *)
(***************************************************************************)

\* The indices of the command buffer and the positions on the screen that
\* are used lie in their arrays.
TypeOK ==
  /\ textbuf \in [0 .. CELLS - 1 -> Shown]
  /\ cursor \in 0 .. CELLS - 1 /\ start \in 0 .. CELLS - 1
  /\ buf \in [0 .. CMDLEN - 1 -> Chars \cup {NUL}]
  /\ len \in 0 .. CMDLEN - 1 /\ off \in 0 .. len
  /\ \A i \in 0 .. len - 1 : buf[i] \in Chars
  /\ start + len <= CELLS
  /\ scrolled \in BOOLEAN /\ stopped \in BOOLEAN

\* The screen shows the command buffer right after a whole prompt, and the
\* cursor is where the next character goes.
ScreenShowsLine ==
  /\ cursor = start + off
  /\ \A i \in 1 .. Len(Prompt) : textbuf[start - Len(Prompt) + i - 1] = Prompt[i]
  /\ \A i \in 0 .. len - 1 : start + i < CELLS /\ textbuf[start + i] = buf[i]

\* As long as the screen does not scroll under the command, however much it
\* scrolled before, the screen shows what is in the buffer: insertions,
\* deletions and moves do the same to both.
ScreenFollowsBuffer == ~scrolled => ScreenShowsLine

Editor == INSTANCE LineSpec WITH
  Room  <- CMDLEN - 1,
  left  <- [i \in 1 .. off |-> buf[i - 1]],
  right <- [i \in 1 .. len - off |-> buf[off + i - 1]]

\* Whatever becomes of the screen, the command that enter runs is the line
\* that was edited.
BufferIsTheLine == Editor!Spec
=============================================================================
