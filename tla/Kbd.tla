--------------------------------- MODULE Kbd ---------------------------------
(***************************************************************************)
(* grab/kbd.c: the parser that turns the bytes of a PS/2 keyboard (scan    *)
(* code set 1) into key events, one byte per call, together with the       *)
(* keyboard that sends them.  The driver polls: the bytes of several keys  *)
(* may be waiting when it reads the first, and the keys they report may    *)
(* have been released, or pressed again, long before.                      *)
(*                                                                         *)
(* The keys that are encoded in kbd.h have their value there; any other    *)
(* key is named by its make code.                                          *)
(***************************************************************************)
EXTENDS Integers, Sequences

CONSTANTS
  Keys,      \* keys of the keyboard that are used
  MaxBytes   \* bound: bytes that wait to be read when a key is pressed or released

KEY_UNKNOWN == 128
KEY_PRNT    == 142
KEY_U_ARROW == 144
KEY_L_ARROW == 145
KEY_R_ARROW == 146
KEY_D_ARROW == 147
KEY_DELETE  == 148
KEY_PAUSE   == 149
STATE_RELATED_KEY_START == 200
KEY_L_CTRL  == 200
KEY_R_CTRL  == 201
KEY_L_SHFT  == 202
KEY_R_SHFT  == 203
KEY_L_ALT   == 204
KEY_R_ALT   == 205
KEY_NUM     == 206
KEY_SCROLL  == 207
KEY_CAPS    == 208

Modifiers == {KEY_L_CTRL, KEY_R_CTRL, KEY_L_SHFT, KEY_R_SHFT, KEY_L_ALT, KEY_R_ALT}
Locks     == {KEY_NUM, KEY_CAPS}

MAX_SCANCODE == \h58

\* Keys of one byte: most are named by it.
key_map ==
  [c \in 0 .. MAX_SCANCODE |->
     CASE c = \h1D -> KEY_L_CTRL
       [] c = \h2A -> KEY_L_SHFT
       [] c = \h36 -> KEY_R_SHFT
       [] c = \h38 -> KEY_L_ALT
       [] c = \h3A -> KEY_CAPS
       [] c = \h45 -> KEY_NUM
       [] c = \h46 -> KEY_SCROLL
       [] c \in {0, \h54, \h55, \h56} -> KEY_UNKNOWN
       [] OTHER -> c]

\* Keys of two bytes, the first of which is 0xe0: their data, and whether
\* they are of the keypad.
ExtendedKeys ==
  [c \in {\h1C, \h35, \h48, \h4B, \h4D, \h50, \h53} |->
     CASE c = \h1C -> [data |-> \h35, keypad |-> TRUE]
       [] c = \h35 -> [data |-> \h1C, keypad |-> TRUE]
       [] c = \h48 -> [data |-> KEY_U_ARROW, keypad |-> FALSE]
       [] c = \h4B -> [data |-> KEY_L_ARROW, keypad |-> FALSE]
       [] c = \h4D -> [data |-> KEY_R_ARROW, keypad |-> FALSE]
       [] c = \h50 -> [data |-> KEY_D_ARROW, keypad |-> FALSE]
       [] c = \h53 -> [data |-> KEY_DELETE, keypad |-> FALSE]]

ExtendedModifiers ==
  [c \in {\h1D, \h38} |-> IF c = \h1D THEN KEY_R_CTRL ELSE KEY_R_ALT]

\* The sequences matched in each of the parser states that match one.
sequence ==
  [s \in {"STATE_PAUSE", "STATE_PRINT_MAKE", "STATE_PRINT_BREAK"} |->
     CASE s = "STATE_PAUSE"       -> <<\h1D, \h45, \hE1, \h9D, \hC5>>
       [] s = "STATE_PRINT_MAKE"  -> <<\h2A, \hE0, \h37>>
       [] s = "STATE_PRINT_BREAK" -> <<\hB7, \hE0, \hAA>>]

ASSUME BoundAssumption == MaxBytes \in Nat /\ Keys \subseteq Nat

VARIABLES
  parser_state, sequence_index,  \* of the parser
  state,      \* bits of struct keyboard_state that are set, by their keys
  event,      \* the data event of the last byte, a set of none or one
  bytes,      \* sent by the keyboard and not yet read
  down,       \* keys that are held down
  lit,        \* locks that are on, by the number of times they were pressed
  expected    \* events of the keys that were pressed, not yet returned

parser   == <<parser_state, sequence_index, state, event>>
keyboard == <<down, lit>>
vars     == <<parser_state, sequence_index, state, event, bytes, down, lit, expected>>

-----------------------------------------------------------------------------
(***************************************************************************)
(* The parser.                                                             *)
(***************************************************************************)

\* Mutant: the break code of a key is taken for a press.
is_make_code_any(c) == TRUE
is_make_code(c) == c < \h80
to_make_code(c) == c % \h80

is_keypad_key(c) == c \in \h47 .. \h53 \/ c = \h37

\* Mutant: the release of a modifier is ignored.
Released_not(key) == state
Released(key) == state \ {key}

\* update_state(): locks are toggled by a press.
update_state(key, is_make) ==
  IF key \in Locks /\ is_make
  THEN IF key \in state THEN state \ {key} ELSE state \cup {key}
  ELSE IF key \in Modifiers /\ is_make THEN state \cup {key}
  ELSE IF key \in Modifiers THEN Released(key)
  ELSE state

\* Null events and raw events are of no interest to kbd_poll_event().
NoEvent == event' = {}
data_event(data, is_keypad) ==
  event' = {[data |-> data, keypad |-> is_keypad, state |-> state]}

Init0 == parser_state' = "STATE_INIT"

handle_init_state(c) ==
  /\ parser_state = "STATE_INIT"
  /\ sequence_index' = 0
  /\ \/ c = \hE1 /\ parser_state' = "STATE_PAUSE" /\ NoEvent /\ UNCHANGED state
     \/ c = \hE0 /\ parser_state' = "STATE_EXTENDED" /\ NoEvent /\ UNCHANGED state
     \/ /\ c \notin {\hE0, \hE1} /\ to_make_code(c) > MAX_SCANCODE
        /\ Init0 /\ NoEvent /\ UNCHANGED state
     \/ /\ c \notin {\hE0, \hE1} /\ to_make_code(c) <= MAX_SCANCODE
        /\ Init0
        /\ LET key == key_map[to_make_code(c)]
           IN  IF key > STATE_RELATED_KEY_START \/ ~is_make_code(c)
               THEN state' = update_state(key, is_make_code(c)) /\ NoEvent
               ELSE /\ data_event(key, is_keypad_key(to_make_code(c)))
                    /\ UNCHANGED state

AfterExtended == "STATE_INIT"

handle_extended_state(c) ==
  /\ parser_state = "STATE_EXTENDED"
  /\ parser_state' = CASE c = \h2A -> "STATE_PRINT_MAKE"
                       [] c = \hB7 -> "STATE_PRINT_BREAK"
                       [] OTHER    -> AfterExtended
  /\ IF c \in DOMAIN ExtendedKeys
     THEN data_event(ExtendedKeys[c].data, ExtendedKeys[c].keypad) ELSE NoEvent
  /\ state' = IF to_make_code(c) \in DOMAIN ExtendedModifiers
              THEN update_state(ExtendedModifiers[to_make_code(c)], is_make_code(c))
              ELSE state
  /\ UNCHANGED sequence_index

LastIndex(s) == Len(s) - 1

\* A byte that does not match is dropped with what came before it.
handle_sequence_state(c) ==
  /\ parser_state \in DOMAIN sequence
  /\ LET s == sequence[parser_state]
     IN  IF c # s[sequence_index + 1]
         THEN Init0 /\ NoEvent /\ UNCHANGED sequence_index
         ELSE IF sequence_index = LastIndex(s)
         THEN /\ Init0 /\ UNCHANGED sequence_index
              /\ CASE parser_state = "STATE_PAUSE"       -> data_event(KEY_PAUSE, FALSE)
                   [] parser_state = "STATE_PRINT_MAKE"  -> data_event(KEY_PRNT, FALSE)
                   [] parser_state = "STATE_PRINT_BREAK" -> NoEvent
         ELSE /\ sequence_index' = sequence_index + 1
              /\ NoEvent /\ UNCHANGED parser_state
  /\ UNCHANGED state

parse_scancode(c) ==
  handle_init_state(c) \/ handle_extended_state(c) \/ handle_sequence_state(c)

\* One turn of the loop of kbd_poll_event().
Read ==
  /\ bytes # <<>> /\ bytes' = Tail(bytes)
  /\ parse_scancode(Head(bytes))
  /\ expected' = IF event' = {} \/ expected = <<>> THEN expected ELSE Tail(expected)
  /\ UNCHANGED keyboard

-----------------------------------------------------------------------------
(***************************************************************************)
(* The keyboard.                                                           *)
(***************************************************************************)

\* The codes of a key, as the tables of the parser have them.
CodeOf(key, codes) == CHOOSE c \in DOMAIN codes : codes[c] = key
ExtendedData == [c \in DOMAIN ExtendedKeys |-> ExtendedKeys[c].data]

MakeCode(key) ==
  CASE key = KEY_PAUSE -> <<\hE1>> \o sequence["STATE_PAUSE"]
    [] key = KEY_PRNT  -> <<\hE0>> \o sequence["STATE_PRINT_MAKE"]
    [] key \in {key_map[c] : c \in DOMAIN key_map} -> <<CodeOf(key, key_map)>>
    [] key \in {KEY_R_CTRL, KEY_R_ALT} -> <<\hE0, CodeOf(key, ExtendedModifiers)>>
    [] OTHER -> <<\hE0, CodeOf(key, ExtendedData)>>

\* The break code has the high bit set; KEY_PAUSE has none.
BreakCode(key) ==
  CASE key = KEY_PAUSE -> <<>>
    [] key = KEY_PRNT  -> <<\hE0>> \o sequence["STATE_PRINT_BREAK"]
    [] OTHER -> LET m == MakeCode(key)
                IN  [m EXCEPT ![Len(m)] = @ + \h80]

\* A key goes down, or repeats because it is held.
Press(key) ==
  /\ Len(bytes) <= MaxBytes
  /\ bytes' = bytes \o MakeCode(key)
  /\ down' = IF BreakCode(key) = <<>> THEN down ELSE down \cup {key}
  /\ lit' = IF key \notin Locks THEN lit
            ELSE IF key \in lit THEN lit \ {key} ELSE lit \cup {key}
  /\ expected' = IF key > STATE_RELATED_KEY_START \/ key = KEY_L_CTRL THEN expected
                 ELSE Append(expected,
                        [data   |-> key,
                         keypad |-> key <= MAX_SCANCODE /\ is_keypad_key(key),
                         state  |-> (down \cap Modifiers) \cup lit])
  /\ UNCHANGED parser

Release(key) ==
  /\ key \in down
  /\ Len(bytes) <= MaxBytes
  /\ bytes' = bytes \o BreakCode(key)
  /\ down' = down \ {key}
  /\ UNCHANGED <<parser, lit, expected>>

Init ==
  /\ parser_state = "STATE_INIT" /\ sequence_index = 0
  /\ state = {} /\ event = {}
  /\ bytes = <<>> /\ down = {} /\ lit = {} /\ expected = <<>>

Next == (\E key \in Keys : Press(key) \/ Release(key)) \/ Read

Spec == Init /\ [][Next]_vars

-----------------------------------------------------------------------------
(***************************************************************************)
(* Properties.                                                             *)
(***************************************************************************)

Data == (0 .. MAX_SCANCODE) \cup KEY_UNKNOWN .. KEY_L_CTRL

\* The parser keeps its types; in particular the place in the sequence that
\* is being matched never leaves the array.
TypeOK ==
  /\ parser_state \in {"STATE_INIT", "STATE_EXTENDED"} \cup DOMAIN sequence
  /\ sequence_index \in Nat
  /\ parser_state \in DOMAIN sequence => sequence_index < Len(sequence[parser_state])
  /\ state \subseteq Modifiers \cup Locks
  /\ \A e \in event : e.data \in Data /\ e.keypad \in BOOLEAN
  /\ down \subseteq Keys /\ lit \subseteq Locks

\* However far the reader is behind, the events are those of the keys in the
\* order they were pressed, each with the modifiers and locks of the moment
\* of the press, not of the moment it is read.
EventsInOrder ==
  [][Len(bytes') < Len(bytes) =>
       \A e \in event' : expected # <<>> /\ e = Head(expected)]_vars

\* When all bytes are read no event is missing, no code is half parsed, and
\* the state is that of the keyboard, for all the bits but the left control
\* key's: no modifier sticks or is lost.
NothingLost ==
  bytes = <<>> =>
    /\ expected = <<>> /\ parser_state = "STATE_INIT"
    /\ state \ {KEY_L_CTRL} = ((down \cap Modifiers) \cup lit) \ {KEY_L_CTRL}

\* The same for the left control key: "whether some special keys (e.g. ctrl
\* and shift) are being held".
CtrlFollowsKey == bytes = <<>> => (KEY_L_CTRL \in state <=> KEY_L_CTRL \in down)
=============================================================================
