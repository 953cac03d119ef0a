------------------------------ MODULE KbdProofs ------------------------------
(***************************************************************************)
(* Proofs about module Kbd, for every set of keys the driver has a code    *)
(* for and every bound on the bytes that wait.                             *)
(*                                                                         *)
(* What the properties say of the parser holds when no byte waits.  The    *)
(* invariant behind them speaks of all other states too: if the parser     *)
(* were to read all the waiting bytes now, it would return just the events *)
(* that are expected and end between two codes, with the bits of the       *)
(* keyboard.  It is stated by the list of configurations the parser would  *)
(* go through.                                                             *)
(***************************************************************************)
EXTENDS Kbd, SequenceTheorems, TLAPS

\* The keys whose codes the driver takes for what they are.  The left control
\* key is not one (KbdCtrl), nor is print screen, whose code never matches.
Plain      == {c \in 0 .. MAX_SCANCODE : key_map[c] # KEY_L_CTRL}
Arrows     == {\h48, \h4B, \h4D, \h50, \h53}
Decodable  == {key_map[c] : c \in Plain} \cup {ExtendedKeys[c].data : c \in Arrows}
              \cup {KEY_R_CTRL, KEY_R_ALT, KEY_PAUSE}

Byte   == 0 .. 255
Bits   == Modifiers \cup Locks
EventT == [data : Data, keypad : BOOLEAN, state : SUBSET Bits]
States == {"STATE_INIT", "STATE_EXTENDED"} \cup DOMAIN sequence

-----------------------------------------------------------------------------
(***************************************************************************)
(* The parser as functions of where it stands (its state, the place in the *)
(* sequence, the bits) and the byte.                                       *)
(***************************************************************************)

Known(c)   == c \notin {\hE0, \hE1} /\ to_make_code(c) <= MAX_SCANCODE
IsState(c) == key_map[to_make_code(c)] > STATE_RELATED_KEY_START \/ ~is_make_code(c)

Updated(st, key, make) ==
  IF key \in Locks /\ make
  THEN IF key \in st THEN st \ {key} ELSE st \cup {key}
  ELSE IF key \in Modifiers /\ make THEN st \cup {key}
  ELSE IF key \in Modifiers THEN st \ {key}
  ELSE st

StateAfter(ps, si, c) ==
  IF ps = "STATE_INIT"
  THEN IF c = \hE1 THEN "STATE_PAUSE" ELSE IF c = \hE0 THEN "STATE_EXTENDED" ELSE "STATE_INIT"
  ELSE IF ps = "STATE_EXTENDED"
  THEN IF c = \h2A THEN "STATE_PRINT_MAKE" ELSE IF c = \hB7 THEN "STATE_PRINT_BREAK"
       ELSE "STATE_INIT"
  ELSE IF c # sequence[ps][si + 1] \/ si = LastIndex(sequence[ps]) THEN "STATE_INIT" ELSE ps

IndexAfter(ps, si, c) ==
  IF ps = "STATE_INIT" THEN 0
  ELSE IF ps = "STATE_EXTENDED" THEN si
  ELSE IF c # sequence[ps][si + 1] \/ si = LastIndex(sequence[ps]) THEN si ELSE si + 1

BitsAfter(ps, st, c) ==
  IF ps = "STATE_INIT"
  THEN IF Known(c) /\ IsState(c)
       THEN Updated(st, key_map[to_make_code(c)], is_make_code(c)) ELSE st
  ELSE IF ps = "STATE_EXTENDED"
  THEN IF to_make_code(c) \in DOMAIN ExtendedModifiers
       THEN Updated(st, ExtendedModifiers[to_make_code(c)], is_make_code(c)) ELSE st
  ELSE st

Report(d, k, st) == {[data |-> d, keypad |-> k, state |-> st]}

EventAfter(ps, si, st, c) ==
  IF ps = "STATE_INIT"
  THEN IF Known(c) /\ ~IsState(c)
       THEN Report(key_map[to_make_code(c)], is_keypad_key(to_make_code(c)), st) ELSE {}
  ELSE IF ps = "STATE_EXTENDED"
  THEN IF c \in DOMAIN ExtendedKeys
       THEN Report(ExtendedKeys[c].data, ExtendedKeys[c].keypad, st) ELSE {}
  ELSE IF c # sequence[ps][si + 1] \/ si # LastIndex(sequence[ps]) THEN {}
  ELSE IF ps = "STATE_PAUSE" THEN Report(KEY_PAUSE, FALSE, st)
  ELSE IF ps = "STATE_PRINT_MAKE" THEN Report(KEY_PRNT, FALSE, st)
  ELSE {}

-----------------------------------------------------------------------------
(***************************************************************************)
(* The invariant.                                                          *)
(***************************************************************************)

\* Where the parser stands, and the events that are still to come.
Config(ps, si, st, rest) == [ps |-> ps, si |-> si, st |-> st, rest |-> rest]
Configs == [ps : States, si : Nat, st : SUBSET Bits, rest : Seq(EventT)]

\* Byte c takes the parser from p to q, and an event it returns is the next
\* of those to come.
Reads(p, c, q) ==
  /\ q.ps = StateAfter(p.ps, p.si, c)
  /\ q.si = IndexAfter(p.ps, p.si, c)
  /\ q.st = BitsAfter(p.ps, p.st, c)
  /\ LET ev == EventAfter(p.ps, p.si, p.st, c)
     IN  \/ ev = {} /\ q.rest = p.rest
         \/ p.rest # <<>> /\ ev = {Head(p.rest)} /\ q.rest = Tail(p.rest)

\* The bytes of bs take it from p to q.
Path(cs, p, bs, q) ==
  /\ cs \in [0 .. Len(bs) -> Configs]
  /\ cs[0] = p /\ cs[Len(bs)] = q
  /\ \A k \in 1 .. Len(bs) : Reads(cs[k - 1], bs[k], cs[k])
Reach(p, bs, q) == \E cs : Path(cs, p, bs, q)

Here == Config(parser_state, sequence_index, state, expected)
Held == (down \cap Modifiers) \cup lit
Done(si) == Config("STATE_INIT", si, Held, <<>>)

Types ==
  /\ parser_state \in States /\ sequence_index \in Nat
  /\ parser_state = "STATE_EXTENDED" => sequence_index = 0
  /\ parser_state \in DOMAIN sequence => sequence_index < Len(sequence[parser_state])
  /\ state \in SUBSET Bits
  /\ event \subseteq EventT
  /\ bytes \in Seq(Byte) /\ expected \in Seq(EventT)
  /\ down \subseteq Keys /\ lit \subseteq Locks

Caught == \E si \in Nat : Reach(Here, bytes, Done(si))

IInv == Types /\ Caught

-----------------------------------------------------------------------------
(***************************************************************************)
(* The parser's steps are those functions.                                 *)
(***************************************************************************)

LEMMA ParseIsFunction ==
  ASSUME NEW c \in Byte, Types, parse_scancode(c)
  PROVE  /\ parser_state' = StateAfter(parser_state, sequence_index, c)
         /\ sequence_index' = IndexAfter(parser_state, sequence_index, c)
         /\ state' = BitsAfter(parser_state, state, c)
         /\ event' = EventAfter(parser_state, sequence_index, state, c)
<1>1. CASE handle_init_state(c)
  <2>1. parser_state = "STATE_INIT" /\ sequence_index' = 0
    BY <1>1 DEF handle_init_state
  <2>2. CASE c = \hE1 \/ c = \hE0 \/ to_make_code(c) > MAX_SCANCODE
    BY <1>1, <2>1, <2>2
    DEF handle_init_state, StateAfter, IndexAfter, BitsAfter, EventAfter, Known, NoEvent, Init0,
        to_make_code, Byte, MAX_SCANCODE
  <2>3. CASE c # \hE1 /\ c # \hE0 /\ to_make_code(c) <= MAX_SCANCODE
    <3> DEFINE key == key_map[to_make_code(c)]
    <3>1. parser_state' = "STATE_INIT" /\ Known(c)
      BY <1>1, <2>1, <2>3 DEF handle_init_state, Known, Init0, to_make_code, Byte, MAX_SCANCODE
    <3>2. IF key > STATE_RELATED_KEY_START \/ ~is_make_code(c)
          THEN state' = update_state(key, is_make_code(c)) /\ NoEvent
          ELSE data_event(key, is_keypad_key(to_make_code(c))) /\ UNCHANGED state
      BY <1>1, <2>1, <2>3 DEF handle_init_state, to_make_code, Byte, MAX_SCANCODE
    <3>3. update_state(key, is_make_code(c)) = Updated(state, key, is_make_code(c))
      BY DEF update_state, Updated, Released
    <3> QED
      BY <2>1, <2>3, <3>1, <3>2, <3>3
      DEF StateAfter, IndexAfter, BitsAfter, EventAfter, IsState, NoEvent, data_event, Report
  <2> QED
    BY <2>2, <2>3 DEF to_make_code, Byte, MAX_SCANCODE
<1>2. CASE handle_extended_state(c)
  <2>1. update_state(ExtendedModifiers[to_make_code(c)], is_make_code(c))
          = Updated(state, ExtendedModifiers[to_make_code(c)], is_make_code(c))
    BY DEF update_state, Updated, Released
  <2> QED
    BY <1>2, <2>1
    DEF handle_extended_state, StateAfter, IndexAfter, BitsAfter, EventAfter, NoEvent, data_event,
        Report, AfterExtended
<1>3. CASE handle_sequence_state(c)
  <2>1. parser_state \in {"STATE_PAUSE", "STATE_PRINT_MAKE", "STATE_PRINT_BREAK"}
    BY <1>3 DEF handle_sequence_state, sequence
  <2>2. CASE c # sequence[parser_state][sequence_index + 1]
    BY <1>3, <2>1, <2>2
    DEF handle_sequence_state, StateAfter, IndexAfter, BitsAfter, EventAfter, NoEvent, Init0
  <2>3. CASE /\ c = sequence[parser_state][sequence_index + 1]
             /\ sequence_index = LastIndex(sequence[parser_state])
    <3>1. /\ parser_state' = "STATE_INIT" /\ sequence_index' = sequence_index /\ state' = state
          /\ CASE parser_state = "STATE_PAUSE"       -> data_event(KEY_PAUSE, FALSE)
               [] parser_state = "STATE_PRINT_MAKE"  -> data_event(KEY_PRNT, FALSE)
               [] parser_state = "STATE_PRINT_BREAK" -> NoEvent
      BY <1>3, <2>3 DEF handle_sequence_state, Init0
    <3> QED
      BY <2>1, <2>3, <3>1
      DEF StateAfter, IndexAfter, BitsAfter, EventAfter, NoEvent, data_event, Report
  <2>4. CASE /\ c = sequence[parser_state][sequence_index + 1]
             /\ sequence_index # LastIndex(sequence[parser_state])
    BY <1>3, <2>1, <2>4
    DEF handle_sequence_state, StateAfter, IndexAfter, BitsAfter, EventAfter, NoEvent, Init0
  <2> QED
    BY <2>2, <2>3, <2>4
<1> QED
  BY <1>1, <1>2, <1>3 DEF parse_scancode

\* The codes of the tables lie where their type says.
LEMMA Tables ==
  /\ \A c \in 0 .. MAX_SCANCODE : ~(key_map[c] > STATE_RELATED_KEY_START) => key_map[c] \in Data
  /\ \A c \in DOMAIN ExtendedKeys : ExtendedKeys[c].data \in Data /\ ExtendedKeys[c].keypad \in BOOLEAN
<1> USE DEF Data, MAX_SCANCODE, STATE_RELATED_KEY_START, KEY_UNKNOWN, KEY_L_CTRL
<1>1. \A c \in 0 .. MAX_SCANCODE : ~(key_map[c] > STATE_RELATED_KEY_START) => key_map[c] \in Data
  BY SMTT(60) DEF key_map, KEY_L_SHFT, KEY_R_SHFT, KEY_L_ALT, KEY_NUM, KEY_SCROLL, KEY_CAPS
<1>2. \A c \in DOMAIN ExtendedKeys : ExtendedKeys[c].data \in Data
  BY SMTT(60) DEF ExtendedKeys, KEY_U_ARROW, KEY_L_ARROW, KEY_R_ARROW, KEY_D_ARROW, KEY_DELETE
<1>3. \A c \in DOMAIN ExtendedKeys : ExtendedKeys[c].keypad \in BOOLEAN
  BY DEF ExtendedKeys
<1> QED
  BY <1>1, <1>2, <1>3

LEMMA AfterTypes ==
  ASSUME NEW c \in Byte, NEW ps \in States, NEW si \in Nat, NEW st \in SUBSET Bits,
         ps = "STATE_EXTENDED" => si = 0,
         ps \in DOMAIN sequence => si < Len(sequence[ps])
  PROVE  /\ StateAfter(ps, si, c) \in States
         /\ IndexAfter(ps, si, c) \in Nat
         /\ StateAfter(ps, si, c) = "STATE_EXTENDED" => IndexAfter(ps, si, c) = 0
         /\ StateAfter(ps, si, c) \in DOMAIN sequence
              => IndexAfter(ps, si, c) < Len(sequence[StateAfter(ps, si, c)])
         /\ BitsAfter(ps, st, c) \in SUBSET Bits
         /\ EventAfter(ps, si, st, c) \subseteq EventT
<1>1. /\ StateAfter(ps, si, c) \in States
      /\ IndexAfter(ps, si, c) \in Nat
      /\ StateAfter(ps, si, c) = "STATE_EXTENDED" => IndexAfter(ps, si, c) = 0
      /\ StateAfter(ps, si, c) \in DOMAIN sequence
           => IndexAfter(ps, si, c) < Len(sequence[StateAfter(ps, si, c)])
  <2>1. CASE ps = "STATE_INIT"
    BY <2>1 DEF StateAfter, IndexAfter, States, sequence
  <2>2. CASE ps = "STATE_EXTENDED"
    BY <2>2 DEF StateAfter, IndexAfter, States, sequence
  <2>3. CASE ps \in DOMAIN sequence
    BY <2>3 DEF StateAfter, IndexAfter, States, sequence, LastIndex
  <2> QED
    BY <2>1, <2>2, <2>3 DEF States
<1>2. BitsAfter(ps, st, c) \in SUBSET Bits
  <2>1. ASSUME NEW key, NEW make \in BOOLEAN
        PROVE  Updated(st, key, make) \in SUBSET Bits
    BY DEF Updated, Bits
  <2>2. is_make_code(c) \in BOOLEAN
    BY DEF is_make_code
  <2> QED
    BY <2>1, <2>2 DEF BitsAfter
<1>3. EventAfter(ps, si, st, c) \subseteq EventT
  <2>1. ASSUME NEW d \in Data, NEW k \in BOOLEAN
        PROVE  Report(d, k, st) \subseteq EventT
    BY DEF Report, EventT
  <2>2. Known(c) => to_make_code(c) \in 0 .. MAX_SCANCODE
    BY DEF Known, to_make_code, Byte, MAX_SCANCODE
  <2>3. is_keypad_key(to_make_code(c)) \in BOOLEAN
    BY DEF is_keypad_key
  <2>4. KEY_PAUSE \in Data /\ KEY_PRNT \in Data
    BY DEF Data, KEY_PAUSE, KEY_PRNT, KEY_UNKNOWN, KEY_L_CTRL
  <2> QED
    BY <2>1, <2>2, <2>3, <2>4, Tables DEF EventAfter, IsState
<1> QED
  BY <1>1, <1>2, <1>3

-----------------------------------------------------------------------------
(***************************************************************************)
(* Paths.                                                                  *)
(***************************************************************************)

LEMMA ReachOne ==
  ASSUME NEW p \in Configs, NEW q \in Configs, NEW c \in Byte, Reads(p, c, q)
  PROVE  Reach(p, <<c>>, q)
<1> DEFINE cs == [k \in 0 .. 1 |-> IF k = 0 THEN p ELSE q]
<1>1. Len(<<c>>) = 1 /\ <<c>>[1] = c
  OBVIOUS
<1>2. cs \in [0 .. 1 -> Configs] /\ cs[0] = p /\ cs[1] = q
  OBVIOUS
<1> HIDE DEF cs
<1>3. \A k \in 1 .. 1 : Reads(cs[k - 1], <<c>>[k], cs[k])
  BY <1>1, <1>2
<1> QED
  BY <1>1, <1>2, <1>3 DEF Reach, Path

LEMMA ReachJoin ==
  ASSUME NEW p, NEW q, NEW r, NEW a \in Seq(Byte), NEW b \in Seq(Byte),
         Reach(p, a, q), Reach(q, b, r)
  PROVE  Reach(p, a \o b, r)
<1>1. PICK as : Path(as, p, a, q)
  BY DEF Reach
<1>2. PICK bs : Path(bs, q, b, r)
  BY DEF Reach
<1> DEFINE m == Len(a)
           n == Len(b)
           cs == [k \in 0 .. m + n |-> IF k <= m THEN as[k] ELSE bs[k - m]]
<1>3. /\ m \in Nat /\ n \in Nat /\ Len(a \o b) = m + n
      /\ \A k \in 1 .. m : (a \o b)[k] = a[k]
      /\ \A k \in m + 1 .. m + n : (a \o b)[k] = b[k - m]
  OBVIOUS
<1>4. /\ as \in [0 .. m -> Configs] /\ as[0] = p /\ as[m] = q
      /\ \A k \in 1 .. m : Reads(as[k - 1], a[k], as[k])
  BY <1>1 DEF Path
<1>5. /\ bs \in [0 .. n -> Configs] /\ bs[0] = q /\ bs[n] = r
      /\ \A k \in 1 .. n : Reads(bs[k - 1], b[k], bs[k])
  BY <1>2 DEF Path
<1> HIDE DEF m, n
<1>6. /\ \A k \in 0 .. m : cs[k] = as[k]
      /\ \A k \in m .. m + n : cs[k] = bs[k - m]
  <2>1. ASSUME NEW k \in 0 .. m PROVE cs[k] = as[k]
    <3>1. k \in 0 .. m + n /\ k <= m
      BY <1>3
    <3> QED
      BY <3>1
  <2>2. ASSUME NEW k \in m .. m + n PROVE cs[k] = bs[k - m]
    <3>1. k \in 0 .. m + n
      BY <1>3
    <3>2. CASE k = m
      <4>1. cs[k] = as[m] /\ k - m = 0
        BY <3>1, <3>2, <1>3
      <4> QED
        BY <4>1, <1>4, <1>5
    <3>3. CASE k # m
      <4>1. ~(k <= m)
        BY <3>3, <1>3
      <4> QED
        BY <3>1, <4>1
    <3> QED
      BY <3>2, <3>3
  <2> QED
    BY <2>1, <2>2
<1>7. cs \in [0 .. m + n -> Configs]
  <2>1. ASSUME NEW k \in 0 .. m + n
        PROVE  (IF k <= m THEN as[k] ELSE bs[k - m]) \in Configs
    <3>1. CASE k <= m
      <4>1. k \in 0 .. m
        BY <3>1, <1>3
      <4> QED
        BY <3>1, <4>1, <1>4
    <3>2. CASE ~(k <= m)
      <4>1. k - m \in 0 .. n
        BY <3>2, <1>3
      <4> QED
        BY <3>2, <4>1, <1>5
    <3> QED
      BY <3>1, <3>2
  <2> QED
    BY <2>1
<1> HIDE DEF cs
<1>8. cs[0] = p /\ cs[m + n] = r
  <2>1. 0 \in 0 .. m /\ m + n \in m .. m + n /\ (m + n) - m = n
    BY <1>3
  <2>2. cs[0] = as[0] /\ cs[m + n] = bs[(m + n) - m]
    BY <2>1, <1>6
  <2> QED
    BY <2>1, <2>2, <1>4, <1>5
<1>9. ASSUME NEW k \in 1 .. m + n
      PROVE  Reads(cs[k - 1], (a \o b)[k], cs[k])
  <2>1. CASE k <= m
    <3>1. k \in 1 .. m /\ k - 1 \in 0 .. m /\ k \in 0 .. m
      BY <2>1, <1>3
    <3> QED
      BY <3>1, <1>3, <1>4, <1>6
  <2>2. CASE k > m
    <3>1. /\ k - m \in 1 .. n /\ k - 1 \in m .. m + n /\ k \in m .. m + n
          /\ (k - 1) - m = (k - m) - 1 /\ k \in m + 1 .. m + n
      BY <2>2, <1>3
    <3>2. cs[k - 1] = bs[(k - m) - 1] /\ cs[k] = bs[k - m] /\ (a \o b)[k] = b[k - m]
      BY <3>1, <1>3, <1>6
    <3> QED
      BY <3>1, <3>2, <1>5
  <2> QED
    BY <2>1, <2>2, <1>3
<1> QED
  BY <1>3, <1>7, <1>8, <1>9 DEF Reach, Path

\* The first byte of a path, by the functions of the parser.
LEMMA ReachFirst ==
  ASSUME NEW p, NEW q, NEW bs \in Seq(Byte), bs # <<>>, Reach(p, bs, q)
  PROVE  \E r \in Configs : Reads(p, Head(bs), r) /\ Reach(r, Tail(bs), q)
<1>1. PICK cs : Path(cs, p, bs, q)
  BY DEF Reach
<1> DEFINE n == Len(bs)
           ds == [k \in 0 .. n - 1 |-> cs[k + 1]]
<1>2. /\ n \in Nat /\ n >= 1 /\ Head(bs) = bs[1] /\ Len(Tail(bs)) = n - 1
      /\ \A k \in 1 .. n - 1 : Tail(bs)[k] = bs[k + 1]
  OBVIOUS
<1>3. /\ cs \in [0 .. n -> Configs] /\ cs[0] = p /\ cs[n] = q
      /\ \A k \in 1 .. n : Reads(cs[k - 1], bs[k], cs[k])
  BY <1>1 DEF Path
<1> HIDE DEF n
<1>4. cs[1] \in Configs /\ Reads(p, bs[1], cs[1])
  <2>1. 1 \in 1 .. n /\ 1 - 1 = 0 /\ 1 \in 0 .. n
    BY <1>2
  <2> QED
    BY <2>1, <1>3
<1>5. ds \in [0 .. n - 1 -> Configs] /\ ds[0] = cs[1] /\ ds[n - 1] = q
  BY <1>2, <1>3
<1>6. ASSUME NEW k \in 1 .. n - 1
      PROVE  Reads(ds[k - 1], Tail(bs)[k], ds[k])
  <2>1. k + 1 \in 1 .. n /\ (k + 1) - 1 = k /\ k \in 0 .. n - 1 /\ k - 1 \in 0 .. n - 1
        /\ (k - 1) + 1 = k
    BY <1>2
  <2>2. ds[k - 1] = cs[k] /\ ds[k] = cs[k + 1]
    BY <2>1
  <2> HIDE DEF ds
  <2>3. Reads(cs[(k + 1) - 1], bs[k + 1], cs[k + 1])
    BY <2>1, <1>3
  <2> QED
    BY <1>2, <2>1, <2>2, <2>3
<1> HIDE DEF ds
<1>7. Reach(cs[1], Tail(bs), q)
  BY <1>2, <1>5, <1>6 DEF Reach, Path
<1> QED
  BY <1>2, <1>4, <1>7

\* What is expected later changes nothing of a path.
More(p, e) == Config(p.ps, p.si, p.st, Append(p.rest, e))

LEMMA ReadsMore ==
  ASSUME NEW p \in Configs, NEW q \in Configs, NEW c, NEW e \in EventT, Reads(p, c, q)
  PROVE  Reads(More(p, e), c, More(q, e))
<1> DEFINE ev == EventAfter(p.ps, p.si, p.st, c)
<1>1. /\ q.ps = StateAfter(p.ps, p.si, c) /\ q.si = IndexAfter(p.ps, p.si, c)
      /\ q.st = BitsAfter(p.ps, p.st, c)
      /\ \/ ev = {} /\ q.rest = p.rest
         \/ p.rest # <<>> /\ ev = {Head(p.rest)} /\ q.rest = Tail(p.rest)
  BY DEF Reads
<1> HIDE DEF ev
<1>2. p.rest \in Seq(EventT) /\ q.rest \in Seq(EventT)
  BY DEF Configs
<1> DEFINE pr == Append(p.rest, e)
           qr == Append(q.rest, e)
<1>3. \/ ev = {} /\ qr = pr
      \/ pr # <<>> /\ ev = {Head(pr)} /\ qr = Tail(pr)
  <2>1. CASE ev = {} /\ q.rest = p.rest
    BY <2>1
  <2>2. CASE p.rest # <<>> /\ ev = {Head(p.rest)} /\ q.rest = Tail(p.rest)
    <3>1. pr # <<>> /\ Head(pr) = Head(p.rest) /\ Tail(pr) = Append(Tail(p.rest), e)
      BY <1>2, <2>2
    <3> QED
      BY <3>1, <2>2
  <2> QED
    BY <1>1, <2>1, <2>2
<1>4. /\ More(p, e).ps = p.ps /\ More(p, e).si = p.si /\ More(p, e).st = p.st
      /\ More(p, e).rest = pr
      /\ More(q, e).ps = q.ps /\ More(q, e).si = q.si /\ More(q, e).st = q.st
      /\ More(q, e).rest = qr
  BY DEF More, Config
<1> QED
  BY <1>1, <1>3, <1>4 DEF Reads, ev

LEMMA ReachMore ==
  ASSUME NEW p, NEW q, NEW bs \in Seq(Byte), NEW e \in EventT, Reach(p, bs, q)
  PROVE  Reach(More(p, e), bs, More(q, e))
<1>1. PICK cs : Path(cs, p, bs, q)
  BY DEF Reach
<1> DEFINE n == Len(bs)
           ds == [k \in 0 .. n |-> More(cs[k], e)]
<1>2. /\ n \in Nat /\ cs \in [0 .. n -> Configs] /\ cs[0] = p /\ cs[n] = q
      /\ \A k \in 1 .. n : Reads(cs[k - 1], bs[k], cs[k])
  BY <1>1 DEF Path
<1> HIDE DEF n
<1>3. ASSUME NEW x \in Configs
      PROVE  More(x, e) \in Configs
  BY DEF More, Config, Configs
<1>4. ds \in [0 .. n -> Configs] /\ ds[0] = More(p, e) /\ ds[n] = More(q, e)
  BY <1>2, <1>3
<1>5. ASSUME NEW k \in 1 .. n
      PROVE  Reads(ds[k - 1], bs[k], ds[k])
  <2>1. k - 1 \in 0 .. n /\ k \in 0 .. n
    BY <1>2
  <2>2. ds[k - 1] = More(cs[k - 1], e) /\ ds[k] = More(cs[k], e)
    BY <2>1
  <2>3. cs[k - 1] \in Configs /\ cs[k] \in Configs /\ Reads(cs[k - 1], bs[k], cs[k])
    BY <2>1, <1>2
  <2> HIDE DEF ds
  <2> QED
    BY <2>2, <2>3, ReadsMore
<1> HIDE DEF ds
<1> QED
  BY <1>4, <1>5 DEF Reach, Path, n

-----------------------------------------------------------------------------
(***************************************************************************)
(* The codes of the keys, and what the parser makes of them.               *)
(***************************************************************************)

PlainKeys == {key_map[c] : c \in Plain}
ArrowKeys == {ExtendedKeys[c].data : c \in Arrows}

LEMMA KeyNumbers ==
  /\ ArrowKeys = {KEY_U_ARROW, KEY_L_ARROW, KEY_R_ARROW, KEY_D_ARROW, KEY_DELETE}
  /\ \A c \in DOMAIN key_map :
        key_map[c] \notin ArrowKeys \cup {KEY_R_CTRL, KEY_R_ALT, KEY_PAUSE, KEY_PRNT}
  /\ ArrowKeys \cap {KEY_R_CTRL, KEY_R_ALT, KEY_PAUSE, KEY_PRNT} = {}
<1>1. ArrowKeys = {KEY_U_ARROW, KEY_L_ARROW, KEY_R_ARROW, KEY_D_ARROW, KEY_DELETE}
  BY DEF ArrowKeys, Arrows, ExtendedKeys
<1>2. ASSUME NEW c \in DOMAIN key_map
      PROVE  key_map[c] \notin ArrowKeys \cup {KEY_R_CTRL, KEY_R_ALT, KEY_PAUSE, KEY_PRNT}
  <2>1. key_map[c] \in 0 .. MAX_SCANCODE \cup {KEY_L_CTRL, KEY_L_SHFT, KEY_R_SHFT, KEY_L_ALT,
          KEY_CAPS, KEY_NUM, KEY_SCROLL, KEY_UNKNOWN}
    BY DEF key_map
  <2> QED
    BY <1>1, <2>1 DEF MAX_SCANCODE, KEY_L_CTRL, KEY_L_SHFT, KEY_R_SHFT, KEY_L_ALT, KEY_CAPS, KEY_NUM,
      KEY_SCROLL, KEY_UNKNOWN, KEY_U_ARROW, KEY_L_ARROW, KEY_R_ARROW, KEY_D_ARROW, KEY_DELETE,
      KEY_R_CTRL, KEY_R_ALT, KEY_PAUSE, KEY_PRNT
<1>3. ArrowKeys \cap {KEY_R_CTRL, KEY_R_ALT, KEY_PAUSE, KEY_PRNT} = {}
  BY <1>1 DEF KEY_U_ARROW, KEY_L_ARROW, KEY_R_ARROW, KEY_D_ARROW, KEY_DELETE,
      KEY_R_CTRL, KEY_R_ALT, KEY_PAUSE, KEY_PRNT
<1> QED
  BY <1>1, <1>2, <1>3

LEMMA PlainCode ==
  ASSUME NEW key \in PlainKeys
  PROVE  \E c \in Plain : /\ key_map[c] = key
                          /\ MakeCode(key) = <<c>> /\ BreakCode(key) = <<c + 128>>
<1>1. PICK a \in Plain : key_map[a] = key
  BY DEF PlainKeys
<1>2. Plain \subseteq DOMAIN key_map /\ DOMAIN key_map = 0 .. MAX_SCANCODE
  BY DEF Plain, key_map
<1> DEFINE c == CodeOf(key, key_map)
<1>3. c \in DOMAIN key_map /\ key_map[c] = key
  BY <1>1, <1>2 DEF CodeOf
<1>4. c \in Plain
  BY <1>1, <1>2, <1>3 DEF Plain
<1>5. key # KEY_PAUSE /\ key # KEY_PRNT
  BY <1>3, KeyNumbers
<1>6. MakeCode(key) = <<c>>
  <2>1. key \in {key_map[x] : x \in DOMAIN key_map}
    BY <1>3
  <2>2. key \notin {KEY_R_CTRL, KEY_R_ALT}
    BY <1>3, KeyNumbers
  <2> QED
    BY <1>5, <2>1, <2>2 DEF MakeCode
<1>7. BreakCode(key) = <<c + 128>>
  <2>1. c \in Int
    BY <1>2, <1>4 DEF MAX_SCANCODE
  <2>2. BreakCode(key) = [MakeCode(key) EXCEPT ![Len(MakeCode(key))] = @ + \h80]
    BY <1>5 DEF BreakCode
  <2> HIDE DEF c
  <2>3. BreakCode(key) = [<<c>> EXCEPT ![1] = @ + 128]
    BY <1>6, <2>1, <2>2
  <2> QED
    BY <2>1, <2>3
<1> QED
  BY <1>3, <1>4, <1>6, <1>7

\* The keys with a code of two bytes.
LEMMA PairCode ==
  ASSUME NEW key \in ArrowKeys \cup {KEY_R_CTRL, KEY_R_ALT}
  PROVE  \E c \in Arrows \cup DOMAIN ExtendedModifiers :
            /\ \/ c \in Arrows /\ key = ExtendedKeys[c].data
               \/ c \in DOMAIN ExtendedModifiers /\ key = ExtendedModifiers[c]
            /\ MakeCode(key) = <<\hE0, c>> /\ BreakCode(key) = <<\hE0, c + 128>>
<1>1. /\ key # KEY_PAUSE /\ key # KEY_PRNT
      /\ key \notin {key_map[x] : x \in DOMAIN key_map}
      /\ key \in ArrowKeys => key \notin {KEY_R_CTRL, KEY_R_ALT}
  <2>1. {KEY_R_CTRL, KEY_R_ALT} \cap {KEY_PAUSE, KEY_PRNT} = {}
    BY DEF KEY_R_CTRL, KEY_R_ALT, KEY_PAUSE, KEY_PRNT
  <2> QED
    BY <2>1, KeyNumbers
<1>2. ASSUME NEW c \in Int, MakeCode(key) = <<\hE0, c>>
      PROVE  BreakCode(key) = <<\hE0, c + 128>>
  <2>1. BreakCode(key) = [MakeCode(key) EXCEPT ![Len(MakeCode(key))] = @ + \h80]
    BY <1>1 DEF BreakCode
  <2>2. BreakCode(key) = [<<\hE0, c>> EXCEPT ![2] = @ + 128]
    BY <1>2, <2>1
  <2> QED
    BY <2>2
<1>3. CASE key \in ArrowKeys
  <2> DEFINE c == CodeOf(key, ExtendedData)
  <2>1. c \in DOMAIN ExtendedKeys /\ ExtendedKeys[c].data = key
    <3>1. PICK a \in Arrows : ExtendedKeys[a].data = key
      BY <1>3 DEF ArrowKeys
    <3>2. a \in DOMAIN ExtendedKeys
      BY DEF Arrows, ExtendedKeys
    <3>3. a \in DOMAIN ExtendedData /\ ExtendedData[a] = key
      BY <3>1, <3>2 DEF ExtendedData
    <3>4. c \in DOMAIN ExtendedData /\ ExtendedData[c] = key
      BY <3>3 DEF CodeOf
    <3> QED
      BY <3>4 DEF ExtendedData
  <2>2. MakeCode(key) = <<\hE0, c>>
    BY <1>1, <1>3 DEF MakeCode
  <2> HIDE DEF c
  <2>3. c \in Arrows /\ c \in Int
    <3>1. key \notin {\h35, \h1C}
      BY <1>3, KeyNumbers DEF KEY_U_ARROW, KEY_L_ARROW, KEY_R_ARROW, KEY_D_ARROW, KEY_DELETE
    <3> QED
      BY <2>1, <3>1 DEF Arrows, ExtendedKeys
  <2> QED
    BY <1>2, <2>1, <2>2, <2>3
<1>4. CASE key \in {KEY_R_CTRL, KEY_R_ALT}
  <2> DEFINE c == CodeOf(key, ExtendedModifiers)
  <2>1. c \in DOMAIN ExtendedModifiers /\ ExtendedModifiers[c] = key
    <3>1. \E a \in DOMAIN ExtendedModifiers : ExtendedModifiers[a] = key
      BY <1>4 DEF ExtendedModifiers, KEY_R_CTRL, KEY_R_ALT
    <3> QED
      BY <3>1 DEF CodeOf
  <2>2. MakeCode(key) = <<\hE0, c>>
    BY <1>1, <1>4 DEF MakeCode
  <2> HIDE DEF c
  <2>3. c \in Int
    BY <2>1 DEF ExtendedModifiers
  <2> QED
    BY <1>2, <2>1, <2>2, <2>3
<1> QED
  BY <1>3, <1>4

Start(si, st, rest) == Config("STATE_INIT", si, st, rest)
IsBit(key)          == key > STATE_RELATED_KEY_START
PressEvent(key, st) ==
  [data |-> key, keypad |-> key <= MAX_SCANCODE /\ is_keypad_key(key), state |-> st]
Events(key, st)     == IF IsBit(key) THEN <<>> ELSE <<PressEvent(key, st)>>

LEMMA ConfigTypes ==
  ASSUME NEW ps \in States, NEW si \in Nat, NEW st \in SUBSET Bits, NEW rest \in Seq(EventT)
  PROVE  /\ Config(ps, si, st, rest) \in Configs
         /\ Config(ps, si, st, rest).ps = ps /\ Config(ps, si, st, rest).si = si
         /\ Config(ps, si, st, rest).st = st /\ Config(ps, si, st, rest).rest = rest
BY DEF Config, Configs

LEMMA EventTypes ==
  ASSUME NEW key \in Decodable, NEW st \in SUBSET Bits
  PROVE  Events(key, st) \in Seq(EventT) /\ (~IsBit(key) => PressEvent(key, st) \in EventT)
<1>1. SUFFICES ASSUME ~IsBit(key)
               PROVE  key \in Data
  <2>1. (key <= MAX_SCANCODE /\ is_keypad_key(key)) \in BOOLEAN
    OBVIOUS
  <2>2. key \in Data => PressEvent(key, st) \in EventT
    BY <2>1 DEF PressEvent, EventT
  <2>3. PressEvent(key, st) \in EventT => <<PressEvent(key, st)>> \in Seq(EventT)
    OBVIOUS
  <2>4. <<>> \in Seq(EventT)
    OBVIOUS
  <2> QED
    BY <2>2, <2>3, <2>4 DEF Events
<1>2. CASE key \in PlainKeys
  BY <1>1, <1>2, Tables DEF PlainKeys, Plain, IsBit
<1>3. CASE key \in ArrowKeys \cup {KEY_PAUSE}
  BY <1>3, KeyNumbers DEF Data, KEY_U_ARROW, KEY_L_ARROW, KEY_R_ARROW, KEY_D_ARROW, KEY_DELETE,
    KEY_PAUSE, KEY_UNKNOWN, KEY_L_CTRL
<1>4. CASE key \in {KEY_R_CTRL, KEY_R_ALT}
  BY <1>1, <1>4 DEF IsBit, KEY_R_CTRL, KEY_R_ALT, STATE_RELATED_KEY_START
<1> QED
  BY <1>2, <1>3, <1>4 DEF Decodable, PlainKeys, ArrowKeys

LEMMA UpdatedTypes ==
  ASSUME NEW st \in SUBSET Bits, NEW key, NEW make \in BOOLEAN
  PROVE  Updated(st, key, make) \in SUBSET Bits
BY DEF Updated, Bits

\* Keys of one byte.
LEMMA PlainReads ==
  ASSUME NEW c \in Plain, NEW si \in Nat, NEW st \in SUBSET Bits
  PROVE  /\ c \in Byte /\ c + 128 \in Byte
         /\ Reads(Start(si, st, Events(key_map[c], st)), c,
                  Start(0, Updated(st, key_map[c], TRUE), <<>>))
         /\ Reads(Start(si, st, <<>>), c + 128, Start(0, Updated(st, key_map[c], FALSE), <<>>))
<1> DEFINE key == key_map[c]
<1>1. /\ c \in 0 .. MAX_SCANCODE /\ c \in Byte /\ c + 128 \in Byte
      /\ to_make_code(c) = c /\ to_make_code(c + 128) = c
      /\ is_make_code(c) = TRUE /\ is_make_code(c + 128) = FALSE
      /\ Known(c) /\ Known(c + 128)
  BY DEF Plain, Byte, MAX_SCANCODE, to_make_code, is_make_code, Known
<1>2. key \in Decodable
  BY DEF Decodable
<1>3. ~IsBit(key) => PressEvent(key, st) = [data |-> key, keypad |-> is_keypad_key(c), state |-> st]
  <2>1. is_keypad_key(c) <=> (key <= MAX_SCANCODE /\ is_keypad_key(key))
    <3>1. CASE c \in {\h1D, \h2A, \h36, \h38, \h3A, \h45, \h46, 0, \h54, \h55, \h56}
      <4>1. ~is_keypad_key(c)
        BY <3>1 DEF is_keypad_key
      <4>2. ~(key <= MAX_SCANCODE)
        BY <3>1, <1>1 DEF key_map, MAX_SCANCODE, KEY_L_CTRL, KEY_L_SHFT, KEY_R_SHFT, KEY_L_ALT,
          KEY_CAPS, KEY_NUM, KEY_SCROLL, KEY_UNKNOWN
      <4> QED
        BY <4>1, <4>2
    <3>2. CASE c \notin {\h1D, \h2A, \h36, \h38, \h3A, \h45, \h46, 0, \h54, \h55, \h56}
      <4>1. key = c
        BY <3>2, <1>1 DEF key_map
      <4> QED
        BY <4>1, <1>1 DEF MAX_SCANCODE
    <3> QED
      BY <3>1, <3>2
  <2>2. CASE is_keypad_key(c)
    <3>1. is_keypad_key(c) = TRUE /\ (key <= MAX_SCANCODE /\ is_keypad_key(key)) = TRUE
      BY <2>1, <2>2 DEF is_keypad_key
    <3> QED
      BY <3>1 DEF PressEvent
  <2>3. CASE ~is_keypad_key(c)
    <3>1. is_keypad_key(c) = FALSE /\ (key <= MAX_SCANCODE /\ is_keypad_key(key)) = FALSE
      BY <2>1, <2>3 DEF is_keypad_key
    <3> QED
      BY <3>1 DEF PressEvent
  <2> QED
    BY <2>2, <2>3
<1>4. IsBit(key) => Updated(st, key, TRUE) \in SUBSET Bits
  BY UpdatedTypes
<1>5. ~IsBit(key) => Updated(st, key, TRUE) = st
  <2>1. SUFFICES ASSUME ~IsBit(key)
                 PROVE  key \notin Locks \cup Modifiers
    BY DEF Updated
  <2>2. key # KEY_L_CTRL
    BY DEF Plain
  <2> QED
    BY <2>1, <2>2 DEF Plain, key_map, IsBit, Locks, Modifiers, STATE_RELATED_KEY_START, KEY_L_CTRL,
      KEY_R_CTRL, KEY_L_SHFT, KEY_R_SHFT, KEY_L_ALT, KEY_R_ALT, KEY_CAPS, KEY_NUM
<1> HIDE DEF key
<1>6. Reads(Start(si, st, Events(key, st)), c, Start(0, Updated(st, key, TRUE), <<>>))
  <2>1. /\ StateAfter("STATE_INIT", si, c) = "STATE_INIT" /\ IndexAfter("STATE_INIT", si, c) = 0
        /\ BitsAfter("STATE_INIT", st, c) = IF IsBit(key) THEN Updated(st, key, TRUE) ELSE st
        /\ EventAfter("STATE_INIT", si, st, c) =
             IF IsBit(key) THEN {} ELSE Report(key, is_keypad_key(c), st)
    BY <1>1 DEF StateAfter, IndexAfter, BitsAfter, EventAfter, IsState, IsBit, Known, key
  <2>2. CASE IsBit(key)
    BY <2>1, <2>2 DEF Reads, Start, Config, Events
  <2>3. CASE ~IsBit(key)
    <3>1. EventAfter("STATE_INIT", si, st, c) = {PressEvent(key, st)}
      BY <2>1, <2>3, <1>3 DEF Report
    <3>2. /\ Events(key, st) = <<PressEvent(key, st)>>
          /\ Events(key, st) # <<>> /\ Head(Events(key, st)) = PressEvent(key, st)
          /\ Tail(Events(key, st)) = <<>>
      BY <2>3 DEF Events
    <3> QED
      BY <2>1, <2>3, <3>1, <3>2, <1>5 DEF Reads, Start, Config
  <2> QED
    BY <2>2, <2>3
<1>7. Reads(Start(si, st, <<>>), c + 128, Start(0, Updated(st, key, FALSE), <<>>))
  <2>1. /\ StateAfter("STATE_INIT", si, c + 128) = "STATE_INIT"
        /\ IndexAfter("STATE_INIT", si, c + 128) = 0
        /\ BitsAfter("STATE_INIT", st, c + 128) = Updated(st, key, FALSE)
        /\ EventAfter("STATE_INIT", si, st, c + 128) = {}
    BY <1>1 DEF StateAfter, IndexAfter, BitsAfter, EventAfter, IsState, Known, key
  <2> QED
    BY <2>1 DEF Reads, Start, Config
<1> QED
  BY <1>1, <1>6, <1>7 DEF key

\* Keys of two bytes: the second.
LEMMA PairReads ==
  ASSUME NEW c \in Arrows \cup DOMAIN ExtendedModifiers, NEW key,
         \/ c \in Arrows /\ key = ExtendedKeys[c].data
         \/ c \in DOMAIN ExtendedModifiers /\ key = ExtendedModifiers[c],
         NEW st \in SUBSET Bits
  PROVE  /\ c \in Byte /\ c + 128 \in Byte
         /\ Reads(Config("STATE_EXTENDED", 0, st, Events(key, st)), c,
                  Start(0, Updated(st, key, TRUE), <<>>))
         /\ Reads(Config("STATE_EXTENDED", 0, st, <<>>), c + 128,
                  Start(0, Updated(st, key, FALSE), <<>>))
<1>1. /\ c \in Byte /\ c + 128 \in Byte
      /\ to_make_code(c) = c /\ to_make_code(c + 128) = c
      /\ is_make_code(c) = TRUE /\ is_make_code(c + 128) = FALSE
      /\ c # \h2A /\ c # \hB7 /\ c + 128 # \h2A /\ c + 128 # \hB7
      /\ c + 128 \notin DOMAIN ExtendedKeys
  BY DEF Arrows, ExtendedModifiers, ExtendedKeys, Byte, to_make_code, is_make_code
<1>2. /\ StateAfter("STATE_EXTENDED", 0, c) = "STATE_INIT"
      /\ StateAfter("STATE_EXTENDED", 0, c + 128) = "STATE_INIT"
      /\ IndexAfter("STATE_EXTENDED", 0, c) = 0 /\ IndexAfter("STATE_EXTENDED", 0, c + 128) = 0
      /\ EventAfter("STATE_EXTENDED", 0, st, c + 128) = {}
  BY <1>1 DEF StateAfter, IndexAfter, EventAfter
<1>3. CASE c \in Arrows /\ key = ExtendedKeys[c].data
  <2>1. key \notin Modifiers \cup Locks /\ ~IsBit(key) /\ ~(key <= MAX_SCANCODE)
    <3>1. key \in ArrowKeys
      BY <1>3 DEF ArrowKeys
    <3> QED
      BY <3>1, KeyNumbers DEF Modifiers, Locks, IsBit, KEY_U_ARROW, KEY_L_ARROW, KEY_R_ARROW,
        KEY_D_ARROW, KEY_DELETE, STATE_RELATED_KEY_START, MAX_SCANCODE, KEY_L_CTRL, KEY_R_CTRL,
        KEY_L_SHFT, KEY_R_SHFT, KEY_L_ALT, KEY_R_ALT, KEY_CAPS, KEY_NUM
  <2>2. /\ Updated(st, key, TRUE) = st /\ Updated(st, key, FALSE) = st
        /\ Events(key, st) = <<PressEvent(key, st)>>
        /\ PressEvent(key, st) = [data |-> key, keypad |-> FALSE, state |-> st]
    BY <2>1 DEF Updated, Events, PressEvent
  <2>3. /\ c \in DOMAIN ExtendedKeys /\ ExtendedKeys[c].keypad = FALSE
        /\ c \notin DOMAIN ExtendedModifiers
    BY <1>3 DEF Arrows, ExtendedKeys, ExtendedModifiers
  <2>4. /\ BitsAfter("STATE_EXTENDED", st, c) = st /\ BitsAfter("STATE_EXTENDED", st, c + 128) = st
        /\ EventAfter("STATE_EXTENDED", 0, st, c) = {PressEvent(key, st)}
    BY <1>1, <1>3, <2>2, <2>3 DEF BitsAfter, EventAfter, Report
  <2>5. /\ Events(key, st) # <<>> /\ Head(Events(key, st)) = PressEvent(key, st)
        /\ Tail(Events(key, st)) = <<>>
    BY <2>2
  <2> QED
    BY <1>1, <1>2, <2>2, <2>4, <2>5 DEF Reads, Start, Config
<1>4. CASE c \in DOMAIN ExtendedModifiers /\ key = ExtendedModifiers[c]
  <2>1. key \in {KEY_R_CTRL, KEY_R_ALT} /\ c \notin DOMAIN ExtendedKeys
    BY <1>4 DEF ExtendedModifiers, ExtendedKeys
  <2>2. Events(key, st) = <<>>
    BY <2>1 DEF Events, IsBit, KEY_R_CTRL, KEY_R_ALT, STATE_RELATED_KEY_START
  <2>3. /\ BitsAfter("STATE_EXTENDED", st, c) = Updated(st, key, TRUE)
        /\ BitsAfter("STATE_EXTENDED", st, c + 128) = Updated(st, key, FALSE)
        /\ EventAfter("STATE_EXTENDED", 0, st, c) = {}
    BY <1>1, <1>4, <2>1 DEF BitsAfter, EventAfter
  <2> QED
    BY <1>1, <1>2, <2>2, <2>3 DEF Reads, Start, Config
<1> QED
  BY <1>3, <1>4

\* ... and the first.
LEMMA PrefixReads ==
  ASSUME NEW si \in Nat, NEW st \in SUBSET Bits, NEW rest
  PROVE  /\ Reads(Start(si, st, rest), \hE0, Config("STATE_EXTENDED", 0, st, rest))
         /\ Reads(Start(si, st, rest), \hE1, Config("STATE_PAUSE", 0, st, rest))
BY DEF Reads, Start, Config, StateAfter, IndexAfter, BitsAfter, EventAfter, Known

\* A byte before others, and two bytes.
LEMMA ByteFirst ==
  ASSUME NEW b \in Byte, NEW t \in Seq(Byte)
  PROVE  /\ <<b>> \o t \in Seq(Byte) /\ Len(<<b>> \o t) = Len(t) + 1
         /\ (<<b>> \o t)[1] = b
         /\ \A j \in 1 .. Len(t) : (<<b>> \o t)[j + 1] = t[j]
<1> DEFINE s == <<b>>
<1>1. s \in Seq(Byte) /\ Len(s) = 1 /\ s[1] = b /\ Len(t) \in Nat
  OBVIOUS
<1> HIDE DEF s
<1>2. /\ s \o t \in Seq(Byte) /\ Len(s \o t) = Len(s) + Len(t)
      /\ \A i \in 1 .. Len(s) + Len(t) :
            (s \o t)[i] = IF i <= Len(s) THEN s[i] ELSE t[i - Len(s)]
  BY <1>1, ConcatProperties
<1>3. (s \o t)[1] = b
  BY <1>1, <1>2
<1>4. ASSUME NEW j \in 1 .. Len(t)
      PROVE  (s \o t)[j + 1] = t[j]
  <2>1. j + 1 \in 1 .. 1 + Len(t) /\ ~(j + 1 <= 1) /\ (j + 1) - 1 = j
    BY <1>1
  <2> QED
    BY <1>1, <1>2, <2>1
<1> QED
  BY <1>1, <1>2, <1>3, <1>4 DEF s

LEMMA TwoBytes ==
  ASSUME NEW a \in Byte, NEW b \in Byte
  PROVE  <<a>> \o <<b>> = <<a, b>>
<1> DEFINE t == <<b>>
           s == <<a>> \o t
           u == <<a, b>>
<1>1. t \in Seq(Byte) /\ Len(t) = 1 /\ t[1] = b
  OBVIOUS
<1>2. u \in Seq(Byte) /\ Len(u) = 2 /\ u[1] = a /\ u[2] = b
  OBVIOUS
<1> HIDE DEF t
<1>3. s \in Seq(Byte) /\ Len(s) = 2 /\ s[1] = a
  BY <1>1, ByteFirst
<1>4. s[2] = b
  <2>1. \A j \in 1 .. Len(t) : s[j + 1] = t[j]
    BY <1>1, ByteFirst
  <2> HIDE DEF s
  <2>2. 1 \in 1 .. Len(t)
    BY <1>1
  <2>3. s[1 + 1] = t[1]
    BY <2>1, <2>2
  <2> QED
    BY <1>1, <2>3
<1> HIDE DEF s, u
<1>5. Len(s) = Len(u) /\ \A i \in 1 .. Len(s) : s[i] = u[i]
  BY <1>2, <1>3, <1>4
<1>6. s = u
  BY <1>2, <1>3, <1>5, SeqEqual
<1> QED
  BY <1>6 DEF s, t, u

LEMMA PauseCode ==
  /\ MakeCode(KEY_PAUSE) = <<\hE1>> \o sequence["STATE_PAUSE"]
  /\ BreakCode(KEY_PAUSE) = <<>>
<1>1. /\ KEY_PAUSE \notin {key_map[c] : c \in DOMAIN key_map}
      /\ KEY_PAUSE \notin {KEY_R_CTRL, KEY_R_ALT, KEY_PRNT}
  BY KeyNumbers DEF KEY_PAUSE, KEY_PRNT, KEY_R_CTRL, KEY_R_ALT
<1>2. MakeCode(KEY_PAUSE) = <<\hE1>> \o sequence["STATE_PAUSE"]
  BY <1>1 DEF MakeCode
<1>3. BreakCode(KEY_PAUSE) = <<>>
  BY <1>1 DEF BreakCode
<1> QED
  BY <1>2, <1>3

\* The six bytes of the pause key.
LEMMA PauseReach ==
  ASSUME NEW si \in Nat, NEW st \in SUBSET Bits
  PROVE  /\ MakeCode(KEY_PAUSE) \in Seq(Byte)
         /\ Reach(Start(si, st, Events(KEY_PAUSE, st)), MakeCode(KEY_PAUSE), Start(4, st, <<>>))
<1> DEFINE bs == MakeCode(KEY_PAUSE)
           rest == Events(KEY_PAUSE, st)
           cs == [k \in 0 .. 6 |->
                    IF k = 0 THEN Start(si, st, rest)
                    ELSE IF k = 6 THEN Start(4, st, <<>>)
                    ELSE Config("STATE_PAUSE", k - 1, st, rest)]
<1>1. /\ Len(bs) = 6 /\ bs[1] = \hE1 /\ bs \in Seq(Byte)
      /\ \A j \in 1 .. 5 : bs[j + 1] = sequence["STATE_PAUSE"][j]
  <2> DEFINE t == <<\h1D, \h45, \hE1, \h9D, \hC5>>
  <2>1. bs = <<\hE1>> \o sequence["STATE_PAUSE"]
    BY PauseCode
  <2>2. sequence["STATE_PAUSE"] = t
    BY DEF sequence
  <2>3. Len(t) = 5 /\ t \in Seq(Byte)
    <3>1. {\h1D, \h45, \hE1, \h9D, \hC5} \subseteq Byte
      BY DEF Byte
    <3> QED
      BY <3>1
  <2>4. \hE1 \in Byte
    BY DEF Byte
  <2> HIDE DEF t, bs
  <2>5. /\ <<\hE1>> \o t \in Seq(Byte) /\ Len(<<\hE1>> \o t) = Len(t) + 1
        /\ (<<\hE1>> \o t)[1] = \hE1
        /\ \A j \in 1 .. Len(t) : (<<\hE1>> \o t)[j + 1] = t[j]
    BY <2>3, <2>4, ByteFirst, ZenonT(60)
  <2> QED
    BY <2>1, <2>2, <2>3, <2>5
<1>2. bs \in Seq(Byte) /\ Len(bs) = 6
  BY <1>1
<1>3. KEY_PAUSE \in Decodable
  BY DEF Decodable
<1>4. /\ rest = <<PressEvent(KEY_PAUSE, st)>>
      /\ PressEvent(KEY_PAUSE, st) = [data |-> KEY_PAUSE, keypad |-> FALSE, state |-> st]
      /\ rest # <<>> /\ Head(rest) = PressEvent(KEY_PAUSE, st) /\ Tail(rest) = <<>>
      /\ rest \in Seq(EventT)
  <2>1. ~IsBit(KEY_PAUSE) /\ ~(KEY_PAUSE <= MAX_SCANCODE)
    BY DEF IsBit, KEY_PAUSE, STATE_RELATED_KEY_START, MAX_SCANCODE
  <2>2. rest = <<PressEvent(KEY_PAUSE, st)>>
    BY <2>1 DEF Events
  <2>3. (KEY_PAUSE <= MAX_SCANCODE /\ is_keypad_key(KEY_PAUSE)) = FALSE
    BY <2>1
  <2>4. PressEvent(KEY_PAUSE, st) = [data |-> KEY_PAUSE, keypad |-> FALSE, state |-> st]
    BY <2>3 DEF PressEvent
  <2>5. rest \in Seq(EventT)
    BY <1>3, EventTypes
  <2>6. rest # <<>> /\ Head(rest) = PressEvent(KEY_PAUSE, st) /\ Tail(rest) = <<>>
    BY <2>2
  <2> QED
    BY <2>2, <2>4, <2>5, <2>6
<1> HIDE DEF rest
<1>5. cs \in [0 .. 6 -> Configs]
  <2>1. "STATE_INIT" \in States /\ "STATE_PAUSE" \in States
    BY DEF States, sequence
  <2>2. /\ Start(si, st, rest) \in Configs /\ Start(4, st, <<>>) \in Configs
        /\ \A k \in 1 .. 5 : Config("STATE_PAUSE", k - 1, st, rest) \in Configs
    BY <1>4, <2>1 DEF Start, Config, Configs
  <2> QED
    BY <2>2
<1>6. cs[0] = Start(si, st, rest) /\ cs[6] = Start(4, st, <<>>)
  OBVIOUS
<1>7. ASSUME NEW k \in 1 .. 6
      PROVE  Reads(cs[k - 1], bs[k], cs[k])
  <2>1. CASE k = 1
    <3>1. cs[0] = Start(si, st, rest) /\ cs[1] = Config("STATE_PAUSE", 0, st, rest) /\ bs[1] = \hE1
      BY <1>1
    <3> QED
      BY <2>1, <3>1, PrefixReads
  <2> DEFINE s == sequence["STATE_PAUSE"]
  <2>2. /\ s = <<\h1D, \h45, \hE1, \h9D, \hC5>> /\ LastIndex(s) = 4
        /\ \A j \in 1 .. 5 : bs[j + 1] = s[j]
    <3>1. s = <<\h1D, \h45, \hE1, \h9D, \hC5>>
      BY DEF sequence
    <3> HIDE DEF bs
    <3> QED
      BY <1>1, <3>1 DEF LastIndex
  <2>3. CASE k \in 2 .. 5
    <3>1. cs[k - 1] = Config("STATE_PAUSE", k - 2, st, rest) /\ cs[k] = Config("STATE_PAUSE", k - 1, st, rest)
      BY <2>3
    <3>2. bs[k] = s[(k - 2) + 1] /\ k - 2 # LastIndex(s)
      <4>1. (k - 2) + 1 \in 1 .. 5 /\ ((k - 2) + 1) + 1 = k
        BY <2>3
      <4> QED
        BY <2>2, <2>3, <4>1
    <3> HIDE DEF s, bs, cs
    <3>3. /\ StateAfter("STATE_PAUSE", k - 2, bs[k]) = "STATE_PAUSE"
          /\ IndexAfter("STATE_PAUSE", k - 2, bs[k]) = k - 1
          /\ BitsAfter("STATE_PAUSE", st, bs[k]) = st
          /\ EventAfter("STATE_PAUSE", k - 2, st, bs[k]) = {}
      BY <3>2, <2>3 DEF StateAfter, IndexAfter, BitsAfter, EventAfter, s
    <3> QED
      BY <3>1, <3>3 DEF Reads, Config
  <2>4. CASE k = 6
    <3>1. cs[5] = Config("STATE_PAUSE", 4, st, rest) /\ cs[6] = Start(4, st, <<>>)
      OBVIOUS
    <3>2. bs[6] = s[4 + 1] /\ 4 = LastIndex(s)
      BY <2>2
    <3> HIDE DEF s, bs, cs
    <3>3. /\ StateAfter("STATE_PAUSE", 4, bs[6]) = "STATE_INIT"
          /\ IndexAfter("STATE_PAUSE", 4, bs[6]) = 4
          /\ BitsAfter("STATE_PAUSE", st, bs[6]) = st
          /\ EventAfter("STATE_PAUSE", 4, st, bs[6]) = {PressEvent(KEY_PAUSE, st)}
      BY <3>2, <1>4 DEF StateAfter, IndexAfter, BitsAfter, EventAfter, s, Report
    <3>4. cs[k - 1] = cs[5]
      BY <2>4
    <3> QED
      BY <2>4, <3>1, <3>3, <3>4, <1>4 DEF Reads, Start, Config
  <2> QED
    BY <2>1, <2>3, <2>4
<1> HIDE DEF cs, bs
<1>8. Path(cs, Start(si, st, rest), bs, Start(4, st, <<>>))
  BY <1>2, <1>5, <1>6, <1>7 DEF Path
<1> QED
  BY <1>2, <1>8 DEF Reach, bs, rest

LEMMA StartTypes ==
  ASSUME NEW si \in Nat, NEW st \in SUBSET Bits, NEW rest \in Seq(EventT)
  PROVE  /\ Start(si, st, rest) \in Configs
         /\ Config("STATE_EXTENDED", si, st, rest) \in Configs
BY DEF Start, Config, Configs, States

\* A press is read for what it is ...
LEMMA PressReach ==
  ASSUME NEW key \in Decodable, NEW si \in Nat, NEW st \in SUBSET Bits
  PROVE  /\ MakeCode(key) \in Seq(Byte)
         /\ \E sj \in Nat : Reach(Start(si, st, Events(key, st)), MakeCode(key),
                                  Start(sj, Updated(st, key, TRUE), <<>>))
<1>1. /\ Events(key, st) \in Seq(EventT) /\ Updated(st, key, TRUE) \in SUBSET Bits
      /\ <<>> \in Seq(EventT)
  <2>1. TRUE \in BOOLEAN /\ <<>> \in Seq(EventT)
    OBVIOUS
  <2> QED
    BY <2>1, EventTypes, UpdatedTypes
<1>2. CASE key \in PlainKeys
  <2>1. PICK c \in Plain : key_map[c] = key /\ MakeCode(key) = <<c>>
    BY <1>2, PlainCode
  <2>2. c \in Byte /\ Reads(Start(si, st, Events(key, st)), c, Start(0, Updated(st, key, TRUE), <<>>))
    BY <2>1, PlainReads
  <2>3. Reach(Start(si, st, Events(key, st)), <<c>>, Start(0, Updated(st, key, TRUE), <<>>))
    BY <1>1, <2>2, StartTypes, ReachOne
  <2>4. <<c>> \in Seq(Byte)
    BY <2>2
  <2> QED
    BY <2>1, <2>3, <2>4
<1>3. CASE key \in ArrowKeys \cup {KEY_R_CTRL, KEY_R_ALT}
  <2> DEFINE mid == Config("STATE_EXTENDED", 0, st, Events(key, st))
             end == Start(0, Updated(st, key, TRUE), <<>>)
  <2>1. PICK c \in Arrows \cup DOMAIN ExtendedModifiers :
          /\ \/ c \in Arrows /\ key = ExtendedKeys[c].data
             \/ c \in DOMAIN ExtendedModifiers /\ key = ExtendedModifiers[c]
          /\ MakeCode(key) = <<\hE0, c>>
    BY <1>3, PairCode
  <2>2. c \in Byte /\ Reads(mid, c, end)
    BY <2>1, PairReads
  <2>3. Reads(Start(si, st, Events(key, st)), \hE0, mid)
    BY PrefixReads
  <2>4. mid \in Configs /\ end \in Configs /\ Start(si, st, Events(key, st)) \in Configs
    BY <1>1, StartTypes
  <2> HIDE DEF mid, end
  <2>5. \hE0 \in Byte
    BY DEF Byte
  <2>6. Reach(Start(si, st, Events(key, st)), <<\hE0>>, mid) /\ Reach(mid, <<c>>, end)
    BY <2>2, <2>3, <2>4, <2>5, ReachOne
  <2>7. /\ <<\hE0>> \in Seq(Byte) /\ <<c>> \in Seq(Byte)
        /\ <<\hE0, c>> \in Seq(Byte)
    BY <2>2, <2>5
  <2>9. <<\hE0>> \o <<c>> = <<\hE0, c>>
    BY <2>2, <2>5, TwoBytes
  <2>8. Reach(Start(si, st, Events(key, st)), <<\hE0>> \o <<c>>, end)
    BY <2>6, <2>7, ReachJoin
  <2> QED
    BY <2>1, <2>7, <2>8, <2>9 DEF end
<1>4. CASE key = KEY_PAUSE
  <2>1. Updated(st, KEY_PAUSE, TRUE) = st
    BY DEF Updated, Locks, Modifiers, KEY_PAUSE, KEY_L_CTRL, KEY_R_CTRL, KEY_L_SHFT, KEY_R_SHFT,
      KEY_L_ALT, KEY_R_ALT, KEY_CAPS, KEY_NUM
  <2> QED
    BY <1>4, <2>1, PauseReach
<1> QED
  BY <1>2, <1>3, <1>4 DEF Decodable, PlainKeys, ArrowKeys

\* ... and so is a release.
LEMMA ReleaseReach ==
  ASSUME NEW key \in Decodable, NEW si \in Nat, NEW st \in SUBSET Bits
  PROVE  /\ BreakCode(key) \in Seq(Byte)
         /\ \E sj \in Nat : Reach(Start(si, st, <<>>), BreakCode(key),
                                  Start(sj, Updated(st, key, FALSE), <<>>))
<1>1. <<>> \in Seq(EventT) /\ Updated(st, key, FALSE) \in SUBSET Bits
  <2>1. FALSE \in BOOLEAN /\ <<>> \in Seq(EventT)
    OBVIOUS
  <2> QED
    BY <2>1, UpdatedTypes
<1>2. CASE key \in PlainKeys
  <2>1. PICK c \in Plain : key_map[c] = key /\ BreakCode(key) = <<c + 128>>
    BY <1>2, PlainCode
  <2>2. /\ c + 128 \in Byte
        /\ Reads(Start(si, st, <<>>), c + 128, Start(0, Updated(st, key, FALSE), <<>>))
    BY <2>1, PlainReads
  <2>3. Reach(Start(si, st, <<>>), <<c + 128>>, Start(0, Updated(st, key, FALSE), <<>>))
    BY <1>1, <2>2, StartTypes, ReachOne
  <2>4. <<c + 128>> \in Seq(Byte)
    BY <2>2
  <2> QED
    BY <2>1, <2>3, <2>4
<1>3. CASE key \in ArrowKeys \cup {KEY_R_CTRL, KEY_R_ALT}
  <2> DEFINE mid == Config("STATE_EXTENDED", 0, st, <<>>)
             end == Start(0, Updated(st, key, FALSE), <<>>)
  <2>1. PICK c \in Arrows \cup DOMAIN ExtendedModifiers :
          /\ \/ c \in Arrows /\ key = ExtendedKeys[c].data
             \/ c \in DOMAIN ExtendedModifiers /\ key = ExtendedModifiers[c]
          /\ BreakCode(key) = <<\hE0, c + 128>>
    BY <1>3, PairCode
  <2>2. c + 128 \in Byte /\ Reads(mid, c + 128, end)
    BY <2>1, PairReads
  <2>3. Reads(Start(si, st, <<>>), \hE0, mid)
    BY PrefixReads
  <2>4. mid \in Configs /\ end \in Configs /\ Start(si, st, <<>>) \in Configs
    BY <1>1, StartTypes
  <2> HIDE DEF mid, end
  <2>5. \hE0 \in Byte
    BY DEF Byte
  <2>6. Reach(Start(si, st, <<>>), <<\hE0>>, mid) /\ Reach(mid, <<c + 128>>, end)
    BY <2>2, <2>3, <2>4, <2>5, ReachOne
  <2>7. /\ <<\hE0>> \in Seq(Byte) /\ <<c + 128>> \in Seq(Byte)
        /\ <<\hE0, c + 128>> \in Seq(Byte)
    BY <2>2, <2>5
  <2>9. <<\hE0>> \o <<c + 128>> = <<\hE0, c + 128>>
    BY <2>2, <2>5, TwoBytes
  <2>8. Reach(Start(si, st, <<>>), <<\hE0>> \o <<c + 128>>, end)
    BY <2>6, <2>7, ReachJoin
  <2> QED
    BY <2>1, <2>7, <2>8, <2>9 DEF end
<1>4. CASE key = KEY_PAUSE
  <2>1. Updated(st, KEY_PAUSE, FALSE) = st
    BY DEF Updated, Locks, Modifiers, KEY_PAUSE, KEY_L_CTRL, KEY_R_CTRL, KEY_L_SHFT, KEY_R_SHFT,
      KEY_L_ALT, KEY_R_ALT, KEY_CAPS, KEY_NUM
  <2>2. BreakCode(KEY_PAUSE) = <<>>
    BY PauseCode
  <2> DEFINE p == Start(si, st, <<>>)
             cs == [k \in 0 .. 0 |-> p]
  <2>3. p \in Configs
    BY <1>1, StartTypes
  <2> HIDE DEF p
  <2>4. Path(cs, p, <<>>, p)
    BY <2>3 DEF Path
  <2> QED
    BY <1>4, <2>1, <2>2, <2>4 DEF Reach, p
<1> QED
  BY <1>2, <1>3, <1>4 DEF Decodable, PlainKeys, ArrowKeys

-----------------------------------------------------------------------------
(***************************************************************************)
(* The invariant is inductive.                                             *)
(***************************************************************************)

LEMMA HeldTypes ==
  ASSUME down \subseteq Keys, lit \subseteq Locks
  PROVE  Held \in SUBSET Bits
BY DEF Held, Bits

LEMMA DecodableKeys ==
  ASSUME NEW key \in Decodable
  PROVE  key # KEY_L_CTRL
<1>1. CASE key \in PlainKeys
  BY <1>1 DEF PlainKeys, Plain
<1>2. CASE key \in ArrowKeys \cup {KEY_R_CTRL, KEY_R_ALT, KEY_PAUSE}
  BY <1>2, KeyNumbers DEF KEY_U_ARROW, KEY_L_ARROW, KEY_R_ARROW, KEY_D_ARROW, KEY_DELETE,
    KEY_PAUSE, KEY_R_CTRL, KEY_R_ALT, KEY_L_CTRL
<1> QED
  BY <1>1, <1>2 DEF Decodable, PlainKeys, ArrowKeys

LEMMA LocksAreKeys == Locks \cap Modifiers = {}
BY DEF Locks, Modifiers, KEY_L_CTRL, KEY_R_CTRL, KEY_L_SHFT, KEY_R_SHFT, KEY_L_ALT, KEY_R_ALT,
  KEY_CAPS, KEY_NUM

LEMMA InitIInv == Init => IInv
<1> SUFFICES ASSUME Init PROVE IInv
  OBVIOUS
<1>1. Types
  BY DEF Init, Types, States, Bits, sequence
<1>2. Held = {} /\ Here = Done(0)
  BY DEF Init, Held, Here, Done
<1>3. Here \in Configs
  BY <1>1, ConfigTypes DEF Types, Here
<1> DEFINE cs == [k \in 0 .. 0 |-> Here]
<1>4. cs \in [0 .. 0 -> Configs] /\ cs[0] = Here
  BY <1>3
<1>5. Len(<<>>) = 0 /\ bytes = <<>>
  BY DEF Init
<1> HIDE DEF cs
<1>6. Path(cs, Here, bytes, Done(0))
  BY <1>2, <1>4, <1>5 DEF Path
<1> QED
  BY <1>1, <1>6 DEF IInv, Caught, Reach

LEMMA ReadTypes ==
  ASSUME Types, Read
  PROVE  Types'
<1> DEFINE c == Head(bytes)
<1>1. /\ bytes # <<>> /\ bytes' = Tail(bytes) /\ parse_scancode(c)
      /\ expected' = (IF event' = {} \/ expected = <<>> THEN expected ELSE Tail(expected))
      /\ down' = down /\ lit' = lit
  BY DEF Read, keyboard
<1>2. c \in Byte /\ bytes' \in Seq(Byte) /\ expected' \in Seq(EventT)
  <2>1. bytes \in Seq(Byte) /\ expected \in Seq(EventT)
    BY DEF Types
  <2> QED
    BY <1>1, <2>1
<1> HIDE DEF c
<1>3. /\ parser_state' = StateAfter(parser_state, sequence_index, c)
      /\ sequence_index' = IndexAfter(parser_state, sequence_index, c)
      /\ state' = BitsAfter(parser_state, state, c)
      /\ event' = EventAfter(parser_state, sequence_index, state, c)
  BY <1>1, <1>2, ParseIsFunction
<1>4. /\ StateAfter(parser_state, sequence_index, c) \in States
      /\ IndexAfter(parser_state, sequence_index, c) \in Nat
      /\ StateAfter(parser_state, sequence_index, c) = "STATE_EXTENDED"
           => IndexAfter(parser_state, sequence_index, c) = 0
      /\ StateAfter(parser_state, sequence_index, c) \in DOMAIN sequence
           => IndexAfter(parser_state, sequence_index, c)
                < Len(sequence[StateAfter(parser_state, sequence_index, c)])
      /\ BitsAfter(parser_state, state, c) \in SUBSET Bits
      /\ EventAfter(parser_state, sequence_index, state, c) \subseteq EventT
  BY <1>2, AfterTypes DEF Types
<1> QED
  BY <1>1, <1>2, <1>3, <1>4 DEF Types

\* A byte that is read is the first of the path.
LEMMA ReadCaught ==
  ASSUME Types, Caught, Read
  PROVE  /\ Caught'
         /\ \A e \in event' : expected # <<>> /\ e = Head(expected)
<1> DEFINE c == Head(bytes)
<1>1. /\ bytes # <<>> /\ bytes' = Tail(bytes) /\ parse_scancode(c)
      /\ expected' = (IF event' = {} \/ expected = <<>> THEN expected ELSE Tail(expected))
      /\ down' = down /\ lit' = lit
  BY DEF Read, keyboard
<1>2. bytes \in Seq(Byte) /\ expected \in Seq(EventT) /\ c \in Byte
  <2>1. bytes \in Seq(Byte) /\ expected \in Seq(EventT)
    BY DEF Types
  <2> QED
    BY <1>1, <2>1
<1>3. PICK si \in Nat : Reach(Here, bytes, Done(si))
  BY DEF Caught
<1>4. PICK r \in Configs : Reads(Here, c, r) /\ Reach(r, Tail(bytes), Done(si))
  BY <1>1, <1>2, <1>3, ReachFirst
<1> HIDE DEF c
<1>5. /\ parser_state' = StateAfter(parser_state, sequence_index, c)
      /\ sequence_index' = IndexAfter(parser_state, sequence_index, c)
      /\ state' = BitsAfter(parser_state, state, c)
      /\ event' = EventAfter(parser_state, sequence_index, state, c)
  BY <1>1, <1>2, ParseIsFunction
<1>6. /\ r.ps = parser_state' /\ r.si = sequence_index' /\ r.st = state'
      /\ \/ event' = {} /\ r.rest = expected
         \/ expected # <<>> /\ event' = {Head(expected)} /\ r.rest = Tail(expected)
  BY <1>4, <1>5 DEF Reads, Here, Config
<1>7. r.rest = expected'
  BY <1>1, <1>6
<1>8. r = Here'
  BY <1>6, <1>7 DEF Here, Config, Configs
<1>9. Done(si)' = Done(si)
  BY <1>1 DEF Done, Held
<1>10. Caught'
  BY <1>1, <1>4, <1>8, <1>9 DEF Caught
<1> QED
  BY <1>6, <1>10

LEMMA PressStep ==
  ASSUME IInv, NEW key \in Keys, Keys \subseteq Decodable, Press(key)
  PROVE  IInv'
<1>1. /\ bytes' = bytes \o MakeCode(key)
      /\ down' = (IF BreakCode(key) = <<>> THEN down ELSE down \cup {key})
      /\ lit' = (IF key \notin Locks THEN lit ELSE IF key \in lit THEN lit \ {key} ELSE lit \cup {key})
      /\ parser_state' = parser_state /\ sequence_index' = sequence_index
      /\ state' = state /\ event' = event
  BY DEF Press, parser
<1>2. key \in Decodable /\ key # KEY_L_CTRL
  BY DecodableKeys
<1>3. expected' = IF IsBit(key) THEN expected ELSE Append(expected, PressEvent(key, Held))
  BY <1>2 DEF Press, IsBit, PressEvent, Held
<1>4. Held \in SUBSET Bits
  BY HeldTypes DEF IInv, Types
<1>5. Held' = Updated(Held, key, TRUE)
  <2>1. key \in Locks \cup Modifiers => BreakCode(key) # <<>>
    <3>1. SUFFICES ASSUME key \in Locks \cup Modifiers
                   PROVE  BreakCode(key) # <<>>
      OBVIOUS
    <3>2. key # KEY_PAUSE /\ key \notin ArrowKeys
      BY <3>1, KeyNumbers DEF Locks, Modifiers, KEY_L_CTRL, KEY_R_CTRL, KEY_L_SHFT, KEY_R_SHFT,
        KEY_L_ALT, KEY_R_ALT, KEY_CAPS, KEY_NUM, KEY_PAUSE, KEY_U_ARROW, KEY_L_ARROW, KEY_R_ARROW,
        KEY_D_ARROW, KEY_DELETE
    <3>3. CASE key \in PlainKeys
      BY <3>3, PlainCode
    <3>4. CASE key \in {KEY_R_CTRL, KEY_R_ALT}
      BY <3>4, PairCode
    <3> QED
      BY <1>2, <3>2, <3>3, <3>4 DEF Decodable, PlainKeys, ArrowKeys
  <2>2. CASE key \in Locks
    <3>1. key \notin Modifiers /\ (key \in Held <=> key \in lit)
      BY <2>2, LocksAreKeys DEF Held
    <3> QED
      BY <1>1, <2>1, <2>2, <3>1 DEF Held, Updated
  <2>3. CASE key \in Modifiers
    <3>1. key \notin Locks
      BY <2>3, LocksAreKeys
    <3> QED
      BY <1>1, <2>1, <2>3, <3>1 DEF Held, Updated
  <2>4. CASE key \notin Locks \cup Modifiers
    BY <1>1, <2>4 DEF Held, Updated
  <2> QED
    BY <2>2, <2>3, <2>4
<1>6. PICK si \in Nat : Reach(Here, bytes, Done(si))
  BY DEF IInv, Caught
<1>7. /\ MakeCode(key) \in Seq(Byte)
      /\ \E sj \in Nat : Reach(Start(si, Held, Events(key, Held)), MakeCode(key),
                               Start(sj, Updated(Held, key, TRUE), <<>>))
  BY <1>2, <1>4, PressReach
<1>8. PICK sj \in Nat : Reach(Start(si, Held, Events(key, Held)), MakeCode(key), Done(sj)')
  BY <1>5, <1>7 DEF Start, Done
<1>9. bytes \in Seq(Byte) /\ expected \in Seq(EventT)
  BY DEF IInv, Types
<1>10. Reach(Here', bytes, Start(si, Held, Events(key, Held))) /\ expected' \in Seq(EventT)
  <2>1. CASE IsBit(key)
    <3>1. Here' = Here /\ Done(si) = Start(si, Held, Events(key, Held))
      BY <1>1, <1>3, <2>1 DEF Here, Done, Start, Events
    <3> QED
      BY <1>3, <1>6, <1>9, <2>1, <3>1
  <2>2. CASE ~IsBit(key)
    <3> DEFINE e == PressEvent(key, Held)
    <3>1. e \in EventT
      BY <1>2, <1>4, <2>2, EventTypes
    <3>2. Reach(More(Here, e), bytes, More(Done(si), e))
      BY <1>6, <1>9, <3>1, ReachMore
    <3>3. Here' = More(Here, e)
      BY <1>1, <1>3, <2>2 DEF Here, More, Config
    <3>4. More(Done(si), e) = Start(si, Held, Events(key, Held))
      <4>1. Append(<<>>, e) = <<e>>
        OBVIOUS
      <4> QED
        BY <2>2, <4>1 DEF Done, More, Config, Start, Events
    <3> HIDE DEF e
    <3>5. Append(expected, e) \in Seq(EventT)
      BY <1>9, <3>1
    <3> QED
      BY <1>3, <2>2, <3>2, <3>3, <3>4, <3>5 DEF e
  <2> QED
    BY <2>1, <2>2
<1>11. Caught'
  <2>1. Reach(Here', bytes', Done(sj)')
    BY <1>1, <1>7, <1>8, <1>9, <1>10, ReachJoin
  <2> QED
    BY <2>1 DEF Caught
<1>12. Types'
  <2>1. bytes' \in Seq(Byte)
    BY <1>1, <1>7, <1>9
  <2>2. down' \subseteq Keys /\ lit' \subseteq Locks
    BY <1>1 DEF IInv, Types
  <2> QED
    BY <1>1, <1>10, <2>1, <2>2 DEF IInv, Types
<1> QED
  BY <1>11, <1>12 DEF IInv

LEMMA ReleaseStep ==
  ASSUME IInv, NEW key \in Keys, Keys \subseteq Decodable, Release(key)
  PROVE  IInv'
<1>1. /\ bytes' = bytes \o BreakCode(key) /\ down' = down \ {key} /\ lit' = lit
      /\ parser_state' = parser_state /\ sequence_index' = sequence_index
      /\ state' = state /\ event' = event /\ expected' = expected
  BY DEF Release, parser
<1>2. Held \in SUBSET Bits
  BY HeldTypes DEF IInv, Types
<1>3. Held' = Updated(Held, key, FALSE)
  <2>1. lit \cap Modifiers = {}
    BY LocksAreKeys DEF IInv, Types
  <2> QED
    BY <1>1, <2>1 DEF Held, Updated
<1>4. PICK si \in Nat : Reach(Here, bytes, Done(si))
  BY DEF IInv, Caught
<1>5. /\ BreakCode(key) \in Seq(Byte)
      /\ \E sj \in Nat : Reach(Start(si, Held, <<>>), BreakCode(key),
                               Start(sj, Updated(Held, key, FALSE), <<>>))
  BY <1>2, ReleaseReach
<1>6. PICK sj \in Nat : Reach(Done(si), BreakCode(key), Done(sj)')
  BY <1>3, <1>5 DEF Start, Done
<1>7. bytes \in Seq(Byte) /\ Here' = Here
  BY <1>1 DEF IInv, Types, Here
<1>8. Caught'
  <2>1. Reach(Here', bytes', Done(sj)')
    BY <1>1, <1>4, <1>5, <1>6, <1>7, ReachJoin
  <2> QED
    BY <2>1 DEF Caught
<1>9. Types'
  <2>1. bytes' \in Seq(Byte)
    BY <1>1, <1>5, <1>7
  <2> QED
    BY <1>1, <2>1 DEF IInv, Types
<1> QED
  BY <1>8, <1>9 DEF IInv

LEMMA ReadStep ==
  ASSUME IInv, Read
  PROVE  IInv'
BY ReadTypes, ReadCaught DEF IInv

LEMMA NextIInv ==
  ASSUME Keys \subseteq Decodable, IInv, [Next]_vars
  PROVE  IInv'
<1>1. CASE UNCHANGED vars
  <2>1. Types'
    BY <1>1 DEF vars, IInv, Types
  <2>2. Here' = Here /\ bytes' = bytes /\ \A si \in Nat : Done(si)' = Done(si)
    BY <1>1 DEF vars, Here, Done, Held
  <2>3. Caught'
    BY <2>2 DEF IInv, Caught
  <2> QED
    BY <2>1, <2>3 DEF IInv
<1>2. CASE Next
  BY <1>2, PressStep, ReleaseStep, ReadStep DEF Next
<1> QED
  BY <1>1, <1>2

LEMMA Invariant ==
  ASSUME Keys \subseteq Decodable
  PROVE  Spec => []IInv
<1>1. Init => IInv
  BY InitIInv
<1>2. IInv /\ [Next]_vars => IInv'
  BY NextIInv
<1> QED
  BY <1>1, <1>2, PTL DEF Spec

-----------------------------------------------------------------------------
(***************************************************************************)
(* The theorems.                                                           *)
(***************************************************************************)

\* The parser keeps its types, and sequence_index stays within the sequence
\* that handle_sequence_state() compares with, whatever bytes wait.
THEOREM TypeCorrect ==
  ASSUME Keys \subseteq Decodable
  PROVE  Spec => []TypeOK
<1>1. IInv => TypeOK
  BY DEF IInv, Types, TypeOK, States, Bits, EventT
<1> QED
  BY <1>1, Invariant, PTL

\* When kbd_poll_event() has read all bytes, each key press has been reported,
\* no scan code is half read, and the modifiers and locks are the keyboard's.
THEOREM NothingIsLost ==
  ASSUME Keys \subseteq Decodable
  PROVE  Spec => []NothingLost
<1>1. IInv => NothingLost
  <2> SUFFICES ASSUME IInv, bytes = <<>>
               PROVE  /\ expected = <<>> /\ parser_state = "STATE_INIT"
                      /\ state \ {KEY_L_CTRL} = ((down \cap Modifiers) \cup lit) \ {KEY_L_CTRL}
    BY DEF NothingLost
  <2>1. PICK si \in Nat : Reach(Here, bytes, Done(si))
    BY DEF IInv, Caught
  <2>2. Here = Done(si)
    <3>1. PICK cs : Path(cs, Here, bytes, Done(si))
      BY <2>1 DEF Reach
    <3>2. Len(bytes) = 0
      OBVIOUS
    <3> QED
      BY <3>1, <3>2 DEF Path
  <2> QED
    BY <2>2 DEF Here, Done, Config, Held
<1> QED
  BY <1>1, Invariant, PTL

\* kbd_poll_event() returns the events of the keys in the order of the presses,
\* each with the modifiers and locks of its press.
THEOREM InOrder ==
  ASSUME Keys \subseteq Decodable
  PROVE  Spec => EventsInOrder
<1>1. IInv /\ [Next]_vars =>
        [Len(bytes') < Len(bytes) => \A e \in event' : expected # <<>> /\ e = Head(expected)]_vars
  <2> SUFFICES ASSUME IInv, Next, Len(bytes') < Len(bytes)
               PROVE  \A e \in event' : expected # <<>> /\ e = Head(expected)
    OBVIOUS
  <2>1. CASE Read
    BY <2>1, ReadCaught DEF IInv
  <2>2. ASSUME NEW key \in Keys, NEW s \in Seq(Byte), bytes' = bytes \o s
        PROVE  FALSE
    <3>1. bytes \in Seq(Byte)
      BY DEF IInv, Types
    <3>2. Len(bytes') = Len(bytes) + Len(s) /\ Len(bytes) \in Nat /\ Len(s) \in Nat
      BY <2>2, <3>1
    <3> QED
      BY <3>2
  <2>3. CASE \E key \in Keys : Press(key)
    BY <2>2, <2>3, PressReach DEF Press
  <2>4. CASE \E key \in Keys : Release(key)
    BY <2>2, <2>4, ReleaseReach DEF Release
  <2> QED
    BY <2>1, <2>3, <2>4 DEF Next
<1> QED
  BY <1>1, Invariant, PTL DEF Spec, EventsInOrder

=============================================================================
