-------------------------------- MODULE Printf --------------------------------
(***************************************************************************)
(* What printf() of grab/printf.c prints: numbers by _int(), strings, and  *)
(* fields that are filled up with spaces behind the value.  A text is a    *)
(* sequence of characters.                                                 *)
(***************************************************************************)
EXTENDS Integers, Sequences

digits == <<"0", "1", "2", "3", "4", "5", "6", "7", "8", "9", "a", "b", "c", "d", "e", "f">>

isdigit(c)  == \E k \in 1 .. 10 : digits[k] = c
ValueOf(c)  == (CHOOSE k \in 1 .. 16 : digits[k] = c) - 1

\* The number that the characters of s are the digits of.
Value(s, base) ==
  LET x[k \in 0 .. Len(s)] == IF k = 0 THEN 0 ELSE base * x[k - 1] + ValueOf(s[k])
  IN  x[Len(s)]

\* str2uint() of grab/util.c, of numbers that fit.
str2uint(s) == Value(s, 10)

Blank     == " "
Spaces(n) == [k \in 1 .. n |-> Blank]

\* What is left of a number after each division; xx[] has 11 places.
Quotients(abs, base) ==
  LET left[k \in 0 .. 11] == IF k = 0 THEN abs ELSE left[k - 1] \div base
  IN  left

\* A number is divided until nothing is left; its digits come last first.
Figures(abs, base) ==
  LET left == Quotients(abs, base)
      n    == CHOOSE k \in 0 .. 11 : left[k] = 0 /\ (k > 0 => left[k - 1] # 0)
  IN  [k \in 1 .. n |-> digits[(left[n - k] % base) + 1]]

\* The text of a value, and the length that _char(), _string() and _int()
\* return: a sign is not counted.
Printed(text, n) == [text |-> text, n |-> n]

\* Unsigned conversions are of numbers that are not negative.
_int(x, base) ==
  LET xx == Figures(IF x < 0 THEN -x ELSE x, base)
  IN  IF x = 0 THEN Printed(<<"0">>, 1)
      ELSE Printed(IF x < 0 THEN <<"-">> \o xx ELSE xx, Len(xx))

Converted(type, arg) ==
  CASE type = "s" -> Printed(arg, Len(arg))
    [] type = "d" -> _int(arg, 10)
    [] type = "x" -> _int(arg, 16)

\* Mutant: what is left of the field is not told from the field.
Padding_all(widbuf, n) == IF widbuf = <<>> THEN 0 ELSE str2uint(widbuf)
Padding(widbuf, n)     == IF widbuf = <<>> \/ str2uint(widbuf) <= n THEN 0 ELSE str2uint(widbuf) - n

\* One character of the format.
Step(p, c, args) ==
  IF p.state = "REGULAR"
  THEN IF c = "%" THEN [p EXCEPT !.state = "SPECIFIER", !.widbuf = <<>>]
       ELSE [p EXCEPT !.out = Append(@, c)]
  ELSE IF isdigit(c) /\ Len(p.widbuf) < 10
  THEN [p EXCEPT !.widbuf = Append(@, c)]
  ELSE LET v == Converted(c, args[p.ap])
       IN  [p EXCEPT !.state = "REGULAR", !.ap = @ + 1,
                     !.out = @ \o v.text \o Spaces(Padding(p.widbuf, v.n))]

\* What there is before a format, and after k of its characters.
Begin == [state |-> "REGULAR", widbuf |-> <<>>, ap |-> 1, out |-> <<>>]

printf(format, args) ==
  LET p[k \in 0 .. Len(format)] == IF k = 0 THEN Begin ELSE Step(p[k - 1], format[k], args)
  IN  p[Len(format)].out
=============================================================================
