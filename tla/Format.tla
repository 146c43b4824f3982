------------------------------- MODULE Format -------------------------------
(***************************************************************************)
(* Arithmetic on unsigned words and the figures of the display             *)
(* (cmd/sysmon/main.go, RenderASCII of internal/ebpf/loader.go).  A        *)
(* percentage is the pair of the part and the whole it is computed from;   *)
(* of a text only its lengths and indexes are kept, those that make Go     *)
(* panic when they are out of range.                                       *)
(***************************************************************************)
EXTENDS Integers, Sequences

CONSTANTS
  Word,  \* 2^64
  Unit   \* the const unit of humanBytes (1024)

\* As 1024^6 = 2^60 < 2^64 <= 1024^7 = 2^70.
ASSUME FormatAssumption ==
  LET cube == Unit * Unit * Unit
  IN  /\ Word \in Nat \ {0}
      /\ Unit \in Nat \ {0, 1}
      /\ cube * cube < Word
      /\ Word <= cube * cube * Unit

Words == 0 .. Word - 1

Percent(part, whole) == [part |-> part, whole |-> whole]

\* Unsigned subtraction, addition and multiplication.
Minus(a, b) == IF a >= b THEN a - b ELSE Word + a - b
Plus(a, b)  == (a + b) % Word
Times(a, b) == (a * b) % Word

-----------------------------------------------------------------------------
(* bar *)

width    == 20
barWidth == 30

\* What int(x) is for a NaN on amd64, or any other length that makes
\* strings.Repeat panic.
Negative == -1

\* Mutant: a negative percentage is left alone.
barNegative(pct) ==
  IF pct.whole = 0 THEN Negative
  ELSE IF pct.part > pct.whole THEN width
  ELSE (pct.part * width) \div pct.whole

\* The filled part of a bar.  0/0 passes both comparisons.
bar(pct) ==
  IF pct.whole = 0 THEN Negative
  ELSE IF pct.part < 0 THEN 0
  ELSE IF pct.part > pct.whole THEN width
  ELSE (pct.part * width) \div pct.whole

-----------------------------------------------------------------------------
(* humanBytes *)

NoLetter == -1

\* What the loop that starts with n makes of div = Unit and exp = 0.
Scale[n \in Nat] ==
  IF n < Unit THEN [div |-> Unit, exp |-> 0]
  ELSE LET s == Scale[n \div Unit]
       IN  [div |-> Times(s.div, Unit), exp |-> s.exp + 1]

\* Mutant: a power of the unit is printed in the unit below.
humanBytesLess(b) ==
  IF b < Unit THEN [div |-> 1, exp |-> NoLetter]
  ELSE Scale[(b - 1) \div Unit]

\* A size is printed as b / div with the letter "KMGTPE"[exp]; below the unit it
\* has no letter.
humanBytes(b) ==
  IF b < Unit THEN [div |-> 1, exp |-> NoLetter] ELSE Scale[b \div Unit]

\* Kilobytes as bytes.
humanKB(kb) == Times(kb, Unit)
=============================================================================
