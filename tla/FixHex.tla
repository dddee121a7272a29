-------------------------------- MODULE FixHex --------------------------------
(***************************************************************************)
(* fixpoint_format_hex and fixpoint_parse_hex of csf_assign01: numbers to  *)
(* text and back.  A text is what the parser finds in a string: perhaps a  *)
(* minus sign, what sscanf("%x") takes from there, perhaps a point, what   *)
(* sscanf takes from there, and perhaps more.  Every string is of this     *)
(* form.  Letters as digits may be of either case for the parser, which is *)
(* left out.                                                               *)
(***************************************************************************)
EXTENDS Naturals, SequencesExt

CONSTANTS Radix,  \* 16
          Width,  \* 8, the digits of a half
          PrefixIsZero  \* whether sscanf takes 0x without digits for a 0 (glibc does)

HexParameters ==
  Radix \in Nat /\ Radix >= 2 /\ Width \in Nat \ {0} /\ PrefixIsZero \in BOOLEAN

ASSUME HexAssumption == HexParameters

VARIABLES textStep,  \* "format" or "parse" is next, or "done"
          number,    \* the number
          text,      \* the text
          ok,        \* what fixpoint_parse_hex returned
          origin     \* history: the number that was formatted, if any

hexVars == <<textStep, number, text, ok, origin>>

Power[n \in Nat] == IF n = 0 THEN 1 ELSE Radix * Power[n - 1]

HexHalves == 0..(Power[Width] - 1)
HexNumbers == [whole : HexHalves, frac : HexHalves, negative : BOOLEAN]
Digits == 0..(Radix - 1)

\* What sscanf takes for a number: white space, a plus sign, 0x, and digits.
Plus(side) == IF side.plus THEN 1 ELSE 0
Prefix(side) == IF side.prefix THEN 2 ELSE 0
Skipped(side) == side.blanks + Plus(side) + Prefix(side)
NumRead(side) == Skipped(side) + Len(side.digits)
Converts(side) == side.digits # <<>> \/ (side.prefix /\ PrefixIsZero)

DigitSide(ds) == [blanks |-> 0, plus |-> FALSE, prefix |-> FALSE, digits |-> ds]

\* Sides one character longer than the parser accepts stand for all that are too
\* long.  space is TRUE if the white space before the point begins with a space,
\* rest if other characters follow what was taken.
Sides ==
  {side \in [blanks : 0..(Width + 1), plus : BOOLEAN, prefix : BOOLEAN,
             digits : SeqOf(Digits, Width + 1)] : NumRead(side) <= Width + 1}
Texts ==
  {t \in [minus : BOOLEAN, space : BOOLEAN, whole : Sides, point : BOOLEAN, frac : Sides,
          rest : BOOLEAN] :
     (t.space => t.whole.blanks > 0) /\ (~t.point => t.frac = DigitSide(<<>>))}

NoText == [minus |-> FALSE, space |-> FALSE, whole |-> DigitSide(<<>>), point |-> FALSE,
           frac |-> DigitSide(<<>>), rest |-> FALSE]
HexZero == [whole |-> 0, frac |-> 0, negative |-> FALSE]

IsHexZero(x) == x.whole = 0 /\ x.frac = 0

\* All the digits of a half, and the number some digits stand for.
DigitsOf(n) == [i \in 1..Width |-> (n \div Power[Width - i]) % Radix]
NumberOf(ds) ==
  LET n[i \in 0..Len(ds)] == IF i = 0 THEN 0 ELSE n[i - 1] * Radix + ds[i]
  IN  n[Len(ds)]

------------------------------------------------------------------------------
(* fixpoint_format_hex *)

Nonzero(ds) == {i \in DOMAIN ds : ds[i] # 0}

WithoutLeadingZeros(ds) ==
  IF Nonzero(ds) = {} THEN <<0>> ELSE SubSeq(ds, Min(Nonzero(ds)), Len(ds))

WithoutTrailingZeros(ds) ==
  IF Nonzero(ds) = {} THEN <<0>> ELSE SubSeq(ds, 1, Max(Nonzero(ds)))

Formatted(x) ==
  [minus |-> x.negative /\ ~IsHexZero(x), space |-> FALSE,
   whole |-> DigitSide(WithoutLeadingZeros(DigitsOf(x.whole))), point |-> TRUE,
   frac |-> DigitSide(WithoutTrailingZeros(DigitsOf(x.frac))), rest |-> FALSE]

Format ==
  /\ textStep = "format"
  /\ text' = Formatted(number)
  /\ origin' = number
  /\ textStep' = "parse"
  /\ UNCHANGED <<number, ok>>

------------------------------------------------------------------------------
(* fixpoint_parse_hex *)

\* Whether the first character of all is a 0, of the digits or of 0x.
BeginsWithZero(t) ==
  /\ ~t.minus /\ t.whole.blanks = 0 /\ ~t.whole.plus
  /\ t.whole.prefix \/ (t.whole.digits # <<>> /\ t.whole.digits[1] = 0)

\* Nothing at all if there is a point; no space to begin with; no more characters
\* than a half has digits; and no 0 before other digits, which is looked for only
\* where the text begins.
WholeAccepted(t) ==
  /\ ~t.space
  /\ Converts(t.whole) \/ (NumRead(t.whole) = 0 /\ t.point)
  /\ NumRead(t.whole) <= Width
  /\ ~ (NumRead(t.whole) > 1 /\ BeginsWithZero(t))

\* Bug: the last digit is not looked at.
FracAnyEnd(t) ==
  /\ t.point /\ ~t.rest
  /\ Converts(t.frac) \/ NumRead(t.frac) = 0
  /\ NumRead(t.frac) <= Width

FracAccepted(t) ==
  /\ t.point /\ ~t.rest
  /\ Converts(t.frac) \/ NumRead(t.frac) = 0
  /\ NumRead(t.frac) <= Width
  /\ ~ (NumRead(t.frac) > 1 /\ t.frac.digits # <<>> /\ Last(t.frac.digits) = 0)

\* Bug: the digits after the point are not shifted to the left end.
FracUnshifted(side) == NumberOf(side.digits)
\* They are shifted by what is missing of the characters, whatever these are.
FracOf(side) == NumberOf(side.digits) * Power[Width - NumRead(side)]

Parsed(t) ==
  [whole |-> NumberOf(t.whole.digits), frac |-> FracOf(t.frac), negative |-> t.minus]

\* The minus sign of a zero is refused.
TextAccepted(t) == WholeAccepted(t) /\ FracAccepted(t) /\ ~ (t.minus /\ IsHexZero(Parsed(t)))

Parse ==
  /\ textStep = "parse"
  /\ ok' = TextAccepted(text)
  /\ number' = IF TextAccepted(text) THEN Parsed(text) ELSE HexZero  \* no guarantees
  /\ textStep' = "done"
  /\ UNCHANGED <<text, origin>>

------------------------------------------------------------------------------
\* A caller formats a number it has, or parses a text it was given.
HexInit ==
  /\ ok = FALSE
  /\ origin = HexZero
  /\ \/ textStep = "format" /\ number \in HexNumbers /\ text = NoText
     \/ textStep = "parse" /\ number = HexZero /\ text \in Texts

\* What was parsed is formatted again.
FormatAgain ==
  /\ textStep = "done" /\ ok
  /\ textStep' = "format"
  /\ UNCHANGED <<number, text, ok, origin>>

HexNext == Format \/ Parse \/ FormatAgain

HexSpec == HexInit /\ [][HexNext]_hexVars

------------------------------------------------------------------------------
\* A formatted number is parsed to the same number: no digit of either half is
\* lost by the trimming or put back in another place.  Only the sign of a
\* negative zero is gone.
FormatParses ==
  [][Parse /\ text = Formatted(origin) =>
       ok' /\ number'.whole = origin.whole /\ number'.frac = origin.frac
           /\ number'.negative = (origin.negative /\ ~IsHexZero(origin))]_hexVars

\* A text without what sscanf skips: before the point it is dropped, after the
\* point each of its characters counts as a digit 0.
Plain(t) ==
  [minus |-> t.minus, space |-> t.space, whole |-> DigitSide(t.whole.digits),
   point |-> t.point,
   frac |-> DigitSide([i \in 1..Skipped(t.frac) |-> 0] \o t.frac.digits), rest |-> t.rest]

\* The parser should accept what the formatter writes and return false for
\* everything else (fixpoint.h, fixpoint_parse_hex).  It accepts more: white
\* space, a plus sign or 0x as in "-0x1.0", which after the point even shift the
\* digits, as in "1.+5", a side without digits, and zeros before other digits
\* behind a minus sign or what else was skipped.  The property bounds the damage:
\* but for these forms an accepted text is the formatted text of the number
\* that is returned, so no other two texts are read as one number.
ParsesNearlyFormatted ==
  textStep = "done" /\ ok /\ Plain(text) # Formatted(number) =>
    \/ text.whole.digits = <<>> \/ text.frac.digits = <<>>
    \/ /\ text.minus \/ Skipped(text.whole) > 0
       /\ Len(text.whole.digits) > 1 /\ text.whole.digits[1] = 0
===============================================================================
