------------------------------- MODULE FixPoint -------------------------------
(***************************************************************************)
(* The fixed-point arithmetic of csf_assign01 (fixpoint.c): numbers with a *)
(* sign and two halves of 32 bits, and the operations on them.  A caller   *)
(* keeps numbers in variables of its own and passes pointers to them, so   *)
(* an operation works on the caller's memory: m is that memory, r, a and b *)
(* are pointers into it.                                                   *)
(***************************************************************************)
EXTENDS Integers

CONSTANTS Base,      \* 2^32, and at least 2: the halves of a number are below it
          Pointers   \* the caller's variables

\* fixpoint_sub has a variable of its own, which is none of the caller's.
Local == "flippedRight"

ASSUME FixPointAssumption == Base \in Nat /\ Base >= 2 /\ Local \notin Pointers

VARIABLES val,  \* the caller's memory
          call  \* the call that has just ended: operation, operands, result and what it
                \* returned, and whether the result was written over an operand

fixVars == <<val, call>>

Halves == 0..(Base - 1)
Numbers == [whole : Halves, frac : Halves, negative : BOOLEAN]
IsZero(x) == x.whole = 0 /\ x.frac = 0

RESULT_OK == 0
RESULT_OVERFLOW == 1
RESULT_UNDERFLOW == 2

\* What is left of n in an unsigned half.
Half(n) == n % Base

fixpoint_init(whole, frac, negative) ==
  [whole |-> whole, frac |-> frac,
   negative |-> negative /\ ~ (whole = 0 /\ frac = 0)]

fixpoint_negate(x) == IF IsZero(x) THEN x ELSE [x EXCEPT !.negative = ~@]

------------------------------------------------------------------------------
(* Comparison *)

Order(x, y) == IF x < y THEN -1 ELSE IF x > y THEN 1 ELSE 0

\* By the whole part first.
MagnitudeOrder(x, y) ==
  IF x.whole # y.whole THEN Order(x.whole, y.whole) ELSE Order(x.frac, y.frac)

\* A definition marked "Bug" is no part of the model: it takes the place of the
\* one that follows it to see that the properties notice.
\* Bug: the order of magnitudes, whatever the sign.
CompareUnsigned(x, y) ==
  IF x.negative # y.negative THEN (IF x.negative THEN -1 ELSE 1) ELSE MagnitudeOrder(x, y)

fixpoint_compare(x, y) ==
  IF IsZero(x) /\ IsZero(y) THEN 0
  ELSE IF x.negative # y.negative THEN (IF x.negative THEN -1 ELSE 1)
  ELSE (IF x.negative THEN -1 ELSE 1) * MagnitudeOrder(x, y)

compareAbsoluteVal(x, y) ==
  fixpoint_compare([x EXCEPT !.negative = FALSE], [y EXCEPT !.negative = FALSE])

------------------------------------------------------------------------------
(* Addition: what a call does to memory, and what it returns *)

Write(m, r, whole, frac) == [m EXCEPT ![r].whole = whole, ![r].frac = frac]
SetSign(m, r, negative) == [m EXCEPT ![r].negative = negative]

\* Bug: fractions that add up to 1 or more lose the 1.
NoCarry(x, y) == 0
Carry(x, y) == IF x.frac + y.frac >= Base THEN 1 ELSE 0

addSameSign(m, r, a, b) ==
  LET wholeSide == m[a].whole + m[b].whole + Carry(m[a], m[b])
  IN  [mem |-> Write(m, r, Half(wholeSide), Half(m[a].frac + m[b].frac)),
       status |-> IF wholeSide >= Base THEN RESULT_OVERFLOW ELSE RESULT_OK]

addDiffSign(m, r, a, b) ==
  LET borrow == IF m[a].frac < m[b].frac THEN 1 ELSE 0
      whole == Half(m[a].whole - borrow - m[b].whole)
      frac == Half(m[a].frac - m[b].frac)
  IN  Write(IF whole = 0 /\ frac = 0 THEN SetSign(m, r, FALSE) ELSE m, r, whole, frac)

\* The sum is computed twice, the second time from what the first time left.
AddAlike(m, r, a, b) ==
  LET once == addSameSign(SetSign(m, r, m[a].negative), r, a, b)
      signed == IF once.status = RESULT_OK /\ IsZero(once.mem[r])
                THEN SetSign(once.mem, r, FALSE) ELSE once.mem
  IN  addSameSign(signed, r, a, b)

\* The smaller magnitude is taken from the bigger one.
AddUnlike(m, r, a, b) ==
  LET order == compareAbsoluteVal(m[a], m[b])
      bigger == IF order > 0 THEN a ELSE b
      smaller == IF order > 0 THEN b ELSE a
      sum == addDiffSign(SetSign(m, r, m[bigger].negative), r, bigger, smaller)
  IN  [mem |-> IF order = 0 THEN SetSign(Write(m, r, 0, 0), r, FALSE)
               ELSE IF IsZero(sum[r]) THEN SetSign(sum, r, FALSE) ELSE sum,
       status |-> RESULT_OK]

fixpoint_add(m, r, a, b) ==
  IF m[a].negative = m[b].negative THEN AddAlike(m, r, a, b) ELSE AddUnlike(m, r, a, b)

\* b is copied to a local variable and negated there.
fixpoint_sub(m, r, a, b) ==
  LET sum == fixpoint_add([p \in Pointers \cup {Local} |->
                             IF p = Local THEN fixpoint_negate(m[b]) ELSE m[p]], r, a, Local)
  IN  [mem |-> [p \in Pointers |-> sum.mem[p]], status |-> sum.status]

------------------------------------------------------------------------------
(* Multiplication, by halves *)

\* Bug: the carry out of the lower half is lost.
MiddleNoCarry(lowHigh, highLow, high, middleLow) ==
  (lowHigh \div Base) + (highLow \div Base) + high
MiddleHigh(lowHigh, highLow, high, middleLow) ==
  (lowHigh \div Base) + (highLow \div Base) + high + (middleLow \div Base)

fixpoint_mul(m, r, a, b) ==
  LET low == m[a].frac * m[b].frac
      lowHigh == m[a].frac * m[b].whole
      highLow == m[a].whole * m[b].frac
      high == m[a].whole * m[b].whole
      middleLow == (low \div Base) + Half(lowHigh) + Half(highLow)
      middleHigh == MiddleHigh(lowHigh, highLow, high, middleLow)
      over == IF middleHigh >= Base THEN RESULT_OVERFLOW ELSE 0
      under == IF Half(low) # 0 THEN RESULT_UNDERFLOW ELSE 0
      product == Write(m, r, Half(middleHigh), Half(middleLow))
      zero == over + under = RESULT_OK /\ IsZero(product[r])
  IN  [mem |-> SetSign(product, r, m[a].negative # m[b].negative /\ ~zero),
       status |-> over + under]

------------------------------------------------------------------------------
(* Calls *)

Zero == [whole |-> 0, frac |-> 0, negative |-> FALSE]

NoCall == [op |-> "none", left |-> Zero, right |-> Zero, result |-> Zero, status |-> 0,
           inPlace |-> FALSE]

\* The caller has initialized its variables.
FixInit ==
  /\ val \in [Pointers -> {fixpoint_init(w, f, n) : w \in Halves, f \in Halves, n \in BOOLEAN}]
  /\ call = NoCall

\* reads are the operands that are not copied before they are used.
Returns(op, r, a, b, outcome, reads) ==
  /\ call = NoCall
  /\ val' = outcome.mem
  /\ call' = [op |-> op, left |-> val[a], right |-> val[b], result |-> outcome.mem[r],
              status |-> outcome.status, inPlace |-> r \in reads]

Add(r, a, b) == Returns("add", r, a, b, fixpoint_add(val, r, a, b), {a, b})
Sub(r, a, b) == Returns("sub", r, a, b, fixpoint_sub(val, r, a, b), {a})
Mul(r, a, b) == Returns("mul", r, a, b, fixpoint_mul(val, r, a, b), {a, b})

Negate(r) ==
  Returns("negate", r, r, r,
          [mem |-> [val EXCEPT ![r] = fixpoint_negate(@)], status |-> RESULT_OK], {})

Compare(a, b) ==
  Returns("compare", a, a, b, [mem |-> val, status |-> fixpoint_compare(val[a], val[b])], {})

CompareAbsolute(a, b) ==
  Returns("compareAbsoluteVal", a, a, b,
          [mem |-> val, status |-> compareAbsoluteVal(val[a], val[b])], {})

\* The caller goes on with what the call left in its variables.
GoesOn == call # NoCall /\ call' = NoCall /\ UNCHANGED val

FixNext == \/ \E r, a, b \in Pointers : Add(r, a, b) \/ Sub(r, a, b) \/ Mul(r, a, b)
        \/ \E r \in Pointers : Negate(r)
        \/ \E a, b \in Pointers : Compare(a, b) \/ CompareAbsolute(a, b)
        \/ GoesOn

FixSpec == FixInit /\ [][FixNext]_fixVars

------------------------------------------------------------------------------
Magnitude(x) == x.whole * Base + x.frac
Value(x) == IF x.negative THEN -Magnitude(x) ELSE Magnitude(x)
Abs(n) == IF n < 0 THEN -n ELSE n

\* "If the exact sum can be represented in a fixpoint_t value, *result is set to
\* the sum and RESULT_OK is returned"; if not, what fits of the magnitude is
\* stored, with the sign of the sum, and RESULT_OVERFLOW is returned.  No zero
\* is negative but one that overflowed.  Operands may come out of any calls.
IsSum(exact) ==
  /\ call.status = (IF Abs(exact) < Base * Base THEN RESULT_OK ELSE RESULT_OVERFLOW)
  /\ Magnitude(call.result) = Abs(exact) % (Base * Base)
  /\ call.result.negative <=> exact < 0

\* The one sum that is wrong is that of two numbers of one sign written over one
\* of them; the others may be, also the differences of fixpoint_sub.
Addend == IF call.op = "sub" THEN fixpoint_negate(call.right) ELSE call.right

SumExact ==
  call.op \in {"add", "sub"} /\ ~ (call.inPlace /\ call.left.negative = Addend.negative)
    => IsSum(Value(call.left) + Value(Addend))

\* The product is the middle 64 bits of the exact product of the magnitudes; the
\* bits that are lost at either end are reported, and never others; the product
\* may be written over its operands.
ProductExact ==
  call.op = "mul" =>
    LET exact == Magnitude(call.left) * Magnitude(call.right) IN
    /\ Magnitude(call.result) = (exact \div Base) % (Base * Base)
    /\ call.status = (IF exact >= Base * Base * Base THEN RESULT_OVERFLOW ELSE 0)
                     + (IF exact % Base # 0 THEN RESULT_UNDERFLOW ELSE 0)
    /\ call.result.negative <=> Value(call.left) * Value(call.right) < 0

\* Comparison is that of the numbers: the two zeros are equal, and results that
\* lost their high bits compare as what was stored.
CompareExact ==
  call.op = "compare" => call.status = Order(Value(call.left), Value(call.right))

------------------------------------------------------------------------------
(* What comments say, and the code does not do *)

\* fixpoint.h, fixpoint_negate: "If the value is equal to 0 (both whole and
\* fractional parts are 0), then the value remains non-negative."
NegatedZeroIsPositive ==
  call.op = "negate" /\ IsZero(call.result) => ~call.result.negative
===============================================================================
