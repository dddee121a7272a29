----------------------------- MODULE FixPointProofs -----------------------------
(***************************************************************************)
(* Proofs about the fixed-point arithmetic: sums, products and comparisons *)
(* are exact for halves of any width, any number of variables and any      *)
(* number of calls.  Of the state they need no more than that numbers stay *)
(* numbers; the rest is arithmetic of numbers that are written with two    *)
(* digits of base Base.                                                    *)
(*                                                                         *)
(* The second part is about numbers as texts, in any radix and with halves *)
(* of any number of digits.  What some digits stand for is reached digit   *)
(* by digit (Horner), and what holds of all numbers of digits is shown by  *)
(* induction, as the absence of a least exception (LeastElement).          *)
(***************************************************************************)
EXTENDS FixPoint, FixHex, SequenceTheorems, WellFoundedInduction, TLAPS

LEMMA Products ==
  ASSUME NEW m \in Nat, NEW n \in Nat
  PROVE  m * n \in Nat
OBVIOUS

LEMMA Monotonic ==
  ASSUME NEW m \in Int, NEW n \in Int, m <= n, NEW k \in Nat
  PROVE  m * k <= n * k
OBVIOUS

LEMMA Distributes ==
  ASSUME NEW m \in Int, NEW n \in Int, NEW k \in Int
  PROVE  (m + n) * k = m * k + n * k
OBVIOUS

\* Quotient and rest.
LEMMA DivMod ==
  ASSUME NEW n \in Int, NEW b \in Nat, b >= 1
  PROVE  /\ n \div b \in Int /\ n % b \in 0..(b - 1)
         /\ n = (n \div b) * b + (n % b)
         /\ n >= 0 => n \div b \in Nat
<1>1. n \div b \in Int
  OBVIOUS
<1>2. n % b \in 0..(b - 1)
  OBVIOUS
<1>3. n = (n \div b) * b + (n % b)
  OBVIOUS
<1>4. n >= 0 => n \div b \in Nat
  <2>1. ASSUME n >= 0, n \div b <= -1
        PROVE  FALSE
    BY <1>1, <1>2, <1>3, <2>1, Monotonic
  <2> QED
    BY <1>1, <2>1
<1> QED
  BY <1>1, <1>2, <1>3, <1>4

\* Whatever has the form of quotient and rest is that.
LEMMA DivModUnique ==
  ASSUME NEW b \in Nat, b >= 1, NEW q \in Int, NEW r \in 0..(b - 1)
  PROVE  (q * b + r) \div b = q /\ (q * b + r) % b = r
OBVIOUS

\* Numbers in digits of base b are ordered by the higher digit first.
LEMMA DigitOrder ==
  ASSUME NEW b \in Nat, b >= 1, NEW m \in Int, NEW n \in Int, m < n,
         NEW r \in 0..(b - 1), NEW s \in 0..(b - 1)
  PROVE  m * b + r < n * b + s
<1>1. (m + 1) * b <= n * b
  BY Monotonic
<1>2. (m + 1) * b = m * b + b
  BY Distributes
<1>3. m * b \in Int /\ n * b \in Int
  OBVIOUS
<1> QED
  BY <1>1, <1>2, <1>3

------------------------------------------------------------------------------
(* Comparison *)

\* A magnitude is a number of two digits, and zero is that of no other number.
LEMMA Magnitudes ==
  ASSUME NEW x \in Numbers
  PROVE  /\ Magnitude(x) \in Nat /\ Magnitude(x) < Base * Base
         /\ Magnitude(x) = 0 <=> IsZero(x)
<1>1. /\ x.whole \in 0..(Base - 1) /\ x.frac \in 0..(Base - 1) /\ Base \in Nat /\ Base >= 2
  BY FixPointAssumption DEF Numbers, Halves
<1>2. x.whole * Base \in Nat
  BY <1>1, Products
<1>3. x.whole * Base + x.frac < Base * Base + 0
  BY <1>1, DigitOrder
<1>4. x.whole > 0 => x.whole * Base >= 1 * Base
  BY <1>1, Monotonic
<1>5. Base * Base \in Nat
  BY <1>1
<1>6. x.whole = 0 => x.whole * Base = 0
  BY <1>1
<1>7. /\ Magnitude(x) \in Nat /\ Magnitude(x) < Base * Base
  BY <1>1, <1>2, <1>3, <1>5 DEF Magnitude
<1>8. Magnitude(x) = 0 <=> x.whole = 0 /\ x.frac = 0
  BY <1>1, <1>2, <1>4, <1>6 DEF Magnitude
<1> QED
  BY <1>7, <1>8 DEF IsZero

\* MagnitudeOrder is the order of the magnitudes.
LEMMA MagnitudesOrdered ==
  ASSUME NEW x \in Numbers, NEW y \in Numbers
  PROVE  MagnitudeOrder(x, y) = Order(Magnitude(x), Magnitude(y))
<1>1. /\ x.whole \in 0..(Base - 1) /\ x.frac \in 0..(Base - 1) /\ Base \in Nat /\ Base >= 2
      /\ y.whole \in 0..(Base - 1) /\ y.frac \in 0..(Base - 1) /\ Base >= 1
  BY FixPointAssumption DEF Numbers, Halves
<1>2. /\ Magnitude(x) \in Nat /\ Magnitude(y) \in Nat
      /\ x.whole \in Int /\ y.whole \in Int
  BY <1>1, Magnitudes
<1>3. CASE x.whole < y.whole
  <2>1. x.whole * Base + x.frac < y.whole * Base + y.frac
    BY <1>1, <1>2, <1>3, DigitOrder, Zenon
  <2>2. Magnitude(x) < Magnitude(y)
    BY <2>1 DEF Magnitude
  <2> QED
    BY <1>1, <1>2, <1>3, <2>2 DEF MagnitudeOrder, Order
<1>4. CASE y.whole < x.whole
  <2>1. y.whole * Base + y.frac < x.whole * Base + x.frac
    BY <1>1, <1>2, <1>4, DigitOrder, Zenon
  <2>2. Magnitude(y) < Magnitude(x)
    BY <2>1 DEF Magnitude
  <2> QED
    BY <1>1, <1>2, <1>4, <2>2 DEF MagnitudeOrder, Order
<1>5. CASE x.whole = y.whole
  <2>1. x.whole * Base \in Nat /\ x.whole * Base = y.whole * Base
    BY <1>1, <1>5, Products
  <2> QED
    BY <1>1, <1>5, <2>1 DEF MagnitudeOrder, Order, Magnitude
<1> QED
  BY <1>1, <1>3, <1>4, <1>5

\* fixpoint_compare is the order of the numbers.
LEMMA ComparesValues ==
  ASSUME NEW x \in Numbers, NEW y \in Numbers
  PROVE  fixpoint_compare(x, y) = Order(Value(x), Value(y))
<1>1. /\ Magnitude(x) \in Nat /\ Magnitude(y) \in Nat
      /\ Magnitude(x) = 0 <=> IsZero(x)
      /\ Magnitude(y) = 0 <=> IsZero(y)
      /\ x.negative \in BOOLEAN /\ y.negative \in BOOLEAN
  BY Magnitudes DEF Numbers
<1>2. CASE IsZero(x) /\ IsZero(y)
  BY <1>1, <1>2 DEF fixpoint_compare, Value, Order
<1>3. CASE ~(IsZero(x) /\ IsZero(y)) /\ x.negative # y.negative
  BY <1>1, <1>3 DEF fixpoint_compare, Value, Order
<1>4. CASE ~(IsZero(x) /\ IsZero(y)) /\ x.negative = y.negative
  <2>1. MagnitudeOrder(x, y) = Order(Magnitude(x), Magnitude(y))
    BY MagnitudesOrdered
  <2>2. CASE x.negative
    <3>1. fixpoint_compare(x, y) = (-1) * Order(Magnitude(x), Magnitude(y))
      <4>1. (IF x.negative THEN -1 ELSE 1) = -1
        BY <2>2
      <4>2. fixpoint_compare(x, y) = (IF x.negative THEN -1 ELSE 1) * MagnitudeOrder(x, y)
        <5>1. ~(x.negative # y.negative) /\ ~(IsZero(x) /\ IsZero(y))
          BY <1>4
        <5> QED
          BY <5>1, Zenon DEF fixpoint_compare
      <4> QED
        BY <2>1, <4>1, <4>2, Zenon
    <3>2. Value(x) = -Magnitude(x) /\ Value(y) = -Magnitude(y)
      BY <1>4, <2>2 DEF Value
    <3> QED
      BY <1>1, <3>1, <3>2 DEF Order
  <2>3. CASE ~x.negative
    <3>1. fixpoint_compare(x, y) = 1 * Order(Magnitude(x), Magnitude(y))
      <4>1. (IF x.negative THEN -1 ELSE 1) = 1
        BY <2>3
      <4>2. fixpoint_compare(x, y) = (IF x.negative THEN -1 ELSE 1) * MagnitudeOrder(x, y)
        <5>1. ~(x.negative # y.negative) /\ ~(IsZero(x) /\ IsZero(y))
          BY <1>4
        <5> QED
          BY <5>1, Zenon DEF fixpoint_compare
      <4> QED
        BY <2>1, <4>1, <4>2, Zenon
    <3>2. Value(x) = Magnitude(x) /\ Value(y) = Magnitude(y)
      BY <1>4, <2>3 DEF Value
    <3> QED
      BY <1>1, <3>1, <3>2 DEF Order
  <2> QED
    BY <2>2, <2>3
<1> QED
  BY <1>2, <1>3, <1>4

\* compareAbsoluteVal is the order of the magnitudes.
LEMMA ComparesMagnitudes ==
  ASSUME NEW x \in Numbers, NEW y \in Numbers
  PROVE  compareAbsoluteVal(x, y) = Order(Magnitude(x), Magnitude(y))
<1> DEFINE u == [x EXCEPT !.negative = FALSE]
           v == [y EXCEPT !.negative = FALSE]
<1>1. /\ u \in Numbers /\ u.whole = x.whole /\ u.frac = x.frac /\ ~u.negative
      /\ v \in Numbers /\ v.whole = y.whole /\ v.frac = y.frac /\ ~v.negative
  BY DEF Numbers
<1>2. fixpoint_compare(u, v) = Order(Value(u), Value(v))
  BY <1>1, ComparesValues
<1>3. Value(u) = Magnitude(x) /\ Value(v) = Magnitude(y)
  BY <1>1 DEF Value, Magnitude
<1> QED
  BY <1>2, <1>3 DEF compareAbsoluteVal

------------------------------------------------------------------------------
(* Addition *)

\* The halves of a sum, and what is carried out of them.
LEMMA SumOfHalves ==
  ASSUME NEW x \in Numbers, NEW y \in Numbers
  PROVE  LET sum == Magnitude(x) + Magnitude(y)
             whole == x.whole + y.whole + Carry(x, y)
             frac == x.frac + y.frac
         IN  /\ Half(whole) \in Halves /\ Half(frac) \in Halves
             /\ whole >= Base <=> sum >= Base * Base
             /\ Half(whole) * Base + Half(frac) = sum % (Base * Base)
<1> DEFINE sum == Magnitude(x) + Magnitude(y)
           whole == x.whole + y.whole + Carry(x, y)
           frac == x.frac + y.frac
<1>1. /\ x.whole \in 0..(Base - 1) /\ x.frac \in 0..(Base - 1) /\ Base \in Nat /\ Base >= 2
      /\ y.whole \in 0..(Base - 1) /\ y.frac \in 0..(Base - 1) /\ Base >= 1
  BY FixPointAssumption DEF Numbers, Halves
<1>2. Carry(x, y) \in {0, 1} /\ whole \in Nat /\ frac \in Nat
  BY <1>1 DEF Carry
<1>3. Half(frac) \in 0..(Base - 1) /\ Half(frac) = frac - Carry(x, y) * Base
  <2> DEFINE rest == frac - Carry(x, y) * Base
  <2>1. rest \in 0..(Base - 1) /\ Carry(x, y) * Base + rest = frac
    BY <1>1 DEF Carry
  <2> HIDE DEF rest
  <2>2. (Carry(x, y) * Base + rest) % Base = rest
    <3>1. Carry(x, y) \in Int
      BY <1>2
    <3> QED
      BY <1>1, <2>1, <3>1, DivModUnique, Zenon
  <2> QED
    BY <2>1, <2>2 DEF Half, rest
<1>4. sum = whole * Base + Half(frac)
  BY <1>1, <1>2, <1>3 DEF Magnitude
<1> HIDE DEF whole, frac
<1>5. /\ whole \div Base \in Nat /\ Half(whole) \in 0..(Base - 1)
      /\ whole = (whole \div Base) * Base + Half(whole)
  <2>1. whole \in Int /\ whole >= 0
    BY <1>2
  <2> QED
    BY <1>1, <2>1, DivMod, Zenon DEF Half
<1>6. whole >= Base <=> sum >= Base * Base
  <2>1. whole >= Base => whole * Base >= Base * Base
    BY <1>1, <1>2, Monotonic
  <2>2. whole < Base => whole * Base + Half(frac) < Base * Base + 0
    BY <1>1, <1>2, <1>3, DigitOrder
  <2> QED
    BY <1>1, <1>2, <1>3, <1>4, <2>1, <2>2
<1>7. Half(whole) * Base + Half(frac) = sum % (Base * Base)
  <2>1. Base * Base \in Nat /\ Base * Base >= 1
    BY <1>1
  <2>2. Half(whole) * Base + Half(frac) \in 0..(Base * Base - 1)
    <3>1. Half(whole) * Base + Half(frac) < Base * Base + 0
      <4>1. Half(whole) \in Int /\ Base \in Int /\ Half(whole) < Base /\ 0 \in 0..(Base - 1)
        BY <1>1, <1>5
      <4> QED
        BY <1>1, <1>3, <4>1, DigitOrder, Zenon
    <3> QED
      BY <1>1, <1>3, <1>5, <3>1
  <2>3. sum = (whole \div Base) * (Base * Base) + (Half(whole) * Base + Half(frac))
    <3> DEFINE q == whole \div Base
               h == Half(whole)
    <3>1. q \in Nat /\ h \in Nat /\ whole = q * Base + h
      BY <1>5
    <3> HIDE DEF q, h
    <3>2. whole * Base = q * (Base * Base) + h * Base
      BY <1>1, <3>1
    <3> QED
      BY <1>1, <1>2, <1>3, <1>4, <3>1, <3>2 DEF q, h
  <2> QED
    BY <1>5, <2>1, <2>2, <2>3, DivModUnique
<1> QED
  BY <1>3, <1>5, <1>6, <1>7 DEF whole, frac, Halves

\* What the assignments of a call do to the caller's memory.
LEMMA WriteIs ==
  ASSUME NEW P, NEW m \in [P -> Numbers], NEW r \in P, NEW w \in Halves, NEW f \in Halves
  PROVE  /\ Write(m, r, w, f) \in [P -> Numbers]
         /\ Write(m, r, w, f)[r].whole = w /\ Write(m, r, w, f)[r].frac = f
         /\ Write(m, r, w, f)[r].negative <=> m[r].negative
         /\ \A p \in P : p # r => Write(m, r, w, f)[p] = m[p]
<1> DEFINE v == [m EXCEPT ![r].whole = w]
<1>1. /\ v \in [P -> Numbers]
      /\ v[r].whole = w /\ (v[r].negative <=> m[r].negative)
      /\ \A p \in P : p # r => v[p] = m[p]
  BY DEF Numbers
<1>2. Write(m, r, w, f) = [v EXCEPT ![r].frac = f]
  BY DEF Write
<1> HIDE DEF v
<1>3. /\ [v EXCEPT ![r].frac = f] \in [P -> Numbers]
      /\ [v EXCEPT ![r].frac = f][r].whole = v[r].whole
      /\ [v EXCEPT ![r].frac = f][r].frac = f
      /\ [v EXCEPT ![r].frac = f][r].negative <=> v[r].negative
      /\ \A p \in P : p # r => [v EXCEPT ![r].frac = f][p] = m[p]
  BY <1>1 DEF Numbers
<1> QED
  BY <1>1, <1>2, <1>3

LEMMA SetSignIs ==
  ASSUME NEW P, NEW m \in [P -> Numbers], NEW r \in P, NEW n \in BOOLEAN
  PROVE  /\ SetSign(m, r, n) \in [P -> Numbers]
         /\ SetSign(m, r, n)[r].negative <=> n
         /\ \A p \in P : p # r => SetSign(m, r, n)[p] = m[p]
         /\ \A p \in P : /\ SetSign(m, r, n)[p].whole = m[p].whole
                         /\ SetSign(m, r, n)[p].frac = m[p].frac
BY DEF SetSign, Numbers

\* What SumExact says of a call of fixpoint_add.
Sums(out, r, exact) ==
  /\ out.status = (IF Abs(exact) < Base * Base THEN RESULT_OK ELSE RESULT_OVERFLOW)
  /\ Magnitude(out.mem[r]) = Abs(exact) % (Base * Base)
  /\ out.mem[r].negative <=> exact < 0

\* The sum of two magnitudes, written anywhere, with the sign that is there.
LEMMA addSameSignIs ==
  ASSUME NEW P, NEW m \in [P -> Numbers], NEW r \in P, NEW a \in P, NEW b \in P
  PROVE  LET out == addSameSign(m, r, a, b)
             sum == Magnitude(m[a]) + Magnitude(m[b])
         IN  /\ out.mem \in [P -> Numbers]
             /\ out.mem[r].negative <=> m[r].negative
             /\ Magnitude(out.mem[r]) = sum % (Base * Base)
             /\ out.status = (IF sum < Base * Base THEN RESULT_OK ELSE RESULT_OVERFLOW)
             /\ \A p \in P : p # r => out.mem[p] = m[p]
<1> DEFINE sum == Magnitude(m[a]) + Magnitude(m[b])
           whole == m[a].whole + m[b].whole + Carry(m[a], m[b])
           frac == m[a].frac + m[b].frac
           out == addSameSign(m, r, a, b)
<1>1. m[a] \in Numbers /\ m[b] \in Numbers
  OBVIOUS
<1>2. /\ Half(whole) \in Halves /\ Half(frac) \in Halves
      /\ whole >= Base <=> sum >= Base * Base
      /\ Half(whole) * Base + Half(frac) = sum % (Base * Base)
  BY <1>1, SumOfHalves
<1>3. sum \in Nat /\ Base * Base \in Nat
  <2>1. Magnitude(m[a]) \in Nat /\ Magnitude(m[b]) \in Nat
    BY <1>1, Magnitudes
  <2> QED
    BY <2>1, FixPointAssumption
<1>4. /\ out.mem = Write(m, r, Half(whole), Half(frac))
      /\ out.status = IF whole >= Base THEN RESULT_OVERFLOW ELSE RESULT_OK
  BY DEF addSameSign
<1> HIDE DEF whole, frac, sum, out
<1>5. /\ out.mem \in [P -> Numbers]
      /\ out.mem[r].whole = Half(whole) /\ out.mem[r].frac = Half(frac)
      /\ out.mem[r].negative <=> m[r].negative
      /\ \A p \in P : p # r => out.mem[p] = m[p]
  BY <1>2, <1>4, WriteIs
<1>6. Magnitude(out.mem[r]) = sum % (Base * Base)
  BY <1>2, <1>5 DEF Magnitude
<1>7. out.status = (IF sum < Base * Base THEN RESULT_OK ELSE RESULT_OVERFLOW)
  <2>1. sum < Base * Base <=> ~ (sum >= Base * Base)
    BY <1>3
  <2> QED
    BY <1>2, <1>4, <2>1, Zenon
<1> QED
  BY <1>5, <1>6, <1>7 DEF sum, out

\* The sum of two numbers of one sign, written elsewhere.
LEMMA AddAlikeSums ==
  ASSUME NEW P, NEW m \in [P -> Numbers], NEW r \in P, NEW a \in P, NEW b \in P,
         m[a].negative = m[b].negative
  PROVE  LET out == AddAlike(m, r, a, b)
         IN  /\ out.mem \in [P -> Numbers]
             /\ r # a /\ r # b => Sums(out, r, Value(m[a]) + Value(m[b]))
<1> DEFINE m1 == SetSign(m, r, m[a].negative)
           once == addSameSign(m1, r, a, b)
           m2 == IF once.status = RESULT_OK /\ IsZero(once.mem[r])
                 THEN SetSign(once.mem, r, FALSE) ELSE once.mem
           out == addSameSign(m2, r, a, b)
           sum == Magnitude(m[a]) + Magnitude(m[b])
<1>1. m[a] \in Numbers /\ m[b] \in Numbers /\ m[a].negative \in BOOLEAN
  BY DEF Numbers
<1>2. /\ m1 \in [P -> Numbers] /\ (m1[r].negative <=> m[a].negative)
      /\ \A p \in P : p # r => m1[p] = m[p]
  <2> DEFINE n == m[a].negative
  <2>1. n \in BOOLEAN
    BY <1>1
  <2> HIDE DEF n
  <2>2. /\ SetSign(m, r, n) \in [P -> Numbers] /\ (SetSign(m, r, n)[r].negative <=> n)
        /\ \A p \in P : p # r => SetSign(m, r, n)[p] = m[p]
    BY <2>1, SetSignIs
  <2> QED
    BY <2>2 DEF n
<1> HIDE DEF m1
<1>3. /\ once.mem \in [P -> Numbers] /\ (once.mem[r].negative <=> m1[r].negative)
      /\ Magnitude(once.mem[r]) = (Magnitude(m1[a]) + Magnitude(m1[b])) % (Base * Base)
      /\ once.status = IF Magnitude(m1[a]) + Magnitude(m1[b]) < Base * Base
                       THEN RESULT_OK ELSE RESULT_OVERFLOW
      /\ \A p \in P : p # r => once.mem[p] = m1[p]
  BY <1>2, addSameSignIs
<1> HIDE DEF once
<1>4. /\ m2 \in [P -> Numbers]
      /\ m2[r].negative <=> m1[r].negative /\ ~(once.status = RESULT_OK /\ IsZero(once.mem[r]))
      /\ \A p \in P : p # r => m2[p] = m1[p]
  <2>1. /\ SetSign(once.mem, r, FALSE) \in [P -> Numbers]
        /\ ~SetSign(once.mem, r, FALSE)[r].negative
        /\ \A p \in P : p # r => SetSign(once.mem, r, FALSE)[p] = once.mem[p]
    <3>1. \A v \in [P -> Numbers] :
            /\ SetSign(v, r, FALSE) \in [P -> Numbers] /\ ~SetSign(v, r, FALSE)[r].negative
            /\ \A p \in P : p # r => SetSign(v, r, FALSE)[p] = v[p]
      BY DEF SetSign, Numbers
    <3> QED
      BY <1>3, <3>1, Zenon
  <2>2. m1[r].negative \in BOOLEAN
    BY <1>2 DEF Numbers
  <2> QED
    BY <1>3, <2>1, <2>2
<1> HIDE DEF m2
<1>5. /\ out.mem \in [P -> Numbers] /\ (out.mem[r].negative <=> m2[r].negative)
      /\ Magnitude(out.mem[r]) = (Magnitude(m2[a]) + Magnitude(m2[b])) % (Base * Base)
      /\ out.status = IF Magnitude(m2[a]) + Magnitude(m2[b]) < Base * Base
                      THEN RESULT_OK ELSE RESULT_OVERFLOW
  BY <1>4, addSameSignIs
<1> HIDE DEF out
<1>6. ASSUME r # a, r # b
      PROVE  Sums(out, r, Value(m[a]) + Value(m[b]))
  <2>1. m1[a] = m[a] /\ m1[b] = m[b] /\ m2[a] = m[a] /\ m2[b] = m[b]
    BY <1>2, <1>3, <1>4, <1>6
  <2>2. Magnitude(m[a]) \in Nat /\ Magnitude(m[b]) \in Nat /\ Base * Base \in Nat
        /\ Base * Base >= 1 /\ sum \in Nat
    BY <1>1, Magnitudes, FixPointAssumption
  <2>3. Abs(Value(m[a]) + Value(m[b])) = sum
    BY <1>1, <2>2 DEF Abs, Value
  <2>4. Value(m[a]) + Value(m[b]) < 0 <=> m[a].negative /\ sum # 0
    BY <1>1, <2>2 DEF Value
  <2>5. once.status = RESULT_OK /\ IsZero(once.mem[r]) <=> sum = 0
    <3>1. once.mem[r] \in Numbers
      BY <1>3
    <3>2. IsZero(once.mem[r]) <=> sum % (Base * Base) = 0
      BY <1>3, <2>1, <3>1, Magnitudes
    <3>3. once.status = RESULT_OK <=> sum < Base * Base
      BY <1>3, <2>1 DEF RESULT_OK, RESULT_OVERFLOW
    <3>4. sum < Base * Base => sum % (Base * Base) = sum
      <4> HIDE DEF sum
      <4>1. sum < Base * Base => (0 * (Base * Base) + sum) % (Base * Base) = sum
        <5>1. sum < Base * Base => sum \in 0..(Base * Base - 1)
          BY <2>2
        <5> QED
          BY <2>2, <5>1, DivModUnique
      <4> QED
        BY <2>2, <4>1
    <3>5. sum = 0 => sum < Base * Base
      BY <2>2
    <3> QED
      BY <3>2, <3>3, <3>4, <3>5
  <2>6. out.mem[r].negative <=> m[a].negative /\ sum # 0
    BY <1>2, <1>3, <1>4, <1>5, <2>5
  <2> QED
    BY <1>5, <2>1, <2>3, <2>4, <2>6 DEF Sums
<1>7. AddAlike(m, r, a, b) = out
  BY DEF AddAlike, out, m2, once, m1
<1> QED
  BY <1>5, <1>6, <1>7

\* The halves of a difference that is positive.
LEMMA DifferenceOfHalves ==
  ASSUME NEW x \in Numbers, NEW y \in Numbers, Magnitude(y) < Magnitude(x)
  PROVE  LET borrow == IF x.frac < y.frac THEN 1 ELSE 0
             whole == Half(x.whole - borrow - y.whole)
             frac == Half(x.frac - y.frac)
         IN  /\ whole \in Halves /\ frac \in Halves
             /\ whole * Base + frac = Magnitude(x) - Magnitude(y)
<1> DEFINE borrow == IF x.frac < y.frac THEN 1 ELSE 0
           whole == x.whole - borrow - y.whole
           frac == (x.frac - y.frac) + borrow * Base
<1>1. /\ x.whole \in 0..(Base - 1) /\ x.frac \in 0..(Base - 1) /\ Base \in Nat /\ Base >= 2
      /\ y.whole \in 0..(Base - 1) /\ y.frac \in 0..(Base - 1) /\ Base >= 1
  BY FixPointAssumption DEF Numbers, Halves
<1>2. borrow \in {0, 1} /\ whole \in Int /\ frac \in 0..(Base - 1)
  BY <1>1
<1>3. whole * Base + frac = Magnitude(x) - Magnitude(y) /\ Magnitude(x) - Magnitude(y) > 0
  <2>1. Magnitude(x) \in Nat /\ Magnitude(y) \in Nat
    BY Magnitudes
  <2> QED
    BY <1>1, <1>2, <2>1 DEF Magnitude
<1>4. x.frac - y.frac = (0 - borrow) * Base + frac /\ 0 - borrow \in Int
  BY <1>1, <1>2
<1> HIDE DEF borrow, whole, frac
<1>5. whole \in 0..(Base - 1)
  <2>1. ASSUME whole <= -1
        PROVE  FALSE
    <3>1. whole * Base <= (-1) * Base
      BY <1>1, <1>2, <2>1, Monotonic
    <3> QED
      BY <1>1, <1>2, <1>3, <3>1
  <2>2. whole <= x.whole
    BY <1>1, <1>2 DEF whole
  <2> QED
    BY <1>1, <1>2, <2>1, <2>2
<1>6. Half(whole) = whole
  <2>1. (0 * Base + whole) % Base = whole
    <3>1. 0 \in Int
      OBVIOUS
    <3> QED
      BY <1>1, <1>5, <3>1, DivModUnique, Zenon
  <2>2. 0 * Base + whole = whole
    BY <1>1, <1>5
  <2> QED
    BY <2>1, <2>2 DEF Half
<1>7. Half(x.frac - y.frac) = frac
  BY <1>1, <1>2, <1>4, DivModUnique, Zenon DEF Half
<1> QED
  BY <1>2, <1>3, <1>5, <1>6, <1>7 DEF Halves, whole, borrow

\* The difference of two magnitudes, written with a sign anywhere.
LEMMA addDiffSignIs ==
  ASSUME NEW P, NEW m \in [P -> Numbers], NEW r \in P, NEW a \in P, NEW b \in P,
         Magnitude(m[b]) < Magnitude(m[a])
  PROVE  LET out == addDiffSign(SetSign(m, r, m[a].negative), r, a, b)
         IN  /\ out \in [P -> Numbers] /\ ~IsZero(out[r])
             /\ Magnitude(out[r]) = Magnitude(m[a]) - Magnitude(m[b])
             /\ out[r].negative <=> m[a].negative
<1> DEFINE s == SetSign(m, r, m[a].negative)
           borrow == IF m[a].frac < m[b].frac THEN 1 ELSE 0
           whole == Half(m[a].whole - borrow - m[b].whole)
           frac == Half(m[a].frac - m[b].frac)
           out == addDiffSign(s, r, a, b)
           diff == Magnitude(m[a]) - Magnitude(m[b])
<1>1. m[a] \in Numbers /\ m[b] \in Numbers /\ m[a].negative \in BOOLEAN
  BY DEF Numbers
<1>2. /\ s \in [P -> Numbers] /\ (s[r].negative <=> m[a].negative)
      /\ \A p \in P : s[p].whole = m[p].whole /\ s[p].frac = m[p].frac
  <2> DEFINE n == m[a].negative
  <2>1. n \in BOOLEAN
    BY <1>1
  <2> HIDE DEF n
  <2>2. /\ SetSign(m, r, n) \in [P -> Numbers] /\ (SetSign(m, r, n)[r].negative <=> n)
        /\ \A p \in P : /\ SetSign(m, r, n)[p].whole = m[p].whole
                        /\ SetSign(m, r, n)[p].frac = m[p].frac
    BY <2>1, SetSignIs
  <2> QED
    BY <2>2 DEF n
<1>3. whole \in Halves /\ frac \in Halves /\ whole * Base + frac = diff
  BY <1>1, DifferenceOfHalves
<1>4. diff > 0 /\ diff \in Nat
  BY <1>1, Magnitudes
<1> HIDE DEF s
<1>5. out = Write(IF whole = 0 /\ frac = 0 THEN SetSign(s, r, FALSE) ELSE s, r, whole, frac)
  BY <1>2 DEF addDiffSign
<1> HIDE DEF whole, frac, diff, out
<1>6. ~(whole = 0 /\ frac = 0)
  BY <1>3, <1>4, FixPointAssumption
<1>7. out = Write(s, r, whole, frac)
  BY <1>5, <1>6
<1>8. /\ out \in [P -> Numbers] /\ out[r].whole = whole /\ out[r].frac = frac
      /\ out[r].negative <=> s[r].negative
  BY <1>2, <1>3, <1>7, WriteIs
<1>9. Magnitude(out[r]) = diff /\ ~IsZero(out[r])
  BY <1>3, <1>6, <1>8 DEF Magnitude, IsZero
<1> QED
  BY <1>2, <1>8, <1>9 DEF out, s, diff

\* The sum of two numbers of different signs, written anywhere.
LEMMA AddUnlikeSums ==
  ASSUME NEW P, NEW m \in [P -> Numbers], NEW r \in P, NEW a \in P, NEW b \in P,
         m[a].negative # m[b].negative
  PROVE  LET out == AddUnlike(m, r, a, b)
         IN  out.mem \in [P -> Numbers] /\ Sums(out, r, Value(m[a]) + Value(m[b]))
<1> DEFINE order == compareAbsoluteVal(m[a], m[b])
           exact == Value(m[a]) + Value(m[b])
           bigger == IF order > 0 THEN a ELSE b
           smaller == IF order > 0 THEN b ELSE a
           sum == addDiffSign(SetSign(m, r, m[bigger].negative), r, bigger, smaller)
           out == AddUnlike(m, r, a, b)
<1>1. /\ m[a] \in Numbers /\ m[b] \in Numbers
      /\ m[a].negative \in BOOLEAN /\ m[b].negative \in BOOLEAN
  BY DEF Numbers
<1>2. order = Order(Magnitude(m[a]), Magnitude(m[b]))
  BY <1>1, ComparesMagnitudes
<1>3. /\ Magnitude(m[a]) \in Nat /\ Magnitude(m[a]) < Base * Base
      /\ Magnitude(m[b]) \in Nat /\ Magnitude(m[b]) < Base * Base
      /\ Base * Base \in Nat /\ Base * Base >= 1 /\ 0 \in Halves
  BY <1>1, Magnitudes, FixPointAssumption DEF Halves
<1>4. /\ out.status = RESULT_OK
      /\ out.mem = IF order = 0 THEN SetSign(Write(m, r, 0, 0), r, FALSE)
                   ELSE IF IsZero(sum[r]) THEN SetSign(sum, r, FALSE) ELSE sum
  BY DEF AddUnlike
<1>5. \A n \in Nat : n < Base * Base => n % (Base * Base) = n
  <2>1. ASSUME NEW n \in Nat, n < Base * Base
        PROVE  n % (Base * Base) = n
    <3>1. n \in 0..(Base * Base - 1)
      BY <1>3, <2>1
    <3>2. (0 * (Base * Base) + n) % (Base * Base) = n
      <4>1. 0 \in Int
        OBVIOUS
      <4> QED
        BY <1>3, <3>1, <4>1, DivModUnique, Zenon
    <3>3. 0 * (Base * Base) + n = n
      BY <1>3
    <3> QED
      BY <3>2, <3>3
  <2> QED
    BY <2>1
<1> HIDE DEF order, out
<1>6. CASE order = 0
  <2>1. Magnitude(m[a]) = Magnitude(m[b])
    BY <1>2, <1>3, <1>6 DEF Order
  <2>2. exact = 0
    BY <1>1, <1>3, <2>1 DEF Value
  <2>3. /\ Write(m, r, 0, 0) \in [P -> Numbers]
        /\ Write(m, r, 0, 0)[r].whole = 0 /\ Write(m, r, 0, 0)[r].frac = 0
    BY <1>3, WriteIs
  <2>4. /\ out.mem \in [P -> Numbers]
        /\ out.mem[r].whole = 0 /\ out.mem[r].frac = 0 /\ ~out.mem[r].negative
    <3>1. \A v \in [P -> Numbers] :
            /\ SetSign(v, r, FALSE) \in [P -> Numbers] /\ ~SetSign(v, r, FALSE)[r].negative
            /\ SetSign(v, r, FALSE)[r].whole = v[r].whole
            /\ SetSign(v, r, FALSE)[r].frac = v[r].frac
      BY DEF SetSign, Numbers
    <3>2. out.mem = SetSign(Write(m, r, 0, 0), r, FALSE)
      BY <1>4, <1>6
    <3> QED
      BY <2>3, <3>1, <3>2
  <2>5. Magnitude(out.mem[r]) = 0
    BY <2>4, FixPointAssumption DEF Magnitude
  <2>6. Abs(exact) = 0 /\ 0 % (Base * Base) = 0
    BY <1>3, <1>5, <2>2 DEF Abs
  <2>7. Abs(exact) < Base * Base /\ ~(exact < 0)
    BY <1>3, <2>2, <2>6
  <2> HIDE DEF exact
  <2>8. Sums(out, r, exact)
    BY <1>4, <2>4, <2>5, <2>6, <2>7 DEF Sums
  <2> QED
    BY <2>4, <2>8 DEF exact, out
<1>7. CASE order # 0
  <2>1. Magnitude(m[smaller]) < Magnitude(m[bigger])
    BY <1>2, <1>3, <1>7 DEF Order
  <2>2. bigger \in P /\ smaller \in P
    OBVIOUS
  <2>3. /\ exact < 0 <=> m[bigger].negative
        /\ Abs(exact) = Magnitude(m[bigger]) - Magnitude(m[smaller])
    BY <1>1, <1>2, <1>3, <1>7 DEF Order, Value, Abs
  <2> HIDE DEF bigger, smaller, exact
  <2>4. /\ sum \in [P -> Numbers] /\ ~IsZero(sum[r])
        /\ Magnitude(sum[r]) = Magnitude(m[bigger]) - Magnitude(m[smaller])
        /\ sum[r].negative <=> m[bigger].negative
    BY <2>1, <2>2, addDiffSignIs
  <2>5. out.mem = sum
    BY <1>4, <1>7, <2>4
  <2>6. Abs(exact) \in Nat /\ Abs(exact) < Base * Base
    <3>1. \A p \in {a, b} : Magnitude(m[p]) \in Nat /\ Magnitude(m[p]) < Base * Base
      BY <1>3
    <3>2. bigger \in {a, b} /\ smaller \in {a, b}
      BY DEF bigger, smaller
    <3> QED
      BY <1>3, <2>1, <2>3, <3>1, <3>2
  <2> HIDE DEF sum
  <2>7. Abs(exact) % (Base * Base) = Abs(exact)
    BY <1>5, <2>6
  <2>8. Sums(out, r, exact)
    BY <1>4, <2>3, <2>4, <2>5, <2>6, <2>7 DEF Sums
  <2> QED
    BY <2>4, <2>5, <2>8 DEF exact, out
<1> QED
  BY <1>6, <1>7 DEF out

------------------------------------------------------------------------------
(* Multiplication *)

\* The middle digits as fixpoint_mul computes them.
Lower(B, w, f, v, g) == ((f * g) \div B) + ((f * v) % B) + ((w * g) % B)
Upper(B, w, f, v, g) ==
  ((f * v) \div B) + ((w * g) \div B) + (w * v) + (Lower(B, w, f, v, g) \div B)

ProductIs(B, w, f, v, g) ==
  /\ Lower(B, w, f, v, g) \in Nat /\ Upper(B, w, f, v, g) \in Nat
  /\ (w * B + f) * (v * B + g)
       = (Upper(B, w, f, v, g) * B + (Lower(B, w, f, v, g) % B)) * B + ((f * g) % B)

\* A product of two digits each, from the products of the digits.
LEMMA ProductOfHalves ==
  ASSUME NEW B \in Nat, B >= 2, NEW w \in Nat, NEW f \in Nat, NEW v \in Nat, NEW g \in Nat
  PROVE  ProductIs(B, w, f, v, g)
<1>1. f * g \in Nat /\ f * v \in Nat /\ w * g \in Nat /\ w * v \in Nat /\ B >= 1
  BY Products
<1> DEFINE low == f * g
           lowHigh == f * v
           highLow == w * g
           middleLow == (low \div B) + (lowHigh % B) + (highLow % B)
<1>2. /\ low \div B \in Nat /\ low % B \in Nat /\ low = (low \div B) * B + (low % B)
      /\ lowHigh \div B \in Nat /\ lowHigh % B \in Nat
      /\ lowHigh = (lowHigh \div B) * B + (lowHigh % B)
      /\ highLow \div B \in Nat /\ highLow % B \in Nat
      /\ highLow = (highLow \div B) * B + (highLow % B)
  <2>1. \A n \in Nat : n \div B \in Nat /\ n % B \in Nat /\ n = (n \div B) * B + (n % B)
    BY <1>1, DivMod
  <2> QED
    BY <1>1, <2>1, Zenon
<1>3. middleLow \in Nat
  <2> HIDE DEF low, lowHigh, highLow
  <2> QED
    BY <1>2
<1>4. /\ middleLow \div B \in Nat /\ middleLow % B \in Nat
      /\ middleLow = (middleLow \div B) * B + (middleLow % B)
  <2> HIDE DEF middleLow
  <2> QED
    BY <1>1, <1>3, DivMod
<1>5. (w * B + f) * (v * B + g)
        = (((lowHigh \div B) + (highLow \div B) + (w * v) + (middleLow \div B)) * B
             + (middleLow % B)) * B + (low % B)
  <2> DEFINE q == low \div B
             r == low % B
             q1 == lowHigh \div B
             r1 == lowHigh % B
             q2 == highLow \div B
             r2 == highLow % B
             q3 == middleLow \div B
             r3 == middleLow % B
  <2>1. /\ q \in Nat /\ r \in Nat /\ f * g = q * B + r
        /\ q1 \in Nat /\ r1 \in Nat /\ f * v = q1 * B + r1
        /\ q2 \in Nat /\ r2 \in Nat /\ w * g = q2 * B + r2
        /\ q3 \in Nat /\ r3 \in Nat /\ q + r1 + r2 = q3 * B + r3
    BY <1>2, <1>4, Zenon
  <2> HIDE DEF q, r, q1, r1, q2, r2, q3, r3
  <2>2. (w * B + f) * (v * B + g) = ((q1 + q2 + w * v + q3) * B + r3) * B + r
    <3>1. (w * B + f) * (v * B + g) = (w * v) * (B * B) + (w * g) * B + (f * v) * B + f * g
      OBVIOUS
    <3>2. (w * g) * B = (q2 * B) * B + r2 * B /\ (f * v) * B = (q1 * B) * B + r1 * B
      BY <2>1
    <3>3. (q + r1 + r2) * B = (q3 * B) * B + r3 * B
      BY <2>1
    <3>4. ((q1 + q2 + w * v + q3) * B + r3) * B + r
            = (q1 * B) * B + (q2 * B) * B + (w * v) * (B * B) + (q3 * B) * B + r3 * B + r
      BY <1>1, <2>1
    <3>5. (q + r1 + r2) * B = q * B + r1 * B + r2 * B
      BY <2>1
    <3> QED
      BY <1>1, <2>1, <3>1, <3>2, <3>3, <3>4, <3>5
  <2> QED
    BY <2>2, Zenon DEF q, r, q1, r1, q2, r2, q3, r3
<1>6. (lowHigh \div B) + (highLow \div B) + (w * v) + (middleLow \div B) \in Nat
  <2> HIDE DEF low, lowHigh, highLow, middleLow
  <2> QED
    BY <1>1, <1>2, <1>4
<1> QED
  BY <1>3, <1>5, <1>6 DEF ProductIs, Lower, Upper

\* A number of three digits, of which h may be too big for one.
HasDigits(n, B, h, l, r) == n = (h * B + l) * B + r

\* The middle digits of a number, and when there is more than them.
LEMMA MiddleDigits ==
  ASSUME NEW B \in Nat, B >= 2, NEW n \in Nat, NEW h \in Nat,
         NEW l \in 0..(B - 1), NEW r \in 0..(B - 1), HasDigits(n, B, h, l, r)
  PROVE  /\ n % B = r
         /\ (h % B) * B + l = (n \div B) % (B * B)
         /\ h >= B <=> n >= B * B * B
         /\ h < B /\ l = 0 /\ r = 0 /\ h % B = 0 <=> n = 0
<1> DEFINE mid == h * B + l
           BB == B * B
<1> USE DEF HasDigits
<1>1. mid \in Nat /\ BB \in Nat /\ BB >= 1 /\ B >= 1 /\ 0 \in 0..(B - 1) /\ 0 \in 0..(BB - 1)
      /\ B \in Int /\ h \in Int /\ BB \in Int /\ mid \in Int
  <2>1. h * B \in Nat
    BY Products
  <2>2. BB \in Nat /\ BB >= 1
    OBVIOUS
  <2> QED
    BY <2>1, <2>2
<1>2. n \div B = mid /\ n % B = r
  <2> HIDE DEF mid
  <2>1. (mid * B + r) \div B = mid /\ (mid * B + r) % B = r
    BY <1>1, DivModUnique, Zenon
  <2> QED
    BY <2>1 DEF mid
<1>3. h \div B \in Nat /\ h % B \in 0..(B - 1) /\ h = (h \div B) * B + (h % B)
  BY <1>1, DivMod
<1>4. (h % B) * B + l = mid % BB
  <2> DEFINE q == h \div B
             k == h % B
  <2>1. q \in Nat /\ k \in 0..(B - 1) /\ h = q * B + k
    BY <1>3
  <2> HIDE DEF q, k
  <2>2. mid = q * BB + (k * B + l)
    BY <2>1
  <2>3. k * B + l \in 0..(BB - 1)
    <3>1. k \in Int /\ k < B
      BY <2>1
    <3>2. k * B + l < B * B + 0
      BY <1>1, <2>1, <3>1, DigitOrder, Zenon
    <3>3. k * B \in Nat
      BY <2>1
    <3> QED
      BY <1>1, <3>2, <3>3
  <2>4. q \in Int
    BY <2>1
  <2> DEFINE t == k * B + l
  <2> HIDE DEF t, BB
  <2>5. (q * BB + t) % BB = t
    BY <1>1, <2>3, <2>4, DivModUnique, Zenon DEF t
  <2> QED
    BY <2>2, <2>5 DEF t, k
<1>5. h >= B <=> n >= B * B * B
  <2>1. h >= B => mid >= BB
    BY <1>1, Monotonic
  <2>2. h < B => mid < BB
    <3>1. h < B => h * B + l < B * B + 0
      BY <1>1, DigitOrder, Zenon
    <3> QED
      BY <1>1, <3>1
  <2> HIDE DEF mid, BB
  <2>3. mid >= BB => mid * B >= BB * B
    BY <1>1, Monotonic
  <2>4. mid < BB => mid * B + r < BB * B + 0
    BY <1>1, DigitOrder, Zenon
  <2>5. n = mid * B + r /\ B * B * B = BB * B
    BY DEF mid, BB
  <2>6. mid * B \in Nat /\ BB * B \in Nat
    BY <1>1, Products
  <2> QED
    BY <1>1, <2>1, <2>2, <2>3, <2>4, <2>5, <2>6
<1>6. h < B /\ l = 0 /\ r = 0 /\ h % B = 0 <=> n = 0
  <2>1. h < B => h % B = h
    <3>1. h < B => h \in 0..(B - 1)
      OBVIOUS
    <3>2. h < B => (0 * B + h) % B = h
      <4>1. 0 \in Int
        OBVIOUS
      <4> QED
        BY <1>1, <3>1, <4>1, DivModUnique, Zenon
    <3> QED
      BY <3>2
  <2>2. h = 0 /\ l = 0 /\ r = 0 => n = 0
    OBVIOUS
  <2>3. h >= 1 => h * B >= 1 * B
    BY Monotonic
  <2>4. n = 0 => h = 0 /\ l = 0 /\ r = 0
    <3>1. mid >= 1 => mid * B >= 1 * B
      <4> HIDE DEF mid
      <4> QED
        BY <1>1, Monotonic
    <3>2. mid * B \in Nat
      <4> HIDE DEF mid
      <4> QED
        BY <1>1, Products
    <3>3. n = 0 => mid = 0 /\ r = 0
      <4>1. n = mid * B + r
        OBVIOUS
      <4> HIDE DEF mid
      <4> QED
        BY <1>1, <3>1, <3>2, <4>1
    <3>4. mid = 0 => h = 0 /\ l = 0
      <4>1. h * B \in Nat
        BY Products
      <4> QED
        BY <2>3, <4>1
    <3> QED
      BY <3>3, <3>4
  <2> QED
    BY <2>1, <2>2, <2>4
<1> QED
  BY <1>2, <1>4, <1>5, <1>6

\* What ProductExact says of a call of fixpoint_mul.
Multiplies(out, r, x, y) ==
  LET exact == Magnitude(x) * Magnitude(y) IN
  /\ Magnitude(out.mem[r]) = (exact \div Base) % (Base * Base)
  /\ out.status = (IF exact >= Base * Base * Base THEN RESULT_OVERFLOW ELSE 0)
                  + (IF exact % Base # 0 THEN RESULT_UNDERFLOW ELSE 0)
  /\ out.mem[r].negative <=> Value(x) * Value(y) < 0

\* The product, written anywhere.
LEMMA MultipliesValues ==
  ASSUME NEW P, NEW m \in [P -> Numbers], NEW r \in P, NEW a \in P, NEW b \in P
  PROVE  LET out == fixpoint_mul(m, r, a, b)
         IN  out.mem \in [P -> Numbers] /\ Multiplies(out, r, m[a], m[b])
<1> DEFINE x == m[a]
           y == m[b]
           low == x.frac * y.frac
           lowHigh == x.frac * y.whole
           highLow == x.whole * y.frac
           high == x.whole * y.whole
           middleLow == (low \div Base) + (lowHigh % Base) + (highLow % Base)
           middleHigh == (lowHigh \div Base) + (highLow \div Base) + high + (middleLow \div Base)
           over == IF middleHigh >= Base THEN RESULT_OVERFLOW ELSE 0
           under == IF Half(low) # 0 THEN RESULT_UNDERFLOW ELSE 0
           product == Write(m, r, Half(middleHigh), Half(middleLow))
           zero == over + under = RESULT_OK /\ IsZero(product[r])
           exact == Magnitude(x) * Magnitude(y)
           out == fixpoint_mul(m, r, a, b)
<1>1. /\ out.mem = SetSign(product, r, m[a].negative # m[b].negative /\ ~zero)
      /\ out.status = over + under
  BY DEF fixpoint_mul, MiddleHigh, Half
<1>2. /\ x \in Numbers /\ y \in Numbers /\ Base \in Nat /\ Base >= 2 /\ Base >= 1
      /\ x.whole \in Nat /\ x.frac \in Nat /\ y.whole \in Nat /\ y.frac \in Nat
      /\ x.negative \in BOOLEAN /\ y.negative \in BOOLEAN
  BY FixPointAssumption DEF Numbers, Halves
<1>3. /\ Magnitude(x) \in Nat /\ Magnitude(y) \in Nat /\ exact \in Nat
  <2>1. Magnitude(x) \in Nat /\ Magnitude(y) \in Nat
    BY <1>2, Magnitudes
  <2> QED
    BY <2>1, Products
<1>4. /\ middleLow \in Nat /\ middleHigh \in Nat
      /\ exact = (middleHigh * Base + (middleLow % Base)) * Base + (low % Base)
  <2>1. exact = (x.whole * Base + x.frac) * (y.whole * Base + y.frac)
    BY Zenon DEF Magnitude
  <2> HIDE DEF x, y, exact
  <2>2. /\ middleLow = Lower(Base, x.whole, x.frac, y.whole, y.frac)
        /\ middleHigh = Upper(Base, x.whole, x.frac, y.whole, y.frac)
    BY Zenon DEF Lower, Upper
  <2>3. ProductIs(Base, x.whole, x.frac, y.whole, y.frac)
    BY <1>2, ProductOfHalves
  <2> QED
    BY <2>1, <2>2, <2>3, Zenon DEF ProductIs
<1>5. low \in Nat
  <2> HIDE DEF x, y
  <2> QED
    BY <1>2, Products
<1> HIDE DEF x, y, low, lowHigh, highLow, high, middleLow, middleHigh, exact, product, out
<1>6. low % Base \in 0..(Base - 1) /\ middleLow % Base \in 0..(Base - 1)
      /\ middleHigh % Base \in 0..(Base - 1)
  BY <1>2, <1>4, <1>5
<1>7. /\ exact % Base = low % Base
      /\ (middleHigh % Base) * Base + (middleLow % Base) = (exact \div Base) % (Base * Base)
      /\ middleHigh >= Base <=> exact >= Base * Base * Base
      /\ middleHigh < Base /\ middleLow % Base = 0 /\ low % Base = 0 /\ middleHigh % Base = 0
           <=> exact = 0
  <2> DEFINE l == middleLow % Base
             k == low % Base
  <2>1. l \in 0..(Base - 1) /\ k \in 0..(Base - 1) /\ HasDigits(exact, Base, middleHigh, l, k)
    BY <1>4, <1>6 DEF HasDigits
  <2> HIDE DEF l, k
  <2>2. /\ exact % Base = k
        /\ (middleHigh % Base) * Base + l = (exact \div Base) % (Base * Base)
        /\ middleHigh >= Base <=> exact >= Base * Base * Base
        /\ middleHigh < Base /\ l = 0 /\ k = 0 /\ middleHigh % Base = 0 <=> exact = 0
    <3>1. \A n, h \in Nat, d, e \in 0..(Base - 1) : HasDigits(n, Base, h, d, e) =>
            /\ n % Base = e
            /\ (h % Base) * Base + d = (n \div Base) % (Base * Base)
            /\ h >= Base <=> n >= Base * Base * Base
            /\ h < Base /\ d = 0 /\ e = 0 /\ h % Base = 0 <=> n = 0
      BY <1>2, MiddleDigits
    <3> QED
      BY <1>3, <1>4, <2>1, <3>1, Zenon
  <2> QED
    BY <2>2, Zenon DEF l, k
<1>8. /\ product \in [P -> Numbers]
      /\ product[r].whole = middleHigh % Base /\ product[r].frac = middleLow % Base
  BY <1>6, WriteIs DEF product, Half, Halves
<1>9. zero <=> exact = 0
  <2>1. over + under = RESULT_OK <=> middleHigh < Base /\ low % Base = 0
    BY <1>2, <1>4 DEF RESULT_OK, RESULT_OVERFLOW, RESULT_UNDERFLOW, Half
  <2> QED
    BY <1>7, <1>8, <2>1 DEF IsZero
<1>10. /\ out.mem \in [P -> Numbers]
       /\ out.mem[r].negative <=> x.negative # y.negative /\ ~zero
       /\ out.mem[r].whole = product[r].whole /\ out.mem[r].frac = product[r].frac
  <2> DEFINE n == m[a].negative # m[b].negative /\ ~zero
  <2>1. n \in BOOLEAN
    OBVIOUS
  <2> HIDE DEF n, zero
  <2>2. /\ SetSign(product, r, n) \in [P -> Numbers] /\ (SetSign(product, r, n)[r].negative <=> n)
        /\ SetSign(product, r, n)[r].whole = product[r].whole
        /\ SetSign(product, r, n)[r].frac = product[r].frac
    BY <1>8, <2>1, SetSignIs
  <2> QED
    BY <1>1, <2>2 DEF n, x, y
<1>11. Magnitude(out.mem[r]) = (exact \div Base) % (Base * Base)
  BY <1>7, <1>8, <1>10 DEF Magnitude
<1>12. out.status = (IF exact >= Base * Base * Base THEN RESULT_OVERFLOW ELSE 0)
                    + (IF exact % Base # 0 THEN RESULT_UNDERFLOW ELSE 0)
  BY <1>1, <1>7 DEF Half
<1>13. Value(x) * Value(y) < 0 <=> x.negative # y.negative /\ exact # 0
  <2>1. CASE x.negative # y.negative
    <3>1. Value(x) * Value(y) = -exact
      BY <1>2, <1>3, <2>1 DEF Value, exact
    <3> QED
      BY <1>3, <2>1, <3>1
  <2>2. CASE x.negative = y.negative
    <3>1. Value(x) * Value(y) = exact
      BY <1>2, <1>3, <2>2 DEF Value, exact
    <3> QED
      BY <1>3, <2>2, <3>1
  <2> QED
    BY <2>1, <2>2
<1>14. Multiplies(out, r, x, y)
  BY <1>9, <1>10, <1>11, <1>12, <1>13 DEF Multiplies, exact
<1> QED
  BY <1>10, <1>14 DEF out, x, y

------------------------------------------------------------------------------
(* Calls *)

\* fixpoint_add, on the memory of a caller or of fixpoint_sub.
LEMMA Adds ==
  ASSUME NEW P, NEW m \in [P -> Numbers], NEW r \in P, NEW a \in P, NEW b \in P
  PROVE  LET out == fixpoint_add(m, r, a, b)
         IN  /\ out.mem \in [P -> Numbers]
             /\ ~((r = a \/ r = b) /\ m[a].negative = m[b].negative)
                  => Sums(out, r, Value(m[a]) + Value(m[b]))
<1>1. CASE m[a].negative = m[b].negative
  BY <1>1, AddAlikeSums DEF fixpoint_add
<1>2. CASE m[a].negative # m[b].negative
  BY <1>2, AddUnlikeSums DEF fixpoint_add
<1> QED
  BY <1>1, <1>2

LEMMA Negated ==
  ASSUME NEW x \in Numbers
  PROVE  fixpoint_negate(x) \in Numbers
BY DEF fixpoint_negate, Numbers

\* fixpoint_sub adds from a memory that has its local variable too.
LEMMA Subtracts ==
  ASSUME NEW m \in [Pointers -> Numbers],
         NEW r \in Pointers, NEW a \in Pointers, NEW b \in Pointers
  PROVE  LET out == fixpoint_sub(m, r, a, b)
             y == fixpoint_negate(m[b])
         IN  /\ out.mem \in [Pointers -> Numbers]
             /\ ~(r = a /\ m[a].negative = y.negative) => Sums(out, r, Value(m[a]) + Value(y))
<1> DEFINE P == Pointers \cup {Local}
           m2 == [p \in P |-> IF p = Local THEN fixpoint_negate(m[b]) ELSE m[p]]
           sum == fixpoint_add(m2, r, a, Local)
           out == fixpoint_sub(m, r, a, b)
           y == fixpoint_negate(m[b])
<1>1. Local \notin Pointers
  BY FixPointAssumption
<1>2. y \in Numbers
  BY Negated
<1>3. /\ out.mem = [p \in Pointers |-> sum.mem[p]] /\ out.status = sum.status
  BY DEF fixpoint_sub
<1>4. m2 \in [P -> Numbers] /\ m2[a] = m[a] /\ m2[Local] = y /\ r # Local
  BY <1>1, <1>2
<1> HIDE DEF m2, y
<1>5. r \in P /\ a \in P /\ Local \in P
  OBVIOUS
<1>6. /\ sum.mem \in [P -> Numbers]
      /\ ~((r = a \/ r = Local) /\ m2[a].negative = m2[Local].negative)
           => Sums(sum, r, Value(m2[a]) + Value(m2[Local]))
  BY <1>4, <1>5, Adds
<1> HIDE DEF sum, out
<1>7. out.mem \in [Pointers -> Numbers] /\ out.mem[r] = sum.mem[r]
  BY <1>3, <1>6
<1>8. ~(r = a /\ m[a].negative = y.negative) => Sums(out, r, Value(m[a]) + Value(y))
  BY <1>3, <1>4, <1>6, <1>7 DEF Sums
<1> QED
  BY <1>7, <1>8 DEF out, y

Exact == SumExact /\ ProductExact /\ CompareExact

\* Numbers stay numbers, and what the last call made of them is exact.
Inv == val \in [Pointers -> Numbers] /\ Exact

LEMMA InitInv == FixInit => Inv
<1> SUFFICES ASSUME FixInit
             PROVE  Inv
  OBVIOUS
<1>1. \A w, f \in Halves, n \in BOOLEAN : fixpoint_init(w, f, n) \in Numbers
  BY DEF fixpoint_init, Numbers
<1>2. val \in [Pointers -> Numbers]
  BY <1>1 DEF FixInit
<1>3. call.op = "none"
  BY DEF FixInit, NoCall
<1>4. SumExact /\ ProductExact /\ CompareExact
  BY <1>3 DEF SumExact, ProductExact, CompareExact
<1> QED
  BY <1>2, <1>4 DEF Inv, Exact

LEMMA AddStep ==
  ASSUME Inv, NEW r \in Pointers, NEW a \in Pointers, NEW b \in Pointers, Add(r, a, b)
  PROVE  Inv'
<1> DEFINE out == fixpoint_add(val, r, a, b)
<1>1. val \in [Pointers -> Numbers]
  BY DEF Inv
<1>2. /\ out.mem \in [Pointers -> Numbers]
      /\ ~((r = a \/ r = b) /\ val[a].negative = val[b].negative)
           => Sums(out, r, Value(val[a]) + Value(val[b]))
  BY <1>1, Adds
<1> HIDE DEF out
<1>3. /\ val' = out.mem
      /\ call' = [op |-> "add", left |-> val[a], right |-> val[b], result |-> out.mem[r],
                  status |-> out.status, inPlace |-> r \in {a, b}]
  BY DEF Add, Returns, out
<1>4. SumExact'
  BY <1>2, <1>3 DEF SumExact, Addend, IsSum, Sums
<1>5. ProductExact' /\ CompareExact'
  BY <1>3 DEF ProductExact, CompareExact
<1> QED
  BY <1>2, <1>3, <1>4, <1>5 DEF Inv, Exact

LEMMA SubStep ==
  ASSUME Inv, NEW r \in Pointers, NEW a \in Pointers, NEW b \in Pointers, Sub(r, a, b)
  PROVE  Inv'
<1> DEFINE out == fixpoint_sub(val, r, a, b)
<1>1. val \in [Pointers -> Numbers]
  BY DEF Inv
<1>2. /\ out.mem \in [Pointers -> Numbers]
      /\ ~(r = a /\ val[a].negative = fixpoint_negate(val[b]).negative)
           => Sums(out, r, Value(val[a]) + Value(fixpoint_negate(val[b])))
  BY <1>1, Subtracts
<1> HIDE DEF out
<1>3. /\ val' = out.mem
      /\ call' = [op |-> "sub", left |-> val[a], right |-> val[b], result |-> out.mem[r],
                  status |-> out.status, inPlace |-> r \in {a}]
  BY DEF Sub, Returns, out
<1>4. SumExact'
  BY <1>2, <1>3 DEF SumExact, Addend, IsSum, Sums
<1>5. ProductExact' /\ CompareExact'
  BY <1>3 DEF ProductExact, CompareExact
<1> QED
  BY <1>2, <1>3, <1>4, <1>5 DEF Inv, Exact

LEMMA MulStep ==
  ASSUME Inv, NEW r \in Pointers, NEW a \in Pointers, NEW b \in Pointers, Mul(r, a, b)
  PROVE  Inv'
<1> DEFINE out == fixpoint_mul(val, r, a, b)
<1>1. val \in [Pointers -> Numbers]
  BY DEF Inv
<1>2. out.mem \in [Pointers -> Numbers] /\ Multiplies(out, r, val[a], val[b])
  BY <1>1, MultipliesValues
<1> HIDE DEF out
<1>3. /\ val' = out.mem
      /\ call' = [op |-> "mul", left |-> val[a], right |-> val[b], result |-> out.mem[r],
                  status |-> out.status, inPlace |-> r \in {a, b}]
  BY DEF Mul, Returns, out
<1>4. ProductExact'
  BY <1>2, <1>3 DEF ProductExact, Multiplies
<1>5. SumExact' /\ CompareExact'
  BY <1>3 DEF SumExact, CompareExact
<1> QED
  BY <1>2, <1>3, <1>4, <1>5 DEF Inv, Exact

LEMMA NegateStep ==
  ASSUME Inv, NEW r \in Pointers, Negate(r)
  PROVE  Inv'
<1>1. val' = [val EXCEPT ![r] = fixpoint_negate(@)] /\ call'.op = "negate"
  BY DEF Negate, Returns
<1>2. fixpoint_negate(val[r]) \in Numbers
  BY Negated DEF Inv
<1>3. val' \in [Pointers -> Numbers]
  BY <1>1, <1>2 DEF Inv
<1>4. SumExact' /\ ProductExact' /\ CompareExact'
  BY <1>1 DEF SumExact, ProductExact, CompareExact
<1> QED
  BY <1>3, <1>4 DEF Inv, Exact

LEMMA CompareStep ==
  ASSUME Inv, NEW a \in Pointers, NEW b \in Pointers,
         Compare(a, b) \/ CompareAbsolute(a, b)
  PROVE  Inv'
<1>1. val[a] \in Numbers /\ val[b] \in Numbers /\ val' = val
  BY DEF Inv, Compare, CompareAbsolute, Returns
<1>2. /\ call'.op \in {"compare", "compareAbsoluteVal"}
      /\ call'.op = "compare" => /\ call'.left = val[a] /\ call'.right = val[b]
                                 /\ call'.status = fixpoint_compare(val[a], val[b])
  BY DEF Compare, CompareAbsolute, Returns
<1>3. CompareExact'
  BY <1>1, <1>2, ComparesValues DEF CompareExact
<1>4. SumExact' /\ ProductExact'
  BY <1>2 DEF SumExact, ProductExact
<1> QED
  BY <1>1, <1>3, <1>4 DEF Inv, Exact

LEMMA StepInv == Inv /\ [FixNext]_fixVars => Inv'
<1> SUFFICES ASSUME Inv, [FixNext]_fixVars
             PROVE  Inv'
  OBVIOUS
<1>1. CASE GoesOn
  <2>1. call'.op = "none" /\ val' = val
    BY <1>1 DEF GoesOn, NoCall
  <2>2. SumExact' /\ ProductExact' /\ CompareExact'
    BY <2>1 DEF SumExact, ProductExact, CompareExact
  <2> QED
    BY <2>1, <2>2 DEF Inv, Exact
<1>2. CASE UNCHANGED fixVars
  BY <1>2 DEF fixVars, Inv, Exact, SumExact, ProductExact, CompareExact, IsSum, Addend
<1> QED
  BY <1>1, <1>2, AddStep, SubStep, MulStep, NegateStep, CompareStep DEF FixNext

LEMMA Invariant == FixSpec => []Inv
BY InitInv, StepInv, PTL DEF FixSpec

\* A sum or difference that is not written over an operand of its sign is the
\* exact one or reports that it overflowed (fixpoint_add, fixpoint_sub).
THEOREM SumsAreExact == FixSpec => []SumExact
<1>1. Inv => SumExact
  BY DEF Inv, Exact
<1> QED
  BY <1>1, Invariant, PTL

\* A product is the middle of the exact one, and what it lost is reported
\* (fixpoint_mul).
THEOREM ProductsAreExact == FixSpec => []ProductExact
<1>1. Inv => ProductExact
  BY DEF Inv, Exact
<1> QED
  BY <1>1, Invariant, PTL

\* Comparison is that of the numbers (fixpoint_compare).
THEOREM ComparisonsAreExact == FixSpec => []CompareExact
<1>1. Inv => CompareExact
  BY DEF Inv, Exact
<1> QED
  BY <1>1, Invariant, PTL
------------------------------------------------------------------------------
(* Conversion to text and back *)

\* A set of natural numbers has a least element, which is how proofs by
\* induction are made here.
LEMMA LeastElement ==
  ASSUME NEW T, T \subseteq Nat, T # {}
  PROVE  \E m \in T : \A k \in T : m <= k
<1> DEFINE R == OpToRel(<, Nat)
<1>1. IsWellFoundedOn(R, Nat)
  BY NatLessThanWellFounded
<1>2. \A k, m \in Nat : k < m => <<k, m>> \in R
  BY DEF OpToRel
<1> HIDE DEF R
<1>3. PICK m \in T : \A k \in T : <<k, m>> \notin R
  BY <1>1, WFMin
<1>4. ASSUME NEW k \in T
      PROVE  m <= k
  <2>1. k \in Nat /\ m \in Nat
    OBVIOUS
  <2>2. ~(k < m)
    BY <1>2, <1>3, <2>1
  <2> QED
    BY <2>1, <2>2
<1> QED
  BY <1>4

LEMMA Induction ==
  ASSUME NEW S, 0 \in S, \A n \in Nat : n \in S => n + 1 \in S
  PROVE  \A n \in Nat : n \in S
<1> DEFINE T == Nat \ S
<1> SUFFICES ASSUME T # {}
             PROVE  FALSE
  OBVIOUS
<1>1. PICK m \in T : \A k \in T : m <= k
  BY LeastElement
<1>2. m - 1 \in Nat
  BY <1>1
<1>3. m - 1 \in S
  BY <1>1, <1>2
<1> QED
  BY <1>1, <1>2, <1>3

LEMMA PowerIs ==
  ASSUME HexParameters
  PROVE  /\ Power[0] = 1
         /\ \A n \in Nat : /\ Power[n + 1] = Radix * Power[n]
                           /\ Power[n] \in Nat /\ Power[n] >= 1
<1> DEFINE Upto(n) == [0..n -> Nat]
           Starts(f) == f[0] = 1
           Goes(f, n) == \A i \in 1..n : f[i] = Radix * f[i - 1]
           S == {n \in Nat : \E f \in Upto(n) : Starts(f) /\ Goes(f, n)}
<1>0. Radix \in Nat /\ Radix >= 2
  BY DEF HexParameters
<1>1. \A n \in Nat : n \in S
  <2>1. 0 \in S
    <3>1. [i \in 0..0 |-> 1] \in Upto(0)
      OBVIOUS
    <3>2. Starts([i \in 0..0 |-> 1]) /\ Goes([i \in 0..0 |-> 1], 0)
      OBVIOUS
    <3> QED
      BY <3>1, <3>2
  <2>2. ASSUME NEW n \in Nat, n \in S
        PROVE  n + 1 \in S
    <3>1. PICK f \in Upto(n) : Starts(f) /\ Goes(f, n)
      BY <2>2
    <3> DEFINE g == [i \in 0..(n + 1) |-> IF i = n + 1 THEN Radix * f[n] ELSE f[i]]
    <3>2. g \in Upto(n + 1)
      <4>1. f[n] \in Nat /\ Radix * f[n] \in Nat
        BY <1>0, <3>1
      <4> QED
        BY <3>1, <4>1
    <3>3. Starts(g) /\ Goes(g, n + 1)
      BY <3>1
    <3> HIDE DEF g, Upto, Starts, Goes
    <3> QED
      BY <3>2, <3>3
  <2> HIDE DEF S
  <2> QED
    BY <2>1, <2>2, Induction
<1>2. \A n, m \in Nat : \A f \in Upto(n), g \in Upto(m) :
        Starts(f) /\ Goes(f, n) /\ Starts(g) /\ Goes(g, m)
          => \A i \in Nat : i <= n /\ i <= m => f[i] = g[i]
  <2> SUFFICES ASSUME NEW n \in Nat, NEW m \in Nat, NEW f \in Upto(n), NEW g \in Upto(m),
                      Starts(f) /\ Goes(f, n), Starts(g) /\ Goes(g, m)
               PROVE  \A i \in Nat : i <= n /\ i <= m => f[i] = g[i]
    OBVIOUS
  <2> DEFINE E == {i \in Nat : i <= n /\ i <= m => f[i] = g[i]}
  <2>1. 0 \in E
    OBVIOUS
  <2>2. ASSUME NEW i \in Nat, i \in E
        PROVE  i + 1 \in E
    <3> SUFFICES ASSUME i + 1 <= n, i + 1 <= m
                 PROVE  f[i + 1] = g[i + 1]
      OBVIOUS
    <3>1. f[i] = g[i] /\ i + 1 \in 1..n /\ i + 1 \in 1..m /\ (i + 1) - 1 = i
      BY <2>2
    <3> QED
      BY <3>1
  <2>3. \A i \in Nat : i \in E
    <3> HIDE DEF E
    <3> QED
      BY <2>1, <2>2, Induction
  <2> QED
    BY <2>3
<1> DEFINE At(n) == CHOOSE f \in Upto(n) : Starts(f) /\ Goes(f, n)
           p == [n \in Nat |-> At(n)[n]]
<1>3. \A n \in Nat : At(n) \in Upto(n) /\ Starts(At(n)) /\ Goes(At(n), n)
  BY <1>1
<1>4. p[0] = 1 /\ \A n \in Nat : p[n + 1] = Radix * p[n] /\ p[n] \in Nat
  <2> HIDE DEF At
  <2>1. p[0] = 1
    BY <1>3
  <2>2. ASSUME NEW n \in Nat
        PROVE  p[n + 1] = Radix * p[n] /\ p[n] \in Nat
    <3>1. At(n + 1)[n] = At(n)[n]
      <4>1. n + 1 \in Nat /\ n <= n /\ n <= n + 1
        OBVIOUS
      <4>2. PICK f \in Upto(n) : f = At(n) /\ Starts(f) /\ Goes(f, n)
        BY <1>3
      <4>3. PICK g \in Upto(n + 1) : g = At(n + 1) /\ Starts(g) /\ Goes(g, n + 1)
        BY <1>3, <4>1
      <4> HIDE DEF Upto, Starts, Goes
      <4> QED
        BY <1>2, <4>1, <4>2, <4>3
    <3>2. At(n + 1)[n + 1] = Radix * At(n + 1)[n]
      <4>1. n + 1 \in 1..(n + 1) /\ (n + 1) - 1 = n
        OBVIOUS
      <4> QED
        BY <1>3, <4>1
    <3>3. At(n)[n] \in Nat
      BY <1>3
    <3> QED
      BY <3>1, <3>2, <3>3
  <2> QED
    BY <2>1, <2>2
<1>5. p = [n \in Nat |-> IF n = 0 THEN 1 ELSE Radix * p[n - 1]]
  <2>1. ASSUME NEW n \in Nat
        PROVE  p[n] = IF n = 0 THEN 1 ELSE Radix * p[n - 1]
    <3> HIDE DEF p
    <3>1. CASE n = 0
      BY <1>4, <3>1
    <3>2. CASE n # 0
      <4>1. n - 1 \in Nat /\ (n - 1) + 1 = n
        BY <3>2
      <4> QED
        BY <1>4, <3>2, <4>1
    <3> QED
      BY <3>1, <3>2
  <2>2. p = [n \in Nat |-> p[n]]
    <3> HIDE DEF At
    <3> QED
      OBVIOUS
  <2> HIDE DEF p
  <2> QED
    BY <2>1, <2>2
<1>6. Power = [n \in Nat |-> IF n = 0 THEN 1 ELSE Radix * Power[n - 1]]
  <2> HIDE DEF p
  <2> QED
    BY <1>5 DEF Power
<1>7. Power[0] = 1 /\ \A n \in Nat : Power[n + 1] = Radix * Power[n]
  BY <1>6
<1> DEFINE P == {n \in Nat : Power[n] \in Nat /\ Power[n] >= 1}
<1>8. 0 \in P
  BY <1>7
<1>9. ASSUME NEW n \in Nat, n \in P
      PROVE  n + 1 \in P
  <2>1. 1 * Power[n] <= Radix * Power[n]
    BY <1>0, <1>9, Monotonic
  <2> QED
    BY <1>0, <1>7, <1>9, <2>1
<1>10. \A n \in Nat : n \in P
  <2> HIDE DEF P
  <2> QED
    BY <1>8, <1>9, Induction
<1> QED
  BY <1>7, <1>10

------------------------------------------------------------------------------
(* Digits and the number they stand for *)

\* v[i] is the number of the first i of n digits.
Horner(v, d, n) ==
  /\ v \in [0..n -> Nat] /\ v[0] = 0
  /\ \A i \in 1..n : v[i] = v[i - 1] * Radix + d[i]

LEMMA HornerExists ==
  ASSUME HexParameters, NEW n \in Nat, NEW d, \A i \in 1..n : d[i] \in Nat
  PROVE  \E v : Horner(v, d, n)
<1> DEFINE S == {m \in Nat : m <= n => \E v : Horner(v, d, m)}
<1>0. Radix \in Nat
  BY DEF HexParameters
<1>1. 0 \in S
  <2>1. Horner([i \in 0..0 |-> 0], d, 0)
    BY DEF Horner
  <2> QED
    BY <2>1
<1>2. ASSUME NEW m \in Nat, m \in S
      PROVE  m + 1 \in S
  <2> SUFFICES ASSUME m + 1 <= n
               PROVE  \E v : Horner(v, d, m + 1)
    OBVIOUS
  <2>1. PICK v : Horner(v, d, m)
    BY <1>2
  <2> DEFINE w == [i \in 0..(m + 1) |-> IF i = m + 1 THEN v[m] * Radix + d[m + 1] ELSE v[i]]
  <2>2. v \in [0..m -> Nat] /\ v[m] \in Nat /\ d[m + 1] \in Nat
    BY <2>1 DEF Horner
  <2>3. v[m] * Radix + d[m + 1] \in Nat
    <3>1. v[m] * Radix \in Nat
      BY <1>0, <2>2, Products
    <3> QED
      BY <2>2, <3>1
  <2>4. w \in [0..(m + 1) -> Nat]
    <3> SUFFICES ASSUME NEW i \in 0..(m + 1)
                 PROVE  w[i] \in Nat
      OBVIOUS
    <3>1. i # m + 1 => i \in 0..m
      OBVIOUS
    <3> QED
      BY <2>2, <2>3, <3>1
  <2>5. \A i \in 1..(m + 1) : w[i] = w[i - 1] * Radix + d[i]
    BY <2>1 DEF Horner
  <2>6. w[0] = 0
    BY <2>1 DEF Horner
  <2> HIDE DEF w
  <2>7. Horner(w, d, m + 1)
    BY <2>4, <2>5, <2>6 DEF Horner
  <2> QED
    BY <2>7
<1>3. n \in S
  <2> HIDE DEF S
  <2> QED
    BY <1>1, <1>2, Induction
<1> QED
  BY <1>3

LEMMA NumberIs ==
  ASSUME NEW d, Len(d) \in Nat, NEW v, Horner(v, d, Len(d))
  PROVE  NumberOf(d) = v[Len(d)]
<1> DEFINE n == Len(d)
           Solves(g) == g = [i \in 0..n |-> IF i = 0 THEN 0 ELSE g[i - 1] * Radix + d[i]]
           f == CHOOSE g : Solves(g)
<1>1. v \in [0..n -> Nat] /\ v[0] = 0 /\ \A i \in 1..n : v[i] = v[i - 1] * Radix + d[i]
  BY DEF Horner
<1>2. Solves(v)
  <2>1. \A i \in 0..n : v[i] = IF i = 0 THEN 0 ELSE v[i - 1] * Radix + d[i]
    BY <1>1
  <2>2. v = [i \in 0..n |-> v[i]]
    BY <1>1
  <2> HIDE DEF n
  <2> QED
    BY <2>1, <2>2
<1>3. Solves(f)
  BY <1>2
<1>4. NumberOf(d) = f[n]
  BY DEF NumberOf
<1> DEFINE S == {i \in Nat : i <= n => f[i] = v[i]}
<1> HIDE DEF f
<1>5. 0 \in S
  BY <1>1, <1>3
<1>6. ASSUME NEW i \in Nat, i \in S
      PROVE  i + 1 \in S
  <2> SUFFICES ASSUME i + 1 <= n
               PROVE  f[i + 1] = v[i + 1]
    OBVIOUS
  <2>1. i + 1 \in 1..n /\ i + 1 \in 0..n /\ i + 1 # 0 /\ (i + 1) - 1 = i /\ v[i] = f[i]
    BY <1>6
  <2>2. f[i + 1] = f[i] * Radix + d[i + 1]
    BY <1>3, <2>1
  <2> QED
    BY <1>1, <2>1, <2>2
<1>7. \A i \in Nat : i \in S
  <2> HIDE DEF S
  <2> QED
    BY <1>5, <1>6, Induction
<1> QED
  BY <1>4, <1>7

\* Digits 0 at the beginning leave 0, and at the end shift the number.
LEMMA LeadingZeros ==
  ASSUME HexParameters, NEW n \in Nat, NEW d, NEW v, Horner(v, d, n),
         NEW k \in 0..n, \A i \in 1..k : d[i] = 0
  PROVE  \A i \in 0..k : v[i] = 0
<1> DEFINE S == {i \in Nat : i <= k => v[i] = 0}
<1>1. 0 \in S
  BY DEF Horner
<1>2. ASSUME NEW i \in Nat, i \in S
      PROVE  i + 1 \in S
  <2> SUFFICES ASSUME i + 1 <= k
               PROVE  v[i + 1] = 0
    OBVIOUS
  <2>1. i + 1 \in 1..n /\ i + 1 \in 1..k /\ (i + 1) - 1 = i /\ v[i] = 0
    BY <1>2
  <2>2. v[i + 1] = 0 * Radix + 0
    BY <2>1 DEF Horner
  <2> QED
    BY <2>2 DEF HexParameters
<1>3. \A i \in Nat : i \in S
  <2> HIDE DEF S
  <2> QED
    BY <1>1, <1>2, Induction
<1> QED
  BY <1>3

LEMMA TrailingZeros ==
  ASSUME HexParameters, NEW n \in Nat, NEW d, NEW v, Horner(v, d, n),
         NEW k \in 0..n, \A i \in (k + 1)..n : d[i] = 0
  PROVE  v[n] = v[k] * Power[n - k]
<1> DEFINE P(j) == Power[j]
           S == {j \in Nat : k + j <= n => v[k + j] = v[k] * P(j)}
<1>0. v[k] \in Nat /\ Radix \in Nat
  BY DEF Horner, HexParameters
<1>1. 0 \in S
  BY <1>0, PowerIs
<1>2. ASSUME NEW j \in Nat, j \in S
      PROVE  j + 1 \in S
  <2> SUFFICES ASSUME k + (j + 1) <= n
               PROVE  v[k + (j + 1)] = v[k] * P(j + 1)
    OBVIOUS
  <2>1. k + (j + 1) \in 1..n /\ k + (j + 1) \in (k + 1)..n /\ (k + (j + 1)) - 1 = k + j
        /\ k + j <= n
    OBVIOUS
  <2>2. v[k + j] = v[k] * P(j)
    BY <1>2, <2>1
  <2>3. v[k + (j + 1)] = v[k + j] * Radix + 0
    BY <2>1 DEF Horner
  <2>4. P(j + 1) = Radix * P(j) /\ P(j) \in Nat
    BY PowerIs
  <2> HIDE DEF P
  <2> QED
    BY <1>0, <2>2, <2>3, <2>4
<1>3. n - k \in Nat /\ n - k \in S /\ k + (n - k) = n
  <2> HIDE DEF S
  <2> QED
    BY <1>1, <1>2, Induction
<1> QED
  BY <1>3

LEMMA SmallQuotient ==
  ASSUME NEW b \in Nat, NEW n \in 0..(b - 1)
  PROVE  n \div b = 0
OBVIOUS

LEMMA QuotientOfQuotient ==
  ASSUME NEW n \in Nat, NEW p \in Nat, p >= 1, NEW r \in Nat, r >= 1
  PROVE  n \div (r * p) = (n \div p) \div r
<1> DEFINE q == n \div p
           s == n % p
           a == q \div r
           b == q % r
<1>1. q \in Nat /\ s \in 0..(p - 1) /\ n = q * p + s
  <2>1. n \in Int /\ n >= 0
    OBVIOUS
  <2> QED
    BY ONLY <2>1, p \in Nat, p >= 1, DivMod
<1> HIDE DEF q, s
<1>2. a \in Nat /\ b \in 0..(r - 1) /\ q = a * r + b
  <2>1. q \in Int /\ q >= 0
    BY <1>1
  <2> QED
    BY ONLY <2>1, r \in Nat, r >= 1, DivMod
<1> HIDE DEF a, b
<1>3. n = a * (r * p) + (b * p + s)
  <2>1. n = (a * r + b) * p + s
    BY <1>1, <1>2
  <2>2. (a * r + b) * p = (a * r) * p + b * p
    BY <1>2, Distributes
  <2>3. (a * r) * p = a * (r * p) /\ a * (r * p) \in Int /\ b * p \in Int
    BY <1>2
  <2> QED
    BY <1>1, <2>1, <2>2, <2>3
<1>4. b * p + s \in 0..(r * p - 1)
  <2>1. (b + 1) * p <= r * p
    BY <1>2, Monotonic
  <2>2. (b + 1) * p = b * p + 1 * p
    BY <1>2, Distributes
  <2>3. b * p \in Nat /\ r * p \in Nat
    BY <1>2, Products
  <2> QED
    BY <1>1, <2>1, <2>2, <2>3
<1>5. r * p \in Nat /\ r * p >= 1
  BY Monotonic
<1>6. n \div (r * p) = a
  <2> DEFINE m == r * p
             t == b * p + s
  <2>1. m \in Nat /\ m >= 1 /\ t \in 0..(m - 1) /\ n = a * m + t
    BY <1>3, <1>4, <1>5
  <2> HIDE DEF m, t
  <2> QED
    BY <1>2, <2>1, DivModUnique DEF m
<1> QED
  BY <1>6 DEF a, q

\* The digits of a half stand for it.
LEMMA DigitsOfHalf ==
  ASSUME HexParameters, NEW n \in HexHalves
  PROVE  /\ DigitsOf(n) \in [1..Width -> Digits]
         /\ \E v : Horner(v, DigitsOf(n), Width) /\ v[Width] = n
<1> DEFINE P(j) == Power[j]
           d == DigitsOf(n)
           v == [i \in 0..Width |-> n \div P(Width - i)]
<1>1. Radix \in Nat /\ Radix >= 2 /\ Width \in Nat /\ Width >= 1
  BY DEF HexParameters
<1>2. \A j \in Nat : P(j) \in Nat /\ P(j) >= 1 /\ P(j + 1) = Radix * P(j)
  BY PowerIs
<1>3. n \in Nat /\ n < P(Width)
  BY <1>1, <1>2 DEF HexHalves
<1>4. d = [i \in 1..Width |-> (n \div P(Width - i)) % Radix]
  BY DEF DigitsOf
<1> HIDE DEF P, d
<1>5. ASSUME NEW i \in 0..Width
      PROVE  n \div P(Width - i) \in Nat
  <2>1. Width - i \in Nat
    BY <1>1
  <2> QED
    <3>1. P(Width - i) \in Nat /\ P(Width - i) >= 1
      BY <1>2, <2>1
    <3>2. PICK p \in Nat : p = P(Width - i) /\ p >= 1
      BY <3>1
    <3>3. n \in Int /\ n >= 0
      BY <1>3
    <3>4. n \div p \in Nat
      BY <3>2, <3>3, DivMod
    <3> QED
      BY <3>2, <3>4
<1>6. d \in [1..Width -> Digits]
  <2>1. ASSUME NEW i \in 1..Width
        PROVE  (n \div P(Width - i)) % Radix \in Digits
    <3>1. n \div P(Width - i) \in Nat
      BY <1>5
    <3> QED
      BY <1>1, <3>1, DivMod DEF Digits
  <2> QED
    BY <1>4, <2>1
<1>7. v \in [0..Width -> Nat]
  BY <1>5
<1>8. v[0] = 0
  <2>1. P(Width) \in Nat /\ n \in 0..(P(Width) - 1)
    BY <1>1, <1>2, <1>3
  <2>2. n \div P(Width) = 0
    BY <2>1, SmallQuotient
  <2>3. Width - 0 = Width /\ 0 \in 0..Width
    BY <1>1
  <2> QED
    BY <2>2, <2>3
<1>9. ASSUME NEW i \in 1..Width
      PROVE  v[i] = v[i - 1] * Radix + d[i]
  <2> DEFINE j == Width - i
             q == n \div P(j)
  <2>1. j \in Nat /\ Width - (i - 1) = j + 1 /\ i \in 0..Width /\ i - 1 \in 0..Width
    BY <1>1
  <2>2. v[i] = q /\ v[i - 1] = n \div P(j + 1) /\ d[i] = q % Radix
    BY <1>4, <2>1
  <2>3. n \div P(j + 1) = q \div Radix
    <3>1. P(j + 1) = Radix * P(j)
      BY <1>2, <2>1
    <3> HIDE DEF j
    <3> QED
      BY <1>1, <1>2, <1>3, <2>1, <3>1, QuotientOfQuotient
  <2>4. q \in Nat
    BY <1>5, <2>1
  <2> HIDE DEF q
  <2> HIDE DEF v, j
  <2>5. q = (q \div Radix) * Radix + (q % Radix)
    BY <1>1, <2>4, DivMod
  <2>6. v[i - 1] = q \div Radix
    BY <2>2, <2>3
  <2> QED
    BY <2>2, <2>5, <2>6
<1>10. v[Width] = n
  <2>1. Width - Width = 0 /\ Width \in 0..Width
    BY <1>1
  <2>2. P(0) = 1
    BY PowerIs DEF P
  <2>3. n \div 1 = n
    BY <1>3
  <2> QED
    BY <2>1, <2>2, <2>3
<1>11. Horner(v, d, Width)
  BY <1>7, <1>8, <1>9 DEF Horner
<1> HIDE DEF v
<1> QED
  BY <1>6, <1>10, <1>11 DEF d

\* A number of Width digits is a half, and these are its digits.
LEMMA NumberOfDigits ==
  ASSUME HexParameters, NEW p \in [1..Width -> Digits], NEW v, Horner(v, p, Width)
  PROVE  v[Width] \in HexHalves /\ DigitsOf(v[Width]) = p
<1> DEFINE P(j) == Power[j]
<1>1. Radix \in Nat /\ Radix >= 2 /\ Width \in Nat /\ Width >= 1
  BY DEF HexParameters
<1>2. \A j \in Nat : P(j) \in Nat /\ P(j) >= 1 /\ P(j + 1) = Radix * P(j)
  BY PowerIs
<1>3. P(0) = 1
  BY PowerIs
<1>4. v \in [0..Width -> Nat] /\ v[0] = 0
      /\ \A i \in 1..Width : v[i] = v[i - 1] * Radix + p[i]
  BY DEF Horner
<1>5. \A i \in 1..Width : p[i] \in 0..(Radix - 1)
  BY DEF Digits
<1> HIDE DEF P
<1> DEFINE S == {i \in Nat : i <= Width => v[i] < P(i)}
           T == {k \in Nat : k <= Width => v[Width] \div P(k) = v[Width - k]}
<1>6. \A i \in Nat : i \in S
  <2>1. 0 \in S
    BY <1>3, <1>4
  <2>2. ASSUME NEW i \in Nat, i \in S
        PROVE  i + 1 \in S
    <3> SUFFICES ASSUME i + 1 <= Width
                 PROVE  v[i + 1] < P(i + 1)
      OBVIOUS
    <3>1. i + 1 \in 1..Width /\ i \in 0..Width /\ (i + 1) - 1 = i /\ v[i] < P(i)
      BY <1>1, <2>2
    <3>2. v[i] \in Nat /\ v[i + 1] = v[i] * Radix + p[i + 1] /\ p[i + 1] \in 0..(Radix - 1)
      BY <1>4, <1>5, <3>1
    <3>3. PICK q \in Nat : q = P(i) /\ P(i + 1) = Radix * q
      BY <1>2
    <3>4. PICK m \in Nat : m = v[i] /\ m + 1 <= q
      BY <3>1, <3>2, <3>3
    <3>5. (m + 1) * Radix <= q * Radix /\ (m + 1) * Radix = m * Radix + 1 * Radix
      BY <1>1, <3>4, Monotonic, Distributes
    <3>6. q * Radix = Radix * q /\ m * Radix \in Int /\ Radix * q \in Int /\ 1 * Radix = Radix
      BY <1>1
    <3>7. v[i + 1] = m * Radix + p[i + 1]
      BY <3>2, <3>4
    <3> QED
      BY <1>1, <3>2, <3>3, <3>5, <3>6, <3>7
  <2> HIDE DEF S
  <2> QED
    BY <2>1, <2>2, Induction
<1>7. \A k \in Nat : k \in T
  <2>1. 0 \in T
    <3>1. v[Width] \in Nat /\ Width - 0 = Width
      BY <1>1, <1>4
    <3>2. v[Width] \div 1 = v[Width]
      BY <3>1
    <3> QED
      BY <1>3, <3>1, <3>2
  <2>2. ASSUME NEW k \in Nat, k \in T
        PROVE  k + 1 \in T
    <3> SUFFICES ASSUME k + 1 <= Width
                 PROVE  v[Width] \div P(k + 1) = v[Width - (k + 1)]
      OBVIOUS
    <3> DEFINE i == Width - k
    <3>1. i \in 1..Width /\ i - 1 \in 0..Width /\ Width - (k + 1) = i - 1
          /\ v[Width] \div P(k) = v[i]
      BY <1>1, <2>2
    <3>2. v[Width] \in Nat /\ v[i - 1] \in Nat /\ v[i] = v[i - 1] * Radix + p[i]
          /\ p[i] \in 0..(Radix - 1)
      BY <1>1, <1>4, <1>5, <3>1
    <3> HIDE DEF i
    <3>3. PICK q \in Nat : q = P(k) /\ q >= 1 /\ P(k + 1) = Radix * q
      BY <1>2
    <3>4. PICK m \in Nat : m = v[Width]
      BY <3>2
    <3>5. m \div (Radix * q) = (m \div q) \div Radix
      BY <1>1, <3>3, QuotientOfQuotient
    <3>6. v[i] \div Radix = v[i - 1]
      <4>1. v[i] \in Nat
        BY <1>4, <3>1
      <4>2. PICK a \in Nat, b \in 0..(Radix - 1), c \in Nat :
              a = v[i - 1] /\ b = p[i] /\ c = v[i] /\ c = a * Radix + b
        BY <3>2, <4>1
      <4>3. (a * Radix + b) \div Radix = a
        BY <1>1, DivModUnique
      <4> QED
        BY <4>2, <4>3
    <3> QED
      BY <3>1, <3>3, <3>4, <3>5, <3>6
  <2> HIDE DEF T
  <2> QED
    BY <2>1, <2>2, Induction
<1>8. v[Width] \in HexHalves
  <2>1. v[Width] \in Nat /\ v[Width] < P(Width) /\ P(Width) \in Nat
    BY <1>1, <1>2, <1>4, <1>6
  <2> QED
    BY <2>1 DEF HexHalves, P
<1>9. ASSUME NEW i \in 1..Width
      PROVE  (v[Width] \div P(Width - i)) % Radix = p[i]
  <2>1. Width - i \in Nat /\ Width - i <= Width /\ Width - (Width - i) = i
    BY <1>1
  <2>2. v[Width] \div P(Width - i) = v[i]
    BY <1>7, <2>1
  <2>3. v[i - 1] \in Nat /\ v[i] = v[i - 1] * Radix + p[i] /\ p[i] \in 0..(Radix - 1)
    <3>1. i - 1 \in 0..Width
      BY <1>1
    <3> QED
      BY <1>4, <1>5, <3>1
  <2>4. v[i] % Radix = p[i]
    <3>1. v[i] \in Nat
      BY <1>4
    <3>2. PICK a \in Nat, b \in 0..(Radix - 1), c \in Nat :
            a = v[i - 1] /\ b = p[i] /\ c = v[i] /\ c = a * Radix + b
      BY <2>3, <3>1
    <3>3. (a * Radix + b) % Radix = b
      BY <1>1, DivModUnique
    <3> QED
      BY <3>2, <3>3
  <2> QED
    BY <2>2, <2>4
<1>10. DigitsOf(v[Width]) = [i \in 1..Width |-> (v[Width] \div P(Width - i)) % Radix]
  BY DEF DigitsOf, P
<1> QED
  BY <1>8, <1>9, <1>10

------------------------------------------------------------------------------
(* Zeros are left out and come back *)

LEMMA GreatestElement ==
  ASSUME NEW n \in Nat, NEW T, T \subseteq 1..n, T # {}
  PROVE  \E m \in T : \A k \in T : k <= m
<1> DEFINE U == {j \in Nat : n - j \in T}
<1>1. U # {}
  <2>1. PICK k \in T : TRUE
    OBVIOUS
  <2>2. k \in 1..n /\ n - k \in Nat /\ n - (n - k) = k
    BY <2>1
  <2>3. n - k \in U
    BY <2>2
  <2> QED
    BY <2>3
<1>2. U \subseteq Nat
  OBVIOUS
<1>3. PICK j \in U : \A i \in U : j <= i
  <2> HIDE DEF U
  <2> QED
    BY <1>1, <1>2, LeastElement
<1>4. ASSUME NEW k \in T
      PROVE  k <= n - j
  <2>1. k \in 1..n /\ n - k \in Nat /\ n - (n - k) = k
    OBVIOUS
  <2>2. n - k \in U
    BY <2>1
  <2> QED
    BY <1>3, <2>1, <2>2
<1>5. n - j \in T
  BY <1>3
<1> QED
  BY <1>4, <1>5

\* The digits that are left: those from the first or to the last that is not 0.
LEMMA WithoutLeadingZerosIs ==
  ASSUME HexParameters, NEW d \in [1..Width -> Digits]
  PROVE  \/ (\A i \in 1..Width : d[i] = 0) /\ WithoutLeadingZeros(d) = <<0>>
         \/ \E m \in 1..Width :
              /\ d[m] # 0 /\ \A i \in 1..(m - 1) : d[i] = 0
              /\ WithoutLeadingZeros(d) = [i \in 1..(Width - m + 1) |-> d[i + m - 1]]
<1> DEFINE N == Nonzero(d)
<1>1. Width \in Nat /\ DOMAIN d = 1..Width /\ Len(d) = Width /\ d \in Seq(Digits)
  BY DEF HexParameters
<1>2. N = {i \in 1..Width : d[i] # 0}
  BY <1>1 DEF Nonzero
<1>3. CASE N = {}
  BY <1>2, <1>3 DEF WithoutLeadingZeros
<1>4. CASE N # {}
  <2>1. N \subseteq Nat
    BY <1>1, <1>2
  <2>2. \E m \in N : \A k \in N : m <= k
    <3> HIDE DEF N
    <3> QED
      BY <1>4, <2>1, LeastElement
  <2> DEFINE m == Min(N)
  <2>3. m \in N /\ \A k \in N : m <= k
    BY <2>2 DEF Min
  <2>4. WithoutLeadingZeros(d) = SubSeq(d, m, Width)
    BY <1>1, <1>4 DEF WithoutLeadingZeros
  <2> HIDE DEF m, N
  <2>5. m \in 1..Width /\ d[m] # 0
    BY <1>2, <2>3
  <2>6. \A i \in 1..(m - 1) : d[i] = 0
    BY <1>1, <1>2, <2>3, <2>5
  <2>7. SubSeq(d, m, Width) = [i \in 1..(Width - m + 1) |-> d[i + m - 1]]
    BY <1>1, <2>5
  <2> QED
    BY <2>4, <2>5, <2>6, <2>7
<1> QED
  BY <1>3, <1>4

LEMMA WithoutTrailingZerosIs ==
  ASSUME HexParameters, NEW d \in [1..Width -> Digits]
  PROVE  \/ (\A i \in 1..Width : d[i] = 0) /\ WithoutTrailingZeros(d) = <<0>>
         \/ \E m \in 1..Width :
              /\ d[m] # 0 /\ \A i \in (m + 1)..Width : d[i] = 0
              /\ WithoutTrailingZeros(d) = [i \in 1..m |-> d[i]]
<1> DEFINE N == Nonzero(d)
<1>1. Width \in Nat /\ DOMAIN d = 1..Width /\ Len(d) = Width /\ d \in Seq(Digits)
  BY DEF HexParameters
<1>2. N = {i \in 1..Width : d[i] # 0}
  BY <1>1 DEF Nonzero
<1>3. CASE N = {}
  BY <1>2, <1>3 DEF WithoutTrailingZeros
<1>4. CASE N # {}
  <2>1. N \subseteq 1..Width
    BY <1>1, <1>2
  <2>2. \E m \in N : \A k \in N : k <= m
    <3> HIDE DEF N
    <3> QED
      BY <1>1, <1>4, <2>1, GreatestElement
  <2> DEFINE m == Max(N)
  <2>3. m \in N /\ \A k \in N : k <= m
    BY <2>2 DEF Max
  <2>4. WithoutTrailingZeros(d) = SubSeq(d, 1, m)
    BY <1>1, <1>4 DEF WithoutTrailingZeros
  <2> HIDE DEF m, N
  <2>5. m \in 1..Width /\ d[m] # 0
    BY <1>2, <2>3
  <2>6. \A i \in (m + 1)..Width : d[i] = 0
    BY <1>1, <1>2, <2>3, <2>5
  <2>7. SubSeq(d, 1, m) = [i \in 1..m |-> d[i]]
    BY <1>1, <2>5
  <2> QED
    BY <2>4, <2>5, <2>6, <2>7
<1> QED
  BY <1>3, <1>4

\* A side of a text: digits, not too many.
Side(s) == s \in Seq(Digits) /\ Len(s) <= Width

LEMMA ZeroDigit ==
  ASSUME HexParameters
  PROVE  Side(<<0>>) /\ Len(<<0>>) = 1 /\ NumberOf(<<0>>) = 0
<1> DEFINE v == [i \in 0..1 |-> 0]
<1>1. Radix \in Nat /\ Radix >= 2 /\ Width >= 1 /\ 0 \in Digits
  BY DEF HexParameters, Digits
<1>2. Side(<<0>>) /\ Len(<<0>>) = 1
  BY <1>1 DEF Side
<1>3. Horner(v, <<0>>, 1)
  BY <1>1 DEF Horner
<1>4. v[1] = 0
  OBVIOUS
<1> HIDE DEF v
<1>5. NumberOf(<<0>>) = v[1]
  BY <1>2, <1>3, NumberIs
<1> QED
  BY <1>2, <1>4, <1>5

LEMMA LeadingZerosComeBack ==
  ASSUME HexParameters, NEW n \in HexHalves
  PROVE  LET s == WithoutLeadingZeros(DigitsOf(n)) IN
         /\ Side(s) /\ s # <<>> /\ (Len(s) > 1 => s[1] # 0)
         /\ NumberOf(s) = n
<1> DEFINE d == DigitsOf(n)
           s == WithoutLeadingZeros(d)
<1>1. Width \in Nat
  BY DEF HexParameters
<1>2. d \in [1..Width -> Digits]
  BY DigitsOfHalf
<1>3. PICK v : Horner(v, d, Width) /\ v[Width] = n
  BY DigitsOfHalf
<1> HIDE DEF d
<1>4. CASE (\A i \in 1..Width : d[i] = 0) /\ s = <<0>>
  <2>1. n = 0
    <3>1. Width \in 0..Width
      BY <1>1
    <3> QED
      BY <1>1, <1>3, <1>4, <3>1, LeadingZeros
  <2> QED
    BY <1>4, <2>1, ZeroDigit DEF d
<1>5. CASE \E m \in 1..Width :
             /\ d[m] # 0 /\ \A i \in 1..(m - 1) : d[i] = 0
             /\ s = [i \in 1..(Width - m + 1) |-> d[i + m - 1]]
  <2>1. PICK m \in 1..Width :
          /\ d[m] # 0 /\ \A i \in 1..(m - 1) : d[i] = 0
          /\ s = [i \in 1..(Width - m + 1) |-> d[i + m - 1]]
    BY <1>5
  <2> HIDE DEF s
  <2> DEFINE l == Width - m + 1
             w == [i \in 0..l |-> v[i + m - 1]]
  <2>2. l \in 1..Width /\ l \in Nat /\ m - 1 \in 0..Width
    BY <1>1
  <2>3. s \in Seq(Digits) /\ Len(s) = l /\ s[1] = d[m]
    <3>1. \A i \in 1..l : i + m - 1 \in 1..Width
      BY <1>1
    <3>2. s \in [1..l -> Digits]
      BY <1>2, <2>1, <3>1
    <3> HIDE DEF l
    <3>3. s[1] = d[1 + m - 1] /\ 1 + m - 1 = m
      BY <2>1, <2>2 DEF l
    <3> QED
      BY <2>2, <3>2, <3>3
  <2>4. w[0] = 0
    <3>1. v[m - 1] = 0
      <4>1. m - 1 \in 0..(m - 1)
        BY <1>1
      <4> QED
        BY <1>1, <1>3, <2>1, <2>2, <4>1, LeadingZeros
    <3>2. 0 + m - 1 = m - 1 /\ 0 \in 0..l
      BY <2>2
    <3> QED
      BY <3>1, <3>2
  <2>5. w \in [0..l -> Nat]
    <3>1. \A i \in 0..l : i + m - 1 \in 0..Width
      BY <1>1
    <3> QED
      BY <1>3, <3>1 DEF Horner
  <2>6. ASSUME NEW i \in 1..l
        PROVE  w[i] = w[i - 1] * Radix + s[i]
    <3>1. i + m - 1 \in 1..Width /\ (i + m - 1) - 1 = (i - 1) + m - 1
          /\ i \in 0..l /\ i - 1 \in 0..l
      BY <1>1
    <3>2. v[i + m - 1] = v[(i + m - 1) - 1] * Radix + d[i + m - 1]
      BY <1>3, <3>1 DEF Horner
    <3> HIDE DEF l
    <3>3. s[i] = d[i + m - 1]
      BY <2>1 DEF l
    <3> QED
      BY <3>1, <3>2, <3>3
  <2>7. w[l] = n
    <3>1. l + m - 1 = Width /\ l \in 0..l
      BY <1>1
    <3> QED
      BY <1>3, <3>1
  <2> HIDE DEF w
  <2>8. Horner(w, s, l)
    BY <2>4, <2>5, <2>6 DEF Horner
  <2> HIDE DEF l
  <2>9. NumberOf(s) = n
    BY <2>2, <2>3, <2>7, <2>8, NumberIs
  <2>10. Side(s) /\ s # <<>>
    BY <1>1, <2>2, <2>3 DEF Side
  <2> QED
    BY <2>1, <2>3, <2>9, <2>10 DEF s, d
<1> QED
  BY <1>2, <1>4, <1>5, WithoutLeadingZerosIs

\* The number of digits that begin at the left end of a half.
LeftNumber(s) == NumberOf(s) * Power[Width - Len(s)]

LEMMA TrailingZerosComeBack ==
  ASSUME HexParameters, NEW n \in HexHalves
  PROVE  LET s == WithoutTrailingZeros(DigitsOf(n)) IN
         /\ Side(s) /\ s # <<>> /\ (Len(s) > 1 => s[Len(s)] # 0)
         /\ LeftNumber(s) = n
<1> DEFINE d == DigitsOf(n)
           s == WithoutTrailingZeros(d)
<1>1. Width \in Nat /\ Width >= 1
  BY DEF HexParameters
<1>2. d \in [1..Width -> Digits]
  BY DigitsOfHalf
<1>3. PICK v : Horner(v, d, Width) /\ v[Width] = n
  BY DigitsOfHalf
<1> HIDE DEF d
<1>4. CASE (\A i \in 1..Width : d[i] = 0) /\ s = <<0>>
  <2>1. n = 0
    <3>1. Width \in 0..Width
      BY <1>1
    <3> QED
      BY <1>1, <1>3, <1>4, <3>1, LeadingZeros
  <2>2. LeftNumber(<<0>>) = 0
    <3>1. Width - 1 \in Nat
      BY <1>1
    <3>2. PICK p \in Nat : p = Power[Width - 1]
      BY <3>1, PowerIs
    <3>3. LeftNumber(<<0>>) = 0 * p
      BY <3>2, ZeroDigit DEF LeftNumber
    <3> QED
      BY <3>3
  <2> QED
    BY <1>4, <2>1, <2>2, ZeroDigit DEF d
<1>5. CASE \E m \in 1..Width :
             /\ d[m] # 0 /\ \A i \in (m + 1)..Width : d[i] = 0
             /\ s = [i \in 1..m |-> d[i]]
  <2>1. PICK m \in 1..Width :
          /\ d[m] # 0 /\ \A i \in (m + 1)..Width : d[i] = 0
          /\ s = [i \in 1..m |-> d[i]]
    BY <1>5
  <2> HIDE DEF s
  <2> DEFINE w == [i \in 0..m |-> v[i]]
  <2>2. m \in Nat /\ m \in 0..Width /\ m \in 0..m /\ Width - m \in Nat
    BY <1>1
  <2>3. s \in Seq(Digits) /\ Len(s) = m /\ s[m] = d[m]
    BY <1>1, <1>2, <2>1
  <2>4. w \in [0..m -> Nat] /\ w[0] = 0
    BY <1>1, <1>3 DEF Horner
  <2>5. ASSUME NEW i \in 1..m
        PROVE  w[i] = w[i - 1] * Radix + s[i]
    <3>1. i \in 1..Width /\ i \in 0..m /\ i - 1 \in 0..m
      BY <1>1
    <3>2. v[i] = v[i - 1] * Radix + d[i]
      BY <1>3, <3>1 DEF Horner
    <3> QED
      BY <2>1, <3>1, <3>2
  <2>6. w[m] = v[m]
    BY <2>2
  <2> HIDE DEF w
  <2>7. Horner(w, s, m)
    BY <2>4, <2>5 DEF Horner
  <2>8. NumberOf(s) = v[m]
    BY <2>2, <2>3, <2>6, <2>7, NumberIs
  <2>9. v[Width] = v[m] * Power[Width - m]
    BY <1>1, <1>3, <2>1, <2>2, TrailingZeros
  <2>10. LeftNumber(s) = n
    BY <1>3, <2>3, <2>8, <2>9 DEF LeftNumber
  <2>11. Side(s) /\ s # <<>>
    BY <1>1, <2>3 DEF Side
  <2> QED
    BY <2>1, <2>3, <2>10, <2>11 DEF s, d
<1> QED
  BY <1>2, <1>4, <1>5, WithoutTrailingZerosIs

\* The number of some digits has these digits, but for zeros before them.
LEMMA WholeIsFormatted ==
  ASSUME HexParameters, NEW s, Side(s)
  PROVE  /\ NumberOf(s) \in HexHalves
         /\ s # <<>> /\ (Len(s) > 1 => s[1] # 0)
              => WithoutLeadingZeros(DigitsOf(NumberOf(s))) = s
<1> DEFINE l == Len(s)
           z == Width - l
           d == [i \in 1..Width |-> IF i <= z THEN 0 ELSE s[i - z]]
<1>1. /\ Width \in Nat /\ Width >= 1 /\ Radix \in Nat /\ Radix >= 2 /\ 0 \in Digits
      /\ Digits \subseteq Nat
  BY DEF HexParameters, Digits
<1>2. l \in Nat /\ l <= Width /\ s \in [1..l -> Digits] /\ s \in Seq(Digits)
  BY DEF Side
<1>3. z \in 0..Width
  BY <1>1, <1>2
<1>4. d \in [1..Width -> Digits]
  <2>1. ASSUME NEW i \in 1..Width, i > z
        PROVE  i - z \in 1..l
    BY <1>1, <1>2, <2>1
  <2> QED
    BY <1>1, <1>2, <1>3, <2>1
<1>5. PICK u : Horner(u, s, l)
  BY <1>1, <1>2, HornerExists
<1> DEFINE v == [i \in 0..Width |-> IF i <= z THEN 0 ELSE u[i - z]]
<1>6. u \in [0..l -> Nat] /\ u[0] = 0 /\ \A i \in 1..l : u[i] = u[i - 1] * Radix + s[i]
  BY <1>5 DEF Horner
<1>7. Horner(v, d, Width)
  <2>1. v[0] = 0
    BY <1>1, <1>3
  <2>2. ASSUME NEW i \in 0..Width
        PROVE  v[i] \in Nat
    <3>1. i > z => i - z \in 0..l
      BY <1>1, <1>2
    <3> QED
      BY <1>3, <1>6, <3>1
  <2>3. ASSUME NEW i \in 1..Width
        PROVE  v[i] = v[i - 1] * Radix + d[i]
    <3>1. i \in 0..Width /\ i - 1 \in 0..Width /\ z \in Int
      BY <1>1, <1>3
    <3>2. CASE i <= z
      <4>1. v[i] = 0 /\ v[i - 1] = 0 /\ d[i] = 0
        BY <3>1, <3>2
      <4> HIDE DEF v, d
      <4> QED
        BY <1>1, <4>1
    <3>3. CASE i > z
      <4>1. i - z \in 1..l /\ (i - z) - 1 = (i - 1) - z
        BY <1>1, <1>2, <3>3
      <4>2. v[i] = u[i - z] /\ d[i] = s[i - z]
        BY <3>1, <3>3
      <4>3. v[i - 1] = u[(i - z) - 1]
        <5>1. CASE i - 1 <= z
          <6>1. (i - z) - 1 = 0
            BY <3>1, <3>3, <5>1
          <6> QED
            BY <1>6, <3>1, <5>1, <6>1
        <5>2. CASE i - 1 > z
          BY <3>1, <4>1, <5>2
        <5> QED
          BY <3>1, <5>1, <5>2
      <4>4. u[i - z] = u[(i - z) - 1] * Radix + s[i - z]
        BY <1>6, <4>1
      <4> HIDE DEF v, d, z
      <4> QED
        BY <4>2, <4>3, <4>4
    <3> QED
      BY <3>1, <3>2, <3>3
  <2>4. v \in [0..Width -> Nat]
    BY <2>2
  <2> HIDE DEF v, d
  <2> QED
    BY <2>1, <2>3, <2>4 DEF Horner
<1>8. v[Width] = u[l]
  <2>1. Width \in 0..Width /\ Width - z = l /\ (Width <= z => l = 0)
    BY <1>1, <1>2
  <2> HIDE DEF z, l
  <2> QED
    BY <1>6, <2>1
<1>9. NumberOf(s) = u[l]
  BY <1>2, <1>5, NumberIs
<1> HIDE DEF v
<1>10. NumberOf(s) \in HexHalves /\ DigitsOf(NumberOf(s)) = d
  <2> HIDE DEF d, l
  <2> QED
    BY <1>4, <1>7, <1>8, <1>9, NumberOfDigits
<1>11. ASSUME s # <<>>, Len(s) > 1 => s[1] # 0
       PROVE  WithoutLeadingZeros(d) = s
  <2>1. l >= 1 /\ z + 1 \in 1..Width /\ z \in Nat
    BY <1>1, <1>2, <1>11
  <2>2. d[z + 1] = s[1] /\ \A i \in 1..z : d[i] = 0
    BY <1>1, <1>3, <2>1
  <2>3. CASE (\A i \in 1..Width : d[i] = 0) /\ WithoutLeadingZeros(d) = <<0>>
    <3>1. s[1] = 0
      BY <2>1, <2>2, <2>3
    <3>2. l = 1
      BY <1>2, <1>11, <2>1, <3>1
    <3>3. s = <<0>>
      BY <1>2, <3>1, <3>2
    <3> QED
      BY <2>3, <3>3
  <2>4. CASE \E m \in 1..Width :
               /\ d[m] # 0 /\ \A i \in 1..(m - 1) : d[i] = 0
               /\ WithoutLeadingZeros(d) = [i \in 1..(Width - m + 1) |-> d[i + m - 1]]
    <3>1. PICK m \in 1..Width :
            /\ d[m] # 0 /\ \A i \in 1..(m - 1) : d[i] = 0
            /\ WithoutLeadingZeros(d) = [i \in 1..(Width - m + 1) |-> d[i + m - 1]]
      BY <2>4
    <3>2. m > z
      <4>1. ASSUME m <= z
            PROVE  d[m] = 0
        <5>1. m \in 1..z
          BY <2>1, <4>1
        <5> HIDE DEF d
        <5> QED
          BY <2>2, <5>1
      <4> HIDE DEF d
      <4> QED
        BY <2>1, <3>1, <4>1
    <3>3. s[1] # 0
      <4>1. CASE l > 1
        BY <1>11, <4>1
      <4>2. CASE l = 1
        <5>1. m = z + 1
          BY <1>1, <3>2, <4>2
        <5> HIDE DEF d
        <5> QED
          BY <2>2, <3>1, <5>1
      <4> QED
        BY <1>2, <2>1, <4>1, <4>2
    <3>4. m = z + 1
      <4>1. ASSUME m > z + 1
            PROVE  FALSE
        <5>1. z + 1 \in 1..(m - 1)
          BY <1>1, <2>1, <4>1
        <5>2. d[z + 1] = 0
          BY <3>1, <5>1
        <5> HIDE DEF d
        <5> QED
          BY <2>2, <3>3, <5>2
      <4> HIDE DEF z
      <4> QED
        BY <2>1, <3>2, <4>1
    <3>5. Width - m + 1 = l /\ \A i \in 1..l : i + m - 1 \in 1..Width /\ i + m - 1 > z
                                               /\ (i + m - 1) - z = i
      BY <1>1, <1>2, <3>4
    <3>6. [i \in 1..(Width - m + 1) |-> d[i + m - 1]] = [i \in 1..l |-> s[i]]
      <4>1. \A i \in 1..l : d[i + m - 1] = s[i]
        <5> SUFFICES ASSUME NEW i \in 1..l
                     PROVE  d[i + m - 1] = s[i]
          OBVIOUS
        <5>1. i + m - 1 \in 1..Width /\ ~(i + m - 1 <= z) /\ (i + m - 1) - z = i
          BY <1>1, <1>3, <3>5
        <5> QED
          BY <5>1
      <4> HIDE DEF d, l, z
      <4> QED
        BY <3>5, <4>1
    <3>7. [i \in 1..l |-> s[i]] = s
      BY <1>2
    <3> QED
      BY <3>1, <3>6, <3>7
  <2> HIDE DEF d
  <2> QED
    BY <1>4, <2>3, <2>4, WithoutLeadingZerosIs
<1> QED
  BY <1>10, <1>11

\* The same after the point, but for zeros after them.
LEMMA FracIsFormatted ==
  ASSUME HexParameters, NEW s, Side(s)
  PROVE  /\ LeftNumber(s) \in HexHalves
         /\ s # <<>> /\ (Len(s) > 1 => s[Len(s)] # 0)
              => WithoutTrailingZeros(DigitsOf(LeftNumber(s))) = s
<1> DEFINE l == Len(s)
           d == [i \in 1..Width |-> IF i <= l THEN s[i] ELSE 0]
<1>1. /\ Width \in Nat /\ Width >= 1 /\ 0 \in Digits /\ Digits \subseteq Nat
  BY DEF HexParameters, Digits
<1>2. l \in Nat /\ l <= Width /\ s \in [1..l -> Digits] /\ s \in Seq(Digits)
  BY DEF Side
<1>3. d \in [1..Width -> Digits]
  <2>1. ASSUME NEW i \in 1..Width, i <= l
        PROVE  i \in 1..l
    BY <1>1, <1>2, <2>1
  <2> QED
    BY <1>1, <1>2, <2>1
<1>4. PICK v : Horner(v, d, Width)
  <2> HIDE DEF d
  <2> QED
    BY <1>1, <1>3, HornerExists
<1> DEFINE u == [i \in 0..l |-> v[i]]
<1>5. v \in [0..Width -> Nat] /\ v[0] = 0
      /\ \A i \in 1..Width : v[i] = v[i - 1] * Radix + d[i]
  BY <1>4 DEF Horner
<1>6. Horner(u, s, l)
  <2>1. u \in [0..l -> Nat] /\ u[0] = 0
    BY <1>1, <1>2, <1>5
  <2>2. ASSUME NEW i \in 1..l
        PROVE  u[i] = u[i - 1] * Radix + s[i]
    <3>1. i \in 1..Width /\ i \in 0..l /\ i - 1 \in 0..l
      BY <1>1, <1>2
    <3>2. d[i] = s[i]
      BY <3>1
    <3>3. v[i] = v[i - 1] * Radix + d[i]
      BY <1>5, <3>1
    <3>4. u[i] = v[i] /\ u[i - 1] = v[i - 1]
      BY <3>1
    <3> HIDE DEF u, d
    <3> QED
      BY <3>2, <3>3, <3>4
  <2> HIDE DEF u
  <2> QED
    BY <2>1, <2>2 DEF Horner
<1>7. NumberOf(s) = v[l]
  <2>1. u[l] = v[l]
    BY <1>2
  <2> HIDE DEF u
  <2> QED
    BY <1>2, <1>6, <2>1, NumberIs
<1>8. v[Width] = v[l] * Power[Width - l]
  <2>1. l \in 0..Width
    BY <1>1, <1>2
  <2>2. \A i \in (l + 1)..Width : d[i] = 0
    BY <1>2
  <2> HIDE DEF d, l
  <2> QED
    BY <1>1, <1>4, <2>1, <2>2, TrailingZeros
<1>9. LeftNumber(s) = v[Width]
  BY <1>7, <1>8 DEF LeftNumber
<1>10. LeftNumber(s) \in HexHalves /\ DigitsOf(LeftNumber(s)) = d
  <2> HIDE DEF d, l
  <2> QED
    BY <1>3, <1>4, <1>9, NumberOfDigits
<1>11. ASSUME s # <<>>, Len(s) > 1 => s[Len(s)] # 0
       PROVE  WithoutTrailingZeros(d) = s
  <2>1. l \in 1..Width
    BY <1>1, <1>2, <1>11
  <2>2. d[l] = s[l] /\ \A i \in (l + 1)..Width : d[i] = 0
    BY <1>2, <2>1
  <2>3. CASE (\A i \in 1..Width : d[i] = 0) /\ WithoutTrailingZeros(d) = <<0>>
    <3>1. s[l] = 0
      BY <2>1, <2>2, <2>3
    <3>2. l = 1
      BY <1>2, <1>11, <2>1, <3>1
    <3>3. s = <<0>>
      BY <1>2, <3>1, <3>2
    <3> QED
      BY <2>3, <3>3
  <2>4. CASE \E m \in 1..Width :
               /\ d[m] # 0 /\ \A i \in (m + 1)..Width : d[i] = 0
               /\ WithoutTrailingZeros(d) = [i \in 1..m |-> d[i]]
    <3>1. PICK m \in 1..Width :
            /\ d[m] # 0 /\ \A i \in (m + 1)..Width : d[i] = 0
            /\ WithoutTrailingZeros(d) = [i \in 1..m |-> d[i]]
      BY <2>4
    <3>2. m <= l
      <4>1. ASSUME m > l
            PROVE  m \in (l + 1)..Width
        BY <1>1, <1>2, <4>1
      <4> HIDE DEF d, l
      <4> QED
        BY <1>2, <2>2, <3>1, <4>1
    <3>3. s[l] # 0
      <4>1. CASE l > 1
        BY <1>11, <4>1
      <4>2. CASE l = 1
        <5>1. m = l
          BY <1>1, <3>2, <4>2
        <5> HIDE DEF d
        <5> QED
          BY <2>2, <3>1, <5>1
      <4> QED
        BY <1>2, <2>1, <4>1, <4>2
    <3>4. m = l
      <4>1. ASSUME m < l
            PROVE  l \in (m + 1)..Width
        BY <1>1, <1>2, <4>1
      <4> HIDE DEF d, l
      <4> QED
        BY <1>1, <1>2, <2>2, <3>1, <3>2, <3>3, <4>1
    <3>5. [i \in 1..l |-> d[i]] = [i \in 1..l |-> s[i]]
      <4>1. ASSUME NEW i \in 1..l
            PROVE  d[i] = s[i]
        <5>1. i \in 1..Width /\ i <= l
          BY <1>1, <1>2
        <5> QED
          BY <5>1
      <4> HIDE DEF d, l
      <4> QED
        BY <4>1
    <3>6. [i \in 1..l |-> s[i]] = s
      BY <1>2
    <3> QED
      BY <3>1, <3>4, <3>5, <3>6
  <2> HIDE DEF d
  <2> QED
    BY <1>3, <2>3, <2>4, WithoutTrailingZerosIs
<1> QED
  BY <1>10, <1>11

LEMMA Concatenation ==
  ASSUME NEW D, NEW k \in Nat, NEW z \in Seq(D), NEW s \in Seq(D), Len(z) = k
  PROVE  /\ z \o s \in Seq(D) /\ Len(z \o s) = k + Len(s)
         /\ \A i \in 1..(k + Len(s)) : (z \o s)[i] = IF i <= k THEN z[i] ELSE s[i - k]
OBVIOUS

\* Zeros before some digits do not change their number.
LEMMA ZerosBeforeCountNothing ==
  ASSUME HexParameters, NEW k \in Nat, NEW s \in Seq(Digits)
  PROVE  LET p == [i \in 1..k |-> 0] \o s IN
         p \in Seq(Digits) /\ Len(p) = k + Len(s) /\ NumberOf(p) = NumberOf(s)
<1> DEFINE zeros == [i \in 1..k |-> 0]
           p == zeros \o s
           l == Len(s)
<1>1. 0 \in Digits /\ Digits \subseteq Nat /\ Radix \in Nat
  BY DEF HexParameters, Digits
<1>2. zeros \in Seq(Digits) /\ Len(zeros) = k
  BY <1>1
<1>3. l \in Nat /\ s \in [1..l -> Digits]
  OBVIOUS
<1>4. /\ p \in Seq(Digits) /\ Len(p) = k + l
      /\ \A i \in 1..(k + l) : p[i] = IF i <= k THEN 0 ELSE s[i - k]
  <2>1. \A i \in 1..(k + l) : i <= k => zeros[i] = 0
    BY <1>3
  <2> HIDE DEF zeros
  <2> QED
    BY <1>2, <2>1, Concatenation
<1> HIDE DEF p, l
<1> DEFINE n == k + l
<1>5. n \in Nat /\ k \in 0..n
  BY <1>3
<1>6. PICK v : Horner(v, p, n)
  <2>1. p \in [1..n -> Digits]
    BY <1>4
  <2> HIDE DEF n
  <2>2. \A i \in 1..n : p[i] \in Nat
    BY <1>1, <2>1
  <2> QED
    BY <1>5, <2>2, HornerExists
<1>7. v[k] = 0
  <2>1. \A i \in 1..k : p[i] = 0
    BY <1>3, <1>4
  <2>2. k \in 0..k
    OBVIOUS
  <2> HIDE DEF n
  <2>3. \A i \in 0..k : v[i] = 0
    BY <1>5, <1>6, <2>1, LeadingZeros
  <2> QED
    BY <2>2, <2>3
<1> DEFINE u == [i \in 0..l |-> v[k + i]]
<1>8. Horner(u, s, l)
  <2>1. u \in [0..l -> Nat] /\ u[0] = 0
    BY <1>3, <1>6, <1>7 DEF Horner
  <2>2. ASSUME NEW i \in 1..l
        PROVE  u[i] = u[i - 1] * Radix + s[i]
    <3>1. k + i \in 1..(k + l) /\ (k + i) - 1 = k + (i - 1) /\ i \in 0..l /\ i - 1 \in 0..l
          /\ ~(k + i <= k) /\ (k + i) - k = i
      BY <1>3
    <3>2. p[k + i] = s[i]
      BY <1>4, <3>1
    <3>3. v[k + i] = v[(k + i) - 1] * Radix + p[k + i]
      BY <1>6, <3>1 DEF Horner
    <3> QED
      BY <3>1, <3>2, <3>3
  <2> HIDE DEF u
  <2> QED
    BY <2>1, <2>2 DEF Horner
<1>9. NumberOf(p) = v[k + l]
  BY <1>4, <1>5, <1>6, NumberIs
<1>10. NumberOf(s) = u[l]
  <2> HIDE DEF u
  <2> QED
    BY <1>3, <1>8, NumberIs DEF l
<1>11. u[l] = v[k + l]
  BY <1>3
<1> QED
  BY <1>4, <1>9, <1>10, <1>11 DEF p, l

------------------------------------------------------------------------------
(* The conversions *)

HexSides == [blanks : Nat, plus : BOOLEAN, prefix : BOOLEAN, digits : Seq(Digits)]
HexTexts == [minus : BOOLEAN, space : BOOLEAN, whole : HexSides, point : BOOLEAN,
             frac : HexSides, rest : BOOLEAN]

LEMMA NumReadIs ==
  ASSUME NEW side \in HexSides
  PROVE  /\ Skipped(side) \in Nat /\ Len(side.digits) \in Nat
         /\ NumRead(side) = Skipped(side) + Len(side.digits)
<1>1. side.blanks \in Nat /\ side.digits \in Seq(Digits)
  BY DEF HexSides
<1>2. Plus(side) \in Nat /\ Prefix(side) \in Nat
  BY DEF Plus, Prefix
<1> QED
  BY <1>1, <1>2 DEF Skipped, NumRead

LEMMA PlainSide ==
  ASSUME NEW ds \in Seq(Digits)
  PROVE  /\ DigitSide(ds) \in HexSides /\ DigitSide(ds).digits = ds
         /\ DigitSide(ds).blanks = 0 /\ ~DigitSide(ds).plus /\ ~DigitSide(ds).prefix
         /\ Skipped(DigitSide(ds)) = 0 /\ NumRead(DigitSide(ds)) = Len(ds)
         /\ ds # <<>> => Converts(DigitSide(ds))
<1>1. DigitSide(ds) = [blanks |-> 0, plus |-> FALSE, prefix |-> FALSE, digits |-> ds]
  BY DEF DigitSide
<1>2. Len(ds) \in Nat
  OBVIOUS
<1> QED
  BY <1>1, <1>2 DEF HexSides, Skipped, NumRead, Plus, Prefix, Converts

\* The digits after the point, with zeros for what sscanf skipped.
FracDigits(side) == [i \in 1..Skipped(side) |-> 0] \o side.digits

LEMMA FracOfSide ==
  ASSUME HexParameters, NEW side \in HexSides, NumRead(side) <= Width
  PROVE  /\ Side(FracDigits(side)) /\ Len(FracDigits(side)) = NumRead(side)
         /\ FracOf(side) = LeftNumber(FracDigits(side))
         /\ side.digits # <<>> => /\ FracDigits(side) # <<>>
                                  /\ Last(FracDigits(side)) = Last(side.digits)
<1> DEFINE f == FracDigits(side)
           k == Skipped(side)
<1>1. k \in Nat /\ Len(side.digits) \in Nat /\ NumRead(side) = k + Len(side.digits)
      /\ side.digits \in Seq(Digits)
  BY NumReadIs DEF HexSides
<1>2. f \in Seq(Digits) /\ Len(f) = k + Len(side.digits) /\ NumberOf(f) = NumberOf(side.digits)
  BY <1>1, ZerosBeforeCountNothing DEF FracDigits
<1>3. ASSUME side.digits # <<>>
      PROVE  f # <<>> /\ Last(f) = Last(side.digits)
  <2> DEFINE zeros == [i \in 1..k |-> 0]
  <2>1. zeros \in Seq(Nat) /\ Len(zeros) = k
    BY <1>1
  <2> HIDE DEF zeros
  <2>2. Len(side.digits) >= 1
    BY <1>1, <1>3
  <2>3. f = zeros \o side.digits
    BY DEF FracDigits, zeros
  <2>4. f[k + Len(side.digits)] = side.digits[Len(side.digits)]
    BY <1>1, <2>1, <2>2, <2>3
  <2> QED
    BY <1>1, <1>2, <2>2, <2>4 DEF Last
<1> HIDE DEF f, k
<1> QED
  BY <1>1, <1>2, <1>3 DEF Side, FracOf, LeftNumber, f

\* What is parsed, if a text is accepted.
LEMMA ParsedIsNumber ==
  ASSUME HexParameters, NEW t \in HexTexts, TextAccepted(t)
  PROVE  /\ Parsed(t) \in HexNumbers
         /\ \/ Formatted(Parsed(t)) = Plain(t)
            \/ t.whole.digits = <<>> \/ t.frac.digits = <<>>
            \/ /\ t.minus \/ Skipped(t.whole) > 0
               /\ Len(t.whole.digits) > 1 /\ t.whole.digits[1] = 0
<1> DEFINE x == Parsed(t)
           w == t.whole.digits
           f == FracDigits(t.frac)
<1>1. t.whole \in HexSides /\ t.frac \in HexSides /\ w \in Seq(Digits)
      /\ t.minus \in BOOLEAN
  BY DEF HexTexts, HexSides
<1>2. NumRead(t.whole) <= Width /\ NumRead(t.frac) <= Width /\ t.point = TRUE
      /\ t.space = FALSE /\ t.rest = FALSE
  BY DEF TextAccepted, WholeAccepted, FracAccepted, HexTexts
<1>3. Side(w)
  BY <1>1, <1>2, NumReadIs DEF Side, HexParameters
<1>4. Side(f) /\ Len(f) = NumRead(t.frac) /\ FracOf(t.frac) = LeftNumber(f)
      /\ (t.frac.digits # <<>> => f # <<>> /\ Last(f) = Last(t.frac.digits))
  BY <1>1, <1>2, FracOfSide
<1>5. x.whole = NumberOf(w) /\ x.frac = LeftNumber(f)
      /\ x = [whole |-> x.whole, frac |-> x.frac, negative |-> t.minus]
  BY <1>4 DEF Parsed
<1> HIDE DEF x, w, f
<1>6. x \in HexNumbers
  <2>1. x.whole \in HexHalves /\ x.frac \in HexHalves
    BY <1>3, <1>4, <1>5, WholeIsFormatted, FracIsFormatted
  <2> QED
    BY <1>1, <1>5, <2>1 DEF HexNumbers
<1>7. ASSUME w # <<>>, t.frac.digits # <<>>,
             ~((t.minus \/ Skipped(t.whole) > 0) /\ Len(w) > 1 /\ w[1] = 0)
      PROVE  Formatted(x) = Plain(t)
  <2>1. Len(w) > 1 => w[1] # 0
    <3> SUFFICES ASSUME Len(w) > 1, w[1] = 0, ~t.minus, ~(Skipped(t.whole) > 0)
                 PROVE  FALSE
      BY <1>7
    <3>1. t.whole.blanks \in Nat /\ Plus(t.whole) \in Nat /\ Prefix(t.whole) \in Nat
      BY <1>1 DEF HexSides, Plus, Prefix
    <3>2. t.whole.blanks = 0 /\ Plus(t.whole) = 0
      BY <3>1 DEF Skipped
    <3>3. ~t.whole.plus
      BY <3>2 DEF Plus
    <3>4. BeginsWithZero(t)
      BY <1>7, <3>2, <3>3 DEF BeginsWithZero, w
    <3>5. NumRead(t.whole) > 1
      BY <1>1, NumReadIs DEF w
    <3> QED
      BY <3>4, <3>5 DEF TextAccepted, WholeAccepted
  <2>2. Len(f) > 1 => f[Len(f)] # 0
    BY <1>4, <1>7 DEF TextAccepted, FracAccepted, Last
  <2>3. WithoutLeadingZeros(DigitsOf(x.whole)) = w
    BY <1>3, <1>5, <1>7, <2>1, WholeIsFormatted
  <2>4. WithoutTrailingZeros(DigitsOf(x.frac)) = f
    BY <1>4, <1>5, <1>7, <2>2, FracIsFormatted
  <2>5. (x.negative /\ ~IsHexZero(x)) = t.minus
    BY <1>1, <1>5 DEF TextAccepted, x
  <2>6. Plain(t) = [minus |-> t.minus, space |-> FALSE, whole |-> DigitSide(w),
                    point |-> TRUE, frac |-> DigitSide(f), rest |-> FALSE]
    BY <1>2 DEF Plain, w, f, FracDigits
  <2> QED
    BY <2>3, <2>4, <2>5, <2>6 DEF Formatted
<1>8. Parsed(t) = x
  BY DEF x
<1>9. \/ Formatted(x) = Plain(t)
      \/ w = <<>> \/ t.frac.digits = <<>>
      \/ (t.minus \/ Skipped(t.whole) > 0) /\ Len(w) > 1 /\ w[1] = 0
  BY <1>7
<1> QED
  BY <1>6, <1>8, <1>9 DEF w

\* What is formatted is accepted, and parsed to the same number.
LEMMA FormattedIsParsed ==
  ASSUME HexParameters, NEW x \in HexNumbers
  PROVE  LET t == Formatted(x) IN
         /\ t \in HexTexts /\ TextAccepted(t)
         /\ Parsed(t).whole = x.whole /\ Parsed(t).frac = x.frac
         /\ Parsed(t).negative = (x.negative /\ ~IsHexZero(x))
<1> DEFINE t == Formatted(x)
           w == WithoutLeadingZeros(DigitsOf(x.whole))
           f == WithoutTrailingZeros(DigitsOf(x.frac))
<1>1. x.whole \in HexHalves /\ x.frac \in HexHalves /\ x.negative \in BOOLEAN
  BY DEF HexNumbers
<1>2. Side(w) /\ w # <<>> /\ (Len(w) > 1 => w[1] # 0) /\ NumberOf(w) = x.whole
  BY <1>1, LeadingZerosComeBack
<1>3. Side(f) /\ f # <<>> /\ (Len(f) > 1 => f[Len(f)] # 0) /\ LeftNumber(f) = x.frac
  BY <1>1, TrailingZerosComeBack
<1>4. t = [minus |-> x.negative /\ ~IsHexZero(x), space |-> FALSE, whole |-> DigitSide(w),
           point |-> TRUE, frac |-> DigitSide(f), rest |-> FALSE]
  BY DEF Formatted
<1> HIDE DEF w, f, t
<1>5. t.minus = (x.negative /\ ~IsHexZero(x)) /\ t.whole = DigitSide(w)
      /\ t.frac = DigitSide(f) /\ t.point = TRUE /\ t.space = FALSE /\ t.rest = FALSE
  BY <1>4
<1>6. w \in Seq(Digits) /\ f \in Seq(Digits)
  BY <1>2, <1>3 DEF Side
<1>7. t \in HexTexts
  <2>1. (x.negative /\ ~IsHexZero(x)) \in BOOLEAN
    OBVIOUS
  <2>2. DigitSide(w) \in HexSides /\ DigitSide(f) \in HexSides
    BY <1>6, PlainSide
  <2> QED
    BY <1>4, <2>1, <2>2 DEF HexTexts
<1>8. t.whole.digits = w /\ t.frac.digits = f /\ NumRead(t.whole) = Len(w)
      /\ NumRead(t.frac) = Len(f) /\ Converts(t.whole) /\ Converts(t.frac)
      /\ ~t.whole.prefix
  BY <1>2, <1>3, <1>5, <1>6, PlainSide
<1>9. Parsed(t) = [whole |-> x.whole, frac |-> x.frac, negative |-> t.minus]
  BY <1>2, <1>3, <1>8 DEF Parsed, FracOf, LeftNumber
<1>10. IsHexZero(Parsed(t)) <=> IsHexZero(x)
  BY <1>9 DEF IsHexZero
<1>11. WholeAccepted(t)
  BY <1>2, <1>5, <1>8 DEF WholeAccepted, BeginsWithZero, Side
<1>12. FracAccepted(t)
  BY <1>3, <1>5, <1>8 DEF FracAccepted, Side, Last
<1>13. TextAccepted(t)
  BY <1>5, <1>10, <1>11, <1>12 DEF TextAccepted
<1> QED
  BY <1>5, <1>7, <1>9, <1>13 DEF t

\* Numbers and texts are what they look like, and what was accepted is known.
HexInv ==
  /\ number \in HexNumbers /\ origin \in HexNumbers
  /\ text \in HexTexts
  /\ textStep = "done" /\ ok => TextAccepted(text) /\ number = Parsed(text)

LEMMA ZeroIsNumber ==
  ASSUME HexParameters
  PROVE  HexZero \in HexNumbers
<1>1. Width \in Nat /\ \A n \in Nat : Power[n] \in Nat /\ Power[n] >= 1
  BY PowerIs DEF HexParameters
<1>2. Power[Width] \in Nat /\ Power[Width] >= 1
  BY <1>1
<1>3. 0 \in HexHalves
  BY <1>2 DEF HexHalves
<1> QED
  BY <1>3 DEF HexZero, HexNumbers

LEMMA HexInitInv ==
  ASSUME HexParameters, HexInit
  PROVE  HexInv
<1>1. number \in HexNumbers /\ origin \in HexNumbers
  BY ZeroIsNumber DEF HexInit, HexNumbers
<1>2. NoText \in HexTexts
  <2>1. <<>> \in Seq(Digits)
    OBVIOUS
  <2> QED
    BY <2>1, PlainSide DEF NoText, HexTexts
<1>3. ASSUME NEW t \in Texts
      PROVE  t \in HexTexts
  <2>1. \A s \in SeqOf(Digits, Width + 1) : s \in Seq(Digits)
    <3> SUFFICES ASSUME NEW s \in SeqOf(Digits, Width + 1)
                 PROVE  s \in Seq(Digits)
      OBVIOUS
    <3>1. PICK m \in 0..(Width + 1) : s \in [1..m -> Digits]
      BY DEF SeqOf
    <3>2. m \in Nat
      BY DEF HexParameters
    <3> QED
      BY <3>1, <3>2
  <2>2. \A n \in 0..(Width + 1) : n \in Nat
    BY DEF HexParameters
  <2>3. Sides \subseteq HexSides
    BY <2>1, <2>2 DEF Sides, HexSides
  <2> QED
    BY <2>3 DEF Texts, HexTexts
<1>4. text \in HexTexts
  BY <1>2, <1>3 DEF HexInit
<1> QED
  BY <1>1, <1>4 DEF HexInv, HexInit

LEMMA HexStepInv ==
  ASSUME HexParameters, HexInv, [HexNext]_hexVars
  PROVE  HexInv'
<1> USE DEF HexInv
<1>1. CASE Format
  BY <1>1, FormattedIsParsed DEF Format
<1>2. CASE Parse
  <2>1. TextAccepted(text)' <=> TextAccepted(text)
    BY <1>2 DEF Parse
  <2>2. Parsed(text)' = Parsed(text)
    BY <1>2 DEF Parse
  <2> QED
    BY <1>2, <2>1, <2>2, ZeroIsNumber, ParsedIsNumber DEF Parse
<1>3. CASE FormatAgain
  BY <1>3 DEF FormatAgain
<1>4. CASE UNCHANGED hexVars
  BY <1>4 DEF hexVars
<1> QED
  BY <1>1, <1>2, <1>3, <1>4 DEF HexNext

\* A number that is formatted is parsed to the same number, whatever the radix
\* and the digits of a half: fixpoint_parse_hex undoes fixpoint_format_hex.
THEOREM FormattedTextsAreParsed == HexSpec => FormatParses
<1> USE HexAssumption
<1>1. HexInit => HexInv
  BY HexInitInv
<1>2. HexInv /\ [HexNext]_hexVars => HexInv'
  BY HexStepInv
<1>3. HexInv /\ [HexNext]_hexVars =>
        [Parse /\ text = Formatted(origin) =>
           ok' /\ number'.whole = origin.whole /\ number'.frac = origin.frac
               /\ number'.negative = (origin.negative /\ ~IsHexZero(origin))]_hexVars
  <2> SUFFICES ASSUME HexInv, Parse, text = Formatted(origin)
               PROVE  ok' /\ number'.whole = origin.whole /\ number'.frac = origin.frac
                      /\ number'.negative = (origin.negative /\ ~IsHexZero(origin))
    OBVIOUS
  <2> QED
    BY FormattedIsParsed DEF HexInv, Parse
<1> QED
  BY <1>1, <1>2, <1>3, PTL DEF HexSpec, FormatParses, hexVars, hexVars

\* Whatever string fixpoint_parse_hex is given, with all that sscanf skips in it:
\* a text that is accepted is that which fixpoint_format_hex writes for the number
\* that is returned, once white space, plus sign and 0x are dropped before the
\* point and counted as zeros after it, but for sides without digits and zeros
\* before other digits behind a minus sign or behind what was dropped.
THEOREM ParsedTextsAreFormatted == HexSpec => []ParsesNearlyFormatted
<1> USE HexAssumption
<1>1. HexInit => HexInv
  BY HexInitInv
<1>2. HexInv /\ [HexNext]_hexVars => HexInv'
  BY HexStepInv
<1>3. HexInv => ParsesNearlyFormatted
  BY ParsedIsNumber DEF HexInv, ParsesNearlyFormatted
<1> QED
  BY <1>1, <1>2, <1>3, PTL DEF HexSpec, hexVars, hexVars

=================================================================================
