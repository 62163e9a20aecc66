--------------------------------- MODULE OZQ31 ---------------------------------
(***************************************************************************)
(* OZQ31: a mantissa of NumberWidth bits and a shift.  A program makes     *)
(* numbers and calculates with them; asked is what it would have in the    *)
(* real numbers, a fraction, for the last step that rounds.                *)
(***************************************************************************)
EXTENDS Integers

CONSTANTS
  NumberWidth,  \* 32 in the code
  Floats,       \* the floats of the program, in halves of the smallest mantissa
  NumberRules,
  NoNumber

AllNumberRules == {"float below half", "shifts fit", "not both lowest", "unsigned fits"}

\* The last conjunct is what the powers of two are.
ASSUME NumberAssumption ==
  /\ NumberWidth \in Nat \ {0, 1} /\ Floats \subseteq Int
  /\ \A n \in 0..(2 * NumberWidth) : 2^(n + 1) = 2 * 2^n

VARIABLES left, right, asked

numberVars == <<left, right, asked>>

Point   == NumberWidth - 1        \* 31
Highest == 2^Point - 1            \* INT32_MAX
Lowest  == -(2^Point)             \* INT32_MIN
Numbers == [raw : Lowest..Highest, shift : 0..Point]

\* The value of a number, in units of 2^-Point.
Value(n) == n.raw * 2^n.shift

Magnitude(i) == IF i < 0 THEN -i ELSE i
TowardsZero(i, d) == IF i < 0 THEN -((-i) \div d) ELSE i \div d
\* A conversion to int32_t.
Signed(i) == ((i + 2^Point) % 2^NumberWidth) - 2^Point

(***************************************************************************)
(* Numbers from integers and floats                                        *)
(***************************************************************************)
\* The bits that an integer needs, at most Point.
BitsForMag(i) ==
  IF i = 0 THEN 0
  ELSE IF i >= 2^Point THEN Point
  ELSE CHOOSE b \in 1..Point : i \in 2^(b - 1)..(2^b - 1)

FromInt32(i) ==
  LET shift == BitsForMag(Magnitude(i))
  IN [raw |-> i * 2^(Point - shift), shift |-> shift]

\* A float f is f / 2 units; its integer part decides the shift.
FromFloat(f) ==
  LET shift == BitsForMag(Magnitude(f) \div 2^NumberWidth)
  IN [raw |-> TowardsZero(f, 2 * (IF shift >= Point THEN 2^(Point + 1) ELSE 2^shift)),
      shift |-> shift]

(***************************************************************************)
(* Arithmetic                                                              *)
(***************************************************************************)
Clamp(i) == IF i > Highest THEN Highest ELSE IF i < Lowest THEN Lowest ELSE i

InRange(i) == i \in Lowest..Highest

\* Mutant: the mantissa is halved and the shift stays.
RenormalizedMantissa(i, shift) ==
  IF InRange(i) \/ shift = Point THEN [raw |-> Clamp(i), shift |-> shift]
  ELSE [raw |-> i \div 2, shift |-> shift]

\* A sum has one bit more than its terms, so the loop runs once at most.
Renormalized(i, shift) ==
  IF InRange(i) \/ shift = Point THEN [raw |-> Clamp(i), shift |-> shift]
  ELSE [raw |-> i \div 2, shift |-> shift + 1]

AlignedShift(a, b) == IF a.shift > b.shift THEN a.shift ELSE b.shift
Aligned(n, shift) == n.raw \div 2^(shift - n.shift)

Added(a, b) ==
  LET s == AlignedShift(a, b) IN Renormalized(Aligned(a, s) + Aligned(b, s), s)

Subtracted(a, b) ==
  LET s == AlignedShift(a, b) IN Renormalized(Aligned(a, s) - Aligned(b, s), s)

Multiplied(a, b) ==
  [raw |-> Signed((a.raw * b.raw) \div 2^Point),
   shift |-> IF a.shift + b.shift > Point THEN Point ELSE a.shift + b.shift]

\* The intermediate values have twice the width and do not overflow.
Divided(a, b) ==
  LET sign  == IF (a.raw < 0) # (b.raw < 0) THEN -1 ELSE 1
      x     == Magnitude(Value(a))
      y     == Magnitude(Value(b))
      whole == x \div y
      shift == BitsForMag(whole)
      scaled == x * 2^(Point - shift)
      rounded == (scaled \div y) + (IF 2 * (scaled % y) >= y THEN 1 ELSE 0)
  IN IF b.raw = 0 THEN [raw |-> 0, shift |-> 0]
     ELSE IF whole > Highest THEN [raw |-> IF sign < 0 THEN Lowest ELSE Highest, shift |-> Point]
     ELSE [raw |-> sign * Clamp(rounded), shift |-> shift]

(***************************************************************************)
(* A program that calculates                                               *)
(***************************************************************************)
NumberInit == left = NoNumber /\ right = NoNumber /\ asked = NoNumber

Fraction(i, d) == [num |-> IF d < 0 THEN -i ELSE i, den |-> Magnitude(d)]

Becomes(n, exact) == left' = n /\ right' = NoNumber /\ asked' = exact

FixedWithInt32 ==
  /\ left = NoNumber
  /\ \E i \in Lowest..Highest : Becomes(FromInt32(i), Fraction(i * 2^Point, 1))

FixedWithUnsignedInt ==
  /\ left = NoNumber
  /\ \E i \in 0..(2^NumberWidth - 1) :
       /\ "unsigned fits" \in NumberRules => InRange(i)
       /\ Becomes(FromInt32(Signed(i)), Fraction(i * 2^Point, 1))

FixedWithFloat ==
  /\ left = NoNumber
  /\ \E f \in Floats :
       /\ "float below half" \in NumberRules => Magnitude(f) < 2^(2 * Point)
       /\ Becomes(FromFloat(f), Fraction(f, 2))

FixedWithRaw ==
  \E n \in Numbers :
    \/ left = NoNumber /\ Becomes(n, NoNumber)
    \/ /\ left # NoNumber /\ right = NoNumber /\ asked = NoNumber
       /\ right' = n /\ UNCHANGED <<left, asked>>

\* The program goes on with a result.
UseResult == asked # NoNumber /\ asked' = NoNumber /\ UNCHANGED <<left, right>>

Add ==
  /\ right # NoNumber
  /\ Becomes(Added(left, right), Fraction(Value(left) + Value(right), 1))

Subtract ==
  /\ right # NoNumber
  /\ Becomes(Subtracted(left, right), Fraction(Value(left) - Value(right), 1))

Multiply ==
  /\ right # NoNumber
  /\ "shifts fit" \in NumberRules => left.shift + right.shift <= Point
  /\ "not both lowest" \in NumberRules => left.raw # Lowest \/ right.raw # Lowest
  /\ Becomes(Multiplied(left, right), Fraction(Value(left) * Value(right), 2^Point))

\* Whatever is divided by nothing is nothing.
Divide ==
  /\ right # NoNumber
  /\ Becomes(Divided(left, right),
             IF right.raw = 0 THEN Fraction(0, 1)
             ELSE Fraction(Value(left) * 2^Point, Value(right)))

NumberNext ==
  \/ FixedWithInt32 \/ FixedWithUnsignedInt \/ FixedWithFloat \/ FixedWithRaw
  \/ Add \/ Subtract \/ Multiply \/ Divide \/ UseResult

(***************************************************************************)
(* Type correctness and properties                                         *)
(***************************************************************************)
\* Every mantissa fits its width and every shift is one (factories, add:, sub:).
NumberTypeOK ==
  /\ {left, right} \subseteq Numbers \cup {NoNumber}
  /\ asked # NoNumber => asked.num \in Int /\ asked.den \in Nat \ {0}

\* What is made of an integer or a float, and every sum, difference, product and
\* quotient, is less than one unit of its own last place away from the real result,
\* or the end of the range when that lies outside (factories, add:, sub:, mul:, div:).
ResultExact ==
  asked # NoNumber =>
    LET gap == Value(left) * asked.den - asked.num
    IN CASE asked.num >= 2^Point * 2^Point * asked.den -> left = [raw |-> Highest, shift |-> Point]
         [] asked.num < Lowest * 2^Point * asked.den   -> left = [raw |-> Lowest, shift |-> Point]
         [] OTHER -> Magnitude(gap) < 2^left.shift * asked.den
=============================================================================
