------------------------------- MODULE Numbers ------------------------------
(***************************************************************************)
(* The two representations of Starlark's integers (starlark/int.go): those *)
(* of SmallBits bits are small, and their arithmetic is that of machine    *)
(* words of twice the width; the others are big.Ints, which are exact.     *)
(* 32 and 64 in the code.  A number is [big, n]; a number that could be    *)
(* small must be: AsInt32, Hash and indexing go by the representation.     *)
(***************************************************************************)
EXTENDS Integers, Asked

CONSTANTS
  SmallBits,
  Numerals      (* integers computed with                                  *)

ASSUME NumbersAssumption == SmallBits \in Nat \ {0} /\ Numerals \subseteq Int

(* The integer that begins as s and ends with n binary digits d, the last  *)
(* of which is d[0]; 2 ^ k.                                                *)
Numeral(s, d, n) ==
  LET begins[k \in 0 .. n] == IF k = 0 THEN s ELSE 2 * begins[k - 1] + d[n - k]
  IN  begins[n]
Pow2(k) == Numeral(1, [j \in Nat |-> 0], k)

Low(bits) == -Pow2(bits - 1)
High(bits) == Pow2(bits - 1) - 1
InBits(n, bits) == Low(bits) <= n /\ n <= High(bits)
Word(n) == ((n - Low(2 * SmallBits)) % Pow2(2 * SmallBits)) + Low(2 * SmallBits)

Small(n) == [big |-> FALSE, n |-> n]
Big(n) == [big |-> TRUE, n |-> n]

BitLen(n) ==
  LET m == IF n < 0 THEN -n ELSE n
  IN  CHOOSE l \in 0 .. m : m < Pow2(l) /\ \A k \in 0 .. l - 1 : m >= Pow2(k)

(* A wrong test, that goes by the number of bits alone. *)
IsSmallByLength(n) == BitLen(n) < SmallBits

(* MakeInt64 and MakeBigInt; isSmall counts the bits of the magnitude, so  *)
(* the least small number needs a test of its own.                         *)
IsSmall(n) == BitLen(n) < SmallBits \/ (BitLen(n) = SmallBits /\ n = Low(SmallBits))

MakeInt64(n) == IF InBits(n, SmallBits) THEN Small(n) ELSE Big(n)
MakeBigInt(n) == IF IsSmall(n) THEN Small(n) ELSE Big(n)
MakeUint64(n) == IF n <= High(SmallBits) THEN Small(n) ELSE Big(n)
-----------------------------------------------------------------------------
Magnitude(n) == IF n < 0 THEN -n ELSE n
Sign(n) == IF n > 0 THEN 1 ELSE IF n < 0 THEN -1 ELSE 0

(* Division of machine words and of big.Ints (QuoRem), towards zero. *)
Quotient(a, b) ==
  IF a < 0 <=> b < 0 THEN Magnitude(a) \div Magnitude(b) ELSE -(Magnitude(a) \div Magnitude(b))
Remainder(a, b) == a - b * Quotient(a, b)

OnBig(x, y) == x.big \/ y.big

Add(x, y) == IF OnBig(x, y) THEN MakeBigInt(x.n + y.n) ELSE MakeInt64(Word(x.n + y.n))
Sub(x, y) == IF OnBig(x, y) THEN MakeBigInt(x.n - y.n) ELSE MakeInt64(Word(x.n - y.n))
Mul(x, y) == IF OnBig(x, y) THEN MakeBigInt(x.n * y.n) ELSE MakeInt64(Word(x.n * y.n))

(* Div and Mod correct the quotient and the remainder when the signs       *)
(* differ and the division is not exact.                                   *)
Corrects(x, y) == (x.n < 0) # (y.n < 0) /\ Remainder(x.n, y.n) # 0
Div(x, y) ==
  LET quo == Quotient(x.n, y.n) - (IF Corrects(x, y) THEN 1 ELSE 0)
  IN  IF OnBig(x, y) THEN MakeBigInt(quo) ELSE MakeInt64(Word(quo))
Mod(x, y) ==
  LET rem == Remainder(x.n, y.n) + (IF Corrects(x, y) THEN y.n ELSE 0)
  IN  IF OnBig(x, y) THEN MakeBigInt(rem) ELSE Small(rem)

(* The bit operations act on two's complements; those of small numbers are *)
(* small without a test.                                                   *)
BitAt(n, k) == (n \div Pow2(k)) % 2
BitOf(op, a, b) ==
  CASE op = "&" -> a * b
    [] op = "|" -> IF a + b > 0 THEN 1 ELSE 0
    [] op = "^" -> (a + b) % 2
UpToBit(op, a, b, top) ==
  LET at(k) == BitOf(op, BitAt(a, k), BitAt(b, k))
  IN  Numeral(-at(top), [k \in Nat |-> at(k)], top)
OnBits(op, a, b) == UpToBit(op, a, b, BitLen(a) + BitLen(b))
Bits(op, x, y) ==
  IF OnBig(x, y) THEN MakeBigInt(OnBits(op, x.n, y.n)) ELSE Small(OnBits(op, x.n, y.n))
Not(x) == IF x.big THEN MakeBigInt(-x.n - 1) ELSE Small(-x.n - 1)
Lsh(x, k) == MakeBigInt(x.n * Pow2(k))
Rsh(x, k) == MakeBigInt(x.n \div Pow2(k))

(* -x, and abs. *)
Negative(x) == Sub(Small(0), x)
Abs(x) == IF x.n >= 0 THEN x ELSE Negative(x)

(* Cmp; AsInt32, and AsInt of any width, signed or not: <<>> if it fails. *)
Cmp(x, y) == IF OnBig(x, y) THEN Sign(x.n - y.n) ELSE Sign(Word(x.n - y.n))
AsInt32(x) == IF x.big THEN <<>> ELSE <<x.n>>
AsInt(x, bits, signed) ==
  IF (IF signed THEN InBits(x.n, bits) ELSE 0 <= x.n /\ x.n < Pow2(bits)) THEN <<x.n>> ELSE <<>>
-----------------------------------------------------------------------------
(* A program computes with two integers. *)
AskToCompute ==
  \E a, b \in Numerals : question = [kind |-> "compute", a |-> MakeInt64(a), b |-> MakeInt64(b)]
NumbersSpec == AskToCompute /\ NothingElse
-----------------------------------------------------------------------------
Canonical(x) == x.big <=> ~InBits(x.n, SmallBits)

(* Every operation returns the exact result in its one representation: sum *)
(* and product, the quotient rounded down and a remainder with the sign of *)
(* the divisor, shifts as powers of two, and bits that obey De Morgan; and *)
(* a number converts to 32 bits just if it fits.                           *)
ExactlyComputed(x, y) ==
  LET sum == Add(x, y)
      difference == Sub(x, y)
      product == Mul(x, y)
      both == Bits("&", x, y)
      either == Bits("|", x, y)
      one == Bits("^", x, y)
  IN  /\ sum = MakeInt64(x.n + y.n) /\ difference = MakeInt64(x.n - y.n)
      /\ product = MakeInt64(x.n * y.n) /\ Negative(x) = MakeInt64(-x.n)
      /\ y.n # 0 =>
           /\ Div(x, y).n * y.n + Mod(x, y).n = x.n
           /\ Magnitude(Mod(x, y).n) < Magnitude(y.n)
           /\ Sign(Mod(x, y).n) \in {0, Sign(y.n)}
           /\ Canonical(Div(x, y)) /\ Canonical(Mod(x, y))
      /\ Add(both, either) = sum /\ Sub(either, both) = one
      /\ Not(both) = Bits("|", Not(x), Not(y))
      /\ \A r \in {both, either, one, Not(x), Abs(x)} : Canonical(r)
      /\ \A k \in 0 .. 2 : /\ Lsh(x, k) = MakeInt64(x.n * Pow2(k))
                          /\ Rsh(Lsh(x, k), k) = x
                          /\ Rsh(x, k) = Div(x, MakeInt64(Pow2(k)))
      /\ Cmp(x, y) = Sign(x.n - y.n)
      /\ AsInt32(x) = AsInt(x, SmallBits, TRUE)
      /\ x.n >= 0 => MakeUint64(x.n) = x

(* Arithmetic is exact, rounds as the language specification says, and     *)
(* leaves every number in its one representation.                          *)
IntsExact == question.kind = "compute" => ExactlyComputed(question.a, question.b)
=============================================================================
