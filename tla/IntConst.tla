------------------------------ MODULE IntConst ------------------------------
(***************************************************************************)
(* The operators of constant expressions over integer literals, as         *)
(* expression_operators_intconst.cpp computes them: on numbers of          *)
(* unlimited precision, each with the size it was written or computed in   *)
(* (Unsized for none) and its sign. The base a literal is printed in is    *)
(* left out, as are real numbers.                                          *)
(***************************************************************************)
EXTENDS Integers

CONSTANTS
  IntBits,  \* the bits of an integer, for the code's 32
  MaxBits   \* a bound on the bits of a number

ASSUME BitsAssumption ==
  /\ IntBits \in Nat \ {0}
  /\ MaxBits \in Nat
  /\ IntBits <= MaxBits

Unsized == -1

Literal(size, sign, value) == [size |-> size, sign |-> sign, value |-> value]
Literals == [size : Int, sign : BOOLEAN, value : Int]

Flag(p) == Literal(1, FALSE, IF p THEN 1 ELSE 0)

Absolute(v) == IF v < 0 THEN -v ELSE v

-----------------------------------------------------------------------------
(* Numbers as bits, in two's complement *)

Bit(v, i) == (v \div 2 ^ i) % 2

\* The number whose bits are b, the one at MaxBits its sign.
Number(b) ==
  LET sum[i \in 0 .. MaxBits] == b[i] * 2 ^ i + (IF i = 0 THEN 0 ELSE sum[i - 1])
  IN  sum[MaxBits] - b[MaxBits] * 2 ^ (MaxBits + 1)

BitAnd(v, w) == Number([i \in 0 .. MaxBits |-> Bit(v, i) * Bit(w, i)])
BitXor(v, w) == Number([i \in 0 .. MaxBits |-> (Bit(v, i) + Bit(w, i)) % 2])
BitOr(v, w)  == -1 - BitAnd(-1 - v, -1 - w)

\* Whether v has an odd number of ones in its low bits.
Odd(v, bits) ==
  LET odd[i \in 0 .. bits] == IF i = 0 THEN 0 ELSE (odd[i - 1] + Bit(v, i - 1)) % 2
  IN  odd[bits] = 1

\* Quotients are cut toward zero, remainders take the sign of the dividend.
Quotient(v, w) ==
  LET q == Absolute(v) \div Absolute(w)
  IN  IF (v < 0) = (w < 0) THEN q ELSE -q

Remainder(v, w) == v - w * Quotient(v, w)

\* A negative count is read as an unsigned long: everything is shifted out.
ShiftRight(v, count) ==
  IF count >= 0 THEN v \div 2 ^ count ELSE IF v < 0 THEN -1 ELSE 0

\* The bits a number of states takes.
StateBits(v) == IF v < 2 THEN 0 ELSE CHOOSE n \in 1 .. MaxBits : 2 ^ (n - 1) < v /\ v <= 2 ^ n

-----------------------------------------------------------------------------
(* Unary operators *)

\* $unsigned. A number without a size is cut to the bits of an integer.
UnsignedFct(x) ==
  IF x.size < 0
  THEN Literal(IntBits, FALSE, x.value % 2 ^ IntBits)
  ELSE Literal(x.size, FALSE, IF x.value < 0 THEN 2 ^ x.size + x.value ELSE x.value)

\* $signed. The cut keeps the sign of the number cut.
SignedFct(x) ==
  LET size == IF x.size < 0 THEN IntBits ELSE x.size
      v    == IF x.size < 0 THEN Remainder(x.value, 2 ^ size) ELSE x.value
  IN  Literal(size, TRUE, IF v >= 2 ^ (size - 1) THEN v - 2 ^ size ELSE v)

Clog2(x)  == Literal(x.size, FALSE, StateBits(x.value))
Uplus(x)  == x
Ulnot(x)  == Literal(x.size, x.sign, IF x.value = 0 THEN 1 ELSE 0)
Unot(x)   == Literal(x.size, x.sign, -1 - x.value)

Uminus(x) == Literal(x.size, TRUE, -x.value)

Uand(x)  == Flag(x.value = IF x.size = Unsized \/ x.sign THEN -1 ELSE 2 ^ x.size - 1)
Uor(x)   == Flag(x.value # 0)
Uxor(x)  == Flag(Odd(x.value, IF x.size = Unsized THEN IntBits ELSE x.size))
Unand(x) == Flag(Uand(x).value = 0)
Unor(x)  == Flag(Uor(x).value = 0)
Uxnor(x) == Flag(Uxor(x).value = 0)

-----------------------------------------------------------------------------
(* Binary operators *)

EitherUnsized(x, y) == x.size = Unsized \/ y.size = Unsized

Wider(x, y) ==
  IF EitherUnsized(x, y) THEN Unsized ELSE IF x.size > y.size THEN x.size ELSE y.size

Times(x, y) ==
  Literal(IF EitherUnsized(x, y) THEN Unsized ELSE x.size + y.size,
          x.sign \/ y.sign, x.value * y.value)

Power(x, y) ==
  Literal(IF EitherUnsized(x, y) THEN Unsized ELSE x.size * y.size,
          x.sign \/ y.sign,
          IF y.value < 0 \/ x.value = 0 THEN 0 ELSE x.value ^ y.value)

\* Mutant: a negative quotient is rounded down.
DivideFloor(x, y) ==
  Literal(x.size, x.sign \/ y.sign,
          IF y.value > 0 THEN x.value \div y.value ELSE (-x.value) \div (-y.value))

Divide(x, y) == Literal(x.size, x.sign \/ y.sign, Quotient(x.value, y.value))
Mod(x, y)    == Literal(y.size, x.sign, Remainder(x.value, y.value))

\* The size of a sum holds its carry.
Carried(x, y) == IF EitherUnsized(x, y) THEN Unsized ELSE Wider(x, y) + 1

Plus(x, y)  == Literal(Carried(x, y), x.sign \/ y.sign, x.value + y.value)
Minus(x, y) == Literal(Carried(x, y), x.sign \/ y.sign, x.value - y.value)

Sll(x, y) ==
  Literal(IF x.size = Unsized THEN Unsized ELSE x.size + y.value, x.sign,
          x.value * 2 ^ y.value)

Narrowed(x, y) == IF x.size = Unsized THEN Unsized ELSE x.size - y.value

\* A negative number is shifted in the bits it takes and two more for its sign.
Srl(x, y) ==
  LET bits == CHOOSE n \in 1 .. MaxBits : 2 ^ (n - 1) <= -x.value /\ -x.value < 2 ^ n
      v    == IF x.value < 0 THEN 2 ^ (bits + 1) + x.value ELSE x.value
  IN  Literal(Narrowed(x, y), x.sign, ShiftRight(v, y.value))

Sra(x, y) == Literal(Narrowed(x, y), x.sign, ShiftRight(x.value, y.value))

LessThan(x, y)     == Flag(x.value < y.value)
GreaterThan(x, y)  == Flag(x.value > y.value)
LessEqual(x, y)    == Flag(x.value <= y.value)
GreaterEqual(x, y) == Flag(x.value >= y.value)
Equal(x, y)        == Flag(x.value = y.value)
NotEqual(x, y)     == Flag(x.value # y.value)

BitwiseAnd(x, y)  == Literal(Wider(x, y), x.sign \/ y.sign, BitAnd(x.value, y.value))
BitwiseXor(x, y)  == Literal(Wider(x, y), x.sign \/ y.sign, BitXor(x.value, y.value))
BitwiseXnor(x, y) == Literal(Wider(x, y), x.sign \/ y.sign, -1 - BitXor(x.value, y.value))
BitwiseOr(x, y)   == Literal(Wider(x, y), x.sign \/ y.sign, BitOr(x.value, y.value))

LogicalAnd(x, y) == Flag(x.value # 0 /\ y.value # 0)
LogicalOr(x, y)  == Flag(x.value # 0 \/ y.value # 0)

-----------------------------------------------------------------------------
(* Selections of a constant *)

Pointer(x, y) == Flag(y.value >= 0 /\ Bit(x.value, y.value) = 1)

\* Mutant: the mask is one bit short.
SliceShort(v, msb, lsb) == (v % 2 ^ msb) \div 2 ^ lsb

Slice(v, msb, lsb) == (v % 2 ^ (msb + 1)) \div 2 ^ lsb

Partselect(x, msb, lsb) ==
  Literal(msb.value - lsb.value + 1, FALSE, Slice(x.value, msb.value, lsb.value))

PartselectMinus(x, msb, width) ==
  Literal(width.value, FALSE, Slice(x.value, msb.value, msb.value - width.value + 1))

PartselectPlus(x, lsb, width) ==
  Literal(width.value, FALSE, Slice(x.value, lsb.value + width.value - 1, lsb.value))

\* What is selected is chosen by the test alone.
Ternary(x, y, z) == IF x.value # 0 THEN y ELSE z
=============================================================================
