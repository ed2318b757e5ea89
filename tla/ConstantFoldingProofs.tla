----------------------- MODULE ConstantFoldingProofs -----------------------
(***************************************************************************)
(* That computing without a limit gives the integers of the simulator: a   *)
(* number and a word that differ by whole words go on doing so through     *)
(* every operator that commutes with the cut, and an operator that does    *)
(* not is given integers, which are then the same. And that an evaluation  *)
(* ends with a literal for everything that has a meaning.                  *)
(***************************************************************************)
EXTENDS ConstantFolding, TLAPS

-----------------------------------------------------------------------------
(* Words *)

LEMMA Powers == \A n \in 0 .. MaxBits : 2 ^ n \in Int /\ 2 ^ n > 0
BY PowersAssumption, BitsAssumption

LEMMA HalfPositive == Half \in Int /\ Half > 0 /\ WordRange \in Int /\ WordRange > 0
<1>1. IntBits - 1 \in 0 .. MaxBits  BY BitsAssumption
<1> QED  BY <1>1, Powers DEF Half, WordRange

\* A product of positive numbers bounds its factors.
LEMMA ProductAtLeast ==
  ASSUME NEW k \in Int, NEW w \in Int, w > 0
  PROVE  /\ k >= 1 => k * w >= w
         /\ k <= -1 => k * w <= -w
OBVIOUS

LEMMA QuotientOfMultiple ==
  ASSUME NEW k \in Int, NEW w \in Int, w > 0
  PROVE  (k * w) \div w = k
<1> DEFINE d == (k * w) \div w
           r == (k * w) % w
<1>1. d \in Int /\ r \in Int /\ k * w = d * w + r /\ 0 <= r /\ r < w
  OBVIOUS
<1>2. (k - d) * w = r  BY <1>1
<1>3. k - d = 0
  <2> HIDE DEF d, r
  <2>1. k - d \in Int  BY <1>1
  <2>2. ~(k - d >= 1)  BY <2>1, <1>1, <1>2, ProductAtLeast
  <2>3. ~(k - d <= -1)  BY <2>1, <1>1, <1>2, ProductAtLeast
  <2> QED  BY <2>1, <2>2, <2>3
<1> QED  BY <1>3, <1>1

\* Numbers that differ by a multiple of the range are one word.
LEMMA CongruentIntro ==
  ASSUME NEW v \in Int, NEW w \in Int, NEW k \in Int, v - w = k * WordRange
  PROVE  Congruent(v, w)
BY HalfPositive, QuotientOfMultiple DEF Congruent

LEMMA CongruentElim ==
  ASSUME NEW v \in Int, NEW w \in Int, Congruent(v, w)
  PROVE  \E k \in Int : v - w = k * WordRange
<1>1. (v - w) \div WordRange \in Int  BY HalfPositive
<1> QED  BY <1>1 DEF Congruent

\* Two integers that are one word are equal.
LEMMA IntegersEqual ==
  ASSUME NEW v \in Integer, NEW w \in Integer, Congruent(v, w)
  PROVE  v = w
<1>1. v \in Int /\ w \in Int  BY HalfPositive DEF Integer
<1>2. PICK k \in Int : v - w = k * WordRange  BY <1>1, CongruentElim
<1>3. -WordRange < v - w /\ v - w < WordRange  BY HalfPositive DEF Integer, WordRange
<1>4. ~(k >= 1) /\ ~(k <= -1)  BY <1>2, <1>3, <1>1, HalfPositive, ProductAtLeast
<1>5. k = 0  BY <1>4
<1> QED  BY <1>1, <1>2, <1>5, HalfPositive

LEMMA WrapIsInteger ==
  ASSUME NEW v \in Int
  PROVE  Wrap(v) \in Integer
<1>1. (v + Half) % WordRange \in 0 .. WordRange - 1  BY HalfPositive
<1> QED  BY <1>1, HalfPositive DEF Wrap, Integer, WordRange

LEMMA WrapOfInteger ==
  ASSUME NEW v \in Integer
  PROVE  Wrap(v) = v
<1>1. v \in Int /\ 0 <= v + Half /\ v + Half < WordRange  BY HalfPositive DEF Integer, WordRange
<1>2. (v + Half) % WordRange = v + Half  BY <1>1, HalfPositive
<1> QED  BY <1>1, <1>2, HalfPositive DEF Wrap

\* A number is its word, give or take whole words.
LEMMA WrapCongruent ==
  ASSUME NEW v \in Int
  PROVE  \E k \in Int : v - Wrap(v) = k * WordRange
<1> DEFINE q == (v + Half) \div WordRange
<1>1. q \in Int /\ (v + Half) - ((v + Half) % WordRange) = q * WordRange  BY HalfPositive
<1>2. (v + Half) % WordRange \in Int  BY HalfPositive
<1> QED  BY <1>1, <1>2, HalfPositive DEF Wrap

\* A number of the evaluator that stands for a word of the simulator.
Stands(v, w) == v \in Int /\ w \in Integer /\ Congruent(v, w)

LEMMA IntegersAreInt == Integer \subseteq Int
BY HalfPositive DEF Integer

\* What differs from a number by whole words stands for its word.
LEMMA StandsIntro ==
  ASSUME NEW v \in Int, NEW w \in Int, NEW k \in Int, v - w = k * WordRange
  PROVE  Stands(v, Wrap(w))
<1>1. PICK l \in Int : w - Wrap(w) = l * WordRange  BY WrapCongruent
<1>2. Wrap(w) \in Integer /\ Wrap(w) \in Int  BY WrapIsInteger, IntegersAreInt
<1>3. v - Wrap(w) = (k + l) * WordRange  BY <1>1, <1>2, HalfPositive
<1>4. Congruent(v, Wrap(w))  BY <1>2, <1>3, CongruentIntro
<1> QED  BY <1>2, <1>4 DEF Stands

LEMMA StandsElim ==
  ASSUME NEW v, NEW w, Stands(v, w)
  PROVE  /\ v \in Int /\ w \in Int /\ w \in Integer
         /\ \E k \in Int : v - w = k * WordRange
         /\ v \in Integer => v = w
BY IntegersAreInt, CongruentElim, IntegersEqual DEF Stands

LEMMA IntegerStands ==
  ASSUME NEW v \in Integer
  PROVE  Stands(v, v)
<1>1. v \in Int  BY IntegersAreInt
<1>2. v - v = 0 * WordRange  BY <1>1, HalfPositive
<1> QED  BY <1>1, <1>2, CongruentIntro DEF Stands

LEMMA NegationStands ==
  ASSUME NEW v, NEW w, Stands(v, w)
  PROVE  Stands(-v, Wrap(-w))
<1>1. PICK k \in Int : v - w = k * WordRange  BY StandsElim
<1>2. v \in Int /\ w \in Int  BY StandsElim
<1>3. (-v) - (-w) = (-k) * WordRange  BY <1>1, <1>2, HalfPositive
<1> QED  BY <1>2, <1>3, StandsIntro

LEMMA ComplementStands ==
  ASSUME NEW v, NEW w, Stands(v, w)
  PROVE  Stands(-1 - v, -1 - w)
<1>1. PICK k \in Int : v - w = k * WordRange  BY StandsElim
<1>2. v \in Int /\ w \in Integer /\ w \in Int  BY StandsElim
<1>3. (-1 - v) - (-1 - w) = (-k) * WordRange  BY <1>1, <1>2, HalfPositive
<1>4. -1 - w \in Integer  BY <1>2, HalfPositive DEF Integer
<1> QED  BY <1>2, <1>3, <1>4, CongruentIntro DEF Stands

LEMMA SumStands ==
  ASSUME NEW v, NEW w, Stands(v, w), NEW x, NEW y, Stands(x, y)
  PROVE  Stands(v + x, Wrap(w + y)) /\ Stands(v - x, Wrap(w - y))
<1>1. PICK k \in Int : v - w = k * WordRange  BY StandsElim
<1>2. PICK l \in Int : x - y = l * WordRange  BY StandsElim
<1>3. v \in Int /\ w \in Int /\ x \in Int /\ y \in Int  BY StandsElim
<1>4. (v + x) - (w + y) = (k + l) * WordRange  BY <1>1, <1>2, <1>3, HalfPositive
<1>5. (v - x) - (w - y) = (k - l) * WordRange  BY <1>1, <1>2, <1>3, HalfPositive
<1> QED  BY <1>3, <1>4, <1>5, StandsIntro

LEMMA ProductStands ==
  ASSUME NEW v, NEW w, Stands(v, w), NEW x, NEW y, Stands(x, y)
  PROVE  Stands(v * x, Wrap(w * y))
<1>1. PICK k \in Int : v - w = k * WordRange  BY StandsElim
<1>2. PICK l \in Int : x - y = l * WordRange  BY StandsElim
<1>3. v \in Int /\ w \in Int /\ x \in Int /\ y \in Int  BY StandsElim
<1>4. v * x - w * y = v * (x - y) + y * (v - w)  BY <1>3
<1>5. v * (l * WordRange) + y * (k * WordRange) = (v * l + y * k) * WordRange
  BY <1>3, HalfPositive
<1>6. v * x - w * y = (v * l + y * k) * WordRange  BY <1>1, <1>2, <1>4, <1>5
<1> QED  BY <1>3, <1>6, StandsIntro

LEMMA ShiftStands ==
  ASSUME NEW v, NEW w, Stands(v, w), NEW n \in 0 .. MaxBits
  PROVE  Stands(v * 2 ^ n, Wrap(w * 2 ^ n))
<1>1. PICK k \in Int : v - w = k * WordRange  BY StandsElim
<1>2. v \in Int /\ w \in Int /\ 2 ^ n \in Int  BY StandsElim, Powers
<1>3. v * 2 ^ n - w * 2 ^ n = (v - w) * 2 ^ n  BY <1>2
<1>4. (k * WordRange) * 2 ^ n = (k * 2 ^ n) * WordRange  BY <1>2, HalfPositive
<1>5. v * 2 ^ n - w * 2 ^ n = (k * 2 ^ n) * WordRange  BY <1>1, <1>3, <1>4
<1> QED  BY <1>2, <1>5, StandsIntro

-----------------------------------------------------------------------------
(* Operators. What commutes with the cut, then what does not. *)

Commuting == {"uplus", "uminus", "unot", "plus", "minus", "times"}

LEMMA CommutingUnary ==
  ASSUME NEW op \in {"uplus", "uminus", "unot"}, NEW x, NEW w, Stands(x.value, w)
  PROVE  /\ Stands(UnaryOperator(op, x).value, WordUnary(op, w))
         /\ UnaryOperator(op, x).size = x.size
<1>1. CASE op = "uplus"  BY <1>1 DEF UnaryOperator, WordUnary, Uplus
<1>2. CASE op = "uminus"  BY <1>2, NegationStands DEF UnaryOperator, WordUnary, Uminus, Literal
<1>3. CASE op = "unot"  BY <1>3, ComplementStands DEF UnaryOperator, WordUnary, Unot, Literal
<1> QED  BY <1>1, <1>2, <1>3

LEMMA ExactUnary ==
  ASSUME NEW op \in Unary \ (Commuting \cup {"unsigned", "signed"}), NEW x, x.value \in Integer,
         op # "ulnot" => x.size = Unsized, op = "clog2" => x.value >= 0
  PROVE  /\ UnaryOperator(op, x).value = WordUnary(op, x.value)
         /\ op = "clog2" => UnaryOperator(op, x).size = Unsized
<1>0. x.value \in Int  BY IntegersAreInt
<1>1. CASE op = "ulnot"  BY <1>1 DEF UnaryOperator, WordUnary, Ulnot, Literal, Truth
<1>2. CASE op = "uand"  BY <1>2 DEF UnaryOperator, WordUnary, Uand, Flag, Literal, Truth
<1>3. CASE op = "unand"  BY <1>3 DEF UnaryOperator, WordUnary, Unand, Uand, Flag, Literal, Truth
<1>4. CASE op = "uor"  BY <1>4 DEF UnaryOperator, WordUnary, Uor, Flag, Literal, Truth
<1>5. CASE op = "unor"  BY <1>5 DEF UnaryOperator, WordUnary, Unor, Uor, Flag, Literal, Truth
<1>6. CASE op = "uxor"  BY <1>6 DEF UnaryOperator, WordUnary, Uxor, Flag, Literal, Truth
<1>7. CASE op = "uxnor"  BY <1>7 DEF UnaryOperator, WordUnary, Uxnor, Uxor, Flag, Literal, Truth
<1>8. CASE op = "clog2"
  <2>1. x.value % WordRange = x.value
    BY <1>0, <1>8, HalfPositive DEF Integer, WordRange
  <2> QED  BY <1>8, <2>1 DEF UnaryOperator, WordUnary, Clog2, Literal
<1> QED  BY <1>1, <1>2, <1>3, <1>4, <1>5, <1>6, <1>7, <1>8 DEF Unary, Commuting

\* What is computed on integers without a size has no size, unless it is bits.
LEMMA BinaryUnsized ==
  ASSUME NEW op \in Binary \ GivesBits, NEW x, NEW y, x.size = Unsized, y.size = Unsized
  PROVE  BinaryOperator(op, x, y).size = Unsized
<1>1. CASE op \in {"power", "times", "divide", "mod"}
  BY <1>1 DEF BinaryOperator, Power, Times, Divide, Mod, Literal, EitherUnsized
<1>2. CASE op \in {"plus", "minus"}
  BY <1>2 DEF BinaryOperator, Plus, Minus, Literal, Carried, EitherUnsized
<1>3. CASE op \in {"sll", "srl", "sra"}
  BY <1>3 DEF BinaryOperator, Sll, Srl, Sra, Literal, Narrowed
<1>4. CASE op \in {"and", "xor", "xnor", "or"}
  BY <1>4 DEF BinaryOperator, BitwiseAnd, BitwiseXor, BitwiseXnor, BitwiseOr, Literal, Wider,
              EitherUnsized
<1> QED  BY <1>1, <1>2, <1>3, <1>4 DEF Binary, GivesBits

LEMMA CommutingBinary ==
  ASSUME NEW op \in {"plus", "minus", "times"}, NEW x, NEW y, NEW v, NEW w,
         Stands(x.value, v), Stands(y.value, w)
  PROVE  Stands(BinaryOperator(op, x, y).value, WordBinary(op, v, w))
<1>1. CASE op = "plus"  BY <1>1, SumStands DEF BinaryOperator, WordBinary, Plus, Literal
<1>2. CASE op = "minus"  BY <1>2, SumStands DEF BinaryOperator, WordBinary, Minus, Literal
<1>3. CASE op = "times"  BY <1>3, ProductStands DEF BinaryOperator, WordBinary, Times, Literal
<1> QED  BY <1>1, <1>2, <1>3

LEMMA ShiftLeft ==
  ASSUME NEW x, NEW y, NEW v, Stands(x.value, v), y.value \in 0 .. MaxBits
  PROVE  Stands(BinaryOperator("sll", x, y).value, WordBinary("sll", v, y.value))
BY ShiftStands DEF BinaryOperator, WordBinary, Sll, Literal

LEMMA BitIsBit ==
  ASSUME NEW v \in Int, NEW i \in 0 .. MaxBits
  PROVE  Bit(v, i) \in {0, 1}
BY Powers DEF Bit

\* The operators that are given integers, where they give one.
LEMMA ExactBinary ==
  ASSUME NEW op \in Binary \ (Commuting \cup {"sll"}), NEW x, NEW y,
         x.value \in Integer, y.value \in Integer,
         Regular(op, [i \in {1, 2} |-> IF i = 1 THEN x.value ELSE y.value]),
         BinaryOperator(op, x, y).value \in Integer
  PROVE  BinaryOperator(op, x, y).value = WordBinary(op, x.value, y.value)
<1>0. x.value \in Int /\ y.value \in Int  BY IntegersAreInt
<1>1. CASE op = "power"
  <2>1. x.value # 0 /\ ~(y.value < 0)  BY <1>0, <1>1 DEF Regular
  <2>2. BinaryOperator(op, x, y).value = x.value ^ y.value
    BY <1>1, <2>1 DEF BinaryOperator, Power, Literal
  <2>3. WordBinary(op, x.value, y.value) = Wrap(x.value ^ y.value)  BY <1>1 DEF WordBinary
  <2> QED  BY <2>2, <2>3, WrapOfInteger
<1>2. CASE op = "divide"
  BY <1>2, WrapOfInteger DEF BinaryOperator, WordBinary, Divide, Literal
<1>3. CASE op = "mod"
  BY <1>3 DEF BinaryOperator, WordBinary, Mod, Literal
<1>4. CASE op = "srl"
  <2>1. x.value >= 0 /\ y.value >= 0  BY <1>4, <1>0, BitsAssumption DEF Regular
  <2>2. x.value % WordRange = x.value  BY <1>0, <2>1, HalfPositive DEF Integer, WordRange
  <2> QED  BY <1>0, <1>4, <2>1, <2>2, WrapOfInteger
           DEF BinaryOperator, WordBinary, Srl, ShiftRight, Literal
<1>5. CASE op = "sra"
  <2>1. y.value >= 0  BY <1>5, <1>0, BitsAssumption DEF Regular
  <2> QED  BY <1>5, <2>1 DEF BinaryOperator, WordBinary, Sra, ShiftRight, Literal
<1>6. CASE op \in {"lt", "gt", "le", "ge"}
  BY <1>6 DEF BinaryOperator, WordBinary, LessThan, GreaterThan, LessEqual, GreaterEqual, Flag,
              Literal, Truth
<1>7. CASE op \in {"eq", "eql", "noteq", "noteql"}
  BY <1>7 DEF BinaryOperator, WordBinary, Equal, NotEqual, Flag, Literal, Truth
<1>8. CASE op \in {"and", "xor", "xnor"}
  BY <1>8 DEF BinaryOperator, WordBinary, BitwiseAnd, BitwiseXor, BitwiseXnor, Literal
<1>9. CASE op = "or"
  BY <1>9 DEF BinaryOperator, WordBinary, BitwiseOr, Literal
<1>10. CASE op \in {"land", "lor"}
  BY <1>10 DEF BinaryOperator, WordBinary, LogicalAnd, LogicalOr, Flag, Literal, Truth
<1>11. CASE op = "pointer"
  <2>1. y.value \in 0 .. MaxBits /\ y.value >= 0  BY <1>11, <1>0, BitsAssumption DEF Regular
  <2>2. Bit(x.value, y.value) \in {0, 1}  BY <1>0, <2>1, BitIsBit
  <2> QED  BY <1>11, <2>1, <2>2 DEF BinaryOperator, WordBinary, Pointer, Flag, Literal
<1> QED  BY <1>1, <1>2, <1>3, <1>4, <1>5, <1>6, <1>7, <1>8, <1>9, <1>10, <1>11
         DEF Binary, Commuting

-----------------------------------------------------------------------------
(* Selections *)

\* Dividing by a product is dividing twice: the bits above the lowest ones
\* are the same whether the mask is put before the shift or after it.
LEMMA QuotientIs ==
  ASSUME NEW w \in Int, w > 0, NEW d \in Int, NEW r \in 0 .. w - 1
  PROVE  (d * w + r) \div w = d /\ (d * w + r) % w = r
<1> DEFINE e == (d * w + r) \div w
           s == (d * w + r) % w
<1>1. e \in Int /\ s \in Int /\ d * w + r = e * w + s /\ 0 <= s /\ s < w
  OBVIOUS
<1>2. (d - e) * w = s - r  BY <1>1
<1>3. d - e = 0
  <2> HIDE DEF e, s
  <2>1. d - e \in Int  BY <1>1
  <2>2. ~(d - e >= 1)  BY <2>1, <1>1, <1>2, ProductAtLeast
  <2>3. ~(d - e <= -1)  BY <2>1, <1>1, <1>2, ProductAtLeast
  <2> QED  BY <2>1, <2>2, <2>3
<1> QED  BY <1>1, <1>3

LEMMA MaskThenShift ==
  ASSUME NEW v \in Int, NEW l \in Int, l > 0, NEW q \in Int, q > 0
  PROVE  (v % (l * q)) \div l = (v \div l) % q
<1> DEFINE d == v \div l
           r == v % l
           e == d \div q
           t == d % q
<1>1. d \in Int /\ r \in 0 .. l - 1 /\ v = d * l + r  OBVIOUS
<1>2. e \in Int /\ t \in 0 .. q - 1 /\ d = e * q + t  BY <1>1
<1> HIDE DEF d, r, e, t
<1>3. v = e * (l * q) + (t * l + r)  BY <1>1, <1>2
<1>4. t * l <= (q - 1) * l /\ t * l >= 0
  <2>1. q - 1 - t >= 0 /\ q - 1 - t \in Int  BY <1>2
  <2>2. (q - 1 - t) * l >= 0
    <3>1. CASE q - 1 - t = 0  BY <3>1
    <3>2. CASE q - 1 - t >= 1  BY <2>1, <3>2, ProductAtLeast
    <3> QED  BY <2>1, <3>1, <3>2
  <2>3. (q - 1) * l - t * l = (q - 1 - t) * l  BY <1>2
  <2>4. t * l >= 0
    <3>1. CASE t = 0  BY <3>1
    <3>2. CASE t >= 1  BY <1>2, <3>2, ProductAtLeast
    <3> QED  BY <1>2, <3>1, <3>2
  <2>5. t * l \in Int /\ (q - 1) * l \in Int  BY <1>2
  <2> QED  BY <2>2, <2>3, <2>4, <2>5
<1>5. (q - 1) * l = l * q - l  OBVIOUS
<1>6. t * l + r \in 0 .. l * q - 1 /\ l * q \in Int /\ l * q > 0
  <2>1. l * q \in Int /\ t * l \in Int  BY <1>2
  <2> QED  BY <1>1, <1>4, <1>5, <2>1
<1>7. v % (l * q) = t * l + r  BY <1>3, <1>2, <1>6, QuotientIs
<1>8. (t * l + r) \div l = t  BY <1>1, <1>2, QuotientIs
<1> QED  BY <1>7, <1>8 DEF d, t

LEMMA SliceIsField ==
  ASSUME NEW v \in Int, NEW msb \in Int, NEW lsb \in Int, 0 <= lsb, lsb <= msb, msb < IntBits
  PROVE  Slice(v, msb, lsb) = Field(v, msb, lsb)
<1>1. msb + 1 \in 0 .. MaxBits /\ lsb \in 0 .. msb + 1 /\ lsb \in 0 .. MaxBits
      /\ msb - lsb + 1 \in 0 .. MaxBits
  BY BitsAssumption
<1>2. (msb + 1) - lsb = msb - lsb + 1  OBVIOUS
<1>3. 2 ^ (msb + 1) = 2 ^ lsb * 2 ^ (msb - lsb + 1)  BY <1>1, <1>2, PowersAssumption
<1>4. 2 ^ lsb \in Int /\ 2 ^ lsb > 0 /\ 2 ^ (msb - lsb + 1) \in Int /\ 2 ^ (msb - lsb + 1) > 0
  BY <1>1, Powers
<1>5. (v % (2 ^ lsb * 2 ^ (msb - lsb + 1))) \div 2 ^ lsb = (v \div 2 ^ lsb) % 2 ^ (msb - lsb + 1)
  BY <1>4, MaskThenShift
<1> QED  BY <1>3, <1>5 DEF Slice, Field

LEMMA ExactTernary ==
  ASSUME NEW op \in Ternaries \ {"cond"}, NEW x, NEW y, NEW z,
         x.value \in Integer, y.value \in Integer, z.value \in Integer,
         Regular(op, [i \in {1, 2, 3} |->
                        IF i = 1 THEN x.value ELSE IF i = 2 THEN y.value ELSE z.value])
  PROVE  TernaryOperator(op, x, y, z).value = WordTernary(op, x.value, y.value, z.value)
<1> DEFINE a == [i \in {1, 2, 3} |->
                   IF i = 1 THEN x.value ELSE IF i = 2 THEN y.value ELSE z.value]
<1>a. Regular(op, a) /\ a[2] = y.value /\ a[3] = z.value  OBVIOUS
<1> HIDE DEF a
<1>b. x.value \in Int /\ y.value \in Int /\ z.value \in Int  BY IntegersAreInt
<1>c. IntBits \in Int  BY BitsAssumption
<1>0. x.value \in Int /\ y.value \in Int /\ z.value \in Int /\ IntBits \in Int
  BY <1>b, <1>c
<1>1. CASE op = "partselect"
  <2>1. 0 <= z.value /\ z.value <= y.value /\ y.value < IntBits  BY <1>a, <1>1 DEF Regular
  <2> QED  BY <1>0, <1>1, <2>1, SliceIsField DEF TernaryOperator, WordTernary, Partselect, Literal
<1>2. CASE op = "partselect_minus"
  <2>1. 0 < z.value /\ z.value <= y.value + 1 /\ y.value < IntBits  BY <1>a, <1>2 DEF Regular
  <2>2. 0 <= y.value - z.value + 1 /\ y.value - z.value + 1 <= y.value
        /\ y.value - z.value + 1 \in Int
    BY <1>0, <2>1
  <2> QED  BY <1>0, <1>2, <2>1, <2>2, SliceIsField
           DEF TernaryOperator, WordTernary, PartselectMinus, Literal
<1>3. CASE op = "partselect_plus"
  <2>1. 0 <= y.value /\ 0 < z.value /\ y.value + z.value <= IntBits  BY <1>a, <1>3 DEF Regular
  <2>2. y.value <= y.value + z.value - 1 /\ y.value + z.value - 1 < IntBits
        /\ y.value + z.value - 1 \in Int
    BY <1>0, <2>1
  <2> QED  BY <1>0, <1>3, <2>1, <2>2, SliceIsField
           DEF TernaryOperator, WordTernary, PartselectPlus, Literal
<1> QED  BY <1>1, <1>2, <1>3 DEF Ternaries

-----------------------------------------------------------------------------
(* The evaluation *)

\* A node with a meaning stands for its word, and has no size if it is an
\* integer.
NodeExact(n) ==
  meaning[n].sound =>
    /\ Stands(value[n].value, meaning[n].word)
    /\ expression[n].op \notin GivesBits => value[n].size = Unsized

Sequences ==
  /\ \E S : value \in Seq(S)
  /\ \E S : meaning \in Seq(S)
  /\ Len(meaning) = Len(value)

EvaluationInv ==
  /\ expression \in Expressions
  /\ Sequences
  /\ \A n \in 1 .. Len(value) : NodeExact(n)

\* A node evaluated next has its operands evaluated.
LEMMA NodeIsWellFormed ==
  ASSUME EvaluationInv, Turn
  PROVE  /\ Len(value) \in Nat
         /\ \A i \in DOMAIN Node.kids : Node.kids[i] \in 1 .. Len(value)
         /\ Node.op \in Unary => DOMAIN Node.kids = {1}
         /\ Node.op \in Binary => DOMAIN Node.kids = {1, 2}
         /\ Node.op \in Ternaries => DOMAIN Node.kids = {1, 2, 3}
<1>1. Len(value) \in Nat  BY DEF EvaluationInv, Sequences
<1>2. WellFormed(expression)  BY ExpressionsAssumption DEF EvaluationInv
<1>3. Place \in 1 .. Len(expression) /\ Place - 1 = Len(value)
  BY <1>1, <1>2 DEF Place, Turn, WellFormed
<1> QED  BY <1>1, <1>2, <1>3 DEF WellFormed, Node

\* What an operator with a meaning is given.
LEMMA SoundOperand ==
  ASSUME EvaluationInv, Turn, NEW r, Sound(Node.op, r), NEW i \in DOMAIN Node.kids
  PROVE  /\ Stands(Operand(i).value, Word(i))
         /\ \/ Operand(i).size = Unsized
            \/ Node.op \in {"ulnot", "land", "lor"}
            \/ Node.op = "cond" /\ i = 1
         /\ ~Linear(Node.op, i) => Operand(i).value \in Integer /\ Operand(i).value = Word(i)
<1>1. Node.kids[i] \in 1 .. Len(value)  BY NodeIsWellFormed
<1>2. NodeExact(Node.kids[i])  BY <1>1 DEF EvaluationInv
<1>3. meaning[Node.kids[i]].sound /\ Typed(Node.op, i)  BY DEF Sound
<1>4. ~Linear(Node.op, i) => Operand(i).value \in Integer  BY DEF Sound
<1>5. Stands(Operand(i).value, Word(i))  BY <1>2, <1>3 DEF NodeExact, Operand, Word
<1>6. \/ Operand(i).size = Unsized
      \/ Node.op \in {"ulnot", "land", "lor"}
      \/ Node.op = "cond" /\ i = 1
  BY <1>2, <1>3 DEF NodeExact, Operand, Typed
<1> QED  BY <1>4, <1>5, <1>6, StandsElim

LEMMA ValuedKeeps ==
  ASSUME EvaluationInv, NEW x, NEW word, NEW sound \in BOOLEAN, Valued(x, word, sound),
         sound => Stands(x.value, word) /\ (Node.op \notin GivesBits => x.size = Unsized)
  PROVE  EvaluationInv'
<1> DEFINE m == [word |-> IF sound THEN word ELSE 0, sound |-> sound]
<1>1. value' = Append(value, x) /\ meaning' = Append(meaning, m) /\ expression' = expression
  BY DEF Valued
<1>2. PICK S : value \in Seq(S)  BY DEF EvaluationInv, Sequences
<1>3. PICK M : meaning \in Seq(M)  BY DEF EvaluationInv, Sequences
<1>4. Len(meaning) = Len(value) /\ Len(value) \in Nat  BY <1>2 DEF EvaluationInv, Sequences
<1> HIDE DEF m
<1>5. value \in Seq(S \cup {x}) /\ meaning \in Seq(M \cup {m})  BY <1>2, <1>3
<1>6. /\ value' \in Seq(S \cup {x}) /\ Len(value') = Len(value) + 1
      /\ \A n \in 1 .. Len(value) : value'[n] = value[n]
      /\ value'[Len(value) + 1] = x
  BY <1>1, <1>5
<1>7. /\ meaning' \in Seq(M \cup {m}) /\ Len(meaning') = Len(meaning) + 1
      /\ \A n \in 1 .. Len(meaning) : meaning'[n] = meaning[n]
      /\ meaning'[Len(meaning) + 1] = m
  BY <1>1, <1>5
<1>8. Sequences'  BY <1>4, <1>6, <1>7 DEF Sequences
<1>9. \A n \in 1 .. Len(value') : NodeExact(n)'
  <2> SUFFICES ASSUME NEW n \in 1 .. Len(value')  PROVE NodeExact(n)'
    OBVIOUS
  <2>1. CASE n \in 1 .. Len(value)
    BY <1>1, <1>4, <1>6, <1>7, <2>1 DEF EvaluationInv, NodeExact
  <2>2. CASE n = Len(value) + 1
    BY <1>1, <1>4, <1>6, <1>7, <2>2 DEF NodeExact, m, Node, Place
  <2> QED  BY <1>4, <1>6, <2>1, <2>2
<1> QED  BY <1>1, <1>8, <1>9 DEF EvaluationInv

LEMMA LeafKeeps ==
  ASSUME EvaluationInv, EvaluateConstant \/ EvaluateIdentifier
  PROVE  EvaluationInv'
<1>1. \A x : IsInteger(x) => Stands(x.value, x.value) /\ x.size = Unsized
  BY IntegerStands DEF IsInteger
<1>2. \A x : IsInteger(x) \in BOOLEAN  BY DEF IsInteger
<1>3. CASE EvaluateConstant
  BY <1>1, <1>2, <1>3, ValuedKeeps DEF EvaluateConstant
<1>4. CASE EvaluateIdentifier
  <2>1. CASE \E x : Valued(x, x.value, IsInteger(x))
    BY <1>1, <1>2, <2>1, ValuedKeeps
  <2>2. CASE Valued(Nothing, 0, FALSE)
    BY <2>2, ValuedKeeps
  <2> QED  BY <1>4, <2>1, <2>2 DEF EvaluateIdentifier
<1> QED  BY <1>3, <1>4

LEMMA UnaryKeeps ==
  ASSUME EvaluationInv, EvaluateUnary
  PROVE  EvaluationInv'
<1> DEFINE op == Node.op
           x == Operand(1)
           r == UnaryOperator(op, x)
<1>1. Turn /\ op \in Unary /\ Valued(r, WordUnary(op, Word(1)), Sound(op, r))
  BY DEF EvaluateUnary
<1>2. DOMAIN Node.kids = {1}  BY <1>1, NodeIsWellFormed
<1>3. Sound(op, r) \in BOOLEAN  BY DEF Sound
<1>4. ASSUME Sound(op, r)
      PROVE  /\ Stands(r.value, WordUnary(op, Word(1)))
             /\ op \notin GivesBits => r.size = Unsized
  <2>1. /\ Stands(x.value, Word(1))
        /\ x.size = Unsized \/ op \in {"ulnot", "land", "lor"} \/ op = "cond"
        /\ ~Linear(op, 1) => x.value \in Integer /\ x.value = Word(1)
    BY <1>1, <1>2, <1>4, SoundOperand
  <2>2. op \notin {"unsigned", "signed"}  BY <1>4 DEF Sound
  <2>3. CASE op \in {"uplus", "uminus", "unot"}
    <3>1. x.size = Unsized  BY <2>1, <2>3
    <3> QED  BY <2>1, <2>3, <3>1, CommutingUnary
  <2>4. CASE op \notin Commuting
    <3>1. ~Linear(op, 1)  BY <1>1, <2>4 DEF Linear, Commuting, Unary
    <3>2. {i \in DOMAIN Node.kids : ~Linear(op, i)} = DOMAIN Node.kids  BY <1>2, <3>1
    <3>3. r.value \in Integer /\ Regular(op, [i \in DOMAIN Node.kids |-> Operand(i).value])
      BY <1>4, <3>2 DEF Sound
    <3>4. op = "clog2" => x.value >= 0  BY <1>2, <3>3 DEF Regular
    <3>5. op # "ulnot" => x.size = Unsized  BY <1>1, <2>1 DEF Unary
    <3>6. /\ r.value = WordUnary(op, x.value)
          /\ op = "clog2" => r.size = Unsized
      BY <1>1, <2>1, <2>2, <2>4, <3>1, <3>4, <3>5, ExactUnary
    <3>7. Stands(r.value, WordUnary(op, Word(1)))  BY <2>1, <3>1, <3>3, <3>6, IntegerStands
    <3>8. op \notin GivesBits => op = "clog2"
      BY <1>1, <2>2, <2>4 DEF Unary, GivesBits, Commuting
    <3> QED  BY <3>6, <3>7, <3>8
  <2> QED  BY <1>1, <2>3, <2>4 DEF Unary, Commuting
<1> HIDE DEF op, r
<1> QED  BY <1>1, <1>3, <1>4, ValuedKeeps DEF op

LEMMA BinaryKeeps ==
  ASSUME EvaluationInv, EvaluateBinary
  PROVE  EvaluationInv'
<1> DEFINE op == Node.op
           x == Operand(1)
           y == Operand(2)
           r == BinaryOperator(op, x, y)
<1>1. Turn /\ op \in Binary /\ Valued(r, WordBinary(op, Word(1), Word(2)), Sound(op, r))
  BY DEF EvaluateBinary
<1>2. DOMAIN Node.kids = {1, 2}  BY <1>1, NodeIsWellFormed
<1>3. Sound(op, r) \in BOOLEAN  BY DEF Sound
<1>4. ASSUME Sound(op, r)
      PROVE  /\ Stands(r.value, WordBinary(op, Word(1), Word(2)))
             /\ op \notin GivesBits => r.size = Unsized
  <2> DEFINE a == [i \in {1, 2} |-> IF i = 1 THEN x.value ELSE y.value]
  <2>1. /\ Stands(x.value, Word(1))
        /\ x.size = Unsized \/ op \in {"ulnot", "land", "lor"} \/ op = "cond"
        /\ ~Linear(op, 1) => x.value \in Integer /\ x.value = Word(1)
    BY <1>1, <1>2, <1>4, SoundOperand
  <2>2. /\ Stands(y.value, Word(2))
        /\ y.size = Unsized \/ op \in {"ulnot", "land", "lor"} \/ op = "cond"
        /\ ~Linear(op, 2) => y.value \in Integer /\ y.value = Word(2)
    BY <1>1, <1>2, <1>4, SoundOperand
  <2>3. Regular(op, a)
    <3>1. [i \in DOMAIN Node.kids |-> Operand(i).value] = a  BY <1>2
    <3> QED  BY <1>4, <3>1 DEF Sound
  <2>4. op \notin GivesBits => r.size = Unsized
    <3>1. op \notin GivesBits => x.size = Unsized /\ y.size = Unsized
      BY <1>1, <2>1, <2>2 DEF GivesBits, Binary
    <3> QED  BY <1>1, <3>1, BinaryUnsized
  <2>5. CASE op \in {"plus", "minus", "times"}
    BY <2>1, <2>2, <2>4, <2>5, CommutingBinary
  <2>6. CASE op = "sll"
    <3>1. y.value \in 0 .. MaxBits  BY <2>3, <2>6 DEF Regular
    <3>2. y.value = Word(2)  BY <2>2, <2>6 DEF Linear
    <3> QED  BY <2>1, <2>4, <2>6, <3>1, <3>2, ShiftLeft
  <2>7. CASE op \notin Commuting \cup {"sll"}
    <3>1. ~Linear(op, 1) /\ ~Linear(op, 2)  BY <1>1, <2>7 DEF Linear, Commuting, Binary
    <3>2. {i \in DOMAIN Node.kids : ~Linear(op, i)} = DOMAIN Node.kids  BY <1>2, <3>1
    <3>3. r.value \in Integer  BY <1>4, <3>2 DEF Sound
    <3>4. r.value = WordBinary(op, x.value, y.value)
      BY <1>1, <2>1, <2>2, <2>3, <2>7, <3>1, <3>3, ExactBinary
    <3> QED  BY <2>1, <2>2, <2>4, <3>1, <3>3, <3>4, IntegerStands
  <2> QED  BY <1>1, <2>5, <2>6, <2>7 DEF Binary, Commuting
<1> HIDE DEF op, r
<1> QED  BY <1>1, <1>3, <1>4, ValuedKeeps DEF op

LEMMA TernaryKeeps ==
  ASSUME EvaluationInv, EvaluateTernary
  PROVE  EvaluationInv'
<1> DEFINE op == Node.op
           x == Operand(1)
           y == Operand(2)
           z == Operand(3)
           r == TernaryOperator(op, x, y, z)
<1>1. Turn /\ op \in Ternaries /\ Valued(r, WordTernary(op, Word(1), Word(2), Word(3)), Sound(op, r))
  BY DEF EvaluateTernary
<1>2. DOMAIN Node.kids = {1, 2, 3}  BY <1>1, NodeIsWellFormed
<1>3. Sound(op, r) \in BOOLEAN  BY DEF Sound
<1>4. ASSUME Sound(op, r)
      PROVE  /\ Stands(r.value, WordTernary(op, Word(1), Word(2), Word(3)))
             /\ op \notin GivesBits => r.size = Unsized
  <2>1. \A i \in {1, 2, 3} :
          /\ Stands(Operand(i).value, Word(i))
          /\ \/ Operand(i).size = Unsized
             \/ op \in {"ulnot", "land", "lor"}
             \/ op = "cond" /\ i = 1
          /\ ~Linear(op, i) => Operand(i).value \in Integer /\ Operand(i).value = Word(i)
    BY <1>1, <1>2, <1>4, SoundOperand
  <2>2. CASE op = "cond"
    <3>1. x.value = Word(1) /\ Stands(y.value, Word(2)) /\ Stands(z.value, Word(3))
          /\ y.size = Unsized /\ z.size = Unsized
      BY <2>1, <2>2 DEF Linear
    <3>2. r = IF x.value # 0 THEN y ELSE z  BY <2>2 DEF TernaryOperator, Ternary
    <3>3. WordTernary(op, Word(1), Word(2), Word(3)) = IF Word(1) # 0 THEN Word(2) ELSE Word(3)
      BY <2>2 DEF WordTernary
    <3> HIDE DEF x, y, z, r
    <3> QED  BY <3>1, <3>2, <3>3
  <2>3. CASE op # "cond"
    <3> DEFINE a == [i \in {1, 2, 3} |->
                       IF i = 1 THEN x.value ELSE IF i = 2 THEN y.value ELSE z.value]
    <3>1. \A i \in {1, 2, 3} : ~Linear(op, i)  BY <1>1, <2>3 DEF Linear, Ternaries
    <3>2. {i \in DOMAIN Node.kids : ~Linear(op, i)} = DOMAIN Node.kids  BY <1>2, <3>1
    <3>3. [i \in DOMAIN Node.kids |-> Operand(i).value] = a  BY <1>2
    <3>4. r.value \in Integer /\ Regular(op, a)  BY <1>4, <3>2, <3>3 DEF Sound
    <3>5. x.value \in Integer /\ y.value \in Integer /\ z.value \in Integer
          /\ x.value = Word(1) /\ y.value = Word(2) /\ z.value = Word(3)
      BY <2>1, <3>1
    <3>6. r.value = WordTernary(op, x.value, y.value, z.value)
      BY <1>1, <2>3, <3>4, <3>5, ExactTernary
    <3>7. op \in GivesBits  BY <1>1, <2>3 DEF GivesBits, Ternaries
    <3> QED  BY <3>4, <3>5, <3>6, <3>7, IntegerStands
  <2> QED  BY <2>2, <2>3
<1> HIDE DEF op, r
<1> QED  BY <1>1, <1>3, <1>4, ValuedKeeps DEF op

\* The words of the simulator are kept at every step.
LEMMA StepKeeps ==
  ASSUME EvaluationInv, [Next]_vars
  PROVE  EvaluationInv'
<1>1. CASE EvaluateConstant \/ EvaluateIdentifier  BY <1>1, LeafKeeps
<1>2. CASE EvaluateUnary  BY <1>2, UnaryKeeps
<1>3. CASE EvaluateBinary  BY <1>3, BinaryKeeps
<1>4. CASE EvaluateTernary  BY <1>4, TernaryKeeps
<1>5. CASE EvaluateNothing  BY <1>5, ValuedKeeps DEF EvaluateNothing
<1>6. CASE Abort \/ Evaluated \/ Fold \/ UNCHANGED vars
  <2>1. UNCHANGED <<expression, value, meaning>>
    BY <1>6 DEF Abort, Evaluated, Fold, vars, evaluationVars
  <2> QED  BY <2>1 DEF EvaluationInv, Sequences, NodeExact
<1> QED  BY <1>1, <1>2, <1>3, <1>4, <1>5, <1>6 DEF Next, Evaluate

LEMMA InvImpliesExact == EvaluationInv => IntegersExact
<1> SUFFICES ASSUME EvaluationInv, NEW n \in DOMAIN value, meaning[n].sound
             PROVE  /\ Congruent(value[n].value, meaning[n].word)
                    /\ value[n].value \in Integer => value[n].value = meaning[n].word
  BY DEF IntegersExact
<1>1. n \in 1 .. Len(value)  BY DEF EvaluationInv, Sequences
<1>2. Stands(value[n].value, meaning[n].word)  BY <1>1 DEF EvaluationInv, NodeExact
<1> QED  BY <1>2, StandsElim DEF Stands

\* For integers of any number of bits, any expressions and any names with a
\* value: every integer the evaluator gives is the one the simulator computes
\* (expression_operators_intconst.cpp), however far past an integer the
\* numbers went on the way.
THEOREM Exact == Spec => []IntegersExact
<1>1. Init => EvaluationInv
  <2> SUFFICES ASSUME Init  PROVE EvaluationInv
    OBVIOUS
  <2>1. value = <<>> /\ meaning = <<>> /\ expression \in Expressions  BY DEF Init
  <2>2. value \in Seq({}) /\ meaning \in Seq({}) /\ Len(value) = 0 /\ Len(meaning) = 0  BY <2>1
  <2> QED  BY <2>1, <2>2 DEF EvaluationInv, Sequences
<1>2. EvaluationInv /\ [Next]_vars => EvaluationInv'  BY StepKeeps
<1> QED  BY <1>1, <1>2, InvImpliesExact, PTL DEF Spec

-----------------------------------------------------------------------------
(* Types *)

\* An operator of literals gives a literal, whatever its size.
LEMMA UnaryLiteral ==
  ASSUME NEW op \in Unary \ {"unsigned", "signed"}, NEW x \in Literals,
         UnaryOperator(op, x).value \in Int
  PROVE  UnaryOperator(op, x) \in Literals
<1>1. x.size \in Int /\ x.sign \in BOOLEAN /\ x.value \in Int  BY DEF Literals
<1>2. \A s \in Int, g \in BOOLEAN, v \in Int : Literal(s, g, v) \in Literals
  BY DEF Literal, Literals
<1>3. \A p : Flag(p) \in Literals
  <2>1. \A p : (IF p THEN 1 ELSE 0) \in Int  OBVIOUS
  <2> QED  BY <1>2, <2>1 DEF Flag
<1>5. CASE op = "uplus"  BY <1>5 DEF UnaryOperator, Uplus
<1>6. CASE op = "uminus"
  <2>1. UnaryOperator(op, x) = Literal(x.size, TRUE, -x.value)
    BY <1>6 DEF UnaryOperator, Uminus
  <2>2. -x.value \in Int  BY <1>1
  <2> QED  BY <1>1, <1>2, <2>1, <2>2
<1>7. CASE op = "ulnot"
  <2>1. UnaryOperator(op, x) = Literal(x.size, x.sign, IF x.value = 0 THEN 1 ELSE 0)
    BY <1>7 DEF UnaryOperator, Ulnot
  <2>2. (IF x.value = 0 THEN 1 ELSE 0) \in Int  OBVIOUS
  <2> QED  BY <1>1, <1>2, <2>1, <2>2
<1>8. CASE op = "unot"
  <2>1. UnaryOperator(op, x) = Literal(x.size, x.sign, -1 - x.value)
    BY <1>8 DEF UnaryOperator, Unot
  <2>2. -1 - x.value \in Int  BY <1>1
  <2> QED  BY <1>1, <1>2, <2>1, <2>2
<1>9. CASE op \in {"uand", "unand", "uor", "unor", "uxor", "uxnor"}
  BY <1>3, <1>9 DEF UnaryOperator, Uand, Unand, Uor, Unor, Uxor, Uxnor
<1>10. CASE op = "clog2"
  <2>1. UnaryOperator(op, x) = Literal(x.size, FALSE, StateBits(x.value))
    BY <1>10 DEF UnaryOperator, Clog2
  <2>2. UnaryOperator(op, x).value = StateBits(x.value)  BY <2>1 DEF Literal
  <2>3. StateBits(x.value) \in Int  BY <2>2
  <2> QED  BY <1>1, <1>2, <2>1, <2>3
<1> QED  BY <1>5, <1>6, <1>7, <1>8, <1>9, <1>10 DEF Unary

LEMMA BinaryLiteral ==
  ASSUME NEW op \in Binary, NEW x \in Literals, NEW y \in Literals,
         BinaryOperator(op, x, y).value \in Int
  PROVE  BinaryOperator(op, x, y) \in Literals
<1>1. /\ x.size \in Int /\ x.sign \in BOOLEAN /\ x.value \in Int
      /\ y.size \in Int /\ y.sign \in BOOLEAN /\ y.value \in Int
      /\ (x.sign \/ y.sign) \in BOOLEAN
  BY DEF Literals
<1>2. \A s \in Int, g \in BOOLEAN : \A v : Literal(s, g, v).value \in Int => Literal(s, g, v) \in Literals
  BY DEF Literal, Literals
<1>3. \A p : Flag(p) \in Literals
  <2>1. \A p : (IF p THEN 1 ELSE 0) \in Int  OBVIOUS
  <2> QED  BY <2>1 DEF Flag, Literal, Literals
<1>4. /\ Wider(x, y) \in Int /\ Carried(x, y) \in Int /\ Narrowed(x, y) \in Int
      /\ (IF EitherUnsized(x, y) THEN Unsized ELSE x.size + y.size) \in Int
      /\ (IF EitherUnsized(x, y) THEN Unsized ELSE x.size * y.size) \in Int
      /\ (IF x.size = Unsized THEN Unsized ELSE x.size + y.value) \in Int
  <2>1. Wider(x, y) \in Int  BY <1>1 DEF Wider, Unsized
  <2> QED  BY <1>1, <2>1 DEF Carried, Narrowed, Unsized
<1>5. CASE op = "power"  BY <1>1, <1>2, <1>4, <1>5 DEF BinaryOperator, Power
<1>6. CASE op = "times"  BY <1>1, <1>2, <1>4, <1>6 DEF BinaryOperator, Times
<1>7. CASE op \in {"divide", "mod"}  BY <1>1, <1>2, <1>7 DEF BinaryOperator, Divide, Mod
<1>8. CASE op \in {"plus", "minus"}  BY <1>1, <1>2, <1>4, <1>8 DEF BinaryOperator, Plus, Minus
<1>9. CASE op = "sll"  BY <1>1, <1>2, <1>4, <1>9 DEF BinaryOperator, Sll
<1>10. CASE op = "srl"  BY <1>1, <1>2, <1>4, <1>10 DEF BinaryOperator, Srl
<1>11. CASE op = "sra"  BY <1>1, <1>2, <1>4, <1>11 DEF BinaryOperator, Sra
<1>12. CASE op \in {"and", "xor", "xnor", "or"}
  BY <1>1, <1>2, <1>4, <1>12 DEF BinaryOperator, BitwiseAnd, BitwiseXor, BitwiseXnor, BitwiseOr
<1>13. CASE op \in {"lt", "gt", "le", "ge", "eq", "eql", "noteq", "noteql", "land", "lor", "pointer"}
  BY <1>3, <1>13 DEF BinaryOperator, LessThan, GreaterThan, LessEqual, GreaterEqual, Equal, NotEqual,
                     LogicalAnd, LogicalOr, Pointer
<1> QED  BY <1>5, <1>6, <1>7, <1>8, <1>9, <1>10, <1>11, <1>12, <1>13 DEF Binary

LEMMA TernaryLiteral ==
  ASSUME NEW op \in Ternaries, NEW x \in Literals, NEW y \in Literals, NEW z \in Literals,
         TernaryOperator(op, x, y, z).value \in Int
  PROVE  TernaryOperator(op, x, y, z) \in Literals
<1>1. x.value \in Int /\ y.value \in Int /\ z.value \in Int  BY DEF Literals
<1>2. \A s \in Int, g \in BOOLEAN : \A v : Literal(s, g, v).value \in Int => Literal(s, g, v) \in Literals
  BY DEF Literal, Literals
<1>3. y.value - z.value + 1 \in Int  BY <1>1
<1>4. CASE op = "cond"  BY <1>4 DEF TernaryOperator, Ternary
<1>5. CASE op = "partselect"  BY <1>2, <1>3, <1>5 DEF TernaryOperator, Partselect
<1>6. CASE op = "partselect_minus"  BY <1>1, <1>2, <1>6 DEF TernaryOperator, PartselectMinus
<1>7. CASE op = "partselect_plus"  BY <1>1, <1>2, <1>7 DEF TernaryOperator, PartselectPlus
<1> QED  BY <1>4, <1>5, <1>6, <1>7 DEF Ternaries

\* What has a meaning is a literal.
LiteralsInv == \A n \in 1 .. Len(value) : meaning[n].sound => value[n] \in Literals

\* Nothing is evaluated past the root, and the text is there once folded.
PhaseInv ==
  /\ phase \in {"evaluating", "evaluated", "aborted", "folded"}
  /\ Len(value) <= Len(expression)
  /\ phase \in {"evaluated", "folded"} => Len(value) = Len(expression)
  /\ phase # "folded" => text = <<>>
  /\ phase = "folded" => Len(text) = Len(expression)

LEMMA LiteralOperands ==
  ASSUME EvaluationInv, LiteralsInv, Turn, NEW r, Sound(Node.op, r), NEW i \in DOMAIN Node.kids
  PROVE  Operand(i) \in Literals
<1>1. Node.kids[i] \in 1 .. Len(value)  BY NodeIsWellFormed
<1>2. meaning[Node.kids[i]].sound  BY DEF Sound
<1> QED  BY <1>1, <1>2 DEF LiteralsInv, Operand

\* One more node evaluated.
LEMMA ValuedTyped ==
  ASSUME EvaluationInv, EvaluationInv', LiteralsInv, PhaseInv, Turn,
         NEW x, NEW word, NEW sound \in BOOLEAN, Valued(x, word, sound),
         sound /\ x.value \in Int => x \in Literals
  PROVE  LiteralsInv' /\ PhaseInv'
<1> DEFINE m == [word |-> IF sound THEN word ELSE 0, sound |-> sound]
<1>1. /\ value' = Append(value, x) /\ meaning' = Append(meaning, m)
      /\ expression' = expression /\ phase' = phase /\ text' = text
  BY DEF Valued
<1>2. PICK S : value \in Seq(S)  BY DEF EvaluationInv, Sequences
<1>3. PICK M : meaning \in Seq(M)  BY DEF EvaluationInv, Sequences
<1>4. Len(meaning) = Len(value) /\ Len(value) \in Nat  BY <1>2 DEF EvaluationInv, Sequences
<1>5. m.sound = sound  OBVIOUS
<1> HIDE DEF m
<1>6. value \in Seq(S \cup {x}) /\ meaning \in Seq(M \cup {m})  BY <1>2, <1>3
<1>7. /\ Len(value') = Len(value) + 1
      /\ \A n \in 1 .. Len(value) : value'[n] = value[n]
      /\ value'[Len(value) + 1] = x
  BY <1>1, <1>6
<1>8. /\ \A n \in 1 .. Len(meaning) : meaning'[n] = meaning[n]
      /\ meaning'[Len(meaning) + 1] = m
  BY <1>1, <1>6
<1>9. LiteralsInv'
  <2> SUFFICES ASSUME NEW n \in 1 .. Len(value'), meaning'[n].sound
               PROVE value'[n] \in Literals
    BY DEF LiteralsInv
  <2>1. CASE n \in 1 .. Len(value)  BY <1>4, <1>7, <1>8, <2>1 DEF LiteralsInv
  <2>2. CASE n = Len(value) + 1
    <3>1. NodeExact(n)'  BY DEF EvaluationInv
    <3>2. value'[n].value \in Int  BY <3>1 DEF NodeExact, Stands
    <3> QED  BY <1>4, <1>5, <1>7, <1>8, <2>2, <3>2
  <2> QED  BY <1>4, <1>7, <2>1, <2>2
<1>10. WellFormed(expression)  BY ExpressionsAssumption DEF EvaluationInv
<1>11. PhaseInv'  BY <1>1, <1>4, <1>7, <1>10 DEF PhaseInv, Turn, WellFormed
<1> QED  BY <1>9, <1>11

LEMMA LeafTyped ==
  ASSUME EvaluationInv, EvaluationInv', LiteralsInv, PhaseInv, EvaluateConstant \/ EvaluateIdentifier
  PROVE  LiteralsInv' /\ PhaseInv'
<1>1. \A x : IsInteger(x) \in BOOLEAN  BY DEF IsInteger
<1>2. WellFormed(expression) /\ Len(value) \in Nat
  BY ExpressionsAssumption DEF EvaluationInv, Sequences
<1>3. Turn => Place \in 1 .. Len(expression)  BY <1>2 DEF Turn, Place, WellFormed
<1>4. CASE EvaluateConstant
  <2>1. Node.const \in Literals
    BY <1>3, <1>4, LiteralsAssumption DEF EvaluateConstant, EvaluationInv, Node
  <2> QED  BY <1>1, <1>4, <2>1, ValuedTyped DEF EvaluateConstant
<1>5. CASE EvaluateIdentifier
  <2>1. CASE Node.name \in DOMAIN ReplaceMap
    <3> DEFINE x == ReplaceMap[Node.name]
    <3>1. Turn /\ x \in Literals /\ Valued(x, x.value, IsInteger(x))
      BY <1>5, <2>1, LiteralsAssumption DEF EvaluateIdentifier
    <3> HIDE DEF x
    <3> QED  BY <1>1, <3>1, ValuedTyped
  <2>2. CASE Node.name \notin DOMAIN ReplaceMap
    BY <1>5, <2>2, ValuedTyped DEF EvaluateIdentifier
  <2> QED  BY <2>1, <2>2
<1> QED  BY <1>4, <1>5

LEMMA OperatorTyped ==
  ASSUME EvaluationInv, EvaluationInv', LiteralsInv, PhaseInv,
         EvaluateUnary \/ EvaluateBinary \/ EvaluateTernary
  PROVE  LiteralsInv' /\ PhaseInv'
<1>1. \A r : Sound(Node.op, r) \in BOOLEAN  BY DEF Sound
<1>2. CASE EvaluateUnary
  <2> DEFINE r == UnaryOperator(Node.op, Operand(1))
  <2>1. Turn /\ Node.op \in Unary /\ Valued(r, WordUnary(Node.op, Word(1)), Sound(Node.op, r))
    BY <1>2 DEF EvaluateUnary
  <2>2. Sound(Node.op, r) => Node.op \notin {"unsigned", "signed"}  BY DEF Sound
  <2>3. Sound(Node.op, r) => Operand(1) \in Literals
    BY <2>1, NodeIsWellFormed, LiteralOperands
  <2>4. Sound(Node.op, r) /\ r.value \in Int => r \in Literals
    BY <2>1, <2>2, <2>3, UnaryLiteral
  <2> HIDE DEF r
  <2> QED  BY <1>1, <2>1, <2>4, ValuedTyped
<1>3. CASE EvaluateBinary
  <2> DEFINE r == BinaryOperator(Node.op, Operand(1), Operand(2))
  <2>1. /\ Turn /\ Node.op \in Binary
        /\ Valued(r, WordBinary(Node.op, Word(1), Word(2)), Sound(Node.op, r))
    BY <1>3 DEF EvaluateBinary
  <2>2. DOMAIN Node.kids = {1, 2}  BY <2>1, NodeIsWellFormed
  <2>3. Sound(Node.op, r) => Operand(1) \in Literals /\ Operand(2) \in Literals
    BY <2>1, <2>2, LiteralOperands
  <2>4. Sound(Node.op, r) /\ r.value \in Int => r \in Literals
    BY <2>1, <2>3, BinaryLiteral
  <2> HIDE DEF r
  <2> QED  BY <1>1, <2>1, <2>4, ValuedTyped
<1>4. CASE EvaluateTernary
  <2> DEFINE r == TernaryOperator(Node.op, Operand(1), Operand(2), Operand(3))
  <2>1. /\ Turn /\ Node.op \in Ternaries
        /\ Valued(r, WordTernary(Node.op, Word(1), Word(2), Word(3)), Sound(Node.op, r))
    BY <1>4 DEF EvaluateTernary
  <2>2. DOMAIN Node.kids = {1, 2, 3}  BY <2>1, NodeIsWellFormed
  <2>3. Sound(Node.op, r) => /\ Operand(1) \in Literals /\ Operand(2) \in Literals
                             /\ Operand(3) \in Literals
    BY <2>1, <2>2, LiteralOperands
  <2>4. Sound(Node.op, r) /\ r.value \in Int => r \in Literals
    BY <2>1, <2>3, TernaryLiteral
  <2> HIDE DEF r
  <2> QED  BY <1>1, <2>1, <2>4, ValuedTyped
<1> QED  BY <1>2, <1>3, <1>4

LEMMA StepTyped ==
  ASSUME EvaluationInv, EvaluationInv', LiteralsInv, PhaseInv, [Next]_vars
  PROVE  LiteralsInv' /\ PhaseInv'
<1>1. CASE EvaluateConstant \/ EvaluateIdentifier  BY <1>1, LeafTyped
<1>2. CASE EvaluateUnary \/ EvaluateBinary \/ EvaluateTernary  BY <1>2, OperatorTyped
<1>3. CASE EvaluateNothing  BY <1>3, ValuedTyped DEF EvaluateNothing
<1>4. CASE Abort \/ Evaluated
  BY <1>4 DEF Abort, Evaluated, Turn, LiteralsInv, PhaseInv
<1>5. CASE Fold
  <2>1. WellFormed(expression)  BY ExpressionsAssumption DEF EvaluationInv
  <2>2. DOMAIN expression = 1 .. Len(expression) /\ Len(expression) \in Nat  BY <2>1 DEF WellFormed
  <2>3. Len(Folded) = Len(expression)  BY <2>2 DEF Folded
  <2> HIDE DEF Folded
  <2> QED  BY <1>5, <2>3 DEF Fold, LiteralsInv, PhaseInv
<1>6. CASE UNCHANGED vars
  BY <1>6 DEF vars, evaluationVars, LiteralsInv, PhaseInv
<1> QED  BY <1>1, <1>2, <1>3, <1>4, <1>5, <1>6 DEF Next, Evaluate

\* For any expressions: an expression counts as evaluated only when all its
\* nodes are, what has a meaning is a number and not the absence of one, and
\* an expression whose evaluation raises leaves no text (Analysis::evaluate
\* and constant_folding.cpp).
THEOREM TypeCorrect == Spec => []TypeOK
<1>1. Init => EvaluationInv /\ LiteralsInv /\ PhaseInv
  <2> SUFFICES ASSUME Init  PROVE EvaluationInv /\ LiteralsInv /\ PhaseInv
    OBVIOUS
  <2>1. /\ value = <<>> /\ meaning = <<>> /\ text = <<>> /\ phase = "evaluating"
        /\ expression \in Expressions
    BY DEF Init
  <2>2. /\ value \in Seq({}) /\ meaning \in Seq({}) /\ Len(value) = 0 /\ Len(meaning) = 0
    BY <2>1
  <2>3. Len(expression) \in Nat  BY <2>1, ExpressionsAssumption DEF WellFormed
  <2> QED  BY <2>1, <2>2, <2>3 DEF EvaluationInv, Sequences, LiteralsInv, PhaseInv
<1>2. EvaluationInv /\ LiteralsInv /\ PhaseInv /\ [Next]_vars
        => (EvaluationInv /\ LiteralsInv /\ PhaseInv)'
  BY StepKeeps, StepTyped
<1>3. EvaluationInv /\ LiteralsInv /\ PhaseInv => TypeOK
  <2> SUFFICES ASSUME EvaluationInv, LiteralsInv, PhaseInv  PROVE TypeOK
    OBVIOUS
  <2>1. Len(meaning) = Len(value) /\ DOMAIN value = 1 .. Len(value)
    BY DEF EvaluationInv, Sequences
  <2>2. \A n \in DOMAIN value : meaning[n].sound => value[n] # Nothing /\ value[n].value \in Int
    BY <2>1, LiteralsAssumption DEF LiteralsInv, Literals
  <2>3. Len(text) = IF phase = "folded" THEN Len(expression) ELSE 0
    BY DEF PhaseInv
  <2> QED  BY <2>1, <2>2, <2>3 DEF PhaseInv, TypeOK
<1> QED  BY <1>1, <1>2, <1>3, PTL DEF Spec
=============================================================================
