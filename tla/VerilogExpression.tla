------------------------- MODULE VerilogExpression -------------------------
(***************************************************************************)
(* What an expression means in Verilog. First for the integers only:       *)
(* words of IntBits bits in two's complement, every result cut to them.    *)
(* Then with sizes and signs: an operand that is not self-determined is    *)
(* computed in the size of the whole expression and of what it is assigned *)
(* to, and signed only if all of it is. An expression is the sequence of   *)
(* its nodes, the root last; a store gives every variable the number its   *)
(* bits spell.                                                             *)
(***************************************************************************)
EXTENDS IntConst, Sequences, FiniteSetsExt

CONSTANTS
  Variables,    \* of each variable, its size and its sign
  MaxWidth      \* the widest expression

-----------------------------------------------------------------------------
(* Integers *)

\* What the provers do not know of powers of two.
ASSUME PowersAssumption ==
  \A n \in 0 .. MaxBits : /\ 2 ^ n \in Nat \ {0}
                         /\ \A i \in 0 .. n : 2 ^ n = 2 ^ i * 2 ^ (n - i)

Half      == 2 ^ (IntBits - 1)
WordRange == 2 * Half

Integer == -Half .. Half - 1

Wrap(v) == ((v + Half) % WordRange) - Half

Truth(p) == IF p THEN 1 ELSE 0

WordUnary(op, a) ==
  CASE op = "uplus"  -> a
    [] op = "uminus" -> Wrap(-a)
    [] op = "unot"   -> -1 - a
    [] op = "ulnot"  -> Truth(a = 0)
    [] op = "uand"   -> Truth(a = -1)
    [] op = "unand"  -> Truth(a # -1)
    [] op = "uor"    -> Truth(a # 0)
    [] op = "unor"   -> Truth(a = 0)
    [] op = "uxor"   -> Truth(Odd(a, IntBits))
    [] op = "uxnor"  -> Truth(~Odd(a, IntBits))
    [] op = "clog2"  -> StateBits(a % WordRange)
    [] OTHER         -> a

WordBinary(op, a, b) ==
  CASE op = "plus"    -> Wrap(a + b)
    [] op = "minus"   -> Wrap(a - b)
    [] op = "times"   -> Wrap(a * b)
    [] op = "power"   -> Wrap(a ^ b)
    [] op = "divide"  -> Wrap(Quotient(a, b))
    [] op = "mod"     -> Remainder(a, b)
    [] op = "sll"     -> Wrap(a * 2 ^ b)
    [] op = "srl"     -> Wrap((a % WordRange) \div 2 ^ b)
    [] op = "sra"     -> a \div 2 ^ b
    [] op = "lt"      -> Truth(a < b)
    [] op = "gt"      -> Truth(a > b)
    [] op = "le"      -> Truth(a <= b)
    [] op = "ge"      -> Truth(a >= b)
    [] op \in {"eq", "eql"}       -> Truth(a = b)
    [] op \in {"noteq", "noteql"} -> Truth(a # b)
    [] op = "and"     -> BitAnd(a, b)
    [] op = "xor"     -> BitXor(a, b)
    [] op = "xnor"    -> -1 - BitXor(a, b)
    [] op = "or"      -> BitOr(a, b)
    [] op = "land"    -> Truth(a # 0 /\ b # 0)
    [] op = "lor"     -> Truth(a # 0 \/ b # 0)
    [] op = "pointer" -> Bit(a, b)

\* The bits msb down to lsb of v.
Field(v, msb, lsb) == (v \div 2 ^ lsb) % 2 ^ (msb - lsb + 1)

WordTernary(op, a, b, c) ==
  CASE op = "cond"             -> IF a # 0 THEN b ELSE c
    [] op = "partselect"       -> Field(a, b, c)
    [] op = "partselect_minus" -> Field(a, b, b - c + 1)
    [] op = "partselect_plus"  -> Field(a, b + c - 1, b)

\* Two numbers that are the same word.
Congruent(v, w) == v - w = ((v - w) \div WordRange) * WordRange

\* The operators that commute with the cut to a word, in the arguments they
\* compute with. What an argument decides must be exact.
Linear(op, i) ==
  \/ op \in {"uplus", "uminus", "unot", "plus", "minus", "times"}
  \/ op = "sll" /\ i = 1
  \/ op = "cond" /\ i \in {2, 3}

\* The operands for which an operator is defined as the code computes it.
Regular(op, a) ==
  CASE op = "clog2"            -> a[1] >= 0
    [] op \in {"divide", "mod"} -> a[2] # 0
    [] op = "power"            -> a[1] # 0 /\ a[2] >= 0
    [] op \in {"sll", "sra"}   -> a[2] \in 0 .. MaxBits
    [] op = "srl"              -> a[1] >= 0 /\ a[2] \in 0 .. MaxBits
    [] op = "pointer"          -> a[2] \in 0 .. IntBits - 1
    [] op = "partselect"       -> 0 <= a[3] /\ a[3] <= a[2] /\ a[2] < IntBits
    [] op = "partselect_minus" -> 0 < a[3] /\ a[3] <= a[2] + 1 /\ a[2] < IntBits
    [] op = "partselect_plus"  -> 0 <= a[2] /\ 0 < a[3] /\ a[2] + a[3] <= IntBits
    [] OTHER                   -> TRUE

-----------------------------------------------------------------------------
(* Sizes and signs *)

Arithmetic == {"plus", "minus", "times", "divide", "mod", "and", "xor", "xnor", "or"}
Shifts     == {"sll", "srl", "sra", "power"}
Keeping    == {"uplus", "uminus", "unot"}
Comparing  == {"lt", "gt", "le", "ge", "eq", "noteq", "eql", "noteql"}
Selecting  == {"partselect", "partselect_minus", "partselect_plus"}

SizeOf(x) == IF x.size < 0 THEN IntBits ELSE x.size

\* The size of every node by itself.
SelfSizes(e) ==
  LET size[n \in DOMAIN e] ==
        LET kids == e[n].kids IN
        CASE e[n].op = "const"      -> SizeOf(e[n].const)
          [] e[n].op = "name"       -> Variables[e[n].name].size
          [] e[n].op \in Arithmetic -> Max({size[kids[1]], size[kids[2]]})
          [] e[n].op = "cond"       -> Max({size[kids[2]], size[kids[3]]})
          [] e[n].op \in Shifts \cup Keeping \cup {"unsigned", "signed"} -> size[kids[1]]
          [] e[n].op = "clog2"      -> IntBits
          [] e[n].op = "concat"     -> size[kids[1]] + size[kids[2]]
          [] e[n].op = "partselect" -> e[kids[2]].const.value - e[kids[3]].const.value + 1
          [] e[n].op \in Selecting  -> e[kids[3]].const.value
          [] OTHER                  -> 1
  IN  size

\* Whether every node by itself is signed.
SelfSigns(e) ==
  LET sign[n \in DOMAIN e] ==
        LET kids == e[n].kids IN
        CASE e[n].op = "const"      -> e[n].const.size < 0 \/ e[n].const.sign
          [] e[n].op = "name"       -> Variables[e[n].name].sign
          [] e[n].op \in Arithmetic -> sign[kids[1]] /\ sign[kids[2]]
          [] e[n].op = "cond"       -> sign[kids[2]] /\ sign[kids[3]]
          [] e[n].op \in Shifts \cup Keeping -> sign[kids[1]]
          [] OTHER                  -> e[n].op \in {"signed", "clog2"}
  IN  sign

\* Bits b of size z read as a number, and a number as w bits.
Signed(b, z) == IF b >= 2 ^ (z - 1) THEN b - 2 ^ z ELSE b
Bits(v, w)   == v % 2 ^ w
Extended(b, z, w, s) == Bits(IF s THEN Signed(b, z) ELSE b, w)

\* What division by zero gives is unknown: some number, 0 here.
Divided(v, w)    == IF w = 0 THEN 0 ELSE Quotient(v, w)
Leftover(v, w)   == IF w = 0 THEN 0 ELSE Remainder(v, w)
Raised(v, n) ==
  IF n >= 0 THEN v ^ n
  ELSE CASE v = 1  -> 1
         [] v = -1 -> IF n % 2 = 0 THEN 1 ELSE -1
         [] OTHER  -> 0

\* A count past the size shifts everything out.
ShiftedUp(v, n, w) == IF n >= w THEN 0 ELSE Bits(v * 2 ^ n, w)
ShiftedDown(v, n, w) == v \div 2 ^ Min({n, w})

\* The bits of every node in a context of w bits, signed or not. A literal
\* without a size may be printed with a minus, which is an operator.
Simulated(e, store) ==
  LET size == SelfSizes(e)
      sign == SelfSigns(e)
      bits[n \in DOMAIN e, w \in 1 .. MaxWidth, s \in BOOLEAN] ==
        LET op   == e[n].op
            kids == e[n].kids
            in(i)    == bits[kids[i], w, s]
            read(i)  == IF s THEN Signed(in(i), w) ELSE in(i)
            alone(i) == bits[kids[i], size[kids[i]], sign[kids[i]]]
            both == [w |-> Max({size[kids[1]], size[kids[2]]}), s |-> sign[kids[1]] /\ sign[kids[2]]]
            with(i)  == LET b == bits[kids[i], both.w, both.s]
                        IN  IF both.s THEN Signed(b, both.w) ELSE b
        IN
        CASE op = "const" ->
               IF e[n].const.size < 0 THEN Bits(e[n].const.value, w)
               ELSE Extended(Bits(e[n].const.value, e[n].const.size), e[n].const.size, w, s)
          [] op = "name"   -> Extended(store[e[n].name], size[n], w, s)
          [] op = "uplus"  -> in(1)
          [] op = "uminus" -> Bits(-in(1), w)
          [] op = "unot"   -> Bits(-1 - in(1), w)
          [] op = "plus"   -> Bits(in(1) + in(2), w)
          [] op = "minus"  -> Bits(in(1) - in(2), w)
          [] op = "times"  -> Bits(in(1) * in(2), w)
          [] op = "divide" -> Bits(Divided(read(1), read(2)), w)
          [] op = "mod"    -> Bits(Leftover(read(1), read(2)), w)
          [] op = "power"  -> Bits(Raised(read(1), IF sign[kids[2]] THEN Signed(alone(2), size[kids[2]]) ELSE alone(2)), w)
          [] op = "and"    -> BitAnd(in(1), in(2))
          [] op = "xor"    -> BitXor(in(1), in(2))
          [] op = "xnor"   -> Bits(-1 - BitXor(in(1), in(2)), w)
          [] op = "or"     -> BitOr(in(1), in(2))
          [] op = "sll"    -> ShiftedUp(in(1), alone(2), w)
          [] op = "srl"    -> ShiftedDown(in(1), alone(2), w)
          [] op = "sra"    -> Bits(ShiftedDown(read(1), alone(2), w), w)
          [] op = "cond"   -> IF alone(1) # 0 THEN in(2) ELSE in(3)
          [] op = "concat" -> Bits(alone(1) * 2 ^ size[kids[2]] + alone(2), w)
          [] op = "signed" -> Extended(alone(1), size[n], w, s)
          [] op = "unsigned" -> alone(1)
          [] op = "clog2"  -> Bits(StateBits(alone(1)), w)
          [] op = "ulnot"  -> IF alone(1) = 0 THEN 1 ELSE 0
          [] op = "uand"   -> IF alone(1) = 2 ^ size[kids[1]] - 1 THEN 1 ELSE 0
          [] op = "unand"  -> IF alone(1) = 2 ^ size[kids[1]] - 1 THEN 0 ELSE 1
          [] op = "uor"    -> IF alone(1) # 0 THEN 1 ELSE 0
          [] op = "unor"   -> IF alone(1) # 0 THEN 0 ELSE 1
          [] op = "uxor"   -> IF Odd(alone(1), size[kids[1]]) THEN 1 ELSE 0
          [] op = "uxnor"  -> IF Odd(alone(1), size[kids[1]]) THEN 0 ELSE 1
          [] op = "lt"     -> IF with(1) < with(2) THEN 1 ELSE 0
          [] op = "gt"     -> IF with(1) > with(2) THEN 1 ELSE 0
          [] op = "le"     -> IF with(1) <= with(2) THEN 1 ELSE 0
          [] op = "ge"     -> IF with(1) >= with(2) THEN 1 ELSE 0
          [] op \in {"eq", "eql"}       -> IF with(1) = with(2) THEN 1 ELSE 0
          [] op \in {"noteq", "noteql"} -> IF with(1) # with(2) THEN 1 ELSE 0
          [] op = "land"   -> IF alone(1) # 0 /\ alone(2) # 0 THEN 1 ELSE 0
          [] op = "lor"    -> IF alone(1) # 0 \/ alone(2) # 0 THEN 1 ELSE 0
          [] op = "pointer"    -> IF alone(2) < size[kids[1]] THEN Bit(alone(1), alone(2)) ELSE 0
          [] op = "partselect" -> Field(alone(1), alone(2), alone(3))
          [] op = "partselect_minus" -> Field(alone(1), alone(2), alone(2) - alone(3) + 1)
          [] op = "partselect_plus"  -> Field(alone(1), alone(2) + alone(3) - 1, alone(2))
  IN  bits

\* What a net of so many bits gets when the expression is assigned to it.
Driven(e, store, width) ==
  LET root == Len(e)
      w == Max({width, SelfSizes(e)[root]})
  IN  Bits(Simulated(e, store)[root, w, SelfSigns(e)[root]], width)
=============================================================================
