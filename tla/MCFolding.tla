----------------------------- MODULE MCFolding -----------------------------
(***************************************************************************)
(* Expressions for TLC: two operators one inside the other, alone, with a  *)
(* minus before an operand, under a unary operator, over a parameter and   *)
(* beside a variable; conditions, selections and concatenations; numbers   *)
(* with a size.                                                            *)
(***************************************************************************)
EXTENDS ConstantFolding

Num(v)        == [op |-> "const", kids |-> <<>>, const |-> Literal(Unsized, FALSE, v)]
Sized(z, g, v) == [op |-> "const", kids |-> <<>>, const |-> Literal(z, g, v)]
Name(v)       == [op |-> "name", kids |-> <<>>, name |-> v]
Op(op, kids)  == [op |-> op, kids |-> kids]

MCReplaceMap == [p |-> Literal(Unsized, FALSE, 3)]

MCVariables == [x |-> [size |-> 3, sign |-> FALSE], p |-> [size |-> IntBits, sign |-> TRUE]]

\* Counts and exponents are literals: the numbers stay within MaxBits.
Counting == {"power", "sll", "srl", "sra", "pointer"}
Growing  == {"power", "times", "sll"}

Inner  == {"plus", "minus", "times", "divide", "mod", "power", "sll", "sra", "and", "lt"}

\* Both sides of an operator: (a f b) g c and a g (b f c).
LeftNested ==
  {<<a, Num(5), Op(f, <<1, 2>>), c, Op(g, <<3, 4>>)>> :
     a \in {Num(0), Num(5), Name("p")}, c \in {Num(1), Num(5)}, f \in Inner, g \in Binary}

RightNested ==
  {<<a, b, c, Op(f, <<2, 3>>), Op(g, <<1, 4>>)>> :
     a \in {Num(6), Name("x")}, b \in {Num(0), Num(5)}, c \in {Num(5), Num(2)}, f \in Inner, g \in Binary \ Counting}

Negated ==
  {<<Num(5), b, Op("uminus", <<2>>), Op(f, <<1, 3>>)>> : b \in {Num(1), Num(5)}, f \in Binary}
    \cup {<<a, Op("uminus", <<1>>), Num(2), Op(f, <<2, 3>>), Op(g, <<4>>)>> :
            a \in {Num(1), Num(5)}, f \in Binary \ Counting, g \in Unary}

\* A constant beside a variable, with a condition used as a number; a
\* condition with a branch that divides; selections from a product.
Shaped ==
  {<<Name("x"), a, Num(2), Op(f, <<2, 3>>), Op(g, <<1, 4>>), Op("concat", <<5, 2>>)>> :
     a \in {Num(1), Num(5)}, f \in {"plus", "minus", "lt"}, g \in {"plus", "lt", "xor", "eq"}}
  \cup {<<a, b, Op(f, <<1, 2>>), c, Num(2), Op("minus", <<2, 5>>), Op("cond", <<3, 4, 6>>)>> :
     a \in {Num(0), Num(5)}, b \in {Num(0), Num(2)}, c \in {Num(1), Name("x")},
     f \in {"lt", "minus", "divide"}}
  \cup {<<a, Num(5), Op("times", <<1, 2>>), Num(2), Num(1), Op(f, <<3, 4, 5>>), Num(2), Op(g, <<6, 7>>)>> :
     a \in {Num(1), Num(5)}, f \in Ternaries \ {"cond"}, g \in {"plus", "lt", "land"}}

Small == {Sized(3, FALSE, 5), Sized(2, FALSE, 3), Sized(3, TRUE, -3), Num(6)}

WithSizes ==
  {<<a, b, Op(f, <<1, 2>>), Name("x"), Op(g, <<3, 4>>)>> :
     a \in Small, b \in Small, f \in Binary \ Counting, g \in {"plus", "concat"}}
  \cup {<<a, Op(f, <<1>>), Op(g, <<2, 1>>)>> : a \in Small, f \in Unary, g \in {"xor", "eq", "concat"}}

\* A power is not raised nor multiplied up: the numbers stay within MaxBits.
Bounded(e) == \A n \in DOMAIN e : e[n].op = "power" => e[e[n].kids[1]].op \notin Growing

MCExpressions == {e \in LeftNested : Bounded(e)} \cup RightNested \cup Negated \cup Shaped \cup WithSizes
=============================================================================
