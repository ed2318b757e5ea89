-------------------------- MODULE ConstantFolding --------------------------
(***************************************************************************)
(* expression_evaluation.cpp and constant_folding.cpp. An expression is    *)
(* the sequence of its nodes, operands before the operator that takes them *)
(* and the root last. It is evaluated from its leaves up: a node gives a   *)
(* literal, or nothing when it depends on a name that has no value, and    *)
(* one that divides by zero takes the program down. Then every expression  *)
(* that evaluates is replaced by its literal, the outermost ones first.    *)
(* The pass itself gives no name a value; loop unrolling evaluates with    *)
(* the index of the loop for one.                                          *)
(* meaning is history: the word a simulator computes at every node, and    *)
(* whether every operand that decides something has stayed an integer.     *)
(***************************************************************************)
EXTENDS VerilogExpression

CONSTANTS
  Expressions,  \* the expressions evaluated
  ReplaceMap,   \* the names that have a value, and the literal each has
  Nothing,      \* no value
  Widths        \* the widths of the nets driven

VARIABLES
  expression,
  phase,    \* "evaluating", "evaluated", "folded" or "aborted"
  value,    \* the literals of the nodes evaluated so far, or Nothing
  meaning,  \* of each of them, its word and whether it is sound
  text      \* the expression after the pass

evaluationVars == <<expression, phase, value, meaning>>
vars == <<evaluationVars, text>>

Unary   == {"uplus", "uminus", "ulnot", "unot", "uand", "unand", "uor", "unor", "uxor", "uxnor",
            "clog2", "unsigned", "signed"}
Binary  == {"power", "times", "divide", "mod", "plus", "minus", "sll", "srl", "sra", "lt", "gt",
            "le", "ge", "eq", "noteq", "eql", "noteql", "and", "xor", "xnor", "or", "land", "lor",
            "pointer"}
Ternaries == {"cond", "partselect", "partselect_minus", "partselect_plus"}

UnaryOperator(op, x) ==
  CASE op = "uplus"    -> Uplus(x)
    [] op = "uminus"   -> Uminus(x)
    [] op = "ulnot"    -> Ulnot(x)
    [] op = "unot"     -> Unot(x)
    [] op = "uand"     -> Uand(x)
    [] op = "unand"    -> Unand(x)
    [] op = "uor"      -> Uor(x)
    [] op = "unor"     -> Unor(x)
    [] op = "uxor"     -> Uxor(x)
    [] op = "uxnor"    -> Uxnor(x)
    [] op = "clog2"    -> Clog2(x)
    [] op = "unsigned" -> UnsignedFct(x)
    [] op = "signed"   -> SignedFct(x)

BinaryOperator(op, x, y) ==
  CASE op = "power"  -> Power(x, y)
    [] op = "times"  -> Times(x, y)
    [] op = "divide" -> Divide(x, y)
    [] op = "mod"    -> Mod(x, y)
    [] op = "plus"   -> Plus(x, y)
    [] op = "minus"  -> Minus(x, y)
    [] op = "sll"    -> Sll(x, y)
    [] op = "srl"    -> Srl(x, y)
    [] op = "sra"    -> Sra(x, y)
    [] op = "lt"     -> LessThan(x, y)
    [] op = "gt"     -> GreaterThan(x, y)
    [] op = "le"     -> LessEqual(x, y)
    [] op = "ge"     -> GreaterEqual(x, y)
    [] op \in {"eq", "eql"}       -> Equal(x, y)
    [] op \in {"noteq", "noteql"} -> NotEqual(x, y)
    [] op = "and"    -> BitwiseAnd(x, y)
    [] op = "xor"    -> BitwiseXor(x, y)
    [] op = "xnor"   -> BitwiseXnor(x, y)
    [] op = "or"     -> BitwiseOr(x, y)
    [] op = "land"   -> LogicalAnd(x, y)
    [] op = "lor"    -> LogicalOr(x, y)
    [] op = "pointer" -> Pointer(x, y)

TernaryOperator(op, x, y, z) ==
  CASE op = "cond"             -> Ternary(x, y, z)
    [] op = "partselect"       -> Partselect(x, y, z)
    [] op = "partselect_minus" -> PartselectMinus(x, y, z)
    [] op = "partselect_plus"  -> PartselectPlus(x, y, z)

-----------------------------------------------------------------------------

\* The nodes of an expression come after their operands, which are as many
\* as the operator takes.
WellFormed(e) ==
  /\ Len(e) \in Nat /\ DOMAIN e = 1 .. Len(e)
  /\ \A n \in 1 .. Len(e) :
       /\ \A i \in DOMAIN e[n].kids : e[n].kids[i] \in 1 .. n - 1
       /\ e[n].op \in Unary => DOMAIN e[n].kids = {1}
       /\ e[n].op \in Binary => DOMAIN e[n].kids = {1, 2}
       /\ e[n].op \in Ternaries => DOMAIN e[n].kids = {1, 2, 3}

ASSUME ExpressionsAssumption == \A e \in Expressions : WellFormed(e)

ASSUME LiteralsAssumption ==
  /\ \A e \in Expressions : \A n \in 1 .. Len(e) : e[n].op = "const" => e[n].const \in Literals
  /\ \A v \in DOMAIN ReplaceMap : ReplaceMap[v] \in Literals
  /\ Nothing \notin Literals

-----------------------------------------------------------------------------

Place == Len(value) + 1      \* the node evaluated next

Node == expression[Place]

Operand(i) == value[Node.kids[i]]

Evaluable == \A i \in DOMAIN Node.kids : Operand(i) # Nothing

\* What gives bits and no integer: the arithmetic of these is unsigned.
GivesBits == {"ulnot", "uand", "unand", "uor", "unor", "uxor", "uxnor", "unsigned", "signed", "lt",
              "gt", "le", "ge", "eq", "noteq", "eql", "noteql", "land", "lor", "pointer",
              "partselect", "partselect_minus", "partselect_plus"}

\* An operator asks for integers, or for the truth of anything.
Typed(op, i) ==
  \/ expression[Node.kids[i]].op \notin GivesBits
  \/ op \in {"ulnot", "land", "lor"}
  \/ op = "cond" /\ i = 1

\* A literal without a size is sound; an operator is when its operands are,
\* and those that decide something, and what they decide, are integers.
Sound(op, result) ==
  LET kids  == Node.kids
      exact == {i \in DOMAIN kids : ~Linear(op, i)}
  IN  /\ \A i \in DOMAIN kids : meaning[kids[i]].sound
      /\ \A i \in DOMAIN kids : Typed(op, i)
      /\ \A i \in exact : Operand(i).value \in Integer
      /\ op \notin {"unsigned", "signed"}
      /\ Regular(op, [i \in DOMAIN kids |-> Operand(i).value])
      /\ exact = DOMAIN kids => result.value \in Integer

Word(i) == meaning[Node.kids[i]].word

Valued(x, word, sound) ==
  /\ value' = Append(value, x)
  /\ meaning' = Append(meaning, [word |-> IF sound THEN word ELSE 0, sound |-> sound])
  /\ UNCHANGED <<expression, phase, text>>

-----------------------------------------------------------------------------

Init ==
  /\ expression \in Expressions
  /\ phase = "evaluating"
  /\ value = <<>>
  /\ meaning = <<>>
  /\ text = <<>>

Turn == phase = "evaluating" /\ Len(value) < Len(expression)

IsInteger(x) == x.size = Unsized /\ x.value \in Integer

EvaluateConstant ==
  /\ Turn /\ Node.op = "const"
  /\ Valued(Node.const, Node.const.value, IsInteger(Node.const))

\* A name stands for the literal of the replace map, if it is there.
EvaluateIdentifier ==
  /\ Turn /\ Node.op = "name"
  /\ \/ /\ Node.name \in DOMAIN ReplaceMap
        /\ LET x == ReplaceMap[Node.name] IN Valued(x, x.value, IsInteger(x))
     \/ /\ Node.name \notin DOMAIN ReplaceMap
        /\ Valued(Nothing, 0, FALSE)

EvaluateUnary ==
  /\ Turn /\ Node.op \in Unary /\ Evaluable
  /\ LET x == UnaryOperator(Node.op, Operand(1))
     IN  Valued(x, WordUnary(Node.op, Word(1)), Sound(Node.op, x))

\* cpp_int raises on a zero divisor and on a count past its storage, and
\* nothing catches it.
Raises ==
  \/ Node.op \in {"divide", "mod"} /\ Operand(2).value = 0
  \/ Node.op = "sll" /\ Operand(2).value < 0 /\ Operand(1).value # 0

EvaluateBinary ==
  /\ Turn /\ Node.op \in Binary /\ Evaluable /\ ~Raises
  /\ LET x == BinaryOperator(Node.op, Operand(1), Operand(2))
     IN  Valued(x, WordBinary(Node.op, Word(1), Word(2)), Sound(Node.op, x))

\* Mutant: the exception is caught, and the evaluation counts as done.
AbortCaught ==
  /\ Turn /\ Node.op \in Binary /\ Evaluable /\ Raises
  /\ phase' = "evaluated"
  /\ UNCHANGED <<expression, value, meaning, text>>

Abort ==
  /\ Turn /\ Node.op \in Binary /\ Evaluable /\ Raises
  /\ phase' = "aborted"
  /\ UNCHANGED <<expression, value, meaning, text>>

\* The branch not taken is evaluated with the rest.
EvaluateTernary ==
  /\ Turn /\ Node.op \in Ternaries /\ Evaluable
  /\ LET x == TernaryOperator(Node.op, Operand(1), Operand(2), Operand(3))
     IN  Valued(x, WordTernary(Node.op, Word(1), Word(2), Word(3)), Sound(Node.op, x))

\* An operand without a value, or a node that is no operator.
EvaluateNothing ==
  /\ Turn /\ Node.op \notin {"const", "name"}
  /\ \/ ~Evaluable
     \/ Node.op \notin Unary \cup Binary \cup Ternaries
  /\ Valued(Nothing, 0, FALSE)

Evaluate ==
  \/ EvaluateConstant \/ EvaluateIdentifier \/ EvaluateUnary \/ EvaluateBinary
  \/ EvaluateTernary \/ EvaluateNothing \/ Abort

Evaluated ==
  /\ phase = "evaluating" /\ Len(value) = Len(expression)
  /\ phase' = "evaluated"
  /\ UNCHANGED <<expression, value, meaning, text>>

\* A literal as printed: a negative one with a size is wrapped in it once.
Printed(x) ==
  Literal(x.size, x.sign, IF x.size >= 0 /\ x.value < 0 THEN UnsignedFct(x).value ELSE x.value)

Constant(x) == [op |-> "const", kids |-> <<>>, const |-> Printed(x)]

\* What is below a literal is no longer part of the text.
Folded == [n \in DOMAIN expression |->
             IF value[n] = Nothing THEN expression[n] ELSE Constant(value[n])]

Fold ==
  /\ phase = "evaluated"
  /\ phase' = "folded"
  /\ text' = Folded
  /\ UNCHANGED <<expression, value, meaning>>

Next == Evaluate \/ Evaluated \/ Fold

Spec == Init /\ [][Next]_vars

-----------------------------------------------------------------------------

\* An expression counts as evaluated when all its nodes are, those with a
\* sound meaning into a literal; an exception leaves no text at all.
TypeOK ==
  /\ phase \in {"evaluating", "evaluated", "aborted", "folded"}
  /\ Len(value) <= Len(expression) /\ Len(meaning) = Len(value)
  /\ phase \in {"evaluated", "folded"} => Len(value) = Len(expression)
  /\ \A n \in DOMAIN value : meaning[n].sound => value[n] # Nothing /\ value[n].value \in Int
  /\ Len(text) = IF phase = "folded" THEN Len(expression) ELSE 0

\* The unlimited numbers of the evaluator and the words of the simulator
\* differ by whole words, whatever overflows on the way, until an operator
\* that compares, divides, selects or shifts right gets an operand that is no
\* integer; and a value that is an integer is the simulated one.
IntegersExact ==
  \A n \in DOMAIN value : meaning[n].sound =>
    /\ Congruent(value[n].value, meaning[n].word)
    /\ value[n].value \in Integer => value[n].value = meaning[n].word

\* What the variables may hold; a parameter holds its literal.
Stores ==
  {s \in [DOMAIN Variables -> 0 .. 2 ^ IntBits - 1] :
     \A v \in DOMAIN Variables :
       /\ s[v] < 2 ^ Variables[v].size
       /\ v \in DOMAIN ReplaceMap => s[v] = ReplaceMap[v].value}

\* The text drives every net as the source does, whatever its width and
\* whatever the variables hold.  SameSignal says of which texts that is true.
DrivesTheSame ==
  phase = "folded" =>
    \A s \in Stores, w \in Widths : Driven(text, s, w) = Driven(expression, s, w)

\* A literal of the size and sign of the expression it stands for, which
\* holds it without a sign bit. Zero to the zero, and one to a negative
\* power, are one in Verilog.
KeepsItsType(n) ==
  LET x == value[n]
      signed == SelfSigns(expression)[n]
  IN  /\ SizeOf(x) = SelfSizes(expression)[n]
      /\ (x.size < 0 \/ x.sign) = signed
      /\ x.value \in 0 .. 2 ^ (SizeOf(x) - (IF signed THEN 1 ELSE 0)) - 1
      /\ expression[n].op = "power" => /\ value[expression[n].kids[1]].value # 0
                                       /\ value[expression[n].kids[2]].value >= 0

\* Folding is invisible in any surroundings, in nets of any width and with
\* variables of any value, where every literal computed on the way keeps the
\* type of the expression it stands for.
SameSignal ==
  (phase = "folded" /\ \A n \in DOMAIN value : value[n] # Nothing => KeepsItsType(n))
    => DrivesTheSame
=============================================================================
