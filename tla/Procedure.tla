----------------------------- MODULE Procedure -----------------------------
(***************************************************************************)
(* The procedural statements the folding passes rewrite, and what they     *)
(* mean: the reference the passes are checked against.  A statement is a   *)
(* record; the slots body, alt, pre and post hold sequences of statements  *)
(* (one statement, or none, in the slots of an if and of a loop).          *)
(*                                                                         *)
(*   assign x = e    part x[0] = e    hier u1.x = e (another scope)        *)
(*   call  a subroutine that may write x     case, pragma, if, block       *)
(*   for, while, repeat, break, continue, return                           *)
(*                                                                         *)
(* An expression is one operation over operands, each a literal or a name. *)
(***************************************************************************)
EXTENDS Integers, Sequences, SequencesExt

CONSTANTS Vars,      \* the variables in scope
          Modulus,   \* Modulus[x]: 2 to the declared width of x
          Fuel       \* laps after which the reference calls a loop endless

ASSUME ModulusAssumption == Modulus \in [Vars -> Nat \ {0}]
ASSUME FuelAssumption == Fuel \in Nat

Lit(n) == [name |-> "", n |-> n]
Id(x) == [name |-> x, n |-> 0]
IsLit(operand) == operand.name = ""

Expr(op, args) == [op |-> op, args |-> args]
Copy(operand) == Expr("copy", <<operand>>)
IsConst(e) == \A k \in DOMAIN e.args : IsLit(e.args[k])

\* The operation of an expression over the values of its operands.
Apply(op, vals) ==
    CASE op = "copy" -> vals[1]
      [] op = "plus" -> vals[1] + vals[2]
      [] op = "less" -> IF vals[1] < vals[2] THEN 1 ELSE 0
      [] op = "same" -> IF vals[1] = vals[2] THEN 1 ELSE 0

Value(e, env) ==
    Apply(e.op, [k \in DOMAIN e.args |->
                    IF IsLit(e.args[k]) THEN e.args[k].n ELSE env[e.args[k].name]])

\* The result of Op taken over the elements of ss from left to right.
Thread(Op(_, _), start, ss) ==
    LET after[k \in 0 .. Len(ss)] ==
            IF k = 0 THEN start ELSE LET acc == after[k - 1] IN Op(acc, ss[k])
    IN  after[Len(ss)]

\* The value of a constant expression.
Evaluate(e) == Value(e, [x \in {} |-> 0])

Statement(op, name, expr, pre, post, body, alt) ==
    [op |-> op, name |-> name, expr |-> expr, pre |-> pre, post |-> post,
     body |-> body, alt |-> alt]

None == Copy(Lit(0))
Write(op, x, e) == Statement(op, x, e, <<>>, <<>>, <<>>, <<>>)
Assign(x, e) == Write("assign", x, e)
Jump(op) == Statement(op, "", None, <<>>, <<>>, <<>>, <<>>)
Return(x, e) == Statement("return", x, e, <<>>, <<>>, <<>>, <<>>)
If(c, then, else) == Statement("if", "", c, <<>>, <<>>, then, else)
Case(c, arm) == Statement("case", "", c, <<>>, <<>>, arm, <<>>)
BlockOf(ss) == Statement("block", "", None, <<>>, <<>>, ss, <<>>)
Pragma(s) == Statement("pragma", "", None, <<>>, <<>>, <<s>>, <<>>)
For(i, init, c, next, s) ==
    Statement("for", i, c, <<Assign(i, init)>>, <<Assign(i, next)>>, <<s>>, <<>>)
While(c, s) == Statement("while", "", c, <<>>, <<>>, <<s>>, <<>>)
Repeat(n, s) == Statement("repeat", "", n, <<>>, <<>>, <<s>>, <<>>)

\* The statements of a slot, or of the block it holds.
Contents(ss) == IF Len(ss) = 1 /\ ss[1].op = "block" THEN ss[1].body ELSE ss

LoopOps == {"for", "while", "repeat"}
JumpOps == {"break", "continue", "return"}
WriteOps == {"assign", "part", "call"}

-----------------------------------------------------------------------------
(* What a statement list does to a store: [env, flow], flow "normal" until *)
(* a jump, "hung" once a loop has taken Fuel laps.                         *)

Store(x, op, v, env) ==
    [env EXCEPT ![x] = IF op = "part" THEN 2 * (@ \div 2) + (v % 2)
                                      ELSE v % Modulus[x]]

\* The loop consumes the jump its body ended on.
AfterLap(s) ==
    [s EXCEPT !.flow = IF @ = "continue" THEN "normal" ELSE @]
AfterLoop(s) ==
    [s EXCEPT !.flow = IF @ = "break" THEN "normal" ELSE @]

RECURSIVE Run(_, _), Laps(_, _, _)

Step(st, s) ==
    CASE st.op \in WriteOps ->
            [s EXCEPT !.env = Store(st.name, st.op, Value(st.expr, s.env), s.env)]
      [] st.op = "hier" -> s
      [] st.op \in {"if", "case"} ->
            Run(IF Value(st.expr, s.env) # 0 THEN st.body ELSE st.alt, s)
      [] st.op \in {"block", "pragma"} -> Run(st.body, s)
      [] st.op \in {"break", "continue"} -> [s EXCEPT !.flow = st.op]
      [] st.op = "return" ->
            [env |-> IF st.name = "" THEN s.env
                     ELSE Store(st.name, "assign", Value(st.expr, s.env), s.env),
             flow |-> "return"]
      [] st.op = "repeat" -> AfterLoop(Laps(st, s, Value(st.expr, s.env)))
      [] st.op \in {"for", "while"} -> AfterLoop(Laps(st, Run(st.pre, s), Fuel))

Run(ss, s) ==
    Thread(LAMBDA acc, st : IF acc.flow = "normal" THEN Step(st, acc) ELSE acc, s, ss)

\* left: the laps a repeat has still to take, or the fuel of the others.
Laps(st, s, left) ==
    LET entered == st.op = "repeat" \/ Value(st.expr, s.env) # 0
        lap == AfterLap(Run(st.body, s))
    IN  CASE st.op = "repeat" /\ left <= 0 -> s
          [] ~entered -> s
          [] st.op # "repeat" /\ left = 0 -> [s EXCEPT !.flow = "hung"]
          [] OTHER -> IF lap.flow # "normal" THEN lap
                      ELSE Laps(st, Run(st.post, lap), left - 1)

\* What a run leaves: of an endless one, only that it is endless.
Outcome(ss, env) ==
    LET s == Run(ss, [env |-> env, flow |-> "normal"])
    IN  IF s.flow = "hung" THEN [env |-> env, flow |-> "hung"] ELSE s
=============================================================================
