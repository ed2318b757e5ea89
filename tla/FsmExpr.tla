------------------------------ MODULE FsmExpr ------------------------------
(***************************************************************************)
(* The expressions a marked process computes with, as far as the lowering  *)
(* tells them apart.  An expression of the C++ tree is the value it has in *)
(* every store; the environment of a segment (std::map<name, node> in the  *)
(* code) is what it makes of the store of the segment's start; clone_subst *)
(* is composition.  Declared widths are moduli: a register keeps a value   *)
(* modulo its own, an expression is computed modulo WideModulus, which     *)
(* stands for the 32 bits of an unsized Verilog operand.                   *)
(***************************************************************************)
EXTENDS Integers

CONSTANTS
  Vars,         \* registers, temporaries and inputs the process names
  Modulus,      \* 2^(declared width), for each of them
  WideModulus   \* 2^(width of the context an expression is computed in)

ASSUME ExprAssumption ==
  /\ WideModulus \in Nat \ {0}
  /\ Modulus \in [Vars -> 1 .. WideModulus]

Wide      == 0 .. WideModulus - 1
WideStore == [Vars -> Wide]

\* The stores the registers can hold at a clock edge.
Store == {s \in WideStore : \A v \in Vars : s[v] < Modulus[v]}

\* An assignment keeps the bits of its target's declaration.
Truncate(v, x) == x % Modulus[v]

Expr == [WideStore -> Wide]

\* A condition, in one of the shapes the guards compare: lhs = rhs or
\* lhs # rhs, rhs a constant (`if (x)` is x # 0, a case arm is comp = value).
Test == [lhs : Expr, rhs : Wide, eq : BOOLEAN]

-----------------------------------------------------------------------------
(* Environments and substitution *)

Value == [Store -> Wide]
Env   == [Store -> WideStore]

NoEnv == [s \in Store |-> s]

Bind(env, v, x) == [s \in Store |-> [env[s] EXCEPT ![v] = x[s]]]

Forget(env, names) ==
  [s \in Store |-> [v \in Vars |-> IF v \in names THEN s[v] ELSE env[s][v]]]

SubstExpr(e, env) == [s \in Store |-> e[env[s]]]

TruncateValue(v, x) == [s \in Store |-> Truncate(v, x[s])]

\* Whether a value reads name v of the store.
DependsOn(x, v) ==
  \E s \in Store : \E k \in 0 .. Modulus[v] - 1 : x[s] # x[[s EXCEPT ![v] = k]]

-----------------------------------------------------------------------------
(* The conjuncts of a guard *)

Literal == [lhs : Value, rhs : Wide, eq : BOOLEAN]

SubstTest(t, env) == [lhs |-> SubstExpr(t.lhs, env), rhs |-> t.rhs, eq |-> t.eq]

Holds(l, s) == (l.lhs[s] = l.rhs) <=> l.eq

Satisfies(s, guard) == \A l \in guard : Holds(l, s)

Negated(l) == [lhs |-> l.lhs, rhs |-> l.rhs, eq |-> ~l.eq]

\* Mutant: a == j taken to contradict a != k.
ComplementsAnyLabel(a, b) ==
  a.lhs = b.lhs /\ (a.rhs = b.rhs => a.eq # b.eq)

\* c against !c, a == k against a != k, a == j against a == k.
Complements(a, b) ==
  /\ a.lhs = b.lhs
  /\ IF a.rhs = b.rhs THEN a.eq # b.eq ELSE a.eq /\ b.eq

\* Whether adding the conjuncts of extra to guard makes the leg empty.
Contradicts(guard, extra) ==
  \E g \in guard, l \in extra : Complements(g, l)

IsConstant(l, b) == \A s \in Store : Holds(l, s) = b
=============================================================================
