-------------------------- MODULE FsmLoopLowering --------------------------
(***************************************************************************)
(* The rolled bounded loops of a marked process made whiles, as the pass   *)
(* FsmLoopLowering rewrites them before the walk: a repeat becomes a       *)
(* countdown register and a while, a for the induced commits of its index  *)
(* around a while.  Pure tree rewriting: Lower maps a source tree to the   *)
(* tree FsmWalk walks.                                                     *)
(***************************************************************************)
EXTENDS FsmExpr, Sequences, FiniteSets

CONSTANTS
  SourceId,  \* node identities of the source trees: 1 .. their number
  Countdown  \* the countdown register of each repeat-nesting depth

\* The k-th node a rewriting of n makes.
Fresh(k, n) == k * Cardinality(SourceId) + n

LoweredId == 1 .. 5 * Cardinality(SourceId)

Loops == {"while", "forever", "repeat", "for"}

ConstantOf(e) == e[CHOOSE s \in WideStore : TRUE]
IsConstantExpr(e) == \A s \in WideStore : e[s] = ConstantOf(e)

\* A repeat that folds to 0 or 1 passes takes no countdown.
Counts(d) == d.kind = "repeat" /\ (IsConstantExpr(d.val) => ConstantOf(d.val) >= 2)

Reads(v) == [s \in WideStore |-> s[v]]
Minus1(v) == [s \in WideStore |-> (s[v] + WideModulus - 1) % WideModulus]

Nonzero(v) == [lhs |-> Reads(v), rhs |-> 0, eq |-> FALSE]

Parents(text, n) == {p \in SourceId : \E i \in DOMAIN text.node[p].kids : text.node[p].kids[i] = n}

\* The depth of the countdown a repeat at n uses, outermost first.
Depth(text, n) ==
  LET depth[m \in SourceId] ==
        IF Parents(text, m) = {} THEN 1
        ELSE LET p == CHOOSE p \in Parents(text, m) : TRUE
             IN  depth[p] + (IF Counts(text.node[p]) THEN 1 ELSE 0)
  IN  depth[n]

\* Mutant: every repeat counts in the register of the outermost.
CountdownShared(text, n) == Countdown[1]

CountdownOf(text, n) == Countdown[Depth(text, n)]

\* The loop a break or a continue jumps in.
Owner(text, n) ==
  LET owner[m \in SourceId] ==
        LET p == CHOOSE p \in Parents(text, m) : TRUE
        IN  IF text.node[p].kind \in Loops THEN p ELSE owner[p]
  IN  owner[n]

Log2Up[n \in Nat] == IF n <= 2 THEN 1 ELSE 1 + Log2Up[(n + 1) \div 2]

\* The values the countdown of a repeat is given the bits for: a constant
\* count N takes clog2(N) bits, a signal the bits of its declaration.
CountdownModulus(d) ==
  IF IsConstantExpr(d.val) THEN 2 ^ Log2Up[ConstantOf(d.val)] ELSE Modulus[d.var]

-----------------------------------------------------------------------------

Made(d, kind, kids, tests, var, val) ==
  [kind |-> kind, kids |-> kids, tests |-> tests, dflt |-> 0,
   var |-> var, val |-> val, decls |-> {}]

Kept(d) == [kind |-> d.kind, kids |-> d.kids, tests |-> d.tests, dflt |-> d.dflt,
            var |-> d.var, val |-> d.val, decls |-> d.decls]

\* What node n and the nodes made from it become, by their rank.
LowerRepeat(text, n) ==
  LET d == text.node[n]
      c == CountdownOf(text, n)
  IN
  IF Counts(d)
  THEN <<Made(d, "block", <<Fresh(1, n), Fresh(2, n)>>, <<>>, d.var, d.val),
         Made(d, "induced", <<>>, <<>>, c, d.val),
         Made(d, "while", <<Fresh(3, n)>>, <<Nonzero(c)>>, c, d.val),
         Made(d, "block", <<Fresh(4, n), d.kids[1]>>, <<>>, c, d.val),
         Made(d, "induced", <<>>, <<>>, c, Minus1(c))>>
  ELSE IF ConstantOf(d.val) = 0
  THEN <<Made(d, "block", <<>>, <<>>, d.var, d.val)>>
  ELSE <<Made(d, "forever", <<Fresh(1, n)>>, <<>>, d.var, d.val),
         Made(d, "block", <<d.kids[1], Fresh(2, n)>>, <<>>, d.var, d.val),
         Made(d, "break", <<>>, <<>>, d.var, d.val)>>

LowerFor(text, n) ==
  LET d == text.node[n] IN
  <<Made(d, "block", <<Fresh(1, n), Fresh(2, n)>>, <<>>, d.var, d.val),
    Made(d, "induced", <<>>, <<>>, d.var, d.val),
    Made(d, "while", <<Fresh(3, n)>>, d.tests, d.var, d.val),
    Made(d, "block", <<d.kids[1], Fresh(4, n)>>, <<>>, d.var, d.val),
    Made(d, "induced", <<>>, <<>>, d.var, d.step)>>

\* Mutant: a continue goes to the loop head past the step.
LowerContinueBare(text, n) == <<Kept(text.node[n])>>

\* A continue re-arms the step of its for; in a run-once repeat it leaves.
LowerContinue(text, n) ==
  LET d == text.node[n]
      o == text.node[Owner(text, n)]
  IN
  CASE o.kind = "for" ->
         <<Made(d, "block", <<Fresh(1, n), Fresh(2, n)>>, <<>>, o.var, o.val),
           Made(d, "induced", <<>>, <<>>, o.var, o.step),
           Kept(d)>>
    [] o.kind = "repeat" /\ ~Counts(o) ->
         <<Made(d, "break", <<>>, <<>>, d.var, d.val)>>
    [] OTHER -> <<Kept(d)>>

Rewritten(text, n) ==
  CASE text.node[n].kind = "repeat"   -> LowerRepeat(text, n)
    [] text.node[n].kind = "for"      -> LowerFor(text, n)
    [] text.node[n].kind = "continue" -> LowerContinue(text, n)
    [] OTHER                          -> <<Kept(text.node[n])>>

\* What the process blocking-assigns that is no temporary of it.
Outputs(text) == {text.node[n].var : n \in {m \in SourceId : text.node[m].kind = "decoded"}}

Lower(text) ==
  LET made   == [n \in SourceId |-> Rewritten(text, n)]
      rank(m) == (m - 1) \div Cardinality(SourceId)
      old(m) == m - rank(m) * Cardinality(SourceId)
  IN  [root   |-> text.root,
       enable |-> text.enable,
       encoding |-> text.encoding,
       outputs |-> Outputs(text),
       node   |-> [m \in LoweredId |->
                     IF rank(m) < Len(made[old(m)]) THEN made[old(m)][rank(m) + 1]
                     ELSE Made(text.node[1], "block", <<>>, <<>>,
                               text.node[1].var, text.node[1].val)]]
=============================================================================
