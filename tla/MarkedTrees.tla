---------------------------- MODULE MarkedTrees ----------------------------
(***************************************************************************)
(* Constructors for the source trees the model-checking modules compile.   *)
(* A tree is the sequence of its nodes, the root first, every statement    *)
(* referring to the statements below it by their position.                 *)
(***************************************************************************)
EXTENDS FsmRefinement

AnyVar == CHOOSE v \in Vars : TRUE

\* Expressions and tests.
C(k)      == [s \in WideStore |-> k]
V(v)      == [s \in WideStore |-> s[v]]
Plus(v, k) == [s \in WideStore |-> (s[v] + k) % WideModulus]
Flip(v)   == [s \in WideStore |-> IF s[v] = 0 THEN 1 ELSE 0]
Sum(u, v) == [s \in WideStore |-> (s[u] + s[v]) % WideModulus]
Less(v, k) == [lhs |-> [s \in WideStore |-> IF s[v] < k THEN 1 ELSE 0], rhs |-> 0, eq |-> FALSE]
Is(v, k)  == [lhs |-> V(v), rhs |-> k, eq |-> TRUE]
IsNot(v, k) == [lhs |-> V(v), rhs |-> k, eq |-> FALSE]
Set(v)    == IsNot(v, 0)

\* A statement gives the fields it has a use for.
Block(kids)       == [kind |-> "block", kids |-> kids]
Scope(decls, kids) == [kind |-> "block", kids |-> kids, decls |-> decls]
Nba(v, e)         == [kind |-> "nba", var |-> v, val |-> e]
Capture(v, e)     == [kind |-> "induced", var |-> v, val |-> e]
Temp(v, e)        == [kind |-> "temp", var |-> v, val |-> e]
Show(v, e)        == [kind |-> "decoded", var |-> v, val |-> e]
If(t, a, b)       == [kind |-> "if", tests |-> <<t>>, kids |-> <<a, b>>]
While(t, b)       == [kind |-> "while", tests |-> <<t>>, kids |-> <<b>>]
Forever(b)        == [kind |-> "forever", kids |-> <<b>>]
Repeat(e, b)      == [kind |-> "repeat", val |-> e, kids |-> <<b>>]
RepeatOf(v, b)    == [kind |-> "repeat", val |-> V(v), kids |-> <<b>>, var |-> v]
For(v, e, t, f, b) == [kind |-> "for", var |-> v, val |-> e, tests |-> <<t>>, step |-> f,
                       kids |-> <<b>>]
Break             == [kind |-> "break"]
Continue          == [kind |-> "continue"]
WaitThen(n)       == [kind |-> "wait", kids |-> <<n>>]
Wait              == WaitThen(NoNode)

\* case (v): list is a sequence of <<value, statement>>, dflt its default.
Case(v, list, dflt) ==
  [kind |-> "case", dflt |-> dflt,
   tests |-> [i \in DOMAIN list |-> Is(v, list[i][1])],
   kids |-> [i \in DOMAIN list |-> list[i][2]]]

\* case (1'b1): the arms are the tests that match, in their order.
Reverse(list, dflt) ==
  [kind |-> "reverse", dflt |-> dflt,
   tests |-> [i \in DOMAIN list |-> list[i][1]],
   kids |-> [i \in DOMAIN list |-> list[i][2]]]

TreeWith(enable, list) == [enable |-> enable, encoding |-> "binary", list |-> list]

Encoded(code, list) == [enable |-> {}, encoding |-> code, list |-> list]

Tree(list) == TreeWith({}, list)

\* The texts of the processes: the fields no statement uses are filled in, and
\* the positions past the end of a tree hold an empty block.
Texts(trees) ==
  LET plain == [kind |-> "block", kids |-> <<>>, tests |-> <<>>, dflt |-> 0,
                var |-> AnyVar, val |-> C(0), step |-> C(0), decls |-> {}]
  IN  Computed([p \in DOMAIN trees |->
         [root |-> 1, enable |-> trees[p].enable, encoding |-> trees[p].encoding,
          node |-> Computed([n \in SourceId |->
                     IF n <= Len(trees[p].list) THEN trees[p].list[n] @@ plain ELSE plain])]])

\* The trees the walk is given.
Programs(texts) ==
  Computed([p \in DOMAIN texts |-> [Lower(texts[p]) EXCEPT !.node = Computed(@)]])

\* No statement has two parents.
IsTree(text) ==
  \A m, n \in SourceId : \A i \in DOMAIN text.node[m].kids : \A j \in DOMAIN text.node[n].kids :
    text.node[m].kids[i] = text.node[n].kids[j] /\ text.node[m].kids[i] # NoNode
      => m = n /\ i = j
=============================================================================
