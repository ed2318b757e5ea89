------------------------------ MODULE MCResolve ------------------------------
(***************************************************************************)
(* Initial blocks built around one loop, with every kind of statement and  *)
(* jump in its body, and constant functions of the same shapes.  u is what *)
(* the text does not determine; no text reads a for's index after it.      *)
(***************************************************************************)
EXTENDS ResolveModule

MCVars == {"f", "i", "j", "u", "x", "y"}
MCModulus == [v \in MCVars |-> 64]

Plus(a, b) == Expr("plus", <<a, b>>)
Less(a, b) == Expr("less", <<a, b>>)
Same(a, b) == Expr("same", <<a, b>>)
X == Id("x")
U == Copy(Id("u"))
Const(n) == Copy(Lit(n))

Counted(i, n, s) == For(i, Const(0), Less(Id(i), n), Plus(Id(i), Lit(1)), s)
Inc == Assign("x", Plus(X, Lit(1)))

Loops(s) ==
    {Counted("i", Lit(2), s), Counted("i", Id("u"), s), Pragma(Counted("i", Lit(2), s)),
     For("i", Const(2), Less(Id("i"), Lit(2)), Plus(Id("i"), Lit(1)), s),
     While(Less(X, Lit(3)), s), While(Const(1), s),
     Repeat(Const(2), s), Repeat(U, s)}

Firsts ==
    {Inc, Assign("x", Plus(Id("i"), Lit(1))), Write("part", "x", Const(1)),
     Write("hier", "x", Const(7)), Write("call", "x", U), Case(U, <<Assign("x", Const(2))>>),
     If(Less(X, Lit(2)), <<BlockOf(<<Inc>>)>>, <<>>)}

Jumps ==
    {<<>>, <<Jump("break")>>, <<Jump("continue")>>,
     <<If(Same(X, Lit(2)), <<Jump("break")>>, <<>>)>>,
     <<If(U, <<Jump("break")>>, <<>>)>>,
     <<If(U, <<Jump("continue")>>, <<>>)>>,
     <<If(Same(X, Lit(2)), <<BlockOf(<<Jump("continue"), Assign("y", Const(9))>>)>>, <<>>)>>,
     <<If(Const(1), <<If(Const(1), <<Jump("break")>>, <<>>)>>, <<>>)>>,
     <<Case(U, <<Jump("break")>>)>>,
     <<If(Same(X, Lit(2)), <<Jump("continue")>>, <<>>), If(U, <<Jump("break")>>, <<>>)>>,
     <<BlockOf(<<If(Same(X, Lit(2)), <<Jump("break")>>, <<>>), Inc>>)>>}

Lasts ==
    {Assign("y", Plus(X, Lit(1))),
     Counted("j", Lit(2), BlockOf(<<If(Same(Id("j"), X), <<Jump("break")>>, <<>>), Inc>>)),
     Assign("j", Copy(X))}

After == <<Assign("y", Copy(X)), If(Less(X, Lit(2)), <<Assign("y", Const(0))>>, <<>>)>>

MCInitials ==
    UNION {{<<Assign("x", Const(1)), l>> \o After : l \in Loops(BlockOf(<<f>> \o j \o <<s>>))} :
              <<f, j, s>> \in Firsts \X Jumps \X Lasts}
    \cup
    {<<Assign("x", Const(1)), If(c, <<If(d, <<s>>, <<Assign("y", U)>>)>>, <<s>>)>> \o After :
        <<c, d, s>> \in {Const(1), U, Less(X, Lit(1))} \X {Const(1), Same(X, Lit(1)), U}
                        \X ({Inc} \cup Loops(BlockOf(<<Inc, Inc>>)))}

Exits ==
    {<<Return("f", Copy(X))>>, <<If(Same(X, Lit(2)), <<Return("f", Copy(X))>>, <<>>)>>,
     <<If(U, <<Return("f", Const(3))>>, <<>>)>>, <<Case(U, <<Return("f", Const(3))>>)>>,
     <<If(Same(X, Lit(2)), <<Return("", None)>>, <<>>)>>,
     <<If(Same(X, Lit(2)), <<Jump("break")>>, <<>>)>>,
     <<If(Const(1), <<If(Const(1), <<Jump("continue")>>, <<>>)>>, <<>>)>>}

MCFunctions ==
    UNION {{<<Assign("x", Const(1)), Assign("f", Const(0)), l, Assign("f", Copy(X)), t>> :
               l \in Loops(BlockOf(<<g>> \o e \o <<Inc>>))} :
              <<g, e, t>> \in Firsts \X Exits
                             \X {Inc, Write("part", "f", Const(1)), Assign("f", Const(5))}}

MCStores == {[v \in MCVars |-> IF v = "u" THEN a ELSE b] : a \in 0 .. 2, b \in {0, 5}}
=============================================================================
