------------------------------ MODULE MCFlatten ------------------------------
(***************************************************************************)
(* Small hierarchies for TLC, one for each thing the flattener does.       *)
(***************************************************************************)
EXTENDS ModuleFlattener

A == <<"a">>
B == <<"b">>
I == <<"i">>
J == <<"j">>
O == <<"o">>
P == <<"p">>
Q == <<"q">>
U == <<"u">>
V == <<"v">>
W == <<"w">>
K == <<"k">>

Bus(n) == IF n = 0 THEN <<>> ELSE <<Range1(n - 1, 0)>>
Unpacked(msb, lsb) == [Range1(msb, lsb) EXCEPT !.packed = FALSE]

Port(dir, name, dims) == [name |-> name, dir |-> dir, dims |-> dims, kind |-> "wire"]
Signal(kind, name, dims) == [name |-> name, dims |-> dims, kind |-> kind]
Wire(name, dims) == Signal("wire", name, dims)
Assign(to, from) == [is |-> "assign", to |-> to, from |-> from]
Inst(module, name, array, ports, params) ==
  [is |-> "inst", module |-> module, name |-> name, array |-> array, ports |-> ports, params |-> params]
By(port, value) == [port |-> port, value |-> value]
At(value) == By(<<>>, value)
Given(name, value) == [name |-> name, value |-> value]
Defparam(path, param, value) == [is |-> "defparam", path |-> path, param |-> param, value |-> value]
R(name) == <<Ref(name)>>
Pick(name, sel) == Through(<<>>, name, <<sel>>)
Under1(hier, name) == <<Through(hier, name, <<>>)>>
Text1(name, ports, decls, params, items) ==
  [name |-> name, ports |-> ports, decls |-> decls, params |-> params, items |-> items]
Design(texts) ==
  [top |-> texts[1].name,
   modules |-> [n \in {texts[k].name : k \in DOMAIN texts} |-> FindNamed(texts, n)]]

\* A cell: an input and an output of n bits, through a wire q.
Cell(n) == Text1(<<"cell">>, <<Port("in", I, Bus(n)), Port("out", O, Bus(n))>>, <<Wire(Q, Bus(n))>>, <<>>,
                 <<Assign(R(Q), R(I)), Assign(R(O), R(Q))>>)
Top1(n, decls, items) ==
  Text1(<<"top">>, <<Port("in", A, Bus(n)), Port("out", B, Bus(n))>>, decls, <<>>, items)

\* Two levels, ports by name and by position, one of them not given, and a
\* kept instance at each level.
Pipe ==
  Design(<<Top1(2, <<Wire(W, Bus(2))>>,
             <<Inst(<<"mid">>, U, <<>>, <<By(O, R(W)), By(I, R(A))>>, <<>>),
               Inst(<<"cell">>, V, <<>>, <<At(R(W)), At(R(B))>>, <<>>),
               Inst(<<"box">>, K, <<>>, <<By(P, R(W))>>, <<>>)>>),
           Text1(<<"mid">>, <<Port("in", I, Bus(2)), Port("out", O, Bus(2)), Port("out", J, <<>>)>>,
             <<Wire(W, Bus(2))>>, <<>>,
             <<Inst(<<"cell">>, U, <<>>, <<At(R(I)), At(R(W))>>, <<>>),
               Assign(<<Pick(O, <<1>>), Pick(O, <<0>>)>>, <<Pick(W, <<0>>), Pick(W, <<1>>)>>),
               Inst(<<"box">>, V, <<>>, <<By(P, R(W))>>, <<>>)>>),
           Cell(2)>>)

\* An array over a range that counts down or up: its actuals are shared or
\* dealt out, whatever way they count, and its elements are referred to.
Array(array, out, shared) ==
  Design(<<Text1(<<"top">>, <<Port("in", A, <<out>>), Port("in", J, <<>>), Port("out", B, <<Range1(0, 1)>>)>>,
             <<Wire(W, <<>>), Wire(P, <<>>)>>, <<>>,
             <<Inst(<<"cell">>, U, <<array>>, <<By(I, IF shared THEN R(J) ELSE R(A)), By(O, R(B))>>, <<>>),
               Assign(R(W), Under1(<<Label(U, <<array.msb>>)>>, Q)),
               Inst(<<"box">>, K, <<>>, <<By(P, R(W))>>, <<>>)>>),
           Cell(0)>>)

\* The actuals of an array are words of an unpacked variable, or the parts of
\* a concatenation.
Words(inner) ==
  Design(<<Text1(<<"top">>, <<Port("in", A, <<Unpacked(0, 1)>> \o Bus(2)), Port("out", B, Bus(2)), Port("out", J, Bus(2))>>,
             <<>>, <<>>,
             <<Inst(<<"cell">>, U, <<Range1(1, 0)>>, <<At(R(A)), At(<<Ref(J), Ref(B)>>)>>, <<>>)>>),
           Cell(inner)>>)
Halves ==
  Design(<<Text1(<<"top">>, <<Port("in", A, <<Unpacked(3, 0)>>), Port("out", B, Bus(4))>>, <<>>, <<>>,
             <<Inst(<<"cell">>, U, <<Range1(1, 0)>>, <<At(R(A)), At(R(B))>>, <<>>)>>),
           Cell(2)>>)

\* Parameters: a default that reads another one, an actual, a defparam of one
\* label that wins over the actual, one of two labels, by order and by name.
Leaf == Text1(<<"leaf">>, <<Port("out", O, <<>>), Port("out", J, <<>>)>>, <<>>,
              <<Given(P, <<Lit("1")>>), Given(Q, R(P))>>, <<Assign(R(O), R(P)), Assign(R(J), R(Q))>>)
Params(order, named) ==
  Design(<<Text1(<<"top">>, <<Port("out", A, <<>>), Port("out", B, <<>>), Port("out", I, <<>>), Port("out", O, <<>>)>>,
             <<>>, <<Given(K, <<Lit("5")>>)>>,
             <<Defparam(<<Label(U, <<>>), Label(V, <<>>)>>, P, R(K)),
               Defparam(<<Label(V, <<>>)>>, IF named THEN P ELSE Q, <<Lit("7")>>),
               Inst(<<"mid">>, U, <<>>, <<At(R(A)), At(R(B))>>, <<Given(W, <<Lit("3")>>)>>),
               Inst(<<"leaf">>, V, <<>>, <<At(R(I)), At(R(O))>>,
                    IF named THEN <<Given(Q, <<Lit("2")>>)>> ELSE <<Given(<<>>, R(K))>>)>>),
           Text1(<<"mid">>, <<Port("out", O, <<>>), Port("out", J, <<>>)>>, <<>>, order,
             <<Inst(<<"leaf">>, V, <<>>, <<At(R(O)), At(R(J))>>, <<Given(Q, R(W))>>)>>),
           Leaf>>)
OneDefault == <<Given(W, <<Lit("0")>>)>>
Chained == <<Given(I, R(W)), Given(W, <<Lit("0")>>)>>

\* The text around already has the names the buffers and ports would take.
Taken(array) ==
  Design(<<Top1(IF array = <<>> THEN 0 ELSE 2, <<Wire(Prefixed(U, I), <<>>), Wire(Prefixed(U, O), <<>>)>>,
             <<Assign(R(Prefixed(U, I)), <<Lit("1")>>),
               Inst(<<"cell">>, U, array, <<At(R(A)), At(R(B))>>, <<>>),
               Inst(<<"box">>, K, <<>>, <<By(P, R(Prefixed(U, I)))>>, <<>>)>>),
           Cell(0)>>)

\* A kept instance of a child, prefixed, has the name of the text's wire.
Clash ==
  Design(<<Top1(0, <<Wire(Prefixed(U, K), <<>>)>>,
             <<Assign(R(Prefixed(U, K)), <<Lit("1")>>),
               Inst(<<"mid">>, U, <<>>, <<At(R(A)), At(R(B))>>, <<>>),
               Inst(<<"box">>, W, <<>>, <<By(P, R(Prefixed(U, K)))>>, <<>>)>>),
           Text1(<<"mid">>, <<Port("in", I, <<>>), Port("out", O, <<>>)>>, <<Wire(Q, <<>>)>>, <<>>,
             <<Assign(R(Q), R(I)), Assign(R(O), R(Q)), Inst(<<"box">>, K, <<>>, <<By(P, R(Q))>>, <<>>)>>)>>)

\* A port takes the name that a wire of an earlier instance was given.
Spelt ==
  Design(<<Top1(0, <<Wire(W, <<>>)>>,
             <<Inst(<<"mid">>, U, <<>>, <<At(R(A)), At(R(W))>>, <<>>),
               Inst(<<"cell">>, Prefixed(U, V), <<>>, <<At(R(W)), At(R(B))>>, <<>>)>>),
           Text1(<<"mid">>, <<Port("in", I, <<>>), Port("out", O, <<>>)>>, <<Wire(Prefixed(V, I), <<>>)>>, <<>>,
             <<Assign(R(Prefixed(V, I)), R(I)), Assign(R(O), R(Prefixed(V, I)))>>),
           Cell(0)>>)

\* References through two instances, and dead code of two steps.
Probe ==
  Design(<<Top1(0, <<Wire(W, <<>>), Wire(J, <<>>)>>,
             <<Inst(<<"mid">>, U, <<>>, <<At(R(A)), At(R(B))>>, <<>>),
               Inst(<<"box">>, K, <<>>, <<By(P, Under1(<<Label(U, <<>>), Label(V, <<>>)>>, Q))>>, <<>>),
               Assign(R(J), R(W)), Assign(R(W), R(A))>>),
           Text1(<<"mid">>, <<Port("in", I, <<>>), Port("out", O, <<>>)>>, <<Wire(J, <<>>), Wire(W, <<>>)>>, <<>>,
             <<Assign(R(J), R(W)), Inst(<<"cell">>, V, <<>>, <<At(R(I)), At(R(O))>>, <<>>), Assign(R(W), R(I))>>),
           Cell(0)>>)

\* What the flattener must refuse.
One(n, decls, inst) == Design(<<Top1(n, decls, <<inst>>), Cell(0)>>)
OpenInput == One(0, <<>>, Inst(<<"cell">>, U, <<>>, <<By(O, R(B))>>, <<>>))
IntoReg   == One(0, <<Signal("reg", W, <<>>)>>, Inst(<<"cell">>, U, <<>>, <<At(R(A)), At(R(W))>>, <<>>))
Short     == One(0, <<>>, Inst(<<"cell">>, U, <<>>, <<At(R(A))>>, <<>>))
Ragged    == One(3, <<>>, Inst(<<"cell">>, U, <<Range1(1, 0)>>, <<At(R(A)), At(R(B))>>, <<>>))
Both ==
  Design(<<Top1(0, <<>>, <<Inst(<<"mid">>, U, <<>>, <<At(R(A)), At(R(B))>>, <<>>)>>),
           Text1(<<"mid">>, <<Port("in", I, <<>>), Port("inout", O, <<>>)>>, <<>>, <<>>, <<>>)>>)

Valueless ==
  Design(<<Text1(<<"top">>, <<Port("out", A, <<>>), Port("out", B, <<>>)>>, <<>>, <<>>,
             <<Inst(<<"leaf">>, U, <<>>, <<At(R(A)), At(R(B))>>, <<Given(Q, <<Lit("2")>>)>>)>>),
           [Leaf EXCEPT !.params[1].value = <<>>]>>)

Down == Range1(2, 1)
Rise == Range1(1, 2)

MCDesigns ==
  [pipe |-> Pipe, dealt |-> Array(Down, Down, FALSE), risen |-> Array(Rise, Down, FALSE),
   crossed |-> Array(Down, Rise, FALSE), shared |-> Array(Rise, Down, TRUE),
   words |-> Words(2), narrow |-> Words(0), halves |-> Halves,
   params |-> Params(OneDefault, TRUE), chained |-> Params(Chained, FALSE),
   taken |-> Taken(<<>>), buffers |-> Taken(<<Range1(1, 0)>>), probe |-> Probe,
   open |-> OpenInput, reg |-> IntoReg, short |-> Short, ragged |-> Ragged, both |-> Both,
   valueless |-> Valueless, box |-> Clash, spelt |-> Spelt]
=============================================================================
