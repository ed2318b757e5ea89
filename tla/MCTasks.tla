------------------------------ MODULE MCTasks ------------------------------
(***************************************************************************)
(* Instances for the inlining, for TLC: an endless process that calls one  *)
(* task twice in a lap, the task calling another or not, with each         *)
(* direction an argument may have; and processes and tasks whose locals    *)
(* share their names.                                                      *)
(***************************************************************************)
EXTENDS FsmTaskInliner

r == <<"r">>
a == <<"a">>
x == <<"x">>
clk == <<"clk">>
t == <<"t">>
u == <<"u">>
f == <<"f">>
l == <<"l">>

MCNets == {x}
MCInputs == {x, clk}
MCRegisters == {r, a}

In == Formal(f, "input", Const(Unknown))
InOr(k) == Formal(f, "input", Const(k))
By(dir) == Formal(f, dir, Const(Unknown))

At == Wait(clk)
Plus(n, k) == [name |-> n, n |-> k]
Static(formal, ss) == Task(FALSE, <<formal>>, {}, ss)
Automatic(formal, ss) == Task(TRUE, <<formal>>, {}, ss)
Keeping(formal, ss) == Task(FALSE, <<formal>>, {l}, ss)
Helping(formal, ss) == Task(TRUE, <<formal>>, {l}, ss)
Local(id, ss) == Block(None, id, {l}, ss)

\* Reading their argument, before or after a wait.
Reading ==
  {Static(InOr(2), <<Nba(a, Id(f)), At, Nba(r, Id(f))>>),
   Static(In, <<Wait(f), Nba(r, Const(1))>>),
   Automatic(In, <<Local("1", <<Ba(l, Plus(f, 1)), Nba(r, Id(l))>>), At>>)}

\* Writing it, for themselves.
Writing ==
  {Static(In, <<Ba(f, Plus(f, 1)), Nba(r, Id(f)), At>>),
   Static(In, <<Nba(f, Plus(f, 1)), At, Nba(r, Id(f)), At>>),
   Static(In, <<Ba(f, Id(x)), At, Nba(r, Id(f))>>),
   Automatic(In, <<Nba(f, Id(x)), At>>)}

\* Returning early: one branch, through a block, from a loop.
Returning ==
  {Static(In, <<If(Id(f), <<Nba(r, Const(1)), Return>>, <<>>), Nba(r, Const(0)), At>>),
   Static(In, <<If(Id(f), <<Nba(r, Id(f))>>, <<Return>>), At, Nba(a, Id(f))>>),
   Static(In, <<Block(None, "1", {}, <<If(Id(f), <<Return>>, <<>>)>>), Nba(r, Id(x)), At>>),
   Static(In, <<Block(t, "1", {}, <<If(Id(f), <<Return>>, <<>>)>>), Nba(r, Id(x)), At>>),
   Static(In, <<If(Id(f), <<Return>>, <<If(Id(x), <<Return>>, <<>>)>>), Nba(r, Id(x)), At>>),
   Static(In, <<While(Id(f), <<At, Return>>)>>)}

\* Keeping a value from one call to the next, or not.
Storing ==
  {Keeping(In, <<If(Id(f), <<Nba(l, Id(f))>>, <<>>), At, Nba(r, Id(l))>>),
   Keeping(In, <<Ba(l, Id(f)), At, Nba(r, Id(l))>>),
   Helping(In, <<Nba(l, Id(f)), At, Nba(r, Id(l))>>)}

\* Calling another task, or themselves.
Calling ==
  {Automatic(In, <<Call(u, <<Id(f)>>), Nba(r, Id(f))>>),
   Static(In, <<Call(u, <<Id(f)>>), Nba(r, Id(f)), At, Call(u, <<Id(f)>>)>>),
   Helping(In, <<Ba(l, Id(f)), Call(u, <<Id(l)>>), Nba(r, Id(l))>>),
   Automatic(In, <<Call(t, <<Id(f)>>)>>)}

\* Handing a value back.
Returned ==
  {Static(By("output"), <<Nba(f, Id(x)), At>>),
   Static(By("output"), <<If(Id(x), <<Nba(f, Id(x))>>, <<>>), At>>),
   Static(By("output"), <<If(Id(x), <<Nba(f, Id(x))>>, <<Nba(f, Const(2))>>), At>>),
   Static(By("inout"), <<Nba(f, Plus(f, 1)), At>>),
   Static(By("inout"), <<If(Id(f), <<Ba(f, Const(0)), Return>>, <<>>), Ba(f, Plus(f, 1))>>),
   Automatic(By("output"), <<Ba(f, Id(x))>>),
   Automatic(By("ref"), <<Ba(f, Plus(f, 1))>>),
   Automatic(By("constref"), <<Wait(f)>>),
   Automatic(By("constref"), <<At, Nba(a, Id(f))>>),
   Automatic(By("constref"), <<Ba(f, Const(0))>>)}

\* Locals of one name: over the argument, side by side, one in the other,
\* and over one declared outside of any block, which is refused.
Shadowing ==
  {Automatic(By("constref"), <<At, Local("1", <<Ba(l, Id(f)), Nba(a, Id(l))>>),
                               Block(None, "2", {f}, <<Ba(f, Const(2)), Nba(r, Id(f))>>)>>),
   Static(In, <<Local("1", <<Nba(l, Id(f)), At, Nba(r, Id(l))>>),
                Local("2", <<Nba(l, Plus(f, 1)), At, Nba(a, Id(l))>>)>>),
   Automatic(In, <<Local("1", <<Ba(l, Id(f)), Local("2", <<Ba(l, Id(x)), Nba(a, Id(l))>>),
                                Nba(r, Id(l))>>), At>>),
   Helping(In, <<Ba(l, Id(f)), Local("1", <<Ba(l, Id(x)), Nba(a, Id(l))>>), Nba(r, Id(l)), At>>)}

Tasks(outer, inner) == (t :> outer) @@ (u :> inner)
Program(ts, processes, others) == [tasks |-> ts, processes |-> processes, others |-> others]

Lap(first, second) == <<While(Const(1), <<At, Call(t, first), Call(t, second), At>>)>>
Twice(outers, inners, first, second) ==
  {Program(Tasks(outer, inner), <<Lap(f1, f2)>>, {}) :
     outer \in outers, inner \in inners, f1 \in first, f2 \in second}

Plain == Static(By("inout"), <<Nba(f, Plus(f, 1)), At>>)

\* A process whose locals have the name of a register and of each other; one
\* more that calls the task too, and a process not marked that calls u.
Shadowed ==
  <<While(Const(1),
      <<At, Block(None, "3", {r}, <<Ba(r, Plus(x, 1)), Nba(a, Id(r)), Local("4", <<Ba(l, Id(r))>>)>>),
        Local("5", <<Ba(l, Const(1)), Nba(r, Id(l)), Call(t, <<Id(l)>>)>>)>>)>>

MCPrograms ==
  Twice(Reading \cup Writing \cup Returning \cup Storing, {Plain},
        {<<Id(x)>>, <<Const(1)>>, <<Plus(r, 1)>>}, {<<Const(0)>>, <<Id(x)>>, <<Id(a)>>, <<>>})
  \cup Twice(Calling, Returned \cup Reading \cup Writing, {<<Id(x)>>, <<Const(1)>>}, {<<Id(a)>>})
  \cup Twice(Returned, {Plain}, {<<Id(a)>>, <<Id(clk)>>}, {<<Id(r)>>, <<Id(a)>>, <<Id(x)>>})
  \cup Twice(Shadowing, {Plain}, {<<Id(clk)>>, <<Id(x)>>}, {<<Id(clk)>>, <<Id(a)>>})
  \cup {Program(Tasks(outer, Plain), <<Shadowed, Lap(<<Id(x)>>, <<Id(a)>>)>>, others) :
          outer \in Shadowing \cup Calling, others \in {{}, {u}}}

\* The argument of the outer task has the name of a register of the module,
\* which the inner one writes.
Outer == Static(Formal(a, "input", Const(Unknown)), <<Call(u, <<Id(x)>>), Nba(r, Id(a))>>)
HijackPrograms == {Program(Tasks(Outer, inner), <<Lap(<<Id(x)>>, <<Const(1)>>)>>, {}) : inner \in Reading}
=============================================================================
