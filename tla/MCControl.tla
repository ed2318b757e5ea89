----------------------------- MODULE MCControl -----------------------------
(***************************************************************************)
(* Marked processes without bounded loops, for TLC: branches, cases,       *)
(* whiles, jumps, temporaries, one-shots, an enable, and the trees the     *)
(* walk must refuse.                                                       *)
(***************************************************************************)
EXTENDS MarkedTrees

MCSourceId == 1 .. 16

MCModulus == [v \in Vars |-> IF v = "q" THEN 4 ELSE 2]

\* forever { @; if (x) { q++; @ } else r = !r }
Fork ==
  Tree(<< Block(<<2, 3, 4>>), Nba("q", C(0)), Nba("r", C(0)),
          Forever(5), Block(<<6, 7>>), Wait, If(Set("x"), 8, 11),
          Block(<<9, 10>>), Nba("q", Plus("q", 1)), Wait, Nba("r", Flip("r")) >>)

\* A one-shot whose arms wait at different depths, then parks.
OneShot ==
  Tree(<< Block(<<2, 13, 3, 4, 10, 11>>), Nba("q", C(0)), Wait,
          If(Set("x"), 5, 9), Block(<<6, 7, 8>>), Nba("r", C(1)), Wait, Nba("q", C(1)),
          Nba("q", C(2)), WaitThen(12), Nba("r", Flip("r")), Nba("q", Plus("q", 1)),
          Nba("r", C(0)) >>)

\* The same, its register assigned in one arm only.
Undefined1 ==
  Tree(<< Block(<<2, 3, 4, 10, 11>>), Nba("q", C(0)), Wait,
          If(Set("x"), 5, 9), Block(<<6, 7, 8>>), Nba("r", C(1)), Wait, Nba("q", C(1)),
          Nba("q", C(2)), Wait, Nba("r", Flip("r")) >>)

\* A while whose test the body changes, left by a break or by its test.
Loops1 ==
  Tree(<< Block(<<2, 15, 3>>), Nba("q", C(0)), Forever(4), Block(<<5, 6, 13>>), Wait,
          While(IsNot("q", 3), 7), Block(<<8, 10, 11>>),
          If(Set("x"), 9, NoNode), Break, Wait,
          If(Is("r", 1), 12, 14), Continue, Nba("r", Flip("r")), Nba("q", Plus("q", 1)),
          Nba("r", C(0)) >>)

\* A case with a default in the middle and one label twice.
Cases ==
  Tree(<< Block(<<2, 16, 3>>), Nba("q", C(0)), Forever(4), Block(<<5, 6, 13>>), Wait,
          Case("q", << <<0, 7>>, <<3, 8>>, <<2, 9>>, <<0, 15>>, <<1, 12>> >>, 2),
          WaitThen(14), Nba("q", C(0)), Block(<<10, 11>>), Nba("q", C(3)), WaitThen(NoNode),
          Nba("q", C(2)), Nba("r", Flip("r")), Nba("q", C(1)), Nba("q", C(3)),
          Nba("r", C(1)) >>)

\* Cases without a default under a fork on the same signal: dead legs, a
\* fall-through.
Nested ==
  Tree(<< Block(<<2, 16, 3>>), Nba("q", C(1)), Forever(4), Block(<<5, 6, 14>>), Wait,
          If(Is("q", 1), 7, 12), Case("q", << <<0, 8>>, <<1, 9>> >>, 0),
          Wait, Block(<<10, 11>>), Nba("q", C(2)), Wait,
          Case("q", << <<2, 13>>, <<1, 15>> >>, 0), Nba("q", Sum("q", "q")), Wait,
          Nba("r", V("q")), Nba("r", C(1)) >>)

\* A temporary read by a later test and by commits, in its declared width; a
\* commit wider than its register.
Temporary ==
  Tree(<< Block(<<2, 12, 3>>), Nba("q", C(0)), Forever(4), Block(<<5, 6, 11>>), Wait,
          Scope({"t"}, <<7, 8, 10, 9>>), Temp("t", Sum("q", "x")), Nba("q", Sum("q", "t")),
          If(Set("t"), 14, NoNode), Nba("r", Sum("q", "t")), If(Set("x"), 13, NoNode),
          Nba("r", C(0)), Continue, Wait >>)

\* A temporary tested in the step after the one that assigned it.
DeadTemp ==
  Tree(<< Block(<<2, 3>>), Nba("q", C(0)), Forever(4), Scope({"t"}, <<5, 6, 7, 8>>), Wait,
          Temp("t", V("x")), Wait, If(Set("t"), 9, NoNode), Wait >>)

\* A statement attached to its wait, under an enable.
Gated ==
  TreeWith({Set("x")},
    << Block(<<2, 13, 3>>), Nba("q", C(0)), Forever(4), Block(<<5, 8, 9>>), WaitThen(6),
       Block(<<7>>), Nba("q", Plus("q", 1)), While(Set("r"), 10), Nba("r", Flip("r")),
       Block(<<11, 12>>), Nba("r", C(0)), Wait, Nba("r", C(0)) >>)

\* An enable that reads a register reset gives no value.
GatedBy ==
  TreeWith({Set("r")}, << Block(<<2, 3, 4, 5>>), Nba("q", C(0)), Wait, Nba("r", C(1)), Wait >>)

\* A lap of the forever that may cross no wait.
ZeroDelay ==
  Tree(<< Block(<<2, 3>>), Nba("q", C(0)), Forever(4), If(Set("x"), 5, NoNode), Wait >>)

\* A fork before the first wait; a register committed twice on a path.
Forked ==
  Tree(<< Block(<<2, 5>>), If(Set("x"), 3, NoNode), Wait, Block(<<>>), Wait >>)
Twice ==
  Tree(<< Block(<<2, 3, 4, 5>>), Wait, If(Set("x"), 6, NoNode), Nba("q", C(1)), Wait,
          Block(<<7, 8>>), Nba("q", C(2)), If(Set("r"), 9, NoNode), Wait >>)

\* forever { o = 1; @; o = 0; q++; @ }, o named r: one value in each state.
Moore ==
  Encoded("output",
    << Block(<<2, 3, 4, 5>>), Nba("q", C(0)), Show("r", C(0)), Wait,
       Forever(6), Block(<<7, 8, 9, 10, 11>>), Show("r", C(1)), Wait, Show("r", C(0)),
       Nba("q", Plus("q", 1)), Wait >>)

\* The output follows a fork on a register that every path into the state
\* leaves alone, and the paths come from three states.
Mealy ==
  Encoded("gray",
    << Block(<<2, 3, 4, 5>>), Nba("q", C(0)), Show("r", C(0)), Wait, Forever(6),
       Block(<<7, 10, 11>>), If(Is("q", 1), 8, 9), Show("r", C(1)), Show("r", C(0)), Wait,
       If(Set("x"), 12, NoNode), Block(<<13, 14, 15>>), Nba("q", Plus("q", 1)), Show("r", C(0)),
       Wait >>)

\* The same fork, the register moved by the path that arrives.
Moved ==
  Tree(<< Block(<<2, 3, 4, 5>>), Nba("q", C(0)), Show("r", C(0)), Wait, Forever(6),
          Block(<<7, 10, 11>>), If(Is("q", 1), 8, 9), Show("r", C(1)), Show("r", C(0)),
          Nba("q", Plus("q", 1)), Wait >>)

\* An output that shows an input.
Input ==
  Tree(<< Block(<<2, 3, 4>>), Nba("q", C(0)), Show("r", V("x")), Forever(5),
          Block(<<6, 7>>), Wait, Show("r", V("x")) >>)

\* Two states arrive at a third with different values.
Incoherent ==
  Tree(<< Block(<<2, 3, 4, 5, 6>>), Nba("q", C(0)), Show("r", C(0)), Wait, Show("r", C(1)),
          Forever(7), Block(<<8, 9>>), Wait, Show("r", C(0)) >>)

\* A path that assigns the output nothing.
Skips ==
  Tree(<< Block(<<2, 3, 4>>), Nba("q", C(0)), Show("r", C(0)), Forever(5),
          Block(<<6, 7>>), Wait, If(Set("x"), 8, NoNode), Show("r", C(1)) >>)

\* What the state shows, read by the step that leaves it, and an output that
\* shows a register the step leaves alone.
Shows ==
  Encoded("one_hot",
    << Block(<<2, 3, 4, 5>>), Nba("q", C(1)), Show("r", C(1)), Wait, Forever(6),
       Block(<<7, 8, 9, 10, 11>>), Nba("q", Sum("q", "r")), Show("r", C(0)), Wait,
       Show("r", V("q")), Wait >>)

\* A reset value that reads the output before the preamble assigns it.
Early ==
  Tree(<< Block(<<2, 3, 4, 5>>), Nba("q", V("r")), Show("r", C(1)), Wait, Forever(6),
          Block(<<7, 8, 9>>), Show("r", C(0)), Nba("q", Plus("q", 2)), Wait >>)

\* Six states, five of which show the same: two more than one bit each has.
Six ==
  << Block(<<2, 3, 4, 5, 6, 7, 8, 9, 10, 11, 12, 13>>), Nba("q", C(0)), Show("r", C(0)), Wait,
     Show("r", C(0)), Wait, Show("r", C(1)), Wait, Show("r", C(0)), Wait, Show("r", C(0)), Wait,
     Show("r", C(0)) >>

Written ==
  Texts([fork |-> Fork, oneshot |-> OneShot, loops |-> Loops1, cases |-> Cases,
          nested |-> Nested, temporary |-> Temporary, gated |-> Gated,
          undefined |-> Undefined1, deadtemp |-> DeadTemp, gatedby |-> GatedBy,
          zerodelay |-> ZeroDelay, forked |-> Forked, twice |-> Twice,
          moore |-> Moore, mealy |-> Mealy, moved |-> Moved, input |-> Input,
          incoherent |-> Incoherent, skips |-> Skips, shows |-> Shows, early |-> Early,
          hot |-> Encoded("one_hot", Six), ordinals |-> Encoded("output", Six)])

MCCountdown == <<>>

MCNames == DOMAIN Written

ASSUME Trees == \A p \in MCNames : IsTree(Written[p])

Compiled == Programs(Written)

\* The constants, each the value of a definition that is computed once.
MCText    == LET text == Written IN text
MCProgram == LET program == Compiled IN program
MCAround  == LET around == LoweredAround IN around
=============================================================================
