------------------------------ MODULE MCLoops ------------------------------
(***************************************************************************)
(* Marked processes with bounded loops kept rolled, for TLC: for loops     *)
(* whose body reads the index and continues, repeats by a constant and by  *)
(* a register, the run-once and the never-run repeat, a for that may cross *)
(* no wait, and repeats inside repeats, whose inner countdown has one bit  *)
(* and never holds the count 2 it is loaded with.                          *)
(*                                                                         *)
(* Then processes that are accepted and compiled into another program.     *)
(* Two have an induced register narrower than what it is loaded with: the  *)
(* formal of a task that an actual of two bits is copied into, and an      *)
(* index whose test its width never fails.  In the third a path that       *)
(* arrives at a wait writes what guards another path's value of an output. *)
(***************************************************************************)
EXTENDS MarkedTrees

MCSourceId == 1 .. 14

MCModulus == [v \in Vars |-> IF v \in {"q", "c"} THEN 4 ELSE 2]

Loop(list) == Tree(<< Block(<<2, 3>>), Nba("q", C(0)), Forever(4) >> \o list)

\* for (q = 0; q < 3; q++) { @; if (x) continue; if (q == 1) break }
For3 ==
  Loop(<< Block(<<5, 6>>), Wait, For("q", C(0), Less("q", 3), Plus("q", 1), 7),
          Block(<<8, 9, 11>>), Wait, If(Set("x"), 10, NoNode), Continue,
          If(Is("q", 1), 12, NoNode), Break >>)

\* A repeat left by a break and shortened by a continue.
Jumps ==
  Loop(<< Block(<<5, 6>>), Wait, Repeat(C(3), 7), Block(<<8, 9, 11>>), Wait,
          If(Set("x"), 10, 12), Break, Nba("q", Flip("q")), Continue >>)

\* The run-once repeat owns the continue of its body; a repeat of 0 vanishes.
Once ==
  Loop(<< Block(<<5, 9>>), Repeat(C(1), 6), Block(<<7, 8, 11>>), Wait,
          If(Set("x"), 10, NoNode), Repeat(C(0), 12), Continue,
          Nba("q", Flip("q")), Wait >>)

\* A count read from a register that the body overwrites.
Dynamic ==
  Loop(<< Block(<<5, 6, 7>>), Wait, Nba("q", Plus("q", 1)), RepeatOf("q", 8),
          Block(<<9, 10>>), Wait, If(Set("x"), 11, NoNode), Nba("q", Plus("q", 2)) >>)

\* No wait on the laps where the index is odd.
NoCut ==
  Loop(<< Block(<<5, 6>>), Wait, For("q", C(0), Less("q", 3), Plus("q", 1), 7),
          If(Set("x"), 8, NoNode), Wait >>)

\* repeat (2) { repeat (2) { @; if (x) q++ }; @ }
Nest ==
  Loop(<< Repeat(C(2), 5), Block(<<6, 10>>), Repeat(C(2), 7), Block(<<8, 9>>),
          Wait, If(Set("x"), 11, NoNode), Wait, Nba("q", Plus("q", 1)) >>)

\* The inner repeat leaves early by a break; the outer continues past a wait.
Leaves ==
  Loop(<< Repeat(C(2), 5), Block(<<6, 10, 11>>), Repeat(C(2), 7), Block(<<8, 9, 12>>),
          Wait, If(Set("x"), 13, NoNode), If(Is("q", 3), 14, NoNode), Wait,
          Nba("q", Plus("q", 1)), Break, Continue >>)

\* Two repeats in a row share the countdown of their depth.
Siblings ==
  Loop(<< Block(<<5, 8>>), Repeat(C(2), 6), Block(<<7, 12>>), Wait, Repeat(C(2), 9),
          Block(<<10, 11>>), Nba("q", Plus("q", 1)), Wait, If(Set("x"), 13, NoNode), Wait >>)

\* A while under a repeat, left and taken by its test.
Whiles ==
  Loop(<< Repeat(C(2), 5), Block(<<6, 7, 8>>), Wait, Nba("q", Plus("q", 1)),
          While(Set("x"), 9), Block(<<10, 11>>), Wait, Nba("q", Plus("q", 2)) >>)

Written ==
  Texts([for3 |-> For3, jumps |-> Jumps, once |-> Once, dynamic |-> Dynamic, nocut |-> NoCut,
         nest |-> Nest, leaves |-> Leaves, siblings |-> Siblings, whiles |-> Whiles])

MCCountdown == <<"c", "d">>

MCNames == DOMAIN Written

ASSUME Trees == \A p \in Names : IsTree(Text[p])

Compiled == Programs(Written)

\* The constants, each the value of a definition that is computed once.
MCText    == LET text == Written IN text
MCProgram == LET program == Compiled IN program
MCAround  == LET around == LoweredAround IN around

\* The countdown of a depth has the bits of the widest repeat at that depth.
ASSUME CountdownWidths ==
  \A p \in Names : \A n \in SourceId :
    LET d == Text[p].node[n]
    IN  Counts(d) => CountdownModulus(d) <= Modulus[CountdownOf(Text[p], n)]
---------------------------------------------------------------------------
InexactModulus == [v \in Vars |-> IF v = "n" THEN 2 ELSE 4]

\* task t (input [0:0] n); r <= n; @; endtask   forever { q++; t(q) }
CopyIn ==
  Tree(<< Block(<<2, 3>>), Nba("q", C(0)), Forever(4), Block(<<5, 6, 7, 8>>),
          Wait, Nba("q", Plus("q", 1)), Capture("n", V("q")), Nba("r", V("n")) >>)

\* for (n = 0; n < 2; n++) { @; r <= r + 1 }
Indexed ==
  Tree(<< Block(<<2, 3, 4>>), Nba("r", C(0)), For("n", C(0), Less("n", 2), Plus("n", 1), 5),
          Wait, Block(<<6, 7>>), Wait, Nba("r", Plus("r", 1)) >>)

\* n <= 0; q <= 1; r = 0; @; forever { case (1'b1) n: r = 1;
\*   q: begin r = 0; n <= 1; end  default: r = 0; endcase @ }
\* After the edge that sets n, the leg "if (n)" comes first.
Overtaken ==
  Tree(<< Block(<<2, 3, 4, 5, 6>>), Nba("n", C(0)), Nba("q", C(1)), Show("r", C(0)), Wait,
          Forever(7), Block(<<8, 9>>),
          Reverse(<< <<Set("n"), 10>>, <<Set("q"), 11>>, <<Set("q"), 12>> >>, 3), Wait,
          Show("r", C(1)), Block(<<13, 14>>), Show("r", C(0)),
          Show("r", C(0)), Nba("n", C(1)) >>)

InexactWritten == Texts([copyin |-> CopyIn, index |-> Indexed, overtaken |-> Overtaken])

InexactCountdown == <<>>

InexactNames == DOMAIN InexactWritten

InexactCompiled == Programs(InexactWritten)

InexactText    == LET text == InexactWritten IN text
InexactProgram == LET program == InexactCompiled IN program
InexactAround  == LET around == LoweredAround IN around
=============================================================================
