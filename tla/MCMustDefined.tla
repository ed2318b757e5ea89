---------------------------- MODULE MCMustDefined ----------------------------
(***************************************************************************)
(* State graphs of four states for TLC: the first forks, the third reads r,*)
(* and every state may lead back to any.  The registers do not interact,   *)
(* so one shows what the sweep does to each; a second, w, is written by    *)
(* branches and read by none.                                              *)
(***************************************************************************)
EXTENDS FsmMustDefined

MCReg == {"r", "w"}

Anywhere == State \cup {Hold}

\* A transition that assigns r or not, on every branch of its action.
Out(must, next) ==
  [reads |-> {}, writes |-> must, targets |-> must \cup {"w"}, next |-> next]

\* A transition that assigns r in one arm of a branch only.
InAnArm(next) == [reads |-> {}, writes |-> {}, targets |-> {"r"}, next |-> next]

Reading(next) == [reads |-> {"r"}, writes |-> {}, targets |-> {}, next |-> next]

Exits == {<<Out(must, next)>> : must \in SUBSET {"r"}, next \in Anywhere}

Forks == {<<Out(must, left), InAnArm(right)>> :
            must \in SUBSET {"r"}, left \in State \ {1}, right \in State}

\* The graphs whose state 3 reads r, which reset does not assign; and a line
\* of states under an enable that reads it.
MCGraphs ==
  {[init |-> {}, entry |-> 1, enable |-> {}, out |-> <<fork, second, <<Reading(next)>>, last>>] :
     fork \in Forks, second \in Exits, next \in Anywhere, last \in Exits}
  \cup
  {[init |-> init, entry |-> entry, enable |-> {"r"},
    out |-> [n \in State |-> <<Out({"r"}, IF n = NumStates THEN Hold ELSE n + 1)>>]] :
     init \in SUBSET {"r"}, entry \in {1, Hold}}
=============================================================================
