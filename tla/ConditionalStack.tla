-------------------------- MODULE ConditionalStack --------------------------
(***************************************************************************)
(* ConditionalStack of pp_conditional.cpp: one frame per open `ifdef, with *)
(* what is known of the branches to come; and what conditional directives  *)
(* mean, apart from any preprocessor.                                      *)
(***************************************************************************)
EXTENDS Sequences, Integers

CondFrame == [state : {"taken", "looking", "done"}, inElse : BOOLEAN]

Emitting(stack) == \A i \in DOMAIN stack : stack[i].state = "taken"

\* Every branch of a group opened in skipped text is dead.
NewBlock(taken, parentEmitting) ==
  IF ~parentEmitting THEN "done" ELSE IF taken THEN "taken" ELSE "looking"

PushIfdef(stack, defined) ==
  Append(stack, [state |-> NewBlock(defined, Emitting(stack)), inElse |-> FALSE])

PushIfndef(stack, defined) == PushIfdef(stack, ~defined)

\* No group is open, or its `else has been seen: an error, and no effect.
Misplaced(stack) == stack = <<>> \/ stack[Len(stack)].inElse

\* A bug: a branch after the taken one may be taken.
AfterBranchForgetful(state, defined) == IF defined THEN "taken" ELSE "looking"

AfterBranch(state, defined) ==
  CASE state = "looking" -> IF defined THEN "taken" ELSE "looking"
    [] OTHER -> "done"

HandleElsif(stack, defined) ==
  IF Misplaced(stack) THEN stack
  ELSE [stack EXCEPT ![Len(stack)].state = AfterBranch(@, defined)]

HandleElse(stack) ==
  IF Misplaced(stack) THEN stack
  ELSE [stack EXCEPT ![Len(stack)] = [state |-> AfterBranch(@.state, TRUE), inElse |-> TRUE]]

HandleEndif(stack) == IF stack = <<>> THEN stack ELSE SubSeq(stack, 1, Len(stack) - 1)

---------------------------------------------------------------------------
(* The meaning: a group is the sequence of the conditions of its branches  *)
(* so far, an `else being a branch whose condition is true.  The text      *)
(* being read stands when, in every open group, its branch is the first    *)
(* true one.                                                               *)

Group == [conds : Seq(BOOLEAN), closed : BOOLEAN]

Chosen(g) ==
  /\ g.conds[Len(g.conds)]
  /\ \A k \in 1 .. Len(g.conds) - 1 : ~g.conds[k]

Stands(groups) == \A i \in DOMAIN groups : Chosen(groups[i])

Open(groups, c) == Append(groups, [conds |-> <<c>>, closed |-> FALSE])

\* One more branch of the innermost group, the last one if it is an `else; a
\* branch after the `else, or of no group, is dropped.
Branch(groups, c, last) ==
  IF groups = <<>> \/ groups[Len(groups)].closed THEN groups
  ELSE [groups EXCEPT ![Len(groups)] = [conds |-> Append(@.conds, c), closed |-> last]]

Close(groups) == IF groups = <<>> THEN groups ELSE SubSeq(groups, 1, Len(groups) - 1)
=============================================================================
