---------------------------- MODULE ResolveModule ----------------------------
(***************************************************************************)
(* The pipeline of resolve_module.cpp over the procedural text of one      *)
(* module: LoopUnrolling, BranchSelection, VariableFolding over an initial *)
(* block, then DeadcodeElimination step by step; and the evaluation of a   *)
(* call of a constant function, which runs the same interpreter over a     *)
(* copy of the function's body.  The passes in between, which rewrite      *)
(* declarations or expressions, are left out.                              *)
(***************************************************************************)
EXTENDS LoopUnrolling, VariableFolding, DeadcodeElimination, FiniteSets

CONSTANTS Initials,     \* the initial blocks: sequences of statements
          Functions,    \* the bodies of constant functions
          Stores        \* what the variables may hold when a block starts

VARIABLES kind,      \* "initial" or "function"
          source,    \* the text as it was parsed
          text,      \* the text the passes have made of it
          stage,     \* the pass that runs next
          result     \* what the function call folded to: [folds, value]

vars == <<kind, source, text, stage, result>>

---------------------------------------------------------------------------
(* BranchSelection (branch_selection.cpp): an if or a case with a constant *)
(* selector is replaced by the statement it selects, which is then visited *)
(* in its turn.                                                            *)

\* The statement a constant selector picks, as a slot; a case no arm of
\* which matches is left alone.
Selects(st) ==
    /\ st.op \in {"if", "case"}
    /\ IsConst(st.expr)
    /\ st.op = "if" \/ Evaluate(st.expr) # 0
Selected(st) == IF Evaluate(st.expr) # 0 THEN st.body ELSE st.alt

RECURSIVE SelectIn(_), SelectList(_)

\* pickup_statements: a list takes the contents, a slot takes a block.
SelectList(ss) ==
    Thread(LAMBDA out, st : out \o (IF ~Selects(st) THEN <<SelectIn(st)>>
                                    ELSE SelectList(Contents(Selected(st)))),
           <<>>, ss)
SelectSlot(ss) ==
    IF ss = <<>> \/ ~Selects(ss[1]) THEN SelectList(ss)
    ELSE LET picked == SelectList(ss) IN IF picked = <<>> THEN <<>> ELSE <<BlockOf(picked)>>

SelectIn(st) ==
    IF st.op = "block" THEN [st EXCEPT !.body = SelectList(@)]
    ELSE [st EXCEPT !.body = SelectSlot(@), !.alt = SelectSlot(@)]

SelectBranches(ss) == SelectList(ss)

---------------------------------------------------------------------------
NoResult == [folds |-> FALSE, value |-> 0]

Init ==
    /\ \/ kind = "initial" /\ source \in Initials
       \/ kind = "function" /\ source \in Functions
    /\ text = source
    /\ stage = IF kind = "initial" THEN "unroll" ELSE "evaluate"
    /\ result = NoResult

\* The first pass to fail ends the pipeline.
UnrollLoops ==
    /\ stage = "unroll"
    /\ LET r == UnrollAll(text)
       IN  IF r.ok THEN text' = r.out /\ stage' = "select"
                   ELSE stage' = "failed" /\ UNCHANGED text
    /\ UNCHANGED <<kind, source, result>>

PickBranches ==
    /\ stage = "select"
    /\ text' = SelectBranches(text)
    /\ stage' = "fold"
    /\ UNCHANGED <<kind, source, result>>

FoldVariables ==
    /\ stage = "fold"
    /\ text' = FoldInitial(text).out
    /\ stage' = "jumps"
    /\ UNCHANGED <<kind, source, result>>

DropUnreachable ==
    /\ stage = "jumps"
    /\ text' = RemoveAfterJump(text)
    /\ stage' = "dead"
    /\ UNCHANGED <<kind, source, result>>

\* Once more as long as a write was removed.
DropDead ==
    /\ stage = "dead"
    /\ text' = DeadcodeStep(text)
    /\ stage' = IF Dead(text) # {} THEN "dead" ELSE "attributes"
    /\ UNCHANGED <<kind, source, result>>

DropAttributes ==
    /\ stage = "attributes"
    /\ text' = RemoveEmptyAttributes(text)
    /\ stage' = "done"
    /\ UNCHANGED <<kind, source, result>>

FoldCall ==
    /\ stage = "evaluate"
    /\ result' = EvaluateCall(text)
    /\ stage' = "done"
    /\ UNCHANGED <<kind, source, text>>

Next == \/ UnrollLoops \/ PickBranches \/ FoldVariables \/ DropUnreachable
        \/ DropDead \/ DropAttributes \/ FoldCall

Spec == Init /\ [][Next]_vars

-----------------------------------------------------------------------------
Seen(s) == [flow |-> s.flow, ports |-> IF s.flow = "hung" THEN {}
                                       ELSE {<<x, s.env[x]>> : x \in Ports}]

(* After every pass, the text does to the ports what the source does: from *)
(* any store it leaves the same values, and it ends when the source ends.  *)
SameMeaning ==
    kind = "initial" =>
        \A env \in Stores : Seen(Outcome(text, env)) = Seen(Outcome(source, env))

(* No break or continue is left outside a loop: unrolling a loop lowers    *)
(* or consumes every jump it cloned.                                       *)
RECURSIVE LooseJump(_)
LooseJump(ss) ==
    \E k \in DOMAIN ss :
        \/ ss[k].op \in {"break", "continue"}
        \/ ss[k].op \notin LoopOps /\ LooseJump(ss[k].body \o ss[k].alt)
JumpsStayInLoops == kind = "initial" => ~LooseJump(text)

(* A call that is folded to a constant returns that constant from every    *)
(* store: the interpreter certifies nothing it has not fully executed.     *)
CertifiedExact ==
    result.folds =>
        \A env \in Stores :
            LET s == Outcome(source, env)
            IN  s.flow # "hung" /\ s.env[Target] = result.value

(* What AnalyzeJumps found to be lowerable in one lap is still lowerable   *)
(* in the sequence of all the laps, whose inner loops are unrolled by then:*)
(* the internal inconsistency install_unrolled guards against cannot occur.*)
NeverInconsistent == stage # "failed"

(* The deadcode loop ends: while it finds a dead variable, the step it     *)
(* takes for it leaves fewer statements than it found.                     *)
RECURSIVE Size(_)
Size(ss) == FoldLeft(LAMBDA n, st : n + 1 + Size(Children(st)), 0, ss)
DeadcodeEnds ==
    stage = "dead" /\ Dead(text) # {} => Size(DeadcodeStep(text)) < Size(text)
=============================================================================
