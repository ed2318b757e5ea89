------------------------- MODULE DeadcodeElimination -------------------------
(***************************************************************************)
(* The removal of dead statements of deadcode_elimination.cpp, on the      *)
(* statements of one process: what follows an unconditional jump, writes   *)
(* of variables nothing reads, and the blocks, branches and loops that     *)
(* leaves empty.  Declarations are left out.                               *)
(***************************************************************************)
EXTENDS Procedure

CONSTANT Ports    \* the variables another module or process reads

RECURSIVE RemoveAfterJump(_)
RemoveAfterJump(ss) ==
    LET jumps == {k \in DOMAIN ss : ss[k].op \in JumpOps}
        kept == IF jumps = {} THEN ss
                ELSE SubSeq(ss, 1, CHOOSE k \in jumps : \A j \in jumps : k <= j)
    IN  [k \in DOMAIN kept |->
            [kept[k] EXCEPT !.body = RemoveAfterJump(@), !.alt = RemoveAfterJump(@)]]

Children(st) == st.pre \o st.post \o st.body \o st.alt

\* analyze_identifiers: every name outside the lvalues; an actual of a call
\* is one of them.
RECURSIVE Reads(_)
Reads(ss) ==
    UNION {{a.name : a \in ToSet(ss[k].expr.args)} \ {""} : k \in DOMAIN ss}
    \cup {ss[k].name : k \in {j \in DOMAIN ss : ss[j].op = "call"}}
    \cup UNION {Reads(Children(ss[k])) : k \in DOMAIN ss}

\* The names written through an lvalue of this scope.
RECURSIVE Writes(_)
Writes(ss) ==
    {ss[k].name : k \in {j \in DOMAIN ss : ss[j].op \in {"assign", "part"}}}
    \cup UNION {Writes(Children(ss[k])) : k \in DOMAIN ss}

Dead(ss) == Writes(ss) \ (Reads(ss) \cup Ports)

\* Mutant: the slots of the ifs and loops are not searched.
RemoveWritesHere(ss, dead) ==
    SelectSeq(ss, LAMBDA st : ~(st.op \in {"assign", "part"} /\ st.name \in dead))

\* Every write of a dead variable goes, from every list and slot.
RECURSIVE RemoveWrites(_, _)
RemoveWrites(ss, dead) ==
    LET kept == SelectSeq(ss, LAMBDA st : ~(st.op \in {"assign", "part"} /\ st.name \in dead))
    IN  [k \in DOMAIN kept |->
            [kept[k] EXCEPT !.pre = RemoveWrites(@, dead),  !.post = RemoveWrites(@, dead),
                            !.body = RemoveWrites(@, dead), !.alt = RemoveWrites(@, dead)]]

RECURSIVE RemoveEmptyBlocks(_)
RemoveEmptyBlocks(ss) ==
    LET inner == [k \in DOMAIN ss |->
                    [ss[k] EXCEPT !.body = RemoveEmptyBlocks(@), !.alt = RemoveEmptyBlocks(@)]]
    IN  SelectSeq(inner, LAMBDA st : ~(st.op = "block" /\ st.body = <<>>))

\* An if with neither branch goes, and a for or a while with no body; a
\* branch lost before its else is replaced by an empty block.
RECURSIVE RemoveEmptyStatements(_)
RemoveEmptyStatements(ss) ==
    LET inner == [k \in DOMAIN ss |->
                    [ss[k] EXCEPT !.body = RemoveEmptyStatements(@),
                                  !.alt = RemoveEmptyStatements(@)]]
        empty(st) == st.op \in {"if", "for", "while"} /\ st.body = <<>> /\ st.alt = <<>>
        kept == SelectSeq(inner, LAMBDA st : ~empty(st))
    IN  [k \in DOMAIN kept |->
            IF kept[k].op = "if" /\ kept[k].body = <<>>
            THEN [kept[k] EXCEPT !.body = <<BlockOf(<<>>)>>] ELSE kept[k]]

\* remove_deadcode_step; it is taken again until it removes nothing.
DeadcodeStep(ss) ==
    LET dead == Dead(ss)
    IN  RemoveEmptyStatements(RemoveEmptyBlocks(RemoveWrites(ss, dead)))

RECURSIVE RemoveEmptyAttributes(_)
RemoveEmptyAttributes(ss) ==
    LET kept == SelectSeq(ss, LAMBDA st : ~(st.op = "pragma" /\ st.body = <<>>))
    IN  [k \in DOMAIN kept |->
            [kept[k] EXCEPT !.body = RemoveEmptyAttributes(@),
                            !.alt = RemoveEmptyAttributes(@)]]
=============================================================================
