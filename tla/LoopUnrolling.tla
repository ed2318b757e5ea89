---------------------------- MODULE LoopUnrolling ----------------------------
(***************************************************************************)
(* The static unrolling of loop_unrolling.cpp: for loops over a constant   *)
(* range and repeats of a constant count are replaced by their laps, with  *)
(* a single kind of jump lowered to structural guards.  Block scopes and   *)
(* the renaming of what they declare are left out.                         *)
(***************************************************************************)
EXTENDS Procedure

Keep(ss) == [ok |-> TRUE, out |-> ss]
Refused(ss) == [ok |-> FALSE, out |-> ss]

\* A nested loop scopes its own jumps.
RECURSIVE OwnsJump(_, _)
OwnsJump(st, jt) ==
    \/ st.op = jt
    \/ /\ st.op \notin LoopOps
       /\ \E k \in DOMAIN (st.body \o st.alt) : OwnsJump((st.body \o st.alt)[k], jt)

IsConditionalJump(st, jt) ==
    st.op = "if" /\ st.alt = <<>> /\ st.body # <<>> /\ st.body[1].op = jt

GuardIf(c, rest) == If(c, <<BlockOf(<<>>)>>, <<BlockOf(rest)>>)

\* if (c) jump; rest becomes if (c) begin end else begin rest end.
RECURSIVE LowerJumps(_, _)
LowerJumps(ss, jt) ==
    LET st == Head(ss)
        rest == LowerJumps(Tail(ss), jt)
    IN  CASE ss = <<>> -> Keep(<<>>)
          [] IsConditionalJump(st, jt) ->
                IF ~rest.ok \/ rest.out = <<>> THEN [rest EXCEPT !.out = <<>>]
                ELSE Keep(<<GuardIf(st.expr, rest.out)>>)
          [] st.op = jt -> Keep(<<>>)
          [] OwnsJump(st, jt) -> Refused(<<>>)
          [] OTHER -> [rest EXCEPT !.out = <<st>> \o @]

\* Mutant: the shape of the jumps is not looked at.
CanLowerAnything(ss, jt) == \A k \in DOMAIN ss : ss[k].op # jt \/ OwnsJump(ss[k], jt)

\* The same shapes, looked at without building anything.
CanLower(ss, jt) ==
    LET jump == {k \in DOMAIN ss : ss[k].op = jt}
        deep == {k \in DOMAIN ss : ~IsConditionalJump(ss[k], jt) /\ ss[k].op # jt
                                    /\ OwnsJump(ss[k], jt)}
    IN  \A d \in deep : \E j \in jump : j < d

\* What becomes of the jumps of a loop: [ok, after, body], after when its
\* breaks are to be lowered across all the laps.
AnalyzeJumps(body) ==
    LET breaks == OwnsJump(body[1], "break")
        continues == OwnsJump(body[1], "continue")
        lowered == LowerJumps(Contents(body), "continue")
    IN  CASE ~breaks /\ ~continues -> [ok |-> TRUE, after |-> FALSE, body |-> body]
          [] breaks /\ continues -> [ok |-> FALSE, after |-> FALSE, body |-> body]
          [] continues -> [ok |-> lowered.ok, after |-> FALSE,
                           body |-> IF lowered.ok THEN <<BlockOf(lowered.out)>> ELSE body]
          [] breaks -> [ok |-> CanLower(Contents(body), "break"),
                        after |-> TRUE, body |-> body]

-----------------------------------------------------------------------------
(* The range of a for loop: the index's values while the condition holds,  *)
(* every expression evaluated under the index alone.                       *)

With(e, x, n) ==
    [e EXCEPT !.args = [k \in DOMAIN @ |-> IF @[k].name = x THEN Lit(n) ELSE @[k]]]

RECURSIVE RangeFrom(_, _)
RangeFrom(st, n) ==
    LET cond == With(st.expr, st.name, n)
        next == With(st.post[1].expr, st.name, n)
        rest == RangeFrom(st, Evaluate(next))
    IN  CASE ~IsConst(cond) -> Refused(<<>>)
          [] Evaluate(cond) = 0 -> Keep(<<>>)
          [] ~IsConst(next) -> Refused(<<>>)
          [] OTHER -> IF rest.ok THEN Keep(<<n>> \o rest.out) ELSE rest

ForRange(st) ==
    LET first == st.pre[1].expr
    IN  IF st.post[1].name # st.pre[1].name \/ ~IsConst(first) THEN Refused(<<>>)
        ELSE RangeFrom(st, Evaluate(first))

\* Every use of the index in a lap is its value.
RECURSIVE Substitute(_, _, _)
Substitute(ss, x, n) ==
    [k \in DOMAIN ss |->
        [ss[k] EXCEPT !.expr = With(@, x, n),
                      !.pre = Substitute(@, x, n),   !.post = Substitute(@, x, n),
                      !.body = Substitute(@, x, n),  !.alt = Substitute(@, x, n)]]

-----------------------------------------------------------------------------
RECURSIVE Unroll(_, _)

UnrollAll(ss) ==
    Thread(LAMBDA acc, st : LET r == Unroll(st, FALSE)
                              IN  [ok |-> acc.ok /\ r.ok, out |-> acc.out \o r.out],
           Keep(<<>>), ss)

\* A slot holds one statement: several are put in a block.
Slot(ss, out) == IF Len(ss) = Len(out) THEN out ELSE <<BlockOf(out)>>

Descend(st) ==
    LET body == UnrollAll(st.body)
        alt == UnrollAll(st.alt)
        kept == IF st.op = "pragma" THEN Unroll(st.body[1], TRUE) ELSE body
        slot == IF st.op = "block" THEN body.out ELSE Slot(st.body, kept.out)
    IN  [ok |-> kept.ok /\ alt.ok,
         out |-> <<[st EXCEPT !.body = slot, !.alt = Slot(@, alt.out)]>>]

\* The laps one after the other, then the breaks lowered across them.
Install(laps, after) ==
    LET all == Thread(LAMBDA acc, l : [ok |-> acc.ok /\ l.ok, out |-> acc.out \o l.out],
                      Keep(<<>>), laps)
    IN  IF after /\ all.ok THEN LowerJumps(all.out, "break") ELSE all

\* A loop whose jumps cannot be lowered is left as it is, unvisited; one
\* whose range is unknown keeps the body its continues were lowered in.
UnrollLoop(st) ==
    LET jumps == AnalyzeJumps(st.body)
        own == [st EXCEPT !.body = jumps.body]
        range == ForRange(own)
        lap(n) == UnrollAll(Substitute(Contents(jumps.body), st.name, n))
    IN  CASE ~jumps.ok -> Keep(<<st>>)
          [] st.op = "for" /\ range.ok ->
                Install([k \in DOMAIN range.out |-> lap(range.out[k])], jumps.after)
          [] st.op = "repeat" /\ IsConst(st.expr) ->
                Install([k \in 1 .. Evaluate(st.expr) |-> UnrollAll(Contents(jumps.body))],
                        jumps.after)
          [] OTHER -> Descend(own)

\* rolled: the loop carries veriparse_no_unroll.
Unroll(st, rolled) ==
    IF st.op \in {"for", "repeat"} /\ ~rolled THEN UnrollLoop(st) ELSE Descend(st)
=============================================================================
