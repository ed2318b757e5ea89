--------------------------- MODULE VariableFolding ---------------------------
(***************************************************************************)
(* The constant interpreter of variable_folding.cpp: it executes a block   *)
(* under the values it knows, folds what it can in place, unrolls the      *)
(* loops whose control is constant, and gives up (forgets every value) on  *)
(* what it cannot resolve.                                                 *)
(*                                                                         *)
(* A context is [map, flow, full]: m_state_map as a function on the names  *)
(* with a known value, m_flow and m_fully_interpreted.  Executing a        *)
(* statement yields its context, self (the node, as rewritten in place)    *)
(* and repl (what its parent holds in its place).                          *)
(***************************************************************************)
EXTENDS Procedure

CONSTANTS Cap,      \* s_max_unroll_iterations
          Target    \* m_return_target: the function-name variable

ASSUME CapAssumption == Cap \in Nat /\ Cap < Fuel

NoValues == [x \in {} |-> 0]
Fresh == [map |-> NoValues, flow |-> "normal", full |-> TRUE]

\* Mutant: what was known stays known.
GiveUpFlowOnly(c) == [c EXCEPT !.flow = "normal", !.full = FALSE]
GiveUp(c) == [map |-> NoValues, flow |-> "normal", full |-> FALSE]

Know(c, x, n) ==
    [c EXCEPT !.map = [y \in DOMAIN c.map \cup {x} |-> IF y = x THEN n ELSE c.map[y]]]
Forget(c, x) == [c EXCEPT !.map = [y \in DOMAIN c.map \ {x} |-> c.map[y]]]

\* The known names replaced by their values, and the expression folded when
\* nothing else is left of it.
Analyze(e, c) ==
    LET args == [k \in DOMAIN e.args |->
                    IF e.args[k].name \in DOMAIN c.map THEN Lit(c.map[e.args[k].name])
                                                       ELSE e.args[k]]
        known == Expr(e.op, args)
    IN  IF IsConst(known) THEN Copy(Lit(Evaluate(known))) ELSE known

ConstOf(e) == e.args[1].n

Done(c, self) == [ctx |-> c, self |-> self, repl |-> <<self>>]
Kept(c, self) == Done(GiveUp(c), self)

ExecuteWrite(st, c) ==
    LET e == Analyze(st.expr, c)
        next == CASE st.op = "hier" -> c
                  [] st.op = "assign" /\ IsConst(e) -> Know(c, st.name, ConstOf(e))
                  [] OTHER -> Forget(c, st.name)
    IN  Done(next, [st EXCEPT !.expr = e])

ExecuteReturn(st, c) ==
    LET set == IF st.name = "" THEN c ELSE ExecuteWrite(Assign(Target, st.expr), c).ctx
    IN  Done([set EXCEPT !.flow = "return"], st)

RECURSIVE HasJump(_)
HasJump(st) ==
    st.op \in JumpOps \/ \E k \in DOMAIN (st.body \o st.alt) : HasJump((st.body \o st.alt)[k])

\* From position from on, the consumed jump and what follows it go.
RECURSIVE Truncate(_, _)
Truncate(ss, from) ==
    LET jumps == {k \in from .. Len(ss) : ss[k].op \in JumpOps}
        first == CHOOSE k \in jumps : \A j \in jumps : k <= j
    IN  IF jumps # {} THEN SubSeq(ss, 1, first - 1)
        ELSE IF ss # <<>> /\ Last(ss).op = "block"
             THEN Front(ss) \o <<[Last(ss) EXCEPT !.body = Truncate(@, 1)]>>
             ELSE ss

RECURSIVE Execute(_, _), LoopLaps(_, _, _, _)

\* execute_in_childs: a jump leaves the statements after it as they are.
ExecuteAll(ss, c) ==
    Thread(LAMBDA acc, st :
                IF acc.ctx.flow # "normal" THEN [acc EXCEPT !.out = Append(@, st)]
                ELSE LET r == Execute(st, acc.ctx)
                     IN  [ctx |-> r.ctx, out |-> acc.out \o r.repl],
             [ctx |-> c, out |-> <<>>], ss)

ExecuteBlock(st, c) ==
    LET r == ExecuteAll(st.body, c) IN Done(r.ctx, [st EXCEPT !.body = r.out])

\* The selected branch takes the place of the if: the branch as it was
\* picked before it ran, so what ran in it as its own replacement is lost.
ExecuteIf(st, c) ==
    LET e == Analyze(st.expr, c)
        taken == IF ConstOf(e) # 0 THEN st.body ELSE st.alt
        r == Execute(taken[1], c)
        slot == IF r.repl = <<r.self>> THEN r.repl ELSE <<BlockOf(r.repl)>>
        kept == [st EXCEPT !.expr = e]
        self == IF ConstOf(e) # 0 THEN [kept EXCEPT !.body = slot]
                                  ELSE [kept EXCEPT !.alt = slot]
    IN  IF ~IsConst(e) THEN Kept(c, [st EXCEPT !.expr = e])
        ELSE IF taken = <<>> THEN [ctx |-> c, self |-> kept, repl |-> <<>>]
        ELSE [ctx |-> r.ctx, self |-> self, repl |-> Contents(<<r.self>>)]

\* One lap: the statements executed are appended, and what a jump made
\* unreachable in this lap is cut.
LoopBody(body, c, out) ==
    LET run == Thread(LAMBDA acc, st :
                    IF acc.ctx.flow # "normal" THEN acc
                    ELSE LET r == Execute(st, acc.ctx)
                         IN  [ctx |-> r.ctx, out |-> acc.out \o r.repl],
                 [ctx |-> c, out |-> out], Contents(body))
    IN  IF run.ctx.flow = "normal" THEN run
        ELSE [run EXCEPT !.out = Truncate(@, Len(out) + 1)]

\* Mutant: the laps are committed with the jumps they hold.
FinalizeAlways(st, c, out) == [ctx |-> c, self |-> st, repl |-> out]

\* Commit the laps, or leave the loop when one of them still jumps.
Finalize(st, c, out) ==
    IF \E k \in DOMAIN out : HasJump(out[k]) THEN Kept(c, st)
    ELSE [ctx |-> c, self |-> st, repl |-> out]

\* stop_after_iteration: break is consumed, return goes on outwards.
Consume(c) == [c EXCEPT !.flow = IF @ = "return" THEN @ ELSE "normal"]

\* A for or a while tests the cap, then its condition, before every lap; a
\* repeat takes times laps.
LoopLaps(st, c, lap, out) ==
    LET cond == Analyze(st.expr, c)
        b == LoopBody(st.body, c, out)
        stop == b.ctx.flow \in {"return", "break"}
        next == Consume(b.ctx)
        post == IF st.post = <<>> THEN next ELSE ExecuteWrite(st.post[1], next).ctx
        counted == st.op = "repeat"
    IN  CASE ~counted /\ lap >= Cap -> Kept(c, st)
          [] ~counted /\ ~IsConst(cond) -> Kept(c, st)
          [] IF counted THEN lap >= ConstOf(st.expr) ELSE ConstOf(cond) = 0 -> Finalize(st, c, out)
          [] OTHER -> IF stop THEN Finalize(st, next, b.out)
                      ELSE LoopLaps(st, post, lap + 1, b.out)

ExecuteLoop(st, c) ==
    LET times == Analyze(st.expr, c)
        pre == ExecuteWrite(st.pre[1], c)
    IN  CASE st.op = "while" -> LoopLaps(st, c, 0, <<>>)
          [] st.op = "for" -> LoopLaps([st EXCEPT !.pre = <<pre.self>>], pre.ctx, 0, <<>>)
          [] st.op = "repeat" ->
                IF IsConst(times) THEN LoopLaps([st EXCEPT !.expr = times], c, 0, <<>>)
                ELSE Kept(c, [st EXCEPT !.expr = times])

Execute(st, c) ==
    CASE st.op = "block" -> ExecuteBlock(st, c)
      [] st.op \in {"assign", "part", "hier"} -> ExecuteWrite(st, c)
      [] st.op = "if" -> ExecuteIf(st, c)
      [] st.op = "return" -> ExecuteReturn(st, c)
      [] st.op \in {"break", "continue"} -> Done([c EXCEPT !.flow = st.op], st)
      [] st.op \in LoopOps -> ExecuteLoop(st, c)
      [] st.op \in {"call", "case", "pragma"} -> Kept(c, st)

\* The pass over the statements of an initial block.
FoldInitial(ss) == ExecuteAll(ss, Fresh)

\* function_evaluation.cpp: a call folds only when its body was interpreted
\* to the end and the result has a value.
\* Mutant: any result is certified.
CertifiedAnyway(r) == Target \in DOMAIN r.ctx.map
Certified(r) == r.ctx.full /\ Target \in DOMAIN r.ctx.map
EvaluateCall(ss) ==
    LET r == ExecuteAll(ss, Fresh)
    IN  [folds |-> Certified(r), value |-> IF Certified(r) THEN r.ctx.map[Target] ELSE 0]
=============================================================================
