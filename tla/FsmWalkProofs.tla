--------------------------- MODULE FsmWalkProofs ---------------------------
(***************************************************************************)
(* Proofs about the walk, for every tree: its type correctness, that it    *)
(* covers every store of every wait it has begun (Coverage), that a path   *)
(* is told from those recorded before it on the text of the guards alone   *)
(* (OrderInv), and that nothing it records reads a temporary.              *)
(***************************************************************************)
EXTENDS FsmWalk, SequenceTheorems, TLAPS

-----------------------------------------------------------------------------
(* Environments, substitution and guards *)

\* The remainder of a natural by a positive number is below it.
LEMMA ModBound ==
  ASSUME NEW x \in Nat, NEW m \in Nat, m > 0
  PROVE  x % m \in 0 .. m - 1
OBVIOUS

\* What a register can hold, an expression can read.
LEMMA StoreIsWide == Store \subseteq WideStore
BY DEF Store

\* An assignment leaves a value of the target's declared width.
LEMMA TruncateType ==
  ASSUME NEW v \in Vars, NEW x \in Wide
  PROVE  Truncate(v, x) \in Wide /\ Truncate(v, x) < Modulus[v]
<1>1. Modulus[v] \in 1 .. WideModulus
  BY ExprAssumption
<1>2. x % Modulus[v] \in 0 .. Modulus[v] - 1
  BY <1>1, ModBound, ExprAssumption DEF Wide
<1>3. x % Modulus[v] \in 0 .. WideModulus - 1 /\ x % Modulus[v] < Modulus[v]
  BY <1>1, <1>2, ExprAssumption
<1> QED
  BY <1>3 DEF Truncate, Wide

\* The environment a segment starts with is one.
LEMMA NoEnvType == NoEnv \in Env
BY StoreIsWide DEF NoEnv, Env

\* Binding a name to a value leaves an environment.
LEMMA BindType ==
  ASSUME NEW env \in Env, NEW v \in Vars, NEW x \in Value
  PROVE  Bind(env, v, x) \in Env
<1>1. ASSUME NEW s \in Store
      PROVE  [env[s] EXCEPT ![v] = x[s]] \in WideStore
  BY DEF Env, Value, WideStore
<1> QED
  BY <1>1 DEF Bind, Env

\* An environment from which a scope is dropped is one.
LEMMA ForgetType ==
  ASSUME NEW env \in Env, NEW names
  PROVE  Forget(env, names) \in Env
<1>1. ASSUME NEW s \in Store
      PROVE  [v \in Vars |-> IF v \in names THEN s[v] ELSE env[s][v]] \in WideStore
  BY StoreIsWide DEF Env, WideStore
<1> QED
  BY <1>1 DEF Forget, Env

\* Substitution makes of an expression a value of its width.
LEMMA SubstExprType ==
  ASSUME NEW e \in Expr, NEW env \in Env
  PROVE  SubstExpr(e, env) \in Value
BY DEF SubstExpr, Expr, Env, Value

\* A truncated value is a value.
LEMMA TruncateValueType ==
  ASSUME NEW v \in Vars, NEW x \in Value
  PROVE  TruncateValue(v, x) \in Value
<1>1. ASSUME NEW s \in Store PROVE Truncate(v, x[s]) \in Wide
  BY TruncateType DEF Value
<1> QED
  BY <1>1 DEF TruncateValue, Value

\* A substituted test is a conjunct of a guard.
LEMMA SubstTestType ==
  ASSUME NEW t \in Test, NEW env \in Env
  PROVE  SubstTest(t, env) \in Literal
<1>1. t.lhs \in Expr /\ t.rhs \in Wide /\ t.eq \in BOOLEAN
  BY DEF Test
<1>2. SubstExpr(t.lhs, env) \in Value
  BY <1>1, SubstExprType
<1> QED
  BY <1>1, <1>2 DEF SubstTest, Literal

-----------------------------------------------------------------------------

\* The two legs of a fork share no store and miss none.
LEMMA NegatedHolds ==
  ASSUME NEW l \in Literal, NEW s
  PROVE  /\ Negated(l) \in Literal
         /\ Holds(Negated(l), s) <=> ~Holds(l, s)
BY DEF Literal, Negated, Holds

\* The pruning of conjoin is sound: no store satisfies two complements.
LEMMA ComplementsExclude ==
  ASSUME NEW a \in Literal, NEW b \in Literal, NEW s, Complements(a, b)
  PROVE  ~(Holds(a, s) /\ Holds(b, s))
<1>1. a.eq \in BOOLEAN /\ b.eq \in BOOLEAN /\ a.lhs = b.lhs
  BY DEF Literal, Complements
<1>2. CASE a.rhs = b.rhs
  BY <1>1, <1>2 DEF Complements, Holds
<1>3. CASE a.rhs # b.rhs
  BY <1>1, <1>3 DEF Complements, Holds
<1> QED
  BY <1>2, <1>3

\* A leg the pruning drops has no store: contradicts never loses a path.
LEMMA ContradictsExclude ==
  ASSUME NEW guard \in SUBSET Literal, NEW extra \in SUBSET Literal, NEW s,
         Contradicts(guard, extra)
  PROVE  ~(Satisfies(s, guard) /\ Satisfies(s, extra))
BY ComplementsExclude DEF Contradicts, Satisfies

\* A guard grown by conjoin holds where both its parts do.
LEMMA SatisfiesUnion ==
  ASSUME NEW guard, NEW extra, NEW s, Satisfies(s, guard), Satisfies(s, extra)
  PROVE  Satisfies(s, guard \cup extra)
BY DEF Satisfies

-----------------------------------------------------------------------------
(* The legs and the frames of the tree *)

\* What ProgramAssumption says of one node of the process being compiled.
LEMMA NodeFacts ==
  ASSUME name \in Names, NEW n \in NodeId
  PROVE  /\ nodes[n].kids \in Seq(NodeRef)
         /\ nodes[n].tests \in Seq(Test)
         /\ nodes[n].var \in Vars
         /\ nodes[n].val \in Expr
         /\ nodes[n].decls \in SUBSET Vars
         /\ nodes[n].dflt \in Nat
         /\ nodes[n].kind = "block" => nodes[n].kids \in Seq(NodeId)
         /\ nodes[n].kind \in {"if", "while"} => nodes[n].tests[1] \in Test
         /\ nodes[n].kind = "if" =>
              /\ nodes[n].kids[1] \in NodeRef /\ nodes[n].kids[2] \in NodeRef
              /\ nodes[n].dflt = 0 /\ Len(nodes[n].tests) >= 1
         /\ nodes[n].kind \in {"while", "forever", "wait"} => nodes[n].kids[1] \in NodeRef
         /\ nodes[n].kind \in {"case", "reverse"} =>
              /\ Len(nodes[n].tests) = Len(nodes[n].kids)
              /\ nodes[n].dflt \in 0 .. Len(nodes[n].kids)
<1> DEFINE d == Program[name].node[n]
<1>1. /\ d \in Node
      /\ d.kind = "block" => d.kids \in Seq(NodeId)
      /\ d.kind \in {"if", "while"} => Len(d.tests) >= 1
      /\ d.kind = "if" => Len(d.kids) = 2 /\ d.dflt = 0
      /\ d.kind \in {"while", "forever", "wait"} => Len(d.kids) = 1
      /\ d.kind \in {"case", "reverse"} =>
           Len(d.tests) = Len(d.kids) /\ d.dflt \in 0 .. Len(d.kids)
  BY ProgramAssumption
<1> HIDE DEF d
<1>2. /\ d.kids \in Seq(NodeRef) /\ d.tests \in Seq(Test) /\ d.var \in Vars
      /\ d.val \in Expr /\ d.decls \in SUBSET Vars /\ d.dflt \in Nat
  BY <1>1 DEF Node
<1>3. Len(d.tests) \in Nat /\ Len(d.kids) \in Nat
  BY <1>2, LenProperties
<1>4. Len(d.tests) >= 1 => d.tests[1] \in Test
  <2>1. Len(d.tests) >= 1 => 1 \in 1 .. Len(d.tests)
    BY <1>3
  <2> QED
    BY <1>2, <2>1, ElementOfSeq
<1>5. Len(d.kids) >= 1 => d.kids[1] \in NodeRef
  <2>1. Len(d.kids) >= 1 => 1 \in 1 .. Len(d.kids)
    BY <1>3
  <2> QED
    BY <1>2, <2>1, ElementOfSeq
<1>6. Len(d.kids) >= 2 => d.kids[2] \in NodeRef
  <2>1. Len(d.kids) >= 2 => 2 \in 1 .. Len(d.kids)
    BY <1>3
  <2> QED
    BY <1>2, <2>1, ElementOfSeq
<1> QED
  BY <1>1, <1>2, <1>3, <1>4, <1>5, <1>6 DEF nodes, d

\* A sequence of one element.
LEMMA OneSeq ==
  ASSUME NEW S, NEW e \in S
  PROVE  <<e>> \in Seq(S) /\ Len(<<e>>) = 1 /\ DOMAIN <<e>> = {1} /\ <<e>>[1] = e
OBVIOUS

\* Entering a statement keeps the frames frames of the tree.
LEMMA PushFrameType ==
  ASSUME name \in Names, NEW frames \in Seq(Frame), NEW n \in NodeRef,
         NEW loop \in LoopNode \cup {NoNode}
  PROVE  PushFrame(frames, n, loop) \in Seq(Frame)
<1>1. CASE n = NoNode
  BY <1>1 DEF PushFrame
<1>2. CASE n # NoNode
  <2> DEFINE f == [todo  |-> IF nodes[n].kind = "block" THEN nodes[n].kids ELSE <<n>>,
                   loop  |-> loop,
                   decls |-> IF nodes[n].kind = "block" THEN nodes[n].decls ELSE {}]
  <2>1. n \in NodeId
    BY <1>2 DEF NodeRef
  <2>2. <<n>> \in Seq(NodeId)
    BY <2>1, OneSeq
  <2>3. f \in Frame
    BY <2>1, <2>2, NodeFacts DEF Frame
  <2>4. PushFrame(frames, n, loop) = <<f>> \o frames
    BY <1>2 DEF PushFrame
  <2> HIDE DEF f
  <2>5. <<f>> \in Seq(Frame)
    BY <2>3, OneSeq
  <2> QED
    BY <2>4, <2>5, ConcatProperties
<1> QED
  BY <1>1, <1>2

\* A leg that starts at a wait or at the entry is a leg.
LEMMA StartLegType ==
  ASSUME name \in Names, NEW from \in Source, NEW frames \in Seq(Frame)
  PROVE  StartLeg(from, frames) \in PathLeg
BY NoEnvType DEF StartLeg, PathLeg, Leg

\* The environment, the frames, the guard and the action of a leg change
\* without disturbing the rest of it.
LEMMA LegUpdates ==
  ASSUME NEW leg \in PathLeg
  PROVE  /\ \A frames \in Seq(Frame) :
              [leg EXCEPT !.frames = frames] \in PathLeg
         /\ \A guard \in SUBSET Literal :
              [leg EXCEPT !.guard = guard] \in PathLeg
         /\ \A action \in SUBSET Commit :
              [leg EXCEPT !.action = action] \in PathLeg
         /\ \A env \in Env : [leg EXCEPT !.env = env] \in PathLeg
         /\ \A lapped \in SUBSET NodeId :
              [leg EXCEPT !.lapped = lapped] \in PathLeg
BY DEF PathLeg, Leg

\* The leg on top of the stack, and the legs below it.
LEMMA TopFacts ==
  ASSUME TypeOK, Walking
  PROVE  /\ top \in PathLeg /\ top = stack[1]
         /\ Tail(stack) \in Seq(PathLeg)
         /\ \A i \in DOMAIN stack : i # 1 =>
              i - 1 \in DOMAIN Tail(stack) /\ Tail(stack)[i - 1] = stack[i]
<1>1. stack \in Seq(PathLeg) /\ stack # <<>>
  BY DEF TypeOK, Walking
<1>2. /\ Head(stack) \in PathLeg
      /\ Tail(stack) \in Seq(PathLeg)
      /\ Len(Tail(stack)) = Len(stack) - 1
      /\ \A i \in 1 .. Len(Tail(stack)) : Tail(stack)[i] = stack[i + 1]
  BY <1>1, HeadTailProperties
<1>3. Head(stack) = stack[1]
  BY <1>1
<1>4. DOMAIN stack = 1 .. Len(stack) /\ Len(stack) \in Nat
  BY <1>1, LenProperties
<1>5. DOMAIN Tail(stack) = 1 .. Len(Tail(stack))
  BY <1>2, LenProperties
<1> QED
  BY <1>2, <1>3, <1>4, <1>5 DEF top

\* The frame on top of the current leg, and the statement it is at.
LEMMA FrameFacts ==
  ASSUME TypeOK, InFrame
  PROVE  /\ frame \in Frame
         /\ Tail(top.frames) \in Seq(Frame)
         /\ frame.todo # <<>> => stmt \in NodeId /\ Advanced \in PathLeg
<1>1. top \in PathLeg
  BY TopFacts DEF InFrame, InLeg
<1>2. top.frames \in Seq(Frame) /\ top.frames # <<>>
  BY <1>1 DEF PathLeg, Leg, InFrame
<1>3. frame \in Frame /\ Tail(top.frames) \in Seq(Frame)
  BY <1>2, HeadTailProperties DEF frame
<1>4. ASSUME frame.todo # <<>>
      PROVE  stmt \in NodeId /\ Advanced \in PathLeg
  <2>1. frame.todo \in Seq(NodeId)
    BY <1>3 DEF Frame
  <2>2. stmt \in NodeId /\ Tail(frame.todo) \in Seq(NodeId)
    BY <1>4, <2>1, HeadTailProperties DEF stmt
  <2> DEFINE f == [frame EXCEPT !.todo = Tail(frame.todo)]
  <2>3. f \in Frame
    BY <1>3, <2>2 DEF Frame
  <2> HIDE DEF f
  <2>4. <<f>> \o Tail(top.frames) \in Seq(Frame)
    BY <1>3, <2>3, OneSeq, ConcatProperties
  <2>5. Advanced = [top EXCEPT !.frames = <<f>> \o Tail(top.frames)]
    BY DEF Advanced, f
  <2> QED
    BY <1>1, <2>2, <2>4, <2>5, LegUpdates
<1> QED
  BY <1>3, <1>4

-----------------------------------------------------------------------------
(* Type correctness *)

\* What a leg is depends on the process alone.
LEMMA SameProcess ==
  ASSUME name' = name
  PROVE  /\ PathLeg' = PathLeg /\ Waits' = Waits /\ Source' = Source
         /\ nodes' = nodes
         /\ proc' = proc => Transition' = Transition
BY DEF PathLeg, Leg, Frame, LoopNode, CaseNode, Source, Waits, Transition, Decoded, nodes

\* Legs put in place of the current one leave a stack of legs.
LEMMA ReplaceType ==
  ASSUME TypeOK, Walking, NEW legs \in Seq(PathLeg)
  PROVE  legs \o Tail(stack) \in Seq(PathLeg)
BY TopFacts, ConcatProperties

\* The legs of a fork: at most one, of the same state, further guarded.
LEMMA LiveType ==
  ASSUME NEW leg \in PathLeg, NEW extra \in SUBSET Literal
  PROVE  Live(leg, extra) \in Seq(PathLeg)
<1>1. leg.guard \cup extra \in SUBSET Literal
  BY DEF PathLeg, Leg
<1>2. [leg EXCEPT !.guard = leg.guard \cup extra] \in PathLeg
  BY <1>1, LegUpdates
<1>3. <<[leg EXCEPT !.guard = leg.guard \cup extra]>> \in Seq(PathLeg)
  BY <1>2, OneSeq
<1> QED
  BY <1>3, EmptySeq DEF Live

\* The test at a loop head is a conjunct of a guard.
LEMMA LoopTestType ==
  ASSUME name \in Names, NEW leg \in PathLeg, NEW loop \in LoopNode, nodes[loop].kind = "while"
  PROVE  LoopTest(leg, loop) \in Literal /\ Negated(LoopTest(leg, loop)) \in Literal
<1>1. nodes[loop].tests[1] \in Test /\ leg.env \in Env
  BY NodeFacts DEF LoopNode, PathLeg, Leg
<1> QED
  BY <1>1, SubstTestType, NegatedHolds DEF LoopTest

\* A leg that enters a body is a leg.
LEMMA EnteredType ==
  ASSUME name \in Names, NEW leg \in PathLeg, NEW loop \in LoopNode
  PROVE  Entered(leg, loop) \in PathLeg
<1>1. nodes[loop].kids[1] \in NodeRef /\ loop \in NodeId
  BY NodeFacts DEF LoopNode
<1>2. leg.frames \in Seq(Frame) /\ leg.lapped \in SUBSET NodeId
  BY DEF PathLeg, Leg
<1> DEFINE frames == PushFrame(leg.frames, nodes[loop].kids[1], loop)
           inner  == [leg EXCEPT !.frames = frames]
<1>3. frames \in Seq(Frame)
  BY <1>1, <1>2, PushFrameType
<1> HIDE DEF frames
<1>4. inner \in PathLeg
  BY <1>3, LegUpdates
<1>5. Entered(leg, loop) = [inner EXCEPT !.lapped = leg.lapped \cup {loop}]
  BY DEF Entered, frames, PathLeg, Leg
<1> HIDE DEF inner
<1>6. leg.lapped \cup {loop} \in SUBSET NodeId
  BY <1>1, <1>2
<1> QED
  BY <1>4, <1>5, <1>6, LegUpdates

\* The legs past a loop head are legs.
LEMMA LoopLegsType ==
  ASSUME name \in Names, NEW leg \in PathLeg, NEW loop \in LoopNode
  PROVE  LoopLegs(leg, loop) \in Seq(PathLeg)
<1>1. Entered(leg, loop) \in PathLeg
  BY EnteredType
<1>2. CASE Perpetual(leg, loop)
  BY <1>1, <1>2, OneSeq DEF LoopLegs
<1>3. CASE ~Perpetual(leg, loop) /\ NeverRuns(leg, loop)
  BY <1>3, OneSeq DEF LoopLegs
<1>4. CASE ~Perpetual(leg, loop) /\ ~NeverRuns(leg, loop)
  <2>1. nodes[loop].kind = "while"
    BY <1>4 DEF Perpetual, LoopNode
  <2>2. {LoopTest(leg, loop)} \in SUBSET Literal /\ {Negated(LoopTest(leg, loop))} \in SUBSET Literal
    BY <2>1, LoopTestType
  <2>3. /\ Live(Entered(leg, loop), {LoopTest(leg, loop)}) \in Seq(PathLeg)
        /\ Live(leg, {Negated(LoopTest(leg, loop))}) \in Seq(PathLeg)
    BY <1>1, <2>2, LiveType
  <2>4. LoopLegs(leg, loop) = Live(Entered(leg, loop), {LoopTest(leg, loop)})
                              \o Live(leg, {Negated(LoopTest(leg, loop))})
    BY <1>4 DEF LoopLegs
  <2> QED
    BY <2>3, <2>4, ConcatProperties
<1> QED
  BY <1>2, <1>3, <1>4

\* A loop head keeps the types.
LEMMA LoopForkType ==
  ASSUME TypeOK, Walking, NEW leg \in PathLeg, NEW loop \in LoopNode, LoopFork(leg, loop)
  PROVE  TypeOK'
<1>1. name' = name /\ proc' = proc /\ out' = out /\ walked' = walked /\ holdNeeded' = holdNeeded
  BY DEF LoopFork, Fail
<1>2. LoopLegs(leg, loop) \o Tail(stack) \in Seq(PathLeg)
  BY LoopLegsType, ReplaceType DEF TypeOK
<1>3. stack' \in Seq(PathLeg)
  BY <1>2 DEF LoopFork, Fail, Replace, TypeOK
<1>4. status' \in {"walking", "done", "error"}
  BY DEF LoopFork, Fail, TypeOK
<1> QED
  BY <1>1, <1>3, <1>4, SameProcess DEF TypeOK

\* A walk that goes on with typed legs in place of the current one.
LEMMA ReplaceKeepsType ==
  ASSUME TypeOK, Walking, NEW legs \in Seq(PathLeg), Replace(legs),
         UNCHANGED <<name, proc, out, walked, holdNeeded, status>>
  PROVE  TypeOK'
<1>1. stack' \in Seq(PathLeg)
  BY ReplaceType DEF Replace
<1> QED
  BY <1>1, SameProcess DEF TypeOK

\* What a leg leaves in the decoded outputs are values.
LEMMA SnapshotType ==
  ASSUME TypeOK, NEW leg \in PathLeg
  PROVE  Snapshot(leg) \in [Decoded -> Value]
<1>1. Decoded \subseteq Vars /\ leg.env \in Env
  BY DEF TypeOK, Decoded, PathLeg, Leg
<1>2. ASSUME NEW v \in Decoded PROVE [s \in Store |-> leg.env[s][v]] \in Value
  BY <1>1 DEF Env, Value, WideStore
<1> QED
  BY <1>2 DEF Snapshot

\* Recording a path keeps the types of the cover.
LEMMA RecordType ==
  ASSUME TypeOK, Walking, NEW next \in Waits \cup {Hold}, Record(next)
  PROVE  out' \in [Source -> Seq(Transition)] /\ holdNeeded' \in BOOLEAN
<1> DEFINE t == [guard |-> top.guard, action |-> top.action, next |-> next,
                 decode |-> Snapshot(top)]
<1>1. top.from \in Source /\ t \in Transition
  <2>1. top \in PathLeg /\ Snapshot(top) \in [Decoded -> Value]
    BY TopFacts, SnapshotType
  <2> QED
    BY <2>1 DEF PathLeg, Leg, Transition
<1>2. out[top.from] \in Seq(Transition)
  BY <1>1 DEF TypeOK
<1> HIDE DEF t
<1>3. Append(out[top.from], t) \in Seq(Transition)
  BY <1>1, <1>2, AppendProperties
<1>4. out' = [out EXCEPT ![top.from] = Append(out[top.from], t)]
  BY DEF Record, t
<1> QED
  BY <1>1, <1>3, <1>4 DEF TypeOK, Record

\* The end of a frame keeps the types.
LEMMA EndOfFrameType == TypeOK /\ EndOfFrame => TypeOK'
<1> SUFFICES ASSUME TypeOK, EndOfFrame PROVE TypeOK'
  OBVIOUS
<1>1. Walking /\ InFrame /\ top \in PathLeg /\ frame \in Frame /\ Tail(top.frames) \in Seq(Frame)
  BY TopFacts, FrameFacts DEF EndOfFrame, InFrame, InLeg
<1> DEFINE env == Forget(top.env, frame.decls)
           leg == [top EXCEPT !.env = env]
<1>2. env \in Env
  BY <1>1, ForgetType DEF PathLeg, Leg
<1> HIDE DEF env
<1>3. leg \in PathLeg
  BY <1>1, <1>2, LegUpdates
<1>4. [top EXCEPT !.env = Forget(@, frame.decls), !.frames = Tail(@)]
        = [leg EXCEPT !.frames = Tail(top.frames)]
  BY <1>1 DEF env, leg, PathLeg, Leg
<1> HIDE DEF leg
<1>5. [top EXCEPT !.env = Forget(@, frame.decls), !.frames = Tail(@)] \in PathLeg
  BY <1>1, <1>3, <1>4, LegUpdates
<1> QED
  BY <1>1, <1>5, OneSeq, ReplaceKeepsType DEF EndOfFrame

\* A back-edge keeps the types.
LEMMA BackEdgeType == TypeOK /\ BackEdge => TypeOK'
<1> SUFFICES ASSUME TypeOK, BackEdge PROVE TypeOK'
  OBVIOUS
<1>1. Walking /\ InFrame /\ top \in PathLeg /\ frame \in Frame /\ Tail(top.frames) \in Seq(Frame)
  BY TopFacts, FrameFacts DEF BackEdge, InFrame, InLeg
<1> DEFINE env == Forget(top.env, frame.decls)
           leg == [top EXCEPT !.env = env]
<1>2. env \in Env
  BY <1>1, ForgetType DEF PathLeg, Leg
<1> HIDE DEF env
<1>3. leg \in PathLeg
  BY <1>1, <1>2, LegUpdates
<1>4. [top EXCEPT !.env = Forget(@, frame.decls), !.frames = Tail(@)]
        = [leg EXCEPT !.frames = Tail(top.frames)]
  BY <1>1 DEF env, leg, PathLeg, Leg
<1> HIDE DEF leg
<1>5. [top EXCEPT !.env = Forget(@, frame.decls), !.frames = Tail(@)] \in PathLeg
  BY <1>1, <1>3, <1>4, LegUpdates
<1>6. frame.loop \in LoopNode
  BY <1>1 DEF BackEdge, Frame
<1> QED
  BY <1>1, <1>5, <1>6, LoopForkType DEF BackEdge

\* The end of the process keeps the types.
LEMMA EndOfProcessType == TypeOK /\ EndOfProcess => TypeOK'
<1> SUFFICES ASSUME TypeOK, EndOfProcess PROVE TypeOK'
  OBVIOUS
<1>1. Walking
  BY DEF EndOfProcess, InLeg
<1>2. stack' \in Seq(PathLeg)
  BY <1>1, EmptySeq, ReplaceType DEF EndOfProcess, Replace
<1>3. out' \in [Source -> Seq(Transition)] /\ holdNeeded' \in BOOLEAN
  BY <1>1, RecordType DEF EndOfProcess
<1> QED
  BY <1>2, <1>3, SameProcess DEF EndOfProcess, TypeOK

\* The facts of a step at a statement.
LEMMA AtFacts ==
  ASSUME TypeOK, NEW kinds, At(kinds)
  PROVE  /\ Walking /\ InFrame /\ name \in Names /\ top \in PathLeg
         /\ stmt \in NodeId /\ nodes[stmt].kind \in kinds
         /\ Advanced \in PathLeg
         /\ Advanced.from = top.from /\ Advanced.guard = top.guard
         /\ Advanced.action = top.action /\ Advanced.env = top.env
         /\ Advanced.cs = NoNode /\ Advanced.lapped = top.lapped
         /\ Advanced.frames \in Seq(Frame)
<1>1. Walking /\ InFrame /\ name \in Names
  BY DEF At, InFrame, InLeg, TypeOK
<1>2. top \in PathLeg
  BY <1>1, TopFacts
<1>3. stmt \in NodeId /\ nodes[stmt].kind \in kinds /\ Advanced \in PathLeg
  BY <1>1, FrameFacts DEF At
<1>4. /\ Advanced.from = top.from /\ Advanced.guard = top.guard
      /\ Advanced.action = top.action /\ Advanced.env = top.env
      /\ Advanced.cs = top.cs /\ Advanced.lapped = top.lapped
  BY <1>2 DEF Advanced, PathLeg, Leg
<1>5. top.cs = NoNode
  BY <1>1 DEF InFrame, InLeg
<1> QED
  BY <1>1, <1>2, <1>3, <1>4, <1>5 DEF PathLeg, Leg

\* Entering a block keeps the types.
LEMMA EnterBlockType == TypeOK /\ EnterBlock => TypeOK'
<1> SUFFICES ASSUME TypeOK, EnterBlock PROVE TypeOK'
  OBVIOUS
<1> DEFINE frames == PushFrame(Advanced.frames, stmt, NoNode)
<1>1. Walking /\ name \in Names /\ stmt \in NodeId /\ Advanced \in PathLeg /\ Advanced.frames \in Seq(Frame)
  BY AtFacts DEF EnterBlock
<1>2. frames \in Seq(Frame)
  BY <1>1, PushFrameType DEF NodeRef
<1> HIDE DEF frames
<1>3. [Advanced EXCEPT !.frames = frames] \in PathLeg
  BY <1>1, <1>2, LegUpdates
<1>4. Replace(<<[Advanced EXCEPT !.frames = frames]>>)
  BY DEF EnterBlock, frames
<1> QED
  BY <1>1, <1>3, <1>4, OneSeq, ReplaceKeepsType DEF EnterBlock

\* A user commit keeps the types.
LEMMA NonblockingType == TypeOK /\ Nonblocking => TypeOK'
<1> SUFFICES ASSUME TypeOK, Nonblocking PROVE TypeOK'
  OBVIOUS
<1> DEFINE d == nodes[stmt]
           new == [at |-> stmt, var |-> d.var, val |-> SubstExpr(d.val, top.env), induced |-> FALSE]
           action == {c \in Advanced.action : ~(c.induced /\ c.var = d.var)} \cup {new}
<1>1. Walking /\ name \in Names /\ top \in PathLeg /\ stmt \in NodeId /\ Advanced \in PathLeg
  BY AtFacts DEF Nonblocking
<1>2. d.var \in Vars /\ d.val \in Expr /\ top.env \in Env /\ Advanced.action \in SUBSET Commit
  BY <1>1, NodeFacts DEF PathLeg, Leg
<1>3. SubstExpr(d.val, top.env) \in Value
  BY <1>2, SubstExprType
<1>4. new \in Commit
  BY <1>1, <1>2, <1>3 DEF Commit
<1>5. action \in SUBSET Commit
  BY <1>2, <1>4
<1>6. Replace(<<[Advanced EXCEPT !.action = action]>>)
  BY DEF Nonblocking
<1> HIDE DEF action, new, d
<1>7. [Advanced EXCEPT !.action = action] \in PathLeg
  BY <1>1, <1>5, LegUpdates
<1> QED
  BY <1>1, <1>6, <1>7, OneSeq, ReplaceKeepsType DEF Nonblocking

\* An induced commit keeps the types.
LEMMA InducedType == TypeOK /\ Induced => TypeOK'
<1> SUFFICES ASSUME TypeOK, Induced PROVE TypeOK'
  OBVIOUS
<1> DEFINE d == nodes[stmt]
           x == SubstExpr(d.val, top.env)
           new == [at |-> stmt, var |-> d.var, val |-> x, induced |-> TRUE]
           action == {c \in Advanced.action : ~(c.induced /\ c.var = d.var)} \cup {new}
           env == Bind(Advanced.env, d.var, x)
           leg == [Advanced EXCEPT !.action = action]
<1>1. Walking /\ name \in Names /\ top \in PathLeg /\ stmt \in NodeId /\ Advanced \in PathLeg
  BY AtFacts DEF Induced
<1>2. d.var \in Vars /\ d.val \in Expr /\ top.env \in Env
      /\ Advanced.env \in Env /\ Advanced.action \in SUBSET Commit
  BY <1>1, NodeFacts DEF PathLeg, Leg
<1>3. x \in Value
  BY <1>2, SubstExprType
<1>4. new \in Commit
  BY <1>1, <1>2, <1>3 DEF Commit
<1>5. action \in SUBSET Commit
  BY <1>2, <1>4
<1>6. env \in Env
  BY <1>2, <1>3, BindType
<1>7. Replace(<<[Advanced EXCEPT !.action = action, !.env = env]>>)
  BY <1>1 DEF Induced, PathLeg, Leg
<1> HIDE DEF action, new, d, x, env
<1>8. leg \in PathLeg
  BY <1>1, <1>5, LegUpdates
<1>9. [Advanced EXCEPT !.action = action, !.env = env] = [leg EXCEPT !.env = env]
  BY <1>1 DEF leg, PathLeg, Leg
<1> HIDE DEF leg
<1>10. [leg EXCEPT !.env = env] \in PathLeg
  BY <1>6, <1>8, LegUpdates
<1> QED
  BY <1>1, <1>7, <1>9, <1>10, OneSeq, ReplaceKeepsType DEF Induced

\* A temporary keeps the types.
LEMMA BlockingType == TypeOK /\ Blocking => TypeOK'
<1> SUFFICES ASSUME TypeOK, Blocking PROVE TypeOK'
  OBVIOUS
<1> DEFINE d == nodes[stmt]
           x == TruncateValue(d.var, SubstExpr(d.val, top.env))
           env == Bind(Advanced.env, d.var, x)
<1>1. Walking /\ name \in Names /\ top \in PathLeg /\ stmt \in NodeId /\ Advanced \in PathLeg
  BY AtFacts DEF Blocking
<1>2. d.var \in Vars /\ d.val \in Expr /\ top.env \in Env /\ Advanced.env \in Env
  BY <1>1, NodeFacts DEF PathLeg, Leg
<1>3. x \in Value
  BY <1>2, SubstExprType, TruncateValueType
<1>4. env \in Env
  BY <1>2, <1>3, BindType
<1>5. Replace(<<[Advanced EXCEPT !.env = env]>>)
  BY DEF Blocking
<1> HIDE DEF d, x, env
<1>6. [Advanced EXCEPT !.env = env] \in PathLeg
  BY <1>1, <1>4, LegUpdates
<1> QED
  BY <1>1, <1>5, <1>6, OneSeq, ReplaceKeepsType DEF Blocking

\* The value of an output keeps the types.
LEMMA DecodedOutputType == TypeOK /\ DecodedOutput => TypeOK'
<1> SUFFICES ASSUME TypeOK, DecodedOutput PROVE TypeOK'
  OBVIOUS
<1> DEFINE d == nodes[stmt]
           x == SubstExpr(d.val, top.env)
           env == Bind(Advanced.env, d.var, x)
<1>1. Walking /\ name \in Names /\ top \in PathLeg /\ stmt \in NodeId /\ Advanced \in PathLeg
  BY AtFacts DEF DecodedOutput
<1>2. d.var \in Vars /\ d.val \in Expr /\ top.env \in Env /\ Advanced.env \in Env
  BY <1>1, NodeFacts DEF PathLeg, Leg
<1>3. x \in Value
  BY <1>2, SubstExprType
<1>4. env \in Env
  BY <1>2, <1>3, BindType
<1>5. Replace(<<[Advanced EXCEPT !.env = env]>>)
  BY DEF DecodedOutput
<1> HIDE DEF d, x, env
<1>6. [Advanced EXCEPT !.env = env] \in PathLeg
  BY <1>1, <1>4, LegUpdates
<1> QED
  BY <1>1, <1>5, <1>6, OneSeq, ReplaceKeepsType DEF DecodedOutput

\* A literal of a fork, and the leg of an arm, are typed.
LEMMA MatchType ==
  ASSUME name \in Names, NEW leg \in PathLeg, leg.cs # NoNode,
         NEW k \in DOMAIN nodes[leg.cs].tests
  PROVE  Match(leg, k) \in Literal
<1>1. leg.cs \in NodeId /\ leg.env \in Env /\ NoEnv \in Env
  BY NoEnvType DEF PathLeg, Leg, CaseNode
<1>2. nodes[leg.cs].tests[k] \in Test
  BY <1>1, NodeFacts, LenProperties, ElementOfSeq
<1> QED
  BY <1>1, <1>2, SubstTestType DEF Match

\* The negation of every match is a set of conjuncts.
LEMMA NoMatchType ==
  ASSUME name \in Names, NEW leg \in PathLeg, leg.cs # NoNode
  PROVE  NoMatch(leg) \in SUBSET Literal
<1>1. \A k \in Labels(leg.cs) : Negated(Match(leg, k)) \in Literal
  BY MatchType, NegatedHolds DEF Labels
<1> QED
  BY <1>1 DEF NoMatch

\* So is what guards an arm.
LEMMA ArmTestType ==
  ASSUME name \in Names, NEW leg \in PathLeg, leg.cs # NoNode,
         NEW k \in 1 .. Len(nodes[leg.cs].kids)
  PROVE  ArmTest(leg, k) \in SUBSET Literal
<1>1. leg.cs \in NodeId /\ nodes[leg.cs].kind \in {"case", "reverse"}
  BY DEF PathLeg, Leg, CaseNode
<1>2. k \in DOMAIN nodes[leg.cs].tests
  BY <1>1, NodeFacts, LenProperties
<1>3. Match(leg, k) \in Literal
  BY <1>2, MatchType
<1> QED
  BY <1>3, NoMatchType DEF ArmTest

\* A leg out of its case is a leg.
LEMMA OutOfCaseType ==
  ASSUME NEW leg \in PathLeg
  PROVE  /\ OutOfCase(leg) \in PathLeg
         /\ OutOfCase(leg).cs = NoNode
         /\ OutOfCase(leg).from = leg.from
         /\ OutOfCase(leg).guard = leg.guard
         /\ OutOfCase(leg).frames = leg.frames
BY DEF OutOfCase, PathLeg, Leg

\* A fork puts the two sides of its condition in place of the current leg.
LEMMA IfForkFacts ==
  ASSUME TypeOK, IfFork
  PROVE  /\ Walking /\ top \in PathLeg /\ top.cs = NoNode
         /\ \E a, b \in PathLeg : \E c \in Literal :
              /\ a.from = top.from /\ a.guard = top.guard /\ a.cs = NoNode
              /\ b.from = top.from /\ b.guard = top.guard /\ b.cs = NoNode
              /\ Replace(Live(a, {c}) \o Live(b, {Negated(c)}))
<1> DEFINE c == SubstTest(nodes[stmt].tests[1], top.env)
           Arm(k) == [Advanced EXCEPT !.frames = PushFrame(Advanced.frames, nodes[stmt].kids[k], NoNode)]
<1>1. /\ Walking /\ name \in Names /\ top \in PathLeg /\ stmt \in NodeId
      /\ nodes[stmt].kind = "if" /\ Advanced \in PathLeg /\ Advanced.frames \in Seq(Frame)
      /\ Advanced.from = top.from /\ Advanced.guard = top.guard /\ Advanced.cs = NoNode
  BY AtFacts DEF IfFork
<1>2. ASSUME NEW k \in {1, 2}
      PROVE  /\ Arm(k) \in PathLeg /\ Arm(k).from = top.from
             /\ Arm(k).guard = top.guard /\ Arm(k).cs = NoNode
  <2>1. nodes[stmt].kids[k] \in NodeRef
    BY <1>1, <1>2, NodeFacts
  <2> DEFINE frames == PushFrame(Advanced.frames, nodes[stmt].kids[k], NoNode)
  <2>2. frames \in Seq(Frame)
    BY <1>1, <2>1, PushFrameType
  <2> HIDE DEF frames
  <2>3. [Advanced EXCEPT !.frames = frames] \in PathLeg
    BY <1>1, <2>2, LegUpdates
  <2> QED
    BY <1>1, <2>3 DEF frames, PathLeg, Leg
<1>3. c \in Literal
  <2>1. nodes[stmt].tests[1] \in Test /\ top.env \in Env
    BY <1>1, NodeFacts DEF PathLeg, Leg
  <2> QED
    BY <2>1, SubstTestType
<1>4. Replace(Live(Arm(1), {c}) \o Live(Arm(2), {Negated(c)}))
  BY DEF IfFork
<1>5. top.cs = NoNode
  BY DEF IfFork, At, InFrame, InLeg
<1> HIDE DEF c, Arm
<1> QED
  BY <1>1, <1>2, <1>3, <1>4, <1>5

\* A fork keeps the types.
LEMMA IfForkType == TypeOK /\ IfFork => TypeOK'
<1> SUFFICES ASSUME TypeOK, IfFork PROVE TypeOK'
  OBVIOUS
<1>1. PICK a, b \in PathLeg, c \in Literal : Replace(Live(a, {c}) \o Live(b, {Negated(c)}))
  BY IfForkFacts
<1>2. {c} \in SUBSET Literal /\ {Negated(c)} \in SUBSET Literal
  BY NegatedHolds
<1>3. Live(a, {c}) \o Live(b, {Negated(c)}) \in Seq(PathLeg)
  BY <1>2, LiveType, ConcatProperties
<1> QED
  BY <1>1, <1>3, IfForkFacts, ReplaceKeepsType DEF IfFork

\* Entering a case keeps the types.
LEMMA CaseBeginType == TypeOK /\ CaseBegin => TypeOK'
<1> SUFFICES ASSUME TypeOK, CaseBegin PROVE TypeOK'
  OBVIOUS
<1>1. /\ Walking /\ name \in Names /\ stmt \in NodeId
      /\ nodes[stmt].kind \in {"case", "reverse"} /\ Advanced \in PathLeg
  BY AtFacts DEF CaseBegin
<1>2. 1 \in 1 .. Len(nodes[stmt].kids) + 1
  BY <1>1, NodeFacts, LenProperties
<1>3. [Advanced EXCEPT !.cs = stmt, !.arm = 1] \in PathLeg
  BY <1>1, <1>2 DEF PathLeg, Leg, CaseNode
<1> QED
  BY <1>1, <1>3, OneSeq, ReplaceKeepsType DEF CaseBegin

\* The leg of the arm a case is at.
CaseLeg == [OutOfCase(top) EXCEPT
             !.frames = PushFrame(@, nodes[top.cs].kids[top.arm], NoNode)]

\* The leg of an arm and the leg that has passed it are legs.
LEMMA CaseLegFacts ==
  ASSUME TypeOK, CaseArm
  PROVE  /\ Walking /\ name \in Names /\ top \in PathLeg /\ top.cs # NoNode
         /\ top.arm \in 1 .. Len(nodes[top.cs].kids)
         /\ ArmTest(top, top.arm) \in SUBSET Literal
         /\ CaseLeg \in PathLeg /\ CaseLeg.from = top.from
         /\ CaseLeg.guard = top.guard /\ CaseLeg.cs = NoNode
         /\ [top EXCEPT !.arm = @ + 1] \in PathLeg
         /\ Replace(Live(CaseLeg, ArmTest(top, top.arm)) \o <<[top EXCEPT !.arm = @ + 1]>>)
<1>1. Walking /\ name \in Names /\ top \in PathLeg /\ top.cs # NoNode
  BY TopFacts DEF CaseArm, TypeOK
<1>2. top.cs \in NodeId /\ nodes[top.cs].kind \in {"case", "reverse"} /\ top.arm \in Nat
  BY <1>1 DEF PathLeg, Leg, CaseNode
<1>3. nodes[top.cs].kids \in Seq(NodeRef)
  BY <1>1, <1>2, NodeFacts
<1>4. Len(nodes[top.cs].kids) \in Nat
  BY <1>3, LenProperties
<1>5. top.arm \in 1 .. Len(nodes[top.cs].kids)
  BY <1>1, <1>2, <1>4 DEF CaseArm, PathLeg
<1>6. ArmTest(top, top.arm) \in SUBSET Literal
  BY <1>1, <1>5, ArmTestType
<1> DEFINE frames == PushFrame(OutOfCase(top).frames, nodes[top.cs].kids[top.arm], NoNode)
<1>7. OutOfCase(top).frames \in Seq(Frame)
  BY <1>1, OutOfCaseType DEF PathLeg, Leg
<1>8. nodes[top.cs].kids[top.arm] \in NodeRef
  BY <1>3, <1>5, ElementOfSeq
<1>9. frames \in Seq(Frame)
  BY <1>1, <1>7, <1>8, PushFrameType
<1>10. CaseLeg = [OutOfCase(top) EXCEPT !.frames = frames]
  BY DEF CaseLeg
<1> HIDE DEF frames
<1>11. CaseLeg \in PathLeg
  BY <1>1, <1>9, <1>10, OutOfCaseType, LegUpdates
<1>12. CaseLeg.from = top.from /\ CaseLeg.guard = top.guard /\ CaseLeg.cs = NoNode
  BY <1>1, <1>10, OutOfCaseType DEF PathLeg, Leg
<1>13. [top EXCEPT !.arm = @ + 1] \in PathLeg
  <2> DEFINE following == top.arm + 1
  <2>1. following \in Nat /\ following \in 1 .. Len(nodes[top.cs].kids) + 1
    BY <1>2, <1>4, <1>5
  <2>2. [top EXCEPT !.arm = @ + 1] = [top EXCEPT !.arm = following]
    OBVIOUS
  <2> HIDE DEF following
  <2>3. top \in Leg
    BY <1>1 DEF PathLeg
  <2>4. /\ [top EXCEPT !.arm = following] \in Leg
        /\ [top EXCEPT !.arm = following].arm = following
        /\ [top EXCEPT !.arm = following].cs = top.cs
    BY <2>1, <2>3 DEF Leg
  <2> QED
    BY <2>1, <2>2, <2>4 DEF PathLeg
<1>14. Replace(Live(CaseLeg, ArmTest(top, top.arm)) \o <<[top EXCEPT !.arm = @ + 1]>>)
  BY DEF CaseArm, CaseLeg
<1> QED
  BY <1>1, <1>5, <1>6, <1>11, <1>12, <1>13, <1>14

\* An arm of a case keeps the types.
LEMMA CaseArmType == TypeOK /\ CaseArm => TypeOK'
<1> SUFFICES ASSUME TypeOK, CaseArm PROVE TypeOK'
  OBVIOUS
<1>1. Live(CaseLeg, ArmTest(top, top.arm)) \in Seq(PathLeg)
  BY CaseLegFacts, LiveType
<1>2. <<[top EXCEPT !.arm = @ + 1]>> \in Seq(PathLeg)
  BY CaseLegFacts, OneSeq
<1>3. Live(CaseLeg, ArmTest(top, top.arm)) \o <<[top EXCEPT !.arm = @ + 1]>> \in Seq(PathLeg)
  BY <1>1, <1>2, ConcatProperties
<1> QED
  BY <1>3, CaseLegFacts, ReplaceKeepsType DEF CaseArm

\* The end of a case keeps the types.
LEMMA CaseEndType == TypeOK /\ CaseEnd => TypeOK'
<1> SUFFICES ASSUME TypeOK, CaseEnd PROVE TypeOK'
  OBVIOUS
<1>1. Walking /\ name \in Names /\ top \in PathLeg /\ top.cs # NoNode
  BY TopFacts DEF CaseEnd, TypeOK
<1>2. Live(OutOfCase(top), NoMatch(top)) \in Seq(PathLeg)
  BY <1>1, NoMatchType, OutOfCaseType, LiveType
<1> DEFINE legs == IF nodes[top.cs].dflt = 0 THEN Live(OutOfCase(top), NoMatch(top)) ELSE <<>>
<1>3. legs \in Seq(PathLeg)
  BY <1>2, EmptySeq
<1>4. Replace(legs)
  BY DEF CaseEnd
<1> HIDE DEF legs
<1> QED
  BY <1>1, <1>3, <1>4, ReplaceKeepsType DEF CaseEnd

\* Entering a loop keeps the types.
LEMMA EnterLoopType == TypeOK /\ EnterLoop => TypeOK'
<1> SUFFICES ASSUME TypeOK, EnterLoop PROVE TypeOK'
  OBVIOUS
<1>1. Walking /\ Advanced \in PathLeg /\ stmt \in LoopNode
  BY AtFacts DEF EnterLoop, LoopNode
<1> QED
  BY <1>1, LoopForkType DEF EnterLoop

\* The leg a jump continues, and the loop it jumps in.
Unwound(i) == [Advanced EXCEPT !.frames = SubSeq(top.frames, i + 1, Len(top.frames))]

\* A leg unwound past its innermost loop is a leg.
LEMMA UnwoundFacts ==
  ASSUME TypeOK, Jump, NEW i \in InnermostLoop(top.frames)
  PROVE  /\ Walking /\ Unwound(i) \in PathLeg /\ top.frames[i].loop \in LoopNode
         /\ Unwound(i).from = top.from /\ Unwound(i).guard = top.guard
         /\ Unwound(i).cs = NoNode
<1>1. /\ Walking /\ top \in PathLeg /\ Advanced \in PathLeg
      /\ Advanced.from = top.from /\ Advanced.guard = top.guard /\ Advanced.cs = NoNode
  BY AtFacts DEF Jump
<1>2. top.frames \in Seq(Frame)
  BY <1>1 DEF PathLeg, Leg
<1>3. i \in 1 .. Len(top.frames) /\ top.frames[i].loop # NoNode /\ Len(top.frames) \in Nat
  BY <1>2, LenProperties DEF InnermostLoop
<1>4. top.frames[i] \in Frame
  BY <1>2, <1>3, ElementOfSeq
<1>5. top.frames[i].loop \in LoopNode
  BY <1>3, <1>4 DEF Frame
<1>6. \A j \in i + 1 .. Len(top.frames) : top.frames[j] \in Frame
  BY <1>2, <1>3, ElementOfSeq
<1> DEFINE frames == SubSeq(top.frames, i + 1, Len(top.frames))
<1>7. frames \in Seq(Frame)
  BY <1>3, <1>6, SubSeqProperties
<1> HIDE DEF frames
<1>8. [Advanced EXCEPT !.frames = frames] \in PathLeg
  BY <1>1, <1>7, LegUpdates
<1>9. Unwound(i) = [Advanced EXCEPT !.frames = frames]
  BY DEF Unwound, frames
<1> QED
  BY <1>1, <1>5, <1>8, <1>9 DEF PathLeg, Leg

\* A jump keeps the types.
LEMMA JumpType == TypeOK /\ Jump => TypeOK'
<1> SUFFICES ASSUME TypeOK, Jump PROVE TypeOK'
  OBVIOUS
<1>1. CASE InnermostLoop(top.frames) = {}
  BY <1>1, SameProcess DEF Jump, Fail, TypeOK
<1>2. CASE InnermostLoop(top.frames) # {}
  <2>1. PICK i \in InnermostLoop(top.frames) :
          IF nodes[stmt].kind = "continue" THEN LoopFork(Unwound(i), top.frames[i].loop)
          ELSE Replace(<<Unwound(i)>>) /\ UNCHANGED <<name, proc, out, walked, holdNeeded, status>>
    BY <1>2 DEF Jump, Unwound
  <2>2. Walking /\ Unwound(i) \in PathLeg /\ top.frames[i].loop \in LoopNode
    BY UnwoundFacts
  <2>3. CASE nodes[stmt].kind = "continue"
    BY <2>1, <2>2, <2>3, LoopForkType
  <2>4. CASE nodes[stmt].kind # "continue"
    BY <2>1, <2>2, <2>4, OneSeq, ReplaceKeepsType
  <2> QED
    BY <2>3, <2>4
<1> QED
  BY <1>1, <1>2

\* What an arrival leaves on the stack.
ArrivalLegs ==
  IF stmt \in walked THEN <<>>
  ELSE <<StartLeg(stmt, PushFrame(Advanced.frames, nodes[stmt].kids[1], NoNode))>>

\* The leg that starts after a wait is a leg.
LEMMA ArrivalFacts ==
  ASSUME TypeOK, Arrive
  PROVE  /\ Walking /\ top \in PathLeg /\ stmt \in NodeId /\ stmt \in Waits
         /\ ArrivalLegs \in Seq(PathLeg) /\ Replace(ArrivalLegs)
<1>1. /\ Walking /\ name \in Names /\ top \in PathLeg /\ stmt \in NodeId
      /\ nodes[stmt].kind = "wait" /\ Advanced.frames \in Seq(Frame)
  BY AtFacts DEF Arrive
<1>2. nodes[stmt].kids[1] \in NodeRef
  BY <1>1, NodeFacts
<1> DEFINE frames == PushFrame(Advanced.frames, nodes[stmt].kids[1], NoNode)
<1>3. frames \in Seq(Frame)
  BY <1>1, <1>2, PushFrameType
<1> HIDE DEF frames
<1>4. <<StartLeg(stmt, frames)>> \in Seq(PathLeg)
  BY <1>1, <1>3, StartLegType, OneSeq DEF Source, Waits
<1>5. ArrivalLegs \in Seq(PathLeg)
  BY <1>4, EmptySeq DEF ArrivalLegs, frames
<1> QED
  BY <1>1, <1>5 DEF Arrive, ArrivalLegs, Waits

\* An arrival at a wait keeps the types.
LEMMA ArriveType == TypeOK /\ Arrive => TypeOK'
<1> SUFFICES ASSUME TypeOK, Arrive PROVE TypeOK'
  OBVIOUS
<1>1. Walking /\ stmt \in Waits /\ ArrivalLegs \in Seq(PathLeg) /\ Replace(ArrivalLegs)
  BY ArrivalFacts
<1>2. stack' \in Seq(PathLeg)
  BY <1>1, ReplaceType DEF Replace
<1>3. out' \in [Source -> Seq(Transition)] /\ holdNeeded' \in BOOLEAN
  BY <1>1, RecordType DEF Arrive
<1>4. walked' \subseteq Waits
  BY <1>1 DEF Arrive, TypeOK
<1> QED
  BY <1>2, <1>3, <1>4, SameProcess DEF Arrive, TypeOK

\* The walk starts with its types.
LEMMA InitType == Init => TypeOK
<1> SUFFICES ASSUME Init PROVE TypeOK
  OBVIOUS
<1>1. name \in Names /\ Program[name].root \in NodeId
  BY ProgramAssumption DEF Init
<1> DEFINE frames == PushFrame(<<>>, Program[name].root, NoNode)
<1>2. <<>> \in Seq(Frame)
  BY EmptySeq
<1>3. frames \in Seq(Frame)
  BY <1>1, <1>2, PushFrameType DEF NodeRef
<1> HIDE DEF frames
<1>4. <<StartLeg(Entry, frames)>> \in Seq(PathLeg)
  BY <1>1, <1>3, StartLegType, OneSeq DEF Source
<1>5. stack \in Seq(PathLeg)
  BY <1>4 DEF Init, frames
<1>6. out \in [Source -> Seq(Transition)]
  BY EmptySeq DEF Init
<1>7. proc \in [decoded : SUBSET (Vars \ Temps), encoding : Encodings]
  BY <1>1, ProgramAssumption DEF Init
<1> QED
  BY <1>1, <1>5, <1>6, <1>7 DEF Init, TypeOK

\* Every step of the walk keeps the types.
LEMMA WalkStepType == TypeOK /\ [WalkNext]_walkVars => TypeOK'
<1>1. TypeOK /\ (Finish \/ DeadTemporary \/ OutputLeft) => TypeOK'
  BY SameProcess DEF Finish, DeadTemporary, OutputLeft, Fail, TypeOK
<1>2. TypeOK /\ UNCHANGED walkVars => TypeOK'
  BY SameProcess DEF walkVars, TypeOK
<1> QED
  BY <1>1, <1>2, EndOfFrameType, BackEdgeType, EndOfProcessType, EnterBlockType,
     NonblockingType, InducedType, BlockingType, DecodedOutputType, IfForkType, CaseBeginType, CaseArmType,
     CaseEndType, EnterLoopType, JumpType, ArriveType DEF WalkNext

\* Whatever the tree, the walk only ever holds paths of it: the stack pops no
\* frame that is not there, a jump unwinds to a loop, a case leg is at an arm.
THEOREM WalkTypeOK == WalkSpec => []TypeOK
<1>1. Init => TypeOK
  BY InitType
<1>2. TypeOK /\ [WalkNext]_walkVars => TypeOK'
  BY WalkStepType
<1> QED
  BY <1>1, <1>2, PTL DEF WalkSpec

-----------------------------------------------------------------------------
(* Coverage *)

\* What a leg claims depends on the process alone.
LEMMA OffersPrime ==
  ASSUME name' = name, NEW src, NEW s
  PROVE  Offers(stack, src, s)' <=> Offers(stack', src, s)
BY DEF Offers, Claims, Labels, Match, nodes

\* What one of two groups of legs claims, both together claim.
LEMMA ConcatOffers ==
  ASSUME NEW a \in Seq(PathLeg), NEW b \in Seq(PathLeg), NEW src, NEW s,
         Offers(a, src, s) \/ Offers(b, src, s)
  PROVE  Offers(a \o b, src, s)
<1>1. /\ a \o b \in Seq(PathLeg) /\ Len(a \o b) = Len(a) + Len(b)
      /\ \A i \in 1 .. Len(a) + Len(b) :
           (a \o b)[i] = IF i <= Len(a) THEN a[i] ELSE b[i - Len(a)]
  BY ConcatProperties
<1>2. /\ DOMAIN (a \o b) = 1 .. Len(a) + Len(b) /\ DOMAIN a = 1 .. Len(a)
      /\ DOMAIN b = 1 .. Len(b) /\ Len(a) \in Nat /\ Len(b) \in Nat
  BY <1>1, LenProperties
<1>3. CASE Offers(a, src, s)
  <2>1. PICK i \in DOMAIN a : a[i].from = src /\ Claims(a[i], s)
    BY <1>3 DEF Offers
  <2>2. i \in DOMAIN (a \o b) /\ (a \o b)[i] = a[i]
    BY <1>1, <1>2
  <2> QED
    BY <2>1, <2>2 DEF Offers
<1>4. CASE Offers(b, src, s)
  <2>1. PICK i \in DOMAIN b : b[i].from = src /\ Claims(b[i], s)
    BY <1>4 DEF Offers
  <2>2. Len(a) + i \in DOMAIN (a \o b) /\ (a \o b)[Len(a) + i] = b[i]
    BY <1>1, <1>2
  <2> QED
    BY <2>1, <2>2 DEF Offers
<1> QED
  BY <1>3, <1>4

\* Replacing the current leg loses no store it claimed.
LEMMA ReplaceOffers ==
  ASSUME TypeOK, Walking, NEW legs \in Seq(PathLeg), NEW src, NEW s,
         top.from = src /\ Claims(top, s) => Offers(legs, src, s),
         Offers(stack, src, s)
  PROVE  Offers(legs \o Tail(stack), src, s)
<1>1. PICK i \in DOMAIN stack : stack[i].from = src /\ Claims(stack[i], s)
  BY DEF Offers
<1>2. Tail(stack) \in Seq(PathLeg) /\ top = stack[1]
  BY TopFacts
<1>3. CASE i = 1
  BY <1>1, <1>2, <1>3, ConcatOffers
<1>4. CASE i # 1
  <2>1. i - 1 \in DOMAIN Tail(stack) /\ Tail(stack)[i - 1] = stack[i]
    BY <1>4, TopFacts
  <2>2. Offers(Tail(stack), src, s)
    BY <1>1, <2>1 DEF Offers
  <2> QED
    BY <1>2, <2>2, ConcatOffers
<1> QED
  BY <1>3, <1>4

\* A step that records nothing keeps Coverage if the legs it goes on with
\* claim what the current one did.
LEMMA KeepsCoverage ==
  ASSUME TypeOK, Coverage, Walking, NEW legs \in Seq(PathLeg), Replace(legs),
         UNCHANGED <<name, proc, out, walked>>,
         \A s \in Store : Claims(top, s) => Offers(legs, top.from, s)
  PROVE  Coverage'
<1>1. SUFFICES ASSUME NEW src \in walked \cup {Entry}, NEW s \in Store
               PROVE  Covered(src, s)'
  BY DEF Coverage
<1>2. Covered(src, s)
  BY DEF Coverage
<1>3. CASE \E j \in DOMAIN out[src] : Satisfies(s, out[src][j].guard)
  BY <1>3 DEF Covered
<1>4. CASE Offers(stack, src, s)
  <2>1. Offers(legs \o Tail(stack), src, s)
    BY <1>4, ReplaceOffers
  <2>2. Offers(stack', src, s)
    BY <2>1 DEF Replace
  <2> QED
    BY <2>2, OffersPrime DEF Covered
<1> QED
  BY <1>2, <1>3, <1>4 DEF Covered

\* A leg of the same state under the same guard claims as much.
LEMMA SameClaims ==
  ASSUME NEW leg, leg.from = top.from, leg.guard = top.guard, leg.cs = NoNode,
         NEW s, Claims(top, s)
  PROVE  Offers(<<leg>>, top.from, s)
<1>1. Claims(leg, s)
  BY DEF Claims
<1>2. 1 \in DOMAIN <<leg>> /\ <<leg>>[1] = leg
  OBVIOUS
<1> QED
  BY <1>1, <1>2 DEF Offers

\* A leg of a fork claims the stores of the leg it comes from that satisfy it.
LEMMA LiveOffers ==
  ASSUME NEW leg \in PathLeg, leg.cs = NoNode, NEW extra \in SUBSET Literal,
         NEW s, Satisfies(s, leg.guard), Satisfies(s, extra)
  PROVE  Offers(Live(leg, extra), leg.from, s)
<1>1. leg.guard \in SUBSET Literal
  BY DEF PathLeg, Leg
<1>2. ~Contradicts(leg.guard, extra)
  BY <1>1, ContradictsExclude
<1> DEFINE live == [leg EXCEPT !.guard = leg.guard \cup extra]
<1>3. live.from = leg.from /\ live.guard = leg.guard \cup extra /\ live.cs = NoNode
  BY DEF PathLeg, Leg
<1>4. Satisfies(s, leg.guard \cup extra)
  BY SatisfiesUnion
<1>5. Live(leg, extra) = <<live>>
  BY <1>2 DEF Live
<1> HIDE DEF live
<1>6. Claims(live, s)
  BY <1>3, <1>4 DEF Claims
<1>7. 1 \in DOMAIN <<live>> /\ <<live>>[1] = live
  OBVIOUS
<1> QED
  BY <1>3, <1>5, <1>6, <1>7 DEF Offers

\* The two sides of a loop's head share out the stores that reach it.
LEMMA LoopLegsOffer ==
  ASSUME name \in Names, NEW leg \in PathLeg, leg.cs = NoNode, NEW loop \in LoopNode,
         NEW s, Satisfies(s, leg.guard)
  PROVE  Offers(LoopLegs(leg, loop), leg.from, s)
<1>1. /\ Entered(leg, loop) \in PathLeg /\ Entered(leg, loop).from = leg.from
      /\ Entered(leg, loop).guard = leg.guard /\ Entered(leg, loop).cs = NoNode
  BY EnteredType DEF Entered, PathLeg, Leg
<1>2. Claims(leg, s) /\ Claims(Entered(leg, loop), s)
  BY <1>1 DEF Claims
<1>3. /\ 1 \in DOMAIN <<leg>> /\ <<leg>>[1] = leg
      /\ 1 \in DOMAIN <<Entered(leg, loop)>> /\ <<Entered(leg, loop)>>[1] = Entered(leg, loop)
  OBVIOUS
<1>4. CASE Perpetual(leg, loop)
  BY <1>1, <1>2, <1>3, <1>4 DEF LoopLegs, Offers
<1>5. CASE ~Perpetual(leg, loop) /\ NeverRuns(leg, loop)
  BY <1>2, <1>3, <1>5 DEF LoopLegs, Offers
<1>6. CASE ~Perpetual(leg, loop) /\ ~NeverRuns(leg, loop)
  <2> DEFINE t == LoopTest(leg, loop)
  <2>1. nodes[loop].kind = "while"
    BY <1>6 DEF Perpetual, LoopNode
  <2>2. t \in Literal /\ Negated(t) \in Literal
    BY <2>1, LoopTestType
  <2>3. LoopLegs(leg, loop) = Live(Entered(leg, loop), {t}) \o Live(leg, {Negated(t)})
    BY <1>6 DEF LoopLegs
  <2> HIDE DEF t
  <2>4. /\ Live(Entered(leg, loop), {t}) \in Seq(PathLeg)
        /\ Live(leg, {Negated(t)}) \in Seq(PathLeg)
    BY <1>1, <2>2, LiveType
  <2>5. Satisfies(s, {t}) \/ Satisfies(s, {Negated(t)})
    BY <2>2, NegatedHolds DEF Satisfies
  <2>6. \/ Offers(Live(Entered(leg, loop), {t}), leg.from, s)
        \/ Offers(Live(leg, {Negated(t)}), leg.from, s)
    BY <1>1, <2>2, <2>5, LiveOffers
  <2> QED
    BY <2>3, <2>4, <2>6, ConcatOffers
<1> QED
  BY <1>4, <1>5, <1>6

\* A loop head loses no store.
LEMMA LoopForkCovers ==
  ASSUME TypeOK, Coverage, Walking, NEW leg \in PathLeg, NEW loop \in LoopNode,
         leg.from = top.from, leg.guard = top.guard, leg.cs = NoNode, LoopFork(leg, loop)
  PROVE  Coverage'
<1>1. CASE Fail
  <2>1. name' = name /\ proc' = proc /\ out' = out /\ walked' = walked /\ stack' = stack
    BY <1>1 DEF Fail
  <2> QED
    BY <2>1, OffersPrime DEF Coverage, Covered
<1>2. CASE Replace(LoopLegs(leg, loop)) /\ UNCHANGED <<name, proc, out, walked, holdNeeded, status>>
  <2>1. LoopLegs(leg, loop) \in Seq(PathLeg)
    BY LoopLegsType DEF TypeOK
  <2>2. ASSUME NEW s \in Store, Claims(top, s) PROVE Offers(LoopLegs(leg, loop), top.from, s)
    BY <2>2, LoopLegsOffer DEF Claims, TypeOK
  <2> QED
    BY <1>2, <2>1, <2>2, KeepsCoverage
<1> QED
  BY <1>1, <1>2 DEF LoopFork

\* A step of the current leg alone keeps Coverage.
LEMMA StepCovers ==
  ASSUME TypeOK, Coverage, Walking, NEW leg \in PathLeg, Replace(<<leg>>),
         UNCHANGED <<name, proc, out, walked>>,
         leg.from = top.from, leg.guard = top.guard, leg.cs = NoNode
  PROVE  Coverage'
BY OneSeq, SameClaims, KeepsCoverage

\* The end of a frame loses no store.
LEMMA EndOfFrameCovers == TypeOK /\ Coverage /\ EndOfFrame => Coverage'
<1> SUFFICES ASSUME TypeOK, Coverage, EndOfFrame PROVE Coverage'
  OBVIOUS
<1> DEFINE leg == [top EXCEPT !.env = Forget(@, frame.decls), !.frames = Tail(@)]
<1>1. Walking /\ top \in PathLeg /\ top.cs = NoNode /\ Tail(top.frames) \in Seq(Frame)
      /\ frame \in Frame
  BY TopFacts, FrameFacts DEF EndOfFrame, InFrame, InLeg
<1>2. Forget(top.env, frame.decls) \in Env
  BY <1>1, ForgetType DEF PathLeg, Leg
<1>3. leg \in PathLeg /\ leg.from = top.from /\ leg.guard = top.guard /\ leg.cs = NoNode
  BY <1>1, <1>2 DEF PathLeg, Leg
<1>4. Replace(<<leg>>)
  BY DEF EndOfFrame
<1> HIDE DEF leg
<1> QED
  BY <1>1, <1>3, <1>4, StepCovers DEF EndOfFrame

\* A back-edge loses no store.
LEMMA BackEdgeCovers == TypeOK /\ Coverage /\ BackEdge => Coverage'
<1> SUFFICES ASSUME TypeOK, Coverage, BackEdge PROVE Coverage'
  OBVIOUS
<1> DEFINE leg == [top EXCEPT !.env = Forget(@, frame.decls), !.frames = Tail(@)]
<1>1. Walking /\ top \in PathLeg /\ top.cs = NoNode /\ Tail(top.frames) \in Seq(Frame)
      /\ frame \in Frame
  BY TopFacts, FrameFacts DEF BackEdge, InFrame, InLeg
<1>2. Forget(top.env, frame.decls) \in Env
  BY <1>1, ForgetType DEF PathLeg, Leg
<1>3. leg \in PathLeg /\ leg.from = top.from /\ leg.guard = top.guard /\ leg.cs = NoNode
  BY <1>1, <1>2 DEF PathLeg, Leg
<1>4. frame.loop \in LoopNode /\ LoopFork(leg, frame.loop)
  BY <1>1 DEF BackEdge, Frame
<1> HIDE DEF leg
<1> QED
  BY <1>1, <1>3, <1>4, LoopForkCovers

\* What a step that keeps the types puts in place of the current leg is a leg.
LEMMA ReplacedIsALeg ==
  ASSUME TypeOK, TypeOK', Walking, NEW leg, Replace(<<leg>>), name' = name
  PROVE  leg \in PathLeg
<1>1. stack' = <<leg>> \o Tail(stack)
  BY DEF Replace
<1>2. stack' \in Seq(PathLeg)
  BY SameProcess DEF TypeOK
<1>3. Tail(stack) \in Seq(PathLeg)
  BY TopFacts
<1>4. <<leg>> \in Seq({leg}) /\ Len(<<leg>>) = 1
  BY OneSeq
<1> DEFINE S == PathLeg \cup {leg}
<1>5. <<leg>> \in Seq(S) /\ Tail(stack) \in Seq(S)
  BY <1>3, <1>4, SeqMonotonic
<1>6. /\ Len(stack') = 1 + Len(Tail(stack))
      /\ \A i \in 1 .. 1 + Len(Tail(stack)) :
           stack'[i] = IF i <= 1 THEN <<leg>>[i] ELSE Tail(stack)[i - 1]
  <2> HIDE DEF S
  <2> QED
    BY <1>1, <1>4, <1>5, ConcatProperties
<1>7. Len(Tail(stack)) \in Nat
  BY <1>3, LenProperties
<1>8. 1 \in 1 .. Len(stack') /\ stack'[1] = leg
  BY <1>6, <1>7
<1> QED
  BY <1>2, <1>8, ElementOfSeq

\* The steps at a statement that neither fork nor end the path.
LEMMA StatementFacts ==
  ASSUME TypeOK, EnterBlock \/ Nonblocking \/ Induced \/ Blocking \/ DecodedOutput
  PROVE  /\ Walking /\ top.cs = NoNode /\ UNCHANGED <<name, proc, out, walked>>
         /\ \E leg \in PathLeg : /\ Replace(<<leg>>) /\ leg.cs = NoNode
                                 /\ leg.from = top.from /\ leg.guard = top.guard
<1>1. /\ Walking /\ Advanced \in PathLeg /\ Advanced.from = top.from
      /\ Advanced.guard = top.guard /\ Advanced.cs = NoNode
  <2>1. \E kinds : At(kinds)
    BY DEF EnterBlock, Nonblocking, Induced, Blocking, DecodedOutput
  <2> QED
    BY <2>1, AtFacts
<1>2. PICK leg : /\ Replace(<<leg>>) /\ UNCHANGED <<name, proc, out, walked>>
                 /\ leg.from = Advanced.from /\ leg.guard = Advanced.guard
                 /\ leg.cs = Advanced.cs
  <2>1. CASE EnterBlock
    <3> DEFINE leg == [Advanced EXCEPT !.frames = PushFrame(@, stmt, NoNode)]
    <3>1. Replace(<<leg>>) /\ UNCHANGED <<name, proc, out, walked>>
      BY <2>1 DEF EnterBlock
    <3>2. leg.from = Advanced.from /\ leg.guard = Advanced.guard /\ leg.cs = Advanced.cs
      BY <1>1 DEF PathLeg, Leg
    <3> QED
      BY <3>1, <3>2
  <2>2. CASE Nonblocking
    <3> DEFINE leg == [Advanced EXCEPT !.action =
                 {c \in @ : ~(c.induced /\ c.var = nodes[stmt].var)}
                 \cup {[at |-> stmt, var |-> nodes[stmt].var,
                        val |-> SubstExpr(nodes[stmt].val, top.env), induced |-> FALSE]}]
    <3>1. Replace(<<leg>>) /\ UNCHANGED <<name, proc, out, walked>>
      BY <2>2 DEF Nonblocking
    <3>2. leg.from = Advanced.from /\ leg.guard = Advanced.guard /\ leg.cs = Advanced.cs
      BY <1>1 DEF PathLeg, Leg
    <3> QED
      BY <3>1, <3>2
  <2>3. CASE Induced
    <3> DEFINE x == SubstExpr(nodes[stmt].val, top.env)
               leg == [Advanced EXCEPT
                 !.action = {c \in @ : ~(c.induced /\ c.var = nodes[stmt].var)}
                   \cup {[at |-> stmt, var |-> nodes[stmt].var, val |-> x, induced |-> TRUE]},
                 !.env = Bind(@, nodes[stmt].var, x)]
    <3>1. Replace(<<leg>>) /\ UNCHANGED <<name, proc, out, walked>>
      BY <2>3 DEF Induced
    <3>2. leg.from = Advanced.from /\ leg.guard = Advanced.guard /\ leg.cs = Advanced.cs
      BY <1>1 DEF PathLeg, Leg
    <3> QED
      BY <3>1, <3>2
  <2>4. CASE Blocking
    <3> DEFINE leg == [Advanced EXCEPT !.env = Bind(@, nodes[stmt].var,
                 TruncateValue(nodes[stmt].var, SubstExpr(nodes[stmt].val, top.env)))]
    <3>1. Replace(<<leg>>) /\ UNCHANGED <<name, proc, out, walked>>
      BY <2>4 DEF Blocking
    <3>2. leg.from = Advanced.from /\ leg.guard = Advanced.guard /\ leg.cs = Advanced.cs
      BY <1>1 DEF PathLeg, Leg
    <3> QED
      BY <3>1, <3>2
  <2>5. CASE DecodedOutput
    <3> DEFINE leg == [Advanced EXCEPT !.env =
                 Bind(@, nodes[stmt].var, SubstExpr(nodes[stmt].val, top.env))]
    <3>1. Replace(<<leg>>) /\ UNCHANGED <<name, proc, out, walked>>
      BY <2>5 DEF DecodedOutput
    <3>2. leg.from = Advanced.from /\ leg.guard = Advanced.guard /\ leg.cs = Advanced.cs
      BY <1>1 DEF PathLeg, Leg
    <3> QED
      BY <3>1, <3>2
  <2> QED
    BY <2>1, <2>2, <2>3, <2>4, <2>5
<1>3. TypeOK'
  BY EnterBlockType, NonblockingType, InducedType, BlockingType, DecodedOutputType
<1>4. leg \in PathLeg
  BY <1>1, <1>2, <1>3, ReplacedIsALeg
<1>5. top.cs = NoNode
  BY DEF EnterBlock, Nonblocking, Induced, Blocking, DecodedOutput, At, InFrame, InLeg
<1> QED
  BY <1>1, <1>2, <1>4, <1>5

\* They lose no store.
LEMMA StatementCovers ==
  ASSUME TypeOK, Coverage, EnterBlock \/ Nonblocking \/ Induced \/ Blocking \/ DecodedOutput
  PROVE  Coverage'
BY StatementFacts, StepCovers

\* A fork loses no store.
LEMMA IfForkCovers == TypeOK /\ Coverage /\ IfFork => Coverage'
<1> SUFFICES ASSUME TypeOK, Coverage, IfFork PROVE Coverage'
  OBVIOUS
<1>1. PICK a, b \in PathLeg, c \in Literal :
        /\ a.from = top.from /\ a.guard = top.guard /\ a.cs = NoNode
        /\ b.from = top.from /\ b.guard = top.guard /\ b.cs = NoNode
        /\ Replace(Live(a, {c}) \o Live(b, {Negated(c)}))
  BY IfForkFacts
<1>2. {c} \in SUBSET Literal /\ {Negated(c)} \in SUBSET Literal
  BY NegatedHolds
<1>3. Live(a, {c}) \in Seq(PathLeg) /\ Live(b, {Negated(c)}) \in Seq(PathLeg)
  BY <1>2, LiveType
<1>4. ASSUME NEW s \in Store, Claims(top, s)
      PROVE  Offers(Live(a, {c}) \o Live(b, {Negated(c)}), top.from, s)
  <2>1. Satisfies(s, top.guard)
    BY <1>4 DEF Claims
  <2>2. Satisfies(s, {c}) \/ Satisfies(s, {Negated(c)})
    BY NegatedHolds DEF Satisfies
  <2>3. Offers(Live(a, {c}), top.from, s) \/ Offers(Live(b, {Negated(c)}), top.from, s)
    BY <1>1, <1>2, <2>1, <2>2, LiveOffers
  <2> QED
    BY <1>3, <2>3, ConcatOffers
<1>5. Live(a, {c}) \o Live(b, {Negated(c)}) \in Seq(PathLeg)
  BY <1>3, ConcatProperties
<1> QED
  BY <1>1, <1>4, <1>5, IfForkFacts, KeepsCoverage DEF IfFork

\* Entering a case loses no store.
LEMMA CaseBeginCovers == TypeOK /\ Coverage /\ CaseBegin => Coverage'
<1> SUFFICES ASSUME TypeOK, Coverage, CaseBegin PROVE Coverage'
  OBVIOUS
<1> DEFINE leg == [Advanced EXCEPT !.cs = stmt, !.arm = 1]
<1>1. /\ Walking /\ name \in Names /\ stmt \in NodeId
      /\ nodes[stmt].kind \in {"case", "reverse"} /\ Advanced \in PathLeg
      /\ Advanced.from = top.from /\ Advanced.guard = top.guard
  BY AtFacts DEF CaseBegin
<1>2. 1 \in 1 .. Len(nodes[stmt].kids) + 1
  BY <1>1, NodeFacts, LenProperties
<1>3. /\ leg \in PathLeg /\ leg.from = top.from /\ leg.guard = top.guard
      /\ leg.cs = stmt /\ leg.arm = 1
  BY <1>1, <1>2 DEF PathLeg, Leg, CaseNode
<1>4. Replace(<<leg>>)
  BY DEF CaseBegin
<1> HIDE DEF leg
<1>5. \A k \in Labels(stmt) : k >= 1
  BY <1>1, NodeFacts, LenProperties DEF Labels
<1>6. nodes[stmt].dflt = 0 \/ nodes[stmt].dflt >= 1
  BY <1>1, NodeFacts
<1>7. ASSUME NEW s \in Store, Claims(top, s) PROVE Offers(<<leg>>, top.from, s)
  <2>1. Satisfies(s, leg.guard)
    BY <1>3, <1>7 DEF Claims
  <2>2. Claims(leg, s)
    BY <1>3, <1>5, <1>6, <2>1 DEF Claims
  <2>3. 1 \in DOMAIN <<leg>> /\ <<leg>>[1] = leg
    OBVIOUS
  <2> QED
    BY <1>3, <2>2, <2>3 DEF Offers
<1> QED
  BY <1>1, <1>3, <1>4, <1>7, OneSeq, KeepsCoverage DEF CaseBegin

\* The test of an arm holds where its match does; the default's where none does.
LEMMA ArmTestHolds ==
  ASSUME name \in Names, NEW leg \in PathLeg, leg.cs # NoNode,
         NEW k \in 1 .. Len(nodes[leg.cs].kids), NEW s
  PROVE  /\ k \in Labels(leg.cs) /\ Holds(Match(leg, k), s) => Satisfies(s, ArmTest(leg, k))
         /\ /\ k = nodes[leg.cs].dflt
            /\ \A j \in Labels(leg.cs) : ~Holds(Match(leg, j), s)
            => Satisfies(s, ArmTest(leg, k))
<1>1. ASSUME \A j \in Labels(leg.cs) : ~Holds(Match(leg, j), s)
      PROVE  Satisfies(s, NoMatch(leg))
  <2>1. \A j \in Labels(leg.cs) : Match(leg, j) \in Literal
    BY MatchType DEF Labels
  <2>2. \A j \in Labels(leg.cs) : Holds(Negated(Match(leg, j)), s)
    BY <1>1, <2>1, NegatedHolds
  <2> QED
    BY <2>2 DEF NoMatch, Satisfies
<1>2. k \in Labels(leg.cs) => k # nodes[leg.cs].dflt
  BY DEF Labels
<1> QED
  BY <1>1, <1>2 DEF ArmTest, Satisfies

\* An arm of a case loses no store.
LEMMA CaseArmCovers == TypeOK /\ Coverage /\ CaseArm => Coverage'
<1> SUFFICES ASSUME TypeOK, Coverage, CaseArm PROVE Coverage'
  OBVIOUS
<1> DEFINE k == top.arm
           rest == [top EXCEPT !.arm = @ + 1]
           body == Live(CaseLeg, ArmTest(top, k))
<1>1. /\ Walking /\ name \in Names /\ top \in PathLeg /\ top.cs # NoNode
      /\ k \in 1 .. Len(nodes[top.cs].kids)
      /\ ArmTest(top, k) \in SUBSET Literal
      /\ CaseLeg \in PathLeg /\ CaseLeg.from = top.from
      /\ CaseLeg.guard = top.guard /\ CaseLeg.cs = NoNode
      /\ rest \in PathLeg
      /\ Replace(body \o <<rest>>)
  BY CaseLegFacts
<1>2. /\ rest.from = top.from /\ rest.guard = top.guard /\ rest.cs = top.cs
      /\ rest.env = top.env /\ rest.arm = k + 1
  BY <1>1 DEF PathLeg, Leg
<1>3. body \in Seq(PathLeg) /\ <<rest>> \in Seq(PathLeg)
  BY <1>1, LiveType, OneSeq
<1>4. body \o <<rest>> \in Seq(PathLeg)
  BY <1>3, ConcatProperties
<1>5. top.cs \in NodeId /\ nodes[top.cs].kind \in {"case", "reverse"}
  BY <1>1 DEF PathLeg, Leg, CaseNode
<1>6. /\ Labels(top.cs) \subseteq Nat /\ nodes[top.cs].dflt \in Nat /\ k \in Nat
      /\ DOMAIN nodes[top.cs].tests = 1 .. Len(nodes[top.cs].kids)
  BY <1>1, <1>5, NodeFacts, LenProperties DEF Labels
<1> HIDE DEF rest, body, k
<1>7. ASSUME NEW s \in Store, Claims(top, s)
      PROVE  Offers(body \o <<rest>>, top.from, s)
  <2>1. Satisfies(s, top.guard)
    BY <1>7 DEF Claims
  <2>2. CASE Satisfies(s, ArmTest(top, k))
    <3>1. Offers(body, top.from, s)
      BY <1>1, <2>1, <2>2, LiveOffers DEF body
    <3> QED
      BY <1>3, <3>1, ConcatOffers
  <2>3. CASE ~Satisfies(s, ArmTest(top, k))
    <3>1. k \in Labels(top.cs) => ~Holds(Match(top, k), s)
      BY <1>1, <2>3, ArmTestHolds
    <3>2. (\A j \in Labels(top.cs) : ~Holds(Match(top, j), s)) => k # nodes[top.cs].dflt
      BY <1>1, <2>3, ArmTestHolds
    <3>3. \A j \in Labels(top.cs) : Match(rest, j) = Match(top, j)
      BY <1>2 DEF Match
    <3>4. Claims(rest, s)
      <4>1. \/ \E j \in Labels(top.cs) : j >= k /\ Holds(Match(top, j), s)
            \/ /\ \A j \in Labels(top.cs) : ~Holds(Match(top, j), s)
               /\ nodes[top.cs].dflt = 0 \/ nodes[top.cs].dflt >= k
        BY <1>1, <1>7 DEF Claims, k
      <4>2. \/ \E j \in Labels(top.cs) : j >= k + 1 /\ Holds(Match(top, j), s)
            \/ /\ \A j \in Labels(top.cs) : ~Holds(Match(top, j), s)
               /\ nodes[top.cs].dflt = 0 \/ nodes[top.cs].dflt >= k + 1
        <5>1. CASE \E j \in Labels(top.cs) : j >= k /\ Holds(Match(top, j), s)
          <6>1. PICK j \in Labels(top.cs) : j >= k /\ Holds(Match(top, j), s)
            BY <5>1
          <6>2. j # k
            BY <3>1, <6>1
          <6>3. j >= k + 1
            BY <1>6, <6>1, <6>2
          <6> QED
            BY <6>1, <6>3
        <5>2. CASE /\ \A j \in Labels(top.cs) : ~Holds(Match(top, j), s)
                   /\ nodes[top.cs].dflt = 0 \/ nodes[top.cs].dflt >= k
          <6>1. k # nodes[top.cs].dflt
            BY <3>2, <5>2
          <6>2. nodes[top.cs].dflt = 0 \/ nodes[top.cs].dflt >= k + 1
            BY <1>6, <5>2, <6>1
          <6> QED
            BY <5>2, <6>2
        <5> QED
          BY <4>1, <5>1, <5>2
      <4> QED
        BY <1>2, <2>1, <3>3, <4>2 DEF Claims
    <3>5. 1 \in DOMAIN <<rest>> /\ <<rest>>[1] = rest
      OBVIOUS
    <3>6. Offers(<<rest>>, top.from, s)
      BY <1>2, <3>4, <3>5 DEF Offers
    <3> QED
      BY <1>3, <3>6, ConcatOffers
  <2> QED
    BY <2>2, <2>3
<1>8. UNCHANGED <<name, proc, out, walked>>
  BY DEF CaseArm
<1> QED
  BY <1>1, <1>4, <1>7, <1>8, KeepsCoverage

\* The end of a case loses no store.
LEMMA CaseEndCovers == TypeOK /\ Coverage /\ CaseEnd => Coverage'
<1> SUFFICES ASSUME TypeOK, Coverage, CaseEnd PROVE Coverage'
  OBVIOUS
<1> DEFINE fall == Live(OutOfCase(top), NoMatch(top))
           legs == IF nodes[top.cs].dflt = 0 THEN fall ELSE <<>>
<1>1. Walking /\ name \in Names /\ top \in PathLeg /\ top.cs # NoNode
  BY TopFacts DEF CaseEnd, TypeOK
<1>2. /\ NoMatch(top) \in SUBSET Literal /\ OutOfCase(top) \in PathLeg
      /\ OutOfCase(top).cs = NoNode /\ OutOfCase(top).from = top.from
      /\ OutOfCase(top).guard = top.guard
  BY <1>1, NoMatchType, OutOfCaseType
<1>3. fall \in Seq(PathLeg)
  BY <1>2, LiveType
<1>4. legs \in Seq(PathLeg)
  BY <1>3, EmptySeq
<1>5. Replace(legs)
  BY DEF CaseEnd
<1>6. top.cs \in NodeId /\ nodes[top.cs].kind \in {"case", "reverse"} /\ top.arm \in Nat
  BY <1>1 DEF PathLeg, Leg, CaseNode
<1>7. /\ \A k \in Labels(top.cs) : ~(k >= top.arm)
      /\ ~(nodes[top.cs].dflt >= top.arm)
  <2>1. /\ DOMAIN nodes[top.cs].tests = 1 .. Len(nodes[top.cs].kids)
        /\ Len(nodes[top.cs].kids) \in Nat
        /\ nodes[top.cs].dflt \in 0 .. Len(nodes[top.cs].kids)
    BY <1>1, <1>6, NodeFacts, LenProperties
  <2>2. top.arm > Len(nodes[top.cs].kids)
    BY DEF CaseEnd
  <2> QED
    BY <1>6, <2>1, <2>2 DEF Labels
<1>8. ASSUME NEW s \in Store, Claims(top, s)
      PROVE  Offers(legs, top.from, s)
  <2>1. /\ Satisfies(s, top.guard)
        /\ \A k \in Labels(top.cs) : ~Holds(Match(top, k), s)
        /\ nodes[top.cs].dflt = 0
    BY <1>1, <1>7, <1>8 DEF Claims
  <2>2. \A k \in Labels(top.cs) : Match(top, k) \in Literal
    BY <1>1, MatchType DEF Labels
  <2>3. Satisfies(s, NoMatch(top))
    BY <2>1, <2>2, NegatedHolds DEF NoMatch, Satisfies
  <2>4. Offers(fall, top.from, s)
    BY <1>2, <2>1, <2>3, LiveOffers
  <2> QED
    BY <2>1, <2>4
<1> HIDE DEF legs
<1>9. UNCHANGED <<name, proc, out, walked>>
  BY DEF CaseEnd
<1> QED
  BY <1>1, <1>4, <1>5, <1>8, <1>9, KeepsCoverage

\* Entering a loop loses no store.
LEMMA EnterLoopCovers == TypeOK /\ Coverage /\ EnterLoop => Coverage'
<1> SUFFICES ASSUME TypeOK, Coverage, EnterLoop PROVE Coverage'
  OBVIOUS
<1>1. /\ Walking /\ Advanced \in PathLeg /\ stmt \in LoopNode
      /\ Advanced.from = top.from /\ Advanced.guard = top.guard /\ Advanced.cs = NoNode
  BY AtFacts DEF EnterLoop, LoopNode
<1> QED
  BY <1>1, LoopForkCovers DEF EnterLoop

\* A jump loses no store.
LEMMA JumpCovers == TypeOK /\ Coverage /\ Jump => Coverage'
<1> SUFFICES ASSUME TypeOK, Coverage, Jump PROVE Coverage'
  OBVIOUS
<1>1. CASE InnermostLoop(top.frames) = {}
  <2>1. name' = name /\ proc' = proc /\ out' = out /\ walked' = walked /\ stack' = stack
    BY <1>1 DEF Jump, Fail
  <2> QED
    BY <2>1, OffersPrime DEF Coverage, Covered
<1>2. CASE InnermostLoop(top.frames) # {}
  <2>1. PICK i \in InnermostLoop(top.frames) :
          IF nodes[stmt].kind = "continue" THEN LoopFork(Unwound(i), top.frames[i].loop)
          ELSE Replace(<<Unwound(i)>>) /\ UNCHANGED <<name, proc, out, walked, holdNeeded, status>>
    BY <1>2 DEF Jump, Unwound
  <2>2. /\ Walking /\ Unwound(i) \in PathLeg /\ top.frames[i].loop \in LoopNode
        /\ Unwound(i).from = top.from /\ Unwound(i).guard = top.guard /\ Unwound(i).cs = NoNode
    BY UnwoundFacts
  <2>3. CASE nodes[stmt].kind = "continue"
    BY <2>1, <2>2, <2>3, LoopForkCovers
  <2>4. CASE nodes[stmt].kind # "continue"
    BY <2>1, <2>2, <2>4, StepCovers
  <2> QED
    BY <2>3, <2>4
<1> QED
  BY <1>1, <1>2

\* A recorded path takes over what its leg claimed.
LEMMA RecordCovers ==
  ASSUME TypeOK, Walking, top.cs = NoNode, NEW next, Record(next),
         NEW legs \in Seq(PathLeg), Replace(legs), name' = name,
         NEW src \in Source, NEW s, Covered(src, s)
  PROVE  Covered(src, s)'
<1> DEFINE t == [guard |-> top.guard, action |-> top.action, next |-> next,
                 decode |-> Snapshot(top)]
<1>1. top.from \in Source
  BY TopFacts DEF PathLeg, Leg
<1>2. out[top.from] \in Seq(Transition) /\ out \in [Source -> Seq(Transition)]
  BY <1>1 DEF TypeOK
<1>3. out' = [out EXCEPT ![top.from] = Append(out[top.from], t)]
  BY DEF Record
<1>4. /\ Len(Append(out[top.from], t)) = Len(out[top.from]) + 1
      /\ DOMAIN Append(out[top.from], t) = 1 .. Len(out[top.from]) + 1
      /\ \A i \in 1 .. Len(out[top.from]) : Append(out[top.from], t)[i] = out[top.from][i]
      /\ Append(out[top.from], t)[Len(out[top.from]) + 1] = t
  <2> DEFINE S == Transition \cup {t}
  <2>1. out[top.from] \in Seq(S) /\ t \in S
    BY <1>2, SeqMonotonic
  <2> HIDE DEF S, t
  <2> QED
    BY <2>1, AppendProperties, LenProperties
<1>5. Len(out[top.from]) \in Nat /\ DOMAIN out[top.from] = 1 .. Len(out[top.from])
  BY <1>2, LenProperties
<1>6. t.guard = top.guard
  OBVIOUS
<1> HIDE DEF t
<1>7. CASE \E j \in DOMAIN out[src] : Satisfies(s, out[src][j].guard)
  <2>1. PICK j \in DOMAIN out[src] : Satisfies(s, out[src][j].guard)
    BY <1>7
  <2>2. j \in DOMAIN out'[src] /\ out'[src][j] = out[src][j]
    <3>1. CASE src = top.from
      BY <1>1, <1>2, <1>3, <1>4, <1>5, <2>1, <3>1
    <3>2. CASE src # top.from
      BY <1>1, <1>2, <1>3, <2>1, <3>2
    <3> QED
      BY <3>1, <3>2
  <2>3. \E i \in DOMAIN out'[src] : Satisfies(s, out'[src][i].guard)
    BY <2>1, <2>2
  <2> QED
    BY <2>3 DEF Covered, Satisfies, Holds
<1>8. CASE Offers(stack, src, s)
  <2>1. CASE top.from = src /\ Claims(top, s)
    <3>1. Satisfies(s, t.guard)
      BY <1>6, <2>1 DEF Claims
    <3> DEFINE n == Len(out[top.from]) + 1
    <3>2. n \in DOMAIN out'[src] /\ out'[src][n] = t
      BY <1>1, <1>2, <1>3, <1>4, <1>5, <2>1
    <3> HIDE DEF n
    <3>3. \E i \in DOMAIN out'[src] : Satisfies(s, out'[src][i].guard)
      BY <3>1, <3>2
    <3> QED
      BY <3>3 DEF Covered, Satisfies, Holds
  <2>2. CASE ~(top.from = src /\ Claims(top, s))
    <3>1. Offers(legs \o Tail(stack), src, s)
      BY <1>8, <2>2, ReplaceOffers
    <3> QED
      BY <3>1, OffersPrime DEF Replace, Covered
  <2> QED
    BY <2>1, <2>2
<1> QED
  BY <1>7, <1>8 DEF Covered

\* The end of the process loses no store.
LEMMA EndOfProcessCovers == TypeOK /\ Coverage /\ EndOfProcess => Coverage'
<1> SUFFICES ASSUME TypeOK, Coverage, EndOfProcess,
                    NEW src \in walked \cup {Entry}, NEW s \in Store
             PROVE  Covered(src, s)'
  BY DEF Coverage, EndOfProcess
<1>1. Walking /\ top.cs = NoNode /\ <<>> \in Seq(PathLeg) /\ Covered(src, s) /\ src \in Source
  BY EmptySeq DEF EndOfProcess, InLeg, Coverage, TypeOK, Source
<1> QED
  BY <1>1, RecordCovers DEF EndOfProcess

\* An arrival at a wait loses no store.
LEMMA ArriveCovers == TypeOK /\ Coverage /\ Arrive => Coverage'
<1> SUFFICES ASSUME TypeOK, Coverage, Arrive,
                    NEW src \in walked \cup {stmt} \cup {Entry}, NEW s \in Store
             PROVE  Covered(src, s)'
  BY DEF Coverage, Arrive
<1>1. /\ Walking /\ top \in PathLeg /\ stmt \in Waits
      /\ ArrivalLegs \in Seq(PathLeg) /\ Replace(ArrivalLegs)
  BY ArrivalFacts
<1>2. top.cs = NoNode /\ name' = name /\ Record(stmt)
  BY DEF Arrive, At, InFrame, InLeg
<1>3. CASE src \in walked \cup {Entry}
  <2>1. Covered(src, s) /\ src \in Source
    BY <1>3 DEF Coverage, TypeOK, Source
  <2> QED
    BY <1>1, <1>2, <2>1, RecordCovers
<1>4. CASE src \notin walked \cup {Entry}
  <2> DEFINE leg == StartLeg(stmt, PushFrame(Advanced.frames, nodes[stmt].kids[1], NoNode))
  <2>1. src = stmt /\ ArrivalLegs = <<leg>>
    BY <1>4 DEF ArrivalLegs
  <2>2. leg.from = src /\ leg.guard = {} /\ leg.cs = NoNode
    BY <2>1 DEF StartLeg
  <2> HIDE DEF leg
  <2>3. Claims(leg, s)
    BY <2>2 DEF Claims, Satisfies
  <2>4. 1 \in DOMAIN <<leg>> /\ <<leg>>[1] = leg
    OBVIOUS
  <2>5. Offers(ArrivalLegs, src, s)
    BY <2>1, <2>2, <2>3, <2>4 DEF Offers
  <2>6. Tail(stack) \in Seq(PathLeg)
    BY <1>1, TopFacts
  <2>7. Offers(stack', src, s)
    BY <1>1, <2>5, <2>6, ConcatOffers DEF Replace
  <2> QED
    BY <1>2, <2>7, OffersPrime DEF Covered
<1> QED
  BY <1>3, <1>4

\* The first leg takes every store.
LEMMA InitCovers == Init => Coverage
<1> SUFFICES ASSUME Init, NEW src \in walked \cup {Entry}, NEW s \in Store
             PROVE  Covered(src, s)
  BY DEF Coverage
<1> DEFINE leg == StartLeg(Entry, PushFrame(<<>>, Program[name].root, NoNode))
<1>1. src = Entry /\ stack = <<leg>>
  BY DEF Init
<1>2. leg.from = src /\ leg.guard = {} /\ leg.cs = NoNode
  BY <1>1 DEF StartLeg
<1> HIDE DEF leg
<1>3. Claims(leg, s)
  BY <1>2 DEF Claims, Satisfies
<1>4. 1 \in DOMAIN <<leg>> /\ <<leg>>[1] = leg
  OBVIOUS
<1> QED
  BY <1>1, <1>2, <1>3, <1>4 DEF Covered, Offers

\* No step of the walk loses a store.
LEMMA WalkStepCovers == TypeOK /\ Coverage /\ [WalkNext]_walkVars => Coverage'
<1>1. Coverage /\ (Finish \/ DeadTemporary \/ OutputLeft \/ UNCHANGED walkVars) => Coverage'
  BY OffersPrime DEF Finish, DeadTemporary, OutputLeft, Fail, walkVars, Coverage, Covered
<1> QED
  BY <1>1, EndOfFrameCovers, BackEdgeCovers, EndOfProcessCovers, StatementCovers,
     IfForkCovers, CaseBeginCovers, CaseArmCovers, CaseEndCovers, EnterLoopCovers,
     JumpCovers, ArriveCovers DEF WalkNext

\* The path cover is total: whatever the tree forks on, however its loops are
\* left, every store has a path from every wait the walk began.
THEOREM WalkCoverage == WalkSpec => []Coverage
<1>1. Init => TypeOK /\ Coverage
  BY InitType, InitCovers
<1>2. TypeOK /\ Coverage /\ [WalkNext]_walkVars => TypeOK' /\ Coverage'
  BY WalkStepType, WalkStepCovers
<1> QED
  BY <1>1, <1>2, PTL DEF WalkSpec

-----------------------------------------------------------------------------
(* The order of the paths                                                  *)
(*                                                                         *)
(* A chain of legs takes the first that holds.  What a leg may assume of   *)
(* those before it, and `contradicts` decides on the text of the guards    *)
(* alone, is that they cannot hold as well: a path contradicts each path   *)
(* recorded before it, or it is never the first that holds.                *)

\* The guards that the paths of a leg extend: a leg within a case has one for
\* each of the arms it has not walked.
Ways(leg) ==
  IF leg.cs = NoNode THEN {leg.guard}
  ELSE {leg.guard \cup ArmTest(leg, k) : k \in leg.arm .. Len(nodes[leg.cs].kids)}
       \cup (IF nodes[leg.cs].dflt = 0 THEN {leg.guard \cup NoMatch(leg)} ELSE {})

\* A guard contradicts all those before it, or is never the first that holds.
Ranked(w, before) ==
  \/ \A v \in before : Contradicts(v, w)
  \/ \A s \in Store : Satisfies(s, w) => \E v \in before : Satisfies(s, v)

Earlier(legs, src, k) == UNION {Ways(legs[h]) : h \in {i \in 1 .. k - 1 : legs[i].from = src}}

Recorded(src) == {out[src][j].guard : j \in DOMAIN out[src]}

Sorted ==
  /\ \A k \in DOMAIN stack : \A w \in Ways(stack[k]) :
       Ranked(w, Recorded(stack[k].from) \cup Earlier(stack, stack[k].from, k))
  /\ \A src \in Source : \A j \in DOMAIN out[src] :
       Ranked(out[src][j].guard, {out[src][i].guard : i \in 1 .. j - 1})

\* A wait has no path before the walk has begun it.
Begun ==
  /\ \A k \in DOMAIN stack : stack[k].from \in walked \cup {Entry}
  /\ \A src \in Source : out[src] # <<>> => src \in walked \cup {Entry}

\* No two conjuncts of a guard exclude each other.
Harmonious(guard) == \A a, b \in guard : ~Complements(a, b)

Unclashed ==
  /\ \A k \in DOMAIN stack : Harmonious(stack[k].guard)
  /\ \A src \in Source : \A j \in DOMAIN out[src] : Harmonious(out[src][j].guard)

\* The order, and what it rests on.
Order == Sorted /\ Begun /\ Unclashed

OrderInv == ConstantLabels => Order

\* What a fork puts in place of the current leg: legs that share out its ways
\* in an order of their own.
Forks(legs) ==
  /\ \A i \in DOMAIN legs :
       /\ legs[i].from = top.from /\ Harmonious(legs[i].guard)
       /\ \A w \in Ways(legs[i]) :
            /\ \E v \in Ways(top) : v \subseteq w
            /\ Ranked(w, Earlier(legs, top.from, i))
  /\ \A s \in Store : \A v \in Ways(top) : Satisfies(s, v) =>
       \E i \in DOMAIN legs : \E w \in Ways(legs[i]) : Satisfies(s, w)

\* Complements are each the other's.
LEMMA ComplementsBoth ==
  ASSUME NEW a, NEW b, Complements(a, b)
  PROVE  Complements(b, a)
BY DEF Complements

\* A guard that says more excludes no less.
LEMMA ContradictsMore ==
  ASSUME NEW u, NEW v, NEW x, NEW y, u \subseteq v, x \subseteq y, Contradicts(u, x)
  PROVE  Contradicts(v, y)
BY DEF Contradicts

\* A guard that says more keeps its rank behind guards that take as much.
LEMMA RankedRefines ==
  ASSUME NEW w, NEW before, Ranked(w, before), NEW x, w \subseteq x, NEW after,
         \A u \in after : \E v \in before : v \subseteq u,
         \A s \in Store : \A v \in before : Satisfies(s, v) /\ Satisfies(s, x)
           => \E u \in after : Satisfies(s, u)
  PROVE  Ranked(x, after)
<1>1. CASE \A v \in before : Contradicts(v, w)
  <2>1. \A u \in after : Contradicts(u, x)
    BY <1>1, ContradictsMore
  <2> QED
    BY <2>1 DEF Ranked
<1>2. CASE \A s \in Store : Satisfies(s, w) => \E v \in before : Satisfies(s, v)
  <2>1. \A s \in Store : Satisfies(s, x) => Satisfies(s, w)
    BY DEF Satisfies
  <2> QED
    BY <1>2, <2>1 DEF Ranked
<1> QED
  BY <1>1, <1>2 DEF Ranked

\* What is ranked behind two groups is ranked behind both together.
LEMMA RankedJoin ==
  ASSUME NEW w, NEW a, Ranked(w, a), NEW x, w \subseteq x, NEW b, Ranked(x, b)
  PROVE  Ranked(x, a \cup b)
<1>1. CASE \A s \in Store : Satisfies(s, w) => \E v \in a : Satisfies(s, v)
  <2>1. \A s \in Store : Satisfies(s, x) => Satisfies(s, w)
    BY DEF Satisfies
  <2> QED
    BY <1>1, <2>1 DEF Ranked
<1>2. CASE \A s \in Store : Satisfies(s, x) => \E v \in b : Satisfies(s, v)
  BY <1>2 DEF Ranked
<1>3. CASE (\A v \in a : Contradicts(v, w)) /\ (\A v \in b : Contradicts(v, x))
  <2>1. \A v \in a : Contradicts(v, x)
    BY <1>3, ContradictsMore
  <2> QED
    BY <1>3, <2>1 DEF Ranked
<1> QED
  BY <1>1, <1>2, <1>3 DEF Ranked

\* Nothing is behind what is behind nothing.
LEMMA RankedFirst ==
  ASSUME NEW w
  PROVE  Ranked(w, {})
BY DEF Ranked

\* The ways of a leg depend on the process alone, and so does the order.
LEMMA WaysPrime ==
  ASSUME name' = name
  PROVE  /\ \A k : Ways(stack[k])' = Ways(stack'[k])
         /\ \A src, k : Earlier(stack, src, k)' = Earlier(stack', src, k)
<1>1. ASSUME NEW k PROVE Ways(stack[k])' = Ways(stack'[k])
  BY DEF Ways, ArmTest, NoMatch, Match, Labels, nodes
<1>2. ASSUME NEW src, NEW k
      PROVE  Earlier(stack, src, k)' = Earlier(stack', src, k)
  <2>1. Earlier(stack, src, k)' = UNION {Ways(stack[h])' : h \in {i \in 1 .. k - 1 : stack'[i].from = src}}
    BY DEF Earlier
  <2> QED
    BY <1>1, <2>1 DEF Earlier
<1> QED
  BY <1>1, <1>2

\* Where the legs of the stack stand once others have replaced the first.
LEMMA Positions ==
  ASSUME TypeOK, Walking, NEW legs \in Seq(PathLeg)
  PROVE  LET new == legs \o Tail(stack)
         IN  /\ Len(legs) \in Nat /\ DOMAIN legs = 1 .. Len(legs)
             /\ Len(stack) \in Nat /\ DOMAIN stack = 1 .. Len(stack) /\ 1 \in DOMAIN stack
             /\ DOMAIN new = 1 .. Len(legs) + Len(stack) - 1
             /\ \A h \in 1 .. Len(legs) : new[h] = legs[h]
             /\ \A m \in 2 .. Len(stack) : new[m - 1 + Len(legs)] = stack[m]
<1> DEFINE new == legs \o Tail(stack)
<1>1. stack \in Seq(PathLeg) /\ stack # <<>>
  BY DEF TypeOK, Walking
<1>2. /\ Len(stack) \in Nat /\ DOMAIN stack = 1 .. Len(stack) /\ Len(stack) >= 1
      /\ Len(legs) \in Nat /\ DOMAIN legs = 1 .. Len(legs)
  BY <1>1, LenProperties, EmptySeq
<1>3. /\ Tail(stack) \in Seq(PathLeg)
      /\ Len(Tail(stack)) = Len(stack) - 1
      /\ \A i \in 1 .. Len(Tail(stack)) : Tail(stack)[i] = stack[i + 1]
  BY <1>1, HeadTailProperties
<1>4. /\ new \in Seq(PathLeg) /\ Len(new) = Len(legs) + Len(Tail(stack))
      /\ \A i \in 1 .. Len(legs) + Len(Tail(stack)) :
           new[i] = IF i <= Len(legs) THEN legs[i] ELSE Tail(stack)[i - Len(legs)]
  BY <1>3, ConcatProperties
<1>5. DOMAIN new = 1 .. Len(legs) + Len(stack) - 1
  BY <1>2, <1>3, <1>4, LenProperties
<1> HIDE DEF new
<1>6. ASSUME NEW h \in 1 .. Len(legs) PROVE new[h] = legs[h]
  BY <1>2, <1>3, <1>4, <1>6
<1>7. ASSUME NEW m \in 2 .. Len(stack) PROVE new[m - 1 + Len(legs)] = stack[m]
  <2> DEFINE i == m - 1 + Len(legs)
  <2>1. /\ i \in 1 .. Len(legs) + Len(Tail(stack)) /\ ~(i <= Len(legs))
        /\ i - Len(legs) \in 1 .. Len(Tail(stack)) /\ (i - Len(legs)) + 1 = m
    BY <1>2, <1>3
  <2> HIDE DEF i
  <2>2. new[i] = Tail(stack)[i - Len(legs)]
    BY <1>4, <2>1
  <2>3. Tail(stack)[i - Len(legs)] = stack[m]
    BY <1>3, <2>1
  <2> QED
    BY <2>2, <2>3 DEF i
<1>8. 1 \in DOMAIN stack
  BY <1>2
<1> QED
  BY <1>2, <1>5, <1>6, <1>7, <1>8 DEF new

\* What stands before the k-th leg, leg by leg.
LEMMA EarlierHas ==
  ASSUME NEW legs, NEW src, NEW k, NEW h \in 1 .. k - 1, legs[h].from = src, NEW v \in Ways(legs[h])
  PROVE  v \in Earlier(legs, src, k)
BY DEF Earlier

LEMMA EarlierIs ==
  ASSUME NEW legs, NEW src, NEW k, NEW v \in Earlier(legs, src, k)
  PROVE  \E h \in 1 .. k - 1 : legs[h].from = src /\ v \in Ways(legs[h])
BY DEF Earlier

LEMMA NothingEarlier ==
  ASSUME NEW legs, NEW src
  PROVE  Earlier(legs, src, 1) = {}
<1>1. 1 .. 1 - 1 = {}
  OBVIOUS
<1> QED
  BY <1>1 DEF Earlier

\* A fork keeps the order: its legs rank behind what the leg they come from
\* ranked behind, and those after it lose nothing they rank behind.
LEMMA ForkOrder ==
  ASSUME TypeOK, Walking, Sorted, NEW legs \in Seq(PathLeg), Forks(legs),
         NEW k \in DOMAIN (legs \o Tail(stack)), NEW w \in Ways((legs \o Tail(stack))[k])
  PROVE  LET new == legs \o Tail(stack)
         IN  Ranked(w, Recorded(new[k].from) \cup Earlier(new, new[k].from, k))
<1> DEFINE new == legs \o Tail(stack)
           n == Len(legs)
           src == new[k].from
<1>1. /\ n \in Nat /\ DOMAIN legs = 1 .. n
      /\ Len(stack) \in Nat /\ DOMAIN stack = 1 .. Len(stack) /\ 1 \in DOMAIN stack
      /\ DOMAIN new = 1 .. n + Len(stack) - 1
      /\ \A h \in 1 .. n : new[h] = legs[h]
      /\ \A m \in 2 .. Len(stack) : new[m - 1 + n] = stack[m]
  BY Positions
<1>2. top = stack[1]
  BY TopFacts
<1>3. k \in 1 .. n + Len(stack) - 1 /\ w \in Ways(new[k])
  BY <1>1
<1> HIDE DEF new, n
<1>4. CASE k \in 1 .. n
  <2>1. new[k] = legs[k] /\ k \in DOMAIN legs /\ src = top.from
    BY <1>1, <1>4 DEF Forks
  <2>2. PICK v \in Ways(top) : v \subseteq w
    BY <1>3, <2>1 DEF Forks
  <2>3. Ranked(v, Recorded(src))
    <3>1. Ranked(v, Recorded(src) \cup Earlier(stack, src, 1))
      BY <1>1, <1>2, <2>1, <2>2 DEF Sorted
    <3> QED
      BY <3>1, NothingEarlier
  <2>4. Ranked(w, Earlier(legs, src, k))
    BY <1>3, <2>1 DEF Forks
  <2>5. Earlier(legs, src, k) = Earlier(new, src, k)
    <3>1. \A h \in 1 .. k - 1 : h \in 1 .. n
      BY <1>1, <1>4
    <3>2. \A h \in 1 .. k - 1 : new[h] = legs[h]
      BY <1>1, <3>1
    <3> QED
      BY <3>2 DEF Earlier
  <2> QED
    BY <2>2, <2>3, <2>4, <2>5, RankedJoin DEF new
<1>5. CASE k \notin 1 .. n
  <2> DEFINE m == k - n + 1
  <2>1. m \in 2 .. Len(stack) /\ m \in DOMAIN stack /\ m - 1 + n = k
    BY <1>1, <1>3, <1>5
  <2> HIDE DEF m
  <2>2. new[k] = stack[m] /\ src = stack[m].from
    BY <1>1, <2>1
  <2> HIDE DEF src
  <2>3. Ranked(w, Recorded(src) \cup Earlier(stack, src, m))
    BY <1>3, <2>1, <2>2 DEF Sorted
  <2>4. ASSUME NEW u \in Earlier(new, src, k)
        PROVE  \E v \in Earlier(stack, src, m) : v \subseteq u
    <3>1. PICK h \in 1 .. k - 1 : new[h].from = src /\ u \in Ways(new[h])
      BY EarlierIs
    <3>2. CASE h \in 1 .. n
      <4>1. new[h] = legs[h] /\ h \in DOMAIN legs
        BY <1>1, <3>2
      <4>2. top.from = src
        BY <3>1, <4>1 DEF Forks
      <4>3. PICK v \in Ways(top) : v \subseteq u
        BY <3>1, <4>1 DEF Forks
      <4>4. 1 \in 1 .. m - 1
        BY <2>1
      <4>5. v \in Earlier(stack, src, m)
        BY <1>2, <4>2, <4>3, <4>4, EarlierHas
      <4> QED
        BY <4>3, <4>5
    <3>3. CASE h \notin 1 .. n
      <4> DEFINE g == h - n + 1
      <4>1. g \in 2 .. Len(stack) /\ g \in 1 .. m - 1 /\ g - 1 + n = h
        <5>1. n \in Nat /\ h \in Nat /\ h > n /\ h <= k - 1
          BY <1>1, <3>3
        <5>2. m \in Nat /\ m <= Len(stack) /\ Len(stack) \in Nat /\ m - 1 + n = k
          BY <1>1, <2>1
        <5> QED
          BY <5>1, <5>2
      <4> HIDE DEF g
      <4>2. new[h] = stack[g]
        BY <1>1, <4>1
      <4>3. u \in Earlier(stack, src, m)
        BY <3>1, <4>1, <4>2, EarlierHas
      <4> QED
        BY <4>3
    <3> QED
      BY <3>2, <3>3
  <2>5. ASSUME NEW s \in Store, NEW v \in Earlier(stack, src, m), Satisfies(s, v)
        PROVE  \E u \in Earlier(new, src, k) : Satisfies(s, u)
    <3>1. PICK g \in 1 .. m - 1 : stack[g].from = src /\ v \in Ways(stack[g])
      BY EarlierIs
    <3>2. CASE g = 1
      <4>1. top.from = src /\ v \in Ways(top)
        BY <1>2, <3>1, <3>2
      <4>2. PICK i \in DOMAIN legs : \E u \in Ways(legs[i]) : Satisfies(s, u)
        BY <2>5, <4>1 DEF Forks
      <4>3. PICK u \in Ways(legs[i]) : Satisfies(s, u)
        BY <4>2
      <4>4. i \in 1 .. k - 1 /\ new[i] = legs[i] /\ new[i].from = src
        <5>1. i \in 1 .. n /\ i \in 1 .. k - 1
          BY <1>1, <1>3, <1>5
        <5> QED
          BY <1>1, <4>1, <5>1 DEF Forks
      <4>5. u \in Earlier(new, src, k)
        BY <4>3, <4>4, EarlierHas
      <4> QED
        BY <4>3, <4>5
    <3>3. CASE g # 1
      <4> DEFINE h == g - 1 + n
      <4>1. g \in 2 .. Len(stack) /\ h \in 1 .. k - 1
        BY <1>1, <1>3, <2>1, <3>3
      <4>2. new[h] = stack[g]
        BY <1>1, <4>1
      <4> HIDE DEF h
      <4>3. v \in Earlier(new, src, k)
        BY <3>1, <4>1, <4>2, EarlierHas
      <4> QED
        BY <2>5, <4>3
    <3> QED
      BY <3>2, <3>3
  <2> DEFINE before == Recorded(src) \cup Earlier(stack, src, m)
             after == Recorded(src) \cup Earlier(new, src, k)
  <2>6. \A u \in after : \E v \in before : v \subseteq u
    BY <2>4
  <2>7. \A s \in Store : \A v \in before :
          Satisfies(s, v) /\ Satisfies(s, w) => \E u \in after : Satisfies(s, u)
    BY <2>5
  <2>8. Ranked(w, before)
    BY <2>3
  <2> HIDE DEF before, after
  <2>9. Ranked(w, after)
    <3>1. CASE \A v \in before : Contradicts(v, w)
      <4>1. \A u \in after : Contradicts(u, w)
        BY <2>6, <3>1, ContradictsMore
      <4> QED
        BY <4>1 DEF Ranked
    <3>2. CASE \A s \in Store : Satisfies(s, w) => \E v \in before : Satisfies(s, v)
      BY <2>7, <3>2 DEF Ranked
    <3> QED
      BY <2>8, <3>1, <3>2 DEF Ranked
  <2> QED
    BY <2>9 DEF after, src, new
<1> QED
  BY <1>4, <1>5

\* The order as the next state has it.
LEMMA SortedNext ==
  ASSUME name' = name,
         \A k \in DOMAIN stack' : \A w \in Ways(stack'[k]) :
           Ranked(w, Recorded(stack[k].from)' \cup Earlier(stack', stack'[k].from, k)),
         \A src \in Source : \A j \in DOMAIN out'[src] :
           Ranked(out'[src][j].guard, {out'[src][i].guard : i \in 1 .. j - 1})
  PROVE  Sorted'
<1>1. ASSUME NEW k \in DOMAIN stack', NEW w \in Ways(stack[k])'
      PROVE  Ranked(w, Recorded(stack[k].from) \cup Earlier(stack, stack[k].from, k))'
  <2>1. w \in Ways(stack'[k])
    BY <1>1, WaysPrime
  <2>2. Earlier(stack, stack[k].from, k)' = Earlier(stack', stack'[k].from, k)
    <3>1. Earlier(stack, stack[k].from, k)'
            = UNION {Ways(stack[h])' : h \in {i \in 1 .. k - 1 : stack'[i].from = stack'[k].from}}
      BY DEF Earlier
    <3> QED
      BY <3>1, WaysPrime DEF Earlier
  <2>3. Ranked(w, Recorded(stack[k].from)' \cup Earlier(stack', stack'[k].from, k))
    BY <1>1, <2>1
  <2> QED
    BY <2>2, <2>3 DEF Ranked, Contradicts, Complements, Satisfies, Holds
<1>2. ASSUME NEW src \in Source', NEW j \in DOMAIN out'[src]
      PROVE  Ranked(out[src][j].guard, {out[src][i].guard : i \in 1 .. j - 1})'
  <2>1. src \in Source
    BY SameProcess
  <2>2. Ranked(out'[src][j].guard, {out'[src][i].guard : i \in 1 .. j - 1})
    BY <1>2, <2>1
  <2> QED
    BY <2>2 DEF Ranked, Contradicts, Complements, Satisfies, Holds
<1> QED
  BY <1>1, <1>2 DEF Sorted

\* A fork keeps the order.
LEMMA ForkKeepsOrder ==
  ASSUME TypeOK, Walking, Order, NEW legs \in Seq(PathLeg), Forks(legs),
         Replace(legs), UNCHANGED <<name, out, walked>>
  PROVE  Order'
<1> DEFINE new == legs \o Tail(stack)
           n == Len(legs)
<1>1. stack' = new
  BY DEF Replace
<1>2. /\ n \in Nat /\ DOMAIN legs = 1 .. n
      /\ Len(stack) \in Nat /\ DOMAIN stack = 1 .. Len(stack) /\ 1 \in DOMAIN stack
      /\ DOMAIN new = 1 .. n + Len(stack) - 1
      /\ \A h \in 1 .. n : new[h] = legs[h]
      /\ \A m \in 2 .. Len(stack) : new[m - 1 + n] = stack[m]
  BY Positions
<1>3. \A k \in DOMAIN new : \A w \in Ways(new[k]) :
        Ranked(w, Recorded(new[k].from) \cup Earlier(new, new[k].from, k))
  BY ForkOrder DEF Order
<1> HIDE DEF new, n
<1>4. Sorted'
  <2>1. \A k : Recorded(stack[k].from)' = Recorded(new[k].from)
    BY <1>1 DEF Recorded
  <2>2. \A src \in Source : \A j \in DOMAIN out'[src] :
          Ranked(out'[src][j].guard, {out'[src][i].guard : i \in 1 .. j - 1})
    BY DEF Order, Sorted
  <2> QED
    BY <1>1, <1>3, <2>1, <2>2, SortedNext
<1>5. ASSUME NEW k \in DOMAIN new
      PROVE  \/ k \in DOMAIN legs /\ new[k] = legs[k]
             \/ \E m \in DOMAIN stack : new[k] = stack[m]
  <2>1. CASE k \in 1 .. n
    BY <1>2, <2>1
  <2>2. CASE k \notin 1 .. n
    <3> DEFINE m == k - n + 1
    <3>1. m \in 2 .. Len(stack) /\ m \in DOMAIN stack /\ m - 1 + n = k
      BY <1>2, <1>5, <2>2
    <3> HIDE DEF m
    <3> QED
      BY <1>2, <3>1
  <2> QED
    BY <2>1, <2>2
<1>6. top = stack[1]
  BY TopFacts
<1>7. Begun'
  <2>1. \A i \in DOMAIN legs : legs[i].from \in walked \cup {Entry}
    BY <1>2, <1>6 DEF Forks, Order, Begun
  <2>2. \A k \in DOMAIN new : new[k].from \in walked \cup {Entry}
    BY <1>5, <2>1 DEF Order, Begun
  <2>3. Source' = Source
    BY SameProcess
  <2> QED
    BY <1>1, <2>2, <2>3 DEF Order, Begun
<1>8. Unclashed'
  <2>1. \A k \in DOMAIN new : Harmonious(new[k].guard)
    BY <1>5 DEF Forks, Order, Unclashed
  <2>2. Source' = Source
    BY SameProcess
  <2> QED
    BY <1>1, <2>1, <2>2 DEF Order, Unclashed, Harmonious, Complements
<1> QED
  BY <1>4, <1>7, <1>8 DEF Order

\* A recorded path takes the place of its leg, and a wait begun on the way is
\* behind no other.
LEMMA RecordKeepsOrder ==
  ASSUME TypeOK, Walking, Order, top.cs = NoNode, NEW next, Record(next),
         NEW legs \in Seq(PathLeg), Replace(legs), name' = name,
         NEW begun, walked' = walked \cup begun, begun \subseteq Waits,
         \A i \in DOMAIN legs : /\ i = 1 /\ legs[i].cs = NoNode /\ legs[i].guard = {}
                                /\ legs[i].from \in begun /\ legs[i].from \notin walked
  PROVE  Order'
<1> DEFINE t == [guard |-> top.guard, action |-> top.action, next |-> next,
                 decode |-> Snapshot(top)]
           new == legs \o Tail(stack)
           n == Len(legs)
<1>1. top.from \in Source /\ top = stack[1]
  BY TopFacts DEF PathLeg, Leg
<1>2. out[top.from] \in Seq(Transition) /\ out \in [Source -> Seq(Transition)]
  BY <1>1 DEF TypeOK
<1>3. out' = [out EXCEPT ![top.from] = Append(out[top.from], t)]
  BY DEF Record
<1>4. t.guard = top.guard
  OBVIOUS
<1>5. stack' = new
  BY DEF Replace
<1>6. /\ n \in Nat /\ DOMAIN legs = 1 .. n
      /\ Len(stack) \in Nat /\ DOMAIN stack = 1 .. Len(stack) /\ 1 \in DOMAIN stack
      /\ DOMAIN new = 1 .. n + Len(stack) - 1
      /\ \A h \in 1 .. n : new[h] = legs[h]
      /\ \A m \in 2 .. Len(stack) : new[m - 1 + n] = stack[m]
  BY Positions
<1> HIDE DEF t, new, n
<1>7. /\ DOMAIN Append(out[top.from], t) = 1 .. Len(out[top.from]) + 1
      /\ \A i \in 1 .. Len(out[top.from]) : Append(out[top.from], t)[i] = out[top.from][i]
      /\ Append(out[top.from], t)[Len(out[top.from]) + 1] = t
  <2> DEFINE S == Transition \cup {t}
  <2>1. out[top.from] \in Seq(S) /\ t \in S
    BY <1>2, SeqMonotonic
  <2> HIDE DEF S
  <2> QED
    BY <2>1, AppendProperties, LenProperties
<1>8. Len(out[top.from]) \in Nat /\ DOMAIN out[top.from] = 1 .. Len(out[top.from])
  BY <1>2, LenProperties
<1>9. /\ \A src \in Source : src # top.from => out'[src] = out[src]
      /\ out'[top.from] = Append(out[top.from], t)
  BY <1>1, <1>2, <1>3
<1>10. ASSUME NEW src \in Source, NEW j \in DOMAIN out'[src]
       PROVE  \/ j \in DOMAIN out[src] /\ out'[src][j] = out[src][j]
              \/ src = top.from /\ j = Len(out[src]) + 1 /\ out'[src][j] = t
  <2>1. CASE src = top.from
    <3>1. j \in 1 .. Len(out[top.from]) + 1
      BY <1>7, <1>9, <1>10, <2>1
    <3>2. j \in 1 .. Len(out[top.from]) \/ j = Len(out[top.from]) + 1
      BY <1>8, <3>1
    <3> QED
      BY <1>7, <1>8, <1>9, <2>1, <3>2
  <2>2. CASE src # top.from
    BY <1>9, <1>10, <2>2
  <2> QED
    BY <2>1, <2>2
<1>11. ASSUME NEW src \in Source, NEW j \in DOMAIN out[src]
       PROVE  j \in DOMAIN out'[src] /\ out'[src][j] = out[src][j]
  <2>1. CASE src = top.from
    <3>1. j \in 1 .. Len(out[top.from]) /\ j \in 1 .. Len(out[top.from]) + 1
      BY <1>8, <1>11, <2>1
    <3> QED
      BY <1>7, <1>9, <2>1, <3>1
  <2>2. CASE src # top.from
    BY <1>9, <1>11, <2>2
  <2> QED
    BY <2>1, <2>2
<1>12. Ways(top) = {top.guard}
  BY DEF Ways
<1>13. Ranked(top.guard, Recorded(top.from))
  <2>1. Ranked(top.guard, Recorded(top.from) \cup Earlier(stack, top.from, 1))
    BY <1>1, <1>6, <1>12 DEF Order, Sorted
  <2> QED
    BY <2>1, NothingEarlier
<1>14. top.from \in walked \cup {Entry}
  BY <1>1, <1>6 DEF Order, Begun
<1>15. ASSUME NEW f, f \in walked \cup {Entry}
       PROVE  \A i \in DOMAIN legs : legs[i].from # f
  BY <1>15, ProgramAssumption DEF Waits
<1>16. ASSUME NEW src \in Source, NEW j \in DOMAIN out'[src]
       PROVE  Ranked(out'[src][j].guard, {out'[src][i].guard : i \in 1 .. j - 1})
  <2>1. Len(out[src]) \in Nat /\ DOMAIN out[src] = 1 .. Len(out[src])
    BY <1>2, LenProperties
  <2>2. CASE j \in DOMAIN out[src] /\ out'[src][j] = out[src][j]
    <3>1. \A i \in 1 .. j - 1 : i \in DOMAIN out[src]
      BY <2>1, <2>2
    <3>2. \A i \in 1 .. j - 1 : out'[src][i] = out[src][i]
      BY <1>11, <3>1
    <3>3. {out'[src][i].guard : i \in 1 .. j - 1} = {out[src][i].guard : i \in 1 .. j - 1}
      BY <3>2
    <3> QED
      BY <2>2, <3>3 DEF Order, Sorted
  <2>3. CASE src = top.from /\ j = Len(out[src]) + 1 /\ out'[src][j] = t
    <3>1. 1 .. j - 1 = DOMAIN out[src]
      BY <2>1, <2>3
    <3>2. \A i \in DOMAIN out[src] : out'[src][i] = out[src][i]
      BY <1>11
    <3>3. {out'[src][i].guard : i \in DOMAIN out[src]} = Recorded(src)
      BY <3>2 DEF Recorded
    <3> QED
      BY <1>4, <1>13, <2>3, <3>1, <3>3
  <2> QED
    BY <1>10, <2>2, <2>3
<1>17. ASSUME NEW f \in Source
       PROVE  /\ Recorded(f) \subseteq Recorded(f)'
              /\ top.from = f => top.guard \in Recorded(f)'
              /\ \A u \in Recorded(f)' : u \in Recorded(f) \/ (top.from = f /\ u = top.guard)
  <2>1. \A j \in DOMAIN out[f] : out'[f][j].guard = out[f][j].guard /\ j \in DOMAIN out'[f]
    BY <1>11
  <2>2. top.from = f => \E j \in DOMAIN out'[f] : out'[f][j] = t
    BY <1>7, <1>8, <1>9
  <2>3. \A j \in DOMAIN out'[f] : \/ j \in DOMAIN out[f] /\ out'[f][j].guard = out[f][j].guard
                                  \/ top.from = f /\ out'[f][j].guard = top.guard
    BY <1>4, <1>10
  <2> QED
    BY <1>4, <2>1, <2>2, <2>3 DEF Recorded
<1>18. ASSUME NEW k \in DOMAIN new, NEW w \in Ways(new[k])
       PROVE  Ranked(w, Recorded(stack[k].from)' \cup Earlier(new, new[k].from, k))
  <2>1. PICK f : f = new[k].from
    OBVIOUS
  <2> DEFINE after == Recorded(f)' \cup Earlier(new, f, k)
  <2>2. Recorded(stack[k].from)' \cup Earlier(new, new[k].from, k) = after
    BY <1>5, <2>1 DEF Recorded
  <2>3. CASE k \in 1 .. n
    <3>1. k = 1 /\ new[k] = legs[k] /\ k \in DOMAIN legs
      BY <1>6, <2>3
    <3>2. f \in Waits /\ f \notin walked /\ w = {}
      BY <1>18, <2>1, <3>1 DEF Ways
    <3>3. f # top.from /\ f # Entry /\ f \in Source
      BY <1>14, <3>2, ProgramAssumption DEF Waits, Source
    <3>4. out[f] = <<>>
      BY <3>2, <3>3 DEF Order, Begun
    <3>5. Recorded(f) = {}
      BY <3>4 DEF Recorded
    <3>6. Recorded(f)' = {}
      BY <1>17, <3>3, <3>5
    <3>7. Earlier(new, f, k) = {}
      BY <3>1, NothingEarlier
    <3>8. after = {}
      BY <3>6, <3>7
    <3> QED
      BY <2>2, <3>8, RankedFirst
  <2>4. CASE k \notin 1 .. n
    <3> DEFINE m == k - n + 1
               before == Recorded(f) \cup Earlier(stack, f, m)
    <3>1. m \in 2 .. Len(stack) /\ m \in DOMAIN stack /\ m - 1 + n = k
      BY <1>6, <1>18, <2>4
    <3> HIDE DEF m
    <3>2. new[k] = stack[m] /\ f = stack[m].from
      BY <1>6, <2>1, <3>1
    <3>3. f \in walked \cup {Entry} /\ f \in Source
      BY <3>1, <3>2 DEF Order, Begun, TypeOK, Source
    <3>4. Ranked(w, before)
      BY <1>18, <3>1, <3>2 DEF Order, Sorted
    <3>5. ASSUME NEW u \in after
          PROVE  \E v \in before : v \subseteq u
      <4>1. CASE u \in Recorded(f)'
        <5>1. CASE u \in Recorded(f)
          BY <5>1
        <5>2. CASE top.from = f /\ u = top.guard
          <6>1. 1 \in 1 .. m - 1 /\ u \in Ways(stack[1]) /\ stack[1].from = f
            BY <1>1, <1>12, <3>1, <5>2
          <6>2. u \in Earlier(stack, f, m)
            BY <6>1, EarlierHas
          <6> QED
            BY <6>2
        <5> QED
          BY <1>17, <3>3, <4>1, <5>1, <5>2
      <4>2. CASE u \in Earlier(new, f, k)
        <5>1. PICK h \in 1 .. k - 1 : new[h].from = f /\ u \in Ways(new[h])
          BY <4>2, EarlierIs
        <5>2. h \notin 1 .. n
          BY <1>6, <1>15, <3>3, <5>1
        <5> DEFINE g == h - n + 1
        <5>3. g \in 2 .. Len(stack) /\ g \in 1 .. m - 1 /\ g - 1 + n = h
          BY <1>6, <1>18, <3>1, <5>2
        <5> HIDE DEF g
        <5>4. new[h] = stack[g]
          BY <1>6, <5>3
        <5>5. u \in Earlier(stack, f, m)
          BY <5>1, <5>3, <5>4, EarlierHas
        <5> QED
          BY <5>5
      <4> QED
        BY <3>5, <4>1, <4>2
    <3>6. ASSUME NEW s \in Store, NEW v \in before, Satisfies(s, v)
          PROVE  \E u \in after : Satisfies(s, u)
      <4>1. CASE v \in Recorded(f)
        BY <1>17, <3>3, <3>6, <4>1
      <4>2. CASE v \in Earlier(stack, f, m)
        <5>1. PICK g \in 1 .. m - 1 : stack[g].from = f /\ v \in Ways(stack[g])
          BY <4>2, EarlierIs
        <5>2. CASE g = 1
          <6>1. v = top.guard /\ top.from = f
            BY <1>1, <1>12, <5>1, <5>2
          <6>2. v \in Recorded(f)'
            BY <1>17, <3>3, <6>1
          <6> QED
            BY <3>6, <6>2
        <5>3. CASE g # 1
          <6> DEFINE h == g - 1 + n
          <6>1. g \in 2 .. Len(stack) /\ h \in 1 .. k - 1
            BY <1>6, <1>18, <3>1, <5>3
          <6>2. new[h] = stack[g]
            BY <1>6, <6>1
          <6> HIDE DEF h
          <6>3. v \in Earlier(new, f, k)
            BY <5>1, <6>1, <6>2, EarlierHas
          <6> QED
            BY <3>6, <6>3
        <5> QED
          BY <5>2, <5>3
      <4> QED
        BY <3>6, <4>1, <4>2
    <3>7. \A u \in after : \E v \in before : v \subseteq u
      BY <3>5
    <3>8. \A s \in Store : \A v \in before :
            Satisfies(s, v) /\ Satisfies(s, w) => \E u \in after : Satisfies(s, u)
      BY <3>6
    <3> HIDE DEF before, after
    <3>9. Ranked(w, after)
      BY <3>4, <3>7, <3>8, RankedRefines
    <3> QED
      BY <2>2, <3>9
  <2> QED
    BY <2>2, <2>3, <2>4
<1>19. Sorted'
  BY <1>5, <1>16, <1>18, SortedNext
<1>20. Source' = Source
  BY SameProcess
<1>21. ASSUME NEW k \in DOMAIN new
       PROVE  \/ new[k].from \in begun /\ new[k].guard = {}
              \/ \E m \in DOMAIN stack : new[k] = stack[m]
  <2>1. CASE k \in 1 .. n
    BY <1>6, <2>1
  <2>2. CASE k \notin 1 .. n
    <3> DEFINE m == k - n + 1
    <3>1. m \in 2 .. Len(stack) /\ m \in DOMAIN stack /\ m - 1 + n = k
      BY <1>6, <1>21, <2>2
    <3> HIDE DEF m
    <3> QED
      BY <1>6, <3>1
  <2> QED
    BY <2>1, <2>2
<1>22. Begun'
  <2>1. \A k \in DOMAIN new : new[k].from \in walked \cup begun \cup {Entry}
    BY <1>21 DEF Order, Begun
  <2>2. \A src \in Source : out'[src] # <<>> => src \in walked \cup {Entry}
    BY <1>9, <1>14 DEF Order, Begun
  <2> QED
    BY <1>5, <1>20, <2>1, <2>2 DEF Begun
<1>23. Unclashed'
  <2>1. \A k \in DOMAIN new : Harmonious(new[k].guard)
    BY <1>21 DEF Order, Unclashed, Harmonious
  <2>2. Harmonious(top.guard)
    BY <1>1, <1>6 DEF Order, Unclashed
  <2>3. \A src \in Source : \A j \in DOMAIN out'[src] : Harmonious(out'[src][j].guard)
    BY <1>4, <1>10, <2>2 DEF Order, Unclashed
  <2> QED
    BY <1>5, <1>20, <2>1, <2>3 DEF Unclashed, Harmonious, Complements
<1> QED
  BY <1>19, <1>22, <1>23 DEF Order

\* The parts of a guard that exclude nothing of each other make no clash.
LEMMA HarmoniousUnion ==
  ASSUME NEW guard, NEW extra, Harmonious(guard), Harmonious(extra), ~Contradicts(guard, extra)
  PROVE  Harmonious(guard \cup extra)
BY ComplementsBoth DEF Harmonious, Contradicts

\* One conjunct alone is harmonious.
LEMMA HarmoniousOne ==
  ASSUME NEW l
  PROVE  Harmonious({l})
BY DEF Harmonious, Complements

\* What a leg of a fork adds to the current leg's ways.
Part(leg) ==
  /\ leg.from = top.from /\ Harmonious(leg.guard)
  /\ \A w \in Ways(leg) : \E v \in Ways(top) : v \subseteq w

Offered(legs) == UNION {Ways(legs[i]) : i \in DOMAIN legs}

\* A step of the current leg alone forks nothing.
LEMMA OneForks ==
  ASSUME NEW leg, Part(leg),
         \A s \in Store : \A v \in Ways(top) : Satisfies(s, v) =>
           \E w \in Ways(leg) : Satisfies(s, w)
  PROVE  Forks(<<leg>>)
<1> DEFINE legs == <<leg>>
<1>1. DOMAIN legs = {1} /\ legs[1] = leg
  OBVIOUS
<1> HIDE DEF legs
<1>2. \A w : Ranked(w, Earlier(legs, top.from, 1))
  BY NothingEarlier, RankedFirst
<1>3. Forks(legs)
  BY <1>1, <1>2 DEF Forks, Part
<1> QED
  BY <1>3 DEF legs

\* A fork in two, each side of at most one leg.
LEMMA TwoForks ==
  ASSUME NEW a \in Seq(PathLeg), NEW b \in Seq(PathLeg), Len(a) <= 1, Len(b) <= 1,
         \A i \in DOMAIN a : Part(a[i]), \A i \in DOMAIN b : Part(b[i]),
         \A w \in Offered(b) : Ranked(w, Offered(a)),
         \A s \in Store : \A v \in Ways(top) : Satisfies(s, v) =>
           \E w \in Offered(a) \cup Offered(b) : Satisfies(s, w)
  PROVE  Forks(a \o b)
<1> DEFINE legs == a \o b
<1>1. /\ Len(a) \in Nat /\ DOMAIN a = 1 .. Len(a)
      /\ Len(b) \in Nat /\ DOMAIN b = 1 .. Len(b)
  BY LenProperties
<1>2. /\ legs \in Seq(PathLeg) /\ Len(legs) = Len(a) + Len(b)
      /\ \A i \in 1 .. Len(a) + Len(b) :
           legs[i] = IF i <= Len(a) THEN a[i] ELSE b[i - Len(a)]
  BY ConcatProperties
<1>3. DOMAIN legs = 1 .. Len(a) + Len(b)
  BY <1>2, LenProperties
<1> HIDE DEF legs
<1>4. \A i \in DOMAIN a : i \in DOMAIN legs /\ legs[i] = a[i]
  <2> TAKE i \in DOMAIN a
  <2>1. i \in 1 .. Len(a) + Len(b) /\ i <= Len(a)
    BY <1>1
  <2> QED
    BY <1>2, <1>3, <2>1
<1>5. \A i \in DOMAIN b : Len(a) + i \in DOMAIN legs /\ legs[Len(a) + i] = b[i]
  <2> TAKE i \in DOMAIN b
  <2>1. /\ Len(a) + i \in 1 .. Len(a) + Len(b) /\ ~(Len(a) + i <= Len(a))
        /\ Len(a) + i - Len(a) = i
    BY <1>1
  <2> QED
    BY <1>2, <1>3, <2>1
<1>6. ASSUME NEW i \in DOMAIN legs
      PROVE  \/ i = 1 /\ i \in DOMAIN a /\ legs[i] = a[i]
             \/ i = Len(a) + 1 /\ 1 \in DOMAIN b /\ legs[i] = b[1]
  <2>1. CASE i <= Len(a)
    <3>1. i = 1 /\ i \in DOMAIN a
      BY <1>1, <1>3, <1>6, <2>1
    <3> QED
      BY <1>4, <3>1
  <2>2. CASE ~(i <= Len(a))
    <3>1. i = Len(a) + 1 /\ 1 \in DOMAIN b
      BY <1>1, <1>3, <1>6, <2>2
    <3> QED
      BY <1>5, <3>1
  <2> QED
    BY <2>1, <2>2
<1>7. ASSUME NEW i \in DOMAIN legs
      PROVE  /\ Part(legs[i])
             /\ \A w \in Ways(legs[i]) : Ranked(w, Earlier(legs, top.from, i))
  <2>1. CASE i = 1 /\ i \in DOMAIN a /\ legs[i] = a[i]
    BY <2>1, NothingEarlier, RankedFirst
  <2>2. CASE i = Len(a) + 1 /\ 1 \in DOMAIN b /\ legs[i] = b[1]
    <3>1. 1 .. i - 1 = DOMAIN a
      BY <1>1, <2>2
    <3>2. \A h \in 1 .. i - 1 : legs[h] = a[h] /\ legs[h].from = top.from
      BY <1>4, <3>1 DEF Part
    <3>3. Earlier(legs, top.from, i) = Offered(a)
      BY <3>1, <3>2 DEF Earlier, Offered
    <3>4. \A w \in Ways(legs[i]) : w \in Offered(b)
      BY <2>2 DEF Offered
    <3> QED
      BY <2>2, <3>3, <3>4
  <2> QED
    BY <1>6, <2>1, <2>2
<1>8. ASSUME NEW s \in Store, NEW v \in Ways(top), Satisfies(s, v)
      PROVE  \E i \in DOMAIN legs : \E w \in Ways(legs[i]) : Satisfies(s, w)
  <2>1. PICK w \in Offered(a) \cup Offered(b) : Satisfies(s, w)
    BY <1>8
  <2>2. CASE w \in Offered(a)
    BY <1>4, <2>1, <2>2 DEF Offered
  <2>3. CASE w \in Offered(b)
    BY <1>5, <2>1, <2>3 DEF Offered
  <2> QED
    BY <2>2, <2>3
<1>9. Forks(legs)
  BY <1>7, <1>8 DEF Forks, Part
<1> QED
  BY <1>9 DEF legs

\* One side of a fork: a leg of the one way its guard and its test make, or
\* none.
Side(legs, way) ==
  /\ legs \in Seq(PathLeg) /\ Len(legs) <= 1
  /\ \A i \in DOMAIN legs : /\ legs[i].from = top.from /\ Harmonious(legs[i].guard)
                            /\ Ways(legs[i]) = {way}
  /\ \A w \in Offered(legs) : w = way
  /\ \A s \in Store : Satisfies(s, way) => way \in Offered(legs)

\* A fork keeps a leg unless no store satisfies its guard.
LEMMA LiveIsASide ==
  ASSUME NEW leg \in PathLeg, leg.cs = NoNode, leg.from = top.from,
         NEW extra \in SUBSET Literal, Harmonious(leg.guard), Harmonious(extra)
  PROVE  Side(Live(leg, extra), leg.guard \cup extra)
<1> DEFINE legs == Live(leg, extra)
           way == leg.guard \cup extra
<1>1. legs \in Seq(PathLeg)
  BY LiveType
<1>2. /\ Len(legs) <= 1
      /\ \A i \in DOMAIN legs : /\ legs[i].from = top.from /\ Harmonious(legs[i].guard)
                                /\ Ways(legs[i]) = {way}
      /\ \A w \in Offered(legs) : w = way
      /\ \A s \in Store : Satisfies(s, way) => way \in Offered(legs)
  <2>1. CASE Contradicts(leg.guard, extra)
    <3>1. legs = <<>>
      BY <2>1 DEF Live
    <3>2. leg.guard \in SUBSET Literal
      BY DEF PathLeg, Leg
    <3>3. \A s \in Store : ~Satisfies(s, way)
      BY <2>1, <3>2, ContradictsExclude DEF Satisfies
    <3>4. Len(legs) = 0 /\ DOMAIN legs = {}
      BY <3>1
    <3> HIDE DEF legs, way
    <3>5. Offered(legs) = {}
      BY <3>4 DEF Offered
    <3> QED
      BY <3>3, <3>4, <3>5
  <2>2. CASE ~Contradicts(leg.guard, extra)
    <3> DEFINE live == [leg EXCEPT !.guard = way]
    <3>1. live.from = leg.from /\ live.guard = way /\ live.cs = NoNode
      BY DEF PathLeg, Leg
    <3>2. Harmonious(way)
      BY <2>2, HarmoniousUnion
    <3>3. legs = <<live>>
      BY <2>2 DEF Live
    <3> HIDE DEF live
    <3>4. Len(legs) = 1 /\ DOMAIN legs = {1} /\ legs[1] = live
      BY <3>3
    <3> HIDE DEF legs, way
    <3>5. Ways(live) = {way}
      BY <3>1 DEF Ways
    <3>6. Offered(legs) = {way}
      BY <3>4, <3>5 DEF Offered
    <3> QED
      BY <3>1, <3>2, <3>4, <3>5, <3>6
  <2> QED
    BY <2>1, <2>2
<1> QED
  BY <1>1, <1>2 DEF Side

\* The two sides of a condition fork the current leg.
LEMMA BranchForks ==
  ASSUME NEW a \in PathLeg, a.from = top.from, a.guard = top.guard, a.cs = NoNode,
         NEW b \in PathLeg, b.from = top.from, b.guard = top.guard, b.cs = NoNode,
         top.cs = NoNode, Harmonious(top.guard), NEW c \in Literal
  PROVE  Forks(Live(a, {c}) \o Live(b, {Negated(c)}))
<1>1. {c} \in SUBSET Literal /\ {Negated(c)} \in SUBSET Literal
  BY NegatedHolds
<1> DEFINE yes == Live(a, {c})
           no == Live(b, {Negated(c)})
<1>2. Side(yes, top.guard \cup {c}) /\ Side(no, top.guard \cup {Negated(c)})
  <2>1. Harmonious({c}) /\ Harmonious({Negated(c)})
    BY HarmoniousOne
  <2> QED
    BY <1>1, <2>1, LiveIsASide
<1> HIDE DEF yes, no
<1>4. Ways(top) = {top.guard}
  BY DEF Ways
<1>5. (\A i \in DOMAIN yes : Part(yes[i])) /\ (\A i \in DOMAIN no : Part(no[i]))
  BY <1>2, <1>4 DEF Part, Side
<1>6. Complements(c, Negated(c))
  BY DEF Complements, Negated, Literal
<1>7. \A w \in Offered(no) : Ranked(w, Offered(yes))
  BY <1>2, <1>6 DEF Side, Ranked, Contradicts
<1>8. ASSUME NEW s \in Store, Satisfies(s, top.guard)
      PROVE  \E w \in Offered(yes) \cup Offered(no) : Satisfies(s, w)
  <2>1. Satisfies(s, top.guard \cup {c}) \/ Satisfies(s, top.guard \cup {Negated(c)})
    BY <1>8, NegatedHolds DEF Satisfies
  <2> QED
    BY <1>2, <2>1 DEF Side
<1>9. Forks(yes \o no)
  BY <1>2, <1>4, <1>5, <1>7, <1>8, TwoForks DEF Side
<1> QED
  BY <1>9 DEF yes, no

\* The current leg is harmonious, and comes from where the order has it.
LEMMA TopOrder ==
  ASSUME TypeOK, Walking, Order
  PROVE  /\ top \in PathLeg /\ Harmonious(top.guard)
         /\ top.from \in walked \cup {Entry}
<1>1. top = stack[1] /\ top \in PathLeg
  BY TopFacts
<1>2. 1 \in DOMAIN stack
  BY LenProperties, EmptySeq DEF TypeOK, Walking
<1> QED
  BY <1>1, <1>2 DEF Order, Unclashed, Begun

\* A step of the current leg alone keeps the order.
LEMMA StepKeepsOrder ==
  ASSUME TypeOK, Walking, Order, NEW leg \in PathLeg, Replace(<<leg>>),
         UNCHANGED <<name, out, walked>>,
         leg.from = top.from, leg.guard = top.guard, leg.cs = NoNode, top.cs = NoNode
  PROVE  Order'
<1>1. Ways(leg) = {top.guard} /\ Ways(top) = {top.guard}
  BY DEF Ways
<1>2. Part(leg)
  BY <1>1, TopOrder DEF Part
<1>3. Forks(<<leg>>)
  BY <1>1, <1>2, OneForks
<1> QED
  BY <1>3, OneSeq, ForkKeepsOrder

\* A loop's head keeps the order.
LEMMA LoopForkKeepsOrder ==
  ASSUME TypeOK, Walking, Order, NEW leg \in PathLeg, NEW loop \in LoopNode,
         leg.from = top.from, leg.guard = top.guard, leg.cs = NoNode, top.cs = NoNode,
         Replace(LoopLegs(leg, loop)), UNCHANGED <<name, out, walked>>
  PROVE  Order'
<1>1. /\ Entered(leg, loop) \in PathLeg /\ Entered(leg, loop).from = top.from
      /\ Entered(leg, loop).guard = top.guard /\ Entered(leg, loop).cs = NoNode
  BY EnteredType DEF Entered, PathLeg, Leg, TypeOK
<1>2. CASE Perpetual(leg, loop)
  BY <1>1, <1>2, StepKeepsOrder DEF LoopLegs
<1>3. CASE ~Perpetual(leg, loop) /\ NeverRuns(leg, loop)
  BY <1>3, StepKeepsOrder DEF LoopLegs
<1>4. CASE ~Perpetual(leg, loop) /\ ~NeverRuns(leg, loop)
  <2> DEFINE t == LoopTest(leg, loop)
  <2>1. nodes[loop].kind = "while"
    BY <1>4 DEF Perpetual, LoopNode
  <2>2. t \in Literal
    BY <2>1, LoopTestType DEF TypeOK
  <2>3. LoopLegs(leg, loop) = Live(Entered(leg, loop), {t}) \o Live(leg, {Negated(t)})
    BY <1>4 DEF LoopLegs
  <2> HIDE DEF t
  <2>4. Forks(LoopLegs(leg, loop))
    BY <1>1, <2>2, <2>3, TopOrder, BranchForks
  <2>5. LoopLegs(leg, loop) \in Seq(PathLeg)
    BY LoopLegsType DEF TypeOK
  <2> QED
    BY <2>4, <2>5, ForkKeepsOrder
<1> QED
  BY <1>2, <1>3, <1>4

\* The end of a frame keeps the order.
LEMMA EndOfFrameOrder == TypeOK /\ Order /\ EndOfFrame => Order'
<1> SUFFICES ASSUME TypeOK, Order, EndOfFrame PROVE Order'
  OBVIOUS
<1> DEFINE leg == [top EXCEPT !.env = Forget(@, frame.decls), !.frames = Tail(@)]
<1>1. Walking /\ top \in PathLeg /\ top.cs = NoNode /\ Tail(top.frames) \in Seq(Frame)
      /\ frame \in Frame
  BY TopFacts, FrameFacts DEF EndOfFrame, InFrame, InLeg
<1>2. Forget(top.env, frame.decls) \in Env
  BY <1>1, ForgetType DEF PathLeg, Leg
<1>3. leg \in PathLeg /\ leg.from = top.from /\ leg.guard = top.guard /\ leg.cs = NoNode
  BY <1>1, <1>2 DEF PathLeg, Leg
<1>4. Replace(<<leg>>)
  BY DEF EndOfFrame
<1> HIDE DEF leg
<1> QED
  BY <1>1, <1>3, <1>4, StepKeepsOrder DEF EndOfFrame

\* A refusal leaves the legs and the paths as they are.
LEMMA SameOrder ==
  ASSUME Order, UNCHANGED <<name, stack, out, walked>>
  PROVE  Order'
<1>1. Source' = Source
  BY SameProcess
<1>2. /\ \A k : Ways(stack[k])' = Ways(stack[k])
      /\ \A src, k : Earlier(stack, src, k)' = Earlier(stack, src, k)
  BY WaysPrime
<1>3. Sorted'
  <2>1. \A k \in DOMAIN stack' : \A w \in Ways(stack'[k]) :
          Ranked(w, Recorded(stack[k].from)' \cup Earlier(stack', stack'[k].from, k))
    BY DEF Order, Sorted, Recorded
  <2>2. \A src \in Source : \A j \in DOMAIN out'[src] :
          Ranked(out'[src][j].guard, {out'[src][i].guard : i \in 1 .. j - 1})
    BY DEF Order, Sorted
  <2> QED
    BY <2>1, <2>2, SortedNext
<1>4. Begun' /\ Unclashed'
  BY <1>1 DEF Order, Begun, Unclashed, Harmonious, Complements
<1> QED
  BY <1>3, <1>4 DEF Order

\* A loop's head keeps the order, whether it forks or refuses.
LEMMA LoopForkOrder ==
  ASSUME TypeOK, Walking, Order, NEW leg \in PathLeg, NEW loop \in LoopNode,
         leg.from = top.from, leg.guard = top.guard, leg.cs = NoNode, top.cs = NoNode,
         LoopFork(leg, loop)
  PROVE  Order'
<1>1. CASE Fail
  BY <1>1, SameOrder DEF Fail
<1>2. CASE Replace(LoopLegs(leg, loop)) /\ UNCHANGED <<name, proc, out, walked, holdNeeded, status>>
  BY <1>2, LoopForkKeepsOrder
<1> QED
  BY <1>1, <1>2 DEF LoopFork

\* A back-edge keeps the order.
LEMMA BackEdgeOrder == TypeOK /\ Order /\ BackEdge => Order'
<1> SUFFICES ASSUME TypeOK, Order, BackEdge PROVE Order'
  OBVIOUS
<1> DEFINE leg == [top EXCEPT !.env = Forget(@, frame.decls), !.frames = Tail(@)]
<1>1. Walking /\ top \in PathLeg /\ top.cs = NoNode /\ Tail(top.frames) \in Seq(Frame)
      /\ frame \in Frame
  BY TopFacts, FrameFacts DEF BackEdge, InFrame, InLeg
<1>2. Forget(top.env, frame.decls) \in Env
  BY <1>1, ForgetType DEF PathLeg, Leg
<1>3. leg \in PathLeg /\ leg.from = top.from /\ leg.guard = top.guard /\ leg.cs = NoNode
  BY <1>1, <1>2 DEF PathLeg, Leg
<1>4. frame.loop \in LoopNode /\ LoopFork(leg, frame.loop)
  BY <1>1 DEF BackEdge, Frame
<1> HIDE DEF leg
<1> QED
  BY <1>1, <1>3, <1>4, LoopForkOrder

\* The statements that neither fork nor end a path keep the order.
LEMMA StatementOrder ==
  ASSUME TypeOK, Order, EnterBlock \/ Nonblocking \/ Induced \/ Blocking \/ DecodedOutput
  PROVE  Order'
BY StatementFacts, StepKeepsOrder

\* A fork keeps the order.
LEMMA IfForkOrder == TypeOK /\ Order /\ IfFork => Order'
<1> SUFFICES ASSUME TypeOK, Order, IfFork PROVE Order'
  OBVIOUS
<1>1. PICK a, b \in PathLeg, c \in Literal :
        /\ a.from = top.from /\ a.guard = top.guard /\ a.cs = NoNode
        /\ b.from = top.from /\ b.guard = top.guard /\ b.cs = NoNode
        /\ Replace(Live(a, {c}) \o Live(b, {Negated(c)}))
  BY IfForkFacts
<1>2. {c} \in SUBSET Literal /\ {Negated(c)} \in SUBSET Literal
  BY NegatedHolds
<1>3. Live(a, {c}) \o Live(b, {Negated(c)}) \in Seq(PathLeg)
  BY <1>2, LiveType, ConcatProperties
<1>4. Forks(Live(a, {c}) \o Live(b, {Negated(c)}))
  BY <1>1, IfForkFacts, TopOrder, BranchForks
<1> QED
  BY <1>1, <1>3, <1>4, IfForkFacts, ForkKeepsOrder DEF IfFork

\* What the arms of a case are compared with, where every label is a constant.
LEMMA ConstantArms ==
  ASSUME name \in Names, ConstantLabels, NEW leg \in PathLeg, leg.cs # NoNode
  PROVE  /\ leg.cs \in NodeId /\ nodes[leg.cs].kind \in {"case", "reverse"}
         /\ Len(nodes[leg.cs].kids) \in Nat
         /\ Labels(leg.cs) = 1 .. Len(nodes[leg.cs].kids) \ {nodes[leg.cs].dflt}
         /\ nodes[leg.cs].dflt \in 0 .. Len(nodes[leg.cs].kids)
         /\ \A k \in Labels(leg.cs) : Match(leg, k) \in Literal /\ Match(leg, k).eq
         /\ \A k, l \in Labels(leg.cs) : Match(leg, k).lhs = Match(leg, l).lhs
<1>1. leg.cs \in NodeId /\ nodes[leg.cs].kind \in {"case", "reverse"}
  BY DEF PathLeg, Leg, CaseNode
<1>2. /\ DOMAIN nodes[leg.cs].tests = 1 .. Len(nodes[leg.cs].kids)
      /\ Len(nodes[leg.cs].kids) \in Nat
      /\ nodes[leg.cs].dflt \in 0 .. Len(nodes[leg.cs].kids)
  BY <1>1, NodeFacts, LenProperties
<1>3. \A k \in Labels(leg.cs) : Match(leg, k) \in Literal
  BY MatchType DEF Labels
<1>4. \A k, l \in Labels(leg.cs) :
        nodes[leg.cs].tests[k].eq /\ nodes[leg.cs].tests[k].lhs = nodes[leg.cs].tests[l].lhs
  BY <1>1 DEF ConstantLabels
<1>5. \A k \in Labels(leg.cs) : Match(leg, k).eq
  BY <1>4 DEF Match, SubstTest
<1>6. \A k, l \in Labels(leg.cs) : Match(leg, k).lhs = Match(leg, l).lhs
  BY <1>4 DEF Match, SubstTest
<1> QED
  BY <1>1, <1>2, <1>3, <1>5, <1>6 DEF Labels

\* The guards of the arms are harmonious.
LEMMA NoMatchHarmonious ==
  ASSUME name \in Names, ConstantLabels, NEW leg \in PathLeg, leg.cs # NoNode
  PROVE  Harmonious(NoMatch(leg))
<1>1. ASSUME NEW i \in Labels(leg.cs) PROVE Negated(Match(leg, i)).eq = FALSE
  <2>1. Match(leg, i).eq = TRUE
    BY ConstantArms DEF Literal
  <2> QED
    BY <2>1 DEF Negated
<1>2. \A l \in NoMatch(leg) : l.eq = FALSE
  BY <1>1 DEF NoMatch
<1> QED
  BY <1>2 DEF Harmonious, Complements

LEMMA ArmHarmonious ==
  ASSUME name \in Names, ConstantLabels, NEW leg \in PathLeg, leg.cs # NoNode, NEW k
  PROVE  Harmonious(ArmTest(leg, k))
BY NoMatchHarmonious, HarmoniousOne DEF ArmTest

\* An arm excludes those after it, or takes what they would.
LEMMA ArmsApart ==
  ASSUME name \in Names, ConstantLabels, NEW leg \in PathLeg, leg.cs # NoNode,
         NEW k \in 1 .. Len(nodes[leg.cs].kids), NEW guard
  PROVE  /\ \A j \in 1 .. Len(nodes[leg.cs].kids) : j # k =>
              Ranked(guard \cup ArmTest(leg, j), {guard \cup ArmTest(leg, k)})
         /\ nodes[leg.cs].dflt = 0 =>
              Ranked(guard \cup NoMatch(leg), {guard \cup ArmTest(leg, k)})
<1>1. /\ Labels(leg.cs) = 1 .. Len(nodes[leg.cs].kids) \ {nodes[leg.cs].dflt}
      /\ \A i \in Labels(leg.cs) : Match(leg, i) \in Literal /\ Match(leg, i).eq
      /\ \A i, j \in Labels(leg.cs) : Match(leg, i).lhs = Match(leg, j).lhs
  BY ConstantArms
<1>2. ASSUME NEW i \in Labels(leg.cs)
      PROVE  /\ Contradicts(guard \cup {Match(leg, i)}, guard \cup NoMatch(leg))
             /\ Contradicts(guard \cup NoMatch(leg), guard \cup {Match(leg, i)})
  <2>1. Complements(Match(leg, i), Negated(Match(leg, i)))
    BY <1>1 DEF Complements, Negated, Literal
  <2>2. Complements(Negated(Match(leg, i)), Match(leg, i))
    BY <2>1, ComplementsBoth
  <2> QED
    BY <2>1, <2>2 DEF NoMatch, Contradicts
<1>3. ASSUME NEW i \in Labels(leg.cs), NEW j \in Labels(leg.cs)
      PROVE  Ranked(guard \cup {Match(leg, j)}, {guard \cup {Match(leg, i)}})
  <2>1. CASE Match(leg, i).rhs = Match(leg, j).rhs
    <3>1. Match(leg, i) = Match(leg, j)
      BY <1>1, <2>1 DEF Literal
    <3> QED
      BY <3>1 DEF Ranked
  <2>2. CASE Match(leg, i).rhs # Match(leg, j).rhs
    <3>1. Complements(Match(leg, i), Match(leg, j))
      BY <1>1, <2>2 DEF Complements
    <3> QED
      BY <3>1 DEF Ranked, Contradicts
  <2> QED
    BY <2>1, <2>2
<1>4. CASE k = nodes[leg.cs].dflt
  <2>1. ArmTest(leg, k) = NoMatch(leg) /\ nodes[leg.cs].dflt # 0
    BY <1>4 DEF ArmTest
  <2>2. \A j \in 1 .. Len(nodes[leg.cs].kids) : j # k =>
          j \in Labels(leg.cs) /\ ArmTest(leg, j) = {Match(leg, j)}
    BY <1>1, <1>4 DEF ArmTest
  <2> QED
    BY <1>2, <2>1, <2>2 DEF Ranked
<1>5. CASE k # nodes[leg.cs].dflt
  <2>1. k \in Labels(leg.cs) /\ ArmTest(leg, k) = {Match(leg, k)}
    BY <1>1, <1>5 DEF ArmTest
  <2>2. Ranked(guard \cup NoMatch(leg), {guard \cup ArmTest(leg, k)})
    BY <1>2, <2>1 DEF Ranked
  <2>3. ASSUME NEW j \in 1 .. Len(nodes[leg.cs].kids)
        PROVE  Ranked(guard \cup ArmTest(leg, j), {guard \cup ArmTest(leg, k)})
    <3>1. CASE j = nodes[leg.cs].dflt
      BY <2>2, <3>1 DEF ArmTest
    <3>2. CASE j # nodes[leg.cs].dflt
      <4>1. j \in Labels(leg.cs) /\ ArmTest(leg, j) = {Match(leg, j)}
        BY <1>1, <3>2 DEF ArmTest
      <4> QED
        BY <1>3, <2>1, <4>1
    <3> QED
      BY <3>1, <3>2
  <2> QED
    BY <2>2, <2>3
<1> QED
  BY <1>4, <1>5

\* Entering a case keeps the order: its arms are the ways of the leg.
LEMMA CaseBeginOrder == TypeOK /\ ConstantLabels /\ Order /\ CaseBegin => Order'
<1> SUFFICES ASSUME TypeOK, ConstantLabels, Order, CaseBegin PROVE Order'
  OBVIOUS
<1> DEFINE leg == [Advanced EXCEPT !.cs = stmt, !.arm = 1]
<1>1. /\ Walking /\ name \in Names /\ stmt \in NodeId
      /\ nodes[stmt].kind \in {"case", "reverse"} /\ Advanced \in PathLeg
      /\ Advanced.from = top.from /\ Advanced.guard = top.guard
  BY AtFacts DEF CaseBegin
<1>2. 1 \in 1 .. Len(nodes[stmt].kids) + 1
  BY <1>1, NodeFacts, LenProperties
<1>3. /\ leg \in PathLeg /\ leg.from = top.from /\ leg.guard = top.guard
      /\ leg.cs = stmt /\ leg.arm = 1 /\ leg.cs # NoNode
  BY <1>1, <1>2, ProgramAssumption DEF PathLeg, Leg, CaseNode
<1>4. Replace(<<leg>>) /\ top.cs = NoNode
  BY DEF CaseBegin, At, InFrame, InLeg
<1> HIDE DEF leg
<1>5. Ways(top) = {top.guard}
  BY <1>4 DEF Ways
<1>6. Part(leg)
  <2>1. \A w \in Ways(leg) : top.guard \subseteq w
    BY <1>3 DEF Ways
  <2> QED
    BY <1>3, <1>5, <2>1, TopOrder, <1>1 DEF Part
<1>7. ASSUME NEW s \in Store, Satisfies(s, top.guard)
      PROVE  \E w \in Ways(leg) : Satisfies(s, w)
  <2>1. /\ Labels(leg.cs) = 1 .. Len(nodes[leg.cs].kids) \ {nodes[leg.cs].dflt}
        /\ nodes[leg.cs].dflt \in 0 .. Len(nodes[leg.cs].kids)
    BY <1>1, <1>3, ConstantArms
  <2>2. CASE \E k \in Labels(leg.cs) : Holds(Match(leg, k), s)
    <3>1. PICK k \in Labels(leg.cs) : Holds(Match(leg, k), s)
      BY <2>2
    <3>2. Satisfies(s, ArmTest(leg, k))
      BY <1>1, <1>3, <2>1, <3>1, ArmTestHolds
    <3>3. leg.guard \cup ArmTest(leg, k) \in Ways(leg)
      BY <1>3, <2>1 DEF Ways
    <3> QED
      BY <1>3, <1>7, <3>2, <3>3, SatisfiesUnion
  <2>3. CASE \A k \in Labels(leg.cs) : ~Holds(Match(leg, k), s)
    <3>1. Satisfies(s, NoMatch(leg))
      <4>1. \A k \in Labels(leg.cs) : Match(leg, k) \in Literal
        BY <1>1, <1>3, ConstantArms
      <4> QED
        BY <2>3, <4>1, NegatedHolds DEF NoMatch, Satisfies
    <3>2. leg.guard \cup NoMatch(leg) \in Ways(leg)
      <4>1. CASE nodes[leg.cs].dflt = 0
        BY <1>3, <4>1 DEF Ways
      <4>2. CASE nodes[leg.cs].dflt # 0
        <5>1. nodes[leg.cs].dflt \in leg.arm .. Len(nodes[leg.cs].kids)
          BY <1>3, <2>1, <4>2
        <5>2. ArmTest(leg, nodes[leg.cs].dflt) = NoMatch(leg)
          BY DEF ArmTest
        <5> QED
          BY <1>3, <5>1, <5>2 DEF Ways
      <4> QED
        BY <4>1, <4>2
    <3> QED
      BY <1>3, <1>7, <3>1, <3>2, SatisfiesUnion
  <2> QED
    BY <2>2, <2>3
<1>8. Forks(<<leg>>)
  BY <1>5, <1>6, <1>7, OneForks
<1> QED
  BY <1>1, <1>3, <1>4, <1>8, OneSeq, ForkKeepsOrder DEF CaseBegin

\* An arm of a case keeps the order.
LEMMA CaseArmOrder == TypeOK /\ ConstantLabels /\ Order /\ CaseArm => Order'
<1> SUFFICES ASSUME TypeOK, ConstantLabels, Order, CaseArm PROVE Order'
  OBVIOUS
<1> DEFINE k == top.arm
           rest == [top EXCEPT !.arm = @ + 1]
           body == Live(CaseLeg, ArmTest(top, k))
           kids == nodes[top.cs].kids
           dflt == nodes[top.cs].dflt
<1>1. /\ Walking /\ name \in Names /\ top \in PathLeg /\ top.cs # NoNode
      /\ k \in 1 .. Len(kids)
      /\ ArmTest(top, k) \in SUBSET Literal
      /\ CaseLeg \in PathLeg /\ CaseLeg.from = top.from
      /\ CaseLeg.guard = top.guard /\ CaseLeg.cs = NoNode
      /\ rest \in PathLeg
      /\ Replace(body \o <<rest>>)
  BY CaseLegFacts
<1>2. /\ rest.from = top.from /\ rest.guard = top.guard /\ rest.cs = top.cs
      /\ rest.env = top.env /\ rest.arm = k + 1
  BY <1>1 DEF PathLeg, Leg
<1>3. Harmonious(top.guard) /\ Harmonious(ArmTest(top, k))
  BY <1>1, TopOrder, ArmHarmonious
<1>4. Side(body, top.guard \cup ArmTest(top, k))
  BY <1>1, <1>3, LiveIsASide
<1>5. Len(kids) \in Nat /\ k \in Nat
  BY <1>1, ConstantArms
<1>6. /\ \A j : Match(rest, j) = Match(top, j)
      /\ NoMatch(rest) = NoMatch(top)
      /\ \A j : ArmTest(rest, j) = ArmTest(top, j)
  <2>1. \A j : Match(rest, j) = Match(top, j)
    BY <1>2 DEF Match
  <2>2. NoMatch(rest) = NoMatch(top)
    BY <1>2, <2>1 DEF NoMatch
  <2> QED
    BY <1>2, <2>1, <2>2 DEF ArmTest
<1> HIDE DEF rest, body, k, kids, dflt
<1>7. Ways(top) = {top.guard \cup ArmTest(top, j) : j \in k .. Len(kids)}
                  \cup (IF dflt = 0 THEN {top.guard \cup NoMatch(top)} ELSE {})
  BY <1>1 DEF Ways, k, kids, dflt
<1>8. Ways(rest) = {top.guard \cup ArmTest(top, j) : j \in k + 1 .. Len(kids)}
                   \cup (IF dflt = 0 THEN {top.guard \cup NoMatch(top)} ELSE {})
  BY <1>1, <1>2, <1>6 DEF Ways, kids, dflt
<1>9. top.guard \cup ArmTest(top, k) \in Ways(top)
  BY <1>1, <1>5, <1>7
<1>10. Ways(rest) \subseteq Ways(top)
  BY <1>5, <1>7, <1>8
<1>11. DOMAIN <<rest>> = {1} /\ Len(<<rest>>) = 1 /\ <<rest>>[1] = rest
  OBVIOUS
<1>12. <<rest>> \in Seq(PathLeg)
  BY <1>1, OneSeq
<1> DEFINE after == <<rest>>
<1> HIDE DEF after
<1>13. Offered(after) = Ways(rest)
  BY <1>11 DEF Offered, after
<1>14. (\A i \in DOMAIN body : Part(body[i])) /\ (\A i \in DOMAIN after : Part(after[i]))
  <2>1. \A i \in DOMAIN body : Part(body[i])
    BY <1>4, <1>9 DEF Part, Side
  <2>2. Part(rest)
    BY <1>2, <1>3, <1>10 DEF Part
  <2> QED
    BY <1>11, <2>1, <2>2 DEF after
<1>15. ASSUME NEW w \in Ways(rest) PROVE Ranked(w, Offered(body))
  <2>1. Ranked(w, {top.guard \cup ArmTest(top, k)})
    <3>1. /\ \A j \in 1 .. Len(kids) : j # k =>
               Ranked(top.guard \cup ArmTest(top, j), {top.guard \cup ArmTest(top, k)})
          /\ dflt = 0 => Ranked(top.guard \cup NoMatch(top), {top.guard \cup ArmTest(top, k)})
      BY <1>1, ArmsApart DEF k, kids, dflt
    <3>2. \A j \in k + 1 .. Len(kids) : j \in 1 .. Len(kids) /\ j # k
      BY <1>1, <1>5
    <3> QED
      BY <1>8, <3>1, <3>2
  <2>2. \A s \in Store : Satisfies(s, top.guard \cup ArmTest(top, k)) =>
          \E u \in Offered(body) : Satisfies(s, u)
    BY <1>4 DEF Side
  <2>3. \A u \in Offered(body) : u = top.guard \cup ArmTest(top, k)
    BY <1>4 DEF Side
  <2> QED
    BY <2>1, <2>2, <2>3 DEF Ranked
<1>16. ASSUME NEW s \in Store, NEW v \in Ways(top), Satisfies(s, v)
       PROVE  \E w \in Offered(body) \cup Offered(after) : Satisfies(s, w)
  <2>1. CASE v = top.guard \cup ArmTest(top, k)
    BY <1>4, <1>16, <2>1 DEF Side
  <2>2. CASE v # top.guard \cup ArmTest(top, k)
    <3>1. v \in Ways(rest)
      <4>1. \A j \in k .. Len(kids) : j = k \/ j \in k + 1 .. Len(kids)
        BY <1>5
      <4> QED
        BY <1>7, <1>8, <1>16, <2>2, <4>1
    <3> QED
      BY <1>13, <1>16, <3>1
  <2> QED
    BY <2>1, <2>2
<1>17. /\ body \in Seq(PathLeg) /\ after \in Seq(PathLeg)
       /\ Len(body) <= 1 /\ Len(after) <= 1
       /\ \A w \in Offered(after) : Ranked(w, Offered(body))
  BY <1>4, <1>11, <1>12, <1>13, <1>15 DEF Side, after
<1>18. Forks(body \o after)
  BY <1>14, <1>16, <1>17, TwoForks
<1>19. body \o after \in Seq(PathLeg) /\ Replace(body \o after)
  BY <1>1, <1>17, ConcatProperties DEF after
<1>20. UNCHANGED <<name, out, walked>>
  BY DEF CaseArm
<1> QED
  BY <1>1, <1>18, <1>19, <1>20, ForkKeepsOrder

\* The end of a case keeps the order.
LEMMA CaseEndOrder == TypeOK /\ ConstantLabels /\ Order /\ CaseEnd => Order'
<1> SUFFICES ASSUME TypeOK, ConstantLabels, Order, CaseEnd PROVE Order'
  OBVIOUS
<1> DEFINE fall == Live(OutOfCase(top), NoMatch(top))
           legs == IF nodes[top.cs].dflt = 0 THEN fall ELSE <<>>
<1>1. Walking /\ name \in Names /\ top \in PathLeg /\ top.cs # NoNode
  BY TopFacts DEF CaseEnd, TypeOK
<1>2. /\ NoMatch(top) \in SUBSET Literal /\ OutOfCase(top) \in PathLeg
      /\ OutOfCase(top).cs = NoNode /\ OutOfCase(top).from = top.from
      /\ OutOfCase(top).guard = top.guard
  BY <1>1, NoMatchType, OutOfCaseType
<1>3. Harmonious(top.guard) /\ Harmonious(NoMatch(top))
  BY <1>1, TopOrder, NoMatchHarmonious
<1>4. Side(fall, top.guard \cup NoMatch(top))
  BY <1>2, <1>3, LiveIsASide
<1>5. Ways(top) = IF nodes[top.cs].dflt = 0 THEN {top.guard \cup NoMatch(top)} ELSE {}
  <2>1. Len(nodes[top.cs].kids) \in Nat /\ top.arm \in Nat /\ top.arm > Len(nodes[top.cs].kids)
    BY <1>1, ConstantArms DEF CaseEnd, PathLeg, Leg
  <2>2. top.arm .. Len(nodes[top.cs].kids) = {}
    BY <2>1
  <2> QED
    BY <1>1, <2>2 DEF Ways
<1>6. Replace(legs) /\ UNCHANGED <<name, out, walked>>
  BY DEF CaseEnd
<1> HIDE DEF fall
<1>7. legs \in Seq(PathLeg)
  BY <1>4, EmptySeq DEF Side
<1>8. Forks(legs)
  <2>1. CASE nodes[top.cs].dflt = 0
    <3>1. legs = fall
      BY <2>1
    <3>2. \A i \in DOMAIN fall : i = 1
      BY <1>4, LenProperties DEF Side
    <3>3. \A i \in DOMAIN fall : Earlier(fall, top.from, i) = {}
      BY <3>2, NothingEarlier
    <3>4. \A s \in Store : Satisfies(s, top.guard \cup NoMatch(top)) =>
            \E i \in DOMAIN fall : \E w \in Ways(fall[i]) : Satisfies(s, w)
      BY <1>4 DEF Side, Offered
    <3>5. Forks(fall)
      BY <1>4, <1>5, <2>1, <3>3, <3>4, RankedFirst DEF Side, Forks
    <3> QED
      BY <3>1, <3>5
  <2>2. CASE nodes[top.cs].dflt # 0
    <3>1. legs = <<>> /\ DOMAIN legs = {} /\ Ways(top) = {}
      BY <1>5, <2>2
    <3> HIDE DEF legs
    <3> QED
      BY <3>1 DEF Forks
  <2> QED
    BY <2>1, <2>2
<1> HIDE DEF legs
<1> QED
  BY <1>1, <1>6, <1>7, <1>8, ForkKeepsOrder

\* Entering a loop keeps the order.
LEMMA EnterLoopOrder == TypeOK /\ Order /\ EnterLoop => Order'
<1> SUFFICES ASSUME TypeOK, Order, EnterLoop PROVE Order'
  OBVIOUS
<1>1. /\ Walking /\ Advanced \in PathLeg /\ stmt \in LoopNode
      /\ Advanced.from = top.from /\ Advanced.guard = top.guard /\ Advanced.cs = NoNode
  BY AtFacts DEF EnterLoop, LoopNode
<1>2. top.cs = NoNode
  BY DEF EnterLoop, At, InFrame, InLeg
<1> QED
  BY <1>1, <1>2, LoopForkOrder DEF EnterLoop

\* A jump keeps the order.
LEMMA JumpOrder == TypeOK /\ Order /\ Jump => Order'
<1> SUFFICES ASSUME TypeOK, Order, Jump PROVE Order'
  OBVIOUS
<1>1. CASE InnermostLoop(top.frames) = {}
  BY <1>1, SameOrder DEF Jump, Fail
<1>2. CASE InnermostLoop(top.frames) # {}
  <2>1. PICK i \in InnermostLoop(top.frames) :
          IF nodes[stmt].kind = "continue" THEN LoopFork(Unwound(i), top.frames[i].loop)
          ELSE Replace(<<Unwound(i)>>) /\ UNCHANGED <<name, proc, out, walked, holdNeeded, status>>
    BY <1>2 DEF Jump, Unwound
  <2>2. /\ Walking /\ Unwound(i) \in PathLeg /\ top.frames[i].loop \in LoopNode
        /\ Unwound(i).from = top.from /\ Unwound(i).guard = top.guard /\ Unwound(i).cs = NoNode
    BY UnwoundFacts
  <2>3. top.cs = NoNode
    BY DEF Jump, At, InFrame, InLeg
  <2>4. CASE nodes[stmt].kind = "continue"
    BY <2>1, <2>2, <2>3, <2>4, LoopForkOrder
  <2>5. CASE nodes[stmt].kind # "continue"
    BY <2>1, <2>2, <2>3, <2>5, StepKeepsOrder
  <2> QED
    BY <2>4, <2>5
<1> QED
  BY <1>1, <1>2

\* The end of the process keeps the order.
LEMMA EndOfProcessOrder == TypeOK /\ Order /\ EndOfProcess => Order'
<1> SUFFICES ASSUME TypeOK, Order, EndOfProcess PROVE Order'
  OBVIOUS
<1>1. Walking /\ top.cs = NoNode /\ Record(Hold) /\ Replace(<<>>) /\ name' = name
  BY DEF EndOfProcess, InLeg
<1>2. walked' = walked \cup {} /\ {} \subseteq Waits
  BY DEF EndOfProcess
<1> DEFINE legs == <<>>
<1>3. legs \in Seq(PathLeg) /\ DOMAIN legs = {} /\ Replace(legs)
  BY <1>1, EmptySeq
<1> HIDE DEF legs
<1> QED
  BY <1>1, <1>2, <1>3, RecordKeepsOrder

\* An arrival at a wait keeps the order.
LEMMA ArriveOrder == TypeOK /\ Order /\ Arrive => Order'
<1> SUFFICES ASSUME TypeOK, Order, Arrive PROVE Order'
  OBVIOUS
<1>1. /\ Walking /\ top \in PathLeg /\ stmt \in Waits
      /\ ArrivalLegs \in Seq(PathLeg) /\ Replace(ArrivalLegs)
  BY ArrivalFacts
<1>2. /\ top.cs = NoNode /\ name' = name /\ Record(stmt)
      /\ walked' = walked \cup {stmt} /\ {stmt} \subseteq Waits
  BY <1>1 DEF Arrive, At, InFrame, InLeg
<1>3. ASSUME NEW i \in DOMAIN ArrivalLegs
      PROVE  /\ i = 1 /\ ArrivalLegs[i].cs = NoNode /\ ArrivalLegs[i].guard = {}
             /\ ArrivalLegs[i].from \in {stmt} /\ ArrivalLegs[i].from \notin walked
  <2>1. CASE stmt \in walked
    <3>1. DOMAIN ArrivalLegs = {}
      BY <2>1 DEF ArrivalLegs
    <3> QED
      BY <1>3, <3>1
  <2>2. CASE stmt \notin walked
    <3> DEFINE leg == StartLeg(stmt, PushFrame(Advanced.frames, nodes[stmt].kids[1], NoNode))
    <3>1. ArrivalLegs = <<leg>>
      BY <2>2 DEF ArrivalLegs
    <3>2. leg.cs = NoNode /\ leg.guard = {} /\ leg.from = stmt
      BY DEF StartLeg
    <3> HIDE DEF leg
    <3>3. DOMAIN ArrivalLegs = {1} /\ ArrivalLegs[1] = leg
      BY <3>1
    <3> QED
      BY <1>3, <2>2, <3>2, <3>3
  <2> QED
    BY <2>1, <2>2
<1> QED
  BY <1>1, <1>2, <1>3, RecordKeepsOrder

\* The first leg is the only one.
LEMMA InitOrder == Init => Order
<1> SUFFICES ASSUME Init PROVE Order
  OBVIOUS
<1> DEFINE leg == StartLeg(Entry, PushFrame(<<>>, Program[name].root, NoNode))
<1>1. stack = <<leg>> /\ out = [s \in Source |-> <<>>]
  BY DEF Init
<1>2. leg.from = Entry /\ leg.guard = {}
  BY DEF StartLeg
<1> HIDE DEF leg
<1>3. DOMAIN stack = {1} /\ stack[1] = leg
  BY <1>1
<1>4. \A src \in Source : out[src] = <<>> /\ DOMAIN out[src] = {}
  BY <1>1
<1>5. Entry \in Source
  BY DEF Source
<1>6. Recorded(Entry) = {}
  BY <1>4, <1>5 DEF Recorded
<1>7. Earlier(stack, Entry, 1) = {}
  BY NothingEarlier
<1>8. Sorted
  BY <1>2, <1>3, <1>4, <1>6, <1>7, RankedFirst DEF Sorted
<1>9. Begun /\ Unclashed
  BY <1>2, <1>3, <1>4 DEF Begun, Unclashed, Harmonious
<1> QED
  BY <1>8, <1>9 DEF Order

\* No step of the walk breaks the order.
LEMMA WalkStepOrder == TypeOK /\ OrderInv /\ [WalkNext]_walkVars => OrderInv'
<1> SUFFICES ASSUME TypeOK, ConstantLabels, Order, [WalkNext]_walkVars
             PROVE  Order'
  <2>1. [WalkNext]_walkVars => name' = name
    BY DEF WalkNext, walkVars, EndOfFrame, BackEdge, LoopFork, Fail, EndOfProcess, EnterBlock,
       DeadTemporary, Nonblocking, Induced, Blocking, DecodedOutput, OutputLeft, IfFork,
       CaseBegin, CaseArm, CaseEnd, EnterLoop, Jump, Arrive, Finish
  <2>2. [WalkNext]_walkVars => (ConstantLabels' <=> ConstantLabels)
    BY <2>1 DEF ConstantLabels, Labels, nodes
  <2> QED
    BY <2>2 DEF OrderInv
<1>1. CASE Finish \/ DeadTemporary \/ OutputLeft \/ UNCHANGED walkVars
  BY <1>1, SameOrder DEF Finish, DeadTemporary, OutputLeft, Fail, walkVars
<1> QED
  BY <1>1, EndOfFrameOrder, BackEdgeOrder, EndOfProcessOrder, StatementOrder, IfForkOrder,
     CaseBeginOrder, CaseArmOrder, CaseEndOrder, EnterLoopOrder, JumpOrder, ArriveOrder
     DEF WalkNext

\* The order of the paths means what the emitter makes of it: where a case
\* has constant labels, a path excludes each path before it on the text of
\* their guards alone, or no store takes it.
THEOREM WalkOrdered == WalkSpec => []OrderInv
<1>1. Init => OrderInv
  BY InitOrder DEF OrderInv
<1> QED
  BY <1>1, WalkStepOrder, WalkTypeOK, PTL DEF WalkSpec

-----------------------------------------------------------------------------
(* The temporaries of a marked process dissolve: whatever the tree, no     *)
(* guard, commit or output of the path cover reads one, so none of them    *)
(* needs a register (TempsDissolve).  The walk checks a statement when it  *)
(* substitutes it; what the proof adds is that nothing it carries along, a *)
(* guard, an environment, the labels of a case being walked, brings a      *)
(* temporary back.                                                         *)


\* The labels of a case that compares a constant are not substituted, and no
\* check looks at them: the walk relies on their reading no temporary.
LabelsReadNoTemp ==
  \A p \in Names : \A n \in NodeId :
    LET d == Program[p].node[n] IN
    d.kind = "reverse" =>
      \A k \in DOMAIN d.tests : ~ReadsDead(SubstExpr(d.tests[k].lhs, NoEnv))

\* What an environment makes of name v.
Bound(env, v) == [s \in Store |-> env[s][v]]

CleanEnv(env) == \A v \in Vars \ Temps : ~ReadsDead(Bound(env, v))

CleanLeg(leg) ==
  /\ \A l \in leg.guard : ~ReadsDead(l.lhs)
  /\ \A c \in leg.action : ~ReadsDead(c.val)
  /\ CleanEnv(leg.env)
  /\ leg.cs # NoNode => \A k \in Labels(leg.cs) : ~ReadsDead(Match(leg, k).lhs)

CleanStack == \A i \in DOMAIN stack : CleanLeg(stack[i])

CleanLegs(legs) == \A i \in DOMAIN legs : CleanLeg(legs[i])

\* The inductive invariant.
NothingDead == TypeOK /\ TempsDissolve /\ CleanStack

-----------------------------------------------------------------------------
(* Environments *)

\* A store with one of its registers set to a value of its width is a store.
LEMMA ExceptStore ==
  ASSUME NEW s \in Store, NEW v \in Vars, NEW k \in 0 .. Modulus[v] - 1
  PROVE  [s EXCEPT ![v] = k] \in Store
<1>1. Modulus[v] \in 1 .. WideModulus /\ WideModulus \in Nat
  BY ExprAssumption
<1>2. k \in Wide /\ k < Modulus[v]
  BY <1>1 DEF Wide
<1>3. s \in WideStore /\ \A u \in Vars : s[u] < Modulus[u]
  BY DEF Store
<1>4. [s EXCEPT ![v] = k] \in WideStore
  BY <1>2, <1>3 DEF WideStore
<1>5. \A u \in Vars : [s EXCEPT ![v] = k][u] < Modulus[u]
  BY <1>2, <1>3 DEF WideStore
<1> QED
  BY <1>4, <1>5 DEF Store

\* A name that is no temporary reads none where a segment starts.
LEMMA NoEnvClean == CleanEnv(NoEnv)
<1> SUFFICES ASSUME NEW v \in Vars \ Temps, NEW t \in Temps
             PROVE  ~DependsOn(Bound(NoEnv, v), t)
  BY DEF CleanEnv, ReadsDead
<1> SUFFICES ASSUME NEW s \in Store, NEW k \in 0 .. Modulus[t] - 1
             PROVE  Bound(NoEnv, v)[s] = Bound(NoEnv, v)[[s EXCEPT ![t] = k]]
  BY DEF DependsOn
<1>1. t \in Vars /\ t # v
  BY ProgramAssumption
<1>2. [s EXCEPT ![t] = k] \in Store
  BY <1>1, ExceptStore
<1>3. [s EXCEPT ![t] = k][v] = s[v]
  BY <1>1 DEF Store, WideStore
<1> QED
  BY <1>2, <1>3 DEF Bound, NoEnv

\* Binding a name to a value that reads no temporary brings none in.
LEMMA BindClean ==
  ASSUME NEW env \in Env, CleanEnv(env), NEW v \in Vars, NEW x \in Value, ~ReadsDead(x)
  PROVE  CleanEnv(Bind(env, v, x))
<1> SUFFICES ASSUME NEW u \in Vars \ Temps PROVE ~ReadsDead(Bound(Bind(env, v, x), u))
  BY DEF CleanEnv
<1>1. \A s \in Store : env[s] \in WideStore /\ x[s] \in Wide
  BY DEF Env, Value
<1>2. CASE u = v
  <2>1. \A s \in Store : Bind(env, v, x)[s][u] = x[s]
    BY <1>1, <1>2 DEF Bind, WideStore
  <2>2. Bound(Bind(env, v, x), u) = x
    BY <2>1 DEF Bound, Value
  <2> QED
    BY <2>2
<1>3. CASE u # v
  <2>1. \A s \in Store : Bind(env, v, x)[s][u] = env[s][u]
    BY <1>1, <1>3 DEF Bind, WideStore
  <2>2. Bound(Bind(env, v, x), u) = Bound(env, u)
    BY <2>1 DEF Bound
  <2> QED
    BY <2>2 DEF CleanEnv
<1> QED
  BY <1>2, <1>3

\* The end of a scope brings none in.
LEMMA ForgetClean ==
  ASSUME NEW env \in Env, CleanEnv(env), NEW names
  PROVE  CleanEnv(Forget(env, names))
<1> SUFFICES ASSUME NEW u \in Vars \ Temps PROVE ~ReadsDead(Bound(Forget(env, names), u))
  BY DEF CleanEnv
<1>1. CASE u \in names
  <2>1. Bound(Forget(env, names), u) = Bound(NoEnv, u)
    BY <1>1 DEF Bound, Forget, NoEnv
  <2> QED
    BY <2>1, NoEnvClean DEF CleanEnv
<1>2. CASE u \notin names
  <2>1. Bound(Forget(env, names), u) = Bound(env, u)
    BY <1>2 DEF Bound, Forget
  <2> QED
    BY <2>1 DEF CleanEnv
<1> QED
  BY <1>1, <1>2

\* Cutting a value to a width makes it read nothing more.
LEMMA TruncateClean ==
  ASSUME NEW v, NEW x, ~ReadsDead(x)
  PROVE  ~ReadsDead(TruncateValue(v, x))
<1> SUFFICES ASSUME NEW t \in Temps, NEW s \in Store, NEW k \in 0 .. Modulus[t] - 1
             PROVE  TruncateValue(v, x)[s] = TruncateValue(v, x)[[s EXCEPT ![t] = k]]
  BY DEF ReadsDead, DependsOn
<1>1. [s EXCEPT ![t] = k] \in Store
  BY ExceptStore, ProgramAssumption
<1>2. x[s] = x[[s EXCEPT ![t] = k]]
  BY DEF ReadsDead, DependsOn
<1> QED
  BY <1>1, <1>2 DEF TruncateValue

\* A conjunct and its negation read the same.
LEMMA NegatedClean ==
  ASSUME NEW l, ~ReadsDead(l.lhs)
  PROVE  ~ReadsDead(Negated(l).lhs)
<1>1. Negated(l).lhs = l.lhs
  BY DEF Negated
<1> QED
  BY <1>1

-----------------------------------------------------------------------------
(* Legs *)

\* A leg that goes on with the same guard, commits and environment.
LEMMA SameClean ==
  ASSUME NEW leg, CleanLeg(leg), NEW next,
         next.guard = leg.guard, next.action = leg.action, next.env = leg.env,
         next.cs = NoNode
  PROVE  CleanLeg(next)
BY DEF CleanLeg

\* A leg that starts at a cut point.
LEMMA StartClean ==
  ASSUME NEW from, NEW frames
  PROVE  CleanLeg(StartLeg(from, frames))
BY NoEnvClean DEF CleanLeg, StartLeg

\* A leg of a fork whose conjuncts read no temporary.
LEMMA LiveClean ==
  ASSUME NEW leg \in PathLeg, CleanLeg(leg), leg.cs = NoNode,
         NEW extra, \A l \in extra : ~ReadsDead(l.lhs)
  PROVE  CleanLegs(Live(leg, extra))
<1>1. CASE Contradicts(leg.guard, extra)
  BY <1>1 DEF Live, CleanLegs
<1>2. CASE ~Contradicts(leg.guard, extra)
  <2> DEFINE live == [leg EXCEPT !.guard = leg.guard \cup extra]
  <2>1. /\ live.guard = leg.guard \cup extra /\ live.action = leg.action
        /\ live.env = leg.env /\ live.cs = leg.cs
    BY DEF PathLeg, Leg
  <2>2. Live(leg, extra) = <<live>>
    BY <1>2 DEF Live
  <2> HIDE DEF live
  <2>3. CleanLeg(live)
    BY <2>1 DEF CleanLeg
  <2> QED
    BY <2>2, <2>3 DEF CleanLegs
<1> QED
  BY <1>1, <1>2

\* Two groups of legs, one after the other.
LEMMA ConcatClean ==
  ASSUME NEW a \in Seq(PathLeg), NEW b \in Seq(PathLeg), CleanLegs(a), CleanLegs(b)
  PROVE  CleanLegs(a \o b)
<1>1. /\ a \o b \in Seq(PathLeg) /\ Len(a \o b) = Len(a) + Len(b)
      /\ \A i \in 1 .. Len(a) + Len(b) :
           (a \o b)[i] = IF i <= Len(a) THEN a[i] ELSE b[i - Len(a)]
  BY ConcatProperties
<1>2. /\ DOMAIN (a \o b) = 1 .. Len(a) + Len(b) /\ DOMAIN a = 1 .. Len(a)
      /\ DOMAIN b = 1 .. Len(b) /\ Len(a) \in Nat /\ Len(b) \in Nat
  BY <1>1, LenProperties
<1> SUFFICES ASSUME NEW i \in 1 .. Len(a) + Len(b) PROVE CleanLeg((a \o b)[i])
  BY <1>2 DEF CleanLegs
<1>3. CASE i <= Len(a)
  BY <1>1, <1>2, <1>3 DEF CleanLegs
<1>4. CASE ~(i <= Len(a))
  <2>1. i - Len(a) \in 1 .. Len(b)
    BY <1>2, <1>4
  <2> QED
    BY <1>1, <1>2, <1>4, <2>1 DEF CleanLegs
<1> QED
  BY <1>3, <1>4

\* What a leg reads depends on the process alone.
LEMMA CleanPrime ==
  ASSUME name' = name
  PROVE  CleanStack' <=> CleanLegs(stack')
BY DEF CleanStack, CleanLegs, CleanLeg, Labels, Match, nodes

\* Clean legs in place of the current one leave a clean stack.
LEMMA ReplaceClean ==
  ASSUME TypeOK, CleanStack, Walking, NEW legs \in Seq(PathLeg), Replace(legs), name' = name,
         CleanLegs(legs)
  PROVE  CleanStack'
<1>1. Tail(stack) \in Seq(PathLeg)
  BY TopFacts
<1>2. CleanLegs(Tail(stack))
  <2> SUFFICES ASSUME NEW i \in DOMAIN Tail(stack) PROVE CleanLeg(Tail(stack)[i])
    BY DEF CleanLegs
  <2>1. stack \in Seq(PathLeg) /\ stack # <<>>
    BY DEF TypeOK, Walking
  <2>2. /\ Len(Tail(stack)) = Len(stack) - 1
        /\ \A j \in 1 .. Len(Tail(stack)) : Tail(stack)[j] = stack[j + 1]
    BY <2>1, HeadTailProperties
  <2>3. /\ DOMAIN Tail(stack) = 1 .. Len(Tail(stack)) /\ DOMAIN stack = 1 .. Len(stack)
        /\ Len(stack) \in Nat
    BY <1>1, <2>1, LenProperties
  <2>4. i + 1 \in DOMAIN stack /\ Tail(stack)[i] = stack[i + 1]
    BY <2>2, <2>3
  <2> QED
    BY <2>4 DEF CleanStack
<1>3. CleanLegs(legs \o Tail(stack))
  BY <1>1, <1>2, ConcatClean
<1> QED
  BY <1>3, CleanPrime DEF Replace

\* The current leg is clean.
LEMMA TopClean ==
  ASSUME TypeOK, CleanStack, Walking
  PROVE  top \in PathLeg /\ CleanLeg(top)
<1>1. stack \in Seq(PathLeg) /\ stack # <<>>
  BY DEF TypeOK, Walking
<1>2. 1 \in DOMAIN stack
  BY <1>1, LenProperties, EmptySeq
<1> QED
  BY <1>2, TopFacts DEF CleanStack

\* The path cover does not change but by a record.
LEMMA SameCover ==
  ASSUME TempsDissolve, out' = out, proc' = proc
  PROVE  TempsDissolve'
BY DEF TempsDissolve, Decoded

\* A step that records nothing and goes on with clean legs.
LEMMA StepClean ==
  ASSUME NothingDead, Walking, NEW legs \in Seq(PathLeg), Replace(legs),
         UNCHANGED <<name, proc, out>>, CleanLegs(legs), TypeOK'
  PROVE  NothingDead'
BY ReplaceClean, SameCover DEF NothingDead

\* A step that goes on with one leg, which reads what the current one did.
LEMMA StepSameClean ==
  ASSUME NothingDead, Walking, NEW leg \in PathLeg, Replace(<<leg>>),
         UNCHANGED <<name, proc, out>>, TypeOK',
         leg.guard = top.guard, leg.action = top.action, CleanEnv(leg.env), leg.cs = NoNode
  PROVE  NothingDead'
<1>1. CleanLeg(leg)
  BY TopClean DEF NothingDead, CleanLeg
<1>2. CleanLegs(<<leg>>)
  BY <1>1 DEF CleanLegs
<1> QED
  BY <1>2, OneSeq, StepClean

\* A failure leaves the cover and the stack as they are.
LEMMA FailClean ==
  ASSUME NothingDead, Fail, TypeOK'
  PROVE  NothingDead'
<1>1. CleanLegs(stack)
  BY DEF NothingDead, CleanStack, CleanLegs
<1>2. stack' = stack /\ name' = name /\ proc' = proc /\ out' = out
  BY DEF Fail
<1> QED
  BY <1>1, <1>2, CleanPrime, SameCover DEF NothingDead

\* A recorded path reads what its leg does.
LEMMA RecordClean ==
  ASSUME NothingDead, Walking, top.cs = NoNode, NEW next, Record(next), proc' = proc
  PROVE  TempsDissolve'
<1> DEFINE t == [guard |-> top.guard, action |-> top.action, next |-> next,
                 decode |-> Snapshot(top)]
<1>1. top \in PathLeg /\ CleanLeg(top)
  BY TopClean DEF NothingDead
<1>2. top.from \in Source /\ out \in [Source -> Seq(Transition)]
  BY <1>1 DEF NothingDead, TypeOK, PathLeg, Leg
<1>3. out' = [out EXCEPT ![top.from] = Append(out[top.from], t)]
  BY DEF Record
<1>4. \A l \in t.guard : ~ReadsDead(l.lhs)
  BY <1>1 DEF CleanLeg
<1>5. \A c \in t.action : ~ReadsDead(c.val)
  BY <1>1 DEF CleanLeg
<1>6. \A v \in Decoded : ~ReadsDead(t.decode[v])
  <2> SUFFICES ASSUME NEW v \in Decoded PROVE ~ReadsDead(t.decode[v])
    OBVIOUS
  <2>1. v \in Vars \ Temps
    BY DEF NothingDead, TypeOK, Decoded
  <2>2. t.decode[v] = Bound(top.env, v)
    BY DEF Snapshot, Bound
  <2> QED
    BY <1>1, <2>1, <2>2 DEF CleanLeg, CleanEnv
<1>7. /\ Len(Append(out[top.from], t)) = Len(out[top.from]) + 1
      /\ DOMAIN Append(out[top.from], t) = 1 .. Len(out[top.from]) + 1
      /\ \A i \in 1 .. Len(out[top.from]) : Append(out[top.from], t)[i] = out[top.from][i]
      /\ Append(out[top.from], t)[Len(out[top.from]) + 1] = t
  <2> DEFINE S == Transition \cup {t}
  <2>1. out[top.from] \in Seq(S) /\ t \in S
    BY <1>2, SeqMonotonic
  <2> HIDE DEF S, t
  <2> QED
    BY <2>1, AppendProperties, LenProperties
<1>8. Len(out[top.from]) \in Nat /\ DOMAIN out[top.from] = 1 .. Len(out[top.from])
  BY <1>2, LenProperties
<1> HIDE DEF t
<1>9. ASSUME NEW src \in DOMAIN out', NEW j \in DOMAIN out'[src]
      PROVE  out'[src][j] = t \/ (src \in DOMAIN out /\ j \in DOMAIN out[src]
                                  /\ out'[src][j] = out[src][j])
  <2>1. CASE src = top.from
    <3>1. out'[src] = Append(out[src], t)
      BY <1>2, <1>3, <2>1
    <3>2. j \in 1 .. Len(out[src]) + 1
      BY <1>7, <2>1, <3>1
    <3> QED
      BY <1>2, <1>7, <1>8, <2>1, <3>1, <3>2
  <2>2. CASE src # top.from
    BY <1>2, <1>3, <2>2
  <2> QED
    BY <2>1, <2>2
<1>10. Decoded' = Decoded
  BY DEF Decoded
<1> QED
  BY <1>4, <1>5, <1>6, <1>9, <1>10 DEF NothingDead, TempsDissolve

-----------------------------------------------------------------------------
(* The actions *)

\* A loop head lets only clean tests into the guards.
LEMMA LoopForkClean ==
  ASSUME NothingDead, Walking, NEW leg \in PathLeg, CleanLeg(leg), leg.cs = NoNode,
         NEW loop \in LoopNode, LoopFork(leg, loop)
  PROVE  NothingDead'
<1>1. TypeOK' /\ name \in Names
  BY LoopForkType DEF NothingDead, TypeOK
<1>2. CASE Fail
  BY <1>1, <1>2, FailClean
<1>3. CASE ~Fail
  <2>1. /\ ~ReadsDeadTest(leg, loop)
        /\ Replace(LoopLegs(leg, loop)) /\ UNCHANGED <<name, proc, out>>
    BY <1>3 DEF LoopFork
  <2>2. LoopLegs(leg, loop) \in Seq(PathLeg)
    BY <1>1, LoopLegsType
  <2>3. Entered(leg, loop) \in PathLeg
    BY <1>1, EnteredType
  <2>4. CleanLeg(Entered(leg, loop)) /\ Entered(leg, loop).cs = NoNode
    <3>1. /\ Entered(leg, loop).guard = leg.guard /\ Entered(leg, loop).action = leg.action
          /\ Entered(leg, loop).env = leg.env /\ Entered(leg, loop).cs = NoNode
      BY DEF Entered, PathLeg, Leg
    <3> QED
      BY <3>1, SameClean
  <2>5. CleanLegs(LoopLegs(leg, loop))
    <3>1. CASE Perpetual(leg, loop)
      BY <2>4, <3>1 DEF LoopLegs, CleanLegs
    <3>2. CASE ~Perpetual(leg, loop) /\ NeverRuns(leg, loop)
      BY <3>2 DEF LoopLegs, CleanLegs
    <3>3. CASE ~Perpetual(leg, loop) /\ ~NeverRuns(leg, loop)
      <4> DEFINE t == LoopTest(leg, loop)
      <4>1. nodes[loop].kind = "while"
        BY <3>3 DEF Perpetual, LoopNode
      <4>2. t \in Literal /\ Negated(t) \in Literal
        BY <1>1, <4>1, LoopTestType
      <4>3. ~ReadsDead(t.lhs) /\ ~ReadsDead(Negated(t).lhs)
        BY <2>1, <3>3, NegatedClean DEF ReadsDeadTest
      <4>4. LoopLegs(leg, loop) = Live(Entered(leg, loop), {t}) \o Live(leg, {Negated(t)})
        BY <3>3 DEF LoopLegs
      <4> HIDE DEF t
      <4>5. CleanLegs(Live(Entered(leg, loop), {t})) /\ CleanLegs(Live(leg, {Negated(t)}))
        BY <2>3, <2>4, <4>3, LiveClean
      <4>6. /\ Live(Entered(leg, loop), {t}) \in Seq(PathLeg)
            /\ Live(leg, {Negated(t)}) \in Seq(PathLeg)
        BY <2>3, <4>2, LiveType
      <4> QED
        BY <4>4, <4>5, <4>6, ConcatClean
    <3> QED
      BY <3>1, <3>2, <3>3
  <2> QED
    BY <1>1, <2>1, <2>2, <2>5, StepClean
<1> QED
  BY <1>2, <1>3

\* The end of a frame forgets its temporaries.
LEMMA EndOfFrameClean == NothingDead /\ EndOfFrame => NothingDead'
<1> SUFFICES ASSUME NothingDead, EndOfFrame PROVE NothingDead'
  OBVIOUS
<1> DEFINE leg == [top EXCEPT !.env = Forget(@, frame.decls), !.frames = Tail(@)]
<1>1. Walking /\ top \in PathLeg /\ CleanLeg(top) /\ top.cs = NoNode
  BY TopClean DEF NothingDead, EndOfFrame, InFrame, InLeg
<1>2. TypeOK' /\ Replace(<<leg>>) /\ UNCHANGED <<name, proc, out>>
  BY EndOfFrameType DEF NothingDead, EndOfFrame
<1>3. leg \in PathLeg
  BY <1>1, <1>2, ReplacedIsALeg DEF NothingDead
<1>4. /\ leg.guard = top.guard /\ leg.action = top.action /\ leg.cs = NoNode
      /\ leg.env = Forget(top.env, frame.decls)
  BY <1>1 DEF PathLeg, Leg
<1>5. CleanEnv(leg.env)
  BY <1>1, <1>4, ForgetClean DEF CleanLeg, PathLeg, Leg
<1> HIDE DEF leg
<1> QED
  BY <1>1, <1>2, <1>3, <1>4, <1>5, StepSameClean

\* So does a back-edge, before the head decides.
LEMMA BackEdgeClean == NothingDead /\ BackEdge => NothingDead'
<1> SUFFICES ASSUME NothingDead, BackEdge PROVE NothingDead'
  OBVIOUS
<1> DEFINE leg == [top EXCEPT !.env = Forget(@, frame.decls), !.frames = Tail(@)]
<1>1. /\ Walking /\ top \in PathLeg /\ CleanLeg(top) /\ top.cs = NoNode
      /\ frame \in Frame /\ Tail(top.frames) \in Seq(Frame)
  BY TopClean, FrameFacts DEF NothingDead, BackEdge, InFrame, InLeg
<1>2. Forget(top.env, frame.decls) \in Env /\ CleanEnv(Forget(top.env, frame.decls))
  BY <1>1, ForgetType, ForgetClean DEF CleanLeg, PathLeg, Leg
<1>3. leg \in PathLeg
  BY <1>1, <1>2 DEF PathLeg, Leg
<1>4. /\ leg.guard = top.guard /\ leg.action = top.action /\ leg.cs = NoNode
      /\ leg.env = Forget(top.env, frame.decls)
  BY <1>1 DEF PathLeg, Leg
<1>5. CleanLeg(leg)
  BY <1>1, <1>2, <1>4 DEF CleanLeg
<1>6. frame.loop \in LoopNode /\ LoopFork(leg, frame.loop)
  BY <1>1 DEF BackEdge, Frame
<1> HIDE DEF leg
<1> QED
  BY <1>1, <1>3, <1>4, <1>5, <1>6, LoopForkClean

\* What a statement that is not refused makes of its right-hand side.
LEMMA RightHandSide ==
  ASSUME NothingDead, At({nodes[stmt].kind}), ~ReadsDeadTemp,
         nodes[stmt].kind \in {"nba", "induced", "temp", "decoded"}
  PROVE  /\ SubstExpr(nodes[stmt].val, top.env) \in Value
         /\ ~ReadsDead(SubstExpr(nodes[stmt].val, top.env))
         /\ nodes[stmt].var \in Vars
<1>1. top \in PathLeg /\ stmt \in NodeId /\ name \in Names
  BY AtFacts DEF NothingDead
<1>2. nodes[stmt].val \in Expr /\ top.env \in Env /\ nodes[stmt].var \in Vars
  BY <1>1, NodeFacts DEF PathLeg, Leg
<1>3. SubstExpr(nodes[stmt].val, top.env) \in Substituted
  BY DEF Substituted
<1> QED
  BY <1>2, <1>3, SubstExprType DEF ReadsDeadTemp

\* Entering a block, and the assignments that bind a name.
LEMMA BindingClean ==
  ASSUME NothingDead, EnterBlock \/ Blocking \/ DecodedOutput
  PROVE  NothingDead'
<1>1. /\ Walking /\ top \in PathLeg /\ CleanLeg(top) /\ Advanced \in PathLeg
      /\ Advanced.guard = top.guard /\ Advanced.action = top.action
      /\ Advanced.env = top.env /\ Advanced.cs = NoNode
  <2>1. \E kinds : At(kinds)
    BY DEF EnterBlock, Blocking, DecodedOutput
  <2> QED
    BY <2>1, AtFacts, TopClean DEF NothingDead
<1>2. top.env \in Env /\ CleanEnv(top.env)
  BY <1>1 DEF PathLeg, Leg, CleanLeg
<1>3. PICK leg : /\ Replace(<<leg>>) /\ UNCHANGED <<name, proc, out>>
                 /\ leg.guard = top.guard /\ leg.action = top.action
                 /\ leg.cs = NoNode /\ CleanEnv(leg.env)
  <2>1. CASE EnterBlock
    <3> DEFINE leg == [Advanced EXCEPT !.frames = PushFrame(@, stmt, NoNode)]
    <3>1. Replace(<<leg>>) /\ UNCHANGED <<name, proc, out>>
      BY <2>1 DEF EnterBlock
    <3>2. /\ leg.guard = top.guard /\ leg.action = top.action /\ leg.cs = NoNode
          /\ leg.env = top.env
      BY <1>1 DEF PathLeg, Leg
    <3> QED
      BY <1>2, <3>1, <3>2
  <2>2. CASE Blocking
    <3> DEFINE x == TruncateValue(nodes[stmt].var, SubstExpr(nodes[stmt].val, top.env))
               leg == [Advanced EXCEPT !.env = Bind(@, nodes[stmt].var, x)]
    <3>1. Replace(<<leg>>) /\ UNCHANGED <<name, proc, out>>
      BY <2>2 DEF Blocking
    <3>2. /\ leg.guard = top.guard /\ leg.action = top.action /\ leg.cs = NoNode
          /\ leg.env = Bind(top.env, nodes[stmt].var, x)
      BY <1>1 DEF PathLeg, Leg
    <3>3. x \in Value /\ ~ReadsDead(x) /\ nodes[stmt].var \in Vars
      BY <2>2, RightHandSide, TruncateValueType, TruncateClean DEF Blocking, At
    <3> HIDE DEF x
    <3> QED
      BY <1>2, <3>1, <3>2, <3>3, BindClean
  <2>3. CASE DecodedOutput
    <3> DEFINE x == SubstExpr(nodes[stmt].val, top.env)
               leg == [Advanced EXCEPT !.env = Bind(@, nodes[stmt].var, x)]
    <3>1. Replace(<<leg>>) /\ UNCHANGED <<name, proc, out>>
      BY <2>3 DEF DecodedOutput
    <3>2. /\ leg.guard = top.guard /\ leg.action = top.action /\ leg.cs = NoNode
          /\ leg.env = Bind(top.env, nodes[stmt].var, x)
      BY <1>1 DEF PathLeg, Leg
    <3>3. x \in Value /\ ~ReadsDead(x) /\ nodes[stmt].var \in Vars
      BY <2>3, RightHandSide DEF DecodedOutput, At
    <3> HIDE DEF x
    <3> QED
      BY <1>2, <3>1, <3>2, <3>3, BindClean
  <2> QED
    BY <2>1, <2>2, <2>3
<1>4. TypeOK'
  BY EnterBlockType, BlockingType, DecodedOutputType DEF NothingDead
<1>5. leg \in PathLeg
  BY <1>1, <1>3, <1>4, ReplacedIsALeg DEF NothingDead
<1> QED
  BY <1>1, <1>3, <1>4, <1>5, StepSameClean

\* A commit keeps its value as the environment makes it.
LEMMA CommitClean ==
  ASSUME NothingDead, Nonblocking \/ Induced
  PROVE  NothingDead'
<1> DEFINE d == nodes[stmt]
           x == SubstExpr(d.val, top.env)
           kept == {c \in top.action : ~(c.induced /\ c.var = d.var)}
<1>1. /\ Walking /\ top \in PathLeg /\ CleanLeg(top) /\ Advanced \in PathLeg
      /\ Advanced.guard = top.guard /\ Advanced.action = top.action
      /\ Advanced.env = top.env /\ Advanced.cs = NoNode
  <2>1. \E kinds : At(kinds)
    BY DEF Nonblocking, Induced
  <2> QED
    BY <2>1, AtFacts, TopClean DEF NothingDead
<1>2. top.env \in Env /\ CleanEnv(top.env) /\ \A c \in top.action : ~ReadsDead(c.val)
  BY <1>1 DEF PathLeg, Leg, CleanLeg
<1>3. x \in Value /\ ~ReadsDead(x) /\ d.var \in Vars
  BY RightHandSide DEF Nonblocking, Induced, At
<1>4. ASSUME NEW b PROVE \A c \in kept \cup {[at |-> stmt, var |-> d.var, val |-> x, induced |-> b]} :
                            ~ReadsDead(c.val)
  BY <1>2, <1>3
<1>5. CleanEnv(Bind(top.env, d.var, x))
  BY <1>2, <1>3, BindClean
<1>6. PICK leg : /\ Replace(<<leg>>) /\ UNCHANGED <<name, proc, out>>
                 /\ leg.guard = top.guard /\ leg.cs = NoNode /\ CleanEnv(leg.env)
                 /\ \A c \in leg.action : ~ReadsDead(c.val)
  <2>1. CASE Nonblocking
    <3> DEFINE new == [at |-> stmt, var |-> d.var, val |-> x, induced |-> FALSE]
               leg == [Advanced EXCEPT !.action =
                         {c \in @ : ~(c.induced /\ c.var = d.var)} \cup {new}]
    <3>1. Replace(<<leg>>) /\ UNCHANGED <<name, proc, out>>
      BY <2>1 DEF Nonblocking
    <3>2. /\ leg.guard = top.guard /\ leg.cs = NoNode /\ leg.env = top.env
          /\ leg.action = kept \cup {new}
      BY <1>1 DEF PathLeg, Leg
    <3> QED
      BY <1>2, <1>4, <3>1, <3>2
  <2>2. CASE Induced
    <3> DEFINE new == [at |-> stmt, var |-> d.var, val |-> x, induced |-> TRUE]
               leg == [Advanced EXCEPT
                         !.action = {c \in @ : ~(c.induced /\ c.var = d.var)} \cup {new},
                         !.env = Bind(@, d.var, x)]
    <3>1. Replace(<<leg>>) /\ UNCHANGED <<name, proc, out>>
      BY <2>2 DEF Induced
    <3>2. /\ leg.guard = top.guard /\ leg.cs = NoNode
          /\ leg.env = Bind(top.env, d.var, x) /\ leg.action = kept \cup {new}
      BY <1>1 DEF PathLeg, Leg
    <3> QED
      BY <1>4, <1>5, <3>1, <3>2
  <2> QED
    BY <2>1, <2>2
<1>7. TypeOK'
  BY NonblockingType, InducedType DEF NothingDead
<1>8. leg \in PathLeg
  BY <1>1, <1>6, <1>7, ReplacedIsALeg DEF NothingDead
<1>9. CleanLeg(leg)
  BY <1>1, <1>6 DEF CleanLeg
<1>10. CleanLegs(<<leg>>)
  BY <1>9 DEF CleanLegs
<1> QED
  BY <1>1, <1>6, <1>7, <1>8, <1>10, OneSeq, StepClean

\* A fork lets only a clean condition into the guards of its legs.
LEMMA IfForkClean == NothingDead /\ IfFork => NothingDead'
<1> SUFFICES ASSUME NothingDead, IfFork PROVE NothingDead'
  OBVIOUS
<1> DEFINE c == SubstTest(nodes[stmt].tests[1], top.env)
           Arm(k) == [Advanced EXCEPT !.frames = PushFrame(Advanced.frames, nodes[stmt].kids[k], NoNode)]
<1>1. /\ Walking /\ name \in Names /\ top \in PathLeg /\ CleanLeg(top) /\ stmt \in NodeId
      /\ nodes[stmt].kind = "if" /\ Advanced \in PathLeg /\ Advanced.frames \in Seq(Frame)
      /\ Advanced.guard = top.guard /\ Advanced.action = top.action
      /\ Advanced.env = top.env /\ Advanced.cs = NoNode
  BY AtFacts, TopClean DEF NothingDead, IfFork
<1>2. ASSUME NEW k \in {1, 2}
      PROVE  Arm(k) \in PathLeg /\ CleanLeg(Arm(k)) /\ Arm(k).cs = NoNode
  <2>1. nodes[stmt].kids[k] \in NodeRef
    BY <1>1, <1>2, NodeFacts
  <2> DEFINE frames == PushFrame(Advanced.frames, nodes[stmt].kids[k], NoNode)
  <2>2. frames \in Seq(Frame)
    BY <1>1, <2>1, PushFrameType
  <2> HIDE DEF frames
  <2>3. [Advanced EXCEPT !.frames = frames] \in PathLeg
    BY <1>1, <2>2, LegUpdates
  <2> DEFINE leg == [Advanced EXCEPT !.frames = frames]
  <2>4. /\ leg.guard = top.guard /\ leg.action = top.action /\ leg.env = top.env
        /\ leg.cs = NoNode
    BY <1>1 DEF PathLeg, Leg
  <2>5. CleanLeg(leg)
    BY <1>1, <2>4, SameClean
  <2> QED
    BY <2>3, <2>4, <2>5 DEF frames
<1>3. c \in Literal /\ nodes[stmt].tests \in Seq(Test) /\ nodes[stmt].dflt = 0
  <2>1. nodes[stmt].tests[1] \in Test /\ top.env \in Env
    BY <1>1, NodeFacts DEF PathLeg, Leg
  <2>2. nodes[stmt].tests \in Seq(Test) /\ nodes[stmt].dflt = 0
    BY <1>1, NodeFacts
  <2> QED
    BY <2>1, <2>2, SubstTestType
<1>4. ~ReadsDead(c.lhs) /\ ~ReadsDead(Negated(c).lhs)
  <2>1. 1 \in DOMAIN nodes[stmt].tests
    BY <1>1, <1>3, NodeFacts, LenProperties
  <2>2. SubstExpr(nodes[stmt].tests[1].lhs, top.env) \in Substituted
    BY <1>1, <1>3, <2>1 DEF Substituted
  <2>3. c.lhs = SubstExpr(nodes[stmt].tests[1].lhs, top.env)
    BY DEF SubstTest
  <2> QED
    BY <2>2, <2>3, NegatedClean DEF IfFork, ReadsDeadTemp
<1>5. Replace(Live(Arm(1), {c}) \o Live(Arm(2), {Negated(c)})) /\ UNCHANGED <<name, proc, out>>
  BY DEF IfFork
<1> HIDE DEF c, Arm
<1>6. {c} \in SUBSET Literal /\ {Negated(c)} \in SUBSET Literal
  BY <1>3, NegatedHolds
<1>7. Live(Arm(1), {c}) \in Seq(PathLeg) /\ Live(Arm(2), {Negated(c)}) \in Seq(PathLeg)
  BY <1>2, <1>6, LiveType
<1>8. CleanLegs(Live(Arm(1), {c})) /\ CleanLegs(Live(Arm(2), {Negated(c)}))
  BY <1>2, <1>4, LiveClean
<1>9. /\ Live(Arm(1), {c}) \o Live(Arm(2), {Negated(c)}) \in Seq(PathLeg)
      /\ CleanLegs(Live(Arm(1), {c}) \o Live(Arm(2), {Negated(c)}))
  BY <1>7, <1>8, ConcatProperties, ConcatClean
<1>10. TypeOK'
  BY IfForkType DEF NothingDead
<1> QED
  BY <1>1, <1>5, <1>9, <1>10, StepClean

\* A case is entered with labels that read no temporary: those the walk
\* checked, or those no environment is substituted in.
LEMMA CaseBeginClean == LabelsReadNoTemp /\ NothingDead /\ CaseBegin => NothingDead'
<1> SUFFICES ASSUME LabelsReadNoTemp, NothingDead, CaseBegin PROVE NothingDead'
  OBVIOUS
<1> DEFINE leg == [Advanced EXCEPT !.cs = stmt, !.arm = 1]
<1>1. /\ Walking /\ name \in Names /\ top \in PathLeg /\ CleanLeg(top) /\ stmt \in NodeId
      /\ nodes[stmt].kind \in {"case", "reverse"} /\ Advanced \in PathLeg
      /\ Advanced.guard = top.guard /\ Advanced.action = top.action
      /\ Advanced.env = top.env
  BY AtFacts, TopClean DEF NothingDead, CaseBegin
<1>2. /\ leg.guard = top.guard /\ leg.action = top.action /\ leg.env = top.env
      /\ leg.cs = stmt
  BY <1>1 DEF PathLeg, Leg
<1>3. TypeOK' /\ Replace(<<leg>>) /\ UNCHANGED <<name, proc, out>>
  BY CaseBeginType DEF NothingDead, CaseBegin
<1>4. leg \in PathLeg
  BY <1>1, <1>3, ReplacedIsALeg DEF NothingDead
<1> HIDE DEF leg
<1>5. ASSUME NEW k \in Labels(stmt) PROVE ~ReadsDead(Match(leg, k).lhs)
  <2>1. k \in DOMAIN nodes[stmt].tests \ {nodes[stmt].dflt}
    BY DEF Labels
  <2>2. CASE nodes[stmt].kind = "case"
    <3>1. Match(leg, k).lhs = SubstExpr(nodes[stmt].tests[k].lhs, top.env)
      BY <1>2, <2>2 DEF Match, SubstTest
    <3>2. SubstExpr(nodes[stmt].tests[k].lhs, top.env) \in Substituted
      BY <2>1, <2>2 DEF Substituted
    <3> QED
      BY <3>1, <3>2 DEF CaseBegin, ReadsDeadTemp
  <2>3. CASE nodes[stmt].kind = "reverse"
    <3>1. Match(leg, k).lhs = SubstExpr(nodes[stmt].tests[k].lhs, NoEnv)
      BY <1>2, <2>3 DEF Match, SubstTest
    <3> QED
      BY <1>1, <2>1, <2>3, <3>1 DEF LabelsReadNoTemp, nodes
  <2> QED
    BY <1>1, <2>2, <2>3
<1>6. CleanLeg(leg)
  BY <1>1, <1>2, <1>5 DEF CleanLeg
<1>7. CleanLegs(<<leg>>)
  BY <1>6 DEF CleanLegs
<1> QED
  BY <1>1, <1>3, <1>4, <1>7, OneSeq, StepClean

\* What guards an arm reads what the labels read.
LEMMA ArmTestClean ==
  ASSUME NEW leg, leg.cs # NoNode, CleanLeg(leg), NEW k,
         k \in Labels(leg.cs) \/ k = nodes[leg.cs].dflt
  PROVE  /\ \A l \in ArmTest(leg, k) : ~ReadsDead(l.lhs)
         /\ \A l \in NoMatch(leg) : ~ReadsDead(l.lhs)
<1>1. \A j \in Labels(leg.cs) : ~ReadsDead(Match(leg, j).lhs)
  BY DEF CleanLeg
<1>2. \A j \in Labels(leg.cs) : ~ReadsDead(Negated(Match(leg, j)).lhs)
  BY <1>1, NegatedClean
<1>3. \A l \in NoMatch(leg) : ~ReadsDead(l.lhs)
  BY <1>2 DEF NoMatch
<1>4. k # nodes[leg.cs].dflt => ~ReadsDead(Match(leg, k).lhs)
  BY <1>1
<1> QED
  BY <1>3, <1>4 DEF ArmTest

\* An arm of a case goes on with the labels it was entered with.
LEMMA CaseArmClean == NothingDead /\ CaseArm => NothingDead'
<1> SUFFICES ASSUME NothingDead, CaseArm PROVE NothingDead'
  OBVIOUS
<1> DEFINE k == top.arm
           rest == [top EXCEPT !.arm = @ + 1]
           body == Live(CaseLeg, ArmTest(top, k))
<1>1. /\ Walking /\ name \in Names /\ top \in PathLeg /\ top.cs # NoNode
      /\ k \in 1 .. Len(nodes[top.cs].kids)
      /\ ArmTest(top, k) \in SUBSET Literal
      /\ CaseLeg \in PathLeg /\ CaseLeg.guard = top.guard /\ CaseLeg.cs = NoNode
      /\ rest \in PathLeg
      /\ Replace(body \o <<rest>>)
  BY CaseLegFacts DEF NothingDead
<1>2. CleanLeg(top)
  BY <1>1, TopClean DEF NothingDead
<1>3. CaseLeg.action = top.action /\ CaseLeg.env = top.env
  <2>1. OutOfCase(top).action = top.action /\ OutOfCase(top).env = top.env /\ OutOfCase(top) \in PathLeg
    BY <1>1, OutOfCaseType DEF OutOfCase, PathLeg, Leg
  <2> QED
    BY <2>1 DEF CaseLeg, PathLeg, Leg
<1>4. /\ rest.guard = top.guard /\ rest.action = top.action /\ rest.cs = top.cs
      /\ rest.env = top.env
  BY <1>1 DEF PathLeg, Leg
<1>5. k \in Labels(top.cs) \/ k = nodes[top.cs].dflt
  <2>1. top.cs \in NodeId /\ nodes[top.cs].kind \in {"case", "reverse"}
    BY <1>1 DEF PathLeg, Leg, CaseNode
  <2>2. DOMAIN nodes[top.cs].tests = 1 .. Len(nodes[top.cs].kids)
    BY <1>1, <2>1, NodeFacts, LenProperties
  <2> QED
    BY <1>1, <2>2 DEF Labels
<1>6. CleanLegs(body)
  <2>1. CleanLeg(CaseLeg)
    BY <1>1, <1>2, <1>3, SameClean
  <2>2. \A l \in ArmTest(top, k) : ~ReadsDead(l.lhs)
    BY <1>1, <1>2, <1>5, ArmTestClean
  <2> QED
    BY <1>1, <2>1, <2>2, LiveClean
<1>7. CleanLegs(<<rest>>)
  <2>1. CleanLeg(rest)
    BY <1>2, <1>4 DEF CleanLeg, Match
  <2> HIDE DEF rest
  <2> QED
    BY <2>1 DEF CleanLegs
<1>8. body \in Seq(PathLeg) /\ <<rest>> \in Seq(PathLeg)
  BY <1>1, LiveType, OneSeq
<1> HIDE DEF rest, body, k
<1>9. body \o <<rest>> \in Seq(PathLeg) /\ CleanLegs(body \o <<rest>>)
  BY <1>6, <1>7, <1>8, ConcatProperties, ConcatClean
<1>10. TypeOK' /\ UNCHANGED <<name, proc, out>>
  BY CaseArmType DEF NothingDead, CaseArm
<1> QED
  BY <1>1, <1>9, <1>10, StepClean

\* So does its fall-through.
LEMMA CaseEndClean == NothingDead /\ CaseEnd => NothingDead'
<1> SUFFICES ASSUME NothingDead, CaseEnd PROVE NothingDead'
  OBVIOUS
<1> DEFINE legs == IF nodes[top.cs].dflt = 0 THEN Live(OutOfCase(top), NoMatch(top)) ELSE <<>>
<1>1. Walking /\ name \in Names /\ top \in PathLeg /\ top.cs # NoNode /\ CleanLeg(top)
  BY TopClean DEF NothingDead, CaseEnd, TypeOK
<1>2. /\ OutOfCase(top) \in PathLeg /\ OutOfCase(top).cs = NoNode
      /\ OutOfCase(top).guard = top.guard
      /\ OutOfCase(top).action = top.action /\ OutOfCase(top).env = top.env
  BY <1>1, OutOfCaseType DEF OutOfCase, PathLeg, Leg
<1>3. CleanLeg(OutOfCase(top))
  BY <1>1, <1>2, SameClean
<1>4. \A l \in NoMatch(top) : ~ReadsDead(l.lhs)
  BY <1>1, ArmTestClean
<1>5. CleanLegs(legs)
  <2>1. CleanLegs(Live(OutOfCase(top), NoMatch(top)))
    BY <1>2, <1>3, <1>4, LiveClean
  <2>2. CleanLegs(<<>>)
    BY DEF CleanLegs
  <2> QED
    BY <2>1, <2>2
<1>6. legs \in Seq(PathLeg)
  BY <1>1, <1>2, NoMatchType, LiveType, EmptySeq
<1>7. TypeOK' /\ UNCHANGED <<name, proc, out>> /\ Replace(legs)
  BY CaseEndType DEF NothingDead, CaseEnd
<1> HIDE DEF legs
<1> QED
  BY <1>1, <1>5, <1>6, <1>7, StepClean

\* Entering a loop lets only a clean test in.
LEMMA EnterLoopClean == NothingDead /\ EnterLoop => NothingDead'
<1> SUFFICES ASSUME NothingDead, EnterLoop PROVE NothingDead'
  OBVIOUS
<1>1. /\ Walking /\ CleanLeg(top) /\ Advanced \in PathLeg /\ stmt \in LoopNode
      /\ Advanced.guard = top.guard /\ Advanced.action = top.action
      /\ Advanced.env = top.env /\ Advanced.cs = NoNode
  BY AtFacts, TopClean DEF NothingDead, EnterLoop, LoopNode
<1>2. CleanLeg(Advanced)
  BY <1>1, SameClean
<1> QED
  BY <1>1, <1>2, LoopForkClean DEF EnterLoop

\* A jump goes on with what its leg carries.
LEMMA JumpClean == NothingDead /\ Jump => NothingDead'
<1> SUFFICES ASSUME NothingDead, Jump PROVE NothingDead'
  OBVIOUS
<1>1. /\ Walking /\ top \in PathLeg /\ CleanLeg(top) /\ Advanced \in PathLeg
      /\ Advanced.action = top.action /\ Advanced.env = top.env
  BY AtFacts, TopClean DEF NothingDead, Jump
<1>2. TypeOK'
  BY JumpType DEF NothingDead
<1>3. CASE InnermostLoop(top.frames) = {}
  BY <1>2, <1>3, FailClean DEF Jump
<1>4. CASE InnermostLoop(top.frames) # {}
  <2>1. PICK i \in InnermostLoop(top.frames) :
          IF nodes[stmt].kind = "continue" THEN LoopFork(Unwound(i), top.frames[i].loop)
          ELSE Replace(<<Unwound(i)>>) /\ UNCHANGED <<name, proc, out, walked, holdNeeded, status>>
    BY <1>4 DEF Jump, Unwound
  <2>2. /\ Walking /\ Unwound(i) \in PathLeg /\ top.frames[i].loop \in LoopNode
        /\ Unwound(i).guard = top.guard /\ Unwound(i).cs = NoNode
    BY UnwoundFacts DEF NothingDead
  <2>3. Unwound(i).action = top.action /\ Unwound(i).env = top.env
    BY <1>1 DEF Unwound, PathLeg, Leg
  <2>4. CleanLeg(Unwound(i))
    BY <1>1, <2>2, <2>3, SameClean
  <2>5. CASE nodes[stmt].kind = "continue"
    BY <2>1, <2>2, <2>4, <2>5, LoopForkClean
  <2>6. CASE nodes[stmt].kind # "continue"
    <3>1. CleanLegs(<<Unwound(i)>>)
      BY <2>4 DEF CleanLegs
    <3> QED
      BY <1>2, <2>1, <2>2, <2>6, <3>1, OneSeq, StepClean
  <2> QED
    BY <2>5, <2>6
<1> QED
  BY <1>3, <1>4

\* The end of a path records what its leg carries; the next one starts anew.
LEMMA PathEndClean ==
  ASSUME NothingDead, EndOfProcess \/ Arrive
  PROVE  NothingDead'
<1>1. TypeOK'
  BY EndOfProcessType, ArriveType DEF NothingDead
<1>2. CASE EndOfProcess
  <2>1. Walking /\ top.cs = NoNode /\ Record(Hold) /\ Replace(<<>>) /\ UNCHANGED <<name, proc>>
    BY <1>2 DEF EndOfProcess, InLeg
  <2>2. <<>> \in Seq(PathLeg) /\ CleanLegs(<<>>)
    BY EmptySeq DEF CleanLegs
  <2>3. CleanStack'
    BY <2>1, <2>2, ReplaceClean DEF NothingDead
  <2> QED
    BY <1>1, <2>1, <2>3, RecordClean DEF NothingDead
<1>3. CASE Arrive
  <2>1. Walking /\ top.cs = NoNode /\ Record(stmt) /\ UNCHANGED <<name, proc>>
    BY <1>3 DEF Arrive, At, InFrame, InLeg
  <2>2. ArrivalLegs \in Seq(PathLeg) /\ Replace(ArrivalLegs)
    BY <1>3, ArrivalFacts DEF NothingDead
  <2>3. CleanLegs(ArrivalLegs)
    <3> DEFINE leg == StartLeg(stmt, PushFrame(Advanced.frames, nodes[stmt].kids[1], NoNode))
    <3>1. CleanLeg(leg)
      BY StartClean
    <3>2. ArrivalLegs = <<>> \/ ArrivalLegs = <<leg>>
      BY DEF ArrivalLegs
    <3> HIDE DEF leg
    <3> QED
      BY <3>1, <3>2 DEF CleanLegs
  <2>4. CleanStack'
    BY <2>1, <2>2, <2>3, ReplaceClean DEF NothingDead
  <2> QED
    BY <1>1, <2>1, <2>4, RecordClean DEF NothingDead
<1> QED
  BY <1>2, <1>3

\* The walk starts with one clean leg and an empty cover.
LEMMA InitClean == Init => NothingDead
<1> SUFFICES ASSUME Init PROVE NothingDead
  OBVIOUS
<1>1. TypeOK
  BY InitType
<1> DEFINE leg == StartLeg(Entry, PushFrame(<<>>, Program[name].root, NoNode))
<1>2. CleanLeg(leg) /\ stack = <<leg>>
  BY StartClean DEF Init
<1> HIDE DEF leg
<1>3. CleanStack
  BY <1>2 DEF CleanStack
<1>4. TempsDissolve
  BY DEF Init, TempsDissolve
<1> QED
  BY <1>1, <1>3, <1>4 DEF NothingDead

\* No step of the walk brings a temporary back.
LEMMA WalkStepClean == LabelsReadNoTemp /\ NothingDead /\ [WalkNext]_walkVars => NothingDead'
<1> SUFFICES ASSUME LabelsReadNoTemp, NothingDead, [WalkNext]_walkVars PROVE NothingDead'
  OBVIOUS
<1>1. TypeOK'
  BY WalkStepType DEF NothingDead
<1>2. CASE Finish \/ UNCHANGED walkVars
  <2>1. CleanLegs(stack)
    BY DEF NothingDead, CleanStack, CleanLegs
  <2>2. stack' = stack /\ name' = name /\ proc' = proc /\ out' = out
    BY <1>2 DEF Finish, walkVars
  <2> QED
    BY <1>1, <2>1, <2>2, CleanPrime, SameCover DEF NothingDead
<1>3. CASE DeadTemporary \/ OutputLeft
  BY <1>1, <1>3, FailClean DEF DeadTemporary, OutputLeft
<1> QED
  BY <1>2, <1>3, EndOfFrameClean, BackEdgeClean, BindingClean, CommitClean, IfForkClean,
     CaseBeginClean, CaseArmClean, CaseEndClean, EnterLoopClean, JumpClean, PathEndClean
     DEF WalkNext

\* No temporary is read by the cover of any process whose reverse-case labels
\* read none: checking each statement as it is substituted is enough.
THEOREM WalkTempsDissolve ==
  ASSUME LabelsReadNoTemp
  PROVE  WalkSpec => []TempsDissolve
<1>1. Init => NothingDead
  BY InitClean
<1>2. NothingDead /\ [WalkNext]_walkVars => NothingDead'
  BY WalkStepClean
<1>3. NothingDead => TempsDissolve
  BY DEF NothingDead
<1> QED
  BY <1>1, <1>2, <1>3, PTL DEF WalkSpec
=============================================================================
