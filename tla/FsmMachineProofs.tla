-------------------------- MODULE FsmMachineProofs --------------------------
(***************************************************************************)
(* Whatever the process, the inputs and the resets: the emitted machine    *)
(* keeps its registers in their widths and its state register on states    *)
(* whose paths were compiled, with a leg for what the registers hold.      *)
(***************************************************************************)
EXTENDS FsmMachine, FsmWalkProofs, WellFoundedInduction

\* Whatever the registers and the reset hold, an output is shown in its width.
ShownFits ==
  \A q \in States : \A d \in Decoded : \A s \in Store : \A reset \in BOOLEAN :
    Shown(q, d, s, reset) \in Wide /\ Shown(q, d, s, reset) < Modulus[d]

\* What the walk and the machine keep together, beside their types.
MachineInv ==
  /\ Coverage
  /\ Closed
  /\ status = "done" => stack = <<>>
  /\ phase = "emitted" => status = "done" /\ SinglePreamble /\ ShownFits
  /\ phase # "emitted" => state = Off
  /\ state = Off \/ state \in walked \/ (state = Hold /\ holdNeeded)

-----------------------------------------------------------------------------
(* The transitions the walk records lead to states that are compiled *)

\* A step that records nothing leaves the cover closed.
LEMMA SameClosed ==
  ASSUME Closed, UNCHANGED <<out, walked, holdNeeded>>
  PROVE  Closed'
BY DEF Closed

\* A path recorded into a walked wait, or into the hold state it asks for, keeps the cover closed.
LEMMA RecordClosed ==
  ASSUME TypeOK, Closed, Walking, NEW next \in Waits \cup {Hold}, Record(next),
         walked \subseteq walked', next \in walked' \/ (next = Hold /\ holdNeeded')
  PROVE  Closed'
<1> DEFINE t == [guard |-> top.guard, action |-> top.action, next |-> next,
                 decode |-> Snapshot(top)]
<1>1. top.from \in Source /\ out \in [Source -> Seq(Transition)]
  BY TopFacts DEF TypeOK, PathLeg, Leg
<1>2. out' = [out EXCEPT ![top.from] = Append(out[top.from], t)]
  BY DEF Record
<1>3. holdNeeded => holdNeeded'
  BY DEF Record
<1>4. t.next = next
  OBVIOUS
<1> HIDE DEF t
<1>5. t \in Transition
  <2>1. top \in PathLeg /\ Snapshot(top) \in [Decoded -> Value]
    BY TopFacts, SnapshotType
  <2> QED
    BY <2>1 DEF t, Transition, PathLeg, Leg
<1>6. SUFFICES ASSUME NEW src \in Source, NEW j \in DOMAIN out'[src]
               PROVE  \/ out'[src][j].next \in walked'
                      \/ out'[src][j].next = Hold /\ holdNeeded'
  BY <1>1, <1>2 DEF Closed
<1>7. CASE src # top.from
  BY <1>1, <1>2, <1>3, <1>6, <1>7 DEF Closed
<1>8. CASE src = top.from
  <2>1. out'[src] = Append(out[src], t) /\ out[src] \in Seq(Transition)
    BY <1>1, <1>2, <1>8
  <2>2. /\ DOMAIN out'[src] = 1 .. Len(out[src]) + 1
        /\ DOMAIN out[src] = 1 .. Len(out[src]) /\ Len(out[src]) \in Nat
        /\ out'[src][Len(out[src]) + 1] = t
        /\ \A i \in 1 .. Len(out[src]) : out'[src][i] = out[src][i]
    BY <2>1, <1>5, AppendProperties, LenProperties
  <2>3. CASE j \in 1 .. Len(out[src])
    BY <1>1, <1>3, <2>1, <2>2, <2>3 DEF Closed
  <2>4. CASE j = Len(out[src]) + 1
    BY <2>2, <2>4, <1>4
  <2> QED
    BY <2>2, <2>3, <2>4, <1>6
<1> QED
  BY <1>7, <1>8

\* A loop head records nothing: it forks or fails.
LEMMA LoopForkKeeps ==
  ASSUME NEW leg, NEW loop, LoopFork(leg, loop)
  PROVE  UNCHANGED <<out, walked, holdNeeded>> /\ (status' = status \/ status' = "error")
BY DEF LoopFork, Fail

\* Nor does a break or a continue.
LEMMA JumpKeeps ==
  Jump => UNCHANGED <<out, walked, holdNeeded>> /\ (status' = status \/ status' = "error")
<1> SUFFICES ASSUME Jump
             PROVE  UNCHANGED <<out, walked, holdNeeded>> /\ (status' = status \/ status' = "error")
  OBVIOUS
<1>1. CASE InnermostLoop(top.frames) = {}
  BY <1>1 DEF Jump, Fail
<1>2. CASE InnermostLoop(top.frames) # {}
  BY <1>2, LoopForkKeeps DEF Jump
<1> QED
  BY <1>1, <1>2

\* Every step of the walk keeps the cover closed.
LEMMA WalkStepClosed == TypeOK /\ Closed /\ WalkNext => Closed'
<1> SUFFICES ASSUME TypeOK, Closed, WalkNext PROVE Closed'
  OBVIOUS
<1>1. CASE EndOfProcess
  <2>1. Walking /\ Record(Hold) /\ walked' = walked /\ holdNeeded'
    BY <1>1 DEF EndOfProcess, InLeg, Record
  <2> QED
    BY <2>1, RecordClosed
<1>2. CASE Arrive
  <2>1. Walking /\ stmt \in Waits /\ Record(stmt) /\ walked' = walked \cup {stmt}
    BY <1>2, ArrivalFacts DEF Arrive
  <2> QED
    BY <2>1, RecordClosed
<1>3. CASE BackEdge \/ EnterLoop \/ Jump
  <2>1. UNCHANGED <<out, walked, holdNeeded>>
    BY <1>3, LoopForkKeeps, JumpKeeps DEF BackEdge, EnterLoop
  <2> QED
    BY <2>1, SameClosed
<1>4. CASE ~(EndOfProcess \/ Arrive \/ BackEdge \/ EnterLoop \/ Jump)
  <2>1. UNCHANGED <<out, walked, holdNeeded>>
    BY <1>4 DEF WalkNext, EndOfFrame, EnterBlock, DeadTemporary, Fail, Nonblocking, Induced,
       Blocking, DecodedOutput, OutputLeft, IfFork, CaseBegin, CaseArm, CaseEnd, Finish
  <2> QED
    BY <2>1, SameClosed
<1> QED
  BY <1>1, <1>2, <1>3, <1>4

\* Only Finish makes the walk done, with nothing left on the stack.
LEMMA WalkStepStatus == WalkNext => status = "walking" /\ (status' = "done" => stack' = <<>>)
<1> SUFFICES ASSUME WalkNext
             PROVE  status = "walking" /\ (status' = "done" => stack' = <<>>)
  OBVIOUS
<1>1. CASE Finish
  BY <1>1 DEF Finish
<1>2. CASE BackEdge \/ EnterLoop \/ Jump
  <2>1. status' = status \/ status' = "error"
    BY <1>2, LoopForkKeeps, JumpKeeps DEF BackEdge, EnterLoop
  <2>2. status = "walking"
    BY <1>2 DEF BackEdge, EnterLoop, Jump, At, InFrame, InLeg, Walking
  <2> QED
    BY <2>1, <2>2
<1>3. CASE ~(Finish \/ BackEdge \/ EnterLoop \/ Jump)
  BY <1>3 DEF WalkNext, EndOfFrame, EndOfProcess, EnterBlock, DeadTemporary, Fail, Nonblocking,
     Induced, Blocking, DecodedOutput, OutputLeft, IfFork, CaseBegin, CaseArm, CaseEnd, Arrive, At, InFrame, InLeg, Walking
<1> QED
  BY <1>1, <1>2, <1>3
-----------------------------------------------------------------------------
(* An edge of the emitted machine *)

\* The least-number principle, for a set of indices.
LEMMA LeastIndex ==
  ASSUME NEW T \in SUBSET Nat, T # {}
  PROVE  \E j \in T : \A i \in T : j <= i
<1> DEFINE R == OpToRel(<, Nat)
<1>1. IsWellFoundedOn(R, Nat)
  BY NatLessThanWellFounded
<1>2. R = {ss \in Nat \X Nat : ss[1] < ss[2]}
  BY DEF OpToRel
<1> HIDE DEF R
<1>3. \E x \in T : \A y \in T : ~(<<y, x>> \in R)
  BY <1>1, WFMin
<1>4. PICK x \in T : \A y \in T : <<y, x>> \notin R
  BY <1>3
<1>5. ASSUME NEW y \in T PROVE ~(y < x)
  <2>1. <<y, x>> \in Nat \X Nat /\ <<y, x>>[1] = y /\ <<y, x>>[2] = x
    OBVIOUS
  <2> QED
    BY <1>2, <1>4, <2>1
<1>6. ASSUME NEW y \in T PROVE x <= y
  <2>1. x \in Nat /\ y \in Nat /\ ~(y < x)
    BY <1>5
  <2> QED
    BY <2>1
<1> QED
  BY <1>6

\* What an edge reads is a store the registers can hold.
LEMMA SampledType ==
  ASSUME store \in Store, NEW x \in Stimulus
  PROVE  Sampled(x) \in Store
<1>1. ASSUME NEW v \in Vars
      PROVE  Sampled(x)[v] \in Wide /\ Sampled(x)[v] < Modulus[v]
  BY DEF Sampled, Stimulus, Store, WideStore
<1>2. Sampled(x) = [v \in Vars |-> Sampled(x)[v]]
  BY DEF Sampled
<1> QED
  BY <1>1, <1>2 DEF Store, WideStore

\* The commits of an action leave every register within its width.
LEMMA ApplyType ==
  ASSUME NEW action \in SUBSET Commit, NEW r \in Store
  PROVE  Apply(action, r) \in Store
<1>1. ASSUME NEW v \in Vars
      PROVE  Apply(action, r)[v] \in Wide /\ Apply(action, r)[v] < Modulus[v]
  <2>1. CASE \E c \in action : c.var = v
    <3> DEFINE d == CHOOSE c \in action : c.var = v
    <3>1. d \in Commit
      BY <2>1
    <3>2. d.val[r] \in Wide
      BY <3>1 DEF Commit, Value
    <3>3. Apply(action, r)[v] = Truncate(v, d.val[r])
      BY <2>1 DEF Apply
    <3> HIDE DEF d
    <3> QED
      BY <3>2, <3>3, TruncateType
  <2>2. CASE ~\E c \in action : c.var = v
    BY <2>2 DEF Apply, Store, WideStore
  <2> QED
    BY <2>1, <2>2
<1>2. Apply(action, r) = [v \in Vars |-> Apply(action, r)[v]]
  BY DEF Apply
<1> QED
  BY <1>1, <1>2 DEF Store, WideStore

\* The chain of an arm that has a leg takes one of its legs.
LEMMA TakenIsALeg ==
  ASSUME TypeOK, NEW w \in Source, out[w] # <<>>, NEW r
  PROVE  LET j == Taken(w, r)
         IN  /\ j \in DOMAIN out[w] /\ (j = Len(out[w]) \/ Satisfies(r, out[w][j].guard))
             /\ \A i \in 1 .. j - 1 : ~Satisfies(r, out[w][i].guard)
<1> DEFINE Open == {j \in DOMAIN out[w] : j = Len(out[w]) \/ Satisfies(r, out[w][j].guard)}
<1>1. out[w] \in Seq(Transition)
  BY DEF TypeOK
<1>2. DOMAIN out[w] = 1 .. Len(out[w]) /\ Len(out[w]) \in Nat /\ Len(out[w]) >= 1
  BY <1>1, LenProperties, EmptySeq
<1>3. Open \in SUBSET Nat /\ Len(out[w]) \in Open
  BY <1>2
<1>4. PICK j \in Open : \A i \in Open : j <= i
  BY <1>3, LeastIndex
<1>5. \A i \in 1 .. j - 1 : ~Satisfies(r, out[w][i].guard)
  <2> SUFFICES ASSUME NEW i \in 1 .. j - 1, Satisfies(r, out[w][i].guard) PROVE FALSE
    OBVIOUS
  <2>1. j \in Nat /\ j <= Len(out[w])
    BY <1>2
  <2>2. i \in DOMAIN out[w] /\ i < j
    BY <1>2, <2>1
  <2>3. i \in Open
    BY <2>2
  <2>4. j <= i
    BY <1>4, <2>3
  <2> QED
    BY <2>1, <2>2, <2>4, <1>2
<1>6. j \in DOMAIN out[w] /\ (j = Len(out[w]) \/ Satisfies(r, out[w][j].guard))
  OBVIOUS
<1> QED
  BY <1>5, <1>6 DEF Taken

-----------------------------------------------------------------------------
(* The outputs *)

\* There is a store.
LEMMA SomeStore == \E s : s \in Store
<1>1. ASSUME NEW v \in Vars PROVE 0 \in Wide /\ 0 < Modulus[v]
  BY ExprAssumption DEF Wide
<1>2. [v \in Vars |-> 0] \in Store
  BY <1>1 DEF Store, WideStore
<1> QED
  BY <1>2

\* The paths from a state into another are among its paths.
LEMMA IntoFacts ==
  ASSUME TypeOK, NEW src \in Source, NEW q
  PROVE  /\ Into(src, q) \in SUBSET Nat
         /\ \A j \in Into(src, q) : j <= Len(out[src]) /\ out[src][j] \in Transition
         /\ Len(out[src]) \in Nat
         /\ src \in Sources(q) => Into(src, q) # {}
<1>1. out[src] \in Seq(Transition) /\ DOMAIN out[src] = 1 .. Len(out[src]) /\ Len(out[src]) \in Nat
  BY LenProperties DEF TypeOK
<1>2. \A j \in DOMAIN out[src] : out[src][j] \in Transition
  BY <1>1, ElementOfSeq
<1> QED
  BY <1>1, <1>2 DEF Into, Sources

\* An output is decided by some path of every state that leads to q.
LEMMA DecidingFacts ==
  ASSUME TypeOK, NEW q, NEW src \in Sources(q), NEW d
  PROVE  Deciding(src, q, d) \subseteq Into(src, q) /\ Deciding(src, q, d) # {}
<1>1. src \in Source /\ Into(src, q) \in SUBSET Nat /\ Into(src, q) # {}
  BY IntoFacts DEF Sources, TypeOK
<1>2. PICK j \in Into(src, q) : \A i \in Into(src, q) : j <= i
  BY <1>1, LeastIndex
<1>3. Survives(src, q, j)
  <2>1. \A i \in Into(src, q) : ~(i < j)
    <3> SUFFICES ASSUME NEW i \in Into(src, q), i < j PROVE FALSE
      OBVIOUS
    <3>1. j <= i /\ i \in Nat /\ j \in Nat
      BY <1>1, <1>2
    <3> QED
      BY <3>1
  <2> QED
    BY <2>1 DEF Survives
<1> QED
  BY <1>2, <1>3 DEF Deciding

\* What makes a leg the one that the chain of an arm takes.
Takes(arm, s, j) ==
  /\ (\A i \in DOMAIN arm : i <= j) \/ Satisfies(s, arm[j].guard)
  /\ \A i \in DOMAIN arm : i < j => ~Satisfies(s, arm[i].guard)

\* The chain of an arm takes one of its legs.
LEMMA ArmLegIsALeg ==
  ASSUME NEW arm, NEW n \in Nat, DOMAIN arm \in SUBSET Nat, DOMAIN arm # {},
         \A j \in DOMAIN arm : j <= n, NEW s
  PROVE  ArmLeg(arm, s) \in DOMAIN arm /\ Takes(arm, s, ArmLeg(arm, s))
<1> DEFINE Last == {k \in Nat : \E j \in DOMAIN arm : k = n - j}
<1>1. Last \in SUBSET Nat /\ Last # {}
  <2>1. PICK j \in DOMAIN arm : j \in Nat /\ j <= n
    OBVIOUS
  <2>2. n - j \in Nat
    BY <2>1
  <2>3. n - j \in Last
    BY <2>1, <2>2
  <2> QED
    BY <2>3
<1>2. PICK k \in Last : \A i \in Last : k <= i
  BY <1>1, LeastIndex
<1>3. PICK last \in DOMAIN arm : k = n - last
  OBVIOUS
<1>4. \A i \in DOMAIN arm : i <= last
  <2> SUFFICES ASSUME NEW i \in DOMAIN arm PROVE i <= last
    OBVIOUS
  <2>1. i \in Nat /\ i <= n /\ last \in Nat /\ last <= n
    OBVIOUS
  <2>2. n - i \in Nat
    BY <2>1
  <2>3. n - i \in Last
    BY <2>2
  <2>4. n - last <= n - i
    BY <1>2, <1>3, <2>3
  <2> QED
    BY <2>1, <2>4
<1> DEFINE Open == {j \in DOMAIN arm :
                      (\A i \in DOMAIN arm : i <= j) \/ Satisfies(s, arm[j].guard)}
<1>5. Open \in SUBSET Nat /\ Open # {}
  BY <1>4
<1>6. PICK j \in Open : \A i \in Open : j <= i
  BY <1>5, LeastIndex
<1>7. \A i \in DOMAIN arm : i < j => ~Satisfies(s, arm[i].guard)
  <2> SUFFICES ASSUME NEW i \in DOMAIN arm, i < j, Satisfies(s, arm[i].guard) PROVE FALSE
    OBVIOUS
  <2>1. i \in Open /\ i \in Nat /\ j \in Nat
    BY <1>5
  <2>2. j <= i
    BY <1>6, <2>1
  <2> QED
    BY <2>1, <2>2
<1> QED
  BY <1>7 DEF ArmLeg, Takes

\* What a path leaves in an output, once cut to its width.
LEMMA DecodeType ==
  ASSUME TypeOK, NEW src \in Source, NEW j \in DOMAIN out[src], NEW d \in Decoded,
         NEW s \in Store
  PROVE  LET x == Truncate(d, out[src][j].decode[d][s])
         IN  x \in Wide /\ x < Modulus[d]
<1>1. out[src][j] \in Transition
  BY ElementOfSeq, LenProperties DEF TypeOK
<1>2. out[src][j].decode[d][s] \in Wide
  BY <1>1 DEF Transition, Value
<1>3. d \in Vars
  BY DEF TypeOK, Decoded
<1> QED
  BY <1>2, <1>3, TruncateType

\* The outputs of a state are in their widths.
LEMMA VectorType ==
  ASSUME TypeOK, SinglePreamble, NEW q \in States, NEW d \in Decoded
  PROVE  Vector(q)[d] \in Wide /\ Vector(q)[d] < Modulus[d]
<1> DEFINE reached == IF Sources(q) = {} THEN preamble.next ELSE q
           src     == CHOOSE u \in Sources(reached) : TRUE
           j       == CHOOSE i \in Deciding(src, reached, d) : TRUE
           s       == CHOOSE r \in Store : TRUE
<1>1. Entry \in DOMAIN out /\ 1 \in DOMAIN out[Entry]
  <2>1. Entry \in Source /\ out[Entry] \in Seq(Transition) /\ Len(out[Entry]) = 1
    BY DEF TypeOK, Source, SinglePreamble
  <2> QED
    BY <2>1, LenProperties DEF TypeOK
<1>2. Sources(reached) # {}
  BY <1>1 DEF Sources, preamble
<1>3. src \in Sources(reached)
  BY <1>2
<1>4. src \in Source
  BY <1>3 DEF Sources, TypeOK
<1>5. j \in Deciding(src, reached, d) /\ Deciding(src, reached, d) \subseteq Into(src, reached)
  BY <1>3, DecidingFacts
<1>6. j \in DOMAIN out[src]
  BY <1>5 DEF Into
<1>7. s \in Store
  BY SomeStore
<1>8. Vector(q)[d] = Truncate(d, out[src][j].decode[d][s])
  BY DEF Vector
<1> HIDE DEF reached, src, j, s
<1> QED
  BY <1>4, <1>6, <1>7, <1>8, DecodeType

\* The emitted comb shows every output in its width.
LEMMA EmitShownFits ==
  ASSUME TypeOK, SinglePreamble, arms' = Arms, codes' = Codes, UNCHANGED walkVars
  PROVE  ShownFits'
<1>1. States' = States /\ Decoded' = Decoded /\ encoding' = encoding /\ preamble' = preamble
  BY DEF States, WaitStates, Decoded, encoding, preamble, walkVars
<1> SUFFICES ASSUME NEW q \in States, NEW d \in Decoded, NEW s \in Store, NEW reset \in BOOLEAN
             PROVE  Shown(q, d, s, reset)' \in Wide /\ Shown(q, d, s, reset)' < Modulus[d]
  BY <1>1 DEF ShownFits
<1>2. CASE encoding = "output"
  <2>1. Shown(q, d, s, reset)' = Codes[q].shown[d]
    BY <1>1, <1>2 DEF Shown
  <2>2. Codes[q].shown = Vector(q)
    BY <1>2 DEF Codes, OutputCodes
  <2> QED
    BY <2>1, <2>2, VectorType
<1>3. CASE encoding # "output" /\ (reset \/ q \notin DOMAIN Arms)
  <2>1. Shown(q, d, s, reset)' = Truncate(d, out[Entry][1].decode[d][s])
    BY <1>1, <1>3 DEF Shown, preamble
  <2>2. Entry \in Source /\ 1 \in DOMAIN out[Entry]
    <3>1. Entry \in Source /\ out[Entry] \in Seq(Transition) /\ Len(out[Entry]) = 1
      BY DEF TypeOK, Source, SinglePreamble
    <3> QED
      BY <3>1, LenProperties
  <2> QED
    BY <2>1, <2>2, DecodeType
<1>4. CASE encoding # "output" /\ ~reset /\ q \in DOMAIN Arms
  <2> DEFINE src == CHOOSE u \in Sources(q) : TRUE
             arm == Arm(src, q, d)
  <2>1. Sources(q) # {} /\ Arms[q][d] = arm
    BY <1>4 DEF Arms
  <2>2. src \in Sources(q)
    BY <2>1
  <2>3. src \in Source
    BY <2>2 DEF Sources, TypeOK
  <2>4. Shown(q, d, s, reset)' = Truncate(d, arm[ArmLeg(arm, s)].value[s])
    BY <1>1, <1>4, <2>1 DEF Shown
  <2>5. DOMAIN arm = Deciding(src, q, d) /\ \A j \in DOMAIN arm : arm[j].value = out[src][j].decode[d]
    BY DEF Arm
  <2> HIDE DEF arm, src
  <2>6. /\ DOMAIN arm \in SUBSET Nat /\ DOMAIN arm # {} /\ DOMAIN arm \subseteq Into(src, q)
        /\ \A j \in DOMAIN arm : j <= Len(out[src])
        /\ Len(out[src]) \in Nat
    BY <2>2, <2>3, <2>5, DecidingFacts, IntoFacts
  <2>7. ArmLeg(arm, s) \in DOMAIN arm
    BY <2>6, ArmLegIsALeg
  <2>8. ArmLeg(arm, s) \in DOMAIN out[src]
    BY <2>6, <2>7 DEF Into
  <2> QED
    BY <2>3, <2>4, <2>5, <2>7, <2>8, DecodeType
<1> QED
  BY <1>2, <1>3, <1>4

\* The machine keeps showing what it does.
LEMMA SameShownFits ==
  ASSUME ShownFits, UNCHANGED <<walkVars, arms, codes>>
  PROVE  ShownFits'
<1>1. States' = States /\ Decoded' = Decoded /\ encoding' = encoding /\ preamble' = preamble
  BY DEF States, WaitStates, Decoded, encoding, preamble, walkVars
<1>2. \A q, d, s, reset : Shown(q, d, s, reset)' = Shown(q, d, s, reset)
  BY <1>1 DEF Shown
<1> QED
  BY <1>1, <1>2 DEF ShownFits

\* The states the machine can be in are states with a code.
LEMMA CompiledIsAState ==
  ASSUME TypeOK, NEW q, q \in walked \/ (q = Hold /\ holdNeeded)
  PROVE  q \in States
<1>1. Waits \subseteq WaitStates
  <2>1. Entry \notin Waits
    BY ProgramAssumption DEF Waits
  <2> QED
    BY <2>1 DEF TypeOK, WaitStates, Source
<1> QED
  BY <1>1 DEF TypeOK, States

\* The registers and the outputs, once settled, are a store.
LEMMA SettledType ==
  ASSUME TypeOK, ShownFits, NEW q \in States, NEW s \in Store, NEW reset \in BOOLEAN
  PROVE  Settled(q, s, reset) \in Store
<1>1. ASSUME NEW v \in Vars
      PROVE  Settled(q, s, reset)[v] \in Wide /\ Settled(q, s, reset)[v] < Modulus[v]
  <2>1. CASE v \in Decoded
    BY <2>1 DEF Settled, ShownFits
  <2>2. CASE v \notin Decoded
    BY <2>2 DEF Settled, Store, WideStore
  <2> QED
    BY <2>1, <2>2
<1>2. Settled(q, s, reset) = [v \in Vars |-> Settled(q, s, reset)[v]]
  BY DEF Settled
<1> QED
  BY <1>1, <1>2 DEF Store, WideStore

\* What the comb shows while the reset is up does not tell the state.
LEMMA UpInAnyState ==
  ASSUME encoding # "output", NEW p, NEW q, NEW s
  PROVE  Settled(p, s, TRUE) = Settled(q, s, TRUE)
BY DEF Settled, Shown

\* What an edge under reset reads is a store the registers can hold, before the
\* first reset too.
LEMMA UnderResetType ==
  ASSUME MachineTypeOK, SinglePreamble, Closed, ShownFits, NEW x \in Stimulus, NEW s \in UnderReset(x)
  PROVE  s \in Store
<1>1. Sampled(x) \in Store
  BY SampledType DEF MachineTypeOK
<1>2. CASE s # Sampled(x)
  <2>1. encoding # "output" /\ s = Settled(preamble.next, Sampled(x), TRUE)
    BY <1>2, UpInAnyState DEF UnderReset
  <2>2. preamble.next \in States
    <3>1. Entry \in Source /\ 1 \in DOMAIN out[Entry] /\ Entry \in DOMAIN out
      BY LenProperties DEF MachineTypeOK, TypeOK, SinglePreamble, Source
    <3>2. preamble.next \in walked \/ (preamble.next = Hold /\ holdNeeded)
      BY <3>1 DEF Closed, preamble
    <3> QED
      BY <3>2, CompiledIsAState DEF MachineTypeOK
  <2> QED
    BY <1>1, <2>1, <2>2, SettledType DEF MachineTypeOK
<1> QED
  BY <1>1, <1>2

-----------------------------------------------------------------------------
(* The invariant *)

\* The invariant holds before anything is compiled.
LEMMA MachineInitInv == MachineInit => MachineTypeOK /\ MachineInv
<1> SUFFICES ASSUME MachineInit PROVE MachineTypeOK /\ MachineInv
  OBVIOUS
<1>1. TypeOK /\ Coverage
  BY InitType, InitCovers DEF MachineInit
<1>2. store \in Store
  <2>1. ASSUME NEW v \in Vars PROVE 0 \in Wide /\ 0 < Modulus[v]
    BY ExprAssumption DEF Wide
  <2> QED
    BY <2>1 DEF MachineInit, Store, WideStore
<1>3. Closed
  BY DEF MachineInit, Init, Closed
<1> QED
  BY <1>1, <1>2, <1>3 DEF MachineInit, Init, MachineTypeOK, MachineInv

\* Every step of the walk keeps the invariant.
LEMMA CompileInv == MachineTypeOK /\ MachineInv /\ Compile => MachineTypeOK' /\ MachineInv'
<1> SUFFICES ASSUME MachineTypeOK, MachineInv, Compile PROVE MachineTypeOK' /\ MachineInv'
  OBVIOUS
<1>1. WalkNext /\ TypeOK /\ Coverage /\ Closed /\ phase = "compiling"
  BY DEF Compile, MachineTypeOK, MachineInv
<1>2. phase' = phase /\ state' = state /\ store' = store /\ state = Off
  BY <1>1 DEF Compile, machineVars, MachineInv
<1>3. TypeOK' /\ Coverage' /\ Closed'
  BY <1>1, WalkStepType, WalkStepCovers, WalkStepClosed
<1>4. status' = "done" => stack' = <<>>
  BY <1>1, WalkStepStatus
<1> QED
  BY <1>1, <1>2, <1>3, <1>4 DEF MachineTypeOK, MachineInv

\* Nothing of the cover changes once it is emitted or refused.
LEMMA SameWalk ==
  ASSUME TypeOK, Coverage, Closed, UNCHANGED walkVars
  PROVE  TypeOK' /\ Coverage' /\ Closed' /\ (SinglePreamble' <=> SinglePreamble)
<1>1. TypeOK' /\ Coverage'
  BY WalkStepType, WalkStepCovers
<1>2. Closed'
  BY SameClosed DEF walkVars
<1>3. out' = out
  BY DEF walkVars
<1> QED
  BY <1>1, <1>2, <1>3 DEF preamble, SinglePreamble

\* Emitting and refusing keep it.
LEMMA AnswerInv ==
  MachineTypeOK /\ MachineInv /\ (Emit \/ Refuse) => MachineTypeOK' /\ MachineInv'
<1> SUFFICES ASSUME MachineTypeOK, MachineInv, Emit \/ Refuse
             PROVE  MachineTypeOK' /\ MachineInv'
  OBVIOUS
<1>1. /\ UNCHANGED walkVars /\ state' = state /\ state = Off /\ phase = "compiling"
      /\ status \in {"done", "error"} /\ status' = status /\ stack' = stack
  BY DEF Emit, Refuse, MachineInv, walkVars
<1>2. TypeOK' /\ Coverage' /\ Closed' /\ (SinglePreamble' <=> SinglePreamble)
  BY <1>1, SameWalk DEF MachineTypeOK, MachineInv
<1>3. store' \in Store
  BY DEF Emit, Refuse, PowerUp, MachineTypeOK
<1>4. phase' \in {"emitted", "refused"}
  BY DEF Emit, Refuse
<1>5. phase' = "emitted" => status = "done" /\ SinglePreamble /\ ShownFits'
  <2> SUFFICES ASSUME phase' = "emitted"
               PROVE  status = "done" /\ SinglePreamble /\ ShownFits'
    OBVIOUS
  <2>1. status = "done" /\ SinglePreamble /\ arms' = Arms /\ codes' = Codes
    BY DEF Emit, Refuse, Accepted
  <2> QED
    BY <1>1, <2>1, EmitShownFits DEF MachineTypeOK
<1> QED
  BY <1>1, <1>2, <1>3, <1>4, <1>5 DEF MachineTypeOK, MachineInv

\* An edge that takes a transition of the cover lands on a compiled state.
LEMMA TransitionInv ==
  ASSUME MachineTypeOK, MachineInv, phase = "emitted",
         UNCHANGED <<walkVars, phase, arms, codes>>,
         NEW s \in Store, NEW src \in Source, NEW j \in DOMAIN out[src], NEW reset \in BOOLEAN,
         store' = Settled(out[src][j].next, Apply(out[src][j].action, s), reset),
         state' = out[src][j].next
  PROVE  MachineTypeOK' /\ MachineInv'
<1>1. TypeOK' /\ Coverage' /\ Closed' /\ (SinglePreamble' <=> SinglePreamble)
  BY SameWalk DEF MachineTypeOK, MachineInv
<1>2. /\ status' = status /\ stack' = stack /\ walked' = walked
      /\ holdNeeded' = holdNeeded /\ phase' = phase
  BY DEF walkVars
<1>3. out[src][j] \in Transition
  BY DEF MachineTypeOK, TypeOK
<1>4. Apply(out[src][j].action, s) \in Store
  BY <1>3, ApplyType DEF Transition
<1>5. state' \in walked \/ (state' = Hold /\ holdNeeded)
  BY DEF MachineInv, Closed, MachineTypeOK, TypeOK
<1>6. state' \in States
  BY <1>5, CompiledIsAState DEF MachineTypeOK
<1>7. store' \in Store
  BY <1>4, <1>6, SettledType DEF MachineTypeOK, MachineInv
<1>8. ShownFits'
  BY SameShownFits DEF MachineInv
<1>9. walked \subseteq NodeId
  BY DEF MachineTypeOK, TypeOK, Waits
<1> QED
  BY <1>1, <1>2, <1>5, <1>7, <1>8, <1>9 DEF MachineTypeOK, MachineInv

\* An edge under reset keeps it: the preamble is a path of the cover.
LEMMA ResetEdgeInv ==
  ASSUME MachineTypeOK, MachineInv, NEW x \in Stimulus, ResetEdge(x)
  PROVE  MachineTypeOK' /\ MachineInv'
<1>1. PICK s \in UnderReset(x) :
        store' = Settled(preamble.next, Apply(preamble.action, s), TRUE)
  BY DEF ResetEdge
<1>2. phase = "emitted" /\ UNCHANGED <<walkVars, phase, arms, codes>> /\ state' = preamble.next
  BY DEF ResetEdge
<1>3. s \in Store
  BY <1>2, UnderResetType DEF MachineInv
<1>4. Len(out[Entry]) = 1 /\ out[Entry] \in Seq(Transition) /\ Entry \in Source
  BY <1>2 DEF MachineInv, SinglePreamble, MachineTypeOK, TypeOK, Source
<1>5. 1 \in DOMAIN out[Entry]
  BY <1>4
<1> QED
  BY <1>1, <1>2, <1>3, <1>4, <1>5, TransitionInv DEF preamble

\* An edge out of reset keeps it.
LEMMA ClockEdgeInv ==
  ASSUME MachineTypeOK, MachineInv, NEW x \in Stimulus, ClockEdge(x)
  PROVE  MachineTypeOK' /\ MachineInv'
<1>1. phase = "emitted" /\ state # Off /\ UNCHANGED <<walkVars, phase, arms, codes>>
  BY DEF ClockEdge
<1>2. CASE store' = Settled(state, Sampled(x), FALSE) /\ state' = state
  <2>1. TypeOK' /\ Coverage' /\ Closed' /\ (SinglePreamble' <=> SinglePreamble)
    BY <1>1, SameWalk DEF MachineTypeOK, MachineInv
  <2>2. /\ status' = status /\ stack' = stack /\ walked' = walked
        /\ holdNeeded' = holdNeeded /\ phase' = phase
    BY <1>1 DEF walkVars
  <2>3. state \in States
    BY <1>1, CompiledIsAState DEF MachineTypeOK, MachineInv
  <2>4. store' \in Store
    BY <1>1, <1>2, <2>3, SampledType, SettledType DEF MachineTypeOK, MachineInv
  <2>5. ShownFits'
    BY <1>1, SameShownFits DEF MachineInv
  <2> QED
    BY <1>1, <1>2, <2>1, <2>2, <2>4, <2>5 DEF MachineTypeOK, MachineInv
<1>3. CASE /\ state # Hold /\ out[state] # <<>>
           /\ LET t == out[state][Taken(state, Sampled(x))]
              IN  store' = Settled(t.next, Apply(t.action, Sampled(x)), FALSE) /\ state' = t.next
  <2>1. state \in Source
    BY <1>1, <1>3 DEF MachineTypeOK, MachineInv, TypeOK, Source
  <2>2. Taken(state, Sampled(x)) \in DOMAIN out[state]
    BY <2>1, <1>3, TakenIsALeg DEF MachineTypeOK
  <2>3. Sampled(x) \in Store
    BY SampledType DEF MachineTypeOK
  <2> QED
    BY <1>1, <1>3, <2>1, <2>2, <2>3, TransitionInv
<1> QED
  BY <1>2, <1>3 DEF ClockEdge

\* Every step keeps the types and the invariant.
LEMMA MachineStepInv ==
  MachineTypeOK /\ MachineInv /\ [MachineNext]_vars => MachineTypeOK' /\ MachineInv'
<1>1. MachineTypeOK /\ MachineInv /\ UNCHANGED vars => MachineTypeOK' /\ MachineInv'
  <2> SUFFICES ASSUME MachineTypeOK, MachineInv, UNCHANGED vars
               PROVE  MachineTypeOK' /\ MachineInv'
    OBVIOUS
  <2>1. /\ UNCHANGED walkVars /\ phase' = phase /\ state' = state /\ store' = store
        /\ status' = status /\ stack' = stack /\ walked' = walked /\ holdNeeded' = holdNeeded
        /\ UNCHANGED <<walkVars, arms, codes>>
    BY DEF vars, walkVars, machineVars
  <2>2. TypeOK' /\ Coverage' /\ Closed' /\ (SinglePreamble' <=> SinglePreamble)
    BY <2>1, SameWalk DEF MachineTypeOK, MachineInv
  <2>3. phase = "emitted" => ShownFits'
    BY <2>1, SameShownFits DEF MachineInv
  <2> QED
    BY <2>1, <2>2, <2>3 DEF MachineTypeOK, MachineInv
<1> QED
  BY <1>1, CompileInv, AnswerInv, ResetEdgeInv, ClockEdgeInv DEF MachineNext

-----------------------------------------------------------------------------

\* The walk, the checks and the machine together keep the invariant: the paths
\* of every compiled state miss no store and lead to compiled states.
THEOREM MachineInvariant == MachineSpec => [](MachineTypeOK /\ MachineInv)
<1>1. MachineInit => MachineTypeOK /\ MachineInv
  BY MachineInitInv
<1>2. MachineTypeOK /\ MachineInv /\ [MachineNext]_vars => MachineTypeOK' /\ MachineInv'
  BY MachineStepInv
<1> QED
  BY <1>1, <1>2, PTL DEF MachineSpec

\* Whatever the process and the inputs, every register of the emitted machine
\* stays within its declared width and the machine is only ever answered with a
\* finished walk.
THEOREM MachineTypes == MachineSpec => []MachineTypeOK
BY MachineInvariant, PTL

\* Whatever the process, the inputs and the resets, no edge of the emitted
\* machine meets a store its arm has no leg for: the bare else that ends each
\* chain takes only the stores of its own guard, and the state register never
\* leaves the states that were compiled.
THEOREM EveryEdgeHasALeg == MachineSpec => []EdgeCovered
<1>1. MachineTypeOK /\ MachineInv => EdgeCovered
  <2> SUFFICES ASSUME MachineTypeOK, MachineInv, phase = "emitted",
                      state # Off, ~(state = Hold /\ holdNeeded)
               PROVE  /\ state \in walked
                      /\ \A x \in Stimulus : \E j \in DOMAIN out[state] :
                           Satisfies(Sampled(x), out[state][j].guard)
    BY DEF EdgeCovered
  <2>1. state \in walked /\ Coverage /\ stack = <<>>
    BY DEF MachineInv
  <2>2. ASSUME NEW x \in Stimulus
        PROVE  \E j \in DOMAIN out[state] : Satisfies(Sampled(x), out[state][j].guard)
    <3>1. Covered(state, Sampled(x))
      BY <2>1, SampledType DEF MachineTypeOK, Coverage
    <3>2. ~Offers(stack, state, Sampled(x))
      BY <2>1 DEF Offers
    <3> QED
      BY <3>1, <3>2 DEF Covered
  <2> QED
    BY <2>1, <2>2
<1> QED
  BY <1>1, MachineInvariant, PTL
=============================================================================
