------------------------------ MODULE FsmWalk ------------------------------
(***************************************************************************)
(* The path cover of a marked `initial` process, as                        *)
(* ImplicitFsmElaboration::walk_paths and loop_fork enumerate it: from the *)
(* top of the process and from every wait, walk the statements up to the   *)
(* next wait, forking at the branches and at the loop heads, and record    *)
(* one guarded transition per path.                                        *)
(*                                                                         *)
(* The tree is a table of nodes; a node identity is a C++ pointer.  Every  *)
(* recursive call of the code is in tail position of its leg, so the       *)
(* recursion is the stack of the legs still to be walked: the top is being *)
(* walked, the rest wait for it in the order the code calls them.  A case  *)
(* loops over its arms with a recursive call in each: it is the leg `cs`   *)
(* with the index of the next arm.                                         *)
(***************************************************************************)
EXTENDS FsmExpr, Sequences

CONSTANTS
  Names,    \* the processes considered
  Program,  \* the tree of each: its nodes, root, decoded outputs, encoding
  NodeId,   \* node identities
  NoNode,   \* the null pointer
  Entry,    \* k_entry: the leg starts at the top of the process
  Hold,     \* states.size(): the state a one-shot parks in
  Temps     \* the temporaries the processes declare

Encodings == {"binary", "gray", "one_hot", "output"}

Kinds == {"block", "nba", "induced", "temp", "decoded", "if", "case", "reverse",
          "while", "forever", "break", "continue", "wait"}

NodeRef == NodeId \cup {NoNode}

(***************************************************************************)
(* kids: the statements of a block, the arms of an if or a case, the body  *)
(*   of a loop, the statement attached to a wait.                          *)
(* tests: the condition of an if or a while, the match of each arm of a    *)
(*   case.  dflt: which arm of a case is the default, 0 for none.          *)
(* A "reverse" case compares a constant with labels that read names.       *)
(* var, val: the target and the right-hand side of an assignment; that of  *)
(*   a "decoded" is a module-level output the process blocking-assigns.    *)
(* decls: the temporaries a block declares.                                *)
(* A branch whose arms hold neither a wait nor a jump is no fork: it is an *)
(* "nba" whose value is the conditional one.                               *)
(***************************************************************************)
Node == [kind : Kinds, kids : Seq(NodeRef), tests : Seq(Test), dflt : Nat,
         var : Vars, val : Expr, decls : SUBSET Vars]

ASSUME ProgramAssumption ==
  /\ NoNode \notin NodeId /\ Entry \notin NodeId /\ Hold \notin NodeId
  /\ Temps \subseteq Vars
  /\ \A p \in Names :
       /\ Program[p].root \in NodeId /\ DOMAIN Program[p].node = NodeId
       /\ Program[p].outputs \subseteq Vars \ Temps
       /\ Program[p].encoding \in Encodings
       /\ \A n \in NodeId :
            LET d == Program[p].node[n] IN
            /\ d \in Node
            /\ d.kind = "block" => d.kids \in Seq(NodeId)
            /\ d.kind \in {"if", "while"} => Len(d.tests) >= 1
            /\ d.kind = "if" => Len(d.kids) = 2 /\ d.dflt = 0
            /\ d.kind \in {"while", "forever", "wait"} => Len(d.kids) = 1
            /\ d.kind \in {"case", "reverse"} =>
                 Len(d.tests) = Len(d.kids) /\ d.dflt \in 0 .. Len(d.kids)

VARIABLES
  name,        \* the process being compiled
  proc,        \* m_proc: the outputs it decodes, the encoding it asks for
  stack,       \* the legs still to be walked, the current one first
  out,         \* states[w].out of each wait, and the entry paths
  walked,      \* the waits whose continuation was walked
  holdNeeded,  \* m_proc.hold_needed
  status       \* "walking", "done", or "error" once a call returned 1

walkVars == <<name, proc, stack, out, walked, holdNeeded, status>>

nodes == Program[name].node

\* The outputs the process gives a value to in each segment.
Decoded == proc.decoded

-----------------------------------------------------------------------------
(* Frames, legs and transitions *)

LoopNode == {n \in NodeId : nodes[n].kind \in {"while", "forever"}}
CaseNode == {n \in NodeId : nodes[n].kind \in {"case", "reverse"}}

Frame == [todo : Seq(NodeId), loop : LoopNode \cup {NoNode}, decls : SUBSET Vars]

\* A nonblocking assignment of an action: the statement, what it assigns and
\* whether a pass induced it.  An action is the set of its commits: a path
\* with two to one register is refused, so their order means nothing.
Commit == [at : NodeId, var : Vars, val : Value, induced : BOOLEAN]

Waits  == {n \in NodeId : nodes[n].kind = "wait"}
Source == Waits \cup {Entry}

Leg == [from : Source, guard : SUBSET Literal, action : SUBSET Commit,
        frames : Seq(Frame), env : Env, lapped : SUBSET NodeId,
        cs : CaseNode \cup {NoNode}, arm : Nat]

\* decode: what the path leaves in each decoded output.
Transition == [guard : SUBSET Literal, action : SUBSET Commit,
               next : Waits \cup {Hold}, decode : [Decoded -> Value]]

PushFrame(frames, n, loop) ==
  IF n = NoNode THEN frames
  ELSE LET d == nodes[n] IN
       <<[todo  |-> IF d.kind = "block" THEN d.kids ELSE <<n>>,
          loop  |-> loop,
          decls |-> IF d.kind = "block" THEN d.decls ELSE {}]>> \o frames

StartLeg(from, frames) ==
  [from |-> from, guard |-> {}, action |-> {}, frames |-> frames,
   env |-> NoEnv, lapped |-> {}, cs |-> NoNode, arm |-> 0]

top   == Head(stack)
frame == Head(top.frames)
stmt  == Head(frame.todo)

Walking   == status = "walking" /\ stack # <<>>
InLeg     == Walking /\ top.cs = NoNode
InFrame   == InLeg /\ top.frames # <<>>
At(kinds) == InFrame /\ frame.todo # <<>> /\ nodes[stmt].kind \in kinds

\* The current leg past its statement: `++top.it`.
Advanced ==
  [top EXCEPT !.frames = <<[frame EXCEPT !.todo = Tail(@)]>> \o Tail(@)]

\* The walk goes on with these legs in place of the current one.
Replace(legs) == stack' = legs \o Tail(stack)

\* A leg under the further conjuncts extra, unless they make it empty.
Live(leg, extra) ==
  IF Contradicts(leg.guard, extra) THEN <<>>
  ELSE <<[leg EXCEPT !.guard = @ \cup extra]>>

\* What the segment gave the decoded outputs, at its end.
Snapshot(leg) == [v \in Decoded |-> [s \in Store |-> leg.env[s][v]]]

\* A path that leaves an output to its previous value, by assigning nothing or
\* by assigning a value that reads it: the source would hold it, and a comb
\* over the state register cannot.
LeavesOutput(leg) == \E v \in Decoded : DependsOn(Snapshot(leg)[v], v)

Record(next) ==
  /\ out' = [out EXCEPT ![top.from] =
               Append(@, [guard |-> top.guard, action |-> top.action, next |-> next,
                          decode |-> Snapshot(top)])]
  /\ holdNeeded' = (holdNeeded \/ next = Hold)

Fail == status' = "error" /\ UNCHANGED <<name, proc, stack, out, walked, holdNeeded>>

\* A temporary the environment does not bind: it is read before the segment
\* assigns it, or outside the scope that declares it (check_temp_reads).
ReadsDead(x) == \E t \in Temps : DependsOn(x, t)

\* What the current statement reads, through the environment: the labels of a
\* case are not looked at, only what they are compared with.
Substituted ==
  LET d == nodes[stmt] IN
  IF d.kind \in {"nba", "induced", "temp", "decoded"} THEN {SubstExpr(d.val, top.env)}
  ELSE IF d.kind = "reverse" THEN {}
  ELSE {SubstExpr(d.tests[k].lhs, top.env) : k \in DOMAIN d.tests \ {d.dflt}}

ReadsDeadTemp == \E x \in Substituted : ReadsDead(x)

-----------------------------------------------------------------------------
(* Loops: loop_fork *)

LoopTest(leg, loop) == SubstTest(nodes[loop].tests[1], leg.env)

\* What the head of the loop decides: the test is folded when the
\* environment leaves it a constant, and a forever has none.
Perpetual(leg, loop) ==
  nodes[loop].kind = "forever" \/ IsConstant(LoopTest(leg, loop), TRUE)

NeverRuns(leg, loop) ==
  nodes[loop].kind = "while" /\ IsConstant(LoopTest(leg, loop), FALSE)

Entered(leg, loop) ==
  [leg EXCEPT !.frames = PushFrame(@, nodes[loop].kids[1], loop),
              !.lapped = @ \cup {loop}]

\* The body's leg, then the leg that continues past the loop with the
\* frames around it.
LoopLegs(leg, loop) ==
  IF Perpetual(leg, loop) THEN <<Entered(leg, loop)>>
  ELSE IF NeverRuns(leg, loop) THEN <<leg>>
  ELSE Live(Entered(leg, loop), {LoopTest(leg, loop)})
       \o Live(leg, {Negated(LoopTest(leg, loop))})

EntersBody(leg, loop) ==
  \/ Perpetual(leg, loop)
  \/ /\ ~NeverRuns(leg, loop)
     /\ ~Contradicts(leg.guard, {LoopTest(leg, loop)})

\* The head reads a temporary that is dead by the time of the back-edge.
ReadsDeadTest(leg, loop) ==
  /\ ~Perpetual(leg, loop) /\ ~NeverRuns(leg, loop)
  /\ ReadsDead(LoopTest(leg, loop).lhs)

\* Mutant: a lap is never taken for a zero-delay one.
LoopForkUnbounded(leg, loop) ==
  IF ReadsDeadTest(leg, loop)
  THEN Fail
  ELSE /\ Replace(LoopLegs(leg, loop))
       /\ UNCHANGED <<name, proc, out, walked, holdNeeded, status>>

\* A body entered twice without a cut point between is a zero-delay lap.
LoopFork(leg, loop) ==
  IF ReadsDeadTest(leg, loop) \/ (loop \in leg.lapped /\ EntersBody(leg, loop))
  THEN Fail
  ELSE /\ Replace(LoopLegs(leg, loop))
       /\ UNCHANGED <<name, proc, out, walked, holdNeeded, status>>

-----------------------------------------------------------------------------
(* The walk of one leg: one action per case of the switch *)

Init ==
  /\ name \in Names
  /\ proc = [decoded |-> Program[name].outputs, encoding |-> Program[name].encoding]
  /\ stack = <<StartLeg(Entry, PushFrame(<<>>, Program[name].root, NoNode))>>
  /\ out = [s \in Source |-> <<>>]
  /\ walked = {}
  /\ holdNeeded = FALSE
  /\ status = "walking"

\* The end of a frame that is no loop body: its temporaries die.
EndOfFrame ==
  /\ InFrame /\ frame.todo = <<>> /\ frame.loop = NoNode
  /\ Replace(<<[top EXCEPT !.env = Forget(@, frame.decls), !.frames = Tail(@)]>>)
  /\ UNCHANGED <<name, proc, out, walked, holdNeeded, status>>

\* The end of a loop's body is its back-edge.
BackEdge ==
  /\ InFrame /\ frame.todo = <<>> /\ frame.loop # NoNode
  /\ LoopFork([top EXCEPT !.env = Forget(@, frame.decls), !.frames = Tail(@)], frame.loop)

\* The process ends: a one-shot parks in the hold state.
EndOfProcess ==
  /\ InLeg /\ top.frames = <<>> /\ ~LeavesOutput(top)
  /\ Record(Hold)
  /\ Replace(<<>>)
  /\ UNCHANGED <<name, proc, walked, status>>

EnterBlock ==
  /\ At({"block"})
  /\ Replace(<<[Advanced EXCEPT !.frames = PushFrame(@, stmt, NoNode)]>>)
  /\ UNCHANGED <<name, proc, out, walked, holdNeeded, status>>

\* A statement that reads a dead temporary is refused.
DeadTemporary ==
  /\ At({"nba", "induced", "temp", "decoded", "if", "case"})
  /\ ReadsDeadTemp
  /\ Fail

\* A user commit reads through the environment and supersedes an induced
\* commit to the same target.
Nonblocking ==
  /\ At({"nba"}) /\ ~ReadsDeadTemp
  /\ LET d == nodes[stmt] IN
     Replace(<<[Advanced EXCEPT !.action =
       {c \in @ : ~(c.induced /\ c.var = d.var)}
       \cup {[at |-> stmt, var |-> d.var, val |-> SubstExpr(d.val, top.env),
              induced |-> FALSE]}]>>)
  /\ UNCHANGED <<name, proc, out, walked, holdNeeded, status>>

\* A capture, a copy-out, a countdown or an index: it commits, in place of
\* an earlier induced commit (push_induced), and the segment's later readers
\* see the value at once, whatever the width of the target.
Induced ==
  /\ At({"induced"}) /\ ~ReadsDeadTemp
  /\ LET d == nodes[stmt]
         x == SubstExpr(d.val, top.env)
     IN  Replace(<<[Advanced EXCEPT
           !.action = {c \in @ : ~(c.induced /\ c.var = d.var)}
                      \cup {[at |-> stmt, var |-> d.var, val |-> x, induced |-> TRUE]},
           !.env = Bind(@, d.var, x)]>>)
  /\ UNCHANGED <<name, proc, out, walked, holdNeeded, status>>

\* Mutant: the width the declaration cuts the value to is forgotten.
BlockingWide ==
  /\ At({"temp"}) /\ ~ReadsDeadTemp
  /\ LET d == nodes[stmt] IN
     Replace(<<[Advanced EXCEPT !.env = Bind(@, d.var, SubstExpr(d.val, top.env))]>>)
  /\ UNCHANGED <<name, proc, out, walked, holdNeeded, status>>

\* A temporary: its value, in its declared width, dissolves into its readers.
Blocking ==
  /\ At({"temp"}) /\ ~ReadsDeadTemp
  /\ LET d == nodes[stmt] IN
     Replace(<<[Advanced EXCEPT
       !.env = Bind(@, d.var, TruncateValue(d.var, SubstExpr(d.val, top.env)))]>>)
  /\ UNCHANGED <<name, proc, out, walked, holdNeeded, status>>

\* A decoded output: its value in this segment, whole, for the later readers
\* and for the arm of the state the path arrives at.
DecodedOutput ==
  /\ At({"decoded"}) /\ ~ReadsDeadTemp
  /\ LET d == nodes[stmt] IN
     Replace(<<[Advanced EXCEPT !.env = Bind(@, d.var, SubstExpr(d.val, top.env))]>>)
  /\ UNCHANGED <<name, proc, out, walked, holdNeeded, status>>

\* Mutant: the condition of a fork is not checked for dead temporaries.
IfForkUnchecked ==
  /\ At({"if"})
  /\ LET d == nodes[stmt]
         c == SubstTest(d.tests[1], top.env)
         Arm(k) == [Advanced EXCEPT !.frames = PushFrame(@, d.kids[k], NoNode)]
     IN  Replace(Live(Arm(1), {c}) \o Live(Arm(2), {Negated(c)}))
  /\ UNCHANGED <<name, proc, out, walked, holdNeeded, status>>

IfFork ==
  /\ At({"if"}) /\ ~ReadsDeadTemp
  /\ LET d == nodes[stmt]
         c == SubstTest(d.tests[1], top.env)
         Arm(k) == [Advanced EXCEPT !.frames = PushFrame(@, d.kids[k], NoNode)]
     IN  Replace(Live(Arm(1), {c}) \o Live(Arm(2), {Negated(c)}))
  /\ UNCHANGED <<name, proc, out, walked, holdNeeded, status>>

CaseBegin ==
  /\ At({"case", "reverse"}) /\ ~ReadsDeadTemp
  /\ Replace(<<[Advanced EXCEPT !.cs = stmt, !.arm = 1]>>)
  /\ UNCHANGED <<name, proc, out, walked, holdNeeded, status>>

\* What an arm is compared with is read through the environment, its label is
\* read as it stands.
Match(leg, k) ==
  SubstTest(nodes[leg.cs].tests[k],
            IF nodes[leg.cs].kind = "reverse" THEN NoEnv ELSE leg.env)

Labels(cs) == DOMAIN nodes[cs].tests \ {nodes[cs].dflt}

NoMatch(leg) == {Negated(Match(leg, k)) : k \in Labels(leg.cs)}

\* An arm is guarded by its own match alone (the first match wins by the
\* order of the legs), the default by the negation of every match.
ArmTest(leg, k) == IF k = nodes[leg.cs].dflt THEN NoMatch(leg) ELSE {Match(leg, k)}

OutOfCase(leg) == [leg EXCEPT !.cs = NoNode, !.arm = 0]

CaseArm ==
  /\ Walking /\ top.cs # NoNode /\ top.arm <= Len(nodes[top.cs].kids)
  /\ LET body == [OutOfCase(top) EXCEPT
                    !.frames = PushFrame(@, nodes[top.cs].kids[top.arm], NoNode)]
     IN  Replace(Live(body, ArmTest(top, top.arm)) \o <<[top EXCEPT !.arm = @ + 1]>>)
  /\ UNCHANGED <<name, proc, out, walked, holdNeeded, status>>

\* Mutant: a case without a default has no fall-through.
CaseEndClosed ==
  /\ Walking /\ top.cs # NoNode /\ top.arm > Len(nodes[top.cs].kids)
  /\ Replace(<<>>)
  /\ UNCHANGED <<name, proc, out, walked, holdNeeded, status>>

\* Past the last arm: the fall-through of a case without a default.
CaseEnd ==
  /\ Walking /\ top.cs # NoNode /\ top.arm > Len(nodes[top.cs].kids)
  /\ Replace(IF nodes[top.cs].dflt = 0 THEN Live(OutOfCase(top), NoMatch(top)) ELSE <<>>)
  /\ UNCHANGED <<name, proc, out, walked, holdNeeded, status>>

EnterLoop ==
  /\ At({"while", "forever"})
  /\ LoopFork(Advanced, stmt)

\* The depth of the frame of the innermost loop body, the current one first.
InnermostLoop(frames) ==
  {i \in DOMAIN frames :
     frames[i].loop # NoNode /\ \A j \in 1 .. i - 1 : frames[j].loop = NoNode}

Jump ==
  /\ At({"break", "continue"})
  /\ IF InnermostLoop(top.frames) = {} THEN Fail
     ELSE \E i \in InnermostLoop(top.frames) :
            LET unwound == [Advanced EXCEPT
                              !.frames = SubSeq(top.frames, i + 1, Len(top.frames))]
            IN  IF nodes[stmt].kind = "continue"
                THEN LoopFork(unwound, top.frames[i].loop)
                ELSE /\ Replace(<<unwound>>)
                     /\ UNCHANGED <<name, proc, out, walked, holdNeeded, status>>

\* A wait ends the path; its own paths are walked on the first arrival only.
Arrive ==
  /\ At({"wait"}) /\ ~LeavesOutput(top)
  /\ Record(stmt)
  /\ walked' = walked \cup {stmt}
  /\ Replace(IF stmt \in walked THEN <<>>
             ELSE <<StartLeg(stmt, PushFrame(Advanced.frames, nodes[stmt].kids[1], NoNode))>>)
  /\ UNCHANGED <<name, proc, status>>

\* A path that ends without a value for an output is refused.
OutputLeft ==
  /\ At({"wait"}) \/ (InLeg /\ top.frames = <<>>)
  /\ LeavesOutput(top)
  /\ Fail

Finish ==
  /\ status = "walking" /\ stack = <<>>
  /\ status' = "done"
  /\ UNCHANGED <<name, proc, stack, out, walked, holdNeeded>>

WalkNext ==
  \/ EndOfFrame \/ BackEdge \/ EndOfProcess
  \/ EnterBlock \/ DeadTemporary \/ Nonblocking \/ Induced \/ Blocking
  \/ DecodedOutput \/ OutputLeft
  \/ IfFork \/ CaseBegin \/ CaseArm \/ CaseEnd
  \/ EnterLoop \/ Jump \/ Arrive \/ Finish

WalkSpec == Init /\ [][WalkNext]_walkVars /\ WF_walkVars(WalkNext)

-----------------------------------------------------------------------------
(* What the walk keeps *)

\* A leg within a case is at one of its arms, or past the last.
PathLeg ==
  {leg \in Leg : leg.cs # NoNode => leg.arm \in 1 .. Len(nodes[leg.cs].kids) + 1}

\* Every leg is a path of the tree: its statements are nodes of it, the frames
\* a jump unwinds to are loops, and what it substitutes is in width.
TypeOK ==
  /\ name \in Names
  /\ proc \in [decoded : SUBSET (Vars \ Temps), encoding : Encodings]
  /\ stack \in Seq(PathLeg)
  /\ out \in [Source -> Seq(Transition)]
  /\ walked \subseteq Waits
  /\ holdNeeded \in BOOLEAN
  /\ status \in {"walking", "done", "error"}

\* Whether a leg still has a path for store s.  A leg within a case has those
\* of the arms it has not walked.
Claims(leg, s) ==
  /\ Satisfies(s, leg.guard)
  /\ leg.cs # NoNode =>
       \/ \E k \in Labels(leg.cs) : k >= leg.arm /\ Holds(Match(leg, k), s)
       \/ /\ \A k \in Labels(leg.cs) : ~Holds(Match(leg, k), s)
          /\ nodes[leg.cs].dflt = 0 \/ nodes[leg.cs].dflt >= leg.arm

Offers(legs, src, s) == \E i \in DOMAIN legs : legs[i].from = src /\ Claims(legs[i], s)

Covered(src, s) ==
  \/ \E j \in DOMAIN out[src] : Satisfies(s, out[src][j].guard)
  \/ Offers(stack, src, s)

\* No fork loses a store: from the entry and from every wait the walk has
\* begun, each store the registers can hold has a path, recorded or still on
\* the stack.  The emitted chain ends in a bare else, so a store without a
\* path would take the last one.
Coverage == \A src \in walked \cup {Entry} : \A s \in Store : Covered(src, s)

\* A temporary dissolves: what a path decides, commits and leaves in an output
\* never reads one, so no temporary needs a register and none is read in a
\* later step.
TempsDissolve ==
  \A src \in DOMAIN out : \A j \in DOMAIN out[src] :
    /\ \A l \in out[src][j].guard : ~ReadsDead(l.lhs)
    /\ \A c \in out[src][j].action : ~ReadsDead(c.val)
    /\ \A v \in Decoded : ~ReadsDead(out[src][j].decode[v])

\* A path ends at a wait whose own paths are walked too, or in the hold state
\* the machine then has.
Closed ==
  \A src \in DOMAIN out : \A j \in DOMAIN out[src] :
    LET next == out[src][j].next IN next \in walked \/ (next = Hold /\ holdNeeded)

\* Every case compares one expression with a constant in each of its arms.
ConstantLabels ==
  \A n \in NodeId : nodes[n].kind \in {"case", "reverse"} =>
    \A k, l \in Labels(n) : nodes[n].tests[k].eq /\ nodes[n].tests[k].lhs = nodes[n].tests[l].lhs
=============================================================================
