--------------------------- MODULE FsmRefinement ---------------------------
(***************************************************************************)
(* The emitted machine implements the process as it was written, before    *)
(* its bounded loops were lowered.  The state register stands for the      *)
(* continuation of the wait it is named for, which the position of the     *)
(* wait in the source tree fixes; the countdown registers stand for the    *)
(* laps the source's repeats have left.                                    *)
(***************************************************************************)
EXTENDS FsmMachine, FsmLoopLowering, TLC

CONSTANT
  Text      \* the source tree of each process; Program is Text lowered

\* A function with its values computed, once.
Computed(f) == f @@ <<>>

\* The node whose statement n is, if any.
Holder(tree, ids, n) == {p \in ids : \E i \in DOMAIN tree[p].kids : tree[p].kids[i] = n}

The(set) == CHOOSE e \in set : TRUE

\* The frames around each statement, which its position in the tree fixes:
\* what is left of the list that it is in, then the frames around the statement
\* the list is of.
AroundOf(tree, ids) ==
  LET around[n \in ids] ==
        LET inBlock  == \E p \in Holder(tree, ids, n) : tree[p].kind = "block"
            list     == IF inBlock THEN The(Holder(tree, ids, n)) ELSE n
            kids     == tree[list].kids
            todo     == IF ~inBlock THEN <<>>
                        ELSE SubSeq(kids, 1 + The({i \in DOMAIN kids : kids[i] = n}), Len(kids))
            of       == Holder(tree, ids, list)
            Above(p) == around[IF tree[p].kind = "block" THEN list ELSE p]
        IN  <<[todo |-> todo,
               loop |-> IF \E p \in of : tree[p].kind \in Loops THEN The(of) ELSE NoNode,
               left |-> 0]>>
            \o (IF of = {} THEN <<>> ELSE Above(The(of)))
  IN  Computed(around)

\* The frames around each statement of the lowered trees.
LoweredAround == Computed([p \in Names |-> AroundOf(Program[p].node, NodeId)])

WaitsOf(text) == {w \in SourceId : text.node[w].kind = "wait"}

\* What the source executes once each of its waits is over.
Continuation ==
  Computed([p \in Names |->
    LET t      == Text[p].node
        around == AroundOf(t, SourceId)
    IN  Computed([w \in WaitsOf(Text[p]) |-> Process!Pushed(t, around[w], t[w].kids[1])])])

\* The register that counts the laps a loop has left.
LapsLeft(n) ==
  IF n # NoNode /\ Counts(Text[name].node[n]) THEN store[CountdownOf(Text[name], n)] ELSE 0

SourceKont ==
  IF state \notin DOMAIN Continuation[name] THEN KontOf
  ELSE LET k == Continuation[name][state]
       IN  Process!Waiting([i \in DOMAIN k |-> [k[i] EXCEPT !.left = LapsLeft(k[i].loop)]])

\* The source has no countdowns.
SourceStore == [v \in Vars |-> IF v \in {Countdown[d] : d \in DOMAIN Countdown}
                               THEN 0 ELSE store[v]]

Source_ == INSTANCE ImperativeProcess WITH kont <- SourceKont, store <- SourceStore

\* Every step of the machine, at any edge, with any inputs and any reset, is
\* the step the process takes as it was written: the pass compiles exactly.
CompilesExactly == Source_!Spec
=============================================================================
