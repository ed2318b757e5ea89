------------------------- MODULE ImperativeProcess -------------------------
(***************************************************************************)
(* What a marked `initial` process means: a thread that runs from one      *)
(* clock edge to the next in zero time, reads the store of the edge,       *)
(* assigns its nonblocking targets at the end of the step and its index    *)
(* variables, temporaries and outputs at once, in their declared width.    *)
(* Reset is the time 0 of the source: the thread starts over.              *)
(*                                                                         *)
(* This is the promise the machine is compared with.  It executes the      *)
(* process statement by statement; no path, no guard, no environment.      *)
(***************************************************************************)
EXTENDS FsmExpr, Sequences

CONSTANTS
  Names,    \* the processes considered
  Text,     \* the tree of each
  NoNode,   \* the null pointer
  Inputs,   \* the names the environment drives
  Temps,    \* the names that live within a step
  Lengths   \* the numbers of statements a step is followed for

VARIABLES
  name,   \* the process
  kont,   \* whether its thread runs, and the frames it has left to execute
  store   \* the registers and the inputs of the last edge

processVars == <<name, kont, store>>

Unstarted       == [is |-> "off", frames |-> <<>>]
Diverged        == [is |-> "diverged", frames |-> <<>>]
Waiting(frames) == [is |-> "waiting", frames |-> frames]

\* The nodes of its tree: the t of what follows.
tree == Text[name].node

-----------------------------------------------------------------------------
(* Frames: the statements left of a list, the loop whose body the list is, *)
(* the laps a repeat has left after this one                               *)

Listed(t, n) == IF n = NoNode THEN <<>> ELSE IF t[n].kind = "block" THEN t[n].kids ELSE <<n>>

\* With the statements of n to execute first.
Pushed(t, frames, n) ==
  IF n = NoNode THEN frames
  ELSE <<[todo |-> Listed(t, n), loop |-> NoNode, left |-> 0]>> \o frames

\* With a lap of loop n to execute first.
Looped(t, frames, n, left) ==
  <<[todo |-> Listed(t, t[n].kids[1]), loop |-> n, left |-> left]>> \o frames

\* Past the statement at hand.
Onward(frames) == <<[Head(frames) EXCEPT !.todo = Tail(@)]>> \o Tail(frames)

InnermostBody(frames) ==
  {i \in DOMAIN frames : frames[i].loop # NoNode /\ \A j \in 1 .. i - 1 : frames[j].loop = NoNode}

-----------------------------------------------------------------------------
(* One statement, or the end of a list *)

True(test, s) == (test.lhs[s] = test.rhs) <=> test.eq

\* The arm a case takes: its first match, else its default, else none.
ArmOf(d, s) ==
  LET matching == {k \in DOMAIN d.tests : k # d.dflt /\ True(d.tests[k], s)}
  IN  IF matching = {} THEN d.dflt
      ELSE CHOOSE k \in matching : \A j \in matching : k <= j

Assigned(s, v, e) == [s EXCEPT ![v] = Truncate(v, e[s])]

\* The nonblocking writes w, and that of value k to v, the last one.
Scheduled(w, v, k) == [u \in DOMAIN w \cup {v} |-> IF u = v THEN k ELSE w[u]]

\* At the head of loop n, the frames around it in c.
AtHead(t, c, n, left) ==
  LET d == t[n]
      again == CASE d.kind \in {"while", "for"} -> True(d.tests[1], c.store)
                 [] d.kind = "forever" -> TRUE
                 [] d.kind = "repeat"  -> left > 0
  IN  IF again
      THEN [c EXCEPT !.frames = Looped(t, @, n, IF left > 0 THEN left - 1 ELSE 0)]
      ELSE c

\* The end of a lap, by the last statement or by a continue.
LapDone(t, c, f) ==
  LET d == t[f.loop]
  IN  AtHead(t, IF d.kind = "for" THEN [c EXCEPT !.store = Assigned(@, d.var, d.step)] ELSE c,
             f.loop, f.left)

Statement(t, n, c) ==
  LET d    == t[n]
      next == [c EXCEPT !.frames = Onward(@)]
  IN
  CASE d.kind = "block" -> [next EXCEPT !.frames = Pushed(t, @, n)]
    [] d.kind = "nba" ->
         [next EXCEPT !.writes = Scheduled(@, d.var, Truncate(d.var, d.val[c.store]))]
    [] d.kind \in {"induced", "temp", "decoded"} ->
         [next EXCEPT !.store = Assigned(@, d.var, d.val)]
    [] d.kind = "if" ->
         [next EXCEPT !.frames = Pushed(t, @, d.kids[IF True(d.tests[1], c.store) THEN 1 ELSE 2])]
    [] d.kind \in {"case", "reverse"} ->
         IF ArmOf(d, c.store) = 0 THEN next
         ELSE [next EXCEPT !.frames = Pushed(t, @, d.kids[ArmOf(d, c.store)])]
    [] d.kind \in {"while", "forever"} -> AtHead(t, next, n, 0)
    [] d.kind = "for" -> AtHead(t, [next EXCEPT !.store = Assigned(@, d.var, d.val)], n, 0)
    [] d.kind = "repeat" -> AtHead(t, next, n, d.val[c.store])
    [] d.kind \in {"break", "continue"} ->
         IF InnermostBody(c.frames) = {} THEN c
         ELSE LET i     == CHOOSE i \in InnermostBody(c.frames) : TRUE
                  outer == [c EXCEPT !.frames = SubSeq(@, i + 1, Len(@))]
              IN  IF d.kind = "break" THEN outer ELSE LapDone(t, outer, c.frames[i])

\* A configuration: the frames left, the store, the nonblocking writes.
Executed(t, c) ==
  LET f == Head(c.frames) IN
  IF f.todo # <<>> THEN Statement(t, Head(f.todo), c)
  ELSE IF f.loop = NoNode THEN [c EXCEPT !.frames = Tail(@)]
  ELSE LapDone(t, [c EXCEPT !.frames = Tail(@)], f)

-----------------------------------------------------------------------------
(* A step: from an edge to the next wait *)

AtStatement(t, c, kinds) ==
  /\ c.frames # <<>> /\ Head(c.frames).todo # <<>>
  /\ t[Head(Head(c.frames).todo)].kind \in kinds

Halted(t, c) == c.frames = <<>> \/ AtStatement(t, c, {"wait"})

Advance(t, c) == IF Halted(t, c) THEN c ELSE Executed(t, c)

\* The thread after each number of statements.
Execution(t, frames, s) ==
  LET run[n \in Nat] ==
        IF n = 0 THEN [frames |-> frames, store |-> s, writes |-> <<>>]
        ELSE Advance(t, run[n - 1])
  IN  run

\* What is left once the wait is over: the statement attached to it first.
Resumed(t, c) ==
  IF c.frames = <<>> THEN <<>>
  ELSE Pushed(t, Onward(c.frames), t[Head(Head(c.frames).todo)].kids[1])

Committed(c) ==
  [v \in Vars |-> IF v \in Temps THEN 0
                  ELSE IF v \in DOMAIN c.writes THEN c.writes[v] ELSE c.store[v]]

Resume(frames, s) ==
  LET reached == {Execution(tree, frames, s)[n] : n \in Lengths} IN
  \/ \E c \in reached :
       /\ Halted(tree, c)
       /\ kont' = Waiting(Resumed(tree, c)) /\ store' = Committed(c)
  \/ /\ \A c \in reached : ~Halted(tree, c)
     /\ kont' = Diverged /\ store' = store

-----------------------------------------------------------------------------

\* What the environment drives at an edge.
Stimulus == {x \in [Inputs -> Wide] : \A v \in Inputs : x[v] < Modulus[v]}

Sampled(x) == [v \in Vars |-> IF v \in Inputs THEN x[v] ELSE store[v]]

PowerUp == {s \in Store : \A v \in Inputs \cup Temps : s[v] = 0}

TopFrames == Pushed(tree, <<>>, Text[name].root)

Init == name \in Names /\ kont = Unstarted /\ store \in PowerUp

\* Until the first reset the registers hold anything.
PowerOn == kont = Unstarted /\ store' \in PowerUp /\ UNCHANGED <<name, kont>>

\* The outputs: what the process assigns at once for others to read.
Outputs == {tree[n].var : n \in {m \in DOMAIN tree : tree[m].kind = "decoded"}}

\* A reset finds the registers as they are.  The outputs have no value yet: the
\* preamble reads anything in one that it has not assigned.
Begun(x) ==
  {[v \in Vars |-> IF v \in Outputs THEN unset[v] ELSE Sampled(x)[v]] :
     unset \in {o \in [Outputs -> Wide] : \A v \in Outputs : o[v] < Modulus[v]}}

Reset(x) == (\E s \in Begun(x) : Resume(TopFrames, s)) /\ UNCHANGED name

\* `@(posedge clk iff en)`: an edge without the enable is no edge.
Edge(x) ==
  /\ kont.is = "waiting"
  /\ IF \A test \in Text[name].enable : True(test, Sampled(x))
     THEN Resume(kont.frames, Sampled(x))
     ELSE kont' = kont /\ store' = Sampled(x)
  /\ UNCHANGED name

Next == PowerOn \/ \E x \in Stimulus : Reset(x) \/ Edge(x)

Spec == Init /\ [][Next]_processVars

-----------------------------------------------------------------------------
(* Assignments that lose bits *)

\* The register, index or output assigned next does not hold the value.
Loses(t, c) ==
  /\ AtStatement(t, c, {"induced", "decoded"})
  /\ LET d == t[Head(Head(c.frames).todo)] IN d.val[c.store] >= Modulus[d.var]

Lossless(t, frames, s) == \A n \in Nat : ~Loses(t, Execution(t, frames, s)[n])

\* The next edge, or a reset, executes none.
KeepsBits ==
  \A x \in Stimulus :
    /\ \A s \in Begun(x) : Lossless(tree, TopFrames, s)
    /\ kont.is = "waiting" => Lossless(tree, kont.frames, Sampled(x))
=============================================================================
