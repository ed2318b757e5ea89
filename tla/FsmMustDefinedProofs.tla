------------------------ MODULE FsmMustDefinedProofs ------------------------
(***************************************************************************)
(* Whatever the state graph: the must-defined check of FsmMustDefined is   *)
(* sound (an accepted machine reads nothing undefined), is exact (a refusal*)
(* has a path) and only ever shrinks its sets.                             *)
(***************************************************************************)
EXTENDS FsmMustDefined, TLAPS

\* What a graph is made of.
LEMMA GraphFacts ==
  ASSUME TypeOK
  PROVE  /\ graph.init \in SUBSET Reg /\ graph.entry \in State \cup {Hold}
         /\ \A n \in State : edges[n] \in Seq(Edge)
         /\ \A n \in State : \A j \in DOMAIN edges[n] : edges[n][j] \in Edge
         /\ Hold \notin State
<1>1. graph \in Graph /\ Hold \notin State
  BY GraphAssumption DEF TypeOK
<1>2. /\ graph.init \in SUBSET Reg /\ graph.entry \in State \cup {Hold}
      /\ \A n \in State : edges[n] \in Seq(Edge)
  BY <1>1 DEF Graph, edges
<1> QED
  BY <1>1, <1>2

\* What a transition is made of.
LEMMA EdgeFacts ==
  ASSUME NEW e \in Edge
  PROVE  /\ e.writes \in SUBSET Reg /\ e.targets \in SUBSET Reg /\ e.reads \in SUBSET Reg
         /\ e.next \in State \cup {Hold} /\ e.writes \subseteq e.targets
BY DEF Edge

\* The transition under the cursor is one of the graph's.
LEMMA AtEdgeFacts ==
  ASSUME TypeOK, AtEdge
  PROVE  /\ s \in State /\ s \in reached /\ edge \in Edge
         /\ edge.next \in State \cup {Hold} /\ edge.writes \in SUBSET Reg
         /\ definedIn[s] \in SUBSET Reg /\ definedOut \in SUBSET Reg
<1>1. s \in State /\ s \in reached /\ t \in DOMAIN edges[s]
  BY DEF AtEdge, TypeOK
<1>2. edge \in Edge
  BY <1>1, GraphFacts DEF edge
<1>3. definedIn[s] \in SUBSET Reg
  BY <1>1 DEF TypeOK
<1> QED
  BY <1>1, <1>2, <1>3, EdgeFacts DEF definedOut

-----------------------------------------------------------------------------

\* The seed of the sweep has its types.
LEMMA InitType == Init => TypeOK
<1> SUFFICES ASSUME Init PROVE TypeOK
  OBVIOUS
<1>1. graph \in Graph /\ NumStates \in Nat
  BY GraphAssumption DEF Init
<1>2. definedIn \in [State -> SUBSET Reg]
  BY <1>1 DEF Init, Graph
<1>3. s \in 1 .. NumStates + 1 /\ t \in Nat \ {0}
  BY <1>1 DEF Init
<1>4. reached \subseteq State /\ at \in State \cup {Hold} /\ assigned \subseteq Reg
  BY DEF Init
<1> QED
  BY <1>1, <1>2, <1>3, <1>4 DEF Init, TypeOK

\* A visit marks a state of the table or none.
LEMMA VisitEdgeType == TypeOK /\ VisitEdge => TypeOK'
<1> SUFFICES ASSUME TypeOK, VisitEdge PROVE TypeOK'
  OBVIOUS
<1>1. /\ s \in State /\ edge.next \in State \cup {Hold} /\ definedOut \in SUBSET Reg
      /\ definedIn \in [State -> SUBSET Reg] /\ reached \subseteq State
      /\ t \in Nat \ {0}
  BY AtEdgeFacts DEF VisitEdge, TypeOK
<1>2. definedIn' \in [State -> SUBSET Reg] /\ reached' \subseteq State /\ changed' \in BOOLEAN
  <2>1. CASE edge.next = Hold /\ UNCHANGED <<definedIn, reached, changed>>
    BY <1>1, <2>1 DEF TypeOK
  <2>2. CASE edge.next \in State \ reached /\ Discover
    BY <1>1, <2>2 DEF Discover
  <2>3. CASE edge.next \in reached /\ Meet
    BY <1>1, <2>3 DEF Meet, TypeOK
  <2> QED
    BY <2>1, <2>2, <2>3 DEF VisitEdge
<1>3. t' \in Nat \ {0}
  BY <1>1 DEF VisitEdge
<1> QED
  BY <1>2, <1>3 DEF VisitEdge, runningVars, TypeOK

\* Every step keeps the types.
LEMMA StepType == TypeOK /\ [Next]_vars => TypeOK'
<1> SUFFICES ASSUME TypeOK, [Next]_vars PROVE TypeOK'
  OBVIOUS
<1>1. CASE VisitEdge
  BY <1>1, VisitEdgeType
<1>2. CASE NextState
  <2>1. s' \in 1 .. NumStates + 1 /\ t' \in Nat \ {0}
    BY <1>2, GraphAssumption DEF NextState, State
  <2> QED
    BY <1>2, <2>1 DEF NextState, TypeOK, runningVars
<1>3. CASE SweepAgain
  <2>1. s' = 1 /\ t' = 1 /\ changed' \in BOOLEAN
    BY <1>3 DEF SweepAgain
  <2>2. s' \in 1 .. NumStates + 1 /\ t' \in Nat \ {0}
    BY <2>1, GraphAssumption
  <2> QED
    BY <1>3, <2>1, <2>2 DEF SweepAgain, TypeOK, runningVars
<1>4. CASE Verdict
  BY <1>4 DEF Verdict, TypeOK, sweepVars, runningVars
<1>5. CASE ResetEdge
  BY <1>5, GraphFacts DEF ResetEdge, TypeOK, sweepVars
<1>6. CASE ClockEdge
  <2>1. PICK j \in DOMAIN edges[at] : \E arm \in SUBSET edges[at][j].targets :
          at' = edges[at][j].next /\ assigned' = assigned \cup arm
    BY <1>6 DEF ClockEdge
  <2>2. edges[at][j] \in Edge
    BY <1>6, GraphFacts DEF ClockEdge
  <2>3. at' \in State \cup {Hold} /\ assigned' \subseteq Reg
    BY <2>1, <2>2, EdgeFacts DEF TypeOK
  <2> QED
    BY <1>6, <2>3 DEF ClockEdge, TypeOK, sweepVars
<1>7. CASE UNCHANGED vars
  BY <1>7 DEF vars, TypeOK, sweepVars, runningVars
<1> QED
  BY <1>1, <1>2, <1>3, <1>4, <1>5, <1>6, <1>7 DEF Next, Sweep

\* The sweep stays inside the table of the states and never marks the hold
\* state, which has no entry in it.
THEOREM SweepTypeOK == Spec => []TypeOK
<1>1. TypeOK /\ [Next]_vars => TypeOK'
  BY StepType
<1> QED
  BY InitType, <1>1, PTL DEF Spec

-----------------------------------------------------------------------------
(* What the sweep keeps *)

\* The paths of the graph are those of the next state.
LEMMA SameGraph ==
  ASSUME graph' = graph
  PROVE  /\ edges' = edges /\ ProcessRegs' = ProcessRegs
         /\ \A r : Undefined(r)' = Undefined(r)
BY DEF edges, ProcessRegs, Undefined

\* A path that assigns r on none of its transitions is continued by one that
\* does not assign it either.
LEMMA UndefinedStep ==
  ASSUME NEW r, NEW m \in Undefined(r), NEW j \in DOMAIN edges[m],
         r \notin edges[m][j].writes, edges[m][j].next \in State, Hold \notin State
  PROVE  edges[m][j].next \in Undefined(r)
BY DEF Undefined

\* The seed is what the preamble assigns, and every register it lacks is undefined there.
LEMMA InitInv == Init => SweepInv
<1> SUFFICES ASSUME Init PROVE SweepInv
  OBVIOUS
<1>1. graph \in Graph /\ Hold \notin State /\ NumStates \in Nat
  BY GraphAssumption DEF Init
<1>2. graph.entry \in State =>
        graph.entry \in reached /\ definedIn[graph.entry] \subseteq graph.init
  BY DEF Init
<1>3. ASSUME NEW n \in reached, NEW j \in DOMAIN edges[n], Visited(n, j)
      PROVE  FALSE
  <2>1. edges[n] \in Seq(Edge) /\ n \in Nat /\ n >= 1 /\ s = 1 /\ t = 1
    BY <1>1, <1>3 DEF Init, Graph, edges, State
  <2>2. j \in Nat /\ j >= 1
    BY <2>1
  <2> QED
    BY <2>1, <2>2, <1>3 DEF Visited
<1>4. ASSUME NEW n \in reached, NEW r \in Reg \ definedIn[n] PROVE n \in Undefined(r)
  BY <1>1, <1>4 DEF Init, Undefined
<1> QED
  BY <1>1, <1>2, <1>3, <1>4 DEF Init, SweepInv

\* A transition is closed for the rest of the sweep if nothing changes.
LEMMA VisitedNext ==
  ASSUME TypeOK, NEW n \in State, NEW j \in DOMAIN edges[n], s' = s, t' = t + 1, Visited(n, j)'
  PROVE  Visited(n, j) \/ (n = s /\ j = t)
<1>1. edges[n] \in Seq(Edge) /\ n \in Nat /\ s \in Nat /\ t \in Nat
  BY GraphFacts, GraphAssumption DEF TypeOK, State
<1>2. j \in Nat
  BY <1>1
<1> QED
  BY <1>1, <1>2 DEF Visited

\* The visit of a transition, whatever it finds at its end.
LEMMA VisitEdgeInv == TypeOK /\ SweepInv /\ VisitEdge => SweepInv'
<1> SUFFICES ASSUME TypeOK, SweepInv, VisitEdge PROVE SweepInv'
  OBVIOUS
<1>1. /\ s \in State /\ s \in reached /\ edge \in Edge /\ definedOut \in SUBSET Reg
      /\ edge.next \in State \cup {Hold} /\ definedIn \in [State -> SUBSET Reg]
      /\ reached \subseteq State /\ Hold \notin State /\ t \in DOMAIN edges[s]
      /\ definedIn[s] \in SUBSET Reg
  BY AtEdgeFacts, GraphAssumption DEF VisitEdge, AtEdge, TypeOK
<1>2. /\ graph' = graph /\ phase' = phase /\ phase = "sweeping" /\ at' = at
      /\ assigned' = assigned /\ s' = s /\ t' = t + 1
  BY DEF VisitEdge, AtEdge, runningVars
<1>3. at = Hold
  BY <1>2 DEF SweepInv
\* A register that definedOut leaves out has a path to the end of the edge.
<1>4. ASSUME NEW r \in Reg \ definedOut, edge.next \in State
      PROVE  edge.next \in Undefined(r)
  <2>1. s \in Undefined(r) /\ r \notin edge.writes
    BY <1>1, <1>4 DEF SweepInv, definedOut
  <2> QED
    BY <2>1, <1>1, <1>4, UndefinedStep DEF edge
<1>5. CASE edge.next = Hold /\ UNCHANGED <<definedIn, reached, changed>>
  <2>1. ASSUME ~changed', NEW n \in reached', NEW j \in DOMAIN edges[n], Visited(n, j)'
        PROVE  EdgeClosed(n, j)'
    <3>1. CASE Visited(n, j)
      BY <3>1, <2>1, <1>5, <1>2, SameGraph DEF SweepInv, EdgeClosed
    <3>2. CASE n = s /\ j = t
      BY <3>2, <1>1, <1>5, <1>2, SameGraph DEF EdgeClosed, edge
    <3> QED
      BY <3>1, <3>2, <2>1, <1>1, <1>2, <1>5, VisitedNext
  <2> QED
    BY <2>1, <1>2, <1>3, <1>5, <1>1, SameGraph DEF SweepInv
<1>6. CASE edge.next \in State \ reached /\ Discover
  <2>1. changed' = TRUE /\ reached' = reached \cup {edge.next}
        /\ definedIn' = [definedIn EXCEPT ![edge.next] = definedOut]
    BY <1>6 DEF Discover
  <2>2. graph.entry \in State =>
          graph.entry \in reached' /\ definedIn'[graph.entry] \subseteq graph.init
    BY <2>1, <1>1, <1>6 DEF SweepInv
  <2>3. ASSUME NEW n \in reached', NEW r \in Reg \ definedIn'[n] PROVE n \in Undefined(r)
    <3>1. CASE n = edge.next
      BY <3>1, <2>1, <2>3, <1>1, <1>4, <1>6
    <3>2. CASE n # edge.next
      BY <3>2, <2>1, <2>3, <1>1 DEF SweepInv
    <3> QED
      BY <3>1, <3>2
  <2> QED
    BY <2>1, <2>2, <2>3, <1>2, <1>3, <1>1, SameGraph DEF SweepInv
<1>7. CASE edge.next \in reached /\ Meet
  <2>1. /\ reached' = reached /\ changed' = (changed \/ ~(definedIn[edge.next] \subseteq definedOut))
        /\ definedIn' = [definedIn EXCEPT ![edge.next] = definedIn[edge.next] \cap definedOut]
    BY <1>7 DEF Meet
  <2>2. graph.entry \in State =>
          graph.entry \in reached' /\ definedIn'[graph.entry] \subseteq graph.init
    BY <2>1, <1>1 DEF SweepInv
  <2>3. ASSUME NEW n \in reached', NEW r \in Reg \ definedIn'[n] PROVE n \in Undefined(r)
    <3>1. CASE n = edge.next /\ r \notin definedOut
      BY <3>1, <1>1, <1>4, <1>7
    <3>2. CASE n # edge.next \/ r \in definedOut
      BY <3>2, <2>1, <2>3, <1>1, <1>7 DEF SweepInv
    <3> QED
      BY <3>1, <3>2
  <2>4. ASSUME ~changed', NEW n \in reached', NEW j \in DOMAIN edges[n], Visited(n, j)'
        PROVE  EdgeClosed(n, j)'
    <3>1. ~changed /\ definedIn[edge.next] \subseteq definedOut /\ definedIn' = definedIn
      BY <2>1, <2>4, <1>1, <1>7
    <3>2. CASE Visited(n, j)
      BY <3>1, <3>2, <2>1, <2>4, <1>2, SameGraph DEF SweepInv, EdgeClosed
    <3>3. CASE n = s /\ j = t
      BY <3>1, <3>3, <2>1, <1>1, <1>2, <1>7, SameGraph DEF EdgeClosed, edge, definedOut
    <3> QED
      BY <3>2, <3>3, <2>1, <2>4, <1>1, <1>2, VisitedNext
  <2> QED
    BY <2>1, <2>2, <2>3, <2>4, <1>2, <1>3, <1>1, SameGraph DEF SweepInv
<1> QED
  BY <1>5, <1>6, <1>7 DEF VisitEdge

\* A state the sweep has left behind is unreached, or all its transitions are.
LEMMA NextStateInv == TypeOK /\ SweepInv /\ NextState => SweepInv'
<1> SUFFICES ASSUME TypeOK, SweepInv, NextState PROVE SweepInv'
  OBVIOUS
<1>1. /\ graph' = graph /\ phase' = phase /\ phase = "sweeping" /\ at' = at
      /\ assigned' = assigned /\ s' = s + 1 /\ t' = 1 /\ definedIn' = definedIn
      /\ reached' = reached /\ changed' = changed /\ s \in State /\ ~AtEdge
  BY DEF NextState, runningVars
<1>2. ASSUME ~changed, NEW n \in reached, NEW j \in DOMAIN edges[n], Visited(n, j)'
      PROVE  EdgeClosed(n, j)'
  <2>0. n \in State /\ s \in State /\ t \in Nat
    BY <1>1 DEF TypeOK
  <2>1. edges[n] \in Seq(Edge) /\ n \in State /\ n \in Nat /\ s \in Nat /\ t \in Nat
    BY <2>0, GraphFacts DEF State
  <2>2. j \in Nat /\ j >= 1
    BY <2>1
  <2>3. n <= s
    BY <2>1, <2>2, <1>1, <1>2 DEF Visited
  <2>4. CASE n < s
    BY <2>4, <1>1, <1>2, SameGraph DEF SweepInv, Visited, EdgeClosed
  <2>5. CASE n = s
    <3>1. t \notin DOMAIN edges[n]
      BY <2>5, <1>1 DEF AtEdge
    <3>2. j < t
      BY <3>1, <2>1, <2>2 DEF TypeOK
    <3> QED
      BY <3>2, <2>5, <1>1, <1>2, SameGraph DEF SweepInv, Visited, EdgeClosed
  <2> QED
    BY <2>1, <2>3, <2>4, <2>5
<1> QED
  BY <1>1, <1>2, SameGraph DEF SweepInv

\* A new sweep has visited nothing yet.
LEMMA SweepAgainInv == TypeOK /\ SweepInv /\ SweepAgain => SweepInv'
<1> SUFFICES ASSUME TypeOK, SweepInv, SweepAgain PROVE SweepInv'
  OBVIOUS
<1>1. /\ graph' = graph /\ phase' = phase /\ phase = "sweeping" /\ at' = at
      /\ assigned' = assigned /\ s' = 1 /\ t' = 1 /\ definedIn' = definedIn
      /\ reached' = reached
  BY DEF SweepAgain, runningVars
<1>2. ASSUME NEW n \in reached, NEW j \in DOMAIN edges[n], Visited(n, j)'
      PROVE  FALSE
  <2>1. edges[n] \in Seq(Edge) /\ n \in Nat /\ n >= 1
    BY GraphFacts, GraphAssumption DEF TypeOK, State
  <2>2. j \in Nat /\ j >= 1
    BY <2>1
  <2> QED
    BY <2>1, <2>2, <1>1, <1>2 DEF Visited
<1> QED
  BY <1>1, <1>2, SameGraph DEF SweepInv

\* A verdict is given on a sweep that changed nothing.
LEMMA VerdictInv == TypeOK /\ SweepInv /\ Verdict => SweepInv'
<1> SUFFICES ASSUME TypeOK, SweepInv, Verdict PROVE SweepInv'
  OBVIOUS
<1>1. /\ graph' = graph /\ phase = "sweeping" /\ at' = at /\ assigned' = assigned
      /\ s' = s /\ t' = t /\ definedIn' = definedIn /\ reached' = reached
      /\ changed' = changed /\ ~changed /\ s \notin State
      /\ phase' = (IF ReadsDefined THEN "accepted" ELSE "refused")
  BY DEF Verdict, sweepVars, runningVars
<1>2. /\ ReadsDefined' <=> ReadsDefined
      /\ \A n, j : Visited(n, j)' <=> Visited(n, j)
      /\ \A n, j : EdgeClosed(n, j)' <=> EdgeClosed(n, j)
  BY <1>1, SameGraph DEF ReadsDefined, Visited, EdgeClosed
<1>3. at = Hold /\ Hold \notin State
  BY <1>1, GraphAssumption DEF SweepInv
<1> QED
  BY <1>1, <1>2, <1>3, SameGraph DEF SweepInv

\* At the end of a sweep that changed nothing every transition is closed.
LEMMA AllClosed ==
  ASSUME TypeOK, SweepInv, phase = "accepted", NEW n \in reached, NEW j \in DOMAIN edges[n]
  PROVE  EdgeClosed(n, j)
<1>1. s \notin State /\ ~changed /\ n \in State /\ s \in 1 .. NumStates + 1 /\ NumStates \in Nat
  BY GraphAssumption DEF SweepInv, TypeOK
<1>2. n < s
  BY <1>1 DEF State
<1> QED
  BY <1>1, <1>2 DEF SweepInv, Visited

\* The running machine stays within what the sweep found.
LEMMA RunningInv == TypeOK /\ SweepInv /\ (ResetEdge \/ ClockEdge) => SweepInv'
<1> SUFFICES ASSUME TypeOK, SweepInv, ResetEdge \/ ClockEdge PROVE SweepInv'
  OBVIOUS
<1>1. /\ graph' = graph /\ phase = "accepted" /\ phase' = phase
      /\ s' = s /\ t' = t /\ definedIn' = definedIn /\ reached' = reached
      /\ changed' = changed
  BY DEF ResetEdge, ClockEdge, sweepVars
<1>2. /\ ReadsDefined' <=> ReadsDefined
      /\ \A n, j : Visited(n, j)' <=> Visited(n, j)
      /\ \A n, j : EdgeClosed(n, j)' <=> EdgeClosed(n, j)
  BY <1>1, SameGraph DEF ReadsDefined, Visited, EdgeClosed
<1>3. at' \in State => at' \in reached /\ definedIn[at'] \cup graph.init \subseteq assigned'
  <2>1. CASE ResetEdge
    BY <2>1 DEF ResetEdge, SweepInv
  <2>2. CASE ClockEdge
    <3>1. at \in State /\ at \in reached /\ definedIn[at] \cup graph.init \subseteq assigned
      BY <2>2 DEF ClockEdge, SweepInv
    <3>2. PICK j \in DOMAIN edges[at] : \E arm \in SUBSET edges[at][j].targets :
            /\ edges[at][j].writes \subseteq arm
            /\ at' = edges[at][j].next /\ assigned' = assigned \cup arm
      BY <2>2 DEF ClockEdge
    <3>3. EdgeClosed(at, j)
      BY <1>1, <3>1, AllClosed
    <3> QED
      BY <3>1, <3>2, <3>3 DEF EdgeClosed
  <2> QED
    BY <2>1, <2>2
<1> QED
  BY <1>1, <1>2, <1>3, SameGraph DEF SweepInv

\* Every step keeps the invariant.
LEMMA StepInv == TypeOK /\ SweepInv /\ [Next]_vars => SweepInv'
<1>1. SweepInv /\ UNCHANGED vars => SweepInv'
  <2> SUFFICES ASSUME SweepInv, UNCHANGED vars PROVE SweepInv'
    OBVIOUS
  <2>1. /\ graph' = graph /\ phase' = phase /\ s' = s /\ t' = t /\ definedIn' = definedIn
        /\ reached' = reached /\ changed' = changed /\ at' = at /\ assigned' = assigned
    BY DEF vars, sweepVars, runningVars
  <2>2. /\ ReadsDefined' <=> ReadsDefined
        /\ \A n, j : Visited(n, j)' <=> Visited(n, j)
        /\ \A n, j : EdgeClosed(n, j)' <=> EdgeClosed(n, j)
    BY <2>1, SameGraph DEF ReadsDefined, Visited, EdgeClosed
  <2> QED
    BY <2>1, <2>2, SameGraph DEF SweepInv
<1> QED
  BY <1>1, VisitEdgeInv, NextStateInv, SweepAgainInv, VerdictInv, RunningInv DEF Next, Sweep

\* Whatever the graph, the sweep and the machine keep the invariant: what the
\* sweep has closed stays closed until something changes.
THEOREM SweepInvariant == Spec => [](TypeOK /\ SweepInv)
<1>1. Init => TypeOK /\ SweepInv
  BY InitType, InitInv
<1>2. TypeOK /\ SweepInv /\ [Next]_vars => TypeOK' /\ SweepInv'
  BY StepType, StepInv
<1> QED
  BY <1>1, <1>2, PTL DEF Spec

-----------------------------------------------------------------------------

\* check_paths is sound: a machine it accepts never reads, in a guard, an
\* action or the enable, a register that no edge since reset assigned, whatever
\* the graph, the branches taken and the resets.
THEOREM NeverReadsUndefined == Spec => []NoUndefinedRead
<1>1. TypeOK /\ SweepInv => NoUndefinedRead
  <2> SUFFICES ASSUME TypeOK, SweepInv, phase = "accepted", at \in State
               PROVE  /\ graph.enable \cap ProcessRegs \subseteq assigned
                      /\ \A j \in DOMAIN edges[at] :
                           edges[at][j].reads \cap ProcessRegs \subseteq assigned
    BY DEF NoUndefinedRead
  <2> QED
    BY DEF SweepInv, ReadsDefined
<1> QED
  BY <1>1, SweepInvariant, PTL

\* check_paths is exact on the graph: it refuses only where a path out of reset
\* arrives without having had to assign what is read.
THEOREM RefusesRightly == Spec => []RefusedRightly
<1>1. TypeOK /\ SweepInv => RefusedRightly
  <2> SUFFICES ASSUME TypeOK, SweepInv, phase = "refused"
               PROVE  \E r \in ProcessRegs :
                        \/ r \in graph.enable \ graph.init
                        \/ \E n \in Undefined(r) : \E j \in DOMAIN edges[n] :
                             r \in edges[n][j].reads
    BY DEF RefusedRightly
  <2>1. ~ReadsDefined
    BY DEF SweepInv
  <2>2. CASE ~(graph.enable \cap ProcessRegs \subseteq graph.init)
    BY <2>2
  <2>3. CASE \E n \in reached : \E j \in DOMAIN edges[n] :
               ~(edges[n][j].reads \cap ProcessRegs \subseteq definedIn[n])
    <3>1. PICK n \in reached : \E j \in DOMAIN edges[n] :
            ~(edges[n][j].reads \cap ProcessRegs \subseteq definedIn[n])
      BY <2>3
    <3>2. PICK j \in DOMAIN edges[n], r \in ProcessRegs :
            r \in edges[n][j].reads /\ r \notin definedIn[n]
      BY <3>1
    <3>3. n \in State /\ r \in Reg
      BY <3>1, <3>2, GraphFacts, EdgeFacts DEF TypeOK
    <3>4. n \in Undefined(r)
      BY <3>1, <3>2, <3>3 DEF SweepInv
    <3> QED
      BY <3>2, <3>4
  <2> QED
    BY <2>1, <2>2, <2>3 DEF ReadsDefined
<1> QED
  BY <1>1, SweepInvariant, PTL

\* The must-defined sets only shrink, the argument for the end of the sweep.
THEOREM SetsOnlyShrink == Spec => OnlyShrinks
<1>1. TypeOK /\ [Next]_vars =>
        [reached \subseteq reached' /\ \A n \in reached : definedIn'[n] \subseteq definedIn[n]]_vars
  <2> SUFFICES ASSUME TypeOK, Next
               PROVE  reached \subseteq reached' /\ \A n \in reached : definedIn'[n] \subseteq definedIn[n]
    OBVIOUS
  <2>1. CASE VisitEdge
    <3>1. definedIn \in [State -> SUBSET Reg] /\ reached \subseteq State
      BY DEF TypeOK
    <3>2. CASE Discover /\ edge.next \in State \ reached
      BY <3>1, <3>2 DEF Discover
    <3>3. CASE Meet
      BY <3>1, <3>3 DEF Meet
    <3> QED
      BY <3>2, <3>3, <2>1 DEF VisitEdge
  <2>2. CASE ~VisitEdge
    BY <2>2 DEF Next, Sweep, NextState, SweepAgain, Verdict, ResetEdge, ClockEdge, sweepVars
  <2> QED
    BY <2>1, <2>2
<1> QED
  BY <1>1, SweepTypeOK, PTL DEF Spec, OnlyShrinks
=============================================================================
