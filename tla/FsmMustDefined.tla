--------------------------- MODULE FsmMustDefined ---------------------------
(***************************************************************************)
(* The must-defined registers of a marked process, as check_paths sweeps   *)
(* them over the state graph: defined_in[s] is what every path out of      *)
(* reset has assigned when the machine arrives in s.  A graph is accepted  *)
(* when no reached state reads a register outside its defined_in.  The     *)
(* machine of an accepted graph then runs, its branches unresolved, with   *)
(* the registers assigned since the last reset kept beside it.             *)
(***************************************************************************)
EXTENDS Naturals, Sequences

CONSTANTS
  Graphs,     \* the state graphs considered
  NumStates,  \* states.size()
  Reg,        \* register names
  Hold        \* the state past the last

State == 1 .. NumStates

\* A transition: what its guard and its action read, what the action assigns
\* whichever of its branches it takes, and what it may assign.
Edge == {e \in [reads : SUBSET Reg, writes : SUBSET Reg, targets : SUBSET Reg,
                next : State \cup {Hold}] : e.writes \subseteq e.targets}

Graph == [init : SUBSET Reg, entry : State \cup {Hold}, enable : SUBSET Reg,
          out : [State -> Seq(Edge)]]

ASSUME GraphAssumption ==
  /\ NumStates \in Nat
  /\ Hold \notin State
  /\ \A g \in Graphs : g \in Graph

VARIABLES
  graph,
  phase,      \* "sweeping", "accepted" or "refused"
  definedIn,  \* the must-defined registers at the entry of each reached state
  reached,
  s, t,       \* the transition the sweep is at
  changed,    \* whether this sweep changed anything so far
  at,         \* the state register of the running machine, Hold before reset
  assigned    \* ghost: the registers assigned since the last reset

sweepVars   == <<definedIn, reached, s, t, changed>>
runningVars == <<at, assigned>>
vars        == <<graph, phase, sweepVars, runningVars>>

edges == graph.out

\* Every nonblocking target, whether a path reaches it or not.
ProcessRegs ==
  graph.init \cup UNION {UNION {edges[n][j].targets : j \in DOMAIN edges[n]} : n \in State}

-----------------------------------------------------------------------------

\* The entry state is seeded with what the preamble assigns.
Init ==
  /\ graph \in Graphs
  /\ phase = "sweeping"
  /\ definedIn = [n \in State |-> IF n = graph.entry THEN graph.init ELSE {}]
  /\ reached = State \cap {graph.entry}
  /\ s = 1 /\ t = 1
  /\ changed = FALSE
  /\ at = Hold
  /\ assigned = {}

AtEdge == phase = "sweeping" /\ s \in reached /\ t \in DOMAIN edges[s]

edge       == edges[s][t]
definedOut == definedIn[s] \cup edge.writes

\* Mutant: what the transition assigns is left out.
MeetForgetsWrites ==
  /\ definedIn' = [definedIn EXCEPT ![edge.next] = @ \cap definedIn[s]]
  /\ changed' = (changed \/ ~(definedIn[edge.next] \subseteq definedIn[s]))
  /\ UNCHANGED reached

\* Mutant: every visit counts as a change.
MeetRestless ==
  /\ definedIn' = [definedIn EXCEPT ![edge.next] = @ \cap definedOut]
  /\ changed' = TRUE
  /\ UNCHANGED reached

\* A further path into a state keeps what it defines too.
Meet ==
  /\ definedIn' = [definedIn EXCEPT ![edge.next] = @ \cap definedOut]
  /\ changed' = (changed \/ ~(definedIn[edge.next] \subseteq definedOut))
  /\ UNCHANGED reached

Discover ==
  /\ definedIn' = [definedIn EXCEPT ![edge.next] = definedOut]
  /\ reached' = reached \cup {edge.next}
  /\ changed' = TRUE

\* Mutant: the hold state, past the end of the table, is not skipped.
VisitEdgePastEnd ==
  /\ AtEdge
  /\ \/ edge.next \notin reached /\ Discover
     \/ edge.next \in reached /\ UNCHANGED <<definedIn, reached, changed>>
  /\ t' = t + 1
  /\ UNCHANGED <<graph, phase, s, runningVars>>

VisitEdge ==
  /\ AtEdge
  /\ \/ edge.next = Hold /\ UNCHANGED <<definedIn, reached, changed>>
     \/ edge.next \in State \ reached /\ Discover
     \/ edge.next \in reached /\ Meet
  /\ t' = t + 1
  /\ UNCHANGED <<graph, phase, s, runningVars>>

NextState ==
  /\ phase = "sweeping" /\ s \in State /\ ~AtEdge
  /\ s' = s + 1 /\ t' = 1
  /\ UNCHANGED <<graph, phase, definedIn, reached, changed, runningVars>>

SweepAgain ==
  /\ phase = "sweeping" /\ s \notin State /\ changed
  /\ s' = 1 /\ t' = 1 /\ changed' = FALSE
  /\ UNCHANGED <<graph, phase, definedIn, reached, runningVars>>

ReadsDefined ==
  /\ graph.enable \cap ProcessRegs \subseteq graph.init
  /\ \A n \in reached : \A j \in DOMAIN edges[n] :
       edges[n][j].reads \cap ProcessRegs \subseteq definedIn[n]

\* Mutant: one sweep is taken for the fixpoint.
VerdictAtOnce ==
  /\ phase = "sweeping" /\ s \notin State
  /\ phase' = IF ReadsDefined THEN "accepted" ELSE "refused"
  /\ UNCHANGED <<graph, sweepVars, runningVars>>

Verdict ==
  /\ phase = "sweeping" /\ s \notin State /\ ~changed
  /\ phase' = IF ReadsDefined THEN "accepted" ELSE "refused"
  /\ UNCHANGED <<graph, sweepVars, runningVars>>

-----------------------------------------------------------------------------
(* The machine of an accepted graph *)

ResetEdge ==
  /\ phase = "accepted"
  /\ at' = graph.entry
  /\ assigned' = graph.init
  /\ UNCHANGED <<graph, phase, sweepVars>>

\* An edge takes one transition; a branch in its action takes one arm.
ClockEdge ==
  /\ phase = "accepted" /\ at \in State
  /\ \E j \in DOMAIN edges[at] : \E arm \in SUBSET edges[at][j].targets :
       /\ edges[at][j].writes \subseteq arm
       /\ at' = edges[at][j].next
       /\ assigned' = assigned \cup arm
  /\ UNCHANGED <<graph, phase, sweepVars>>

Sweep == VisitEdge \/ NextState \/ SweepAgain \/ Verdict

Next == Sweep \/ ResetEdge \/ ClockEdge

\* The check runs until it answers.
Spec == Init /\ [][Next]_vars /\ WF_vars(Sweep)

-----------------------------------------------------------------------------
(* What the check promises *)

TypeOK ==
  /\ graph \in Graph
  /\ phase \in {"sweeping", "accepted", "refused"}
  /\ definedIn \in [State -> SUBSET Reg]
  /\ reached \subseteq State
  /\ s \in 1 .. NumStates + 1
  /\ t \in Nat \ {0}
  /\ changed \in BOOLEAN
  /\ at \in State \cup {Hold}
  /\ assigned \subseteq Reg

\* Whatever branches it takes, and however often it is reset, an accepted
\* machine never reads a register that nothing has assigned since reset: no
\* output or transition depends on what the power-up left.
NoUndefinedRead ==
  phase = "accepted" /\ at \in State =>
    /\ graph.enable \cap ProcessRegs \subseteq assigned
    /\ \A j \in DOMAIN edges[at] : edges[at][j].reads \cap ProcessRegs \subseteq assigned

\* The states some path out of reset arrives in without having to assign r.
Undefined(r) ==
  {n \in State :
     /\ r \notin graph.init
     /\ \A R \in SUBSET State :
          /\ graph.entry \in R \cup {Hold}
          /\ \A m \in R : \A j \in DOMAIN edges[m] :
               r \in edges[m][j].writes \/ edges[m][j].next \in R \cup {Hold}
          => n \in R}

\* A refusal names a path: the intersection over the incoming paths loses no
\* register that they all assign, back-edges included.
RefusedRightly ==
  phase = "refused" =>
    \E r \in ProcessRegs :
      \/ r \in graph.enable \ graph.init
      \/ \E n \in Undefined(r) : \E j \in DOMAIN edges[n] : r \in edges[n][j].reads

\* What the sweep keeps between two visits: while it has changed nothing, the
\* transitions behind it are closed; a register it dropped has a path that
\* does not assign it; the machine runs within what the sweep found.
EdgeClosed(n, j) ==
  LET next == edges[n][j].next IN
  next \in State =>
    next \in reached /\ definedIn[next] \subseteq definedIn[n] \cup edges[n][j].writes

Visited(n, j) == n < s \/ (n = s /\ j < t)

SweepInv ==
  /\ graph.entry \in State =>
       graph.entry \in reached /\ definedIn[graph.entry] \subseteq graph.init
  /\ ~changed => \A n \in reached : \A j \in DOMAIN edges[n] :
                   Visited(n, j) => EdgeClosed(n, j)
  /\ \A n \in reached : \A r \in Reg \ definedIn[n] : n \in Undefined(r)
  /\ phase = "accepted" => s \notin State /\ ~changed /\ ReadsDefined
  /\ phase = "refused" => ~ReadsDefined
  /\ at # Hold => phase = "accepted"
  /\ at \in State => at \in reached /\ definedIn[at] \cup graph.init \subseteq assigned

\* Once seeded a set only shrinks, and a reached state stays reached: the
\* argument the code gives for the end of its iteration.
OnlyShrinks ==
  [][reached \subseteq reached' /\ \A n \in reached : definedIn'[n] \subseteq definedIn[n]]_vars

\* The iteration ends on cyclic graphs too.
Decided == <>(phase # "sweeping")
=============================================================================
