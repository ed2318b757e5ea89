----------------------------- MODULE FsmMachine -----------------------------
(***************************************************************************)
(* A marked process compiled and then run: the walk of FsmWalk, the checks *)
(* compile_process makes on the path cover, and the always_ff that emit    *)
(* writes, clocked by an environment that drives the inputs and the reset. *)
(***************************************************************************)
EXTENDS FsmDecode

CONSTANTS
  Off,      \* the value of the state register before the first reset
  Around,   \* per process and node, the frames left when the node is done
  Lengths   \* the numbers of statements a step of the process is followed for

VARIABLES
  phase,  \* "compiling", then "emitted" or "refused"
  state,  \* the state register
  store,  \* the registers and the inputs of the last edge, the outputs it left
  arms,   \* the arms of the comb that drives the decoded outputs
  codes   \* what the state register holds in each state

machineVars == <<phase, state, store, arms, codes>>
vars == <<walkVars, machineVars>>

-----------------------------------------------------------------------------
(* compile_process and check_paths, on the finished cover *)

SinglePreamble == Len(out[Entry]) = 1 /\ preamble.guard = {}

CommitsOnce(action) == \A c, d \in action : c.var = d.var => c = d

ProcessRegs ==
  Writes(preamble.action)
  \cup UNION {UNION {Writes(out[w][j].action) : j \in DOMAIN out[w]} : w \in WaitStates}

\* The reset values are loaded once and read nothing the process assigns.
PreambleReads ==
  \E c \in preamble.action : \E v \in ProcessRegs : DependsOn(c.val, v)

\* The enable is read at the first state too, whose registers are the preamble's.
EnableReadsUndefined ==
  \E t \in Program[name].enable : \E v \in ProcessRegs \ Writes(preamble.action) :
    DependsOn(t.lhs, v)

\* The waits some path out of reset arrives at without having assigned v: the
\* complement of defined_in, whose computation is the module FsmMustDefined.
Undefined(v) ==
  {w \in WaitStates :
     /\ v \notin Writes(preamble.action)
     /\ \A R \in SUBSET WaitStates :
       /\ preamble.next \in R \cup {Hold}
       /\ \A u \in R : \A j \in DOMAIN out[u] :
            v \in Writes(out[u][j].action) \/ out[u][j].next \in R \cup {Hold}
       => w \in R}

TransitionReads(t, v) ==
  \/ \E l \in t.guard : DependsOn(l.lhs, v)
  \/ \E c \in t.action : DependsOn(c.val, v)

ReadsUndefined ==
  \E v \in ProcessRegs : \E w \in Undefined(v) : \E j \in DOMAIN out[w] :
    TransitionReads(out[w][j], v)

Accepted ==
  /\ SinglePreamble
  /\ CommitsOnce(preamble.action)
  /\ ~PreambleReads
  /\ ~EnableReadsUndefined
  /\ \A w \in WaitStates : \A j \in DOMAIN out[w] : CommitsOnce(out[w][j].action)
  /\ ~ReadsUndefined
  /\ Decodable

PowerUp == {s \in Store : \A v \in Inputs \cup Temps : s[v] = 0}

\* The machine powers up with anything in its registers and outputs.
Emit ==
  /\ phase = "compiling" /\ status = "done" /\ Accepted
  /\ phase' = "emitted"
  /\ store' \in PowerUp
  /\ arms' = Arms
  /\ codes' = Codes
  /\ UNCHANGED <<walkVars, state>>

\* The pass fails loudly and emits nothing.
Refuse ==
  /\ phase = "compiling"
  /\ status = "error" \/ (status = "done" /\ ~Accepted)
  /\ phase' = "refused"
  /\ UNCHANGED <<walkVars, state, store, arms, codes>>

-----------------------------------------------------------------------------
(* The emitted always_ff *)

\* Mutant: a commit is not cut to the width of its register.
ApplyWide(action, s) ==
  [v \in Vars |-> IF \E c \in action : c.var = v
                  THEN (CHOOSE c \in action : c.var = v).val[s]
                  ELSE s[v]]

\* Nonblocking commits: every value is the one of the edge's store.
Apply(action, s) ==
  [v \in Vars |-> IF \E c \in action : c.var = v
                  THEN Truncate(v, (CHOOSE c \in action : c.var = v).val[s])
                  ELSE s[v]]

\* The if / else-if chain of an arm, its last leg the bare else.
Taken(w, s) ==
  CHOOSE j \in DOMAIN out[w] :
    /\ j = Len(out[w]) \/ Satisfies(s, out[w][j].guard)
    /\ \A i \in 1 .. j - 1 : ~Satisfies(s, out[w][i].guard)

Stimulus == {x \in [Inputs -> Wide] : \A v \in Inputs : x[v] < Modulus[v]}

Sampled(x) == [v \in Vars |-> IF v \in Inputs THEN x[v] ELSE store[v]]

Enabled(s) == \A t \in Program[name].enable : (t.lhs[s] = t.rhs) <=> t.eq

\* What output d shows in state q over the registers and inputs s, the reset
\* being up or not.  Under output encoding it is a slice of the state register;
\* else the comb reads the reset as a level: the reset values while it is up,
\* then the arm of the state, or the reset values by default.
Shown(q, d, s, reset) ==
  IF encoding = "output" THEN codes[q].shown[d]
  ELSE IF reset \/ q \notin DOMAIN arms THEN Truncate(d, preamble.decode[d][s])
  ELSE Truncate(d, arms[q][d][ArmLeg(arms[q][d], s)].value[s])

\* The registers, with the outputs as they settle in state q.
Settled(q, s, reset) ==
  LET outputs == Decoded
  IN  [v \in Vars |-> IF v \in outputs THEN Shown(q, v, s, reset) ELSE s[v]]

\* What an edge under reset reads.  A reset that was up before a clock edge has
\* reached the comb; the edge of an asynchronous one may come before the comb.
UnderReset(x) ==
  {Sampled(x)} \cup IF encoding = "output" THEN {} ELSE {Settled(state, Sampled(x), TRUE)}

\* The reset branch, at a clock edge under reset or at the edge of the reset: the
\* preamble and the first state; no enable gates it.
ResetEdge(x) ==
  /\ phase = "emitted"
  /\ \E s \in UnderReset(x) :
       store' = Settled(preamble.next, Apply(preamble.action, s), TRUE)
  /\ state' = preamble.next
  /\ UNCHANGED <<walkVars, phase, arms, codes>>

\* The case: the hold state and a state no path reaches have empty arms.  The
\* reset is down by then, and the outputs are as the last edge left them
\* (OutputsHold).
ClockEdge(x) ==
  /\ phase = "emitted" /\ state # Off
  /\ LET s == Sampled(x) IN
     IF ~Enabled(s) \/ state = Hold \/ out[state] = <<>>
     THEN store' = Settled(state, s, FALSE) /\ state' = state
     ELSE LET t == out[state][Taken(state, s)]
          IN  store' = Settled(t.next, Apply(t.action, s), FALSE) /\ state' = t.next
  /\ UNCHANGED <<walkVars, phase, arms, codes>>

-----------------------------------------------------------------------------

MachineInit ==
  /\ Init
  /\ phase = "compiling"
  /\ state = Off
  /\ store = [v \in Vars |-> 0]
  /\ arms = <<>>
  /\ codes = <<>>

Compile == phase = "compiling" /\ WalkNext /\ UNCHANGED machineVars

MachineNext ==
  \/ Compile
  \/ Emit \/ Refuse
  \/ \E x \in Stimulus : ResetEdge(x) \/ ClockEdge(x)

\* The compiler runs until it answers; nothing makes the machine's clock tick.
MachineSpec ==
  MachineInit /\ [][MachineNext]_vars /\ WF_vars(Compile \/ Emit \/ Refuse)

-----------------------------------------------------------------------------
(* The process the machine was compiled from *)

\* A frame as the process has it: temporaries live until the step ends.
Strip(frames) ==
  [i \in DOMAIN frames |-> [todo |-> frames[i].todo, loop |-> frames[i].loop, left |-> 0]]

\* What is left to execute in each state: the wait the state is named for
\* fixes it by its position.  A parked one-shot has nothing left.
KontOf ==
  IF state = Off THEN [is |-> "off", frames |-> <<>>]
  ELSE [is |-> "waiting",
        frames |-> IF state = Hold THEN <<>>
                   ELSE Strip(PushFrame(Around[name][state], nodes[state].kids[1], NoNode))]

Process == INSTANCE ImperativeProcess WITH Text <- Program, kont <- KontOf

\* Every step of the machine, at any edge, with any inputs and any reset, is
\* the step of the process it was compiled from: a path takes what executing
\* the statements one by one would have reached, with what it would have left.
ExecutesTree == Process!Spec

\* Each statement of the innermost list has its own place among the frames.
Placed(p, frames) ==
  \A j \in DOMAIN Head(frames).todo :
    Around[p][Head(frames).todo[j]]
      = <<[Head(frames) EXCEPT !.todo = SubSeq(@, j + 1, Len(@))]>> \o Tail(frames)

\* No state stands for another.
ASSUME StateAssumption == Off \notin NodeId \cup {Hold} /\ Entry # Hold

IsLoop(d) == d.kind \in {"while", "forever"}

\* What collect_stmt and collect_loop refuse a process for: one signal has one
\* discipline and is no input, a temporary is assigned where it is declared, an
\* output is what some statement assigns, and the body of a loop holds a wait.
ASSUME DisciplineAssumption ==
  /\ Inputs \subseteq Vars \ Temps
  /\ \A p \in Names : \A n \in NodeId :
       LET d == Program[p].node[n] IN
       /\ d.kind = "temp" => d.var \in Temps
       /\ d.kind = "decoded" => d.var \in Program[p].outputs
       /\ d.kind \in {"nba", "induced"} => d.var \notin Temps \cup Program[p].outputs
       /\ d.decls \subseteq Temps
       /\ IsLoop(d) => d.kids[1] # NoNode
  /\ \A p \in Names : \A v \in Program[p].outputs :
       \E n \in NodeId : Program[p].node[n].kind = "decoded" /\ Program[p].node[n].var = v

\* The program is a tree: the frames around a statement are those around the
\* statement that holds it, and what is left of the list it is in.
ASSUME AroundAssumption ==
  \A p \in Names :
    LET t == Program[p].node IN
    /\ Placed(p, Process!Pushed(t, <<>>, Program[p].root))
    /\ \A n \in NodeId : \A i \in DOMAIN t[n].kids :
         LET k == t[n].kids[i] IN
         k # NoNode =>
           /\ IsLoop(t[n]) => Placed(p, Process!Looped(t, Around[p][n], n, 0))
           /\ ~IsLoop(t[n]) /\ t[n].kind # "block" =>
                Placed(p, Process!Pushed(t, Around[p][n], k))
           /\ t[n].kind = "block" /\ t[k].kind = "block" =>
                Placed(p, Process!Pushed(t, Around[p][k], k))

-----------------------------------------------------------------------------
(* What the machine keeps *)

MachineTypeOK ==
  /\ TypeOK
  /\ phase \in {"compiling", "emitted", "refused"}
  /\ state \in NodeId \cup {Hold, Off}
  /\ store \in Store
  /\ phase # "compiling" => status # "walking"

\* Whatever the inputs, an edge finds the machine in a state whose arm has a
\* leg for what the registers hold: the bare else that ends the chain never
\* takes a store whose path was lost, and the state register never holds a
\* state whose paths were not compiled.
EdgeCovered ==
  phase = "emitted" =>
    \/ state = Off
    \/ state = Hold /\ holdNeeded
    \/ /\ state \in walked
       /\ \A x \in Stimulus : \E j \in DOMAIN out[state] : Satisfies(Sampled(x), out[state][j].guard)

\* Between two edges, whatever the inputs do, an output shows what the last edge
\* left in it, an edge under a reset that is released since included: the arm of
\* the first state then takes over from the reset values.  Only while a reset is
\* up may it show something else, and then the values the reset will leave;
\* under output encoding not even then (the level mux of emit_decode, and the
\* slices that have none, implicit_fsm_emission.cpp:656).
OutputsHold ==
  phase = "emitted" /\ state # Off =>
    \A x \in Stimulus : \A d \in Decoded :
      /\ Shown(state, d, Sampled(x), FALSE) = store[d]
      /\ Shown(state, d, Sampled(x), TRUE) =
           IF encoding = "output" THEN store[d] ELSE Truncate(d, preamble.decode[d][store])

\* No two states share a code: the state register that holds the one never
\* selects the arm of the other.
CodesTellStates ==
  phase = "emitted" => \A p, q \in States : codes[p] = codes[q] => p = q

\* What an edge leaves in a decoded output is what the path it takes computed,
\* although its comb reads what comes after the edge and the state register may
\* not tell which path arrived; where the labels of a case are expressions, a
\* chain may take a path that the text of its guards does not tell apart.
OutputsDecoded ==
  [][\A x \in Stimulus : \A d \in Decoded :
       LET s       == Sampled(x)
           Left(t) == store'[d] = Truncate(d, t.decode[d][s])
       IN  /\ ResetEdge(x) => Left(preamble)
           /\ ClockEdge(x) /\ Enabled(s) /\ state # Hold /\ out[state] # <<>> /\ ConstantLabels
                => Left(out[state][Taken(state, s)])]_vars

\* Every marked process is answered: it compiles or it is refused.
Answered == <>(phase # "compiling")
=============================================================================
