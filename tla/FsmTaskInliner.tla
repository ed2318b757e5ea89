--------------------------- MODULE FsmTaskInliner ---------------------------
(***************************************************************************)
(* The inlining of the tasks a marked process calls (fsm_task_inliner.cpp):*)
(* each call becomes a block of the task's text under the names of its     *)
(* site, between the copies of its arguments, and the tasks nobody calls   *)
(* any more are dropped.  The text that results is then run beside the     *)
(* text it came from.                                                      *)
(*                                                                         *)
(* The unrolling of constant loops before and after, cases, types,         *)
(* initializers, arrays and interface members are left out.                *)
(***************************************************************************)
EXTENDS FsmAlphaRename

CONSTANTS Nets,       \* the names that are nets
          Inputs,     \* the names the environment drives
          Registers,  \* the names of the module the processes write
          Programs    \* tasks, processes, and what unmarked processes call

\* A name is driven from outside or written by the processes.
ASSUME NamesDeclared == Nets \subseteq Inputs /\ Clock \in Inputs /\ Inputs \cap Registers = {}

VARIABLES
  program,  \* the source
  phase,    \* "rename", "inline", "sweep", "inlined", "run" or "refused"
  tasks,    \* the tasks of the module
  texts,    \* the text of each marked process
  next,     \* the process to inline
  made,     \* what the expansions have made so far
  process,  \* the process that runs
  source,   \* its thread as it was written
  lowered   \* and as it was inlined

passVars == <<program, tasks, texts, next, made>>
vars == <<program, phase, tasks, texts, next, made, process, source, lowered>>

Refused(m) == [m EXCEPT !.ok = FALSE]

---------------------------------------------------------------------------
(* Returns.                                                                *)

ContainsReturn(ss) == \E st \in Statements(ss) : st.op = "return"
Returns(st) == ContainsReturn(<<st>>)

Lowered(ss, always) == [ok |-> TRUE, ss |-> ss, always |-> always]
NoExit == [ok |-> FALSE, ss |-> <<>>, always |-> FALSE]

RECURSIVE LowerReturnList(_)

\* A branch returns on every path or on none.
LowerReturnBranch(ss) ==
  IF ~ContainsReturn(ss) THEN Lowered(ss, FALSE)
  ELSE LET r == LowerReturnList(ss) IN IF r.ok /\ r.always THEN r ELSE NoExit

\* Mutant: what follows an if with one returning branch stays after it.
ThreadedAfter(st, body, alt, always, tail) ==
  LET rest == LowerReturnList(tail)
  IN  [rest EXCEPT !.ss = <<[st EXCEPT !.body = body, !.alt = alt]>> \o @]

\* Both branches return; or the other one takes what follows the if.
Threaded(st, body, alt, always, tail) ==
  LET open == LowerReturnList((IF always[1] THEN alt ELSE body) \o tail)
  IN  IF always[1] /\ always[2] THEN Lowered(<<[st EXCEPT !.body = body, !.alt = alt]>>, TRUE)
      ELSE [open EXCEPT !.ss = <<IF always[1] THEN [st EXCEPT !.body = body, !.alt = open.ss]
                                 ELSE [st EXCEPT !.body = open.ss, !.alt = alt]>>]

LowerReturnList(ss) ==
  IF ~ContainsReturn(ss) THEN Lowered(ss, FALSE)
  ELSE
  LET i == CHOOSE j \in DOMAIN ss : Returns(ss[j]) /\ \A h \in 1 .. j - 1 : ~Returns(ss[h])
      st == ss[i]
      tail == SubSeq(ss, i + 1, Len(ss))
      After(r) == IF r.ok THEN [r EXCEPT !.ss = SubSeq(ss, 1, i - 1) \o @] ELSE NoExit
  IN
  CASE st.op = "return" -> After(Lowered(<<>>, TRUE))
    [] st.op = "if" ->
         LET t == LowerReturnBranch(st.body)
             e == LowerReturnBranch(st.alt)
         IN  IF ~t.ok \/ ~e.ok THEN NoExit
             ELSE After(Threaded(st, t.ss, e.ss, <<t.always, e.always>>, tail))
    [] st.op = "block" /\ st.name = None ->
         LET r == LowerReturnList(st.body \o tail)
         IN  After([r EXCEPT !.ss = <<[st EXCEPT !.body = r.ss]>>])
    [] st.op = "block" /\ st.name # None ->
         LET r == LowerReturnBranch(st.body)
         IN  After([r EXCEPT !.ss = <<[st EXCEPT !.body = r.ss]>>])
    [] OTHER -> NoExit

---------------------------------------------------------------------------
(* What a text writes and reads.                                           *)

Targets(ss, op) == {st.name : st \in {w \in Statements(ss) : w.op = op}}

\* What every path through a text writes; a loop guarantees nothing.
RECURSIVE AllPathsWrites(_)
AllPathsWrites(ss) ==
  UNION {CASE ss[i].op \in Writes -> {ss[i].name}
           [] ss[i].op \in Blocks -> AllPathsWrites(ss[i].body)
           [] ss[i].op = "if" -> AllPathsWrites(ss[i].body) \cap AllPathsWrites(ss[i].alt)
           [] OTHER -> {} : i \in DOMAIN ss}

\* In program order, the first reference to x: a read, a write, or none.
RECURSIVE FirstReference(_, _)
FirstReference(ss, x) ==
  LET Of(st) ==
        IF st.expr.name = x \/ (st.op = "wait" /\ st.name = x) THEN "read"
        ELSE IF st.op \in Writes /\ st.name = x THEN "write"
        ELSE FirstReference(st.body \o st.alt, x)
      found == {i \in DOMAIN ss : Of(ss[i]) # "none"}
  IN  IF found = {} THEN "none" ELSE Of(ss[CHOOSE i \in found : \A j \in found : i <= j])

\* ASTReplace::replace_identifier: every name at once, however deep.
Substituted(e, subst) ==
  IF e.name \notin DOMAIN subst THEN e
  ELSE [subst[e.name] EXCEPT !.n = (@ + e.n) % Modulus]
RenamedTo(x, subst) ==
  IF x \in DOMAIN subst /\ IsId(subst[x]) THEN subst[x].name ELSE x

RECURSIVE RenameInto(_, _)
RenameInto(ss, subst) ==
  [i \in DOMAIN ss |->
     [ss[i] EXCEPT !.name = IF ss[i].op \in Writes \cup {"wait"} THEN RenamedTo(@, subst) ELSE @,
                   !.expr = Substituted(@, subst),
                   !.body = RenameInto(@, subst), !.alt = RenameInto(@, subst)]]

---------------------------------------------------------------------------
(* Arguments.  An argument is lowered to what it substitutes to, the       *)
(* register or the temporary it takes, and its copies.                     *)

Argument(subst) == [ok |-> TRUE, subst |-> subst, reg |-> {}, temp |-> {}, head |-> <<>>,
                    tail |-> <<>>, check |-> {}]
RefusedArgument == [Argument(Const(0)) EXCEPT !.ok = FALSE]

\* How a body writes an argument, its own nested calls included.
Written(body, x) == [op \in Writes |-> x \in Targets(body, op)]

\* Mutant: a constant is substituted however the argument is written.
ConstantFirst(rname, actual, written) ==
  IF IsConst(actual) THEN Argument(actual)
  ELSE [Argument(Id(rname)) EXCEPT !.reg = {rname}, !.head = <<Copy(rname, actual)>>]

InputFormal(rname, actual, written) ==
  IF written["ba"]
  THEN [Argument(Id(rname)) EXCEPT !.temp = {rname}, !.head = <<Ba(rname, actual)>>]
  ELSE IF IsConst(actual) /\ ~written["nba"] /\ ~written["copy"] THEN Argument(actual)
  ELSE [Argument(Id(rname)) EXCEPT !.reg = {rname}, !.head = <<Copy(rname, actual)>>]

CopyoutFormal(formal, rname, actual, written) ==
  LET inout == formal.dir = "inout"
      own == IF written["ba"] THEN [Argument(Id(rname)) EXCEPT !.temp = {rname}]
                              ELSE [Argument(Id(rname)) EXCEPT !.reg = {rname}]
  IN  IF ~IsId(actual) THEN RefusedArgument
      ELSE [own EXCEPT
              !.head = IF ~inout THEN <<>>
                       ELSE IF written["ba"] THEN <<Ba(rname, actual)>> ELSE <<Copy(rname, actual)>>,
              !.tail = <<Copy(actual.name, Id(rname))>>,
              !.check = IF inout THEN {} ELSE {rname}]

RefFormal(formal, automatic, actual, written) ==
  IF \/ ~automatic \/ ~IsId(actual) \/ actual.name \in Nets \/ written["nba"]
     \/ formal.dir = "constref" /\ (written["ba"] \/ written["copy"])
  THEN RefusedArgument
  ELSE Argument(actual)

\* An omitted argument takes its default.
Unusable(automatic, actual, written) ==
  actual = Const(Unknown) \/ (written["nba"] /\ (automatic \/ written["ba"]))

LowerFormal(task, formal, rname, actual, body) ==
  LET written == Written(body, formal.name)
  IN  IF formal.dir \notin Copies
      THEN IF actual = Const(Unknown) THEN RefusedArgument
           ELSE RefFormal(formal, task.automatic, actual, written)
      ELSE IF Unusable(task.automatic, actual, written) THEN RefusedArgument
      ELSE IF formal.dir = "input" THEN InputFormal(rname, actual, written)
      ELSE CopyoutFormal(formal, rname, actual, written)

---------------------------------------------------------------------------
(* Locals.  A local a wait spans is one register for all calls of its      *)
(* task, another is renamed for its site; nested sites own their names.    *)

RECURSIVE OwnBlocks(_)
OwnBlocks(ss) ==
  UNION {IF ss[i].op = "site" THEN {}
         ELSE (IF ss[i].op = "block" THEN {ss[i]} ELSE {})
              \cup OwnBlocks(ss[i].body) \cup OwnBlocks(ss[i].alt) : i \in DOMAIN ss}

LocalsOf(block) == UNION {b.vars : b \in OwnBlocks(<<block>>)}
Spanned(block) == UNION {b.vars : b \in {c \in OwnBlocks(<<block>>) : HasWait(c.body)}}

\* Mutant: a register for each call.
LocalPerSite(name, site, spanned, l) == site \o l
LocalName(name, site, spanned, l) == (IF l \in spanned THEN name ELSE site) \o l

RefusedLocals(task, block) ==
  \/ LocalsOf(block) \cap {task.formals[k].name : k \in DOMAIN task.formals} # {}
  \/ \E b, c \in OwnBlocks(<<block>>) : b # c /\ b.vars \cap c.vars # {}
  \/ \E b \in OwnBlocks(<<block>>) :
       b.vars # {} /\ HasWait(b.body) /\ (task.automatic \/ b.vars \cap Targets(b.body, "ba") # {})

\* The declarations of the blocks, under the names of the site.
RECURSIVE Redeclared(_, _)
Redeclared(ss, site) ==
  [i \in DOMAIN ss |->
     IF ss[i].op = "site" THEN ss[i]
     ELSE [ss[i] EXCEPT !.vars = IF HasWait(ss[i].body) THEN {} ELSE {site \o l : l \in @},
                        !.body = Redeclared(@, site), !.alt = Redeclared(@, site)]]

---------------------------------------------------------------------------
(* Expanding a call.                                                       *)

\* A name to declare in the module; a static local is declared once.
Hoist(m, x, shared) ==
  IF x \in m.declared
  THEN IF x \in m.hoisted THEN m ELSE Refused(m)
  ELSE [m EXCEPT !.declared = @ \cup {x}, !.hoisted = @ \cup (IF shared THEN {x} ELSE {})]
HoistAll(m, xs, shared) == FoldSet(LAMBDA x, acc : Hoist(acc, x, shared), m, xs)

SiteOf(m, name) == name \o <<ToString(m.ordinal[name])>>
\* Mutant: every call of a task takes the same site.
SameSite(m, name) == m
TakeSite(m, name) == [m EXCEPT !.ordinal[name] = @ + 1]

\* The union of functions whose domains are apart.
Joined(fs) == FoldSet(LAMBDA f, acc : f @@ acc, [x \in {} |-> None], fs)

\* A body whose nested calls are expanded already, as the block of one call:
\* the arguments in order, the locals, the renames, the copies, the checks.
Spliced(m, st, task, site, body) ==
  LET args == [k \in DOMAIN task.formals |->
                 LowerFormal(task, task.formals[k], site \o task.formals[k].name,
                             ActualOf(task, st.args, k), body)]
      All(field) == UNION {args[k][field] : k \in DOMAIN args}
      block == Block(site, "", task.vars, body)
      locals == LocalsOf(block)
      spanned == Spanned(block)
      NameOf(l) == LocalName(st.name, site, spanned, l)
      subst == Joined({task.formals[k].name :> args[k].subst : k \in DOMAIN args})
                 @@ [l \in locals |-> Id(NameOf(l))]
      own == (IF HasWait(body) THEN {} ELSE {NameOf(l) : l \in task.vars}) \cup All("temp")
      ss == FlattenSeq([k \in DOMAIN args |-> args[k].head])
              \o RenameInto(Redeclared(body, site), subst)
              \o FlattenSeq([k \in DOMAIN args |-> args[k].tail])
      captured == {task.formals[k].name : k \in {j \in DOMAIN args : task.formals[j].dir \in Copies}}
      hoisted == HoistAll(HoistAll(m, All("reg"), FALSE), {NameOf(l) : l \in spanned}, TRUE)
  IN  IF \/ Len(st.args) > Len(task.formals)
         \/ \E k \in DOMAIN args : ~args[k].ok
         \/ RefusedLocals(task, block)
         \/ \E w \in Statements(body) : w.op = "wait" /\ w.name \in captured
         \/ \E x \in All("check") : FirstReference(ss, x) = "read" \/ x \notin AllPathsWrites(ss)
      THEN [m |-> Refused(m), ss |-> <<>>]
      ELSE [m |-> [hoisted EXCEPT !.inlined = @ \cup {st.name}], ss |-> <<Site(site, own, ss)>>]

RECURSIVE InlineCalls(_, _, _)

\* A call takes its site before the calls of its own body take theirs.
ExpandCall(m, st, visiting) ==
  LET task == tasks[st.name]
      returns == LowerReturnList(task.body)
      nested == InlineCalls(TakeSite(m, st.name), returns.ss, visiting \cup {st.name})
  IN  IF st.name \in visiting \/ ~returns.ok THEN [m |-> Refused(m), ss |-> <<>>]
      ELSE IF ~nested.m.ok THEN nested
      ELSE Spliced(nested.m, st, task, SiteOf(m, st.name), nested.ss)

\* The calls of a text, in order, however deep.
InlineCalls(m, ss, visiting) ==
  IF ss = <<>> \/ ~m.ok THEN [m |-> m, ss |-> ss]
  ELSE
  LET st == Head(ss)
      body == InlineCalls(m, st.body, visiting)
      alt == InlineCalls(body.m, st.alt, visiting)
      first == IF st.op = "call" /\ st.name \in DOMAIN tasks
               THEN ExpandCall(m, st, visiting)
               ELSE [m |-> alt.m, ss |-> <<[st EXCEPT !.body = body.ss, !.alt = alt.ss]>>]
      others == InlineCalls(first.m, Tail(ss), visiting)
  IN  [m |-> others.m, ss |-> first.ss \o others.ss]

---------------------------------------------------------------------------
(* The pass, then a process run as written and as inlined.                 *)

Idle == [todo |-> <<>>, mem |-> [x \in {} |-> 0], bad |-> FALSE, clk |-> Clock, halted |-> TRUE]

Init ==
  /\ program \in Programs
  /\ phase = "rename" /\ next = 1 /\ process = 0
  /\ tasks = program.tasks /\ texts = program.processes
  /\ made = [ordinal |-> [t \in DOMAIN program.tasks |-> 0], declared |-> {}, hoisted |-> {},
              inlined |-> {}, ok |-> TRUE]
  /\ source = Idle /\ lowered = Idle

AlphaRename ==
  /\ phase = "rename"
  /\ LET r == RenameModule(Inputs \cup Registers, tasks, texts)
     IN  /\ tasks' = r.tasks /\ texts' = r.texts
         /\ made' = [made EXCEPT !.declared = DeclaredNames(Inputs \cup Registers, r.tasks, r.texts)]
  /\ phase' = "inline"
  /\ UNCHANGED <<program, next, process, source, lowered>>

InlineProcess ==
  /\ phase = "inline" /\ next <= Len(texts)
  /\ LET r == InlineCalls(made, texts[next], {})
     IN  /\ made' = r.m
         /\ texts' = IF r.m.ok THEN [texts EXCEPT ![next] = r.ss] ELSE texts
         /\ phase' = IF r.m.ok THEN phase ELSE "refused"
  /\ next' = next + 1
  /\ UNCHANGED <<program, tasks, process, source, lowered>>

Inlined ==
  /\ phase = "inline" /\ next > Len(texts)
  /\ phase' = "sweep"
  /\ UNCHANGED <<program, tasks, texts, next, made, process, source, lowered>>

\* The calls of the module: its marked processes, its other processes and
\* the tasks it still has.
Called == UNION {CallNames(texts[i]) : i \in DOMAIN texts} \cup program.others
            \cup UNION {CallNames(tasks[t].body) : t \in DOMAIN tasks}
Dropped == {t \in made.inlined \cap DOMAIN tasks : t \notin Called}

\* Mutant: one round.
SweptOnce == TRUE
Swept == Dropped = {}

\* A task dropped may have held the last call of another.
Sweep ==
  /\ phase = "sweep"
  /\ tasks' = [t \in DOMAIN tasks \ Dropped |-> tasks[t]]
  /\ phase' = IF Swept THEN "inlined" ELSE "sweep"
  /\ UNCHANGED <<program, texts, next, made, process, source, lowered>>

\* The processes share no register: each is run alone, from registers at zero.
StartProcess ==
  /\ phase = "inlined"
  /\ phase' = "run"
  /\ \E p \in DOMAIN texts, driven \in [Inputs \ {Clock} -> 0 .. Modulus - 1] :
       LET mem == driven @@ [r \in Registers |-> 0]
       IN  /\ process' = p
           /\ source' = Start(program.tasks, program.processes[p], mem)
           /\ lowered' = Start(tasks, texts[p], mem)
  /\ UNCHANGED passVars

\* A text that reads what nothing assigned is refused later.
ClockEdge ==
  /\ phase = "run" /\ ~lowered.bad /\ ~source.halted
  /\ \E driven \in [Inputs \ {Clock} -> 0 .. Modulus - 1] :
       /\ source' = Edge(program.tasks, source, driven @@ source.mem)
       /\ lowered' = Edge(tasks, lowered, driven @@ lowered.mem)
  /\ UNCHANGED <<program, phase, tasks, texts, next, made, process>>

Next == AlphaRename \/ InlineProcess \/ Inlined \/ Sweep \/ StartProcess \/ ClockEdge
Spec == Init /\ [][Next]_vars

---------------------------------------------------------------------------
(* Properties.                                                             *)

Threads == {source, lowered}

\* Where the inlined text may write: what the module declares, and its blocks
\* own.
Places ==
  Inputs \cup Registers \cup made.declared
    \cup UNION {{PlaceIn(None, b.id, l) : l \in b.vars} : b \in UNION {Statements(texts[i]) : i \in DOMAIN texts}}

\* Every variable holds a value of its kind, and the inlined text writes
\* nothing that is not declared.
TypeOK ==
  /\ phase \in {"rename", "inline", "sweep", "inlined", "run", "refused"}
  /\ made \in [ordinal : [DOMAIN program.tasks -> Nat], declared : SUBSET Seq(STRING),
               hoisted : SUBSET Seq(STRING), inlined : SUBSET DOMAIN program.tasks, ok : BOOLEAN]
  /\ next \in 1 .. Len(texts) + 1 /\ process \in 0 .. Len(texts)
  /\ DOMAIN tasks \subseteq DOMAIN program.tasks
  /\ \A t \in Threads : /\ \A x \in DOMAIN t.mem : t.mem[x] \in {Unknown} \cup 0 .. Modulus - 1
                       /\ t.bad \in BOOLEAN /\ t.halted \in BOOLEAN
  /\ DOMAIN lowered.mem \subseteq Places

\* The inlined process is the process: at every edge of the clock, whatever
\* drives the inputs, both have written the same registers and both have
\* stopped or neither has.
SameRegisters ==
  phase = "run" /\ ~lowered.bad =>
    /\ \A r \in Registers : lowered.mem[r] = source.mem[r]
    /\ lowered.halted = source.halted

\* No call is left without the task it calls, and no inlined task is kept
\* that only the dropped ones called.
CallsStand ==
  phase = "inlined" =>
    /\ Called \subseteq DOMAIN tasks
    /\ \A t \in made.inlined \cap DOMAIN tasks : t \in Called

\* The blocks that calls became have labels of their own, and in a process no
\* two blocks declare one name, nor a name of the module.
StorageApart ==
  phase = "inlined" =>
    LET blocks(i) == {st \in Statements(texts[i]) : st.op \in Blocks}
    IN  \A i, j \in DOMAIN texts : \A b \in blocks(i), c \in blocks(j) :
          /\ b.vars \cap (Inputs \cup Registers \cup made.hoisted) = {}
          /\ b # c /\ "site" \in {b.op, c.op} => b.name # c.name
          /\ b # c /\ i = j => b.vars \cap c.vars = {}
=============================================================================
