------------------------------ MODULE TaskText ------------------------------
(***************************************************************************)
(* The text of marked processes that call tasks, and what it means: the    *)
(* reference the inlining is checked against.  A thread runs in zero time  *)
(* from one clock edge to the next; `=` and the copies of a call are seen  *)
(* at once, `<=` at the edge.  The arguments and locals of a static task   *)
(* are one storage for all its calls, those of an automatic one are new at *)
(* each call; a ref argument is its actual.                                *)
(*                                                                         *)
(* A name is the sequence of its pieces (clk is <<"clk">>, t_0_f is        *)
(* <<"t", "0", "f">>), and an expression is a name plus a constant, or a   *)
(* constant when it has no name.                                           *)
(***************************************************************************)
EXTENDS Integers, Sequences, SequencesExt

CONSTANTS Modulus,   \* of the values
          Clock,     \* what every wait must listen to
          Fuel       \* steps without a wait after which a thread is endless

None == <<>>
Const(k) == [name |-> None, n |-> k]
Id(x) == [name |-> x, n |-> 0]
IsConst(e) == e.name = None
IsId(e) == e.name # None /\ e.n = 0

Statement(op, name, expr, body, alt) ==
  [op |-> op, name |-> name, expr |-> expr, body |-> body, alt |-> alt,
   vars |-> {}, id |-> "", args |-> <<>>]

Wait(clk) == Statement("wait", clk, Const(0), <<>>, <<>>)
Nba(x, e) == Statement("nba", x, e, <<>>, <<>>)
Ba(x, e) == Statement("ba", x, e, <<>>, <<>>)
If(e, then, else) == Statement("if", None, e, then, else)
While(e, ss) == Statement("while", None, e, ss, <<>>)
\* The id of a block, of no meaning in the language, tells it from the others.
Block(label, id, vars, ss) ==
  [Statement("block", label, Const(0), ss, <<>>) EXCEPT !.vars = vars, !.id = id]
Return == Statement("return", None, Const(0), <<>>, <<>>)
Call(t, args) == [Statement("call", t, Const(0), <<>>, <<>>) EXCEPT !.args = args]

\* The statements the inlining makes: the copies of a call, in place of the
\* call's own, and the block they stand in.
Copy(x, e) == Statement("copy", x, e, <<>>, <<>>)
Site(label, vars, ss) == [Statement("site", label, Const(0), ss, <<>>) EXCEPT !.vars = vars]

Writes == {"nba", "ba", "copy"}
Blocks == {"block", "site"}
Copies == {"input", "output", "inout"}   \* the directions that copy

\* A formal without a default has none to give.
Formal(x, dir, default) == [name |-> x, dir |-> dir, default |-> default]
Task(automatic, formals, vars, ss) ==
  [automatic |-> automatic, formals |-> formals, vars |-> vars, body |-> ss]

\* The actual of a call's k-th formal.
ActualOf(task, args, k) == IF k <= Len(args) THEN args[k] ELSE task.formals[k].default

\* The statements of a text, at any depth.
RECURSIVE Statements(_)
Statements(ss) ==
  UNION {{ss[i]} \cup Statements(ss[i].body) \cup Statements(ss[i].alt) : i \in DOMAIN ss}

CallNames(ss) == {st.name : st \in {c \in Statements(ss) : c.op = "call"}}
HasWait(ss) == \E st \in Statements(ss) : st.op = "wait"

---------------------------------------------------------------------------
(* A thread: what it has left to do, the store, and whether it has read    *)
(* something nothing had assigned.                                         *)

Unknown == -1

\* Where a name of a scope is held; a scope maps the names it declares.
Held(scope, x) == IF x \in DOMAIN scope THEN scope[x] ELSE x
Read(mem, place) == IF place \in DOMAIN mem THEN mem[place] ELSE Unknown
Value(e, scope, mem) ==
  IF IsConst(e) THEN e.n
  ELSE LET v == Read(mem, Held(scope, e.name)) IN IF v = Unknown THEN Unknown ELSE (v + e.n) % Modulus

Put(mem, place, v) == [p \in DOMAIN mem \cup {place} |-> IF p = place THEN v ELSE mem[p]]

\* A statement to do in a scope, within a task (None outside of one); the
\* copies out of a call; the test of a loop.
Do(st, scope, task) == [do |-> "statement", st |-> st, scope |-> scope, task |-> task]
DoAll(ss, scope, task) == [i \in DOMAIN ss |-> Do(ss[i], scope, task)]
Leave(st, scope, task) == [do |-> "leave", st |-> st, scope |-> scope, task |-> task]

\* Where the storage a task or a block declares is.
PlaceIn(task, id, x) == <<"@">> \o task \o <<id>> \o x
Declare(scope, task, id, xs) ==
  [x \in DOMAIN scope \cup xs |-> IF x \in xs THEN PlaceIn(task, id, x) ELSE scope[x]]
Renew(mem, task, id, xs) ==
  LET places == {PlaceIn(task, id, x) : x \in xs}
  IN  [p \in DOMAIN mem \cup places |-> IF p \in places THEN Unknown ELSE mem[p]]

\* Entering a call: the copies in, from the scope of the caller.
CopiedIn(tasks, st, scope, mem) ==
  LET task == tasks[st.name]
      fresh == IF task.automatic
               THEN Renew(mem, st.name, "", {task.formals[k].name : k \in DOMAIN task.formals})
               ELSE mem
      after[k \in 0 .. Len(task.formals)] ==
        IF k = 0 THEN fresh
        ELSE IF task.formals[k].dir \in {"input", "inout"}
             THEN Put(after[k - 1], PlaceIn(st.name, "", task.formals[k].name),
                      Value(ActualOf(task, st.args, k), scope, mem))
             ELSE after[k - 1]
  IN  after[Len(task.formals)]

\* The names of a task: its own storage, or the actual of a ref.
ScopeOf(tasks, st, scope) ==
  LET task == tasks[st.name]
  IN  [x \in {task.formals[k].name : k \in DOMAIN task.formals} |->
         LET k == CHOOSE j \in DOMAIN task.formals : task.formals[j].name = x
         IN  IF task.formals[k].dir \in Copies THEN PlaceIn(st.name, "", x)
             ELSE Held(scope, ActualOf(task, st.args, k).name)]

CopiedOut(tasks, st, scope, mem) ==
  LET task == tasks[st.name]
      after[k \in 0 .. Len(task.formals)] ==
        IF k = 0 THEN mem
        ELSE IF task.formals[k].dir \in {"output", "inout"}
             THEN Put(after[k - 1], Held(scope, ActualOf(task, st.args, k).name),
                      Read(mem, PlaceIn(st.name, "", task.formals[k].name)))
             ELSE after[k - 1]
  IN  after[Len(task.formals)]

\* What a statement reads has never been assigned.
Blank(e, scope, mem) == Value(e, scope, mem) = Unknown

\* Run from k until the next wait: w holds what `<=` has written.
RECURSIVE Run(_, _, _, _, _, _)
Run(tasks, k, mem, w, bad, fuel) ==
  IF k = <<>> \/ fuel = 0 THEN [todo |-> k, mem |-> w @@ mem, bad |-> bad, clk |-> Clock, halted |-> TRUE]
  ELSE
  LET item == Head(k)
      st == item.st
      rest == Tail(k)
      v == Value(st.expr, item.scope, mem)
      blank == bad \/ v = Unknown
      place == Held(item.scope, st.name)
      On(branch) == DoAll(branch, item.scope, item.task)
  IN
  IF item.do = "leave" THEN Run(tasks, rest, CopiedOut(tasks, st, item.scope, mem), w, bad, fuel - 1)
  ELSE
  CASE st.op = "wait" ->
         [todo |-> rest, mem |-> w @@ mem, bad |-> bad, clk |-> place, halted |-> FALSE]
    [] st.op = "nba" -> Run(tasks, rest, mem, Put(w, place, v), blank, fuel - 1)
    [] st.op \in {"ba", "copy"} -> Run(tasks, rest, Put(mem, place, v), w, blank, fuel - 1)
    [] st.op = "if" ->
         Run(tasks, On(IF v > 0 THEN st.body ELSE st.alt) \o rest, mem, w, blank, fuel - 1)
    [] st.op = "while" ->
         Run(tasks, (IF v > 0 THEN On(st.body) \o <<item>> ELSE <<>>) \o rest, mem, w, blank, fuel - 1)
    [] st.op \in Blocks ->
         LET kept == item.task # None /\ ~tasks[item.task].automatic
         IN  Run(tasks, DoAll(st.body, Declare(item.scope, item.task, st.id, st.vars), item.task) \o rest,
                 IF kept THEN mem ELSE Renew(mem, item.task, st.id, st.vars), w, bad, fuel - 1)
    [] st.op = "call" ->
         LET task == tasks[st.name]
         IN  Run(tasks,
                 <<Do(Block(None, "", task.vars, task.body), ScopeOf(tasks, st, item.scope), st.name),
                   Leave(st, item.scope, item.task)>> \o rest,
                 CopiedIn(tasks, st, item.scope, mem), w, bad, fuel - 1)
    [] st.op = "return" ->
         LET out == CHOOSE i \in DOMAIN rest :
                      rest[i].do = "leave" /\ \A j \in DOMAIN rest : rest[j].do = "leave" => i <= j
         IN  Run(tasks, SubSeq(rest, out, Len(rest)), mem, w, bad, fuel - 1)

\* A thread at the start of its process, and one edge of the clock: a thread
\* that waits on a copy of the clock never wakes.
Start(tasks, ss, mem) == Run(tasks, DoAll(ss, [x \in {} |-> None], None), mem, [p \in {} |-> 0], FALSE, Fuel)
Edge(tasks, thread, mem) ==
  IF thread.halted \/ thread.clk # Clock THEN [thread EXCEPT !.mem = mem]
  ELSE Run(tasks, thread.todo, mem, [p \in {} |-> 0], thread.bad, Fuel)
=============================================================================
