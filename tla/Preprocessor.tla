---------------------------- MODULE Preprocessor ----------------------------
(***************************************************************************)
(* The preprocessor: the start conditions of pp_scanner.ll, the directives *)
(* of pp_scanner_impl.cpp, the macro table, the stack of pushed buffers    *)
(* (macro expansions and included files) and the files of one command      *)
(* line.  An item is a word of text, a line's end, or a directive with its *)
(* name.  Object-like macros only.                                         *)
(***************************************************************************)
EXTENDS ConditionalStack, FiniteSets

CONSTANTS
  Macros,       \* the names that may be defined
  NoMacro,      \* of a buffer that is an included file
  Predefined,   \* the names the command line defines, with an empty body
  Text,         \* the items of each file an include can find
  Items,        \* what the files of the command line may hold
  BodyItems,    \* bound: what the bodies of macros may hold
  MaxDepth,     \* kMaxExpansionDepth
  MaxInclude,   \* max_include_depth
  MaxNest,      \* bound: groups open at once
  MaxBranches,  \* bound: branches of one group
  MaxBody,      \* bound: items of one macro body
  SharedLines   \* whether a conditional directive may follow another one on its line

Plain == {"text", "eol", "cont"}
Conditionals == {"ifdef", "ifndef", "elsif", "else", "endif"}
Others == {"define", "undef", "undefineall", "include", "use"}

Name == Macros \cup DOMAIN Text \cup {NoMacro}

Item == [op : Plain \cup {"else", "endif", "undefineall"}, arg : {NoMacro}]
        \cup [op : {"ifdef", "ifndef", "elsif", "define", "undef", "use"}, arg : Macros]
        \cup [op : {"include"}, arg : Name]

\* A body holds line ends, and no escaped ones.
BodyItem == {i \in Item : i.op # "cont"}

ASSUME ItemAssumption == Items \subseteq Item /\ \A f \in DOMAIN Text : Text[f] \in Seq(Item)
ASSUME LimitAssumption == MaxDepth \in Nat /\ MaxInclude \in Nat
ASSUME PredefinedAssumption == Predefined \subseteq Macros /\ NoMacro \notin Macros

VARIABLES
  cond,      \* m_conditionals
  table,     \* m_macros
  frames,    \* m_frames: the pushed buffers, innermost last; below them the file
  mode,      \* the start condition
  pending,   \* the define or the include being read
  answer,    \* "running", then run_scanner's: "ok" or "failed"
  groups,    \* history: the groups open in the text read so far
  defining   \* history: the line belongs to a `define

vars == <<cond, table, frames, mode, pending, answer, groups, defining>>

Macro(body) == [body |-> body, depth |-> 0]

\* MacroTable::define: the entry of a name that has one is overwritten.
TableWith(t, names, body) ==
  [m \in DOMAIN t \cup names |-> IF m \in names THEN Macro(body) ELSE t[m]]

\* MacroTable::undef, undef_all
TableWithout(t, names) == [m \in DOMAIN t \ names |-> t[m]]

NonePending == [name |-> NoMacro, body |-> <<>>]

\* install_predefines
Installed(t) == TableWith(t, Predefined, <<>>)

Init ==
  /\ cond = <<>> /\ frames = <<>> /\ mode = "initial" /\ pending = NonePending
  /\ table = Installed(<<>>)
  /\ answer = "running"
  /\ groups = <<>> /\ defining = FALSE

-----------------------------------------------------------------------------
(* Reading *)

buffer == frames[Len(frames)]

\* The item the scanner reads next, and the buffers once it is read.
Ahead ==
  IF frames = <<>> THEN {[item |-> i, frames |-> <<>>] : i \in Items}
  ELSE IF buffer.rest = <<>> THEN {}
  ELSE {[item |-> Head(buffer.rest), frames |-> [frames EXCEPT ![Len(frames)].rest = Tail(@)]]}

\* The bounds, on what the file of the command line holds.
Within(item) ==
  /\ item.op \in {"ifdef", "ifndef"} => Len(cond) < MaxNest \/ mode # "initial"
  /\ item.op = "elsif" /\ groups # <<>> => Len(groups[Len(groups)].conds) < MaxBranches
  /\ mode = "define" /\ item.op # "eol" => item \in BodyItems /\ Len(pending.body) < MaxBody

\* The lines the instance admits.
OneDirective(item) ==
  item.op \in Conditionals /\ mode \in {"skip", "tail"} /\ ~defining => SharedLines

IsDefined(m) == m \in DOMAIN table

\* What the text means so far, whatever the scanner does with it.
Observe(item) ==
  /\ groups' = IF defining THEN groups ELSE
               CASE item.op = "ifdef" -> Open(groups, IsDefined(item.arg))
                 [] item.op = "ifndef" -> Open(groups, ~IsDefined(item.arg))
                 [] item.op = "elsif" -> Branch(groups, IsDefined(item.arg), FALSE)
                 [] item.op = "else" -> Branch(groups, TRUE, TRUE)
                 [] item.op = "endif" -> Close(groups)
                 [] OTHER -> groups
  /\ defining' = (item.op # "eol" /\ (defining \/ item.op = "define"))

Read(a, op) == mode = "initial" /\ a.item.op = op

\* A bug: a directive acts in skipped text too.
ActAlways(a, op) == Read(a, op)

\* A directive that is not a conditional one acts in emitted text only.
Act(a, op) == Read(a, op) /\ Emitting(cond)

-----------------------------------------------------------------------------
(* handle_backtick and the start conditions it enters *)

Emit(a) ==
  /\ \/ mode = "initial" /\ a.item.op \in Plain
     \/ Act(a, "use") /\ ~IsDefined(a.item.arg)
  /\ frames' = a.frames
  /\ UNCHANGED <<cond, table, mode, pending>>

Conditional(a) ==
  /\ \/ Read(a, "ifdef") /\ cond' = PushIfdef(cond, IsDefined(a.item.arg))
     \/ Read(a, "ifndef") /\ cond' = PushIfndef(cond, IsDefined(a.item.arg))
     \/ Read(a, "elsif") /\ cond' = HandleElsif(cond, IsDefined(a.item.arg))
     \/ Read(a, "else") /\ cond' = HandleElse(cond)
     \/ Read(a, "endif") /\ cond' = HandleEndif(cond)
  /\ frames' = a.frames
  /\ UNCHANGED <<table, mode, pending>>

SkipDirective(a) ==
  /\ mode = "initial" /\ a.item.op \in Others /\ ~Emitting(cond)
  /\ mode' = "skip"
  /\ frames' = a.frames
  /\ UNCHANGED <<cond, table, pending>>

SkipToEol(a) ==
  /\ mode = "skip"
  /\ mode' = IF a.item.op = "eol" THEN "initial" ELSE "skip"
  /\ frames' = a.frames
  /\ UNCHANGED <<cond, table, pending>>

Define(a) ==
  /\ Act(a, "define")
  /\ mode' = "define" /\ pending' = [name |-> a.item.arg, body |-> <<>>]
  /\ frames' = a.frames
  /\ UNCHANGED <<cond, table>>

\* A bug: an escaped line end stays escaped.
DefineBodyRaw(a) ==
  /\ mode = "define" /\ a.item.op # "eol"
  /\ pending' = [pending EXCEPT !.body = Append(@, a.item)]
  /\ frames' = a.frames
  /\ UNCHANGED <<cond, table, mode>>

\* Directives in a body are not acted upon; an escaped line end is one in the body.
DefineBody(a) ==
  /\ mode = "define" /\ a.item.op # "eol"
  /\ LET i == IF a.item.op = "cont" THEN [op |-> "eol", arg |-> NoMacro] ELSE a.item
     IN  pending' = [pending EXCEPT !.body = Append(@, i)]
  /\ frames' = a.frames
  /\ UNCHANGED <<cond, table, mode>>

\* The entry keeps its place in the table: frames still refer to it.
DefineFinish(a) ==
  /\ mode = "define" /\ a.item.op = "eol"
  /\ table' = TableWith(table, {pending.name}, pending.body)
  /\ mode' = "initial" /\ pending' = NonePending
  /\ frames' = a.frames
  /\ UNCHANGED cond

\* The expansions of an erased entry are left with a dangling reference to it.
Erased(fs, names) ==
  [i \in DOMAIN fs |-> IF fs[i].macro \in names THEN [fs[i] EXCEPT !.stale = TRUE] ELSE fs[i]]

Undef(a) ==
  /\ Act(a, "undef")
  /\ table' = TableWithout(table, {a.item.arg})
  /\ frames' = IF IsDefined(a.item.arg) THEN Erased(a.frames, {a.item.arg}) ELSE a.frames
  /\ mode' = "skip"
  /\ UNCHANGED <<cond, pending>>

UndefineAll(a) ==
  /\ Act(a, "undefineall")
  /\ table' = TableWithout(table, Macros)
  /\ frames' = Erased(a.frames, Macros)
  /\ UNCHANGED <<cond, mode, pending>>

IncludeArg(a) ==
  /\ Act(a, "include")
  /\ mode' = "tail" /\ pending' = [name |-> a.item.arg, body |-> <<>>]
  /\ frames' = a.frames
  /\ UNCHANGED <<cond, table>>

TailJunk(a) ==
  /\ mode = "tail" /\ a.item.op # "eol"
  /\ mode' = "skip" /\ pending' = NonePending
  /\ frames' = a.frames
  /\ UNCHANGED <<cond, table>>

PushBuffer(fs, m, items) == Append(fs, [macro |-> m, stale |-> FALSE, rest |-> items])

\* The file is opened once the line is read; not found or too deep, it is dropped.
IncludeOpen(a) ==
  /\ mode = "tail" /\ a.item.op = "eol"
  /\ frames' = IF pending.name \in DOMAIN Text /\ Len(a.frames) < MaxInclude
               THEN PushBuffer(a.frames, NoMacro, Text[pending.name])
               ELSE a.frames
  /\ mode' = "initial" /\ pending' = NonePending
  /\ UNCHANGED <<cond, table>>

\* A bug: one expansion too many.
ExpandOneMore(a) ==
  /\ Act(a, "use") /\ IsDefined(a.item.arg)
  /\ LET m == a.item.arg
     IN  IF table[m].depth > MaxDepth
         THEN frames' = a.frames /\ UNCHANGED table
         ELSE /\ frames' = PushBuffer(a.frames, m, table[m].body)
              /\ table' = [table EXCEPT ![m].depth = @ + 1]
  /\ UNCHANGED <<cond, mode, pending>>

\* A bug: the expansion is pushed before the use is consumed.
ExpandUnread(a) ==
  /\ Act(a, "use") /\ IsDefined(a.item.arg)
  /\ LET m == a.item.arg
     IN  IF table[m].depth >= MaxDepth
         THEN frames' = a.frames /\ UNCHANGED table
         ELSE /\ frames' = PushBuffer(frames, m, table[m].body)
              /\ table' = [table EXCEPT ![m].depth = @ + 1]
  /\ UNCHANGED <<cond, mode, pending>>

Expand(a) ==
  /\ Act(a, "use") /\ IsDefined(a.item.arg)
  /\ LET m == a.item.arg
     IN  IF table[m].depth >= MaxDepth
         THEN frames' = a.frames /\ UNCHANGED table
         ELSE /\ frames' = PushBuffer(a.frames, m, table[m].body)
              /\ table' = [table EXCEPT ![m].depth = @ + 1]
  /\ UNCHANGED <<cond, mode, pending>>

\* The end of a pushed buffer, in any start condition.  What the decrement of an
\* erased entry reaches is undefined: an entry of that name made since, or nothing.
PopBuffer ==
  /\ frames # <<>> /\ buffer.rest = <<>>
  /\ frames' = SubSeq(frames, 1, Len(frames) - 1)
  /\ \/ /\ IsDefined(buffer.macro)
        /\ table' = [table EXCEPT ![buffer.macro].depth = @ - 1]
     \/ /\ buffer.macro = NoMacro \/ buffer.stale
        /\ UNCHANGED table
  /\ UNCHANGED <<cond, mode, pending, groups, defining>>

Scan ==
  \/ \E a \in Ahead :
       /\ frames = <<>> => Within(a.item)
       /\ OneDirective(a.item)
       /\ \/ Emit(a) \/ Conditional(a) \/ SkipDirective(a) \/ SkipToEol(a)
          \/ Define(a) \/ DefineBody(a) \/ DefineFinish(a)
          \/ Undef(a) \/ UndefineAll(a)
          \/ IncludeArg(a) \/ TailJunk(a) \/ IncludeOpen(a)
          \/ Expand(a)
       /\ Observe(a.item)
  \/ PopBuffer

\* A bug: a group left open in emitted text is not reported.
EndOfFileIfSkipping ==
  /\ frames = <<>>
  /\ answer' = IF ~Emitting(cond) THEN "failed" ELSE "ok"
  /\ UNCHANGED <<cond, table, frames, mode, pending, groups, defining>>

\* run_scanner refuses a file that leaves a group open.
EndOfFile ==
  /\ frames = <<>>
  /\ answer' = IF cond # <<>> THEN "failed" ELSE "ok"
  /\ UNCHANGED <<cond, table, frames, mode, pending, groups, defining>>

\* A scanner of its own for each file; the table and the conditions are the driver's.
NextFile ==
  /\ answer = "ok" /\ answer' = "running"
  /\ table' = Installed(table)
  /\ mode' = "initial" /\ pending' = NonePending /\ defining' = FALSE
  /\ UNCHANGED <<cond, frames, groups>>

Next ==
  \/ answer = "running" /\ Scan /\ UNCHANGED answer
  \/ answer = "running" /\ EndOfFile
  \/ NextFile

\* A buffer, once pushed, is read to its end.
Fairness == WF_vars(frames # <<>> /\ Next)

Spec == Init /\ [][Next]_vars /\ Fairness

-----------------------------------------------------------------------------
Entry == [body : Seq(BodyItem), depth : Int]
Buffer == [macro : Macros \cup {NoMacro}, stale : BOOLEAN, rest : Seq(Item)]

(* What the scanner keeps; what it stored of a `define is text it can read *)
(* again.                                                                  *)
TypeOK ==
  /\ cond \in Seq(CondFrame)
  /\ DOMAIN table \subseteq Macros /\ table \in [DOMAIN table -> Entry]
  /\ frames \in Seq(Buffer)
  /\ mode \in {"initial", "skip", "define", "tail"}
  /\ pending \in [name : Name, body : Seq(BodyItem)]
  /\ mode = "define" => pending.name \in Macros
  /\ answer \in {"running", "ok", "failed"}
  /\ groups \in Seq(Group) /\ defining \in BOOLEAN

(* Text is emitted exactly when it stands: the three states of a frame,    *)
(* and the collapse of a group opened in skipped text, decide as the       *)
(* conditions of all the branches read since each `ifdef would.            *)
EmitsWhatStands == Emitting(cond) <=> Stands(groups)

(* In an inactive branch no directive takes effect: nothing is defined or  *)
(* undefined, no macro expanded and no file opened until it ends.          *)
SkippedHasNoEffect ==
  [][~Stands(groups) =>
       /\ Len(frames') <= Len(frames)
       /\ DOMAIN table' = DOMAIN table
       /\ \A m \in DOMAIN table : table'[m].body = table[m].body]_vars

(* The counter kept in the table caps the expansions of a macro that are   *)
(* open at once, whatever ends, closes or includes happen in between.      *)
DepthCapped ==
  \A m \in Macros : Cardinality({i \in DOMAIN frames : frames[i].macro = m}) <= MaxDepth

(* A file ends well exactly when every group opened in it, in the files it *)
(* includes or in the macros it uses is closed.                            *)
UnterminatedReported == answer # "running" => (answer = "failed" <=> groups # <<>>)

(* Whatever the macros and the includes refer to, themselves included, the *)
(* scanner comes back to the file of the command line.                     *)
ExpansionsEnd == frames # <<>> ~> frames = <<>>
=============================================================================
