--------------------------- MODULE FsmAlphaRename ---------------------------
(***************************************************************************)
(* The renaming of the block locals of the marked processes, and of the    *)
(* tasks they reach, that share a name (fsm_alpha_rename.cpp): what comes  *)
(* after substitutes by name.                                              *)
(*                                                                         *)
(* A scope w is what the walk of one process or task carries: the names it *)
(* has met, those made so far, those that may not be shadowed, those a new *)
(* name may not be, and what the names in scope became.                    *)
(***************************************************************************)
EXTENDS TaskText, FiniteSets, FiniteSetsExt, TLC

\* The first numbered name that is free: the arguments and the locals of a
\* task are not among the declared names.
Fresh(w, l) ==
  LET Free(k) == l \o <<ToString(k)>> \notin w.declared \cup w.used
      k == CHOOSE i \in 0 .. Cardinality(w.declared \cup w.used) : Free(i) /\ \A j \in 0 .. i - 1 : ~Free(j)
  IN  l \o <<ToString(k)>>

\* Mutant: a local of a process may have a name of the module.
DeclareApart(w, l) ==
  LET new == IF l \in w.seen THEN Fresh(w, l) ELSE l
  IN  [w EXCEPT !.seen = @ \cup {l, new}, !.used = @ \cup ({new} \ {l}), !.frame = (l :> new) @@ @]

DeclareLocal(w, l) ==
  LET new == IF l \in w.seen \cup w.shadowed THEN Fresh(w, l) ELSE l
  IN  [w EXCEPT !.seen = @ \cup {l, new}, !.used = @ \cup ({new} \ {l}), !.frame = (l :> new) @@ @]

RefersTo(frame, x) == IF x \in DOMAIN frame THEN frame[x] ELSE x
RenameRef(frame, e) == [e EXCEPT !.name = RefersTo(frame, @)]

\* What a block declares is in scope to its end.
RECURSIVE RenameList(_, _)
RenameList(w, ss) ==
  IF ss = <<>> THEN [w |-> w, ss |-> ss]
  ELSE
  LET st == Head(ss)
      in == FoldSet(LAMBDA l, acc : DeclareLocal(acc, l), w, st.vars)
      body == RenameList(in, st.body)
      alt == RenameList([body.w EXCEPT !.frame = w.frame], st.alt)
      rest == RenameList([alt.w EXCEPT !.frame = w.frame], Tail(ss))
      renamed == [st EXCEPT !.name = IF st.op \in Writes \cup {"wait"} THEN RefersTo(w.frame, @) ELSE @,
                            !.expr = RenameRef(w.frame, @),
                            !.args = [k \in DOMAIN @ |-> RenameRef(w.frame, @[k])],
                            !.vars = {in.frame[l] : l \in @},
                            !.body = body.ss, !.alt = alt.ss]
  IN  [w |-> rest.w, ss |-> <<renamed>> \o rest.ss]

\* The arguments are in scope; the locals declared outside of any block are
\* left as they are, and are not met.
RenameTask(w, task) ==
  LET formals == {task.formals[k].name : k \in DOMAIN task.formals}
      r == RenameList([w EXCEPT !.seen = formals, !.shadowed = {}, !.frame = [x \in formals |-> x]],
                      task.body)
  IN  [w |-> r.w, task |-> [task EXCEPT !.body = r.ss]]

\* The tasks the processes call, and those they call in turn.
Reached(tasks, texts) ==
  LET step[k \in 0 .. Cardinality(DOMAIN tasks)] ==
        IF k = 0 THEN UNION {CallNames(texts[i]) : i \in DOMAIN texts} \cap DOMAIN tasks
        ELSE step[k - 1] \cup (UNION {CallNames(tasks[t].body) : t \in step[k - 1]} \cap DOMAIN tasks)
  IN  step[Cardinality(DOMAIN tasks)]

\* UniqueDeclaration of the module: what its processes name, and of its
\* tasks the name only.
DeclaredNames(module, tasks, texts) ==
  LET all == UNION {Statements(texts[i]) : i \in DOMAIN texts}
  IN  module \cup DOMAIN tasks \cup UNION {st.vars \cup {st.name, st.expr.name} : st \in all}

\* FsmAlphaRename::rename_module: the tasks, then the processes.
RenameModule(module, tasks, texts) ==
  LET scope == [seen |-> {}, used |-> {}, shadowed |-> {}, frame |-> [x \in {} |-> x],
                declared |-> DeclaredNames(module, tasks, texts)]
      OneTask(t, acc) ==
        LET r == RenameTask(acc.w, acc.tasks[t])
        IN  [acc EXCEPT !.w = r.w, !.tasks[t] = r.task]
      OneText(acc, i) ==
        LET r == RenameList([acc.w EXCEPT !.seen = {}, !.shadowed = module \cup DOMAIN tasks,
                                          !.frame = [x \in {} |-> x]], texts[i])
        IN  [acc EXCEPT !.w = r.w, !.texts[i] = r.ss]
      renamedTasks == FoldSet(OneTask, [w |-> scope, tasks |-> tasks, texts |-> texts], Reached(tasks, texts))
  IN  FoldLeft(OneText, renamedTasks, [i \in DOMAIN texts |-> i])
=============================================================================
