--------------------------- MODULE ModuleFlattener ---------------------------
(***************************************************************************)
(* The flattening of a hierarchy (module_flattener.cpp): each module is    *)
(* resolved for its instance, its own instances are flattened into it,     *)
(* and its declarations, prefixed and made distinct, are spliced into the  *)
(* text around it with one assignment for each connected port.             *)
(*                                                                         *)
(* A frame is one activation of the pass; the frame of a child lies above  *)
(* that of the text it goes into.  Interfaces, inout ports, subroutines    *)
(* and the statements of processes are left out: an assignment stands for  *)
(* whatever lets one value drive another.                                  *)
(***************************************************************************)
EXTENDS ModuleInstanceNormalizer

CONSTANTS Designs,    \* the designs to flatten: [modules, top]
          Draws       \* what get_unique_identifier may draw

VARIABLES design,     \* the name of the design
          deadcode,   \* whether dead code goes from the top text too
          stack,      \* the frames, the top module's first
          status      \* "running", "done" or "refused"

vars == <<design, deadcode, stack, status>>

Modules == Designs[design].modules
Joined(path) == FoldLeft(LAMBDA n, l : IF n = <<>> THEN l ELSE n \o <<"_">> \o l, <<>>, path)

\* A declaration and a kept instance remember where they come from.
Load(text) ==
  [text EXCEPT !.ports = [k \in DOMAIN @ |-> [of |-> << <<>>, @[k].name>>] @@ @[k]],
               !.decls = [k \in DOMAIN @ |-> [of |-> << <<>>, @[k].name>>] @@ @[k]],
               !.items = [k \in DOMAIN @ |-> IF @[k].is = "inst"
                                             THEN [of |-> <<@[k].name>>] @@ @[k] ELSE @[k]]]

NoTies == [decls |-> <<>>, items |-> <<>>]

Frame(inst, text) ==
  [phase |-> "resolve", inst |-> inst, text |-> Load(text), at |-> 1, port |-> 1,
   declared |-> {}, kinds |-> <<>>, held |-> <<>>, tree |-> {}, ties |-> NoTies]

Top == Last(stack)
Under == stack[Len(stack) - 1]
Go(f) == stack' = ReplaceAt(stack, Len(stack), f)
Still == UNCHANGED <<design, deadcode, status>>
Refuse == /\ status' = "refused"
          /\ stack' = <<stack[1]>>
          /\ UNCHANGED <<design, deadcode>>
In(phase) == status = "running" /\ Top.phase = phase

\* Mutant: the name is declared, never looked up.
UncheckedNames(base, declared) == {base}

\* A fresh name is the base when it is free, else the base and a draw.
FreshNames(base, declared) ==
  IF base \notin declared THEN {base}
  ELSE {base \o <<"_", s>> : s \in Draws} \ declared

\* UniqueDeclaration: the declared names, and those references end in.
ValueNames(v) == {v[k].name : k \in {j \in DOMAIN v : ~IsLit(v[j])}}
ItemNames(it) ==
  CASE it.is = "assign"   -> ValueNames(it.to) \cup ValueNames(it.from)
    [] it.is = "inst"     -> {it.name, it.module}
    [] it.is = "defparam" -> {it.param}
DeclaredNames(text) ==
  {text.name}
  \cup {Declared(text)[k].name : k \in DOMAIN Declared(text)}
  \cup {text.params[k].name : k \in DOMAIN text.params}
  \cup UNION {ItemNames(text.items[k]) : k \in DOMAIN text.items}

---------------------------------------------------------------------------
(* ResolveModule, on what a text holds here.                               *)

\* ParameterInliner: the instance's values replace the defaults, the
\* parameters are replaced in one another and then in the items.
Replaced(v, name, by) == [k \in DOMAIN v |-> IF v[k] = Ref(name) THEN by ELSE v[k]]
OverriddenParams(text, inst) ==
  [k \in DOMAIN text.params |->
     LET given == IF inst = <<>> THEN <<>> ELSE ParamActual(inst[1], text, text.params[k].name)
     IN  IF given = <<>> THEN text.params[k] ELSE [text.params[k] EXCEPT !.value = given]]
ResolveParamlist(ps) ==
  FoldLeft(LAMBDA qs, a : [b \in DOMAIN qs |->
              IF b = a \/ qs[a].value = <<>> THEN qs[b]
              ELSE [qs[b] EXCEPT !.value = Replaced(@, qs[a].name, qs[a].value[1])]],
           ps, [k \in DOMAIN ps |-> k])

MapValues(it, Op(_)) ==
  CASE it.is = "assign"   -> [it EXCEPT !.to = Op(@), !.from = Op(@)]
    [] it.is = "defparam" -> [it EXCEPT !.value = Op(@)]
    [] it.is = "inst"     -> [it EXCEPT !.ports = [k \in DOMAIN @ |-> [@[k] EXCEPT !.value = Op(@)]],
                                        !.params = [k \in DOMAIN @ |-> [@[k] EXCEPT !.value = Op(@)]]]

InlineParams(text, inst) ==
  LET ps == ResolveParamlist(OverriddenParams(text, inst))
      known == SelectSeq(ps, LAMBDA p : p.value # <<>>)
      Inlined(v) == FoldLeft(LAMBDA w, p : Replaced(w, p.name, p.value[1]), v, known)
  IN  [text EXCEPT !.params = SelectSeq(ps, LAMBDA p : p.value = <<>>),
                   !.items = [k \in DOMAIN @ |-> MapValues(@[k], Inlined)]]

\* DeadcodeElimination: the names written and read nowhere lose their
\* assignments, and the declarations nothing names any more go.
ReadNames(text) ==
  {text.ports[k].name : k \in DOMAIN text.ports}
  \cup UNION {ValueNames(it.from) : it \in Items(text, "assign")}
  \cup UNION {UNION {ValueNames(it.ports[k].value) : k \in DOMAIN it.ports} : it \in Items(text, "inst")}
LocalNames(v) == {v[k].name : k \in {j \in DOMAIN v : ~IsLit(v[j]) /\ v[j].hier = <<>>}}
Dead(text, it) == /\ it.is = "assign"
                  /\ \A k \in DOMAIN it.to : it.to[k].hier = <<>>
                  /\ LocalNames(it.to) \cap ReadNames(text) = {}

RECURSIVE RemoveDead(_)
RemoveDead(text) ==
  IF \E k \in DOMAIN text.items : Dead(text, text.items[k])
  THEN RemoveDead([text EXCEPT !.items = SelectSeq(@, LAMBDA it : ~Dead(text, it))])
  ELSE text
Eliminate(text) ==
  LET live == RemoveDead(text)
      used == UNION {LocalNames(it.from) \cup LocalNames(it.to) : it \in Items(live, "assign")}
              \cup UNION {UNION {LocalNames(it.ports[k].value) : k \in DOMAIN it.ports} :
                            it \in Items(live, "inst")}
  IN  [live EXCEPT !.decls = SelectSeq(@, LAMBDA d : d.name \in used)]

Eliminated(text) == IF Len(stack) > 1 \/ deadcode THEN Eliminate(text) ELSE text

Resolve ==
  /\ In("resolve")
  /\ LET text == Eliminated(InlineParams(Top.text, Top.inst))
     IN  IF NamesRefused(Modules, text) THEN Refuse
         ELSE /\ Go([Top EXCEPT !.phase = "buffer", !.text = NameArguments(Modules, text),
                                !.declared = DeclaredNames(text)])
              /\ Still

\* The next array of instances, and the next connected port of it.
Item == Top.text.items[Top.at]
Child == Modules[Item.module]
IsArray(it) == Known(Modules, it) /\ it.array # <<>>
Beyond == Top.at > Len(Top.text.items)

Skip(phase) ==
  /\ In(phase)
  /\ ~Beyond
  /\ ~IsArray(Item)
  /\ Go([Top EXCEPT !.at = @ + 1])
  /\ Still

Buffering ==
  /\ In("buffer")
  /\ ~Beyond
  /\ IsArray(Item)
  /\ LET p == Item.ports[Top.port]
     IN  IF Top.port > Len(Item.ports) THEN Go([Top EXCEPT !.at = @ + 1, !.port = 1]) /\ Still
         ELSE IF p.value = <<>> THEN Go([Top EXCEPT !.port = @ + 1]) /\ Still
         ELSE IF BufferRefused(Top.text, Item, Child, p) THEN Refuse
         ELSE \E name \in FreshNames(Item.name \o <<"_">> \o p.port, Top.declared) :
                LET more == BufferPort(Top.text, Top.at, Child, Top.port, name)
                IN  /\ Go([Top EXCEPT !.text = more, !.port = @ + 1,
                                      !.at = @ + Len(more.items) - Len(Top.text.items),
                                      !.declared = @ \cup {name}])
                    /\ Still

Splitting ==
  /\ In("split")
  /\ ~Beyond
  /\ IsArray(Item)
  /\ IF SplitRefused(Top.text, Item, Child) THEN Refuse
     ELSE /\ Go([Top EXCEPT !.text = SplitArray(@, Top.at, Child), !.at = @ + Width(Item.array[1])])
          /\ Still

\* At the end of the items: from the buffers to the splits, from the splits
\* to the flattening, for which the declarations are analysed afresh and
\* the defparams taken out.
Analyse ==
  /\ In("buffer") \/ In("split")
  /\ Beyond
  /\ LET t == Top.text
     IN  IF Top.phase = "buffer" THEN Go([Top EXCEPT !.phase = "split", !.at = 1])
         ELSE Go([Top EXCEPT !.phase = "flatten", !.at = 1, !.declared = DeclaredNames(t),
                    !.kinds = [k \in DOMAIN Declared(t) |-> Declared(t)[k]],
                    !.held = SelectSeq(t.items, LAMBDA it : it.is = "defparam"),
                    !.text = [t EXCEPT !.items = SelectSeq(@, LAMBDA it : it.is # "defparam")]])
  /\ Still

---------------------------------------------------------------------------
(* The flattening of the instances, in the order of the items.             *)

Pass ==
  /\ In("flatten")
  /\ ~Beyond
  /\ ~Known(Modules, Item)
  /\ Go([Top EXCEPT !.at = @ + 1])
  /\ Still

\* The parent waits at the instance for the child to be spliced in.
\* Mutant: it has already stepped over it.
WaitPast(f, held) == [f EXCEPT !.held = held, !.at = @ + 1]
Wait(f, held) == [f EXCEPT !.held = held]

\* The defparams whose path begins at the instance go with it, one label
\* shorter.
Enter ==
  /\ In("flatten")
  /\ ~Beyond
  /\ Known(Modules, Item)
  /\ LET mine(d) == d.path[1].name = Item.name
         theirs  == SelectSeq(Top.held, mine)
         child   == [Child EXCEPT !.items = @ \o [k \in DOMAIN theirs |->
                                                    [theirs[k] EXCEPT !.path = Tail(@)]]]
     IN  IF \E k \in DOMAIN Item.params : /\ Item.params[k].value = <<>>
                                          /\ FindNamed(Child.params, Item.params[k].name).value = <<>>
         THEN Refuse
         ELSE /\ stack' = Append(ReplaceAt(stack, Len(stack), Wait(Top, SelectSeq(Top.held, LAMBDA d : ~mine(d)))),
                                 Frame(<<Item>>, child))
              /\ Still

\* AnnotateDeclaration: the names a text declares, and what becomes of them
\* and of the plain references to them.
AnnotatedNames(text) ==
  {Declared(text)[k].name : k \in DOMAIN Declared(text)} \cup {it.name : it \in Items(text, "inst")}
Annotate(text, new) ==
  LET New(n) == IF n \in DOMAIN new THEN new[n] ELSE n
      Named(seq) == [k \in DOMAIN seq |-> [seq[k] EXCEPT !.name = New(@)]]
      Value(v) == [k \in DOMAIN v |-> IF IsLit(v[k]) \/ v[k].hier # <<>> THEN v[k]
                                      ELSE [v[k] EXCEPT !.name = New(@)]]
      Whole(it) == IF it.is = "inst" THEN [MapValues(it, Value) EXCEPT !.name = New(@)]
                   ELSE MapValues(it, Value)
  IN  [text EXCEPT !.ports = Named(@), !.decls = Named(@), !.items = [k \in DOMAIN @ |-> Whole(@[k])]]

Prefixed(inst, n) == inst \o <<"_">> \o n

\* The search is not anchored: it finds the name inside longer ones.
RECURSIVE SearchReplace(_, _, _)
SearchReplace(n, old, new) ==
  IF Len(n) < Len(old) THEN n
  ELSE IF SubSeq(n, 1, Len(old)) = old THEN new \o SearchReplace(SubSeq(n, Len(old) + 1, Len(n)), old, new)
  ELSE <<n[1]>> \o SearchReplace(Tail(n), old, new)

\* replace_scoped_identifiers: a path of flattened instances becomes a name.
ReplaceScoped(text, tree) ==
  LET Scoped(v) == [k \in DOMAIN v |->
                      IF IsLit(v[k]) \/ v[k].hier = <<>> \/ Path(v[k].hier) \notin tree THEN v[k]
                      ELSE Through(<<>>, Prefixed(Joined(Path(v[k].hier)), v[k].name), v[k].sels)]
  IN  [text EXCEPT !.items = [k \in DOMAIN @ |-> MapValues(@[k], Scoped)]]

\* The end of a text: for the top it is the result, for a child the
\* beginning of its binding to the text around it.
Close ==
  /\ In("flatten")
  /\ Beyond
  /\ LET text == ReplaceScoped([Top.text EXCEPT !.items = @ \o Top.held], Top.tree)
         prefix == [n \in AnnotatedNames(text) |-> Prefixed(Top.inst[1].name, n)]
     IN  IF Len(stack) = 1
         THEN /\ status' = "done"
              /\ Go([Top EXCEPT !.phase = "done", !.text = text])
              /\ UNCHANGED <<design, deadcode>>
         ELSE IF text.params # <<>> THEN Refuse
         ELSE Go([Top EXCEPT !.phase = "bind", !.text = Annotate(text, prefix)]) /\ Still

\* check_output_rvalue_wire: an output drives wires and logic variables.
Drivable(kinds, v) ==
  \A k \in DOMAIN v : /\ ~IsLit(v[k])
                      /\ v[k].hier = <<>>
                      /\ Has(kinds, v[k].name)
                      /\ FindNamed(kinds, v[k].name).kind \in {"wire", "logic"}

\* A port finds its connection under its prefixed name, and becomes a
\* declaration of the text around under a fresh one.
Connection(inst, name) ==
  LET k == SelectInSeq(inst.ports, LAMBDA p : Prefixed(inst.name, p.port) = name)
  IN  IF k = 0 THEN <<>> ELSE inst.ports[k].value

Bind ==
  /\ In("bind")
  /\ Top.port <= Len(Top.text.ports)
  /\ \E name \in FreshNames(Top.text.ports[Top.port].name, Under.declared) :
       LET port == Top.text.ports[Top.port]
           rename == [n \in AnnotatedNames(Top.text) |-> SearchReplace(n, port.name, name)]
           text == IF name = port.name THEN Top.text ELSE Annotate(Top.text, rename)
           value == Connection(Top.inst[1], port.name)
           out == port.dir = "out"
           tie == [is |-> "assign", to |-> IF out THEN value ELSE <<Ref(name)>>,
                                     from |-> IF out THEN <<Ref(name)>> ELSE value]
       IN  IF \/ value = <<>> /\ port.dir = "in"
              \/ value # <<>> /\ port.dir = "inout"
              \/ value # <<>> /\ out /\ ~Drivable(Under.kinds, value)
           THEN Refuse
           ELSE /\ stack' = [stack EXCEPT
                      ![Len(stack) - 1].declared = @ \cup {name},
                      ![Len(stack)] = [@ EXCEPT !.text = text, !.port = @ + 1,
                         !.ties.decls = Append(@, text.ports[Top.port]),
                         !.ties.items = IF value = <<>> THEN @ ELSE Append(@, tie)]]
                /\ Still

\* The child's declarations and items take the place of the instance.
From(path, seq) == [k \in DOMAIN seq |-> [seq[k] EXCEPT !.of[1] = path \o @]]
FromItem(path, it) == IF it.is = "inst" THEN [it EXCEPT !.of = path \o @] ELSE it

Splice ==
  /\ In("bind")
  /\ Top.port > Len(Top.text.ports)
  /\ LET name  == Top.inst[1].name
         items == Top.ties.items \o [k \in DOMAIN Top.text.items |-> FromItem(<<name>>, Top.text.items[k])]
         decls == From(<<name>>, Top.ties.decls \o Top.text.decls)
         into  == [Under.text EXCEPT !.decls = @ \o decls,
                     !.items = SubSeq(@, 1, Under.at - 1) \o items \o SubSeq(@, Under.at + 1, Len(@))]
     IN  stack' = Append(SubSeq(stack, 1, Len(stack) - 2),
                    [Under EXCEPT !.text = into, !.at = @ + Len(items),
                       !.declared = @ \cup DeclaredNames(Top.text),
                       !.tree = @ \cup {<<name>>} \cup {<<name>> \o p : p \in Top.tree}])
  /\ Still

---------------------------------------------------------------------------
Init ==
  /\ design \in DOMAIN Designs
  /\ deadcode \in BOOLEAN
  /\ stack = <<Frame(<<>>, Modules[Designs[design].top])>>
  /\ status = "running"

Finished == status # "running" /\ UNCHANGED vars

Next == \/ Resolve \/ Skip("buffer") \/ Skip("split") \/ Buffering \/ Splitting \/ Analyse
        \/ Pass \/ Enter \/ Close \/ Bind \/ Splice \/ Finished

Spec == Init /\ [][Next]_vars

---------------------------------------------------------------------------
Phases == {"resolve", "buffer", "split", "flatten", "bind", "done"}

\* The state has the shape the actions give it: one frame for each module
\* being flattened, all but the last waiting at one of their instances.
TypeOK ==
  /\ design \in DOMAIN Designs
  /\ deadcode \in BOOLEAN
  /\ status \in {"running", "done", "refused"}
  /\ \A k \in DOMAIN stack : stack[k].phase \in Phases
  /\ \A k \in 1 .. Len(stack) - 1 :
       /\ stack[k].phase = "flatten"
       /\ stack[k].at <= Len(stack[k].text.items)
       /\ <<stack[k].text.items[stack[k].at]>> = stack[k + 1].inst

IsBuffer(d) == d.of[1] # <<>> /\ Last(d.of[1]) = Buffer(d.name)[1][1]

\* What a text took in itself under a name of its choice: its buffers and the
\* ports of its own instances, against what comes down from deeper with them.
TakenIn(d) == Len(d.of[1]) = 1 /\ (IsBuffer(d) \/ "dir" \in DOMAIN d)
OwnKept(text) == {it.name : it \in {it \in Items(text, "inst") : Len(it.of) = 1}}

\* A buffer, and a port that becomes a declaration of the text around, never
\* take a name declared before them in that text, by the text itself, by a
\* buffer or by whatever was spliced in earlier, nor that of an instance the
\* text keeps (get_unique_identifier, module_flattener.cpp:511 and
\* module_instance_normalizer.cpp:1024).  The other declarations of a child
\* are only prefixed (module_flattener.cpp:418-425): nothing is said of them.
NamesTellApart ==
  \A k \in DOMAIN stack :
    LET text == stack[k].text
        ds   == Declared(text)
    IN  \A j \in DOMAIN ds :
          TakenIn(ds[j]) => ds[j].name \notin {ds[i].name : i \in 1 .. j - 1} \cup OwnKept(text)

\* The bits of the flattened text, named as in the hierarchy.
Origin(text, e) ==
  IF IsLit(e) THEN <<LitBit(e)>>
  ELSE IF e.hier = <<>> /\ Has(Declared(text), e.name)
  THEN LET d == FindNamed(Declared(text), e.name) IN Bits(d.of[1], d.of[2], SelectedBits(d.dims, e.sels))
  ELSE << << <<<<"dangling">>>>, e.name, 1>> >>
Origins(text, v) == FlattenSeq([k \in DOMAIN v |-> Origin(text, v[k])])
FlatWiring(text) ==
  UNION {Drives(Origins(text, it.from), Origins(text, it.to)) : it \in Items(text, "assign")}
  \cup UNION {UNION {Pinned(it.of, it.ports[k], Origins(text, it.ports[k].value)) : k \in DOMAIN it.ports} :
                it \in Items(text, "inst")}

\* The flattened text wires its ports, the pins of the instances it keeps
\* and the signals it still has to the same undriven bits and constants as
\* the hierarchy: the connections, the shares of the arrays, the parameters
\* and the references through instances all arrive where they should.
SameNetlist ==
  status = "done" =>
    LET text == stack[1].text
        ss   == Scopes(Modules, Designs[design].top)
        flat == FlatWiring(text)
        hier == Wiring(Modules, ss)
        own  == UNION {ToSet(Bits(d.of[1], d.of[2], [k \in 1 .. Size(d.dims) |-> k])) :
                         d \in {d \in ToSet(Declared(text)) : ~IsBuffer(d)}}
        pins == {b \in {d[2] : d \in hier} : \E s \in ss : s.path = b[1] /\ s.inst.module \notin DOMAIN Modules}
    IN  \A b \in own \cup pins : Roots(flat, b) = Roots(hier, b)

\* A design is refused when some instance of a known module cannot be wired,
\* and for no other reason: an input left open, an inout, an output into
\* something no assignment can drive, an array whose actual has neither the
\* width of the port nor that of all the elements, or is unpacked and not one
\* word for each, ports or parameters that the module does not have, or a
\* parameter without a value.
Wired(ss, s, t, k) ==
  LET actual == Actual(s.inst, t, k)
      wide   == Len(ValueBits(Modules, ss, s.around, actual))
      need   == Size(t.ports[k].dims)
  IN  IF actual = <<>> THEN t.ports[k].dir # "in"
      ELSE /\ t.ports[k].dir # "inout"
           /\ s.inst.array # <<>> =>
                LET dims == ValueDims(Modules[ScopeAt(ss, s.around).inst.module], actual)
                    n    == Width(s.inst.array[1])
                IN  /\ wide \in {need, need * n}
                    /\ FullyPacked(dims) \/ (wide = need * n /\ Width(dims[1]) = n)
           /\ t.ports[k].dir = "out" =>
                \A j \in DOMAIN actual :
                  /\ ~IsLit(actual[j]) /\ actual[j].hier = <<>>
                  /\ LET u == Modules[ScopeAt(ss, s.around).inst.module]
                     IN  Has(Declared(u), actual[j].name)
                         /\ FindNamed(Declared(u), actual[j].name).kind # "reg"

Wireable ==
  LET ss == Scopes(Modules, Designs[design].top)
  IN  \A s \in {s \in ss : s.path # <<>> /\ s.inst.module \in DOMAIN Modules} :
        LET t == Modules[s.inst.module]
        IN  /\ ~PortArgsRefused(s.inst, t)
            /\ \A k \in DOMAIN t.ports : Wired(ss, s, t, k)
            /\ \A k \in DOMAIN t.params :
                 t.params[k].value # <<>> \/ ParamActual(s.inst, t, t.params[k].name) # <<>>
            /\ \A k \in DOMAIN s.inst.params :
                 s.inst.params[k].name = <<>> \/ Has(t.params, s.inst.params[k].name)

AcceptsExactly == status \in {"done", "refused"} => (status = "done" <=> Wireable)
=============================================================================
