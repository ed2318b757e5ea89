----------------------- MODULE ModuleInstanceNormalizer -----------------------
(***************************************************************************)
(* The instances of a text in the form the flattener takes                 *)
(* (module_instance_normalizer.cpp): every port and parameter named, the   *)
(* defparams of one label folded into the instances they name, and every   *)
(* array of instances turned into buffered, scalar instances.  Lists of    *)
(* instances are one instance per item here; interface ports are left out. *)
(***************************************************************************)
EXTENDS Netlist

\* The origin of a declaration the passes add.
Buffer(name) == << <<<<"buffer">>>>, name>>

Positional(i) == i.ports # <<>> /\ \A k \in DOMAIN i.ports : i.ports[k].port = <<>>

\* set_portarg_names: all by name, each of them once, or all by position.
PortArgsRefused(i, t) ==
  LET named == {k \in DOMAIN i.ports : i.ports[k].port # <<>>}
  IN  \/ named # {} /\ named # DOMAIN i.ports
      \/ Positional(i) /\ Len(i.ports) # Len(t.ports)
      \/ \E k \in named : \/ ~Has(t.ports, i.ports[k].port)
                          \/ \E j \in named : j < k /\ i.ports[j].port = i.ports[k].port

SetPortArgNames(i, t) ==
  IF Positional(i)
  THEN [k \in DOMAIN i.ports |-> [i.ports[k] EXCEPT !.port = t.ports[k].name]]
  ELSE LET given(p) == \E k \in DOMAIN i.ports : i.ports[k].port = p.name
           missing  == SelectSeq(t.ports, LAMBDA p : ~given(p))
       IN  i.ports \o [k \in DOMAIN missing |-> [port |-> missing[k].name, value |-> <<>>]]

\* fill_defparam_map: what a defparam of one label gives a parameter; the
\* first of two is kept, and a label with an index is the name of no instance.
IsSingle(it) == it.is = "defparam" /\ Len(it.path) = 1
DefparamOf(text, name, param) ==
  SelectSeq(text.items, LAMBDA it : IsSingle(it) /\ it.path = <<Label(name, <<>>)>> /\ it.param = param)

\* set_paramarg_names: an unnamed actual takes the first declared parameter
\* that no earlier actual took.
TakeParam(s, p) ==
  LET k == IF p.name = <<>> THEN 1 ELSE SelectInSeq(s.left, LAMBDA d : d.name = p.name)
  IN  IF s.refused \/ k = 0 \/ k > Len(s.left) THEN [s EXCEPT !.refused = TRUE]
      ELSE [s EXCEPT !.left = RemoveAt(@, k),
                     !.args = Append(@, [name |-> s.left[k].name, value |-> p.value])]

ParamArgs(i, t) ==
  FoldLeft(TakeParam, [left |-> t.params, args |-> <<>>, refused |-> FALSE], i.params)

ParamArgsRefused(i, t) ==
  /\ t.params # <<>>
  /\ IF i.params = <<>> THEN \E k \in DOMAIN t.params : t.params[k].value = <<>>
     ELSE ParamArgs(i, t).refused

SetParamArgNames(text, i, t) ==
  LET taken == ParamArgs(i, t)
      args  == taken.args \o [k \in DOMAIN taken.left |-> [name |-> taken.left[k].name, value |-> <<>>]]
      Overload(p) == LET d == DefparamOf(text, i.name, p.name)
                     IN  IF d = <<>> THEN p ELSE [p EXCEPT !.value = d[1].value]
  IN  [k \in DOMAIN args |-> Overload(args[k])]

\* An instance of a module nobody gave is left as it is.
Known(ms, it) == it.is = "inst" /\ it.module \in DOMAIN ms

NamesRefused(ms, text) ==
  \E k \in DOMAIN text.items :
    LET it == text.items[k]
    IN  Known(ms, it) /\ (PortArgsRefused(it, ms[it.module]) \/ ParamArgsRefused(it, ms[it.module]))

NameArguments(ms, text) ==
  LET Named(it) == IF ~Known(ms, it) THEN it
                   ELSE [it EXCEPT !.ports = SetPortArgNames(it, ms[it.module]),
                                   !.params = SetParamArgNames(text, it, ms[it.module])]
      kept == SelectSeq(text.items, LAMBDA it : ~IsSingle(it))
  IN  [text EXCEPT !.items = [k \in DOMAIN kept |-> Named(kept[k])]]

---------------------------------------------------------------------------
(* Arrays of instances.                                                    *)

\* analyze_expr: the dimensions of a value, of a concatenation its width.
ElementDims(text, e) ==
  IF IsLit(e) THEN <<>> ELSE SelectedDims(FindNamed(Declared(text), e.name).dims, e.sels)
ValueDims(text, v) ==
  IF Len(v) = 1 THEN ElementDims(text, v[1])
  ELSE LET width == FoldLeft(LAMBDA n, e : n + Size(ElementDims(text, e)), 0, v)
       IN  <<Range1(width - 1, 0)>>

\* replace_port_affectation: the value of a port of an array goes through a
\* wire, as wide as the port or with a dimension for the elements in front.
Buffered(text, i, p) == FullyPacked(ValueDims(text, p.value))

BufferDims(text, i, t, p) ==
  LET port == FindNamed(t.ports, p.port)
      wide == Size(ValueDims(text, p.value))
  IN  IF wide = Size(port.dims) * Width(i.array[1]) THEN i.array \o port.dims ELSE port.dims

\* Mutant: an actual that fits neither way is truncated into the wire.
BufferTruncates(text, i, t, p) ==
  Buffered(text, i, p) /\ ~FullyPacked(FindNamed(t.ports, p.port).dims)

BufferRefused(text, i, t, p) ==
  LET port == FindNamed(t.ports, p.port)
      wide == Size(ValueDims(text, p.value))
  IN  Buffered(text, i, p) /\ \/ ~FullyPacked(port.dims)
                              \/ wide \notin {Size(port.dims), Size(port.dims) * Width(i.array[1])}

BufferPort(text, at, t, k, name) ==
  LET i    == text.items[at]
      p    == i.ports[k]
      wire == [name |-> name, dims |-> BufferDims(text, i, t, p), kind |-> "wire", of |-> Buffer(name)]
      out  == FindNamed(t.ports, p.port).dir = "out"
      tie  == [is |-> "assign", to |-> IF out THEN p.value ELSE <<Ref(name)>>,
                                from |-> IF out THEN <<Ref(name)>> ELSE p.value]
  IN  IF ~Buffered(text, i, p) THEN text
      ELSE [text EXCEPT !.decls = Append(@, wire),
                        !.items = InsertAt(ReplaceAt(@, at, [i EXCEPT !.ports[k].value = <<Ref(name)>>]), at, tie)]

\* split_array: the element e, counted from the left, of an array; what it
\* takes of a value is the value, or the e-th share of its outer dimension.
\* Mutant: every range is counted up from its smallest index.
ElementIndexUp(d, e) == (IF IsBig(d) THEN d.lsb ELSE d.msb) + e
ElementIndex(d, e) == IF IsBig(d) THEN d.msb - e ELSE d.msb + e

Shared(text, t, p) ==
  LET dims == ValueDims(text, p.value)
  IN  FullyPacked(dims) /\ Size(dims) = Size(FindNamed(t.ports, p.port).dims)

Selection(outer, n, e) ==
  LET share == Width(outer) \div n
      left  == IF IsBig(outer) THEN outer.msb - share * e ELSE outer.msb + share * e
  IN  IF share = 1 THEN <<ElementIndex(outer, e)>>
      ELSE <<left, IF IsBig(outer) THEN left - share + 1 ELSE left + share - 1>>

ShareRefused(text, i, t, p) ==
  LET dims == ValueDims(text, p.value)
      n    == Width(i.array[1])
      left == SelectDims(dims, Selection(dims[1], n, 0))
  IN  /\ p.value # <<>> /\ ~Shared(text, t, p)
      /\ \/ dims = <<>>
         \/ Width(dims[1]) % n # 0
         \/ ~FullyPacked(left)
         \/ Size(left) # Size(FindNamed(t.ports, p.port).dims)

SplitRefused(text, i, t) == \E k \in DOMAIN i.ports : ShareRefused(text, i, t, i.ports[k])

ElementValue(text, i, t, p, e) ==
  IF p.value = <<>> \/ Shared(text, t, p) THEN p.value
  ELSE <<[p.value[1] EXCEPT !.sels =
            Append(@, Selection(ValueDims(text, p.value)[1], Width(i.array[1]), e))]>>

SplitArray(text, at, t) ==
  LET i == text.items[at]
      n == Width(i.array[1])
      Element(e) == [i EXCEPT !.array = <<>>,
                              !.name  = i.name \o <<ToString(ElementIndex(i.array[1], e))>>,
                              !.ports = [k \in DOMAIN i.ports |->
                                           [i.ports[k] EXCEPT !.value = ElementValue(text, i, t, i.ports[k], e)]]]
  IN  [text EXCEPT !.items = SubSeq(@, 1, at - 1) \o [e \in 1 .. n |-> Element(n - e)]
                               \o SubSeq(@, at + 1, Len(@))]
=============================================================================
