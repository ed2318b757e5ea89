------------------------------- MODULE Netlist -------------------------------
(***************************************************************************)
(* Module texts as the flattening passes see them, and the wiring that a   *)
(* hierarchy of them describes.                                            *)
(*                                                                         *)
(* A name is a sequence of pieces, so that u_a is <<"u","_","a">>: the     *)
(* passes join, prefix and search names.  A value is a sequence of         *)
(* elements, leftmost first: references, which name a declaration through  *)
(* a path of instance labels and select a part of it, and literals.  The   *)
(* bits of a declaration are numbered from its left.                       *)
(***************************************************************************)
EXTENDS Integers, SequencesExt, FiniteSetsExt

Range1(msb, lsb) == [msb |-> msb, lsb |-> lsb, packed |-> TRUE]
Width(d) == IF d.msb >= d.lsb THEN d.msb - d.lsb + 1 ELSE d.lsb - d.msb + 1
IsBig(d) == d.msb > d.lsb
\* The bits of all the dimensions; asked of packed ones by the passes.
Size(dims) == FoldLeft(LAMBDA n, d : n * Width(d), 1, dims)
FullyPacked(dims) == \A k \in DOMAIN dims : dims[k].packed

\* How far from the left of a dimension an index is.
Place(d, i) == IF d.msb >= d.lsb THEN d.msb - i ELSE i - d.msb

\* A selection is a pointer <<i>> or a part select <<left, right>>, of the
\* outer dimension.
SelectDims(dims, sel) ==
  IF Len(sel) = 1 THEN Tail(dims)
  ELSE <<[dims[1] EXCEPT !.msb = sel[1], !.lsb = sel[2]]>> \o Tail(dims)
SelectBits(dims, bits, sel) ==
  LET inner == Size(Tail(dims))
      left  == Place(dims[1], sel[1])
      right == Place(dims[1], Last(sel))
  IN  SubSeq(bits, left * inner + 1, (right + 1) * inner)

SelectedDims(dims, sels) == FoldLeft(SelectDims, dims, sels)
SelectedBits(dims, sels) ==
  FoldLeft(LAMBDA s, sel : [dims |-> SelectDims(s.dims, sel), bits |-> SelectBits(s.dims, s.bits, sel)],
           [dims |-> dims, bits |-> [k \in 1 .. Size(dims) |-> k]], sels).bits

Lit(v)  == [lit |-> v]
IsLit(e) == "lit" \in DOMAIN e
Label(name, at) == [name |-> name, at |-> at]
Through(hier, name, sels) == [hier |-> hier, name |-> name, sels |-> sels]
Ref(name) == Through(<<>>, name, <<>>)

\* The instance a label names: an index is that of an element of an array.
Effective(l) == IF l.at = <<>> THEN l.name ELSE l.name \o <<ToString(l.at[1])>>
Path(labels) == [k \in DOMAIN labels |-> Effective(labels[k])]

---------------------------------------------------------------------------
(* A text: ports, declarations, parameters with their defaults, items.     *)

Declared(t) == t.ports \o t.decls
FindNamed(seq, name) == seq[SelectInSeq(seq, LAMBDA d : d.name = name)]
Has(seq, name) == SelectInSeq(seq, LAMBDA d : d.name = name) # 0
Items(t, kind) == {t.items[k] : k \in {j \in DOMAIN t.items : t.items[j].is = kind}}

Elements(i) == IF i.array = <<>> THEN <<<<>>>>
               ELSE LET d == i.array[1]
                    IN  [k \in 1 .. Width(d) |->
                            <<IF d.msb >= d.lsb THEN d.msb - k + 1 ELSE d.msb + k - 1>>]

\* The actual of the k-th port of a text: by name, or by position.
Actual(i, t, k) ==
  LET named == SelectInSeq(i.ports, LAMBDA p : p.port = t.ports[k].name)
  IN  IF i.ports # <<>> /\ i.ports[1].port = <<>> THEN i.ports[k].value
      ELSE IF named = 0 THEN <<>> ELSE i.ports[named].value

ParamActual(i, t, name) ==
  LET named == SelectInSeq(i.params, LAMBDA p : p.name = name)
      k     == SelectInSeq(t.params, LAMBDA p : p.name = name)
  IN  IF named # 0 THEN i.params[named].value
      ELSE IF k <= Len(i.params) /\ i.params[k].name = <<>> THEN i.params[k].value
      ELSE <<>>

---------------------------------------------------------------------------
(* The hierarchy below a text: its scopes, their parameters, their bits.   *)

\* Every scope with its text, the instance that makes it, its element's rank
\* (from the left) and the scope around it.
RECURSIVE Below(_, _, _)
Below(ms, path, t) ==
  UNION {UNION {LET p == Append(path, Effective(Label(i.name, Elements(i)[k])))
                IN  {[path |-> p, around |-> path, inst |-> i, rank |-> k]}
                    \cup (IF i.module \in DOMAIN ms THEN Below(ms, p, ms[i.module]) ELSE {})
                : k \in DOMAIN Elements(i)} : i \in Items(t, "inst")}

Scopes(ms, top) ==
  {[path |-> <<>>, around |-> <<>>, inst |-> [module |-> top, params |-> <<>>], rank |-> 1]}
  \cup Below(ms, <<>>, ms[top])

ScopeAt(ss, path) == CHOOSE s \in ss : s.path = path

\* A parameter is what a defparam says of it, what its instance says, or its
\* default, each read where it is written.
RECURSIVE Constant(_, _, _, _)
Constant(ms, ss, path, e) ==
  LET s    == ScopeAt(ss, path)
      t    == ms[s.inst.module]
      says == UNION {{<<q.path, d>> : d \in {d \in Items(ms[q.inst.module], "defparam") :
                                    /\ q.path \o Path(d.path) = path
                                    /\ d.param = e.name}} : q \in {q \in ss : q.inst.module \in DOMAIN ms}}
      inst == ParamActual(s.inst, t, e.name)
  IN  IF IsLit(e) THEN e
      ELSE IF says # {} THEN LET w == CHOOSE w \in says : TRUE IN Constant(ms, ss, w[1], w[2].value[1])
      ELSE IF inst # <<>> THEN Constant(ms, ss, s.around, inst[1])
      ELSE Constant(ms, ss, path, FindNamed(t.params, e.name).value[1])

LitBit(e) == << <<<<"literal">>>>, <<e.lit>>, 1>>
Bits(path, name, ks) == [k \in DOMAIN ks |-> <<path, name, ks[k]>>]

ElementBits(ms, ss, path, e) ==
  LET at == path \o Path(e.hier)
      t  == ms[ScopeAt(ss, at).inst.module]
      d  == FindNamed(Declared(t), e.name)
  IN  IF IsLit(e) THEN <<LitBit(e)>>
      ELSE IF e.hier = <<>> /\ Has(t.params, e.name) THEN <<LitBit(Constant(ms, ss, path, e))>>
      ELSE Bits(at, e.name, SelectedBits(d.dims, e.sels))

ValueBits(ms, ss, path, v) == FlattenSeq([k \in DOMAIN v |-> ElementBits(ms, ss, path, v[k])])

\* A drive is a pair of bits, a driver and what it drives; the sides of a
\* connection are aligned on their right.
Drives(from, to) ==
  {<<from[Len(from) - k], to[Len(to) - k]>> : k \in 0 .. Min({Len(from), Len(to)}) - 1}
Connected(dir, port, actual) == IF dir = "out" THEN Drives(port, actual) ELSE Drives(actual, port)

\* An array of instances shares an actual of the width of its port and deals
\* a wider one out, from the left (IEEE 1364-2005 7.1.6).
Share(bits, s, width) ==
  IF Len(bits) = width THEN bits ELSE SubSeq(bits, (s.rank - 1) * width + 1, s.rank * width)

PortBits(s, t, k) == Bits(s.path, t.ports[k].name, [b \in 1 .. Size(t.ports[k].dims) |-> b])

\* An instance of a module nobody gave has a pin bit for each bit it takes.
Pinned(path, p, actual) == Drives(actual, Bits(path, p.port, [b \in DOMAIN actual |-> b]))

PortDrives(ms, ss, s) ==
  IF s.inst.module \in DOMAIN ms
  THEN LET t == ms[s.inst.module]
       IN  UNION {LET actual == ValueBits(ms, ss, s.around, Actual(s.inst, t, k))
                      port   == PortBits(s, t, k)
                  IN  IF actual = <<>> THEN {}
                      ELSE Connected(t.ports[k].dir, port, Share(actual, s, Len(port)))
                  : k \in DOMAIN t.ports}
  ELSE UNION {LET p == s.inst.ports[k]
                  actual == ValueBits(ms, ss, s.around, p.value)
              IN  Pinned(s.path, p, actual)
              : k \in DOMAIN s.inst.ports}

Wiring(ms, ss) ==
  UNION {PortDrives(ms, ss, s) : s \in {s \in ss : s.path # <<>>}}
  \cup UNION {UNION {Drives(ValueBits(ms, ss, s.path, i.from), ValueBits(ms, ss, s.path, i.to)) :
                        i \in Items(ms[s.inst.module], "assign")}
              : s \in {s \in ss : s.inst.module \in DOMAIN ms}}

\* The undriven bits and the literals a bit depends on.
RECURSIVE Before(_, _)
Before(drives, bits) ==
  LET more == bits \cup {d[1] : d \in {d \in drives : d[2] \in bits}}
  IN  IF more = bits THEN bits ELSE Before(drives, more)
Roots(drives, bit) == Before(drives, {bit}) \ {d[2] : d \in drives}
=============================================================================
