----------------------------- MODULE FsmDecode -----------------------------
(***************************************************************************)
(* The decoded outputs of a marked process, on its finished path cover:    *)
(* what build_decode checks of the arrivals at each state, the always_comb *)
(* that emit_decode writes from them, and the codes emit gives the states. *)
(*                                                                         *)
(* The comb computes after the edge, from the state register and the       *)
(* registers, what the source computed at the edge: it may only read what  *)
(* the edge leaves alone, and the arrivals at a state must agree.          *)
(***************************************************************************)
EXTENDS FsmWalk, FiniteSets

CONSTANTS
  Inputs,   \* the names the environment drives
  WordBits  \* the bits of a state constant

\* The identities of the waits are ordered as their states are numbered.
ASSUME DecodeAssumption ==
  /\ WordBits \in Nat \ {0}
  /\ IsFiniteSet(Vars) /\ IsFiniteSet(NodeId) /\ NodeId \subseteq Nat
  /\ \A p \in Names : Program[p].outputs \cap Inputs = {}

preamble == out[Entry][1]

Writes(action) == {c.var : c \in action}

encoding == proc.encoding

\* The states of the waits, in `states`.
WaitStates == DOMAIN out \ {Entry}

-----------------------------------------------------------------------------
(* The arrivals at a state, by the state they come from *)

Sources(q) == {src \in DOMAIN out : \E j \in DOMAIN out[src] : out[src][j].next = q}

Into(src, q) == {j \in DOMAIN out[src] : out[src][j].next = q}

\* Every path from src leaves the output the same.
Agree(src, q, d) ==
  \A i, j \in Into(src, q) : out[src][i].decode[d] = out[src][j].decode[d]

\* The conjuncts of a path that tell it from the others into q.
Residue(src, q, j) ==
  {l \in out[src][j].guard : \E i \in Into(src, q) : l \notin out[src][i].guard}

\* The first match wins: a path behind one without a condition of its own, or
\* behind one with the same, is not taken.
Survives(src, q, j) ==
  ~\E i \in Into(src, q) :
     i < j /\ (Residue(src, q, i) = {} \/ Residue(src, q, i) = Residue(src, q, j))

\* The paths that decide what the output is in q.
Deciding(src, q, d) ==
  IF Agree(src, q, d) THEN {j \in Into(src, q) : \A i \in Into(src, q) : j <= i}
  ELSE {j \in Into(src, q) : Survives(src, q, j)}

\* Mutant: an input is taken for a register of the process.
VolatileUndriven(x, action) == \E v \in Decoded \cup Writes(action) : DependsOn(x, v)

\* Mutant: what the path itself commits is taken to stand.
VolatileUncommitted(x, action) == \E v \in Inputs \cup Decoded : DependsOn(x, v)

\* What the path that arrives commits, an input may carry in the next cycle, or
\* an output showed in the last.
Volatile(x, action) ==
  \E v \in Inputs \cup Decoded \cup Writes(action) : DependsOn(x, v)

Unstable(src, q, d) ==
  IF Agree(src, q, d)
  THEN \E j \in Into(src, q) : Volatile(out[src][j].decode[d], out[src][j].action)
  ELSE \E j \in Deciding(src, q, d) :
         \/ Volatile(out[src][j].decode[d], out[src][j].action)
         \/ \E l \in Residue(src, q, j) : Volatile(l.lhs, out[src][j].action)

\* The arm of q: the conditions and values of its legs, by the path they end.
Arm(src, q, d) ==
  [j \in Deciding(src, q, d) |->
     [guard |-> IF Agree(src, q, d) THEN {} ELSE Residue(src, q, j),
      value |-> out[src][j].decode[d]]]

\* An arm as it reads: its legs in their order.
Chain(arm) ==
  LET rank(j) == Cardinality({i \in DOMAIN arm : i <= j})
  IN  [k \in 1 .. Cardinality(DOMAIN arm) |-> arm[CHOOSE j \in DOMAIN arm : rank(j) = k]]

\* The state register cannot tell the states the paths came from.
Coherent(q, d) ==
  \A u, v \in Sources(q) : Chain(Arm(u, q, d)) = Chain(Arm(v, q, d))

-----------------------------------------------------------------------------
(* The codes of the states *)

States == WaitStates \cup (IF holdNeeded THEN {Hold} ELSE {})

Index(q) == IF q = Hold THEN Cardinality(WaitStates) ELSE Cardinality({w \in WaitStates : w < q})

\* A one shifted up: the powers of two, as a function that proofs can unfold.
TwoTo[n \in Nat] == IF n = 0 THEN 1 ELSE 2 * TwoTo[n - 1]

Clog2(n) == IF n <= 2 THEN 1 ELSE CHOOSE w \in 1 .. n : TwoTo[w] >= n /\ TwoTo[w - 1] < n

Bit(n, b) == (n \div TwoTo[b]) % 2

Bits(n, width) == [b \in 0 .. width - 1 |-> Bit(n, b)]

Width(d) == CHOOSE w \in 0 .. WideModulus : TwoTo[w] = Modulus[d]

\* One value in each state, and a literal.
Literally(src, q, d) ==
  /\ Cardinality(Deciding(src, q, d)) = 1
  /\ \A j \in Deciding(src, q, d) : \E k \in Wide :
       out[src][j].decode[d] = [s \in Store |-> k]

\* The outputs of a state; one that no path reaches has those of the entry.
Vector(q) ==
  LET reached == IF Sources(q) = {} THEN preamble.next ELSE q
      src     == CHOOSE u \in Sources(reached) : TRUE
  IN  [d \in Decoded |->
         LET j == CHOOSE i \in Deciding(src, reached, d) : TRUE
             s == CHOOSE r \in Store : TRUE
         IN  Truncate(d, out[src][j].decode[d][s])]

\* The rank of each state among those that show the same.
Ordinals(vectors) ==
  [q \in States |-> Cardinality({p \in States : Index(p) < Index(q) /\ vectors[p] = vectors[q]})]

Largest(ordinals) ==
  CHOOSE n \in 1 .. Cardinality(States) :
    /\ \A q \in States : ordinals[q] < n
    /\ \E q \in States : ordinals[q] = n - 1

OrdinalBits(ordinals) == IF Largest(ordinals) > 1 THEN Clog2(Largest(ordinals)) ELSE 0

OutputBits == Cardinality({db \in Decoded \X (0 .. WordBits) : db[2] < Width(db[1])})

\* The state bits are the outputs and what tells apart the states that share them.
OutputCodes ==
  LET vectors  == [q \in States |-> Vector(q)]
      ordinals == Ordinals(vectors)
      bits     == OrdinalBits(ordinals)
  IN  [q \in States |-> [shown |-> vectors[q], ordinal |-> Bits(ordinals[q], bits)]]

\* What the state register holds in each state: no more than its own bits.
Codes ==
  LET count == Cardinality(States)
      width == Clog2(count)
  IN  CASE encoding = "binary"  -> [q \in States |-> Bits(Index(q), width)]
        [] encoding = "gray"    ->
             [q \in States |-> [b \in 0 .. width - 1 |->
                                  (Bit(Index(q), b) + Bit(Index(q) \div 2, b)) % 2]]
        [] encoding = "one_hot" -> [q \in States |-> Bits(TwoTo[Index(q)] % TwoTo[WordBits], count)]
        [] encoding = "output"  -> OutputCodes

\* Mutant: the states that one_hot has no bit for are not counted.
EncodableUncapped == encoding = "output" => Decoded # {}

Encodable ==
  /\ encoding = "one_hot" => Cardinality(States) <= WordBits
  /\ encoding = "output" =>
       /\ Decoded # {}
       /\ {q \in States : \E src \in Sources(q) : \E d \in Decoded : ~Literally(src, q, d)} = {}
       /\ OutputBits + OrdinalBits(Ordinals([q \in States |-> Vector(q)])) <= WordBits

\* build_decode and the first lines of emit: the outputs can be decoded from
\* the state register, whose codes fit.
Decodable ==
  /\ {q \in States : \E d \in Decoded :
         ~Coherent(q, d) \/ \E src \in Sources(q) : Unstable(src, q, d)} = {}
  /\ Encodable

-----------------------------------------------------------------------------
(* The emitted comb *)

\* m_proc.decode_arms: an arm for each state a path reaches.
Arms ==
  [q \in {p \in States : Sources(p) # {}} |->
     [d \in Decoded |-> Arm(CHOOSE u \in Sources(q) : TRUE, q, d)]]

\* The leg of an arm that store s takes, the last one the bare else.
ArmLeg(arm, s) ==
  CHOOSE j \in DOMAIN arm :
    /\ (\A i \in DOMAIN arm : i <= j) \/ Satisfies(s, arm[j].guard)
    /\ \A i \in DOMAIN arm : i < j => ~Satisfies(s, arm[i].guard)
=============================================================================
