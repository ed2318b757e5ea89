-------------------------- MODULE FsmDecodeProofs --------------------------
(***************************************************************************)
(* The state register and the outputs of the emitted machine, for every    *)
(* process: its codes tell the states apart under every encoding, an       *)
(* output is after an edge what the path taken computed at the edge, and   *)
(* it stays so until the next one.                                         *)
(***************************************************************************)
EXTENDS FsmMachineProofs, FiniteSetTheorems

-----------------------------------------------------------------------------
(* Powers of two *)

\* A table of the first powers of two.
IsTable(n, g) ==
  /\ g \in [0 .. n -> Nat]
  /\ \A k \in 0 .. n : g[k] = IF k = 0 THEN 1 ELSE 2 * g[k - 1]

\* There is a table of every length.
LEMMA TableExists ==
  ASSUME NEW n \in Nat
  PROVE  \E g : IsTable(n, g)
<1> DEFINE T == {k \in Nat : ~\E g : IsTable(k, g)}
<1> SUFFICES ASSUME T # {} PROVE FALSE
  OBVIOUS
<1>1. PICK k \in T : \A i \in T : k <= i
  <2>1. T \in SUBSET Nat
    OBVIOUS
  <2> HIDE DEF T
  <2> QED
    BY <2>1, LeastIndex
<1>2. CASE k = 0
  <2>1. IsTable(0, [j \in 0 .. 0 |-> 1])
    BY DEF IsTable
  <2> QED
    BY <1>2, <2>1
<1>3. CASE k # 0
  <2>1. k - 1 \in Nat /\ ~(k <= k - 1)
    BY <1>3
  <2>2. PICK g : IsTable(k - 1, g)
    BY <1>1, <2>1
  <2> DEFINE h == [j \in 0 .. k |-> IF j = k THEN 2 * g[k - 1] ELSE g[j]]
  <2>3. k - 1 \in 0 .. k - 1 /\ \A j \in 0 .. k : j # k => j \in 0 .. k - 1
    BY <2>1
  <2>4. h \in [0 .. k -> Nat]
    BY <2>2, <2>3 DEF IsTable
  <2>5. ASSUME NEW j \in 0 .. k
        PROVE  h[j] = IF j = 0 THEN 1 ELSE 2 * h[j - 1]
    <3>1. CASE j = k
      <4>1. k - 1 \in 0 .. k /\ k - 1 # k /\ j # 0
        BY <1>3, <2>1, <3>1
      <4> QED
        BY <3>1, <4>1
    <3>2. CASE j # k /\ j = 0
      BY <2>2, <2>3, <3>2 DEF IsTable
    <3>3. CASE j # k /\ j # 0
      <4>1. j - 1 \in 0 .. k /\ j - 1 # k /\ j \in 0 .. k - 1
        BY <2>1, <3>3
      <4>2. g[j] = 2 * g[j - 1]
        BY <2>2, <3>3, <4>1 DEF IsTable
      <4> QED
        BY <3>3, <4>1, <4>2
    <3> QED
      BY <3>1, <3>2, <3>3
  <2> HIDE DEF h
  <2>6. IsTable(k, h)
    BY <2>4, <2>5 DEF IsTable
  <2> QED
    BY <2>6
<1> QED
  BY <1>2, <1>3

\* Two tables agree as far as both go.
LEMMA TablesAgree ==
  ASSUME NEW m \in Nat, NEW n \in Nat, NEW g, NEW h, IsTable(m, g), IsTable(n, h),
         NEW j \in 0 .. m, j <= n
  PROVE  g[j] = h[j]
<1> DEFINE T == {k \in Nat : k <= m /\ k <= n /\ g[k] # h[k]}
<1> SUFFICES ASSUME T # {} PROVE FALSE
  OBVIOUS
<1>1. PICK k \in T : \A i \in T : k <= i
  <2>1. T \in SUBSET Nat
    OBVIOUS
  <2> HIDE DEF T
  <2> QED
    BY <2>1, LeastIndex
<1>2. k \in 0 .. m /\ k \in 0 .. n
  OBVIOUS
<1>3. CASE k = 0
  BY <1>2, <1>3 DEF IsTable
<1>4. CASE k # 0
  <2>1. k - 1 \in Nat /\ k - 1 <= m /\ k - 1 <= n /\ ~(k <= k - 1)
    BY <1>2, <1>4
  <2>2. g[k - 1] = h[k - 1]
    BY <1>1, <2>1
  <2>3. g[k] = 2 * g[k - 1] /\ h[k] = 2 * h[k - 1]
    BY <1>2, <1>4 DEF IsTable
  <2> QED
    BY <2>2, <2>3
<1> QED
  BY <1>3, <1>4

\* The powers of two are what their definition says.
LEMMA TwoToUnfolds ==
  /\ TwoTo[0] = 1
  /\ \A n \in Nat : TwoTo[n] \in Nat /\ TwoTo[n] > 0 /\ TwoTo[n + 1] = 2 * TwoTo[n]
<1> DEFINE Table(n) == CHOOSE g : IsTable(n, g)
           f == [n \in Nat |-> Table(n)[n]]
<1>1. \A n \in Nat : IsTable(n, Table(n))
  BY TableExists
<1> HIDE DEF Table
<1>2. f = [n \in Nat |-> IF n = 0 THEN 1 ELSE 2 * f[n - 1]]
  <2>1. ASSUME NEW n \in Nat
        PROVE  f[n] = IF n = 0 THEN 1 ELSE 2 * f[n - 1]
    <3>1. n \in 0 .. n /\ Table(n)[n] = IF n = 0 THEN 1 ELSE 2 * Table(n)[n - 1]
      BY <1>1 DEF IsTable
    <3>2. CASE n # 0
      <4>1. n - 1 \in Nat /\ n - 1 \in 0 .. n - 1 /\ n - 1 <= n
        BY <3>2
      <4>2. Table(n - 1)[n - 1] = Table(n)[n - 1]
        BY <1>1, <4>1, TablesAgree
      <4> QED
        BY <3>1, <3>2, <4>1, <4>2
    <3> QED
      BY <3>1, <3>2
  <2> HIDE DEF f
  <2>2. f = [n \in Nat |-> f[n]]
    BY DEF f
  <2> QED
    BY <2>1, <2>2
<1>3. TwoTo = [n \in Nat |-> IF n = 0 THEN 1 ELSE 2 * TwoTo[n - 1]]
  <2> HIDE DEF f
  <2> QED
    BY <1>2 DEF TwoTo
<1> HIDE DEF f
<1>4. TwoTo[0] = 1
  BY <1>3
<1>5. \A n \in Nat : TwoTo[n + 1] = 2 * TwoTo[n]
  <2> SUFFICES ASSUME NEW n \in Nat PROVE TwoTo[n + 1] = 2 * TwoTo[n]
    OBVIOUS
  <2>1. n + 1 \in Nat /\ n + 1 # 0 /\ (n + 1) - 1 = n
    OBVIOUS
  <2> QED
    BY <1>3, <2>1
<1>6. \A n \in Nat : TwoTo[n] \in Nat /\ TwoTo[n] > 0
  <2> DEFINE T == {n \in Nat : ~(TwoTo[n] \in Nat /\ TwoTo[n] > 0)}
  <2> SUFFICES ASSUME T # {} PROVE FALSE
    OBVIOUS
  <2>1. PICK k \in T : \A i \in T : k <= i
    <3>1. T \in SUBSET Nat
      OBVIOUS
    <3> HIDE DEF T
    <3> QED
      BY <3>1, LeastIndex
  <2>2. k # 0
    BY <1>4, <2>1
  <2>3. k - 1 \in Nat /\ ~(k <= k - 1) /\ (k - 1) + 1 = k
    BY <2>1, <2>2
  <2>4. TwoTo[k - 1] \in Nat /\ TwoTo[k - 1] > 0
    BY <2>1, <2>3
  <2>5. TwoTo[k] = 2 * TwoTo[k - 1]
    BY <1>5, <2>3
  <2> QED
    BY <2>1, <2>4, <2>5
<1> QED
  BY <1>4, <1>5, <1>6

\* They grow.
LEMMA TwoToGrows ==
  ASSUME NEW n \in Nat, NEW m \in Nat, m < n
  PROVE  TwoTo[m] < TwoTo[n]
<1> DEFINE T == {k \in Nat : m < k /\ ~(TwoTo[m] < TwoTo[k])}
<1> SUFFICES ASSUME T # {} PROVE FALSE
  OBVIOUS
<1>1. PICK k \in T : \A i \in T : k <= i
  <2>1. T \in SUBSET Nat
    OBVIOUS
  <2> HIDE DEF T
  <2> QED
    BY <2>1, LeastIndex
<1>2. k - 1 \in Nat /\ (k - 1) + 1 = k /\ ~(k <= k - 1)
  BY <1>1
<1>3. TwoTo[k] = 2 * TwoTo[k - 1] /\ TwoTo[k - 1] \in Nat /\ TwoTo[k - 1] > 0
  BY <1>2, TwoToUnfolds
<1>4. CASE k - 1 = m
  BY <1>1, <1>3, <1>4
<1>5. CASE k - 1 # m
  <2>1. m < k - 1
    BY <1>1, <1>2, <1>5
  <2>2. TwoTo[m] < TwoTo[k - 1]
    BY <1>1, <1>2, <2>1
  <2>3. TwoTo[m] \in Nat
    BY TwoToUnfolds
  <2> QED
    BY <1>1, <1>3, <2>2, <2>3
<1> QED
  BY <1>4, <1>5

\* And outgrow every number.
LEMMA TwoToExceeds ==
  ASSUME NEW n \in Nat
  PROVE  n < TwoTo[n]
<1> DEFINE T == {k \in Nat : ~(k < TwoTo[k])}
<1> SUFFICES ASSUME T # {} PROVE FALSE
  OBVIOUS
<1>1. PICK k \in T : \A i \in T : k <= i
  <2>1. T \in SUBSET Nat
    OBVIOUS
  <2> HIDE DEF T
  <2> QED
    BY <2>1, LeastIndex
<1>2. k # 0
  BY <1>1, TwoToUnfolds
<1>3. k - 1 \in Nat /\ (k - 1) + 1 = k /\ ~(k <= k - 1)
  BY <1>1, <1>2
<1>4. k - 1 < TwoTo[k - 1]
  BY <1>1, <1>3
<1>5. TwoTo[k] = 2 * TwoTo[k - 1] /\ TwoTo[k - 1] \in Nat
  BY <1>3, TwoToUnfolds
<1> QED
  BY <1>1, <1>3, <1>4, <1>5

\* The bits of Clog2 count as far as n.
LEMMA Clog2Covers ==
  ASSUME NEW n \in Nat
  PROVE  Clog2(n) \in Nat /\ n <= TwoTo[Clog2(n)]
<1>1. CASE n <= 2
  <2>1. TwoTo[1] = 2
    <3>1. TwoTo[0 + 1] = 2 * TwoTo[0] /\ TwoTo[0] = 1 /\ 0 + 1 = 1
      BY TwoToUnfolds
    <3> QED
      BY <3>1
  <2> QED
    BY <1>1, <2>1 DEF Clog2
<1>2. CASE ~(n <= 2)
  <2> DEFINE T == {w \in Nat : TwoTo[w] >= n}
  <2>1. n \in T
    BY TwoToExceeds, TwoToUnfolds
  <2>2. PICK w \in T : \A i \in T : w <= i
    <3>1. T \in SUBSET Nat
      OBVIOUS
    <3> HIDE DEF T
    <3> QED
      BY <2>1, <3>1, LeastIndex
  <2>3. w # 0
    BY <1>2, <2>2, TwoToUnfolds
  <2>4. w \in 1 .. n /\ w - 1 \in Nat /\ ~(w <= w - 1)
    BY <2>1, <2>2, <2>3
  <2>5. TwoTo[w - 1] < n
    <3>1. w - 1 \notin T
      BY <2>2, <2>4
    <3>2. TwoTo[w - 1] \in Nat
      BY <2>4, TwoToUnfolds
    <3> QED
      BY <2>4, <3>1, <3>2
  <2>6. \E v \in 1 .. n : TwoTo[v] >= n /\ TwoTo[v - 1] < n
    BY <2>2, <2>4, <2>5
  <2> DEFINE c == CHOOSE v \in 1 .. n : TwoTo[v] >= n /\ TwoTo[v - 1] < n
  <2>7. c \in 1 .. n /\ TwoTo[c] >= n
    BY <2>6
  <2>8. Clog2(n) = c
    BY <1>2 DEF Clog2
  <2> HIDE DEF c
  <2>9. TwoTo[c] \in Nat /\ c \in Nat
    BY <2>7, TwoToUnfolds
  <2> QED
    BY <2>7, <2>8, <2>9
<1> QED
  BY <1>1, <1>2

-----------------------------------------------------------------------------
(* The bits of a number *)

LEMMA MultipleBounds ==
  ASSUME NEW k \in Int, NEW w \in Int, w > 0
  PROVE  /\ k >= 1 => k * w >= w
         /\ k <= -1 => k * w <= -w
OBVIOUS

\* Quotient and remainder are the only ones of their kind.
LEMMA DivisionIs ==
  ASSUME NEW w \in Int, w > 0, NEW d \in Int, NEW r \in 0 .. w - 1
  PROVE  (d * w + r) \div w = d
<1> DEFINE e == (d * w + r) \div w
           s == (d * w + r) % w
<1>1. e \in Int /\ s \in Int /\ d * w + r = e * w + s /\ 0 <= s /\ s < w
  OBVIOUS
<1>2. (d - e) * w = s - r
  BY <1>1
<1>3. d - e = 0
  <2> HIDE DEF e, s
  <2>1. d - e \in Int
    BY <1>1
  <2>2. ~(d - e >= 1)
    BY <2>1, <1>1, <1>2, MultipleBounds
  <2>3. ~(d - e <= -1)
    BY <2>1, <1>1, <1>2, MultipleBounds
  <2> QED
    BY <2>1, <2>2, <2>3
<1> QED
  BY <1>1, <1>3

\* Dividing by twice p is dividing by p, then by two.
LEMMA HalfTheQuotient ==
  ASSUME NEW n \in Nat, NEW p \in Nat, p > 0
  PROVE  /\ n \div p \in Nat /\ n \div (2 * p) \in Nat
         /\ n \div p = 2 * (n \div (2 * p)) + ((n \div p) % 2)
         /\ (n \div p) % 2 \in {0, 1}
<1> DEFINE d == n \div p
           r == n % p
           e == d \div 2
           t == d % 2
<1>1. d \in Nat /\ r \in 0 .. p - 1 /\ n = d * p + r
  OBVIOUS
<1>2. e \in Nat /\ t \in 0 .. 1 /\ d = 2 * e + t
  BY <1>1
<1> HIDE DEF d, r, e, t
<1>3. n = e * (2 * p) + (t * p + r)
  BY <1>1, <1>2
<1>4. t * p + r \in 0 .. 2 * p - 1
  <2>1. CASE t = 0
    BY <1>1, <2>1
  <2>2. CASE t = 1
    BY <1>1, <2>2
  <2> QED
    BY <1>2, <2>1, <2>2
<1>5. n \div (2 * p) = e
  <2> DEFINE w == 2 * p
             u == t * p + r
  <2>1. w \in Int /\ w > 0 /\ u \in 0 .. w - 1 /\ n = e * w + u /\ e \in Int
    BY <1>2, <1>3, <1>4
  <2> HIDE DEF w, u
  <2>2. n \div w = e
    BY <2>1, DivisionIs
  <2> QED
    BY <2>2 DEF w
<1>6. d = 2 * (n \div (2 * p)) + t /\ n \div (2 * p) \in Nat
  BY <1>2, <1>5
<1>7. t \in {0, 1}
  BY <1>2
<1> QED
  <2>1. n \div p \in Nat
    BY <1>1 DEF d
  <2>2. n \div p = 2 * (n \div (2 * p)) + ((n \div p) % 2)
    BY <1>6 DEF d, t
  <2>3. (n \div p) % 2 \in {0, 1}
    BY <1>7 DEF d, t
  <2> QED
    BY <1>6, <2>1, <2>2, <2>3, Zenon

\* What the bits from b on of a number are.
LEMMA HighBits ==
  ASSUME NEW n \in Nat, NEW b \in Nat
  PROVE  /\ n \div TwoTo[b] \in Nat /\ n \div TwoTo[b + 1] \in Nat
         /\ Bit(n, b) \in {0, 1}
         /\ n \div TwoTo[b] = 2 * (n \div TwoTo[b + 1]) + Bit(n, b)
         /\ n \div TwoTo[0] = n
<1>1. TwoTo[b] \in Nat /\ TwoTo[b] > 0 /\ TwoTo[b + 1] = 2 * TwoTo[b] /\ TwoTo[0] = 1
  BY TwoToUnfolds
<1>2. n \div TwoTo[0] = n
  <2>1. n \div 1 = n
    OBVIOUS
  <2> QED
    BY <1>1, <2>1, Zenon
<1>3. /\ n \div TwoTo[b] \in Nat
      /\ n \div TwoTo[b] = 2 * (n \div (2 * TwoTo[b])) + ((n \div TwoTo[b]) % 2)
      /\ (n \div TwoTo[b]) % 2 \in {0, 1}
  BY <1>1, HalfTheQuotient, Zenon
<1>4. n \div TwoTo[b + 1] \in Nat
  <2>1. b + 1 \in Nat
    OBVIOUS
  <2>2. TwoTo[b + 1] \in Nat /\ TwoTo[b + 1] > 0
    BY <2>1, TwoToUnfolds
  <2> QED
    BY <2>2, HalfTheQuotient, Zenon
<1> QED
  BY <1>1, <1>2, <1>3, <1>4, Zenon DEF Bit

\* None is set past a power that exceeds it.
LEMMA NoHighBits ==
  ASSUME NEW n \in Nat, NEW w \in Nat, n < TwoTo[w]
  PROVE  n \div TwoTo[w] = 0
<1>1. TwoTo[w] \in Nat /\ TwoTo[w] > 0
  BY TwoToUnfolds
<1> DEFINE p == TwoTo[w]
<1>2. p \in Int /\ p > 0 /\ n \in 0 .. p - 1 /\ 0 * p + n = n
  BY <1>1
<1> HIDE DEF p
<1>3. (0 * p + n) \div p = 0
  BY <1>2, DivisionIs
<1>4. n \div p = 0
  BY <1>2, <1>3
<1> QED
  BY <1>4 DEF p

\* A number has the bits of its half one place up.
LEMMA BitOfHalf ==
  ASSUME NEW n \in Nat, NEW b \in Nat
  PROVE  Bit(n \div 2, b) = Bit(n, b + 1)
<1>1. TwoTo[b] \in Nat /\ TwoTo[b] > 0 /\ TwoTo[b + 1] = 2 * TwoTo[b]
  BY TwoToUnfolds
<1> DEFINE p == TwoTo[b]
           h == n \div 2
           e == n % 2
           d == h \div p
           r == h % p
<1>2. h \in Nat /\ e \in 0 .. 1 /\ n = 2 * h + e
  OBVIOUS
<1>3. p \in Nat /\ p > 0 /\ TwoTo[b + 1] = 2 * p
  BY <1>1
<1> HIDE DEF p, h, e
<1>4. d \in Nat /\ r \in 0 .. p - 1 /\ h = d * p + r
  BY <1>2, <1>3
<1> HIDE DEF d, r
<1>5. n \div (2 * p) = d
  <2> DEFINE w == 2 * p
             u == 2 * r + e
  <2>1. n = d * w + u
    <3>1. d * (2 * p) = 2 * (d * p) /\ d * p \in Int
      BY <1>3, <1>4
    <3> QED
      BY <1>2, <1>3, <1>4, <3>1
  <2>2. w \in Int /\ w > 0 /\ u \in 0 .. w - 1 /\ d \in Int
    BY <1>2, <1>3, <1>4
  <2> HIDE DEF w, u
  <2>3. n \div w = d
    BY <2>1, <2>2, DivisionIs
  <2> QED
    BY <2>3 DEF w
<1> QED
  BY <1>3, <1>5 DEF Bit, d, h, p

\* Where two numbers part: some place up to which they have nothing in common.
LEMMA Parting ==
  ASSUME NEW n \in Nat, NEW m \in Nat, NEW w \in Nat, n # m,
         n < TwoTo[w], m < TwoTo[w]
  PROVE  \E b \in 0 .. w - 1 : /\ Bit(n, b) # Bit(m, b)
                               /\ Bit(n, b + 1) = Bit(m, b + 1)
<1> DEFINE T == {k \in Nat : n \div TwoTo[k] = m \div TwoTo[k]}
<1>1. w \in T
  BY NoHighBits
<1>2. PICK k \in T : \A i \in T : k <= i
  <2>1. T \in SUBSET Nat
    OBVIOUS
  <2> HIDE DEF T
  <2> QED
    BY <1>1, <2>1, LeastIndex
<1>3. k # 0
  <2>1. n \div TwoTo[0] = n /\ m \div TwoTo[0] = m
    BY HighBits
  <2> QED
    BY <1>2, <2>1
<1>4. k - 1 \in 0 .. w - 1 /\ k - 1 \in Nat /\ (k - 1) + 1 = k /\ ~(k <= k - 1)
  BY <1>1, <1>2, <1>3
<1>5. n \div TwoTo[k] = m \div TwoTo[k] /\ n \div TwoTo[k - 1] # m \div TwoTo[k - 1]
  BY <1>2, <1>4
<1>6. /\ n \div TwoTo[k - 1] = 2 * (n \div TwoTo[k]) + Bit(n, k - 1)
      /\ m \div TwoTo[k - 1] = 2 * (m \div TwoTo[k]) + Bit(m, k - 1)
  <2>1. /\ n \div TwoTo[k - 1] = 2 * (n \div TwoTo[(k - 1) + 1]) + Bit(n, k - 1)
        /\ m \div TwoTo[k - 1] = 2 * (m \div TwoTo[(k - 1) + 1]) + Bit(m, k - 1)
    BY <1>4, HighBits, Zenon
  <2> QED
    BY <1>4, <2>1, Zenon
<1>7. Bit(n, k - 1) # Bit(m, k - 1)
  BY <1>5, <1>6
<1>8. Bit(n, k) = Bit(m, k)
  BY <1>5 DEF Bit
<1> QED
  BY <1>4, <1>7, <1>8

\* So the bits tell them apart.
LEMMA BitsTell ==
  ASSUME NEW n \in Nat, NEW m \in Nat, NEW w \in Nat,
         n < TwoTo[w], m < TwoTo[w], Bits(n, w) = Bits(m, w)
  PROVE  n = m
<1>1. \A b \in 0 .. w - 1 : Bits(n, w)[b] = Bit(n, b) /\ Bits(m, w)[b] = Bit(m, b)
  BY DEF Bits
<1> QED
  BY <1>1, Parting

\* And so does the Gray code, each of whose bits is a bit and the next one up.
LEMMA GrayTells ==
  ASSUME NEW n \in Nat, NEW m \in Nat, NEW w \in Nat, n < TwoTo[w], m < TwoTo[w],
         \A b \in 0 .. w - 1 :
           (Bit(n, b) + Bit(n \div 2, b)) % 2 = (Bit(m, b) + Bit(m \div 2, b)) % 2
  PROVE  n = m
<1> SUFFICES ASSUME n # m PROVE FALSE
  OBVIOUS
<1>1. PICK b \in 0 .. w - 1 : Bit(n, b) # Bit(m, b) /\ Bit(n, b + 1) = Bit(m, b + 1)
  BY Parting
<1>2. b \in Nat /\ b + 1 \in Nat
  OBVIOUS
<1>3. /\ Bit(n \div 2, b) = Bit(n, b + 1) /\ Bit(m \div 2, b) = Bit(m, b + 1)
      /\ Bit(n, b) \in {0, 1} /\ Bit(m, b) \in {0, 1}
      /\ Bit(n, b + 1) \in {0, 1} /\ Bit(m, b + 1) \in {0, 1}
  BY <1>2, BitOfHalf, HighBits
<1>4. (Bit(n, b) + Bit(n, b + 1)) % 2 = (Bit(m, b) + Bit(n, b + 1)) % 2
  BY <1>1, <1>3
<1>5. ASSUME NEW x \in {0, 1}, NEW y \in {0, 1}, NEW z \in {0, 1},
             (x + z) % 2 = (y + z) % 2
      PROVE  x = y
  BY <1>5
<1> QED
  BY <1>1, <1>3, <1>4, <1>5

\* A one shifted up keeps its place within a longer word, and only its place.
LEMMA OneHotBit ==
  ASSUME NEW i \in Nat, NEW j \in Nat, NEW word \in Nat, i < word, i <= j
  PROVE  Bit(TwoTo[i] % TwoTo[word], j) = IF i = j THEN 1 ELSE 0
<1>1. /\ TwoTo[i] \in Nat /\ TwoTo[i] > 0 /\ TwoTo[word] \in Nat /\ TwoTo[j] \in Nat
      /\ TwoTo[i] < TwoTo[word]
  BY TwoToUnfolds, TwoToGrows
<1>2. TwoTo[i] % TwoTo[word] = TwoTo[i]
  <2> DEFINE a == TwoTo[i]
             m == TwoTo[word]
  <2>1. a \in Nat /\ m \in Nat /\ a < m
    BY <1>1
  <2> HIDE DEF a, m
  <2>2. a % m = a
    BY <2>1
  <2> QED
    BY <2>2 DEF a, m
<1>3. CASE i = j
  <2> DEFINE a == TwoTo[i]
  <2>1. a \in Int /\ a > 0 /\ 0 \in 0 .. a - 1 /\ 1 * a + 0 = a
    BY <1>1
  <2> HIDE DEF a
  <2>2. (1 * a + 0) \div a = 1
    BY <2>1, DivisionIs
  <2>3. (a \div a) % 2 = 1
    BY <2>1, <2>2
  <2> QED
    BY <1>2, <1>3, <2>3 DEF Bit, a
<1>4. CASE i # j
  <2>1. TwoTo[i] < TwoTo[j]
    BY <1>4, TwoToGrows
  <2>2. TwoTo[i] \div TwoTo[j] = 0
    BY <1>1, <2>1, NoHighBits
  <2> QED
    BY <1>2, <1>4, <2>2 DEF Bit
<1> QED
  BY <1>3, <1>4

-----------------------------------------------------------------------------
(* The numbers of the states *)

\* A part of a finite set that misses an element is smaller.
LEMMA Smaller ==
  ASSUME NEW S, IsFiniteSet(S), NEW T \in SUBSET S, NEW x \in S, x \notin T
  PROVE  /\ IsFiniteSet(T)
         /\ Cardinality(T) \in Nat /\ Cardinality(S) \in Nat
         /\ Cardinality(T) < Cardinality(S)
<1>1. IsFiniteSet(T) /\ Cardinality(T) <= Cardinality(S) /\ Cardinality(S) # Cardinality(T)
  BY FS_Subset
<1>2. Cardinality(T) \in Nat /\ Cardinality(S) \in Nat
  BY <1>1, FS_CardinalityType
<1> QED
  BY <1>1, <1>2

LEMMA StatesFinite ==
  ASSUME TypeOK
  PROVE  /\ WaitStates \subseteq NodeId /\ WaitStates \in SUBSET Nat
         /\ IsFiniteSet(WaitStates) /\ IsFiniteSet(States)
         /\ Cardinality(WaitStates) \in Nat /\ Cardinality(States) \in Nat
         /\ Hold \notin WaitStates
         /\ Cardinality(States) =
              IF holdNeeded THEN Cardinality(WaitStates) + 1 ELSE Cardinality(WaitStates)
<1>1. WaitStates \subseteq NodeId /\ WaitStates \in SUBSET Nat
  BY DecodeAssumption DEF WaitStates, TypeOK, Source, Waits
<1>2. Hold \notin WaitStates
  BY <1>1, ProgramAssumption
<1>3. IsFiniteSet(WaitStates)
  BY <1>1, FS_Subset, DecodeAssumption
<1>4. /\ IsFiniteSet(States)
      /\ Cardinality(States) =
           IF holdNeeded THEN Cardinality(WaitStates) + 1 ELSE Cardinality(WaitStates)
  <2>1. CASE holdNeeded
    BY <1>2, <1>3, <2>1, FS_AddElement DEF States
  <2>2. CASE ~holdNeeded
    <3>1. States = WaitStates
      BY <2>2 DEF States
    <3> QED
      BY <1>3, <2>2, <3>1
  <2> QED
    BY <2>1, <2>2
<1> QED
  BY <1>1, <1>2, <1>3, <1>4, FS_CardinalityType

\* The states are numbered from zero, below their count.
LEMMA IndexBound ==
  ASSUME TypeOK, NEW q \in States
  PROVE  Index(q) \in Nat /\ Index(q) < Cardinality(States)
<1>1. CASE q = Hold
  <2>1. holdNeeded
    BY <1>1, StatesFinite DEF States
  <2>2. Index(q) = Cardinality(WaitStates)
    BY <1>1 DEF Index
  <2> QED
    BY <2>1, <2>2, StatesFinite
<1>2. CASE q # Hold
  <2>1. q \in WaitStates
    BY <1>2 DEF States
  <2>2. q \in Nat
    BY <2>1, StatesFinite
  <2>3. ~(q < q)
    BY <2>2
  <2> DEFINE B == {w \in WaitStates : w < q}
  <2>4. B \in SUBSET WaitStates /\ q \notin B
    BY <2>3
  <2>5. Index(q) = Cardinality(B)
    BY <1>2 DEF Index
  <2> HIDE DEF B
  <2>6. Cardinality(B) \in Nat /\ Cardinality(B) < Cardinality(WaitStates)
    BY <2>1, <2>4, StatesFinite, Smaller
  <2> QED
    BY <2>5, <2>6, StatesFinite
<1> QED
  BY <1>1, <1>2

\* Two of them by two numbers.
LEMMA IndexTells ==
  ASSUME TypeOK, NEW p \in States, NEW q \in States, Index(p) = Index(q)
  PROVE  p = q
<1>1. ASSUME NEW u \in WaitStates, NEW v \in WaitStates, u < v
      PROVE  Cardinality({w \in WaitStates : w < u}) # Cardinality({w \in WaitStates : w < v})
  <2> DEFINE A == {w \in WaitStates : w < u}
             B == {w \in WaitStates : w < v}
  <2>1. u \in Nat /\ v \in Nat /\ WaitStates \in SUBSET Nat
    BY StatesFinite
  <2>2. \A w \in WaitStates : w < u => w < v
    BY <1>1, <2>1
  <2>3. ~(u < u)
    BY <2>1
  <2>4. A \in SUBSET B /\ u \in B /\ u \notin A /\ B \in SUBSET WaitStates
    BY <1>1, <2>2, <2>3
  <2> HIDE DEF A, B
  <2>5. IsFiniteSet(B)
    BY <2>4, StatesFinite, FS_Subset
  <2>6. Cardinality(A) \in Nat /\ Cardinality(B) \in Nat /\ Cardinality(A) < Cardinality(B)
    BY <2>4, <2>5, Smaller
  <2>7. Cardinality(A) # Cardinality(B)
    BY <2>6
  <2> QED
    BY <2>7 DEF A, B
<1>2. CASE p # Hold /\ q # Hold
  <2>1. p \in WaitStates /\ q \in WaitStates
    BY <1>2 DEF States
  <2>2. p \in Nat /\ q \in Nat
    BY <2>1, StatesFinite
  <2>3. ~(p < q) /\ ~(q < p)
    BY <1>1, <1>2, <2>1 DEF Index
  <2> QED
    BY <2>2, <2>3
<1>3. ASSUME NEW u \in WaitStates
      PROVE  Index(u) # Index(Hold)
  <2> DEFINE B == {w \in WaitStates : w < u}
  <2>1. u \in Nat
    BY StatesFinite
  <2>2. ~(u < u)
    BY <2>1
  <2>3. B \in SUBSET WaitStates /\ u \notin B
    BY <2>2
  <2>4. Index(u) = Cardinality(B) /\ Index(Hold) = Cardinality(WaitStates)
    BY StatesFinite DEF Index
  <2> HIDE DEF B
  <2>5. Cardinality(B) \in Nat /\ Cardinality(B) < Cardinality(WaitStates)
    BY <2>3, StatesFinite, Smaller
  <2> QED
    BY <2>4, <2>5, StatesFinite
<1>4. CASE p = Hold \/ q = Hold
  <2>1. (p = Hold \/ p \in WaitStates) /\ (q = Hold \/ q \in WaitStates)
    BY DEF States
  <2> QED
    BY <1>3, <1>4, <2>1
<1> QED
  BY <1>2, <1>4

-----------------------------------------------------------------------------
(* The ordinals that output encoding adds *)

\* Two states that show the same have two ordinals, below the number of states.
LEMMA OrdinalFacts ==
  ASSUME TypeOK, NEW vectors
  PROVE  /\ \A q \in States : /\ Ordinals(vectors)[q] \in Nat
                              /\ Ordinals(vectors)[q] < Cardinality(States)
         /\ \A p, q \in States :
              vectors[p] = vectors[q] /\ Ordinals(vectors)[p] = Ordinals(vectors)[q] => p = q
<1> DEFINE Before(q) == {p \in States : Index(p) < Index(q) /\ vectors[p] = vectors[q]}
<1>1. \A q \in States : Ordinals(vectors)[q] = Cardinality(Before(q))
  BY DEF Ordinals
<1>2. ASSUME NEW q \in States
      PROVE  Before(q) \in SUBSET States /\ q \notin Before(q)
  <2>1. ~(Index(q) < Index(q))
    BY IndexBound
  <2> QED
    BY <2>1
<1>3. ASSUME NEW p \in States, NEW q \in States, vectors[p] = vectors[q], Index(p) < Index(q)
      PROVE  Before(p) \in SUBSET Before(q) /\ p \in Before(q) /\ p \notin Before(p)
  <2>1. \A r \in States : Index(r) \in Nat
    BY IndexBound
  <2>2. \A r \in States : Index(r) < Index(p) => Index(r) < Index(q)
    BY <1>3, <2>1
  <2> QED
    BY <1>2, <1>3, <2>2
<1> HIDE DEF Before
<1>4. \A q \in States : /\ IsFiniteSet(Before(q)) /\ Cardinality(Before(q)) \in Nat
                        /\ Cardinality(Before(q)) < Cardinality(States)
  BY <1>2, StatesFinite, Smaller
<1>5. ASSUME NEW p \in States, NEW q \in States, vectors[p] = vectors[q], Index(p) < Index(q)
      PROVE  Cardinality(Before(p)) # Cardinality(Before(q))
  <2>1. Cardinality(Before(p)) < Cardinality(Before(q))
    BY <1>3, <1>4, <1>5, Smaller
  <2> QED
    BY <1>4, <2>1
<1>6. ASSUME NEW p \in States, NEW q \in States, vectors[p] = vectors[q],
             Cardinality(Before(p)) = Cardinality(Before(q))
      PROVE  p = q
  <2>1. ~(Index(p) < Index(q)) /\ ~(Index(q) < Index(p))
    BY <1>5, <1>6
  <2>2. Index(p) = Index(q)
    BY <2>1, IndexBound
  <2> QED
    BY <2>2, IndexTells
<1> QED
  BY <1>1, <1>4, <1>6

\* Largest is their bound.
LEMMA LargestFacts ==
  ASSUME TypeOK, NEW ordinals, States # {},
         \A q \in States : ordinals[q] \in Nat /\ ordinals[q] < Cardinality(States)
  PROVE  Largest(ordinals) \in Nat /\ \A q \in States : ordinals[q] < Largest(ordinals)
<1> DEFINE T == {n \in Nat : \A q \in States : ordinals[q] < n}
<1>1. Cardinality(States) \in T
  BY StatesFinite
<1>2. PICK n \in T : \A i \in T : n <= i
  <2>1. T \in SUBSET Nat
    OBVIOUS
  <2> HIDE DEF T
  <2> QED
    BY <1>1, <2>1, LeastIndex
<1>3. n \in 1 .. Cardinality(States)
  <2>1. n <= Cardinality(States)
    BY <1>1, <1>2
  <2>2. PICK q \in States : TRUE
    OBVIOUS
  <2>3. ordinals[q] \in Nat /\ ordinals[q] < n
    BY <1>2
  <2> QED
    BY <2>1, <2>3, StatesFinite
<1>4. PICK q \in States : ~(ordinals[q] < n - 1)
  <2>1. n - 1 \in Nat /\ ~(n <= n - 1)
    BY <1>3
  <2>2. n - 1 \notin T
    BY <1>2, <2>1
  <2> QED
    BY <2>1, <2>2
<1>5. ordinals[q] = n - 1
  <2>1. ordinals[q] \in Nat /\ ordinals[q] < n
    BY <1>2
  <2> QED
    BY <1>3, <1>4, <2>1
<1>6. \E m \in 1 .. Cardinality(States) :
        (\A r \in States : ordinals[r] < m) /\ (\E r \in States : ordinals[r] = m - 1)
  BY <1>2, <1>3, <1>5
<1> DEFINE l == CHOOSE m \in 1 .. Cardinality(States) :
                  /\ \A r \in States : ordinals[r] < m
                  /\ \E r \in States : ordinals[r] = m - 1
<1>7. l \in 1 .. Cardinality(States) /\ \A r \in States : ordinals[r] < l
  BY <1>6
<1>8. Largest(ordinals) = l
  BY DEF Largest
<1> HIDE DEF l
<1> QED
  BY <1>7, <1>8, StatesFinite

\* The bits of the ordinals tell them apart.
LEMMA OrdinalBitsTell ==
  ASSUME TypeOK, NEW ordinals, NEW p \in States, NEW q \in States,
         \A r \in States : ordinals[r] \in Nat /\ ordinals[r] < Cardinality(States),
         Bits(ordinals[p], OrdinalBits(ordinals)) = Bits(ordinals[q], OrdinalBits(ordinals))
  PROVE  ordinals[p] = ordinals[q]
<1>1. /\ Largest(ordinals) \in Nat /\ ordinals[p] \in Nat /\ ordinals[q] \in Nat
      /\ ordinals[p] < Largest(ordinals) /\ ordinals[q] < Largest(ordinals)
  BY LargestFacts
<1>2. CASE Largest(ordinals) > 1
  <2> DEFINE w == Clog2(Largest(ordinals))
  <2>1. OrdinalBits(ordinals) = w
    BY <1>2 DEF OrdinalBits
  <2>2. w \in Nat /\ Largest(ordinals) <= TwoTo[w]
    BY <1>1, Clog2Covers
  <2> HIDE DEF w
  <2>3. TwoTo[w] \in Nat
    BY <2>2, TwoToUnfolds
  <2>4. ordinals[p] < TwoTo[w] /\ ordinals[q] < TwoTo[w]
    BY <1>1, <2>2, <2>3
  <2> QED
    BY <1>1, <2>1, <2>2, <2>4, BitsTell
<1>3. CASE ~(Largest(ordinals) > 1)
  BY <1>1, <1>3
<1> QED
  BY <1>2, <1>3

-----------------------------------------------------------------------------
(* The codes *)

\* No two states have one code, under any of the encodings.
LEMMA CodesTell ==
  ASSUME TypeOK, Encodable, NEW p \in States, NEW q \in States, Codes[p] = Codes[q]
  PROVE  p = q
<1> DEFINE count == Cardinality(States)
           width == Clog2(count)
<1>1. /\ count \in Nat /\ Index(p) \in Nat /\ Index(q) \in Nat
      /\ Index(p) < count /\ Index(q) < count
  BY IndexBound, StatesFinite
<1>2. width \in Nat /\ TwoTo[width] \in Nat /\ count <= TwoTo[width]
  BY <1>1, Clog2Covers, TwoToUnfolds
<1>3. Index(p) < TwoTo[width] /\ Index(q) < TwoTo[width]
  <2> HIDE DEF width, count
  <2> QED
    BY <1>1, <1>2
<1>4. CASE encoding = "binary"
  <2>1. Codes = [r \in States |-> Bits(Index(r), width)]
    BY <1>4 DEF Codes
  <2> HIDE DEF width, count
  <2>2. Bits(Index(p), width) = Bits(Index(q), width)
    BY <2>1
  <2>3. Index(p) = Index(q)
    BY <1>1, <1>2, <1>3, <2>2, BitsTell
  <2> QED
    BY <2>3, IndexTells
<1>5. CASE encoding = "gray"
  <2>1. Codes = [r \in States |-> [b \in 0 .. width - 1 |->
                                     (Bit(Index(r), b) + Bit(Index(r) \div 2, b)) % 2]]
    BY <1>5 DEF Codes
  <2> HIDE DEF width, count
  <2>2. ASSUME NEW b \in 0 .. width - 1
        PROVE  (Bit(Index(p), b) + Bit(Index(p) \div 2, b)) % 2
                 = (Bit(Index(q), b) + Bit(Index(q) \div 2, b)) % 2
    <3>1. Codes[p][b] = Codes[q][b]
      OBVIOUS
    <3> QED
      BY <2>1, <3>1
  <2>3. Index(p) = Index(q)
    BY <1>1, <1>2, <1>3, <2>2, GrayTells
  <2> QED
    BY <2>3, IndexTells
<1>6. CASE encoding = "one_hot"
  <2> DEFINE One(r) == TwoTo[Index(r)] % TwoTo[WordBits]
  <2>1. Codes = [r \in States |-> Bits(One(r), count)]
    BY <1>6 DEF Codes
  <2>2. count <= WordBits /\ WordBits \in Nat
    BY <1>6, DecodeAssumption DEF Encodable
  <2>3. Index(p) < WordBits /\ Index(q) < WordBits
    <3> HIDE DEF width, count
    <3> QED
      BY <1>1, <2>2
  <2>4. /\ \A j \in Nat : Index(p) <= j => Bit(One(p), j) = IF Index(p) = j THEN 1 ELSE 0
        /\ \A j \in Nat : Index(q) <= j => Bit(One(q), j) = IF Index(q) = j THEN 1 ELSE 0
    BY <1>1, <2>2, <2>3, OneHotBit
  <2> HIDE DEF One, count, width
  <2>5. ASSUME NEW j \in Nat, j < count
        PROVE  Bit(One(p), j) = Bit(One(q), j)
    <3>1. j \in 0 .. count - 1
      BY <1>1, <2>5
    <3>2. Codes[p][j] = Bit(One(p), j) /\ Codes[q][j] = Bit(One(q), j)
      BY <2>1, <3>1 DEF Bits
    <3> QED
      BY <3>2
  <2>6. Index(p) = Index(q)
    <3>1. CASE Index(p) <= Index(q)
      BY <1>1, <2>4, <2>5, <3>1
    <3>2. CASE Index(q) <= Index(p)
      BY <1>1, <2>4, <2>5, <3>2
    <3> QED
      BY <1>1, <3>1, <3>2
  <2> QED
    BY <2>6, IndexTells
<1>7. CASE encoding = "output"
  <2> DEFINE vectors  == [r \in States |-> Vector(r)]
             ordinals == Ordinals(vectors)
             bits     == OrdinalBits(ordinals)
  <2>1. Codes = [r \in States |-> [shown |-> vectors[r], ordinal |-> Bits(ordinals[r], bits)]]
    BY <1>7 DEF Codes, OutputCodes
  <2>2. /\ \A r \in States : ordinals[r] \in Nat /\ ordinals[r] < Cardinality(States)
        /\ vectors[p] = vectors[q] /\ ordinals[p] = ordinals[q] => p = q
    <3> HIDE DEF vectors
    <3> QED
      BY OrdinalFacts
  <2> HIDE DEF vectors, ordinals
  <2>3. vectors[p] = vectors[q] /\ Bits(ordinals[p], bits) = Bits(ordinals[q], bits)
    <3>1. Codes[p].shown = Codes[q].shown /\ Codes[p].ordinal = Codes[q].ordinal
      OBVIOUS
    <3> QED
      BY <2>1, <3>1
  <2>4. ordinals[p] = ordinals[q]
    BY <2>2, <2>3, OrdinalBitsTell
  <2> QED
    BY <2>2, <2>3, <2>4
<1> QED
  BY <1>4, <1>5, <1>6, <1>7 DEF TypeOK, Encodings, encoding

-----------------------------------------------------------------------------
(* What an output reads *)

\* A store one of whose registers holds another of its values.
LEMMA OneChanged ==
  ASSUME NEW s \in Store, NEW v \in Vars, NEW k \in 0 .. Modulus[v] - 1
  PROVE  [s EXCEPT ![v] = k] \in Store
<1> DEFINE r == [s EXCEPT ![v] = k]
<1>1. ASSUME NEW u \in Vars PROVE r[u] \in Wide /\ r[u] < Modulus[u]
  <2>1. Modulus[v] \in 1 .. WideModulus /\ WideModulus \in Nat
    BY ExprAssumption
  <2>2. k \in Wide /\ k < Modulus[v]
    BY <2>1 DEF Wide
  <2>3. s[u] \in Wide /\ s[u] < Modulus[u] /\ s \in [Vars -> Wide]
    BY DEF Store, WideStore
  <2> QED
    BY <2>2, <2>3
<1>2. r = [u \in Vars |-> r[u]]
  BY DEF Store, WideStore
<1> HIDE DEF r
<1>3. r \in Store
  BY <1>1, <1>2 DEF Store, WideStore
<1> QED
  BY <1>3 DEF r

Difference(s, r) == {u \in Vars : s[u] # r[u]}

\* A value that reads no name of a set is the same over two stores that differ
\* on that set alone: the names are changed one by one.
LEMMA ReadsNone ==
  ASSUME NEW x, NEW V, \A v \in V : ~DependsOn(x, v),
         NEW s \in Store, NEW r \in Store, Difference(s, r) \subseteq V
  PROVE  x[s] = x[r]
<1> DEFINE Bad(y) == Difference(y, r) \subseteq V /\ x[y] # x[r]
           T == {n \in Nat : \E y \in Store : Bad(y) /\ n = Cardinality(Difference(y, r))}
<1>1. \A y \in Store : IsFiniteSet(Difference(y, r)) /\ Cardinality(Difference(y, r)) \in Nat
  BY DecodeAssumption, FS_Subset, FS_CardinalityType DEF Difference
<1> SUFFICES ASSUME x[s] # x[r] PROVE FALSE
  OBVIOUS
<1>2. T # {}
  <2>1. Cardinality(Difference(s, r)) \in T
    BY <1>1
  <2> QED
    BY <2>1
<1>3. PICK n \in T : \A i \in T : n <= i
  <2>1. T \in SUBSET Nat
    OBVIOUS
  <2> HIDE DEF T
  <2> QED
    BY <1>2, <2>1, LeastIndex
<1>4. PICK y \in Store : Bad(y) /\ n = Cardinality(Difference(y, r))
  OBVIOUS
<1>5. PICK v \in Vars : v \in Difference(y, r)
  <2>1. y # r
    BY <1>4
  <2>2. y = [u \in Vars |-> y[u]] /\ r = [u \in Vars |-> r[u]]
    BY DEF Store, WideStore
  <2>3. \E u \in Vars : y[u] # r[u]
    <3> SUFFICES ASSUME \A u \in Vars : y[u] = r[u] PROVE FALSE
      OBVIOUS
    <3>1. [u \in Vars |-> y[u]] = [u \in Vars |-> r[u]]
      OBVIOUS
    <3> QED
      BY <2>1, <2>2, <3>1
  <2> QED
    BY <2>3 DEF Difference
<1> DEFINE z == [y EXCEPT ![v] = r[v]]
<1>6. r[v] \in 0 .. Modulus[v] - 1
  <2>1. r[v] \in Wide /\ r[v] < Modulus[v] /\ Modulus[v] \in 1 .. WideModulus /\ WideModulus \in Nat
    BY ExprAssumption DEF Store, WideStore
  <2> QED
    BY <2>1 DEF Wide
<1>7. z \in Store
  BY <1>6, OneChanged
<1>8. x[z] = x[y]
  <2>1. ~DependsOn(x, v)
    BY <1>4, <1>5
  <2> QED
    BY <1>6, <2>1 DEF DependsOn
<1>9. Difference(z, r) = Difference(y, r) \ {v}
  <2>1. y \in [Vars -> Wide]
    BY DEF Store, WideStore
  <2> QED
    BY <2>1 DEF Difference
<1> HIDE DEF z
<1>10. Bad(z)
  BY <1>4, <1>8, <1>9
<1>11. Cardinality(Difference(z, r)) < n
  <2>1. Difference(z, r) \in SUBSET Difference(y, r) /\ v \notin Difference(z, r)
    BY <1>9
  <2> QED
    BY <1>1, <1>4, <1>5, <2>1, Smaller
<1>12. Cardinality(Difference(z, r)) \in T /\ Cardinality(Difference(z, r)) \in Nat
  BY <1>1, <1>7, <1>10
<1>13. n <= Cardinality(Difference(z, r))
  BY <1>3, <1>12
<1> QED
  BY <1>3, <1>11, <1>12, <1>13

\* What an edge may move without leaving the state.
Moving == Inputs \cup Decoded

\* The leg of an arm whose conditions read nothing that moves is the same.
LEMMA SameLeg ==
  ASSUME NEW arm, NEW s, NEW r,
         \A j \in DOMAIN arm : Satisfies(s, arm[j].guard) <=> Satisfies(r, arm[j].guard)
  PROVE  ArmLeg(arm, s) = ArmLeg(arm, r)
<1>1. \A j \in DOMAIN arm :
        (/\ (\A i \in DOMAIN arm : i <= j) \/ Satisfies(s, arm[j].guard)
         /\ \A i \in DOMAIN arm : i < j => ~Satisfies(s, arm[i].guard))
        <=>
        (/\ (\A i \in DOMAIN arm : i <= j) \/ Satisfies(r, arm[j].guard)
         /\ \A i \in DOMAIN arm : i < j => ~Satisfies(r, arm[i].guard))
  OBVIOUS
<1> QED
  BY <1>1 DEF ArmLeg

\* An arm that passed the checks shows the same over what may move.
LEMMA ArmShowsSame ==
  ASSUME TypeOK, NEW q, NEW src \in Sources(q), NEW d \in Decoded, ~Unstable(src, q, d),
         NEW s \in Store, NEW r \in Store, Difference(s, r) \subseteq Moving
  PROVE  LET arm == Arm(src, q, d)
         IN  arm[ArmLeg(arm, s)].value[s] = arm[ArmLeg(arm, r)].value[r]
<1> DEFINE arm == Arm(src, q, d)
<1>1. src \in Source /\ Into(src, q) \in SUBSET Nat /\ Len(out[src]) \in Nat
      /\ \A j \in Into(src, q) : j <= Len(out[src])
  BY IntoFacts DEF Sources, TypeOK
<1>2. Deciding(src, q, d) \subseteq Into(src, q) /\ Deciding(src, q, d) # {}
  BY DecidingFacts
<1>3. DOMAIN arm = Deciding(src, q, d)
  BY DEF Arm
<1>4. \A j \in DOMAIN arm : /\ arm[j].value = out[src][j].decode[d]
                            /\ arm[j].guard = IF Agree(src, q, d) THEN {} ELSE Residue(src, q, j)
  BY DEF Arm
<1> HIDE DEF arm
<1>5. ASSUME NEW x, NEW action, ~Volatile(x, action)
      PROVE  x[s] = x[r]
  BY <1>5, ReadsNone DEF Volatile, Moving
<1>6. \A j \in DOMAIN arm : arm[j].value[s] = arm[j].value[r]
  BY <1>2, <1>3, <1>4, <1>5 DEF Unstable
<1>7. ASSUME NEW j \in DOMAIN arm
      PROVE  Satisfies(s, arm[j].guard) <=> Satisfies(r, arm[j].guard)
  <2>1. CASE Agree(src, q, d)
    BY <1>4, <2>1 DEF Satisfies
  <2>2. CASE ~Agree(src, q, d)
    <3>1. \A l \in Residue(src, q, j) : ~Volatile(l.lhs, out[src][j].action)
      BY <1>3, <2>2 DEF Unstable
    <3>2. \A l \in Residue(src, q, j) : l.lhs[s] = l.lhs[r]
      BY <1>5, <3>1
    <3>3. arm[j].guard = Residue(src, q, j)
      BY <1>4, <2>2
    <3> QED
      BY <3>2, <3>3 DEF Satisfies, Holds
  <2> QED
    BY <2>1, <2>2
<1>8. ArmLeg(arm, s) = ArmLeg(arm, r)
  BY <1>7, SameLeg
<1>9. ArmLeg(arm, s) \in DOMAIN arm
  BY <1>1, <1>2, <1>3, ArmLegIsALeg
<1> QED
  BY <1>6, <1>8, <1>9 DEF arm

\* What a state shows is the same over what may move.
LEMMA ShowsSame ==
  ASSUME TypeOK, Decodable, arms = Arms, NEW q \in States, Sources(q) # {}, NEW d \in Decoded,
         NEW s \in Store, NEW r \in Store, Difference(s, r) \subseteq Moving
  PROVE  Shown(q, d, s, FALSE) = Shown(q, d, r, FALSE)
<1>1. CASE encoding = "output"
  BY <1>1 DEF Shown
<1>2. CASE encoding # "output"
  <2> DEFINE src == CHOOSE u \in Sources(q) : TRUE
             arm == Arm(src, q, d)
  <2>1. q \in DOMAIN arms /\ arms[q][d] = arm
    BY DEF Arms
  <2>2. src \in Sources(q)
    OBVIOUS
  <2>3. ~Unstable(src, q, d)
    BY <2>2 DEF Decodable
  <2> HIDE DEF src
  <2>4. arm[ArmLeg(arm, s)].value[s] = arm[ArmLeg(arm, r)].value[r]
    BY <2>2, <2>3, ArmShowsSame
  <2> HIDE DEF arm
  <2> QED
    BY <1>2, <2>1, <2>4 DEF Shown
<1> QED
  BY <1>1, <1>2

-----------------------------------------------------------------------------
(* The legs of an arm, and the chain they make                             *)

\* An arm takes one leg.
LEMMA TakesOne ==
  ASSUME NEW arm, DOMAIN arm \in SUBSET Nat, NEW s, NEW j \in DOMAIN arm, Takes(arm, s, j)
  PROVE  ArmLeg(arm, s) = j
<1>1. ASSUME NEW a \in DOMAIN arm, NEW b \in DOMAIN arm,
             Takes(arm, s, a), Takes(arm, s, b)
      PROVE  ~(a < b)
  <2> SUFFICES ASSUME a < b PROVE FALSE
    OBVIOUS
  <2>1. ~Satisfies(s, arm[a].guard)
    BY <1>1 DEF Takes
  <2>2. b <= a /\ a \in Nat /\ b \in Nat
    BY <1>1, <2>1 DEF Takes
  <2> QED
    BY <2>2
<1> DEFINE k == ArmLeg(arm, s)
<1>2. k \in DOMAIN arm /\ Takes(arm, s, k)
  BY DEF ArmLeg, Takes
<1> HIDE DEF k
<1>3. ~(k < j) /\ ~(j < k) /\ k \in Nat /\ j \in Nat
  BY <1>1, <1>2
<1>4. k = j
  BY <1>3
<1> QED
  BY <1>4 DEF k

\* Where a leg stands in its chain.
Rank(arm, j) == Cardinality({i \in DOMAIN arm : i <= j})

\* The legs of an arm stand in their order, and fill its chain.
LEMMA RankFacts ==
  ASSUME NEW arm, DOMAIN arm \in SUBSET Nat, IsFiniteSet(DOMAIN arm)
  PROVE  /\ Cardinality(DOMAIN arm) \in Nat
         /\ \A j \in DOMAIN arm : Rank(arm, j) \in 1 .. Cardinality(DOMAIN arm)
         /\ \A i, j \in DOMAIN arm : i < j => Rank(arm, i) < Rank(arm, j)
         /\ \A k \in 1 .. Cardinality(DOMAIN arm) : \E j \in DOMAIN arm : Rank(arm, j) = k
<1> DEFINE D == DOMAIN arm
           n == Cardinality(D)
           Upto(j) == {i \in D : i <= j}
           f == [j \in D |-> Rank(arm, j)]
<1>1. n \in Nat
  BY FS_CardinalityType
<1>2. \A j \in D : Upto(j) \in SUBSET D /\ j \in Upto(j) /\ Rank(arm, j) = Cardinality(Upto(j))
  BY DEF Rank
<1> HIDE DEF D, n, Upto
<1>3. ASSUME NEW j \in D
      PROVE  Rank(arm, j) \in 1 .. n
  <2>1. Upto(j) \in SUBSET D /\ Upto(j) # {} /\ IsFiniteSet(D)
    BY <1>2 DEF D
  <2>2. IsFiniteSet(Upto(j)) /\ Cardinality(Upto(j)) <= Cardinality(D)
    BY <2>1, FS_Subset
  <2>3. Cardinality(Upto(j)) \in Nat /\ Cardinality(Upto(j)) # 0
    BY <2>1, <2>2, FS_CardinalityType, FS_EmptySet
  <2> QED
    BY <1>1, <1>2, <2>2, <2>3 DEF n
<1>4. ASSUME NEW i \in D, NEW j \in D, i < j
      PROVE  Rank(arm, i) < Rank(arm, j)
  <2>1. i \in Nat /\ j \in Nat /\ D \subseteq Nat
    BY DEF D
  <2>2. Upto(i) \in SUBSET Upto(j) /\ j \in Upto(j) /\ j \notin Upto(i)
    <3>1. \A h \in D : h <= i => h <= j
      BY <1>4, <2>1
    <3>2. ~(j <= i)
      BY <1>4, <2>1
    <3> QED
      BY <1>2, <3>1, <3>2 DEF Upto
  <2>3. IsFiniteSet(Upto(j))
    BY <1>2, FS_Subset DEF D
  <2>4. Cardinality(Upto(i)) < Cardinality(Upto(j))
    BY <2>2, <2>3, Smaller
  <2> QED
    BY <1>2, <2>4
<1>5. f \in Injection(D, 1 .. n)
  <2>1. ASSUME NEW i \in D, NEW j \in D, f[i] = f[j]
        PROVE  i = j
    <3>1. Rank(arm, i) = Rank(arm, j) /\ Rank(arm, i) \in Nat
      BY <1>3, <2>1
    <3>2. i \in Nat /\ j \in Nat
      BY DEF D
    <3>3. ~(i < j) /\ ~(j < i)
      BY <1>4, <3>1
    <3> QED
      BY <3>2, <3>3
  <2>2. f \in [D -> 1 .. n] /\ DOMAIN f = D
    BY <1>3
  <2> HIDE DEF f
  <2> QED
    BY <2>1, <2>2 DEF Injection, IsInjective
<1>6. IsFiniteSet(1 .. n) /\ Cardinality(1 .. n) = n
  BY <1>1, FS_Interval
<1>7. f \in Surjection(D, 1 .. n)
  <2> HIDE DEF f
  <2>1. Cardinality(D) = Cardinality(1 .. n)
    BY <1>6 DEF n
  <2> QED
    BY <1>5, <1>6, <2>1, FS_Injection
<1>8. \A k \in 1 .. n : \E j \in D : Rank(arm, j) = k
  BY <1>7 DEF Surjection
<1> QED
  BY <1>1, <1>3, <1>4, <1>8 DEF D, n

\* The chain of an arm reads its legs in their order.
LEMMA ChainIs ==
  ASSUME NEW arm, DOMAIN arm \in SUBSET Nat, IsFiniteSet(DOMAIN arm)
  PROVE  /\ DOMAIN Chain(arm) = 1 .. Cardinality(DOMAIN arm)
         /\ \A j \in DOMAIN arm : Chain(arm)[Rank(arm, j)] = arm[j]
<1>1. Chain(arm) = [k \in 1 .. Cardinality(DOMAIN arm) |->
                      arm[CHOOSE j \in DOMAIN arm : Rank(arm, j) = k]]
  BY DEF Chain, Rank
<1>2. ASSUME NEW j \in DOMAIN arm
      PROVE  (CHOOSE i \in DOMAIN arm : Rank(arm, i) = Rank(arm, j)) = j
  <2> DEFINE c == CHOOSE i \in DOMAIN arm : Rank(arm, i) = Rank(arm, j)
  <2>1. c \in DOMAIN arm /\ Rank(arm, c) = Rank(arm, j)
    OBVIOUS
  <2> HIDE DEF c
  <2>2. Rank(arm, c) \in Nat /\ Rank(arm, j) \in Nat /\ c \in Nat /\ j \in Nat
    BY <2>1, RankFacts
  <2>3. ~(c < j) /\ ~(j < c)
    BY <2>1, <2>2, RankFacts
  <2>4. c = j
    BY <2>2, <2>3
  <2> QED
    BY <2>4 DEF c
<1>3. \A j \in DOMAIN arm : Rank(arm, j) \in 1 .. Cardinality(DOMAIN arm)
  BY RankFacts
<1> QED
  BY <1>1, <1>2, <1>3

\* Arms that read the same take the same leg: what states the state register
\* cannot tell apart leave to an output is the same.
LEMMA SameChain ==
  ASSUME NEW a, NEW b, NEW s, NEW n \in Nat,
         DOMAIN a \in SUBSET Nat, IsFiniteSet(DOMAIN a), DOMAIN a # {}, \A j \in DOMAIN a : j <= n,
         DOMAIN b \in SUBSET Nat, IsFiniteSet(DOMAIN b), Chain(a) = Chain(b)
  PROVE  a[ArmLeg(a, s)] = b[ArmLeg(b, s)]
<1> DEFINE p == ArmLeg(a, s)
<1>1. p \in DOMAIN a /\ Takes(a, s, p)
  BY ArmLegIsALeg
<1> HIDE DEF p
<1>2. /\ Cardinality(DOMAIN a) \in Nat /\ Cardinality(DOMAIN b) \in Nat
      /\ \A j \in DOMAIN a : Rank(a, j) \in 1 .. Cardinality(DOMAIN a)
      /\ \A j \in DOMAIN b : Rank(b, j) \in 1 .. Cardinality(DOMAIN b)
  BY RankFacts
<1>3. /\ DOMAIN Chain(a) = 1 .. Cardinality(DOMAIN a)
      /\ DOMAIN Chain(b) = 1 .. Cardinality(DOMAIN b)
      /\ \A j \in DOMAIN a : Chain(a)[Rank(a, j)] = a[j]
      /\ \A j \in DOMAIN b : Chain(b)[Rank(b, j)] = b[j]
  BY ChainIs
<1>4. Cardinality(DOMAIN a) = Cardinality(DOMAIN b)
  <2>1. 1 .. Cardinality(DOMAIN a) = 1 .. Cardinality(DOMAIN b)
    BY <1>3
  <2> QED
    BY <1>2, <2>1, FS_Interval
<1>5. PICK q \in DOMAIN b : Rank(b, q) = Rank(a, p)
  BY <1>1, <1>2, <1>4, RankFacts
<1>6. b[q] = a[p]
  BY <1>1, <1>3, <1>5
<1>7. (\A i \in DOMAIN b : i <= q) \/ Satisfies(s, b[q].guard)
  <2>1. CASE Satisfies(s, a[p].guard)
    BY <1>6, <2>1
  <2>2. CASE \A i \in DOMAIN a : i <= p
    <3>1. Rank(a, p) = Cardinality(DOMAIN a)
      <4>1. {i \in DOMAIN a : i <= p} = DOMAIN a
        BY <2>2
      <4> QED
        BY <4>1 DEF Rank
    <3>2. ASSUME NEW i \in DOMAIN b PROVE i <= q
      <4>1. Rank(b, i) <= Rank(b, q) /\ Rank(b, i) \in Nat /\ Rank(b, q) \in Nat
        BY <1>2, <1>4, <1>5, <3>1
      <4>2. ~(q < i)
        BY <4>1, RankFacts
      <4> QED
        BY <4>2
    <3> QED
      BY <3>2
  <2> QED
    BY <1>1, <2>1, <2>2 DEF Takes
<1>8. ASSUME NEW i \in DOMAIN b, i < q
      PROVE  ~Satisfies(s, b[i].guard)
  <2>1. Rank(b, i) < Rank(b, q)
    BY <1>8, RankFacts
  <2>2. PICK h \in DOMAIN a : Rank(a, h) = Rank(b, i)
    BY <1>2, <1>4, RankFacts
  <2>3. Rank(a, h) < Rank(a, p) /\ Rank(a, h) \in Nat /\ Rank(a, p) \in Nat
    BY <1>1, <1>2, <1>5, <2>1, <2>2
  <2>4. h # p /\ ~(p < h)
    <3>1. h # p
      BY <2>3
    <3>2. p < h => Rank(a, p) < Rank(a, h)
      BY <1>1, RankFacts
    <3> QED
      BY <2>3, <3>1, <3>2
  <2>5. h < p
    <3>1. h \in Nat /\ p \in Nat
      BY <1>1
    <3> QED
      BY <2>4, <3>1
  <2>6. a[h] = b[i]
    BY <1>3, <2>2
  <2> QED
    BY <1>1, <2>5, <2>6 DEF Takes
<1>9. ArmLeg(b, s) = q
  BY <1>7, <1>8, TakesOne DEF Takes
<1> QED
  BY <1>6, <1>9 DEF p

-----------------------------------------------------------------------------
(* What an edge leaves in the outputs                                      *)

\* The arms of a state are over the paths that lead to it.
LEMMA ArmFacts ==
  ASSUME TypeOK, NEW q, NEW src \in Sources(q), NEW d
  PROVE  /\ src \in Source /\ Len(out[src]) \in Nat
         /\ DOMAIN Arm(src, q, d) = Deciding(src, q, d)
         /\ DOMAIN Arm(src, q, d) \in SUBSET Nat /\ DOMAIN Arm(src, q, d) # {}
         /\ IsFiniteSet(DOMAIN Arm(src, q, d))
         /\ \A j \in DOMAIN Arm(src, q, d) : j <= Len(out[src]) /\ out[src][j] \in Transition
<1>1. src \in Source
  BY DEF Sources, TypeOK
<1>2. /\ Len(out[src]) \in Nat /\ Into(src, q) \in SUBSET Nat
      /\ \A j \in Into(src, q) : j <= Len(out[src]) /\ out[src][j] \in Transition
  BY <1>1, IntoFacts
<1>3. DOMAIN Arm(src, q, d) = Deciding(src, q, d)
  BY DEF Arm
<1>4. Deciding(src, q, d) \subseteq Into(src, q) /\ Deciding(src, q, d) # {}
  BY DecidingFacts
<1>5. IsFiniteSet(Deciding(src, q, d))
  <2>1. out[src] \in Seq(Transition)
    BY <1>1 DEF TypeOK
  <2>2. Into(src, q) \subseteq 1 .. Len(out[src])
    BY <2>1, LenProperties DEF Into
  <2>3. Deciding(src, q, d) \in SUBSET (1 .. Len(out[src]))
    BY <1>4, <2>2
  <2>4. IsFiniteSet(1 .. Len(out[src]))
    BY <1>2, FS_Interval
  <2> QED
    BY <2>3, <2>4, FS_Subset
<1> QED
  BY <1>1, <1>2, <1>3, <1>4, <1>5

\* A path that a store takes is told, on the text of the guards, from those
\* before it into the same state: it is a leg of the arm of its own, and the
\* leg of no earlier one holds once it has committed.
LEMMA EarlierFail ==
  ASSUME TypeOK, Order, NEW src \in Source, NEW j \in DOMAIN out[src],
         NEW s \in Store, Satisfies(s, out[src][j].guard),
         \A i \in 1 .. j - 1 : ~Satisfies(s, out[src][i].guard),
         NEW q, q = out[src][j].next, NEW r,
         Satisfies(r, Residue(src, q, j))
  PROVE  /\ Survives(src, q, j)
         /\ \A i \in Into(src, q) : i < j => ~Satisfies(r, Residue(src, q, i))
<1>1. /\ out[src] \in Seq(Transition) /\ DOMAIN out[src] = 1 .. Len(out[src])
      /\ Len(out[src]) \in Nat
  BY LenProperties DEF TypeOK
<1>2. j \in Into(src, q) /\ Into(src, q) \subseteq DOMAIN out[src]
  BY DEF Into
<1>3. \A i \in DOMAIN out[src] : out[src][i].guard \in SUBSET Literal
  <2>1. \A i \in DOMAIN out[src] : out[src][i] \in Transition
    BY <1>1, ElementOfSeq
  <2> QED
    BY <2>1 DEF Transition
<1>4. \A i \in 1 .. j - 1 : Contradicts(out[src][i].guard, out[src][j].guard)
  <2> DEFINE before == {out[src][i].guard : i \in 1 .. j - 1}
  <2>1. Ranked(out[src][j].guard, before)
    BY DEF Order, Sorted
  <2>2. ~\E v \in before : Satisfies(s, v)
    OBVIOUS
  <2>3. \A v \in before : Contradicts(v, out[src][j].guard)
    <3> HIDE DEF before
    <3> QED
      BY <2>1, <2>2 DEF Ranked
  <2> QED
    BY <2>3
<1>5. ASSUME NEW i \in Into(src, q), i < j
      PROVE  \E g \in Residue(src, q, i) \ Residue(src, q, j) : \E l \in Residue(src, q, j) :
               Complements(g, l) /\ g \in Literal /\ l \in Literal
  <2>1. i \in 1 .. j - 1 /\ i \in DOMAIN out[src]
    BY <1>1, <1>2, <1>5
  <2>2. PICK g \in out[src][i].guard, l \in out[src][j].guard : Complements(g, l)
    BY <1>4, <2>1 DEF Contradicts
  <2>3. Harmonious(out[src][i].guard) /\ Harmonious(out[src][j].guard)
    BY <2>1 DEF Order, Unclashed
  <2>4. g \notin out[src][j].guard /\ l \notin out[src][i].guard
    BY <2>2, <2>3, ComplementsBoth DEF Harmonious
  <2>5. g \in Residue(src, q, i) /\ l \in Residue(src, q, j) /\ g \notin Residue(src, q, j)
    BY <1>2, <1>5, <2>2, <2>4 DEF Residue
  <2>6. g \in Literal /\ l \in Literal
    BY <1>3, <2>1
  <2> QED
    BY <2>2, <2>5, <2>6
<1>6. Survives(src, q, j)
  <2> SUFFICES ASSUME NEW i \in Into(src, q), i < j,
                      Residue(src, q, i) = {} \/ Residue(src, q, i) = Residue(src, q, j)
               PROVE  FALSE
    BY DEF Survives
  <2> QED
    BY <1>5
<1>7. ASSUME NEW i \in Into(src, q), i < j
      PROVE  ~Satisfies(r, Residue(src, q, i))
  <2>1. PICK g \in Residue(src, q, i), l \in Residue(src, q, j) :
          Complements(g, l) /\ g \in Literal /\ l \in Literal
    BY <1>5, <1>7
  <2>2. Holds(l, r)
    BY DEF Satisfies
  <2>3. ~Holds(g, r)
    BY <2>1, <2>2, ComplementsExclude
  <2> QED
    BY <2>3 DEF Satisfies
<1> QED
  BY <1>6, <1>7

\* After the edge, the comb computes from the registers the path has left what
\* the path computed at the edge.
LEMMA ArmDecodes ==
  ASSUME TypeOK, NEW src \in Source, NEW j \in DOMAIN out[src], NEW q, q = out[src][j].next,
         NEW d \in Decoded, ~Unstable(src, q, d), Agree(src, q, d) \/ Order,
         NEW s \in Store, Satisfies(s, out[src][j].guard),
         \A i \in 1 .. j - 1 : ~Satisfies(s, out[src][i].guard),
         NEW r \in Store, Difference(s, r) \subseteq Writes(out[src][j].action)
  PROVE  LET arm == Arm(src, q, d)
         IN  arm[ArmLeg(arm, r)].value[r] = out[src][j].decode[d][s]
<1> DEFINE arm == Arm(src, q, d)
<1>1. src \in Sources(q) /\ j \in Into(src, q)
  BY DEF Sources, Into, TypeOK
<1>2. /\ DOMAIN arm = Deciding(src, q, d) /\ DOMAIN arm \in SUBSET Nat /\ DOMAIN arm # {}
      /\ \A i \in DOMAIN arm : i <= Len(out[src])
      /\ Len(out[src]) \in Nat
  BY <1>1, ArmFacts
<1>3. \A i \in DOMAIN arm : /\ arm[i].value = out[src][i].decode[d]
                            /\ arm[i].guard = IF Agree(src, q, d) THEN {} ELSE Residue(src, q, i)
  BY DEF Arm
<1> HIDE DEF arm
<1>4. ASSUME NEW x, ~Volatile(x, out[src][j].action)
      PROVE  x[s] = x[r]
  <2>1. \A v \in Writes(out[src][j].action) : ~DependsOn(x, v)
    BY <1>4 DEF Volatile
  <2> QED
    BY <2>1, ReadsNone
<1>5. CASE Agree(src, q, d)
  <2>1. ArmLeg(arm, r) \in DOMAIN arm
    BY <1>2, ArmLegIsALeg
  <2>2. ArmLeg(arm, r) \in Into(src, q)
    BY <1>1, <1>2, <2>1, DecidingFacts
  <2>3. arm[ArmLeg(arm, r)].value = out[src][j].decode[d]
    BY <1>1, <1>3, <1>5, <2>1, <2>2 DEF Agree
  <2>4. ~Volatile(out[src][j].decode[d], out[src][j].action)
    BY <1>1, <1>5 DEF Unstable
  <2> QED
    BY <1>4, <2>3, <2>4 DEF arm
<1>6. CASE ~Agree(src, q, d)
  <2>1. Order
    BY <1>6
  <2>2. \A k \in Deciding(src, q, d) :
          /\ ~Volatile(out[src][k].decode[d], out[src][k].action)
          /\ \A l \in Residue(src, q, k) : ~Volatile(l.lhs, out[src][k].action)
    BY <1>6 DEF Unstable
  <2>3. Survives(src, q, j)
    <3>1. Satisfies(s, Residue(src, q, j))
      BY DEF Satisfies, Residue
    <3> QED
      BY <2>1, <3>1, EarlierFail
  <2>4. j \in Deciding(src, q, d)
    BY <1>1, <1>6, <2>3 DEF Deciding
  <2>5. Satisfies(r, Residue(src, q, j))
    <3>1. \A l \in Residue(src, q, j) : l.lhs[s] = l.lhs[r] /\ Holds(l, s)
      BY <1>4, <2>2, <2>4 DEF Residue, Satisfies
    <3> QED
      BY <3>1 DEF Satisfies, Holds
  <2>6. \A i \in Into(src, q) : i < j => ~Satisfies(r, Residue(src, q, i))
    BY <2>1, <2>5, EarlierFail
  <2>7. Takes(arm, r, j)
    <3>1. Satisfies(r, arm[j].guard)
      BY <1>2, <1>3, <1>6, <2>4, <2>5
    <3>2. \A i \in DOMAIN arm : i < j => ~Satisfies(r, arm[i].guard)
      BY <1>1, <1>2, <1>3, <1>6, <2>6, DecidingFacts
    <3> QED
      BY <3>1, <3>2 DEF Takes
  <2>8. ArmLeg(arm, r) = j
    BY <1>2, <2>4, <2>7, TakesOne
  <2>9. out[src][j].decode[d][s] = out[src][j].decode[d][r]
    BY <1>4, <2>2, <2>4
  <2> QED
    BY <1>2, <1>3, <2>4, <2>8, <2>9 DEF arm
<1> QED
  BY <1>5, <1>6

\* An output shows what the arm of any state that leads to q makes of the
\* registers: the state register need not tell which it came from.
LEMMA ShownIs ==
  ASSUME TypeOK, Decodable, arms = Arms, codes = Codes,
         NEW q \in States, NEW src \in Sources(q), NEW d \in Decoded, NEW r \in Store
  PROVE  LET arm == Arm(src, q, d)
         IN  Shown(q, d, r, FALSE) = Truncate(d, arm[ArmLeg(arm, r)].value[r])
<1> DEFINE u == CHOOSE w \in Sources(q) : TRUE
           a == Arm(u, q, d)
           b == Arm(src, q, d)
<1>1. u \in Sources(q)
  OBVIOUS
<1> HIDE DEF u
<1>2. Coherent(q, d)
  BY DEF Decodable
<1>3. a[ArmLeg(a, r)] = b[ArmLeg(b, r)]
  <2>1. Chain(a) = Chain(b)
    BY <1>1, <1>2 DEF Coherent
  <2>2. /\ DOMAIN a \in SUBSET Nat /\ DOMAIN a # {} /\ IsFiniteSet(DOMAIN a)
        /\ Len(out[u]) \in Nat /\ \A j \in DOMAIN a : j <= Len(out[u])
    BY <1>1, ArmFacts
  <2>3. DOMAIN b \in SUBSET Nat /\ IsFiniteSet(DOMAIN b)
    BY ArmFacts
  <2> HIDE DEF a, b
  <2> QED
    BY <2>1, <2>2, <2>3, SameChain
<1>4. Shown(q, d, r, FALSE) = Truncate(d, a[ArmLeg(a, r)].value[r])
  <2>1. CASE encoding # "output"
    <3>1. q \in DOMAIN arms /\ arms[q][d] = a
      BY DEF Arms, u
    <3> HIDE DEF a
    <3> QED
      BY <2>1, <3>1 DEF Shown
  <2>2. CASE encoding = "output"
    <3> DEFINE j == CHOOSE i \in Deciding(u, q, d) : TRUE
               t == CHOOSE w \in Store : TRUE
    <3>1. Shown(q, d, r, FALSE) = Truncate(d, out[u][j].decode[d][t])
      <4>1. codes[q].shown = Vector(q)
        BY <2>2 DEF Codes, OutputCodes
      <4>2. Vector(q)[d] = Truncate(d, out[u][j].decode[d][t])
        BY <1>1 DEF Vector, u
      <4> QED
        BY <2>2, <4>1, <4>2 DEF Shown
    <3>2. Literally(u, q, d)
      BY <1>1, <2>2 DEF Decodable, Encodable
    <3>3. DOMAIN a = Deciding(u, q, d) /\ IsFiniteSet(DOMAIN a) /\ DOMAIN a # {}
          /\ DOMAIN a \in SUBSET Nat /\ Len(out[u]) \in Nat /\ \A i \in DOMAIN a : i <= Len(out[u])
      BY <1>1, ArmFacts
    <3>4. j \in Deciding(u, q, d)
      BY <3>3
    <3>5. t \in Store
      OBVIOUS
    <3>6. \A i \in DOMAIN a : a[i].value = out[u][i].decode[d]
      BY DEF Arm
    <3> HIDE DEF a, j, t
    <3>7. ArmLeg(a, r) \in DOMAIN a
      BY <3>3, ArmLegIsALeg
    <3>8. ArmLeg(a, r) = j
      <4>1. \E i : Deciding(u, q, d) = {i}
        <5>1. Cardinality(Deciding(u, q, d)) = 1
          BY <3>2 DEF Literally
        <5>2. IsFiniteSet(Deciding(u, q, d))
          BY <3>3
        <5> QED
          BY <5>1, <5>2, FS_Singleton
      <4> QED
        BY <3>3, <3>4, <3>7, <4>1
    <3>9. out[u][j].decode[d][t] = out[u][j].decode[d][r]
      <4>1. PICK k \in Wide : out[u][j].decode[d] = [s \in Store |-> k]
        BY <3>2, <3>4 DEF Literally
      <4> QED
        BY <3>5, <4>1
    <3> QED
      BY <3>1, <3>3, <3>4, <3>6, <3>8, <3>9
  <2> QED
    BY <2>1, <2>2
<1> QED
  BY <1>3, <1>4

\* Commits change what they write alone.
LEMMA ApplyDifference ==
  ASSUME NEW action, NEW s
  PROVE  Difference(s, Apply(action, s)) \subseteq Writes(action)
BY DEF Difference, Apply, Writes

-----------------------------------------------------------------------------
(* The invariant of the emitted machine *)

\* The comb and the codes are those the checks passed, and an output shows
\* what its comb makes of the registers the last edge left.
EmittedInv ==
  phase = "emitted" =>
    /\ arms = Arms /\ codes = Codes /\ Decodable
    /\ state # Off =>
         /\ Sources(state) # {}
         /\ \A d \in Decoded : Shown(state, d, store, FALSE) = store[d]

\* Nothing of the comb changes with the cover left alone.
LEMMA SameComb ==
  ASSUME UNCHANGED walkVars
  PROVE  /\ States' = States /\ Decoded' = Decoded /\ encoding' = encoding
         /\ preamble' = preamble /\ Arms' = Arms /\ Codes' = Codes /\ (Decodable' <=> Decodable)
         /\ \A q : Sources(q)' = Sources(q)
<1>1. out' = out /\ proc' = proc /\ holdNeeded' = holdNeeded
  BY DEF walkVars
<1>2. States' = States /\ Decoded' = Decoded /\ encoding' = encoding /\ preamble' = preamble
      /\ WaitStates' = WaitStates
  BY <1>1 DEF States, WaitStates, Decoded, encoding, preamble
<1>3. /\ \A q : Sources(q)' = Sources(q)
      /\ \A src, q : Into(src, q)' = Into(src, q)
  BY <1>1 DEF Sources, Into
<1>4. /\ \A src, q, d : Agree(src, q, d)' <=> Agree(src, q, d)
      /\ \A src, q, j : Residue(src, q, j)' = Residue(src, q, j)
  BY <1>1, <1>3 DEF Agree, Residue
<1>5. \A src, q, j : Survives(src, q, j)' <=> Survives(src, q, j)
  BY <1>3, <1>4 DEF Survives
<1>6. \A src, q, d : Deciding(src, q, d)' = Deciding(src, q, d)
  BY <1>3, <1>4, <1>5 DEF Deciding
<1>7. \A src, q, d : Arm(src, q, d)' = Arm(src, q, d)
  BY <1>1, <1>4, <1>6 DEF Arm
<1>8. Arms' = Arms
  BY <1>2, <1>3, <1>7 DEF Arms
<1>9. \A x, action : Volatile(x, action)' <=> Volatile(x, action)
  BY <1>2 DEF Volatile
<1>10. \A src, q, d : Unstable(src, q, d)' <=> Unstable(src, q, d)
  BY <1>1, <1>3, <1>4, <1>6, <1>9 DEF Unstable
<1>11. \A q, d : Coherent(q, d)' <=> Coherent(q, d)
  BY <1>3, <1>7 DEF Coherent
<1>12. \A q : Index(q)' = Index(q)
  BY <1>2 DEF Index
<1>13. \A q : Vector(q)' = Vector(q)
  <2> SUFFICES ASSUME NEW q PROVE Vector(q)' = Vector(q)
    OBVIOUS
  <2> DEFINE reached == IF Sources(q) = {} THEN preamble.next ELSE q
             From(r) == CHOOSE u \in Sources(r) : TRUE
             First(u, r, d) == CHOOSE i \in Deciding(u, r, d) : TRUE
             s == CHOOSE r \in Store : TRUE
  <2>1. reached' = reached
    BY <1>2, <1>3
  <2>2. \A r : From(r)' = From(r)
    BY <1>3
  <2>3. \A u, r, d : First(u, r, d)' = First(u, r, d)
    BY <1>6
  <2>4. Vector(q)' = [d \in Decoded |->
                        Truncate(d, out[From(reached)][First(From(reached), reached, d)].decode[d][s])]'
    BY DEF Vector
  <2>5. Vector(q) = [d \in Decoded |->
                       Truncate(d, out[From(reached)][First(From(reached), reached, d)].decode[d][s])]
    BY DEF Vector
  <2> HIDE DEF reached, From, First, s
  <2>6. From(reached)' = From(reached)
    BY <2>1, <2>2
  <2>7. \A d : First(From(reached), reached, d)' = First(From(reached), reached, d)
    BY <2>1, <2>3, <2>6
  <2>8. s' = s
    BY DEF s
  <2> QED
    BY <1>1, <1>2, <2>4, <2>5, <2>6, <2>7, <2>8
<1>14. /\ \A vectors : Ordinals(vectors)' = Ordinals(vectors)
       /\ \A ordinals : OrdinalBits(ordinals)' = OrdinalBits(ordinals)
       /\ OutputBits' = OutputBits
  BY <1>2, <1>12 DEF Ordinals, OrdinalBits, Largest, OutputBits
<1>15. \A src, q, d : Literally(src, q, d)' <=> Literally(src, q, d)
  BY <1>1, <1>6 DEF Literally
<1>16. Codes' = Codes
  BY <1>2, <1>12, <1>13, <1>14 DEF Codes, OutputCodes
<1>17. Encodable' <=> Encodable
  BY <1>2, <1>3, <1>13, <1>14, <1>15 DEF Encodable
<1>18. Decodable' <=> Decodable
  BY <1>2, <1>3, <1>10, <1>11, <1>17 DEF Decodable
<1> QED
  BY <1>2, <1>3, <1>8, <1>16, <1>18

\* Once settled, a state shows what its outputs hold.
LEMMA SettledShows ==
  ASSUME TypeOK, ShownFits, Decodable, arms = Arms, NEW q \in States, Sources(q) # {},
         NEW a \in Store, NEW d \in Decoded
  PROVE  Shown(q, d, Settled(q, a, FALSE), FALSE) = Settled(q, a, FALSE)[d]
<1>1. Settled(q, a, FALSE) \in Store
  BY SettledType
<1>2. Decoded \subseteq Vars
  BY DEF TypeOK, Decoded
<1>3. Difference(Settled(q, a, FALSE), a) \subseteq Moving
  BY DEF Difference, Moving, Settled
<1>4. Shown(q, d, Settled(q, a, FALSE), FALSE) = Shown(q, d, a, FALSE)
  BY <1>1, <1>3, ShowsSame
<1>5. Settled(q, a, FALSE)[d] = Shown(q, d, a, FALSE)
  BY <1>2 DEF Settled
<1> QED
  BY <1>4, <1>5

\* An edge that settles in a state some path reaches keeps the invariant.
LEMMA EdgeEmitted ==
  ASSUME MachineTypeOK, MachineInv, EmittedInv, phase = "emitted",
         UNCHANGED <<walkVars, phase, arms, codes>>,
         NEW q \in States, Sources(q) # {}, NEW a \in Store,
         store' = Settled(q, a, FALSE), state' = q
  PROVE  EmittedInv'
<1>1. arms = Arms /\ codes = Codes /\ Decodable /\ TypeOK /\ ShownFits
  BY DEF EmittedInv, MachineTypeOK, MachineInv
<1>2. arms' = Arms' /\ codes' = Codes' /\ Decodable' /\ Sources(q)' # {} /\ Decoded' = Decoded
  BY <1>1, SameComb
<1>3. \A d : Shown(q, d, store, FALSE)' = Shown(q, d, Settled(q, a, FALSE), FALSE)
  BY <1>2, SameComb DEF Shown
<1>4. \A d \in Decoded : Shown(q, d, Settled(q, a, FALSE), FALSE) = store'[d]
  BY <1>1, SettledShows
<1>5. /\ Sources(state)' # {}
      /\ \A d \in Decoded' : Shown(state, d, store, FALSE)' = store'[d]
  <2>1. Sources(state)' = Sources(q)
    BY SameComb DEF Sources
  <2>2. \A d : Shown(state, d, store, FALSE)' = Shown(q, d, store, FALSE)'
    BY DEF Shown
  <2> QED
    BY <1>2, <1>3, <1>4, <2>1, <2>2
<1> QED
  BY <1>2, <1>5 DEF EmittedInv

\* A path of the cover ends in a state that is reached.
LEMMA NextReached ==
  ASSUME MachineTypeOK, MachineInv, NEW src \in Source, NEW j \in DOMAIN out[src]
  PROVE  /\ out[src][j] \in Transition
         /\ out[src][j].next \in States
         /\ src \in Sources(out[src][j].next)
         /\ j \in Into(src, out[src][j].next)
<1>1. out[src][j] \in Transition
  BY DEF MachineTypeOK, TypeOK
<1>2. LET q == out[src][j].next IN q \in walked \/ (q = Hold /\ holdNeeded)
  BY DEF MachineInv, Closed, MachineTypeOK, TypeOK
<1>3. out[src][j].next \in States
  BY <1>2, CompiledIsAState DEF MachineTypeOK
<1> QED
  BY <1>1, <1>3 DEF MachineTypeOK, TypeOK, Sources, Into

\* The preamble is the path of the entry.
LEMMA PreamblePath ==
  ASSUME MachineTypeOK, MachineInv, phase = "emitted"
  PROVE  Entry \in Source /\ 1 \in DOMAIN out[Entry]
<1>1. Len(out[Entry]) = 1 /\ out[Entry] \in Seq(Transition) /\ Entry \in Source
  BY DEF MachineInv, SinglePreamble, MachineTypeOK, TypeOK, Source
<1> QED
  BY <1>1

\* It is the only one.
LEMMA PreambleAlone ==
  ASSUME MachineTypeOK, MachineInv, phase = "emitted"
  PROVE  DOMAIN out[Entry] = {1}
<1>1. Len(out[Entry]) = 1 /\ out[Entry] \in Seq(Transition)
  BY DEF MachineInv, SinglePreamble, MachineTypeOK, TypeOK, Source
<1> QED
  BY <1>1, LenProperties

\* The outputs after an edge are what the path it took computed at the edge.
LEMMA EdgeDecodes ==
  ASSUME MachineTypeOK, MachineInv, EmittedInv, phase = "emitted",
         NEW src \in Source, NEW j \in DOMAIN out[src], NEW d \in Decoded,
         NEW s \in Store, Satisfies(s, out[src][j].guard),
         \A i \in 1 .. j - 1 : ~Satisfies(s, out[src][i].guard),
         Agree(src, out[src][j].next, d) \/ Order
  PROVE  LET t == out[src][j]
         IN  Settled(t.next, Apply(t.action, s), FALSE)[d] = Truncate(d, t.decode[d][s])
<1> DEFINE t == out[src][j]
           q == t.next
           r == Apply(t.action, s)
           arm == Arm(src, q, d)
<1>1. t \in Transition /\ q \in States /\ src \in Sources(q) /\ j \in Into(src, q)
  BY NextReached
<1>2. r \in Store /\ Difference(s, r) \subseteq Writes(t.action)
  BY <1>1, ApplyType, ApplyDifference DEF Transition
<1>3. ~Unstable(src, q, d)
  BY <1>1 DEF EmittedInv, Decodable
<1>4. Settled(q, r, FALSE)[d] = Shown(q, d, r, FALSE)
  BY DEF Settled, MachineTypeOK, TypeOK, Decoded
<1> HIDE DEF r
<1>5. arm[ArmLeg(arm, r)].value[r] = t.decode[d][s]
  BY <1>2, <1>3, ArmDecodes DEF MachineTypeOK
<1>6. Shown(q, d, r, FALSE) = Truncate(d, arm[ArmLeg(arm, r)].value[r])
  BY <1>1, <1>2, ShownIs DEF EmittedInv, MachineTypeOK
<1> QED
  BY <1>4, <1>5, <1>6 DEF r

\* A reset value reads neither what may move nor what the preamble writes.
LEMMA PreambleStable ==
  ASSUME MachineTypeOK, MachineInv, EmittedInv, phase = "emitted", NEW d \in Decoded,
         NEW s \in Store, NEW r \in Store, Difference(s, r) \subseteq Moving \cup Writes(preamble.action)
  PROVE  preamble.decode[d][s] = preamble.decode[d][r]
<1>1. Entry \in Source /\ 1 \in DOMAIN out[Entry]
  BY PreamblePath
<1>2. /\ preamble.next \in States /\ Entry \in Sources(preamble.next)
      /\ 1 \in Into(Entry, preamble.next)
  BY <1>1, NextReached DEF preamble
<1>3. Agree(Entry, preamble.next, d)
  BY <1>1, PreambleAlone DEF Agree, Into
<1>4. ~Unstable(Entry, preamble.next, d)
  BY <1>2 DEF EmittedInv, Decodable
<1>5. ~Volatile(preamble.decode[d], preamble.action)
  BY <1>2, <1>3, <1>4 DEF Unstable, preamble
<1>6. \A v \in Moving \cup Writes(preamble.action) : ~DependsOn(preamble.decode[d], v)
  BY <1>5 DEF Volatile, Moving
<1> QED
  BY <1>6, ReadsNone

\* The comb of the state an edge under reset leaves settles where it stood while
\* the reset was up: releasing the reset moves no output.
LEMMA ResetSettles ==
  ASSUME MachineTypeOK, MachineInv, EmittedInv, phase = "emitted", NEW s \in Store
  PROVE  LET r == Apply(preamble.action, s)
         IN  Settled(preamble.next, r, TRUE) = Settled(preamble.next, r, FALSE)
<1> DEFINE r == Apply(preamble.action, s)
           q == preamble.next
<1>1. Entry \in Source /\ 1 \in DOMAIN out[Entry] /\ DOMAIN out[Entry] = {1}
  BY PreamblePath, PreambleAlone
<1>2. preamble \in Transition /\ q \in States
  BY <1>1, NextReached DEF preamble
<1>3. r \in Store /\ Difference(s, r) \subseteq Writes(preamble.action)
  BY <1>2, ApplyType, ApplyDifference DEF Transition
<1>4. ASSUME NEW d \in Decoded
      PROVE  Shown(q, d, r, TRUE) = Shown(q, d, r, FALSE)
  <2>1. CASE encoding = "output"
    BY <2>1 DEF Shown
  <2>2. CASE encoding # "output"
    <3>1. Shown(q, d, r, TRUE) = Truncate(d, preamble.decode[d][r])
      BY <2>2 DEF Shown
    <3>2. preamble.decode[d][r] = preamble.decode[d][s]
      <4> HIDE DEF r
      <4> QED
        BY <1>3, PreambleStable
    <3>3. Settled(q, r, FALSE)[d] = Truncate(d, preamble.decode[d][s])
      <4>1. Satisfies(s, out[Entry][1].guard)
        BY DEF MachineInv, SinglePreamble, preamble, Satisfies
      <4>2. Agree(Entry, out[Entry][1].next, d)
        BY <1>1 DEF Agree, Into
      <4>3. \A i \in 1 .. 1 - 1 : ~Satisfies(s, out[Entry][i].guard)
        OBVIOUS
      <4> QED
        BY <1>1, <4>1, <4>2, <4>3, EdgeDecodes DEF preamble
    <3>4. Settled(q, r, FALSE)[d] = Shown(q, d, r, FALSE)
      BY DEF Settled, MachineTypeOK, TypeOK, Decoded
    <3> QED
      BY <3>1, <3>2, <3>3, <3>4
  <2> QED
    BY <2>1, <2>2
<1> HIDE DEF q, r
<1>5. Settled(q, r, TRUE) = Settled(q, r, FALSE)
  BY <1>4 DEF Settled
<1> QED
  BY <1>5 DEF q, r

\* Every step keeps the invariant.
LEMMA EmittedStep ==
  MachineTypeOK /\ MachineInv /\ EmittedInv /\ [MachineNext]_vars => EmittedInv'
<1> SUFFICES ASSUME MachineTypeOK, MachineInv, EmittedInv, [MachineNext]_vars
             PROVE  EmittedInv'
  OBVIOUS
<1>1. CASE UNCHANGED vars
  <2>1. UNCHANGED <<walkVars, phase, state, store, arms, codes>>
    BY <1>1 DEF vars, machineVars
  <2>2. /\ \A q : Sources(q)' = Sources(q)
        /\ \A d : Shown(state, d, store, FALSE)' = Shown(state, d, store, FALSE)
    BY <2>1, SameComb DEF Shown
  <2>3. Sources(state)' = Sources(state)
    BY <2>1, SameComb DEF Sources
  <2> QED
    BY <2>1, <2>2, <2>3, SameComb DEF EmittedInv
<1>2. CASE Compile \/ Refuse
  <2>1. phase' # "emitted"
    BY <1>2 DEF Compile, Refuse, machineVars
  <2> QED
    BY <2>1 DEF EmittedInv
<1>3. CASE Emit
  <2>1. /\ UNCHANGED walkVars /\ state' = state /\ state = Off
        /\ arms' = Arms /\ codes' = Codes /\ Decodable
    BY <1>3 DEF Emit, Accepted, MachineInv
  <2> QED
    BY <2>1, SameComb DEF EmittedInv
<1>4. ASSUME NEW x \in Stimulus, ResetEdge(x) PROVE EmittedInv'
  <2>1. /\ phase = "emitted" /\ UNCHANGED <<walkVars, phase, arms, codes>>
        /\ state' = preamble.next
    BY <1>4 DEF ResetEdge
  <2>5. PICK s \in UnderReset(x) :
          store' = Settled(preamble.next, Apply(preamble.action, s), TRUE)
    BY <1>4 DEF ResetEdge
  <2>6. s \in Store
    BY <2>1, UnderResetType DEF MachineInv
  <2>2. Entry \in Source /\ 1 \in DOMAIN out[Entry]
    BY <2>1, PreamblePath
  <2>3. preamble \in Transition /\ preamble.next \in States /\ Sources(preamble.next) # {}
    BY <2>2, NextReached DEF preamble
  <2>4. Apply(preamble.action, s) \in Store
    BY <2>3, <2>6, ApplyType DEF Transition
  <2>7. store' = Settled(preamble.next, Apply(preamble.action, s), FALSE)
    BY <2>1, <2>5, <2>6, ResetSettles
  <2> QED
    BY <2>1, <2>3, <2>4, <2>7, EdgeEmitted
<1>5. ASSUME NEW x \in Stimulus, ClockEdge(x) PROVE EmittedInv'
  <2>1. phase = "emitted" /\ state # Off /\ UNCHANGED <<walkVars, phase, arms, codes>>
    BY <1>5 DEF ClockEdge
  <2>2. CASE store' = Settled(state, Sampled(x), FALSE) /\ state' = state
    <3>1. state \in States /\ Sources(state) # {}
      BY <2>1, CompiledIsAState DEF MachineTypeOK, MachineInv, EmittedInv
    <3>2. Sampled(x) \in Store
      BY SampledType DEF MachineTypeOK
    <3> QED
      BY <2>1, <2>2, <3>1, <3>2, EdgeEmitted
  <2>3. CASE /\ state # Hold /\ out[state] # <<>>
             /\ LET t == out[state][Taken(state, Sampled(x))]
                IN  store' = Settled(t.next, Apply(t.action, Sampled(x)), FALSE) /\ state' = t.next
    <3> DEFINE j == Taken(state, Sampled(x))
               t == out[state][j]
    <3>1. state \in Source
      BY <2>1, <2>3 DEF MachineTypeOK, MachineInv, TypeOK, Source
    <3>2. j \in DOMAIN out[state]
      BY <3>1, <2>3, TakenIsALeg DEF MachineTypeOK
    <3>3. store' = Settled(t.next, Apply(t.action, Sampled(x)), FALSE) /\ state' = t.next
      BY <2>3
    <3> HIDE DEF j
    <3>4. t \in Transition /\ t.next \in States /\ Sources(t.next) # {}
      BY <3>1, <3>2, NextReached
    <3>5. Apply(t.action, Sampled(x)) \in Store
      BY <3>4, SampledType, ApplyType DEF MachineTypeOK, Transition
    <3> HIDE DEF t
    <3> QED
      BY <2>1, <3>3, <3>4, <3>5, EdgeEmitted
  <2> QED
    BY <1>5, <2>2, <2>3 DEF ClockEdge
<1> QED
  BY <1>1, <1>2, <1>3, <1>4, <1>5 DEF MachineNext

-----------------------------------------------------------------------------

\* The invariant of the outputs and the codes, beside that of the registers.
THEOREM DecodeInvariant == MachineSpec => [](MachineTypeOK /\ MachineInv /\ EmittedInv)
<1>1. MachineInit => MachineTypeOK /\ MachineInv /\ EmittedInv
  BY MachineInitInv DEF MachineInit, EmittedInv
<1>2. MachineTypeOK /\ MachineInv /\ EmittedInv /\ [MachineNext]_vars
        => MachineTypeOK' /\ MachineInv' /\ EmittedInv'
  BY MachineStepInv, EmittedStep
<1> QED
  BY <1>1, <1>2, PTL DEF MachineSpec

\* Whatever the process, the encoding and the number of states: no two states
\* of an emitted machine share a code, within the bits the state register has.
THEOREM StatesApart == MachineSpec => []CodesTellStates
<1>1. MachineTypeOK /\ EmittedInv => CodesTellStates
  BY CodesTell DEF MachineTypeOK, EmittedInv, CodesTellStates, Decodable
<1> QED
  BY <1>1, DecodeInvariant, PTL

\* Whatever the process, the inputs and the resets: between two edges with the
\* reset down an output of an emitted machine stays what the last edge left, the
\* one under a reset just released included; while a reset is up it shows the
\* value the reset will leave, or under output encoding still what the last edge
\* left.  The comb reads the reset as a level, and beside it only registers that
\* an edge moves.
THEOREM OutputsStay == MachineSpec => []OutputsHold
<1>1. MachineTypeOK /\ MachineInv /\ EmittedInv => OutputsHold
  <2> SUFFICES ASSUME MachineTypeOK, MachineInv, EmittedInv, phase = "emitted", state # Off,
                      NEW x \in Stimulus, NEW d \in Decoded
               PROVE  /\ Shown(state, d, Sampled(x), FALSE) = store[d]
                      /\ Shown(state, d, Sampled(x), TRUE) =
                           IF encoding = "output" THEN store[d]
                           ELSE Truncate(d, preamble.decode[d][store])
    BY DEF OutputsHold
  <2>1. state \in States /\ Sources(state) # {} /\ Shown(state, d, store, FALSE) = store[d]
    BY CompiledIsAState DEF MachineTypeOK, MachineInv, EmittedInv
  <2>2. Sampled(x) \in Store /\ store \in Store
    BY SampledType DEF MachineTypeOK
  <2>3. Difference(Sampled(x), store) \subseteq Moving
    BY DEF Difference, Moving, Sampled
  <2>4. Shown(state, d, Sampled(x), FALSE) = Shown(state, d, store, FALSE)
    BY <2>1, <2>2, <2>3, ShowsSame DEF MachineTypeOK, EmittedInv
  <2>5. preamble.decode[d][Sampled(x)] = preamble.decode[d][store]
    BY <2>2, <2>3, PreambleStable
  <2>6. CASE encoding = "output"
    BY <2>1, <2>4, <2>6 DEF Shown
  <2>7. CASE encoding # "output"
    BY <2>1, <2>4, <2>5, <2>7 DEF Shown
  <2> QED
    BY <2>6, <2>7
<1> QED
  BY <1>1, DecodeInvariant, PTL

-----------------------------------------------------------------------------
(* What the path taken computed *)

\* The order of the paths outlives the walk, which nothing resumes.
LEMMA MachineStepOrder ==
  MachineTypeOK /\ OrderInv /\ [MachineNext]_vars => OrderInv'
<1> SUFFICES ASSUME MachineTypeOK, OrderInv, [MachineNext]_vars
             PROVE  OrderInv'
  OBVIOUS
<1>1. [WalkNext]_walkVars
  BY DEF MachineNext, Compile, Emit, Refuse, ResetEdge, ClockEdge, vars
<1> QED
  BY <1>1, WalkStepOrder DEF MachineTypeOK

\* The leg an edge takes is the first that holds: the chain's bare else takes
\* no store that its guard does not.
LEMMA TakenHolds ==
  ASSUME MachineTypeOK, MachineInv, phase = "emitted", state # Off, state # Hold,
         out[state] # <<>>, NEW s \in Store
  PROVE  LET j == Taken(state, s)
         IN  /\ state \in Source /\ j \in DOMAIN out[state] /\ Satisfies(s, out[state][j].guard)
             /\ \A i \in 1 .. j - 1 : ~Satisfies(s, out[state][i].guard)
<1> DEFINE j == Taken(state, s)
<1>1. state \in walked /\ state \in Source /\ stack = <<>>
  BY DEF MachineInv, MachineTypeOK, TypeOK, Source
<1>2. /\ j \in DOMAIN out[state] /\ (j = Len(out[state]) \/ Satisfies(s, out[state][j].guard))
      /\ \A i \in 1 .. j - 1 : ~Satisfies(s, out[state][i].guard)
  BY <1>1, TakenIsALeg DEF MachineTypeOK
<1> HIDE DEF j
<1>3. PICK k \in DOMAIN out[state] : Satisfies(s, out[state][k].guard)
  <2>1. Covered(state, s)
    BY <1>1 DEF MachineInv, Coverage
  <2>2. ~Offers(stack, state, s)
    BY <1>1 DEF Offers
  <2> QED
    BY <2>1, <2>2 DEF Covered
<1>4. DOMAIN out[state] = 1 .. Len(out[state]) /\ Len(out[state]) \in Nat
  BY <1>1, LenProperties DEF MachineTypeOK, TypeOK
<1>5. Satisfies(s, out[state][j].guard)
  <2> SUFFICES ASSUME j = Len(out[state]), k # j PROVE FALSE
    BY <1>2, <1>3
  <2>1. k \in 1 .. j - 1
    BY <1>4
  <2> QED
    BY <1>2, <1>3, <2>1
<1> QED
  BY <1>1, <1>2, <1>5 DEF j

\* Whatever the process, the encoding, the inputs and the resets: what an edge
\* leaves in a decoded output is what the path it takes computed at the edge,
\* where the cases of the process compare one expression with constants.  It
\* is where the walk's order of the paths, the checks of build_decode and the
\* emitted comb meet: the comb reads registers the edge has already moved, and
\* neither it nor the state register knows which path arrived.
THEOREM OutputsComputed == MachineSpec => OutputsDecoded
<1> DEFINE Inv == MachineTypeOK /\ MachineInv /\ EmittedInv /\ OrderInv
<1>1. MachineInit => Inv
  BY MachineInitInv, InitOrder DEF MachineInit, EmittedInv, OrderInv
<1>2. Inv /\ [MachineNext]_vars => Inv'
  BY MachineStepInv, EmittedStep, MachineStepOrder
<1>3. ASSUME Inv, NEW x \in Stimulus, NEW d \in Decoded, ResetEdge(x)
      PROVE  store'[d] = Truncate(d, preamble.decode[d][Sampled(x)])
  <2>1. phase = "emitted"
    BY <1>3 DEF ResetEdge
  <2>2. PICK s \in UnderReset(x) :
          store' = Settled(preamble.next, Apply(preamble.action, s), TRUE)
    BY <1>3 DEF ResetEdge
  <2>3. s \in Store /\ Sampled(x) \in Store
    BY <1>3, <2>1, UnderResetType, SampledType DEF MachineInv, MachineTypeOK
  <2>4. /\ Entry \in Source /\ 1 \in DOMAIN out[Entry] /\ DOMAIN out[Entry] = {1}
        /\ out[Entry][1].guard = {}
    BY <1>3, <2>1, PreamblePath, PreambleAlone DEF MachineInv, SinglePreamble, preamble
  <2>5. Agree(Entry, out[Entry][1].next, d)
    BY <2>4 DEF Agree, Into
  <2>6. Satisfies(s, out[Entry][1].guard)
    BY <2>4 DEF Satisfies
  <2>7. \A i \in 1 .. 1 - 1 : ~Satisfies(s, out[Entry][i].guard)
    OBVIOUS
  <2>8. Settled(preamble.next, Apply(preamble.action, s), FALSE)[d]
          = Truncate(d, preamble.decode[d][s])
    BY <1>3, <2>1, <2>3, <2>4, <2>5, <2>6, <2>7, EdgeDecodes DEF preamble
  <2>9. preamble.decode[d][s] = preamble.decode[d][Sampled(x)]
    <3>1. Difference(s, Sampled(x)) \subseteq Moving
      BY DEF UnderReset, Settled, Difference, Moving
    <3> QED
      BY <1>3, <2>1, <2>3, <3>1, PreambleStable
  <2> QED
    BY <1>3, <2>1, <2>2, <2>3, <2>8, <2>9, ResetSettles
<1>4. ASSUME Inv, NEW x \in Stimulus, NEW d \in Decoded, ClockEdge(x), Enabled(Sampled(x)),
             state # Hold, out[state] # <<>>, ConstantLabels
      PROVE  store'[d] = Truncate(d, out[state][Taken(state, Sampled(x))].decode[d][Sampled(x)])
  <2> DEFINE j == Taken(state, Sampled(x))
  <2>1. /\ phase = "emitted" /\ state # Off
        /\ store' = Settled(out[state][j].next, Apply(out[state][j].action, Sampled(x)), FALSE)
    BY <1>4 DEF ClockEdge
  <2>2. Sampled(x) \in Store
    BY <1>4, SampledType DEF MachineTypeOK
  <2>3. /\ state \in Source /\ j \in DOMAIN out[state]
        /\ Satisfies(Sampled(x), out[state][j].guard)
        /\ \A i \in 1 .. j - 1 : ~Satisfies(Sampled(x), out[state][i].guard)
    BY <1>4, <2>1, <2>2, TakenHolds
  <2>4. Order
    BY <1>4 DEF OrderInv
  <2> HIDE DEF j
  <2>5. Settled(out[state][j].next, Apply(out[state][j].action, Sampled(x)), FALSE)[d]
          = Truncate(d, out[state][j].decode[d][Sampled(x)])
    BY <1>4, <2>1, <2>2, <2>3, <2>4, EdgeDecodes
  <2> QED
    BY <2>1, <2>5 DEF j
<1>5. Inv => \A x \in Stimulus : \A d \in Decoded :
               LET s       == Sampled(x)
                   Left(t) == store'[d] = Truncate(d, t.decode[d][s])
               IN  /\ ResetEdge(x) => Left(preamble)
                   /\ ClockEdge(x) /\ Enabled(s) /\ state # Hold /\ out[state] # <<>>
                        /\ ConstantLabels => Left(out[state][Taken(state, s)])
  BY <1>3, <1>4
<1> QED
  BY <1>1, <1>2, <1>5, PTL DEF MachineSpec, OutputsDecoded
=============================================================================
