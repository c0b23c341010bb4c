-------------------------- MODULE Decisions_proofs --------------------------
(***************************************************************************)
(* Proofs about Decisions: for any universe, evidence, answers and limits  *)
(* the assumptions admit, every decision is typed, holds nothing that was  *)
(* not vetted, keeps every limit of risk.yaml at once, and is not cash by  *)
(* accident.                                                               *)
(*                                                                         *)
(* The parts: arithmetic of rounded shares; books without shorts and what  *)
(* scaling does to their sums; each risk limit, and that no later one      *)
(* undoes it; each builder; the range of every score; the signals; and the *)
(* invariant DInv, which says of each stage what was made so far.          *)
(***************************************************************************)
EXTENDS Decisions, Sums, TLAPS

-----------------------------------------------------------------------------
(* Arithmetic of sums and roundings *)

\* The total of a function is its sum over its domain.
LEMMA TotalSum == \A f : Total(f) = SumOver(f, DOMAIN f)
  BY DEF Total, FoldFunction, FoldFunctionOnSet, MapThenFoldSet, SumOver, IsSum, Pick

\* A common factor may be taken away.
LEMMA Cancel ==
    ASSUME NEW d \in Nat \ {0}, NEW x \in Nat, NEW y \in Nat, d * x <= d * y
    PROVE  x <= y
<1> SUFFICES ASSUME y < x PROVE FALSE
  OBVIOUS
<1>1. PICK z \in Nat : x = y + 1 + z
  <2>1. x - y - 1 \in Nat /\ x = y + 1 + (x - y - 1)
    OBVIOUS
  <2> QED BY <2>1
<1>2. d * x = d * y + d + d * z
  BY <1>1
<1>3. d * z \in Nat /\ d * y \in Nat
  OBVIOUS
<1>4. QED
  BY <1>2, <1>3

\* Products grow with their factors.
LEMMA Product == \A x, y, z \in Nat : x <= y => z * x <= z * y /\ x * z <= y * z
<1> SUFFICES ASSUME NEW x \in Nat, NEW y \in Nat, NEW z \in Nat, x <= y
             PROVE  z * x <= z * y /\ x * z <= y * z
  OBVIOUS
<1>1. y - x \in Nat /\ y = x + (y - x)
  OBVIOUS
<1> DEFINE n == y - x
<1>2. z * y = z * x + z * n /\ z * n \in Nat /\ z * x \in Nat /\ x * z = z * x /\ y * z = z * y
  BY <1>1
<1> HIDE DEF n
<1>3. QED
  BY <1>2

\* Division rounds down.
LEMMA Quotient ==
    ASSUME NEW x \in Nat, NEW d \in Nat \ {0}
    PROVE  x \div d \in Nat /\ d * (x \div d) <= x
  OBVIOUS

\* A weight scaled down is a weight, rounded down.
LEMMA ScaledIs ==
    ASSUME NEW w \in Nat, NEW num \in Nat, NEW den \in Nat \ {0}, num <= den
    PROVE  /\ Scaled(w, num, den) \in Nat /\ Scaled(w, num, den) <= w
           /\ den * Scaled(w, num, den) <= num * w
<1> DEFINE v == (w * num) \div den
<1>1. Scaled(w, num, den) = v
  BY DEF Scaled
<1>2. w * num \in Nat /\ w * num = num * w
  OBVIOUS
<1>3. v \in Nat /\ den * v <= num * w
  BY <1>2, Quotient
<1> HIDE DEF v
<1>4. num * w <= den * w /\ num * w \in Nat /\ den * w \in Nat /\ den * v \in Nat
  BY <1>3, Product
<1>5. v <= w
  BY <1>3, <1>4, Cancel
<1>6. QED
  BY <1>1, <1>3, <1>5

-----------------------------------------------------------------------------
(* Books *)

Line == [w : Nat, sector : ToSet(Sectors)]

\* A book without shorts.
IsBook(p) == \E D \in SUBSET AllTickers : p \in [D -> Line]

\* The weights of a book.
Weights(p) == [t \in DOMAIN p |-> p[t].w]
InSector(p, s) == {t \in DOMAIN p : p[t].sector = s}

\* The same positions, none larger.
Shrunk(q, p) ==
    /\ DOMAIN q = DOMAIN p
    /\ \A t \in DOMAIN p : q[t].w <= p[t].w /\ q[t].sector = p[t].sector

\* What a book's type says of its lines.
LEMMA BookTyped ==
    ASSUME NEW p, IsBook(p)
    PROVE  /\ DOMAIN p \in SUBSET AllTickers /\ IsFiniteSet(DOMAIN p)
           /\ p \in [DOMAIN p -> Line]
           /\ \A t \in DOMAIN p : p[t] \in Line /\ p[t].w \in Nat /\ Weights(p)[t] = p[t].w
           /\ DOMAIN Weights(p) = DOMAIN p
<1>1. PICK D \in SUBSET AllTickers : p \in [D -> Line]
  BY DEF IsBook
<1>2. IsFiniteSet(D)
  BY UniverseAssumption, FS_Subset
<1>3. QED
  BY <1>1, <1>2 DEF Line, Weights

\* The gross, net and sector sums of a book without shorts.
LEMMA BookSums ==
    ASSUME NEW p, IsBook(p)
    PROVE  /\ GrossOf(p) = SumOver(Weights(p), DOMAIN p) /\ NetOf(p) = GrossOf(p)
           /\ GrossOf(p) \in Nat
           /\ \A s : /\ SectorGross(p, s) = SumOver(Weights(p), InSector(p, s))
                     /\ SectorGross(p, s) \in Nat
<1>1. \A t \in DOMAIN p : p[t].w \in Nat /\ Abs(p[t].w) = p[t].w
  BY BookTyped DEF Abs
<1>2. [t \in DOMAIN p |-> Abs(p[t].w)] = Weights(p) /\ [t \in DOMAIN p |-> p[t].w] = Weights(p)
  BY <1>1 DEF Weights
<1>3. GrossOf(p) = SumOver(Weights(p), DOMAIN p) /\ NetOf(p) = GrossOf(p)
  BY <1>2, TotalSum, BookTyped DEF GrossOf, NetOf
<1>4. GrossOf(p) \in Nat
  BY <1>3, BookTyped, SumType
<1>5. ASSUME NEW s
      PROVE  /\ SectorGross(p, s) = SumOver(Weights(p), InSector(p, s))
             /\ SectorGross(p, s) \in Nat
  <2> DEFINE D == InSector(p, s)
             f == [t \in D |-> Abs(p[t].w)]
  <2>1. D \subseteq DOMAIN p /\ IsFiniteSet(D)
    BY BookTyped, FS_Subset DEF InSector
  <2>2. SectorGross(p, s) = Total(f)
    BY DEF SectorGross, GrossOf, Restrict, InSector
  <2>3. \A t \in D : f[t] = Weights(p)[t] /\ Weights(p)[t] \in Nat
    BY <1>1, <2>1, BookTyped
  <2>4. Total(f) = SumOver(f, D)
    BY TotalSum
  <2> HIDE DEF f, D
  <2>5. SumOver(f, D) = SumOver(Weights(p), D)
    BY <2>1, <2>3, SumCongruent
  <2>6. SumOver(Weights(p), D) \in Nat
    BY <2>1, <2>3, SumType
  <2> QED BY <2>2, <2>4, <2>5, <2>6 DEF D
<1>6. QED
  BY <1>3, <1>4, <1>5

\* No sum of a book grows when positions shrink.
LEMMA ShrunkSums ==
    ASSUME NEW p, IsBook(p), NEW q, IsBook(q), Shrunk(q, p)
    PROVE  /\ GrossOf(q) <= GrossOf(p)
           /\ \A s : SectorGross(q, s) <= SectorGross(p, s)
<1>1. \A t \in DOMAIN p :
        Weights(q)[t] \in Nat /\ Weights(p)[t] \in Nat /\ Weights(q)[t] <= Weights(p)[t]
  BY BookTyped DEF Shrunk
<1>2. \A D \in SUBSET DOMAIN p : SumOver(Weights(q), D) <= SumOver(Weights(p), D)
  BY <1>1, BookTyped, FS_Subset, SumMonotone
<1>3. DOMAIN q = DOMAIN p /\ \A s : InSector(q, s) = InSector(p, s)
  BY DEF Shrunk, InSector
<1>4. \A s : InSector(p, s) \in SUBSET DOMAIN p
  BY DEF InSector
<1>5. QED
  BY <1>2, <1>3, <1>4, BookSums

\* Shrinking twice is shrinking.
LEMMA ShrunkChain ==
    ASSUME NEW p, IsBook(p), NEW q, IsBook(q), NEW r, IsBook(r), Shrunk(q, p), Shrunk(r, q)
    PROVE  Shrunk(r, p)
<1>1. \A t \in DOMAIN p : p[t].w \in Nat /\ q[t].w \in Nat /\ r[t].w \in Nat
  BY BookTyped DEF Shrunk
<1>2. QED
  BY <1>1 DEF Shrunk

\* A book is no larger than itself.
LEMMA ShrunkSelf == ASSUME NEW p, IsBook(p) PROVE Shrunk(p, p)
  BY BookTyped DEF Shrunk

\* A book of fewer positions.
LEMMA RestrictBook ==
    ASSUME NEW p, IsBook(p), NEW D \in SUBSET DOMAIN p
    PROVE  /\ IsBook(Restrict(p, D)) /\ DOMAIN Restrict(p, D) = D
           /\ \A t \in D : Restrict(p, D)[t] = p[t]
<1>1. p \in [DOMAIN p -> Line] /\ DOMAIN p \in SUBSET AllTickers
  BY BookTyped
<1>2. Restrict(p, D) \in [D -> Line]
  BY <1>1 DEF Restrict
<1>3. D \in SUBSET AllTickers
  BY <1>1
<1>4. QED
  BY <1>2, <1>3 DEF IsBook, Restrict

\* A book with other weights.
LEMMA ReweighedBook ==
    ASSUME NEW p, IsBook(p), NEW q, DOMAIN q = DOMAIN p, q = [t \in DOMAIN p |-> q[t]],
           \A t \in DOMAIN p : /\ q[t] \in Line /\ q[t].sector = p[t].sector
                               /\ q[t].w <= p[t].w
    PROVE  IsBook(q) /\ Shrunk(q, p)
<1>1. q \in [DOMAIN p -> Line] /\ DOMAIN p \in SUBSET AllTickers
  BY BookTyped
<1>2. QED
  BY <1>1 DEF IsBook, Shrunk

\* Scaling down makes every position smaller, in proportion.
LEMMA ScaledBookIs ==
    ASSUME NEW p, IsBook(p), NEW num \in Nat, NEW den \in Nat \ {0}, num <= den
    PROVE  /\ IsBook(ScaledBook(p, num, den)) /\ Shrunk(ScaledBook(p, num, den), p)
           /\ \A t \in DOMAIN p : den * ScaledBook(p, num, den)[t].w <= num * p[t].w
<1> DEFINE q == ScaledBook(p, num, den)
<1>1. q = [t \in DOMAIN p |-> [p[t] EXCEPT !.w = Scaled(p[t].w, num, den)]]
  BY DEF ScaledBook
<1>2. ASSUME NEW t \in DOMAIN p
      PROVE  /\ q[t] \in Line /\ q[t].sector = p[t].sector /\ q[t].w <= p[t].w
             /\ den * q[t].w <= num * p[t].w
  <2>1. p[t] \in Line /\ p[t].w \in Nat
    BY BookTyped
  <2> DEFINE v == Scaled(p[t].w, num, den)
  <2>2. v \in Nat /\ v <= p[t].w /\ den * v <= num * p[t].w
    BY <2>1, ScaledIs
  <2>3. q[t] = [p[t] EXCEPT !.w = v]
    BY <1>1
  <2> HIDE DEF v, q
  <2>4. q[t] \in Line /\ q[t].w = v /\ q[t].sector = p[t].sector
    BY <2>1, <2>2, <2>3 DEF Line
  <2> QED BY <2>2, <2>4
<1>3. DOMAIN q = DOMAIN p /\ q = [t \in DOMAIN p |-> q[t]]
  BY <1>1
<1> HIDE DEF q
<1>4. IsBook(q) /\ Shrunk(q, p)
  BY <1>2, <1>3, ReweighedBook
<1>5. QED
  BY <1>2, <1>4 DEF q

\* A part of a book scaled to a limit keeps it.
LEMMA ScaledSum ==
    ASSUME NEW p, IsBook(p), NEW q, IsBook(q), NEW D \in SUBSET DOMAIN p, DOMAIN q = DOMAIN p,
           NEW num \in Nat, NEW den \in Nat \ {0}, den = SumOver(Weights(p), D),
           \A t \in D : den * q[t].w <= num * p[t].w
    PROVE  SumOver(Weights(q), D) <= num
<1>1. IsFiniteSet(D)
  BY BookTyped, FS_Subset
<1>2. \A t \in D : /\ Weights(q)[t] \in Nat /\ Weights(p)[t] \in Nat
                   /\ den * Weights(q)[t] <= num * Weights(p)[t]
  BY BookTyped
<1>3. den * SumOver(Weights(q), D) <= num * SumOver(Weights(p), D)
  BY <1>1, <1>2, SumScaled
<1>4. SumOver(Weights(q), D) \in Nat
  BY <1>1, <1>2, SumType
<1> DEFINE n == SumOver(Weights(q), D)
<1>5. den * n <= num * den
  BY <1>3
<1>6. n \in Nat
  BY <1>4
<1> HIDE DEF n
<1>7. den * n <= den * num
  BY <1>5
<1>8. n <= num
  BY <1>6, <1>7, Cancel
<1>9. QED
  BY <1>8 DEF n

-----------------------------------------------------------------------------
(* Places in an order *)

\* before gives for every element those that precede it.
IsOrder(before, S) ==
    /\ before \in [S -> SUBSET S]
    /\ \A x \in S : x \notin before[x] /\ \A y \in before[x] : before[y] \subseteq before[x]
    /\ \A x, y \in S : x = y \/ x \in before[y] \/ y \in before[x]

\* Fewer than n elements before it have at most n elements.
LEMMA FirstFew ==
    ASSUME NEW S, IsFiniteSet(S), NEW before, IsOrder(before, S), NEW n \in Nat
    PROVE  Cardinality({x \in S : Cardinality(before[x]) < n}) <= n
<1> DEFINE F == {x \in S : Cardinality(before[x]) < n}
           After(x) == {y \in F : x \in before[y]}
           B == {After(x) : x \in F}
<1>1. F \subseteq S /\ IsFiniteSet(F)
  BY FS_Subset
<1>2. CASE F = {}
  BY <1>2, FS_EmptySet
<1>3. CASE F # {}
  <2>1. B \subseteq SUBSET F /\ B # {}
    BY <1>3
  <2>2. PICK m \in F : \A y \in B : y \subseteq After(m) => y = After(m)
    <3>1. PICK M \in B : \A y \in B : y \subseteq M => y = M
      <4> HIDE DEF B, F
      <4> QED BY <1>1, <2>1, Smallest
    <3> QED BY <3>1
  <2>3. ASSUME NEW d \in F, m \in before[d] PROVE FALSE
    <3>1. After(d) \subseteq After(m) /\ d \in After(m) /\ d \notin After(d)
      BY <1>1, <2>3 DEF IsOrder
    <3>2. After(d) \in B
      OBVIOUS
    <3> HIDE DEF B, After
    <3> QED BY <2>2, <3>1, <3>2
  <2>4. F \ {m} \subseteq before[m]
    BY <1>1, <2>3 DEF IsOrder
  <2>5. before[m] \in SUBSET S /\ Cardinality(before[m]) < n
    BY DEF IsOrder
  <2> HIDE DEF F
  <2>6. IsFiniteSet(before[m]) /\ Cardinality(F \ {m}) <= Cardinality(before[m])
    BY <2>4, <2>5, FS_Subset
  <2>7. Cardinality(F \ {m}) = Cardinality(F) - 1
    BY <1>1, <2>2, FS_RemoveElement
  <2>8. Cardinality(F) \in Nat /\ Cardinality(before[m]) \in Nat
    BY <1>1, <2>6, FS_CardinalityType
  <2>9. Cardinality(F) <= n
    BY <2>5, <2>6, <2>7, <2>8
  <2> QED BY <2>9 DEF F
<1>4. QED
  BY <1>2, <1>3

\* Some element has none before it.
LEMMA FirstExists ==
    ASSUME NEW S, IsFiniteSet(S), S # {}, NEW before, IsOrder(before, S)
    PROVE  \E m \in S : before[m] = {}
<1> DEFINE B == {before[x] : x \in S}
<1>1. B \subseteq SUBSET S /\ B # {}
  BY DEF IsOrder
<1>2. PICK m \in S : \A y \in B : y \subseteq before[m] => y = before[m]
  <2>1. PICK M \in B : \A y \in B : y \subseteq M => y = M
    <3> HIDE DEF B
    <3> QED BY <1>1, Smallest
  <2> QED BY <2>1
<1>3. ASSUME NEW d \in before[m] PROVE FALSE
  <2>1. before[d] \subseteq before[m] /\ d \notin before[d] /\ d \in S
    BY DEF IsOrder
  <2>2. before[d] \in B
    BY <2>1
  <2> HIDE DEF B
  <2> QED BY <1>2, <2>1, <2>2
<1>4. QED
  BY <1>3

-----------------------------------------------------------------------------
(* The limits, one after the other *)

\* Some of the positions, none larger.
Within(q, p) ==
    /\ DOMAIN q \subseteq DOMAIN p
    /\ \A t \in DOMAIN q : q[t].w <= p[t].w /\ q[t].sector = p[t].sector

IsLiquid(p) == \A t \in DOMAIN p : DollarVolume[t] = None \/ DollarVolume[t] >= MinTraded
TickersKept(p) == \A t \in DOMAIN p : p[t].w <= MaxTicker
SectorsKept(p) == \A s \in ToSet(Sectors) : SectorGross(p, s) <= MaxSector

\* The limits are natural numbers.
LEMMA LimitTypes ==
    /\ MaxTicker \in Nat /\ MaxSector \in Nat /\ MaxGross \in Nat /\ MaxNet \in Nat
    /\ MaxPositions \in Nat /\ VolTarget \in Nat /\ One \in Nat
<1>1. One \in Nat
  BY DEF One
<1>2. /\ MaxTicker \in 0 .. One /\ MaxSector \in 0 .. One /\ MaxGross \in 0 .. One
      /\ MaxNet \in 0 .. One /\ MaxPositions \in Nat /\ VolTarget \in Nat
  BY DecisionAssumption
<1>3. QED
  BY <1>1, <1>2

\* What shrinks keeps every limit.
LEMMA ShrunkKeeps ==
    ASSUME NEW p, IsBook(p), NEW q, IsBook(q), Shrunk(q, p)
    PROVE  /\ IsLiquid(p) => IsLiquid(q)
           /\ TickersKept(p) => TickersKept(q)
           /\ SectorsKept(p) => SectorsKept(q)
           /\ GrossOf(p) <= MaxGross => GrossOf(q) <= MaxGross
           /\ GrossOf(p) <= MaxNet => GrossOf(q) <= MaxNet
<1>1. IsLiquid(p) => IsLiquid(q)
  BY DEF IsLiquid, Shrunk
<1>2. TickersKept(p) => TickersKept(q)
  <2>1. \A t \in DOMAIN p : p[t].w \in Nat /\ q[t].w \in Nat
    BY BookTyped DEF Shrunk
  <2> QED BY <2>1, LimitTypes DEF TickersKept, Shrunk
<1>3. SectorsKept(p) => SectorsKept(q)
  <2>1. \A s : /\ SectorGross(p, s) \in Nat /\ SectorGross(q, s) \in Nat
               /\ SectorGross(q, s) <= SectorGross(p, s)
    BY BookSums, ShrunkSums
  <2> QED BY <2>1, LimitTypes DEF SectorsKept
<1>4. GrossOf(p) \in Nat /\ GrossOf(q) \in Nat /\ GrossOf(q) <= GrossOf(p)
  BY BookSums, ShrunkSums
<1>5. QED
  BY <1>1, <1>2, <1>3, <1>4, LimitTypes

\* The positions that stay: without shorts, liquid, the largest.
LEMMA LargestIs ==
    ASSUME NEW p, IsBook(p)
    PROVE  LET q == Largest(Liquid(NoShorts(p)))
           IN  /\ IsBook(q) /\ Within(q, p) /\ IsLiquid(q)
               /\ Cardinality(DOMAIN q) <= MaxPositions
<1> DEFINE A == {t \in DOMAIN p : AllowShorting \/ p[t].w >= 0}
           a == NoShorts(p)
<1>1. /\ a = Restrict(p, A) /\ IsBook(a) /\ DOMAIN a = A /\ A \subseteq DOMAIN p
      /\ \A t \in A : a[t] = p[t]
  <2>1. A \in SUBSET DOMAIN p /\ a = Restrict(p, A)
    BY DEF NoShorts
  <2> HIDE DEF A, a
  <2> QED BY <2>1, RestrictBook
<1> HIDE DEF a, A
<1> DEFINE L == {t \in DOMAIN a : DollarVolume[t] = None \/ DollarVolume[t] >= MinTraded}
           b == Liquid(a)
<1>2. /\ IsBook(b) /\ DOMAIN b = L /\ L \subseteq DOMAIN a
      /\ \A t \in L : b[t] = a[t]
  <2>1. L \in SUBSET DOMAIN a /\ b = Restrict(a, L)
    BY DEF Liquid
  <2> HIDE DEF L, b
  <2> QED BY <1>1, <2>1, RestrictBook
<1>3. IsLiquid(b)
  BY <1>2 DEF IsLiquid
<1> HIDE DEF b, L
<1> DEFINE S == DOMAIN b
           before == [t \in S |-> {u \in S : b[u].w > b[t].w \/ (b[u].w = b[t].w /\ u < t)}]
           C == {t \in S : Cardinality(before[t]) < MaxPositions}
           c == Largest(b)
<1>4. \A t \in S : b[t].w \in Nat /\ Abs(b[t].w) = b[t].w /\ t \in Nat
  BY <1>2, BookTyped, UniverseAssumption DEF Abs
<1>5. /\ IsBook(c) /\ DOMAIN c = C /\ C \subseteq S
      /\ \A t \in C : c[t] = b[t]
  <2>1. \A t \in S : before[t] = {u \in DOMAIN b :
            Abs(b[u].w) > Abs(b[t].w) \/ (Abs(b[u].w) = Abs(b[t].w) /\ u < t)}
    BY <1>4
  <2>2. C \in SUBSET DOMAIN b /\ c = Restrict(b, C)
    <3> HIDE DEF before
    <3> QED BY <2>1 DEF Largest
  <2> HIDE DEF C, c
  <2> QED BY <1>2, <2>2, RestrictBook
<1>6. IsFiniteSet(S)
  BY <1>2, BookTyped
<1>7. IsOrder(before, S)
  <2>1. before \in [S -> SUBSET S]
    OBVIOUS
  <2>2. \A x, y \in S : x \in before[y] <=> b[x].w > b[y].w \/ (b[x].w = b[y].w /\ x < y)
    OBVIOUS
  <2> HIDE DEF before
  <2>3. \A x \in S : x \notin before[x]
    BY <1>4, <2>2
  <2>4. \A x \in S : \A y \in before[x] : before[y] \subseteq before[x]
    BY <1>4, <2>1, <2>2
  <2>5. \A x, y \in S : x = y \/ x \in before[y] \/ y \in before[x]
    BY <1>4, <2>2
  <2> QED BY <2>1, <2>3, <2>4, <2>5 DEF IsOrder
<1>8. Cardinality(C) <= MaxPositions
  <2> HIDE DEF before, S
  <2> QED BY <1>6, <1>7, FirstFew, LimitTypes
<1>9. IsLiquid(c)
  BY <1>3, <1>5 DEF IsLiquid
<1> HIDE DEF before, C, c
<1>10. Within(c, p)
  <2>1. \A t \in DOMAIN c : t \in DOMAIN p /\ c[t] = p[t]
    BY <1>1, <1>2, <1>5
  <2>2. \A t \in DOMAIN p : p[t].w \in Nat
    BY BookTyped
  <2> QED BY <2>1, <2>2 DEF Within
<1>11. QED
  BY <1>5, <1>8, <1>9, <1>10 DEF a, b, c

\* The cap on one ticker.
LEMMA TickerCappedIs ==
    ASSUME NEW p, IsBook(p)
    PROVE  /\ IsBook(TickerCapped(p)) /\ Shrunk(TickerCapped(p), p)
           /\ TickersKept(TickerCapped(p))
<1> DEFINE q == TickerCapped(p)
<1>1. ASSUME NEW t \in DOMAIN p
      PROVE  /\ q[t] \in Line /\ q[t].sector = p[t].sector /\ q[t].w <= p[t].w
             /\ q[t].w <= MaxTicker
  <2>1. p[t] \in Line /\ p[t].w \in Nat
    BY BookTyped
  <2> DEFINE v == IF p[t].w > MaxTicker THEN MaxTicker ELSE p[t].w
  <2>2. v \in Nat /\ v <= p[t].w /\ v <= MaxTicker
    BY <2>1, LimitTypes
  <2>3. q[t] = [p[t] EXCEPT !.w = v]
    BY <2>1 DEF TickerCapped, Abs
  <2> HIDE DEF v, q
  <2>4. q[t] \in Line /\ q[t].w = v /\ q[t].sector = p[t].sector
    BY <2>1, <2>2, <2>3 DEF Line
  <2> QED BY <2>2, <2>4
<1>2. DOMAIN q = DOMAIN p /\ q = [t \in DOMAIN p |-> q[t]]
  BY DEF TickerCapped
<1> HIDE DEF q
<1>3. IsBook(q) /\ Shrunk(q, p)
  BY <1>1, <1>2, ReweighedBook
<1>4. QED
  BY <1>1, <1>2, <1>3 DEF TickersKept, q

\* The cap on a sector: each is scaled by its own sum.
LEMMA SectorCappedIs ==
    ASSUME NEW p, IsBook(p)
    PROVE  /\ IsBook(SectorCapped(p)) /\ Shrunk(SectorCapped(p), p)
           /\ SectorsKept(SectorCapped(p))
<1> DEFINE q == SectorCapped(p)
           G(s) == SectorGross(p, s)
<1>1. \A s : G(s) \in Nat /\ G(s) = SumOver(Weights(p), InSector(p, s))
  BY BookSums
<1>2. ASSUME NEW t \in DOMAIN p
      PROVE  /\ q[t] \in Line /\ q[t].sector = p[t].sector /\ q[t].w <= p[t].w
             /\ G(p[t].sector) > MaxSector => G(p[t].sector) * q[t].w <= MaxSector * p[t].w
  <2>1. p[t] \in Line /\ p[t].w \in Nat
    BY BookTyped
  <2> DEFINE g == G(p[t].sector)
             v == Scaled(p[t].w, MaxSector, g)
  <2>2. q[t] = IF g > MaxSector THEN [p[t] EXCEPT !.w = v] ELSE p[t]
    BY DEF SectorCapped
  <2>3. g \in Nat
    BY <1>1
  <2> HIDE DEF g, q
  <2>4. CASE g > MaxSector
    <3>1. g \in Nat \ {0} /\ MaxSector \in Nat /\ MaxSector <= g
      BY <2>3, <2>4, LimitTypes
    <3>2. v \in Nat /\ v <= p[t].w /\ g * v <= MaxSector * p[t].w
      BY <2>1, <3>1, ScaledIs
    <3> HIDE DEF v
    <3>3. q[t] \in Line /\ q[t].w = v /\ q[t].sector = p[t].sector
      BY <2>1, <2>2, <2>4, <3>2 DEF Line
    <3> QED BY <3>2, <3>3 DEF g
  <2>5. CASE ~ (g > MaxSector)
    BY <2>1, <2>2, <2>5 DEF g
  <2> QED BY <2>4, <2>5
<1>3. DOMAIN q = DOMAIN p /\ q = [t \in DOMAIN p |-> q[t]]
  BY DEF SectorCapped
<1> HIDE DEF q
<1>4. IsBook(q) /\ Shrunk(q, p)
  BY <1>2, <1>3, ReweighedBook
<1>5. ASSUME NEW s PROVE SectorGross(q, s) <= MaxSector
  <2>1. /\ SectorGross(q, s) = SumOver(Weights(q), InSector(q, s)) /\ SectorGross(q, s) \in Nat
        /\ SectorGross(q, s) <= G(s)
    BY <1>4, BookSums, ShrunkSums
  <2>2. InSector(q, s) = InSector(p, s) /\ InSector(p, s) \in SUBSET DOMAIN p
    BY <1>4 DEF Shrunk, InSector
  <2> DEFINE g == G(s)
             D == InSector(p, s)
  <2>3. \A t \in D : g > MaxSector => g * q[t].w <= MaxSector * p[t].w
    BY <1>2 DEF InSector
  <2>4. g \in Nat /\ g = SumOver(Weights(p), D)
    BY <1>1
  <2> HIDE DEF g, D
  <2>5. CASE g > MaxSector
    <3>1. g \in Nat \ {0} /\ MaxSector \in Nat
      BY <2>4, <2>5, LimitTypes
    <3>2. D \in SUBSET DOMAIN p
      BY <2>2 DEF D
    <3>3. SumOver(Weights(q), D) <= MaxSector
      BY <1>3, <1>4, <2>3, <2>4, <2>5, <3>1, <3>2, ScaledSum
    <3> QED BY <2>1, <2>2, <3>3 DEF D
  <2>6. CASE ~ (g > MaxSector)
    <3>1. g <= MaxSector /\ MaxSector \in Nat /\ SectorGross(q, s) <= g
      BY <2>1, <2>4, <2>6, LimitTypes DEF g
    <3> QED BY <2>1, <2>4, <3>1
  <2> QED BY <2>5, <2>6
<1>6. QED
  BY <1>4, <1>5 DEF SectorsKept, q

\* A book over a limit scaled to it.
LEMMA ScaledToLimit ==
    ASSUME NEW p, IsBook(p), NEW max \in Nat, GrossOf(p) > max
    PROVE  LET q == ScaledBook(p, max, GrossOf(p))
           IN  IsBook(q) /\ Shrunk(q, p) /\ GrossOf(q) <= max
<1> DEFINE g == GrossOf(p)
           q == ScaledBook(p, max, g)
<1>1. g \in Nat \ {0} /\ max <= g /\ g = SumOver(Weights(p), DOMAIN p)
  BY BookSums
<1> HIDE DEF g
<1>2. IsBook(q) /\ Shrunk(q, p) /\ \A t \in DOMAIN p : g * q[t].w <= max * p[t].w
  BY <1>1, ScaledBookIs
<1> HIDE DEF q
<1>3. DOMAIN q = DOMAIN p
  BY <1>2 DEF Shrunk
<1>4. SumOver(Weights(q), DOMAIN p) <= max
  BY <1>1, <1>2, <1>3, ScaledSum
<1>5. GrossOf(q) <= max
  BY <1>2, <1>3, <1>4, BookSums
<1>6. QED
  BY <1>2, <1>5 DEF q, g

\* The cap on the gross exposure.
LEMMA GrossCappedIs ==
    ASSUME NEW p, IsBook(p)
    PROVE  /\ IsBook(GrossCapped(p)) /\ Shrunk(GrossCapped(p), p)
           /\ GrossOf(GrossCapped(p)) <= MaxGross
<1>1. GrossOf(p) \in Nat /\ MaxGross \in Nat
  BY BookSums, LimitTypes
<1>2. CASE GrossOf(p) > MaxGross
  BY <1>1, <1>2, ScaledToLimit DEF GrossCapped
<1>3. CASE ~ (GrossOf(p) > MaxGross)
  BY <1>1, <1>3, ShrunkSelf DEF GrossCapped
<1>4. QED
  BY <1>2, <1>3

\* The cap on the net exposure, which without shorts is the gross.
LEMMA NetCappedIs ==
    ASSUME NEW p, IsBook(p)
    PROVE  /\ IsBook(NetCapped(p)) /\ Shrunk(NetCapped(p), p)
           /\ GrossOf(NetCapped(p)) <= MaxNet
<1>1. GrossOf(p) \in Nat /\ MaxNet \in Nat /\ Abs(NetOf(p)) = GrossOf(p)
  BY BookSums, LimitTypes DEF Abs
<1>2. CASE GrossOf(p) > MaxNet
  BY <1>1, <1>2, ScaledToLimit DEF NetCapped
<1>3. CASE ~ (GrossOf(p) > MaxNet)
  BY <1>1, <1>3, ShrunkSelf DEF NetCapped
<1>4. QED
  BY <1>2, <1>3

\* Scaling to the volatility target, whatever the estimate.
LEMMA AtVolTargetIs ==
    ASSUME NEW p, IsBook(p), NEW vol \in Int
    PROVE  IsBook(AtVolTarget(p, vol)) /\ Shrunk(AtVolTarget(p, vol), p)
<1> DEFINE n == VolTarget * One
<1>1. n \in Nat
  BY LimitTypes
<1> HIDE DEF n
<1>2. CASE vol > n
  <2>1. vol \in Nat \ {0} /\ n <= vol
    BY <1>1, <1>2
  <2>2. AtVolTarget(p, vol) = ScaledBook(p, n, vol)
    BY <1>2 DEF AtVolTarget, n
  <2> QED BY <1>1, <2>1, <2>2, ScaledBookIs
<1>3. CASE ~ (vol > n)
  BY <1>3, ShrunkSelf DEF AtVolTarget, n
<1>4. QED
  BY <1>2, <1>3

\* Every limit holds of a book at its end, and of each position it has less.
LimitsOK(q, p) ==
    /\ IsBook(q) /\ Within(q, p)
    /\ Cardinality(DOMAIN q) <= MaxPositions /\ IsLiquid(q)
    /\ TickersKept(q) /\ SectorsKept(q)
    /\ GrossOf(q) <= MaxGross /\ GrossOf(q) <= MaxNet

\* After all of them, in the order of the code, all limits hold.
LEMMA Limited ==
    ASSUME NEW p, IsBook(p), NEW vol \in Int
    PROVE  LimitsOK(AtVolTarget(BeforeVol(p), vol), p)
<1> DEFINE a == Largest(Liquid(NoShorts(p)))
           b == TickerCapped(a)
           c == SectorCapped(b)
           d == GrossCapped(c)
           e == NetCapped(d)
           q == AtVolTarget(e, vol)
<1>1. IsBook(a) /\ Within(a, p) /\ IsLiquid(a) /\ Cardinality(DOMAIN a) <= MaxPositions
  BY LargestIs
<1> HIDE DEF a
<1>2. IsBook(b) /\ Shrunk(b, a) /\ TickersKept(b)
  BY <1>1, TickerCappedIs
<1> HIDE DEF b
<1>3. IsBook(c) /\ Shrunk(c, b) /\ SectorsKept(c)
  BY <1>2, SectorCappedIs
<1> HIDE DEF c
<1>4. IsBook(d) /\ Shrunk(d, c) /\ GrossOf(d) <= MaxGross
  BY <1>3, GrossCappedIs
<1> HIDE DEF d
<1>5. IsBook(e) /\ Shrunk(e, d) /\ GrossOf(e) <= MaxNet
  BY <1>4, NetCappedIs
<1> HIDE DEF e
<1>6. IsBook(q) /\ Shrunk(q, e)
  BY <1>5, AtVolTargetIs
<1> HIDE DEF q
<1>7. Shrunk(q, d) /\ Shrunk(q, c) /\ Shrunk(q, b) /\ Shrunk(q, a)
  <2>1. Shrunk(q, d)
    BY <1>4, <1>5, <1>6, ShrunkChain
  <2>2. Shrunk(q, c)
    BY <1>3, <1>4, <1>6, <2>1, ShrunkChain
  <2>3. Shrunk(q, b)
    BY <1>2, <1>3, <1>6, <2>2, ShrunkChain
  <2>4. Shrunk(q, a)
    BY <1>1, <1>2, <1>6, <2>3, ShrunkChain
  <2> QED BY <2>1, <2>2, <2>3, <2>4
<1>8. /\ IsLiquid(q) /\ TickersKept(q) /\ SectorsKept(q)
      /\ GrossOf(q) <= MaxGross /\ GrossOf(q) <= MaxNet
  BY <1>1, <1>2, <1>3, <1>4, <1>5, <1>6, <1>7, ShrunkKeeps
<1>9. DOMAIN q = DOMAIN a
  BY <1>7 DEF Shrunk
<1>10. Within(q, p)
  <2>1. \A t \in DOMAIN a : q[t].w \in Nat /\ a[t].w \in Nat
    BY <1>1, <1>6, <1>9, BookTyped
  <2>2. \A t \in DOMAIN p : p[t].w \in Nat
    BY BookTyped
  <2> QED BY <1>1, <1>7, <1>9, <2>1, <2>2 DEF Within, Shrunk
<1>11. q = AtVolTarget(BeforeVol(p), vol)
  BY DEF BeforeVol, a, b, c, d, e, q
<1>12. LimitsOK(q, p)
  BY <1>1, <1>6, <1>8, <1>9, <1>10 DEF LimitsOK
<1>13. QED
  BY <1>11, <1>12

\* What the volatility is estimated of is a book.
LEMMA BeforeVolIs == ASSUME NEW p, IsBook(p) PROVE IsBook(BeforeVol(p))
<1> DEFINE a == Largest(Liquid(NoShorts(p)))
<1>1. IsBook(a)
  BY LargestIs
<1> HIDE DEF a
<1>2. IsBook(NetCapped(GrossCapped(SectorCapped(TickerCapped(a)))))
  <2>1. IsBook(SectorCapped(TickerCapped(a)))
    BY <1>1, TickerCappedIs, SectorCappedIs
  <2> QED BY <2>1, GrossCappedIs, NetCappedIs
<1>3. QED
  BY <1>2 DEF BeforeVol, a

\* Every volatility estimate of a book is a number.
LEMMA EstimatesTyped ==
    ASSUME NEW p, IsBook(p) PROVE VolEstimates(p) \subseteq Int
<1> DEFINE f == [t \in DOMAIN p |-> Abs(p[t].w) * Volatility[t]]
           g == [t \in DOMAIN p |-> Abs(p[t].w) * ReturnVol(t)]
<1>1. IsFiniteSet(DOMAIN p) /\ DOMAIN p \in SUBSET AllTickers
  BY BookTyped
<1>2. \A t \in DOMAIN p : /\ p[t].w \in Nat /\ ReturnVol(t) \in Nat
                          /\ Volatility[t] # None => Volatility[t] \in Nat
  BY <1>1, BookTyped, UniverseAssumption DEF ReturnVol
<1> HIDE DEF g
<1>3. WeightedVol(p) \in Int
  <2>1. CASE \E t \in DOMAIN p : Volatility[t] = None
    BY <2>1 DEF WeightedVol, None
  <2>2. CASE ~ \E t \in DOMAIN p : Volatility[t] = None
    <3>1. ASSUME NEW t \in DOMAIN p PROVE f[t] \in Int
      <4>1. p[t].w \in Nat /\ Volatility[t] \in Nat
        <5> HIDE DEF f
        <5> QED BY <1>2, <2>2, <3>1
      <4>2. Abs(p[t].w) = p[t].w
        <5> HIDE DEF f
        <5> QED BY <4>1 DEF Abs
      <4> QED BY <4>1, <4>2
    <3>2. Total(f) = SumOver(f, DOMAIN p) /\ WeightedVol(p) = Total(f)
      BY <2>2, TotalSum DEF WeightedVol
    <3> HIDE DEF f
    <3> QED BY <1>1, <3>1, <3>2, SumType
  <2> QED BY <2>1, <2>2
<1> HIDE DEF f
<1> USE DEF g
<1>4. Total(g) \in Int
  <2>1. ASSUME NEW t \in DOMAIN p PROVE g[t] \in Int
    <3>1. p[t].w \in Nat /\ ReturnVol(t) \in Nat
      <4> HIDE DEF g
      <4> QED BY <1>2, <2>1
    <3>2. Abs(p[t].w) = p[t].w
      <4> HIDE DEF g
      <4> QED BY <3>1 DEF Abs
    <3> QED BY <3>1, <3>2
  <2>2. Total(g) = SumOver(g, DOMAIN p)
    BY TotalSum
  <2> HIDE DEF g
  <2> QED BY <1>1, <2>1, <2>2, SumType
<1>5. VolEstimates(p) = {WeightedVol(p), Total(g) \div 2, 2 * Total(g)}
  BY DEF VolEstimates
<1> HIDE DEF g
<1>6. QED
  BY <1>3, <1>4, <1>5

-----------------------------------------------------------------------------
(* The strategy builders *)

SignalType ==
    [ticker : AllTickers, kind : {"security", "etf"}, sector : ToSet(Sectors),
     class : {"strong_long", "moderate_long"}, score : 0 .. One, at : Nat \X Nat \X Nat]

\* What a run's signals are: finitely many, each at a place of its own.
SignalsOK(s) ==
    /\ s \subseteq SignalType /\ IsFiniteSet(s)
    /\ \A x, y \in s : x.at = y.at => x = y

\* A book holds what has a signal, in the sector of the signal.
FromSignals(p, s) ==
    /\ IsBook(p)
    /\ \A t \in DOMAIN p :
        /\ p[t].w <= One
        /\ \E x \in s : x.ticker = t /\ p[t].sector = x.sector

\* What a signal's type says of its fields.
LEMMA SignalFields ==
    ASSUME NEW x \in SignalType
    PROVE  /\ x.ticker \in AllTickers /\ x.sector \in ToSet(Sectors)
           /\ x.class \in {"strong_long", "moderate_long"} /\ x.kind \in {"security", "etf"}
           /\ x.score \in 0 .. One /\ x.at \in Nat \X Nat \X Nat
  BY DEF SignalType

\* A share of a whole in ten thousandths is at most one, and something when the
\* share is at least a ten thousandth.
LEMMA Fraction ==
    ASSUME NEW a \in Nat, NEW total \in Nat \ {0}, NEW parts \in Nat \ {0}, a <= total
    PROVE  /\ (a * One) \div (total * parts) \in 0 .. One
           /\ total * parts <= a * One => (a * One) \div (total * parts) # 0
<1> DEFINE d == total * parts
           n == a * One
           v == n \div d
<1>1. One \in Nat
  BY DEF One
<1>2. 1 <= parts /\ total * 1 = total
  OBVIOUS
<1>3. total <= d /\ d \in Nat \ {0} /\ n \in Nat
  <2>1. total * 1 <= total * parts
    BY <1>2, Product
  <2>2. total * parts \in Nat /\ a * One \in Nat
    BY <1>1
  <2> QED BY <1>2, <2>1, <2>2
<1>4. n <= d * One
  <2>1. a <= d
    BY <1>3
  <2> HIDE DEF d
  <2> QED BY <1>1, <1>3, <2>1, Product
<1> HIDE DEF d, n
<1>5. v \in Nat /\ d * v <= n
  BY <1>3, Quotient
<1>6. d <= n => v # 0
  BY <1>3
<1> HIDE DEF v
<1>7. d * v <= d * One
  <2>1. d * v \in Nat /\ d * One \in Nat
    BY <1>1, <1>3, <1>5
  <2> HIDE DEF One
  <2> QED BY <1>3, <1>4, <1>5, <2>1
<1>8. v <= One
  BY <1>1, <1>3, <1>5, <1>7, Cancel
<1>9. v \in 0 .. One
  BY <1>1, <1>5, <1>8
<1>10. QED
  BY <1>6, <1>9 DEF v, n, d

\* Weights in proportion to shares make a book from the signals; who has a ten
\* thousandth of the whole is in it.
LEMMA ProportionalIs ==
    ASSUME NEW s, SignalsOK(s), NEW longs \in SUBSET s, NEW share \in [longs -> Nat],
           NEW parts \in Nat \ {0}
    PROVE  LET p == Proportional(longs, share, parts)
           IN  /\ FromSignals(p, s)
               /\ \A x \in longs : Total(share) # 0 /\ Total(share) * parts <= share[x] * One
                                    => x.ticker \in DOMAIN p
<1> DEFINE total == Total(share)
           w == [x \in longs |-> IF total = 0 THEN 0 ELSE (share[x] * One) \div (total * parts)]
           held == {x \in longs : w[x] # 0}
           T == {x.ticker : x \in held}
           Of(t) == CHOOSE x \in held : x.ticker = t
           p == Proportional(longs, share, parts)
<1>1. /\ IsFiniteSet(longs) /\ total \in Nat
      /\ \A x \in longs : share[x] \in Nat /\ share[x] <= total
  <2>1. IsFiniteSet(longs) /\ total = SumOver(share, longs)
    BY FS_Subset, TotalSum DEF SignalsOK
  <2>2. \A x \in longs : share[x] \in Nat
    OBVIOUS
  <2> QED BY <2>1, <2>2, SumType, SumPart
<1>2. p = [t \in T |-> [w |-> w[Of(t)], sector |-> Of(t).sector]]
  BY DEF Proportional
<1> HIDE DEF total, p
<1>3. \A x \in longs : /\ w[x] \in 0 .. One
                       /\ total # 0 /\ total * parts <= share[x] * One => w[x] # 0
  <2> SUFFICES ASSUME NEW x \in longs
               PROVE  /\ w[x] \in 0 .. One
                      /\ total # 0 /\ total * parts <= share[x] * One => w[x] # 0
    OBVIOUS
  <2>1. CASE total = 0
    BY <2>1 DEF One
  <2>2. CASE total # 0
    <3>1. total \in Nat \ {0} /\ share[x] \in Nat /\ share[x] <= total
      BY <1>1, <2>2
    <3>2. w[x] = (share[x] * One) \div (total * parts)
      BY <2>2
    <3> HIDE DEF w
    <3>3. QED
      BY <3>1, <3>2, Fraction
  <2>3. QED
    BY <2>1, <2>2
<1> HIDE DEF w
<1>4. ASSUME NEW t \in T
      PROVE  Of(t) \in held /\ Of(t) \in s /\ Of(t) \in SignalType /\ Of(t).ticker = t
  <2>1. \E x \in held : x.ticker = t
    OBVIOUS
  <2>2. Of(t) \in held /\ Of(t).ticker = t
    BY <2>1
  <2> HIDE DEF Of
  <2>3. held \subseteq s
    OBVIOUS
  <2> QED BY <2>2, <2>3 DEF SignalsOK
<1> HIDE DEF Of
<1>5. T \subseteq AllTickers
  <2> SUFFICES ASSUME NEW t \in T PROVE t \in AllTickers
    OBVIOUS
  <2> QED BY <1>4, SignalFields
<1>6. \A t \in T : p[t] \in Line /\ p[t].w <= One /\ p[t].sector = Of(t).sector
  <2> SUFFICES ASSUME NEW t \in T
               PROVE  p[t] \in Line /\ p[t].w <= One /\ p[t].sector = Of(t).sector
    OBVIOUS
  <2>1. w[Of(t)] \in 0 .. One /\ Of(t).sector \in ToSet(Sectors)
    BY <1>3, <1>4, SignalFields
  <2>2. One \in Nat
    BY DEF One
  <2>3. w[Of(t)] \in Nat /\ w[Of(t)] <= One
    BY <2>1, <2>2
  <2>4. p[t] = [w |-> w[Of(t)], sector |-> Of(t).sector]
    BY <1>2
  <2> QED BY <2>1, <2>3, <2>4 DEF Line
<1>7. DOMAIN p = T
  BY <1>2
<1>8. p \in [T -> Line]
  BY <1>2, <1>6
<1>9. FromSignals(p, s)
  <2>1. IsBook(p)
    BY <1>5, <1>8 DEF IsBook
  <2>2. \A t \in DOMAIN p : \E x \in s : x.ticker = t /\ p[t].sector = x.sector
    BY <1>4, <1>6, <1>7
  <2> HIDE DEF T
  <2> QED BY <1>6, <1>7, <2>1, <2>2 DEF FromSignals
<1>10. \A x \in longs : total # 0 /\ total * parts <= share[x] * One => x.ticker \in DOMAIN p
  BY <1>3, <1>7
<1>11. QED
  BY <1>9, <1>10 DEF total, p

\* The numbers of a place are compared one after the other.
LEMMA EarlierOrders ==
    /\ \A a \in Nat \X Nat \X Nat : ~Earlier(a, a)
    /\ \A a, b \in Nat \X Nat \X Nat : a = b \/ Earlier(a, b) \/ Earlier(b, a)
    /\ \A a, b, c \in Nat \X Nat \X Nat : Earlier(a, b) /\ Earlier(b, c) => Earlier(a, c)
<1>1. \A a \in Nat \X Nat \X Nat : ~Earlier(a, a)
  BY DEF Earlier
<1>2. \A a, b \in Nat \X Nat \X Nat : a = b \/ Earlier(a, b) \/ Earlier(b, a)
  BY DEF Earlier
<1>3. \A a, b, c \in Nat \X Nat \X Nat : Earlier(a, b) /\ Earlier(b, c) => Earlier(a, c)
  BY DEF Earlier
<1>4. QED
  BY <1>1, <1>2, <1>3

\* Those ahead of a signal, in a list.
AheadIn(S) == [x \in S |-> {y \in S : Ahead(y, x)}]

\* Sorting signals puts each in its own place.
LEMMA AheadOrders ==
    ASSUME NEW s, SignalsOK(s), NEW S \in SUBSET s
    PROVE  IsOrder(AheadIn(S), S)
<1>1. \A x \in S : x.score \in Int /\ x.at \in Nat \X Nat \X Nat
  <2> SUFFICES ASSUME NEW x \in S PROVE x.score \in Int /\ x.at \in Nat \X Nat \X Nat
    OBVIOUS
  <2>1. x \in SignalType
    BY DEF SignalsOK
  <2>2. x.score \in 0 .. One /\ x.at \in Nat \X Nat \X Nat
    BY <2>1, SignalFields
  <2> QED BY <2>2, LimitTypes
<1>2. \A x, y \in S : x.at = y.at => x = y
  BY DEF SignalsOK
<1>3. \A x \in S : ~Ahead(x, x)
  BY <1>1, EarlierOrders DEF Ahead
<1>4. \A x, y \in S : x = y \/ Ahead(x, y) \/ Ahead(y, x)
  BY <1>1, <1>2, EarlierOrders DEF Ahead
<1>5. \A x, y, z \in S : Ahead(x, y) /\ Ahead(y, z) => Ahead(x, z)
  <2> SUFFICES ASSUME NEW x \in S, NEW y \in S, NEW z \in S, Ahead(x, y), Ahead(y, z)
               PROVE  Ahead(x, z)
    OBVIOUS
  <2>1. Earlier(x.at, y.at) /\ Earlier(y.at, z.at) => Earlier(x.at, z.at)
    BY <1>1, EarlierOrders
  <2> QED BY <1>1, <2>1 DEF Ahead
<1>6. QED
  BY <1>3, <1>4, <1>5 DEF IsOrder, AheadIn

\* A book of MaxLongs lines gives each at least two ten thousandths.
LEMMA LongsBound == MaxLongs \in Nat /\ MaxLongs >= 1 /\ MaxLongs * 2 <= One /\ One \in Nat
<1>1. MaxLongs \in 1 .. One \div 2
  BY DecisionAssumption
<1>2. QED
  BY <1>1 DEF One

\* The long signals are some of the signals, not more than MaxLongs, and some
\* when there are any.
LEMMA LongSignalsAre ==
    ASSUME NEW s, SignalsOK(s)
    PROVE  /\ LongSignals(s) \in SUBSET s /\ IsFiniteSet(LongSignals(s))
           /\ Cardinality(LongSignals(s)) \in 0 .. MaxLongs
           /\ s # {} => LongSignals(s) # {}
<1> DEFINE long == {x \in s : x.class \in {"strong_long", "moderate_long"}}
           first == {x \in long : \A y \in long \ {x} : y.ticker = x.ticker => Ahead(x, y)}
           L == {x \in first : Cardinality({y \in first : Ahead(y, x)}) < MaxLongs}
<1>1. LongSignals(s) = L
  BY DEF LongSignals
<1>2. long = s
  BY SignalFields DEF SignalsOK
<1>3. first \in SUBSET s /\ IsFiniteSet(first) /\ IsFiniteSet(L) /\ IsFiniteSet(s)
  <2>1. first \in SUBSET s /\ L \in SUBSET s /\ IsFiniteSet(s)
    BY <1>2 DEF SignalsOK
  <2> HIDE DEF first, L
  <2> QED BY <2>1, FS_Subset
<1>4. MaxLongs \in Nat /\ MaxLongs >= 1
  BY LongsBound
<1> HIDE DEF long
<1>5. L \in SUBSET s
  BY <1>3
<1>6. L = {x \in first : Cardinality(AheadIn(first)[x]) < MaxLongs}
  BY DEF AheadIn
<1>7. s # {} => L # {}
  <2> SUFFICES ASSUME s # {} PROVE L # {}
    OBVIOUS
  <2>1. IsOrder(AheadIn(s), s)
    BY AheadOrders
  <2>2. PICK m \in s : AheadIn(s)[m] = {}
    BY <1>3, <2>1, FirstExists
  <2>3. \A y \in s : ~Ahead(y, m) /\ (y # m => Ahead(m, y))
    BY <2>1, <2>2 DEF IsOrder, AheadIn
  <2>4. m \in first /\ {y \in first : Ahead(y, m)} = {}
    BY <1>2, <1>3, <2>3
  <2>5. Cardinality({}) = 0
    BY FS_EmptySet
  <2> QED BY <1>4, <2>4, <2>5
<1> HIDE DEF L, first
<1>8. Cardinality(L) <= MaxLongs
  BY <1>3, <1>4, <1>6, AheadOrders, FirstFew
<1>9. Cardinality(L) \in Nat
  BY <1>3, FS_CardinalityType
<1>10. Cardinality(L) \in 0 .. MaxLongs
  BY <1>4, <1>8, <1>9
<1>11. QED
  BY <1>1, <1>3, <1>5, <1>7, <1>10

\* Equal parts of the long signals: every one is held, in a whole book or half.
LEMMA EqualIs ==
    ASSUME NEW s, SignalsOK(s), NEW parts \in {1, 2}
    PROVE  LET p == Proportional(LongSignals(s), Equal(LongSignals(s)), parts)
           IN  FromSignals(p, s) /\ (s # {} => DOMAIN p # {})
<1> DEFINE L == LongSignals(s)
           share == Equal(L)
           n == Cardinality(L)
           p == Proportional(L, share, parts)
<1>1. L \in SUBSET s /\ IsFiniteSet(L) /\ n \in 0 .. MaxLongs /\ (s # {} => L # {})
  BY LongSignalsAre
<1> HIDE DEF L
<1>2. share \in [L -> Nat] /\ \A x \in L : share[x] = 1
  BY DEF Equal
<1>3. Total(share) = n
  <2>1. Total(share) = SumOver(share, L)
    BY <1>2, TotalSum
  <2> HIDE DEF share
  <2> QED BY <1>1, <1>2, <2>1, SumOnes
<1> HIDE DEF share, p
<1>4. /\ FromSignals(p, s)
      /\ \A x \in L : Total(share) # 0 /\ Total(share) * parts <= share[x] * One
                       => x.ticker \in DOMAIN p
  BY <1>1, <1>2, ProportionalIs DEF p
<1>5. MaxLongs \in Nat /\ MaxLongs * 2 <= One /\ One \in Nat
  BY LongsBound
<1>6. n \in Nat /\ n * parts <= One /\ (L # {} => n # 0)
  <2>1. n \in Nat /\ n <= MaxLongs
    BY <1>1, <1>5
  <2>2. L # {} => n # 0
    BY <1>1, FS_EmptySet
  <2> HIDE DEF n
  <2>3. n * parts <= One
    BY <1>5, <2>1
  <2> QED BY <2>1, <2>2, <2>3
<1>7. s # {} => DOMAIN p # {}
  <2> SUFFICES ASSUME s # {} PROVE DOMAIN p # {}
    OBVIOUS
  <2>1. PICK x \in L : TRUE
    BY <1>1
  <2>2. share[x] * One = One
    BY <1>2, <1>5
  <2>3. Total(share) # 0 /\ Total(share) * parts <= share[x] * One
    BY <1>3, <1>6, <2>1, <2>2
  <2> QED BY <1>4, <2>3
<1>8. QED
  BY <1>4, <1>7 DEF p, share, L

\* Equal weights.
LEMMA LongBasketIs ==
    ASSUME NEW s, SignalsOK(s)
    PROVE  FromSignals(LongBasket(s), s) /\ (s # {} => DOMAIN LongBasket(s) # {})
  BY EqualIs DEF LongBasket

\* One of finitely many is at least the mean of all.
LEMMA AtLeastMean ==
    ASSUME NEW S, IsFiniteSet(S), NEW f \in [S -> Nat], Total(f) # 0,
           Cardinality(S) < One
    PROVE  \E x \in S : Total(f) <= f[x] * One
<1> DEFINE total == Total(f)
           ones == [x \in S |-> 1]
           n == Cardinality(S)
<1>1. total = SumOver(f, S) /\ total \in Nat \ {0} /\ One \in Nat /\ n \in Nat
  <2>1. total = SumOver(f, S) /\ \A x \in S : f[x] \in Nat
    BY TotalSum
  <2>2. SumOver(f, S) \in Nat
    BY <2>1, SumType
  <2>3. One \in Nat
    BY DEF One
  <2> QED BY <2>1, <2>2, <2>3, FS_CardinalityType
<1> HIDE DEF total
<1> SUFFICES ASSUME \A x \in S : f[x] * One < total
             PROVE  FALSE
  <2>1. \A x \in S : f[x] * One \in Nat
    BY <1>1
  <2> QED BY <1>1, <2>1 DEF total
<1>2. \A x \in S : f[x] \in Nat /\ ones[x] \in Nat /\ ones[x] = 1 /\ One * f[x] <= total * ones[x]
  <2> SUFFICES ASSUME NEW x \in S
               PROVE  /\ f[x] \in Nat /\ ones[x] \in Nat /\ ones[x] = 1
                      /\ One * f[x] <= total * ones[x]
    OBVIOUS
  <2>1. f[x] \in Nat /\ ones[x] = 1 /\ f[x] * One < total
    OBVIOUS
  <2> HIDE DEF ones
  <2>2. One * f[x] <= total * 1
    BY <1>1, <2>1
  <2> QED BY <2>1, <2>2
<1> HIDE DEF ones
<1>3. SumOver(ones, S) = n
  BY <1>2, SumOnes
<1>4. One * SumOver(f, S) <= total * SumOver(ones, S)
  BY <1>1, <1>2, SumScaled
<1> HIDE DEF n
<1>5. total * One <= total * n
  BY <1>1, <1>3, <1>4
<1>6. One <= n
  BY <1>1, <1>5, Cancel
<1>7. QED
  BY <1>1, <1>6 DEF n

\* Weights by score; the best score is never rounded away.
LEMMA ScoreWeightedIs ==
    ASSUME NEW s, SignalsOK(s)
    PROVE  FromSignals(ScoreWeighted(s), s) /\ (s # {} => DOMAIN ScoreWeighted(s) # {})
<1> DEFINE L == LongSignals(s)
           f == Score(L)
<1>1. L \in SUBSET s /\ IsFiniteSet(L) /\ Cardinality(L) \in 0 .. MaxLongs
  BY LongSignalsAre
<1> HIDE DEF L
<1>2. CASE \A x \in L : x.score = 0
  BY <1>2, LongBasketIs DEF ScoreWeighted, L
<1>3. CASE ~ \A x \in L : x.score = 0
  <2>1. ScoreWeighted(s) = Proportional(L, f, 1)
    BY <1>3 DEF ScoreWeighted, L
  <2>2. \A x \in L : x.score \in Nat
    <3>1. \A x \in L : x \in SignalType
      BY <1>1 DEF SignalsOK
    <3>2. \A x \in L : x.score \in 0 .. One
      BY <3>1, SignalFields
    <3>3. One \in Nat
      BY DEF One
    <3> QED BY <3>2, <3>3
  <2>3. f \in [L -> Nat] /\ \A x \in L : f[x] = x.score
    BY <2>2 DEF Score
  <2>4. Total(f) # 0
    <3>1. PICK x \in L : f[x] # 0
      BY <1>3, <2>3
    <3>2. Total(f) = SumOver(f, L) /\ \A y \in L : f[y] \in Nat
      BY <2>3, TotalSum
    <3>3. f[x] <= Total(f) /\ f[x] \in Nat
      BY <1>1, <3>2, SumPart
    <3>4. Total(f) \in Nat
      BY <1>1, <3>2, SumType
    <3> QED BY <3>1, <3>3, <3>4
  <2> HIDE DEF f
  <2>5. Cardinality(L) < One
    <3> DEFINE n == Cardinality(L)
    <3>1. n \in Nat /\ n <= MaxLongs
      BY <1>1, LongsBound
    <3> HIDE DEF n
    <3>2. n < One
      BY <3>1, LongsBound
    <3> QED BY <3>2 DEF n
  <2>6. PICK x \in L : Total(f) <= f[x] * One
    BY <1>1, <2>3, <2>4, <2>5, AtLeastMean
  <2>7. Total(f) \in Int
    <3>1. Total(f) = SumOver(f, L) /\ \A y \in L : f[y] \in Int
      BY <2>3, TotalSum
    <3> QED BY <1>1, <3>1, SumType
  <2>8. Total(f) * 1 <= f[x] * One
    BY <2>6, <2>7
  <2>9. FromSignals(Proportional(L, f, 1), s) /\ x.ticker \in DOMAIN Proportional(L, f, 1)
    BY <1>1, <2>3, <2>4, <2>8, ProportionalIs
  <2> QED BY <2>1, <2>9
<1>4. QED
  BY <1>2, <1>3

\* A builder that follows some of the signals by a measure of each.
LEMMA MeasuredIs ==
    ASSUME NEW s, SignalsOK(s), NEW longs \in SUBSET s, NEW share,
           share = [x \in longs |-> share[x]], \A x \in longs : share[x] \in Nat
    PROVE  FromSignals(Proportional(longs, share, 1), s)
<1>1. share \in [longs -> Nat]
  OBVIOUS
<1>2. QED
  BY <1>1, ProportionalIs

\* The best ETF alone.
LEMMA EtfRotationIs ==
    ASSUME NEW s, SignalsOK(s) PROVE FromSignals(EtfRotation(s), s)
<1> DEFINE etfs == {x \in s : x.kind = "etf" /\ x.class \in {"strong_long", "moderate_long"}}
           best == {x \in etfs : \A y \in etfs \ {x} : Ahead(x, y)}
<1>1. EtfRotation(s) = Proportional(best, Equal(best), 1) /\ best \in SUBSET s
  BY DEF EtfRotation
<1> HIDE DEF best
<1>2. Equal(best) = [x \in best |-> Equal(best)[x]] /\ \A x \in best : Equal(best)[x] \in Nat
  BY DEF Equal
<1>3. QED
  BY <1>1, <1>2, MeasuredIs

\* Weights by momentum.
LEMMA MomentumWeightedIs ==
    ASSUME NEW s, SignalsOK(s) PROVE FromSignals(MomentumWeighted(s), s)
<1> DEFINE longs == {x \in LongSignals(s) : MomentumRank[x.ticker] # None}
<1>1. longs \in SUBSET s
  BY LongSignalsAre
<1>2. \A x \in longs : MomentumRank[x.ticker] \in Nat
  <2>1. \A x \in longs : x.ticker \in AllTickers
    BY <1>1, SignalFields DEF SignalsOK
  <2>2. MomentumRank \in [AllTickers -> 0 .. 100 \cup {None}]
    BY UniverseAssumption
  <2> QED BY <2>1, <2>2
<1>3. MomentumWeighted(s) \in {LongBasket(s), Proportional(longs, Momentum(longs), 1)}
  BY DEF MomentumWeighted
<1> HIDE DEF longs
<1>4. /\ Momentum(longs) = [x \in longs |-> Momentum(longs)[x]]
      /\ \A x \in longs : Momentum(longs)[x] \in Nat
  BY <1>2 DEF Momentum
<1>5. QED
  BY <1>1, <1>3, <1>4, MeasuredIs, LongBasketIs

\* Weights by inverse volatility.
LEMMA RiskParityIs ==
    ASSUME NEW s, SignalsOK(s) PROVE FromSignals(RiskParity(s), s)
<1> DEFINE longs == {x \in LongSignals(s) : Volatility[x.ticker] > 0}
<1>1. longs \in SUBSET s
  BY LongSignalsAre
<1>2. \A x \in longs : 1000 \div Volatility[x.ticker] \in Nat
  <2> SUFFICES ASSUME NEW x \in longs PROVE 1000 \div Volatility[x.ticker] \in Nat
    OBVIOUS
  <2>1. x.ticker \in AllTickers /\ Volatility[x.ticker] > 0
    BY <1>1, SignalFields DEF SignalsOK
  <2>2. Volatility \in [AllTickers -> Nat \cup {None}]
    BY UniverseAssumption
  <2>3. Volatility[x.ticker] \in Nat \ {0}
    BY <2>1, <2>2 DEF None
  <2> QED BY <2>3
<1>3. RiskParity(s) = Proportional(longs, InverseVol(longs), 1)
  BY DEF RiskParity
<1> HIDE DEF longs
<1>4. /\ InverseVol(longs) = [x \in longs |-> InverseVol(longs)[x]]
      /\ \A x \in longs : InverseVol(longs)[x] \in Nat
  BY <1>2 DEF InverseVol
<1>5. QED
  BY <1>1, <1>3, <1>4, MeasuredIs

\* Every actionable signal is long, so nothing is short.
LEMMA LongShortIs ==
    ASSUME NEW s, SignalsOK(s)
    PROVE  FromSignals(LongShort(s), s) /\ (s # {} => DOMAIN LongShort(s) # {})
<1> DEFINE shorts == {x \in s : x.class \in {"avoid", "short_candidate"}}
           few == {x \in shorts : Cardinality({y \in shorts : Earlier(y.at, x.at)}) < MaxLongs}
           short == Proportional(few, Equal(few), 2)
           long == Proportional(LongSignals(s), Equal(LongSignals(s)), 2)
<1>1. LongShort(s) = [t \in DOMAIN short \cup DOMAIN long |->
                         IF t \in DOMAIN short THEN [short[t] EXCEPT !.w = -@] ELSE long[t]]
  BY DEF LongShort
<1>2. few = {}
  <2>1. \A x \in s : x.class \in {"strong_long", "moderate_long"}
    BY SignalFields DEF SignalsOK
  <2>2. shorts = {}
    BY <2>1
  <2> QED BY <2>2
<1> HIDE DEF few
<1>3. DOMAIN short = {}
  BY <1>2 DEF Proportional
<1>4. FromSignals(long, s) /\ (s # {} => DOMAIN long # {})
  BY EqualIs
<1> HIDE DEF short, long
<1>5. LongShort(s) = [t \in DOMAIN long |-> long[t]]
  BY <1>1, <1>3
<1>6. long = [t \in DOMAIN long |-> long[t]]
  BY <1>4, BookTyped DEF FromSignals
<1>7. QED
  BY <1>4, <1>5, <1>6

\* There are no more than n numbers from 1 to n.
LEMMA FewOf ==
    ASSUME NEW n \in Nat, NEW H \in SUBSET (1 .. n)
    PROVE  IsFiniteSet(H) /\ Cardinality(H) <= n
<1>1. 1 \in Int /\ n \in Int
  OBVIOUS
<1>2. IsFiniteSet(1 .. n) /\ Cardinality(1 .. n) = IF 1 > n THEN 0 ELSE n - 1 + 1
  BY <1>1, FS_Interval
<1>3. Cardinality(1 .. n) = n
  BY <1>2
<1>4. IsFiniteSet(H) /\ Cardinality(H) <= Cardinality(1 .. n)
  BY <1>2, FS_Subset
<1>5. QED
  BY <1>3, <1>4

\* The mean of four builders is from the signals when they are.
LEMMA EnsembleIs ==
    ASSUME NEW s, SignalsOK(s)
    PROVE  FromSignals(Ensemble(s), s) /\ (s # {} => DOMAIN Ensemble(s) # {})
<1> DEFINE parts == <<LongBasket(s), ScoreWeighted(s), MomentumWeighted(s), RiskParity(s)>>
           Held(t) == {k \in DOMAIN parts : t \in DOMAIN parts[k]}
           tickers == UNION {DOMAIN parts[k] : k \in DOMAIN parts}
           W(t) == [k \in Held(t) |-> parts[k][t].w]
           p == Ensemble(s)
<1>1. p = [t \in tickers |-> [w |-> Total(W(t)) \div Len(parts),
                              sector |-> parts[CHOOSE k \in Held(t) : TRUE][t].sector]]
  BY DEF Ensemble
<1>2. DOMAIN parts = 1 .. 4 /\ Len(parts) = 4
  OBVIOUS
<1>3. \A k \in DOMAIN parts : FromSignals(parts[k], s)
  <2>1. /\ FromSignals(parts[1], s) /\ FromSignals(parts[2], s)
        /\ FromSignals(parts[3], s) /\ FromSignals(parts[4], s)
    BY LongBasketIs, ScoreWeightedIs, MomentumWeightedIs, RiskParityIs
  <2>2. \A k \in DOMAIN parts : k = 1 \/ k = 2 \/ k = 3 \/ k = 4
    BY <1>2
  <2> HIDE DEF parts
  <2> QED BY <2>1, <2>2
<1>4. s # {} => tickers # {}
  <2>1. DOMAIN parts[1] \subseteq tickers
    BY <1>2
  <2>2. s # {} => DOMAIN parts[1] # {}
    BY LongBasketIs
  <2> QED BY <2>1, <2>2
<1> HIDE DEF parts, p
<1>5. ASSUME NEW t \in tickers
      PROVE  /\ t \in AllTickers /\ p[t] \in Line /\ p[t].w <= One
             /\ \E x \in s : x.ticker = t /\ p[t].sector = x.sector
  <2>1. Held(t) # {} /\ Held(t) \in SUBSET (1 .. 4)
    BY <1>2
  <2> DEFINE k == CHOOSE k \in Held(t) : TRUE
             H == Held(t)
             f == W(t)
  <2>2. k \in Held(t)
    BY <2>1
  <2>3. p[t] = [w |-> Total(f) \div 4, sector |-> parts[k][t].sector]
    BY <1>1, <1>2
  <2>4. /\ t \in AllTickers /\ parts[k][t] \in Line
        /\ \E x \in s : x.ticker = t /\ parts[k][t].sector = x.sector
    <3>1. FromSignals(parts[k], s) /\ t \in DOMAIN parts[k]
      BY <1>3, <2>2
    <3> HIDE DEF k
    <3> QED BY <3>1, BookTyped DEF FromSignals
  <2>5. \A j \in H : f[j] \in Nat /\ f[j] <= One
    <3>1. \A j \in H : f[j] = parts[j][t].w /\ FromSignals(parts[j], s) /\ t \in DOMAIN parts[j]
      BY <1>3
    <3> HIDE DEF f, H
    <3> QED BY <3>1, BookTyped DEF FromSignals
  <2>6. Total(f) = SumOver(f, H)
    BY TotalSum
  <2>7. H \in SUBSET (1 .. 4)
    BY <2>1
  <2> HIDE DEF H, f, k
  <2>8. IsFiniteSet(H) /\ Cardinality(H) <= 4
    BY <2>7, FewOf
  <2> DEFINE ones == [j \in H |-> 1]
             total == Total(f)
             n == Cardinality(H)
  <2>9. One \in Nat /\ n \in Nat /\ n <= 4
    BY <2>8, FS_CardinalityType DEF One
  <2>10. \A j \in H : ones[j] = 1 /\ ones[j] \in Nat /\ f[j] \in Nat /\ 1 * f[j] <= One * ones[j]
    <3>1. \A j \in H : f[j] \in Nat /\ f[j] <= One /\ ones[j] = 1
      BY <2>5
    <3> HIDE DEF ones
    <3> QED BY <2>9, <3>1
  <2> HIDE DEF ones
  <2>11. /\ SumOver(ones, H) = n /\ SumOver(f, H) \in Nat
         /\ 1 * SumOver(f, H) <= One * SumOver(ones, H)
    <3>1. SumOver(ones, H) = n
      BY <2>8, <2>10, SumOnes
    <3>2. SumOver(f, H) \in Nat
      BY <2>8, <2>10, SumType
    <3>3. 1 * SumOver(f, H) <= One * SumOver(ones, H)
      BY <2>8, <2>9, <2>10, SumScaled
    <3> QED BY <3>1, <3>2, <3>3
  <2>12. total \in Nat /\ 1 * total <= One * n
    BY <2>6, <2>11
  <2> HIDE DEF total, n
  <2>13. One * n <= One * 4
    BY <2>9, Product
  <2>14. total <= One * 4
    BY <2>9, <2>12, <2>13
  <2>15. total \div 4 \in Nat /\ total \div 4 <= One
    BY <2>9, <2>12, <2>14
  <2>16. p[t].w = total \div 4 /\ p[t].sector = parts[k][t].sector
    BY <2>3 DEF total
  <2>17. p[t] \in Line
    <3>1. parts[k][t].sector \in ToSet(Sectors)
      BY <2>4 DEF Line
    <3> QED BY <2>3, <2>15, <3>1 DEF Line, total
  <2> QED BY <2>4, <2>15, <2>16, <2>17
<1> HIDE DEF tickers
<1>6. DOMAIN p = tickers /\ p \in [tickers -> Line] /\ tickers \subseteq AllTickers
  <2>1. DOMAIN p = tickers
    BY <1>1
  <2>2. p = [t \in tickers |-> p[t]]
    BY <1>1
  <2> QED BY <1>5, <2>1, <2>2
<1>7. IsBook(p)
  BY <1>6 DEF IsBook
<1>8. FromSignals(p, s)
  BY <1>5, <1>6, <1>7 DEF FromSignals
<1>9. QED
  BY <1>4, <1>6, <1>8 DEF p

Reading == {"long_basket", "score_weighted", "long_short", "ensemble"}

\* Whatever the strategy, it holds what has a signal; those that read nothing but
\* the signals hold something when there is one.
LEMMA BuildStrategyIs ==
    ASSUME NEW s, SignalsOK(s), NEW name \in Builders
    PROVE  /\ FromSignals(BuildStrategy(name, s), s)
           /\ name \in Reading /\ s # {} => DOMAIN BuildStrategy(name, s) # {}
<1>1. CASE name = "long_basket"
  BY <1>1, LongBasketIs DEF BuildStrategy
<1>2. CASE name = "score_weighted"
  BY <1>2, ScoreWeightedIs DEF BuildStrategy
<1>3. CASE name = "etf_rotation"
  BY <1>3, EtfRotationIs DEF BuildStrategy, Reading
<1>4. CASE name = "long_short"
  BY <1>4, LongShortIs DEF BuildStrategy
<1>5. CASE name = "momentum"
  BY <1>5, MomentumWeightedIs DEF BuildStrategy, Reading
<1>6. CASE name = "risk_parity"
  BY <1>6, RiskParityIs DEF BuildStrategy, Reading
<1>7. CASE name = "ensemble"
  BY <1>7, EnsembleIs DEF BuildStrategy
<1>8. CASE name = "cash"
  <2>1. BuildStrategy(name, s) = Cash
    BY <1>8 DEF BuildStrategy
  <2>2. Cash \in [{} -> Line] /\ DOMAIN Cash = {}
    BY DEF Cash
  <2>3. FromSignals(Cash, s)
    BY <2>2 DEF FromSignals, IsBook
  <2> QED BY <1>8, <2>1, <2>3 DEF Reading
<1>9. QED
  BY <1>1, <1>2, <1>3, <1>4, <1>5, <1>6, <1>7, <1>8 DEF Builders

-----------------------------------------------------------------------------
(* Scores *)

Percent == 0 .. 100
Measured == Percent \cup {None}
Heard == Answers \cup {Absent}

\* The evidence of a sector, as far as its scores read it.
CardsOK(cards) ==
    /\ IsFiniteSet(cards)
    /\ \A c \in cards : c.dir \in Directions /\ c.conf \in Percent /\ c.rel \in Percent

\* Unit clamps.
LEMMA UnitIs == \A x \in Int : Unit(x) \in Percent
  BY DEF Unit, AtLeast, AtMost, Percent

\* An answer, or none, has a confidence in range.
LEMMA AnswerIs ==
    ASSUME NEW a \in Heard
    PROVE  /\ a.conf \in Percent /\ a.missing \in BOOLEAN
           /\ a # Absent => a.dir \in Directions
           /\ a.dir \in Directions \cup {"none"}
           /\ a = Absent => a.conf = 0
<1>1. a \in Answers =>
        a.conf \in Percent /\ a.missing \in BOOLEAN /\ a.dir \in Directions
  BY DEF Answers, Percent
<1>2. a = Absent => a.conf = 0 /\ a.missing = FALSE /\ a.dir = "none"
  BY DEF Absent
<1>3. a \in Answers => a # Absent
  BY <1>1, <1>2 DEF Directions
<1>4. CASE a \in Answers
  BY <1>1, <1>3, <1>4
<1>5. CASE a = Absent
  <2>1. 0 \in Percent
    BY DEF Percent
  <2> QED BY <1>2, <1>5, <2>1
<1>6. QED
  BY <1>4, <1>5 DEF Heard

\* A mean lies where the values lie.
LEMMA MeanIs ==
    ASSUME NEW f, IsFiniteSet(DOMAIN f), \A x \in DOMAIN f : f[x] \in Percent
    PROVE  Mean(f) \in Measured /\ (DOMAIN f # {} => Mean(f) \in Percent)
<1> DEFINE S == DOMAIN f
           total == Total(f)
           n == Cardinality(S)
<1>1. CASE S = {}
  BY <1>1 DEF Mean, Measured
<1>2. CASE S # {}
  <2>1. n \in Nat \ {0}
    BY <1>2, FS_CardinalityType, FS_EmptySet
  <2>2. total = SumOver(f, S) /\ \A x \in S : f[x] \in Nat /\ f[x] <= 100
    BY TotalSum DEF Percent
  <2> DEFINE ones == [x \in S |-> 1]
  <2>3. \A x \in S : ones[x] = 1
    OBVIOUS
  <2>4. Mean(f) = total \div n
    BY <1>2 DEF Mean
  <2> HIDE DEF S, total, ones
  <2>5. \A x \in S : f[x] \in Nat /\ ones[x] \in Nat /\ 1 * f[x] <= 100 * ones[x]
    BY <2>2, <2>3
  <2>6. IsFiniteSet(S)
    BY DEF S
  <2>7. SumOver(ones, S) = n /\ SumOver(f, S) \in Nat
    BY <2>2, <2>3, <2>6, SumType, SumOnes DEF n
  <2>8. 1 * SumOver(f, S) <= 100 * SumOver(ones, S)
    BY <2>5, <2>6, SumScaled
  <2> HIDE DEF n
  <2>9. total \in Nat /\ total <= 100 * n
    BY <2>2, <2>7, <2>8
  <2> DEFINE v == total \div n
  <2>10. v \in Nat /\ n * v <= total
    BY <2>1, <2>9, Quotient
  <2> HIDE DEF v
  <2>11. n * v <= n * 100
    <3>1. n * v \in Nat /\ n * 100 \in Nat
      BY <2>1, <2>10
    <3> QED BY <2>1, <2>9, <2>10, <3>1
  <2>12. v <= 100
    BY <2>1, <2>10, <2>11, Cancel
  <2>13. Mean(f) \in Percent
    BY <2>4, <2>10, <2>12 DEF v, Percent
  <2> QED BY <2>13 DEF Measured
<1>3. QED
  BY <1>1, <1>2

\* The mean confidence of some cards.
LEMMA ConfidenceIs ==
    ASSUME NEW cards, CardsOK(cards) PROVE Mean(Confidence(cards)) \in Measured
<1>1. DOMAIN Confidence(cards) = cards /\ \A c \in cards : Confidence(cards)[c] \in Percent
  BY DEF Confidence, CardsOK
<1>2. IsFiniteSet(cards)
  BY DEF CardsOK
<1>3. QED
  BY <1>1, <1>2, MeanIs

\* The mean quality of some cards.
LEMMA QualityIs ==
    ASSUME NEW cards, CardsOK(cards) PROVE Mean(Quality(cards)) \in Measured
<1>1. ASSUME NEW c \in cards PROVE (c.conf * c.rel) \div 100 \in Percent
  <2>1. c.conf \in Nat /\ c.rel \in Nat /\ c.conf <= 100 /\ c.rel <= 100
    BY DEF CardsOK, Percent
  <2> DEFINE x == c.conf * c.rel
  <2>2. c.conf * c.rel <= c.conf * 100 /\ x \in Nat
    BY <2>1, Product
  <2> HIDE DEF x
  <2>3. x \in Nat /\ x <= 10000
    BY <2>1, <2>2 DEF x
  <2>4. x \div 100 \in Percent
    BY <2>3 DEF Percent
  <2> QED BY <2>4 DEF x
<1>2. DOMAIN Quality(cards) = cards /\ \A c \in cards : Quality(cards)[c] \in Percent
  BY <1>1 DEF Quality
<1>3. IsFiniteSet(cards)
  BY DEF CardsOK
<1>4. QED
  BY <1>2, <1>3, MeanIs

\* Some of the cards are cards.
LEMMA SomeCards ==
    ASSUME NEW cards, CardsOK(cards), NEW some \in SUBSET cards PROVE CardsOK(some)
  BY FS_Subset DEF CardsOK

\* The component measured by build_thesis.
LEMMA ThesisConfidenceIs ==
    ASSUME NEW cards, CardsOK(cards), NEW a \in Heard
    PROVE  ThesisConfidence(cards, a) \in Measured
<1>1. Mean(Confidence(cards)) \in Int /\ a.conf \in Int
  BY ConfidenceIs, AnswerIs DEF Measured, Percent, None
<1> DEFINE m == Mean(Confidence(cards))
<1>2. Unit(a.conf) \in Percent /\ AtLeast(0, m) \in Int
  BY <1>1, UnitIs DEF AtLeast
<1> HIDE DEF m
<1>3. Unit(AtLeast(0, m)) \in Percent
  BY <1>2, UnitIs
<1>4. QED
  BY <1>2, <1>3 DEF ThesisConfidence, m, Measured

\* The component measured by supply_chain_confidence.
LEMMA SupplyChainIs ==
    ASSUME NEW cards, CardsOK(cards), NEW a \in Heard
    PROVE  SupplyChain(cards, a) \in Measured
<1> DEFINE some == {c \in cards : c.cat \in {"supply_bottleneck", "demand_signal"}}
           base == Mean(Confidence(some))
           view == IF a.dir # "negative" THEN a.conf ELSE a.conf \div 2
<1>1. base \in Measured
  <2>1. some \in SUBSET cards
    OBVIOUS
  <2> HIDE DEF some
  <2> QED BY <2>1, SomeCards, ConfidenceIs
<1>2. view \in Percent
  <2>1. a.conf \in Percent
    BY AnswerIs
  <2> QED BY <2>1 DEF Percent
<1>3. SupplyChain(cards, a) =
        IF a = Absent THEN base ELSE IF base = None THEN view ELSE (base + view) \div 2
  BY DEF SupplyChain
<1> HIDE DEF base, view
<1>4. base # None => (base + view) \div 2 \in Percent
  <2>1. base # None => base \in Percent
    BY <1>1 DEF Measured
  <2> QED BY <1>2, <2>1 DEF Percent
<1>5. QED
  BY <1>1, <1>2, <1>3, <1>4 DEF Measured

\* The components measured by market_confirmation and liquidity.
LEMMA SectorRankIs ==
    ASSUME NEW s \in ToSet(Sectors), NEW rank \in [AllTickers -> 0 .. 100 \cup {None}]
    PROVE  SectorRank(s, rank) \in Measured
<1> DEFINE measured == {t \in ToSet(SecuritiesOf[s]) : rank[t] # None}
<1>1. SecuritiesOf[s] \in Seq(AllTickers)
  BY UniverseAssumption
<1>2. measured \subseteq AllTickers
  BY <1>1 DEF ToSet
<1>3. IsFiniteSet(measured)
  BY <1>2, UniverseAssumption, FS_Subset
<1>4. \A t \in measured : rank[t] \in Percent
  BY <1>2 DEF Percent
<1>5. SectorRank(s, rank) = Mean(Restrict(rank, measured))
  BY DEF SectorRank
<1> HIDE DEF measured
<1>6. /\ DOMAIN Restrict(rank, measured) = measured
      /\ \A t \in measured : Restrict(rank, measured)[t] \in Percent
  BY <1>4 DEF Restrict
<1>7. QED
  BY <1>3, <1>5, <1>6, MeanIs

\* The component measured by crowding_risk.
LEMMA CrowdingIs == \A m \in Measured : Crowding(m) \in Measured
<1> SUFFICES ASSUME NEW m \in Measured PROVE Crowding(m) \in Measured
  OBVIOUS
<1>1. 2 * (m - 50) \in Int
  BY DEF Measured, Percent, None
<1>2. Unit(2 * (m - 50)) \in Percent
  BY <1>1, UnitIs
<1>3. QED
  BY <1>2 DEF Crowding, Measured

\* The component measured by valuation_risk.
LEMMA ValuationRiskIs ==
    ASSUME NEW a \in Heard PROVE ValuationRisk(a) \in Measured
<1>1. a.conf \in Percent /\ (a # Absent => a.dir \in Directions)
  BY AnswerIs
<1>2. CASE a = Absent
  BY <1>2 DEF ValuationRisk, Absent, Measured
<1>3. CASE a # Absent /\ a.dir = "negative"
  BY <1>1, <1>3 DEF ValuationRisk, Measured
<1>4. CASE a # Absent /\ a.dir = "positive"
  BY <1>1, <1>4 DEF ValuationRisk, Measured, Percent
<1>5. CASE a # Absent /\ a.dir = "neutral"
  BY <1>1, <1>5 DEF ValuationRisk, Measured, Percent
<1>6. QED
  BY <1>1, <1>2, <1>3, <1>4, <1>5 DEF Directions

\* The component measured by macro_alignment.
LEMMA MacroAlignmentIs ==
    ASSUME NEW cards, CardsOK(cards), NEW a \in Heard
    PROVE  MacroAlignment(a, cards) \in Measured
<1>1. a.conf \in Percent /\ (a # Absent => a.dir \in Directions)
  BY AnswerIs
<1>2. CASE a # Absent /\ a.dir = "positive"
  BY <1>1, <1>2 DEF MacroAlignment, Measured
<1>3. CASE a # Absent /\ a.dir = "negative"
  BY <1>1, <1>3 DEF MacroAlignment, Measured, Percent
<1>4. CASE a # Absent /\ a.dir = "neutral"
  BY <1>1, <1>4 DEF MacroAlignment, Measured, Percent
<1>5. CASE a = Absent
  <2> DEFINE of == {c \in cards : c.cat = "macro_signal"}
             signed(c) == CASE c.dir = "positive" -> c.conf [] c.dir = "negative" -> -c.conf
                            [] c.dir = "neutral" -> 0
             f == [c \in of |-> signed(c)]
             x == Total(f) \div (2 * Cardinality(of))
  <2>1. MacroAlignment(a, cards) = IF of = {} THEN None ELSE Unit(50 + x)
    BY <1>5 DEF MacroAlignment, Absent
  <2>2. of # {} => 50 + x \in Int
    <3> SUFFICES ASSUME of # {} PROVE 50 + x \in Int
      OBVIOUS
    <3>1. CardsOK(of) /\ DOMAIN f = of
      BY SomeCards
    <3>2. ASSUME NEW c \in of PROVE f[c] \in Int
      <4>1. c.dir \in Directions /\ c.conf \in Percent
        BY DEF CardsOK
      <4> QED BY <4>1 DEF Directions, Percent
    <3> HIDE DEF f, of
    <3>3. IsFiniteSet(of) /\ Total(f) = SumOver(f, of)
      BY <3>1, TotalSum DEF CardsOK
    <3>4. Total(f) \in Int
      BY <3>2, <3>3, SumType
    <3>5. Cardinality(of) \in Nat \ {0}
      BY <3>3, FS_CardinalityType, FS_EmptySet
    <3> QED BY <3>4, <3>5
  <2> HIDE DEF of, x
  <2>3. of # {} => Unit(50 + x) \in Percent
    BY <2>2, UnitIs
  <2> QED BY <2>1, <2>3 DEF Measured
<1>6. QED
  BY <1>1, <1>2, <1>3, <1>4, <1>5 DEF Directions

\* What the evidence may be.
EvidenceOK(e) ==
    DOMAIN e = ToSet(Sectors) /\ \A s \in ToSet(Sectors) : e[s] \in CardSets[s]

\* The evidence of a sector is cards.
LEMMA EvidenceCards ==
    ASSUME NEW s \in ToSet(Sectors), EvidenceOK(evidence) PROVE CardsOK(evidence[s])
<1>1. s \in DOMAIN CardSets
  <2>1. Sectors \in Seq(DOMAIN CardSets)
    BY UniverseAssumption
  <2> QED BY <2>1 DEF ToSet
<1>2. evidence[s] \in CardSets[s]
  BY DEF EvidenceOK
<1>3. QED
  BY <1>1, <1>2, UniverseAssumption DEF CardsOK, Percent

\* No component is outside its range, so no score is refused.
LEMMA ComponentsAre ==
    ASSUME EvidenceOK(evidence), macro \in Heard, NEW s \in ToSet(Sectors), NEW d,
           d.sector \in Heard, d.supply_chain \in Heard, d.valuation \in Heard,
           NEW score \in Percent, NEW n \in ComponentNames
    PROVE  Components(s, d, score)[n] \in Measured
<1> DEFINE c == Components(s, d, score)
<1>1. CardsOK(evidence[s])
  BY EvidenceCards
<1>2. SectorRank(s, MomentumRank) \in Measured /\ SectorRank(s, VolumeRank) \in Measured
  <2>1. MomentumRank \in [AllTickers -> 0 .. 100 \cup {None}]
        /\ VolumeRank \in [AllTickers -> 0 .. 100 \cup {None}]
    BY UniverseAssumption
  <2> QED BY <2>1, SectorRankIs
<1>3. c = [trend_strength |-> ThesisConfidence(evidence[s], d.sector),
           evidence_quality |-> Mean(Quality(evidence[s])),
           supply_chain_confidence |-> SupplyChain(evidence[s], d.supply_chain),
           market_confirmation |-> SectorRank(s, MomentumRank),
           fundamental_confirmation |-> None,
           valuation_risk |-> ValuationRisk(d.valuation),
           crowding_risk |-> Crowding(SectorRank(s, MomentumRank)),
           liquidity |-> SectorRank(s, VolumeRank),
           macro_alignment |-> MacroAlignment(macro, evidence[s]),
           validation_strength |-> score]
  BY DEF Components
<1> HIDE DEF c
<1>4. c.trend_strength \in Measured /\ c.evidence_quality \in Measured
  BY <1>1, <1>3, ThesisConfidenceIs, QualityIs
<1>5. c.supply_chain_confidence \in Measured /\ c.market_confirmation \in Measured
  BY <1>1, <1>2, <1>3, SupplyChainIs
<1>6. c.fundamental_confirmation \in Measured /\ c.valuation_risk \in Measured
  BY <1>3, ValuationRiskIs DEF Measured
<1>7. c.crowding_risk \in Measured /\ c.liquidity \in Measured
  BY <1>2, <1>3, CrowdingIs
<1>8. c.macro_alignment \in Measured /\ c.validation_strength \in Measured
  BY <1>1, <1>3, MacroAlignmentIs DEF Measured
<1>9. QED
  BY <1>4, <1>5, <1>6, <1>7, <1>8 DEF ComponentNames, c

\* There are finitely many components.
LEMMA NamesFinite == IsFiniteSet(DOMAIN Weight)
<1> DEFINE a == {"trend_strength"} \cup {"evidence_quality"}
           b == a \cup {"supply_chain_confidence"}
           c == b \cup {"market_confirmation"}
           d == c \cup {"fundamental_confirmation"}
           e == d \cup {"valuation_risk"}
           f == e \cup {"crowding_risk"}
           g == f \cup {"liquidity"}
           h == g \cup {"macro_alignment"}
           i == h \cup {"validation_strength"}
<1>1. i = ComponentNames
  BY DEF ComponentNames
<1>2. IsFiniteSet(a)
  BY FS_Singleton, FS_AddElement
<1>3. IsFiniteSet(b)
  <2> HIDE DEF a
  <2> QED BY <1>2, FS_AddElement
<1>4. IsFiniteSet(c)
  <2> HIDE DEF b
  <2> QED BY <1>3, FS_AddElement
<1>5. IsFiniteSet(d)
  <2> HIDE DEF c
  <2> QED BY <1>4, FS_AddElement
<1>6. IsFiniteSet(e)
  <2> HIDE DEF d
  <2> QED BY <1>5, FS_AddElement
<1>7. IsFiniteSet(f)
  <2> HIDE DEF e
  <2> QED BY <1>6, FS_AddElement
<1>8. IsFiniteSet(g)
  <2> HIDE DEF f
  <2> QED BY <1>7, FS_AddElement
<1>9. IsFiniteSet(h)
  <2> HIDE DEF g
  <2> QED BY <1>8, FS_AddElement
<1>10. IsFiniteSet(i)
  <2> HIDE DEF h
  <2> QED BY <1>9, FS_AddElement
<1> HIDE DEF i
<1>11. DOMAIN Weight \in SUBSET ComponentNames
  BY DecisionAssumption
<1>12. QED
  BY <1>1, <1>10, <1>11, FS_Subset

\* Whatever is missing, subtracted or weighted, the composite is within one.
LEMMA CompositeIs ==
    ASSUME NEW c, \A n \in ComponentNames : c[n] \in Measured
    PROVE  Composite(c) \in 0 .. One
<1> DEFINE present == {n \in DOMAIN Weight : c[n] # None}
           weight == [n \in present |-> Weight[n]]
           value == [n \in present |->
                        (IF n \in RiskSubtracted THEN -1 ELSE 1) * Weight[n] * c[n]]
           mass == Total(weight)
           sum == Total(value)
           x == (sum * (100 + mass)) \div (2 * mass)
<1>1. Composite(c) = IF mass <= 0 THEN 0 ELSE AtLeast(0, AtMost(One, x))
  BY DEF Composite
<1>2. DOMAIN Weight \subseteq ComponentNames /\ \A n \in DOMAIN Weight : Weight[n] \in Int
  BY DecisionAssumption
<1>3. IsFiniteSet(present)
  BY NamesFinite, FS_Subset
<1>4. \A n \in present : c[n] \in Int /\ Weight[n] \in Int
  BY <1>2 DEF Measured, Percent, None
<1>5. \A n \in present : weight[n] \in Int /\ value[n] \in Int
  BY <1>4
<1>6. mass = SumOver(weight, present) /\ sum = SumOver(value, present)
  BY TotalSum
<1> HIDE DEF weight, value, present
<1>7. mass \in Int /\ sum \in Int
  BY <1>3, <1>5, <1>6, SumType
<1> HIDE DEF mass, sum
<1>8. mass > 0 => x \in Int
  <2> SUFFICES ASSUME mass > 0 PROVE x \in Int
    OBVIOUS
  <2>1. sum * (100 + mass) \in Int /\ 2 * mass \in Nat \ {0}
    BY <1>7
  <2> DEFINE a == sum * (100 + mass)
             b == 2 * mass
  <2> HIDE DEF a, b
  <2>2. a \div b \in Int
    BY <2>1 DEF a, b
  <2> QED BY <2>2 DEF a, b
<1> HIDE DEF x
<1>9. One \in Nat
  BY DEF One
<1>10. x \in Int => AtLeast(0, AtMost(One, x)) \in 0 .. One
  BY <1>9 DEF AtLeast, AtMost
<1>11. 0 \in 0 .. One
  BY <1>9
<1>12. QED
  BY <1>1, <1>7, <1>8, <1>10, <1>11

SubType ==
    [sector : ToSet(Sectors), status : Statuses, leakage : BOOLEAN, composite : 0 .. One]

\* The debate ends in one of the statuses.
LEMMA StatusIs ==
    ASSUME NEW j \in Heard, NEW l \in BOOLEAN, NEW m \in BOOLEAN
    PROVE  DecideStatus(j, l, m) \in Statuses
<1>1. j # Absent => j.dir \in Directions
  BY AnswerIs
<1>2. CASE l
  BY <1>2 DEF DecideStatus, Statuses
<1>3. CASE ~l /\ j = Absent
  BY <1>3 DEF DecideStatus, Statuses, Absent
<1>4. CASE ~l /\ j # Absent /\ j.dir = "negative"
  BY <1>4 DEF DecideStatus, Statuses
<1>5. CASE ~l /\ j # Absent /\ j.dir \in {"positive", "neutral"}
  <2> DEFINE v == IF j.conf < 40 \/ m THEN "needs_more_evidence"
                  ELSE IF j.dir = "positive" /\ j.conf >= 60 THEN "approved" ELSE "watchlist"
  <2>1. v \in Statuses
    BY DEF Statuses
  <2>2. DecideStatus(j, l, m) = v
    BY <1>5 DEF DecideStatus
  <2> QED BY <2>1, <2>2
<1>6. QED
  BY <1>1, <1>2, <1>3, <1>4, <1>5 DEF Directions

-----------------------------------------------------------------------------
(* Signals *)

\* The factor of a company is in range or not measured.
LEMMA CompanyFactorIs ==
    ASSUME NEW t \in AllTickers, NEW cards, CardsOK(cards)
    PROVE  CompanyFactor(t, cards) \in Measured
<1> DEFINE own == {c \in cards : t \in c.securities}
           parts == <<Mean(Quality(own)), MomentumRank[t], VolumeRank[t]>>
           some == {k \in DOMAIN parts : parts[k] # None}
           f == Restrict(parts, some)
<1>1. own \in SUBSET cards
  OBVIOUS
<1>2. CompanyFactor(t, cards) = Mean(f)
  BY DEF CompanyFactor
<1> HIDE DEF own
<1>3. Mean(Quality(own)) \in Measured /\ MomentumRank[t] \in Measured /\ VolumeRank[t] \in Measured
  <2>1. Mean(Quality(own)) \in Measured
    BY <1>1, SomeCards, QualityIs
  <2>2. MomentumRank \in [AllTickers -> 0 .. 100 \cup {None}]
        /\ VolumeRank \in [AllTickers -> 0 .. 100 \cup {None}]
    BY UniverseAssumption
  <2> QED BY <2>1, <2>2 DEF Measured, Percent
<1>4. some \in SUBSET (1 .. 3)
  OBVIOUS
<1>5. \A k \in some : parts[k] \in Percent
  BY <1>3 DEF Measured
<1>6. IsFiniteSet(some)
  <2> HIDE DEF some
  <2> QED BY <1>4, FewOf
<1>7. DOMAIN f = some /\ \A k \in some : f[k] \in Percent
  <2> HIDE DEF parts, some
  <2> QED BY <1>5 DEF Restrict
<1> HIDE DEF f, some
<1>8. Mean(f) \in Measured
  BY <1>6, <1>7, MeanIs
<1>9. QED
  BY <1>2, <1>8

\* So is the one that counts, of the last of its sectors that measures it.
LEMMA FactorIs ==
    ASSUME EvidenceOK(evidence), subs \in Seq(SubType), NEW n \in DOMAIN subs,
           NEW t \in ToSet(SecuritiesOf[subs[n].sector])
    PROVE  Factor(t) \in Percent
<1> DEFINE of == {i \in DOMAIN subs : t \in ToSet(SecuritiesOf[subs[i].sector])}
           f == [i \in of |-> CompanyFactor(t, evidence[subs[i].sector])]
           measured == {i \in of : f[i] # None}
           last == CHOOSE i \in measured : \A j \in measured : j <= i
           later == [i \in measured |-> {j \in measured : i < j}]
<1>1. of \in SUBSET (1 .. Len(subs)) /\ n \in of /\ Len(subs) \in Nat
  OBVIOUS
<1>2. \A i \in of : subs[i].sector \in ToSet(Sectors)
  <2>1. \A i \in of : subs[i] \in SubType
    OBVIOUS
  <2> HIDE DEF of
  <2> QED BY <2>1 DEF SubType
<1>3. Factor(t) = IF measured = {} THEN 50 ELSE f[last]
  BY DEF Factor
<1>4. t \in AllTickers
  <2>1. subs[n].sector \in ToSet(Sectors)
    BY <1>1, <1>2
  <2>2. SecuritiesOf[subs[n].sector] \in Seq(AllTickers)
    BY <2>1, UniverseAssumption
  <2> QED BY <2>2 DEF ToSet
<1> HIDE DEF of
<1>5. \A i \in of : f[i] \in Measured
  BY <1>2, <1>4, EvidenceCards, CompanyFactorIs
<1>6. measured \in SUBSET (1 .. Len(subs)) /\ \A i \in measured : f[i] \in Percent
  BY <1>1, <1>5 DEF Measured
<1> HIDE DEF f, measured
<1>7. CASE measured = {}
  BY <1>3, <1>7 DEF Percent
<1>8. CASE measured # {}
  <2>1. IsOrder(later, measured)
    <3>1. measured \in SUBSET Int
      BY <1>1, <1>6
    <3>2. \A i \in measured : later[i] = {j \in measured : i < j}
      OBVIOUS
    <3>3. later \in [measured -> SUBSET measured]
      OBVIOUS
    <3> HIDE DEF last, later
    <3>4. ASSUME NEW x \in measured
          PROVE  x \notin later[x] /\ \A y \in later[x] : later[y] \subseteq later[x]
      <4>1. \A y \in later[x] : y \in measured /\ y \in Int /\ x < y
        BY <3>1, <3>2
      <4>2. \A y \in later[x] : \A z \in later[y] : z \in measured /\ z \in Int /\ y < z
        BY <3>1, <3>2, <4>1
      <4>3. x \in Int
        BY <3>1
      <4>4. \A y \in later[x] : \A z \in later[y] : x < z
        BY <4>1, <4>2, <4>3
      <4>5. x \notin later[x]
        BY <4>1, <4>3
      <4> QED BY <3>2, <4>2, <4>4, <4>5
    <3>5. \A x, y \in measured : x = y \/ x \in later[y] \/ y \in later[x]
      BY <3>1, <3>2
    <3> QED BY <3>3, <3>4, <3>5 DEF IsOrder
  <2>2. IsFiniteSet(measured)
    BY <1>1, <1>6, FewOf
  <2>3. PICK m \in measured : later[m] = {}
    <3> HIDE DEF later
    <3> QED BY <1>8, <2>1, <2>2, FirstExists
  <2>4. \A j \in measured : j <= m
    BY <1>1, <1>6, <2>3
  <2>5. last \in measured
    BY <2>4
  <2> HIDE DEF last
  <2> QED BY <1>3, <1>6, <1>8, <2>5
<1>9. QED
  BY <1>7, <1>8

\* A score is the composite reduced by what the company lacks.
LEMMA ScoreIs ==
    ASSUME NEW c \in 0 .. One, NEW f \in Percent
    PROVE  (c * (100 + f)) \div 200 \in 0 .. One
<1>1. One \in Nat /\ c \in Nat /\ c <= One /\ f \in Nat /\ 100 + f <= 200
  BY DEF One, Percent
<1> DEFINE n == c * (100 + f)
<1>2. c * (100 + f) <= c * 200 /\ n \in Nat
  <2>1. 100 + f \in Nat
    BY <1>1
  <2> QED BY <1>1, <2>1, Product
<1> HIDE DEF n
<1>3. n \in Nat /\ n <= c * 200
  BY <1>2 DEF n
<1>4. n \div 200 \in Nat /\ n \div 200 <= c
  BY <1>1, <1>3
<1>5. n \div 200 \in 0 .. One
  BY <1>1, <1>4
<1>6. QED
  BY <1>5 DEF n

\* The signals of a selected submission, one for each place in its two lists.
LEMMA OfOne ==
    ASSUME EvidenceOK(evidence), subs \in Seq(SubType), NEW n \in DOMAIN subs, Selectable(subs[n])
    PROVE  /\ SecuritySignals(n) \subseteq SignalType /\ EtfSignals(n) \subseteq SignalType
           /\ IsFiniteSet(SecuritySignals(n)) /\ IsFiniteSet(EtfSignals(n))
           /\ \A x \in SecuritySignals(n) \cup EtfSignals(n) : x.at[1] = n
           /\ \A x, y \in SecuritySignals(n) \cup EtfSignals(n) : x.at = y.at => x = y
<1> DEFINE sub == subs[n]
           S == SecuritiesOf[sub.sector]
           E == EtfsOf[sub.sector]
           Sec(k) == [ticker |-> S[k], kind |-> "security", sector |-> sub.sector,
                      class |-> SectorClass(sub), at |-> <<n, 1, k>>,
                      score |-> (sub.composite * (100 + Factor(S[k]))) \div 200]
           Etf(k) == [ticker |-> E[k], kind |-> "etf", sector |-> sub.sector,
                      class |-> SectorClass(sub), at |-> <<n, 2, k>>, score |-> sub.composite]
           K == {k \in DOMAIN S : S[k] \in DOMAIN checks /\ checks[S[k]]}
           J == {k \in DOMAIN E : E[k] \in DOMAIN checks => checks[E[k]]}
<1>1. SecuritySignals(n) = {Sec(k) : k \in K} /\ EtfSignals(n) = {Etf(k) : k \in J}
  BY DEF SecuritySignals, EtfSignals
<1>2. sub \in SubType /\ n \in Nat
  OBVIOUS
<1>3. sub.sector \in ToSet(Sectors) /\ sub.composite \in 0 .. One
  BY <1>2 DEF SubType
<1>4. SectorClass(sub) \in {"strong_long", "moderate_long"}
  BY DEF SectorClass, Selectable
<1>5. S \in Seq(AllTickers) /\ E \in Seq(AllTickers)
  BY <1>3, UniverseAssumption
<1>6. \A k \in DOMAIN S : S[k] \in AllTickers /\ k \in Nat /\ S[k] \in ToSet(S)
  BY <1>5 DEF ToSet
<1>7. \A k \in DOMAIN E : E[k] \in AllTickers /\ k \in Nat
  BY <1>5
<1>8. \A k \in DOMAIN S : (sub.composite * (100 + Factor(S[k]))) \div 200 \in 0 .. One
  BY <1>3, <1>6, FactorIs, ScoreIs
<1>9. DOMAIN S = 1 .. Len(S) /\ DOMAIN E = 1 .. Len(E) /\ Len(S) \in Nat /\ Len(E) \in Nat
  BY <1>5
<1>10. IsFiniteSet(K) /\ IsFiniteSet(J)
  <2>1. K \in SUBSET (1 .. Len(S)) /\ J \in SUBSET (1 .. Len(E))
    BY <1>9
  <2> HIDE DEF K, J
  <2> QED BY <1>9, <2>1, FewOf
<1>11. K \subseteq DOMAIN S /\ J \subseteq DOMAIN E
  OBVIOUS
<1> HIDE DEF S, E, K, J, sub
<1>12. \A k \in K : Sec(k) \in SignalType
  BY <1>2, <1>3, <1>4, <1>6, <1>8, <1>11 DEF SignalType
<1>13. \A k \in J : Etf(k) \in SignalType
  BY <1>2, <1>3, <1>4, <1>7, <1>11 DEF SignalType
<1>14. IsFiniteSet({Sec(k) : k \in K})
  <2> DEFINE f == [k \in K |-> Sec(k)]
             T == {Sec(k) : k \in K}
  <2>1. f \in Surjection(K, T)
    BY DEF Surjection
  <2> HIDE DEF f, T
  <2>2. IsFiniteSet(T)
    BY <1>10, <2>1, FS_Surjection
  <2> QED BY <2>2 DEF T
<1>15. IsFiniteSet({Etf(k) : k \in J})
  <2> DEFINE f == [k \in J |-> Etf(k)]
             T == {Etf(k) : k \in J}
  <2>1. f \in Surjection(J, T)
    BY DEF Surjection
  <2> HIDE DEF f, T
  <2>2. IsFiniteSet(T)
    BY <1>10, <2>1, FS_Surjection
  <2> QED BY <2>2 DEF T
<1>16. /\ \A x \in SecuritySignals(n) : \E k \in K : x = Sec(k) /\ x.at = <<n, 1, k>>
       /\ \A x \in EtfSignals(n) : \E k \in J : x = Etf(k) /\ x.at = <<n, 2, k>>
  BY <1>1
<1>17. \A x \in SecuritySignals(n) \cup EtfSignals(n) : x.at[1] = n
  BY <1>16
<1>18. \A x, y \in SecuritySignals(n) \cup EtfSignals(n) : x.at = y.at => x = y
  <2> HIDE DEF Sec, Etf
  <2>1. \A k, j : /\ <<n, 1, k>> = <<n, 1, j>> => k = j
                  /\ <<n, 2, k>> = <<n, 2, j>> => k = j
                  /\ <<n, 1, k>> # <<n, 2, j>>
    OBVIOUS
  <2> QED BY <1>16, <2>1
<1>19. QED
  BY <1>1, <1>12, <1>13, <1>14, <1>15, <1>17, <1>18

\* The signals of a run are finitely many, each in a place of its own.
LEMMA ActionableAre ==
    ASSUME EvidenceOK(evidence), subs \in Seq(SubType)
    PROVE  SignalsOK(ActionableSignals)
<1> DEFINE N == {k \in DOMAIN subs : Selectable(subs[k])}
           Of(k) == SecuritySignals(k) \cup EtfSignals(k)
           A == {Of(k) : k \in N}
<1>1. ActionableSignals = UNION A
  BY DEF ActionableSignals
<1>2. \A k \in N : /\ Of(k) \subseteq SignalType /\ IsFiniteSet(Of(k))
                   /\ \A x \in Of(k) : x.at[1] = k
                   /\ \A x, y \in Of(k) : x.at = y.at => x = y
  <2> SUFFICES ASSUME NEW k \in N
               PROVE  /\ Of(k) \subseteq SignalType /\ IsFiniteSet(Of(k))
                      /\ \A x \in Of(k) : x.at[1] = k
                      /\ \A x, y \in Of(k) : x.at = y.at => x = y
    OBVIOUS
  <2> QED BY OfOne, FS_Union
<1>3. IsFiniteSet(N)
  <2>1. N \in SUBSET (1 .. Len(subs)) /\ Len(subs) \in Nat
    OBVIOUS
  <2> HIDE DEF N
  <2> QED BY <2>1, FewOf
<1> HIDE DEF N, Of
<1>4. IsFiniteSet(A)
  <2> DEFINE f == [k \in N |-> Of(k)]
  <2>1. f \in Surjection(N, A)
    BY DEF Surjection
  <2> HIDE DEF f, A
  <2> QED BY <1>3, <2>1, FS_Surjection
<1>5. IsFiniteSet(UNION A)
  <2>1. \A T \in A : IsFiniteSet(T)
    BY <1>2
  <2> HIDE DEF A
  <2> QED BY <1>4, <2>1, FS_UNION
<1>6. UNION A \subseteq SignalType
  BY <1>2
<1>7. \A x, y \in UNION A : x.at = y.at => x = y
  BY <1>2
<1>8. QED
  BY <1>1, <1>5, <1>6, <1>7 DEF SignalsOK

-----------------------------------------------------------------------------
(* The stages *)

DeskType ==
    [sector : Heard, supply_chain : Heard, valuation : Heard,
     leakage : BOOLEAN, missing : BOOLEAN]

\* What a signal was vetted for.
Vetted(x) ==
    /\ x.ticker \in DOMAIN checks /\ checks[x.ticker]
    /\ \E i \in DOMAIN subs :
        subs[i].sector = x.sector /\ x.ticker \in Mapped(subs[i].sector) /\ Selectable(subs[i])

SomeTradable == \E t \in DOMAIN checks : checks[t]

HeardInv == EvidenceOK(evidence) /\ macro \in Heard /\ desk \in DeskType

SubsInv ==
    /\ subs \in Seq(SubType) /\ Len(subs) <= Len(Sectors)
    /\ stage \in {"argue", "debate", "judge"} => Len(subs) < Len(Sectors)
    /\ stage = "macro" => subs = <<>>

ChecksInv ==
    \/ stage \in {"macro", "argue", "debate", "judge", "check"} /\ checks = <<>>
    \/ /\ stage \in {"signal", "build", "limit", "done"}
       /\ checks \in [UNION {Mapped(s) : s \in SelectedSectors} -> BOOLEAN]

SignalsInv ==
    \/ stage \in {"macro", "argue", "debate", "judge", "check", "signal"} /\ signals = {}
    \/ /\ stage \in {"build", "limit", "done"} /\ SignalsOK(signals)
       /\ \A x \in signals : Vetted(x)
       /\ SomeTradable => signals # {}

BookInv ==
    \/ /\ stage \in {"macro", "argue", "debate", "judge", "check", "signal", "build"}
       /\ raw = Cash /\ target = Cash
    \/ /\ stage \in {"limit", "done"} /\ FromSignals(raw, signals)
       /\ strategy \in Reading /\ signals # {} => DOMAIN raw # {}
       /\ IF stage = "limit" THEN target = Cash ELSE LimitsOK(target, raw)

DInv == HeardInv /\ SubsInv /\ ChecksInv /\ SignalsInv /\ BookInv

\* The lists of a sector.
LEMMA Listed ==
    ASSUME NEW s \in ToSet(Sectors)
    PROVE  SecuritiesOf[s] \in Seq(AllTickers) /\ EtfsOf[s] \in Seq(AllTickers)
  BY UniverseAssumption

\* Candidates are in the universe.
LEMMA MappedAre ==
    ASSUME subs \in Seq(SubType)
    PROVE  UNION {Mapped(s) : s \in SelectedSectors} \subseteq AllTickers
<1>1. ASSUME NEW s \in SelectedSectors PROVE Mapped(s) \subseteq AllTickers
  <2>1. s \in ToSet(Sectors)
    <3>1. PICK i \in DOMAIN subs : s = subs[i].sector
      BY DEF SelectedSectors
    <3>2. subs[i] \in SubType
      BY <3>1
    <3> QED BY <3>1, <3>2 DEF SubType
  <2>2. SecuritiesOf[s] \in Seq(AllTickers) /\ EtfsOf[s] \in Seq(AllTickers)
    BY <2>1, Listed
  <2> QED BY <2>2 DEF Mapped, ToSet
<1>2. QED
  BY <1>1

\* Every signal made was vetted, and one is made when a candidate is tradable.
LEMMA ActionableVetted ==
    ASSUME subs \in Seq(SubType),
           checks \in [UNION {Mapped(s) : s \in SelectedSectors} -> BOOLEAN]
    PROVE  /\ \A x \in ActionableSignals : Vetted(x)
           /\ SomeTradable => ActionableSignals # {}
<1> DEFINE D == UNION {Mapped(s) : s \in SelectedSectors}
<1>1. DOMAIN checks = D
  OBVIOUS
<1>2. ASSUME NEW n \in DOMAIN subs, Selectable(subs[n])
      PROVE  Mapped(subs[n].sector) \subseteq D
  BY <1>2 DEF SelectedSectors
<1> HIDE DEF D
<1>3. ASSUME NEW n \in DOMAIN subs, Selectable(subs[n]),
             NEW x \in SecuritySignals(n) \cup EtfSignals(n)
      PROVE  Vetted(x)
  <2> DEFINE S == SecuritiesOf[subs[n].sector]
             E == EtfsOf[subs[n].sector]
  <2>1. CASE x \in SecuritySignals(n)
    <3>1. PICK k \in DOMAIN S : /\ x.ticker = S[k] /\ x.sector = subs[n].sector
                                /\ S[k] \in DOMAIN checks /\ checks[S[k]]
      BY <2>1 DEF SecuritySignals
    <3>2. S[k] \in Mapped(subs[n].sector)
      BY DEF Mapped, ToSet
    <3> HIDE DEF S
    <3> QED BY <1>3, <3>1, <3>2 DEF Vetted
  <2>2. CASE x \in EtfSignals(n)
    <3>1. PICK k \in DOMAIN E : /\ x.ticker = E[k] /\ x.sector = subs[n].sector
                                /\ (E[k] \in DOMAIN checks => checks[E[k]])
      BY <2>2 DEF EtfSignals
    <3>2. E[k] \in Mapped(subs[n].sector)
      BY DEF Mapped, ToSet
    <3>3. E[k] \in DOMAIN checks
      BY <1>1, <1>2, <1>3, <3>2
    <3> HIDE DEF E
    <3> QED BY <1>3, <3>1, <3>2, <3>3 DEF Vetted
  <2>3. QED
    BY <2>1, <2>2
<1>4. \A x \in ActionableSignals : Vetted(x)
  BY <1>3 DEF ActionableSignals
<1>5. SomeTradable => ActionableSignals # {}
  <2> SUFFICES ASSUME NEW t \in DOMAIN checks, checks[t] PROVE ActionableSignals # {}
    BY DEF SomeTradable
  <2>1. PICK n \in DOMAIN subs : Selectable(subs[n]) /\ t \in Mapped(subs[n].sector)
    BY <1>1 DEF D, SelectedSectors
  <2> DEFINE S == SecuritiesOf[subs[n].sector]
             E == EtfsOf[subs[n].sector]
  <2>2. SecuritySignals(n) # {} \/ EtfSignals(n) # {}
    <3>1. CASE t \in ToSet(S)
      <4>1. PICK k \in DOMAIN S : S[k] = t
        BY <3>1 DEF ToSet
      <4>2. k \in {i \in DOMAIN S : S[i] \in DOMAIN checks /\ checks[S[i]]}
        BY <4>1
      <4> DEFINE x == [ticker |-> S[k], kind |-> "security", sector |-> subs[n].sector,
                       class |-> SectorClass(subs[n]), at |-> <<n, 1, k>>,
                       score |-> (subs[n].composite * (100 + Factor(S[k]))) \div 200]
      <4>3. x \in SecuritySignals(n)
        BY <4>2 DEF SecuritySignals
      <4> QED BY <4>3
    <3>2. CASE t \in ToSet(E)
      <4>1. PICK k \in DOMAIN E : E[k] = t
        BY <3>2 DEF ToSet
      <4>2. k \in {i \in DOMAIN E : E[i] \in DOMAIN checks => checks[E[i]]}
        BY <4>1
      <4> DEFINE x == [ticker |-> E[k], kind |-> "etf", sector |-> subs[n].sector,
                       class |-> SectorClass(subs[n]), at |-> <<n, 2, k>>,
                       score |-> subs[n].composite]
      <4>3. x \in EtfSignals(n)
        BY <4>2 DEF EtfSignals
      <4> QED BY <4>3
    <3> QED BY <2>1, <3>1, <3>2 DEF Mapped
  <2> QED BY <2>1, <2>2 DEF ActionableSignals
<1>6. QED
  BY <1>4, <1>5

\* The invariant holds at the start.
LEMMA DInit == Init => DInv
<1> SUFFICES ASSUME Init PROVE DInv
  OBVIOUS
<1>1. HeardInv
  <2>1. EvidenceOK(evidence)
    BY DEF Init, EvidenceOK
  <2>2. Absent \in Heard
    BY DEF Heard
  <2>3. NoDesk \in DeskType
    BY <2>2 DEF NoDesk, DeskType
  <2> QED BY <2>1, <2>2, <2>3 DEF Init, HeardInv
<1>2. SubsInv
  <2>1. Len(Sectors) \in Nat
    BY UniverseAssumption
  <2> QED BY <2>1 DEF Init, SubsInv
<1>3. ChecksInv /\ SignalsInv /\ BookInv
  BY DEF Init, ChecksInv, SignalsInv, BookInv
<1>4. QED
  BY <1>1, <1>2, <1>3 DEF DInv

\* What stays while its state stays.
LEMMA Stays ==
    ASSUME DInv
    PROVE  /\ UNCHANGED <<evidence, macro, desk>> => HeardInv'
           /\ UNCHANGED <<stage, subs>> => SubsInv'
           /\ UNCHANGED <<stage, subs, checks>> => ChecksInv'
           /\ UNCHANGED <<stage, subs, checks, signals>> => SignalsInv'
           /\ UNCHANGED <<stage, signals, strategy, raw, target>> => BookInv'
<1>1. UNCHANGED <<evidence, macro, desk>> => HeardInv'
  BY DEF DInv, HeardInv, EvidenceOK
<1>2. UNCHANGED <<stage, subs>> => SubsInv'
  BY DEF DInv, SubsInv
<1>3. UNCHANGED <<stage, subs, checks>> => ChecksInv'
  BY DEF DInv, ChecksInv, SelectedSectors, Mapped, Selectable
<1>4. UNCHANGED <<stage, subs, checks, signals>> => SignalsInv'
  BY DEF DInv, SignalsInv, SignalsOK, SomeTradable, Vetted, Mapped, Selectable
<1>5. UNCHANGED <<stage, signals, strategy, raw, target>> => BookInv'
  BY DEF DInv, BookInv, FromSignals
<1>6. QED
  BY <1>1, <1>2, <1>3, <1>4, <1>5

\* Before the candidates are checked nothing else has been made.
LEMMA StillEarly ==
    ASSUME DInv, stage \in {"macro", "argue", "debate", "judge"},
           stage' \in {"argue", "debate", "judge", "check"},
           UNCHANGED <<checks, signals, strategy, raw, target>>
    PROVE  ChecksInv' /\ SignalsInv' /\ BookInv'
  BY DEF DInv, ChecksInv, SignalsInv, BookInv

\* The macro specialist.
LEMMA Asked == ASSUME DInv, AskMacro PROVE DInv'
<1>1. macro' \in Heard
  BY UniverseAssumption DEF AskMacro, Heard
<1>2. HeardInv'
  BY <1>1 DEF DInv, HeardInv, EvidenceOK, AskMacro
<1>3. SubsInv'
  <2>1. subs = <<>> /\ subs' = <<>>
    BY DEF DInv, SubsInv, AskMacro
  <2>2. Sectors \in Seq(DOMAIN CardSets)
    BY UniverseAssumption
  <2>3. Len(Sectors) \in Nat /\ (Sectors # <<>> => Len(Sectors) > 0)
    BY <2>2
  <2>4. stage' = (IF Sectors = <<>> THEN "check" ELSE "argue")
    BY DEF AskMacro
  <2> QED BY <2>1, <2>3, <2>4 DEF SubsInv
<1>4. ChecksInv' /\ SignalsInv' /\ BookInv'
  BY StillEarly DEF AskMacro
<1>5. QED
  BY <1>2, <1>3, <1>4 DEF DInv

\* The specialists of a sector.
LEMMA Argued == ASSUME DInv, Argue PROVE DInv'
<1>1. desk' \in DeskType
  <2>1. PICK s \in Views["sector"] \cup {Absent}, c \in Views["supply_chain"] \cup {Absent},
             v \in Views["valuation"] \cup {Absent} :
          desk' = [NoDesk EXCEPT !.sector = s, !.supply_chain = c, !.valuation = v]
    BY DEF Argue
  <2>2. s \in Heard /\ c \in Heard /\ v \in Heard
    BY UniverseAssumption DEF Heard
  <2> QED BY <2>1, <2>2 DEF NoDesk, DeskType
<1>2. HeardInv'
  BY <1>1 DEF DInv, HeardInv, EvidenceOK, Argue
<1>3. SubsInv'
  BY DEF DInv, SubsInv, Argue
<1>4. ChecksInv' /\ SignalsInv' /\ BookInv'
  BY StillEarly DEF Argue
<1>5. QED
  BY <1>2, <1>3, <1>4 DEF DInv

\* The debate.
LEMMA Debated == ASSUME DInv, Debate PROVE DInv'
<1>1. desk' \in DeskType
  <2>1. PICK l \in Opinions \cup {Absent}, m \in BOOLEAN :
          desk' = [desk EXCEPT !.leakage = IsLeakage(l), !.missing = m]
    BY DEF Debate
  <2>2. IsLeakage(l) \in BOOLEAN /\ desk \in DeskType
    BY DEF IsLeakage, DInv, HeardInv
  <2> DEFINE b == IsLeakage(l)
  <2> HIDE DEF b
  <2>3. b \in BOOLEAN /\ desk' = [desk EXCEPT !.leakage = b, !.missing = m]
    BY <2>1, <2>2 DEF b
  <2> QED BY <2>2, <2>3 DEF DeskType
<1>2. HeardInv'
  BY <1>1 DEF DInv, HeardInv, EvidenceOK, Debate
<1>3. SubsInv'
  BY DEF DInv, SubsInv, Debate
<1>4. ChecksInv' /\ SignalsInv' /\ BookInv'
  BY StillEarly DEF Debate
<1>5. QED
  BY <1>2, <1>3, <1>4 DEF DInv

\* The verdict and the score.
LEMMA Judged == ASSUME DInv, Judge PROVE DInv'
<1>1. subs \in Seq(SubType) /\ Len(subs) < Len(Sectors) /\ Len(subs) \in Nat /\ Len(Sectors) \in Nat
  <2>1. Len(Sectors) \in Nat
    BY UniverseAssumption
  <2> QED BY <2>1 DEF DInv, SubsInv, Judge
<1>2. PICK j \in Opinions \cup {Absent} :
        subs' = Append(subs, [sector |-> Sector, leakage |-> desk.leakage,
                    status |-> DecideStatus(j, desk.leakage, desk.missing \/ j.missing),
                    composite |-> Composite(Components(Sector, desk, j.conf))])
  BY DEF Judge
<1>3. Sector \in ToSet(Sectors)
  <2>1. Len(subs) + 1 \in DOMAIN Sectors
    <3>1. DOMAIN Sectors = 1 .. Len(Sectors)
      BY UniverseAssumption
    <3> QED BY <1>1, <3>1
  <2> QED BY <2>1 DEF Sector, ToSet
<1>4. /\ desk.sector \in Heard /\ desk.supply_chain \in Heard /\ desk.valuation \in Heard
      /\ desk.leakage \in BOOLEAN /\ desk.missing \in BOOLEAN
      /\ EvidenceOK(evidence) /\ macro \in Heard
  BY DEF DInv, HeardInv, DeskType
<1>5. j \in Heard
  BY UniverseAssumption DEF Heard
<1>6. j.conf \in Percent /\ j.missing \in BOOLEAN
  BY <1>5, AnswerIs
<1>7. DecideStatus(j, desk.leakage, desk.missing \/ j.missing) \in Statuses
  <2> DEFINE m == desk.missing \/ j.missing
  <2>1. m \in BOOLEAN
    OBVIOUS
  <2> HIDE DEF m
  <2>2. DecideStatus(j, desk.leakage, m) \in Statuses
    BY <1>4, <1>5, <2>1, StatusIs
  <2> QED BY <2>2 DEF m
<1>8. Composite(Components(Sector, desk, j.conf)) \in 0 .. One
  <2> DEFINE c == Components(Sector, desk, j.conf)
             s == Sector
  <2>1. \A n \in ComponentNames : c[n] \in Measured
    <3> HIDE DEF s
    <3> QED BY <1>3, <1>4, <1>6, ComponentsAre DEF s
  <2> HIDE DEF c
  <2>2. Composite(c) \in 0 .. One
    BY <2>1, CompositeIs
  <2> QED BY <2>2 DEF c
<1> DEFINE sub == [sector |-> Sector, leakage |-> desk.leakage,
                   status |-> DecideStatus(j, desk.leakage, desk.missing \/ j.missing),
                   composite |-> Composite(Components(Sector, desk, j.conf))]
<1>9. sub \in SubType
  BY <1>3, <1>4, <1>7, <1>8 DEF SubType
<1>10. subs' = Append(subs, sub)
  BY <1>2
<1> HIDE DEF sub
<1>11. subs' \in Seq(SubType) /\ Len(subs') = Len(subs) + 1
  BY <1>1, <1>9, <1>10
<1>12. stage' = (IF Len(subs) + 1 = Len(Sectors) THEN "check" ELSE "argue")
  BY DEF Judge
<1>13. SubsInv'
  BY <1>1, <1>11, <1>12 DEF SubsInv
<1>14. HeardInv'
  <2>1. desk' = NoDesk /\ Absent \in Heard
    BY DEF Judge, Heard
  <2>2. desk' \in DeskType
    BY <2>1 DEF NoDesk, DeskType
  <2> QED BY <2>2 DEF DInv, HeardInv, EvidenceOK, Judge
<1>15. ChecksInv' /\ SignalsInv' /\ BookInv'
  BY <1>12, StillEarly DEF Judge
<1>16. QED
  BY <1>13, <1>14, <1>15 DEF DInv

\* The tradability checks.
LEMMA Checked == ASSUME DInv, Check PROVE DInv'
<1>1. HeardInv'
  BY Stays DEF Check
<1>2. SubsInv'
  BY DEF DInv, SubsInv, Check
<1>3. ChecksInv'
  <2>1. PICK h \in [UNION {Mapped(s) : s \in SelectedSectors} -> BarHistories] :
          checks' = [t \in DOMAIN h |-> Tradable(h[t])]
    BY DEF Check
  <2>2. \A r : Tradable(r) \in BOOLEAN
    BY DEF Tradable
  <2>3. checks' \in [UNION {Mapped(s) : s \in SelectedSectors} -> BOOLEAN]
    BY <2>1, <2>2
  <2>4. UNION {Mapped(s) : s \in SelectedSectors'} = UNION {Mapped(s) : s \in SelectedSectors}
    BY DEF Check, SelectedSectors
  <2> QED BY <2>3, <2>4 DEF Check, ChecksInv
<1>4. SignalsInv' /\ BookInv'
  BY DEF DInv, SignalsInv, BookInv, Check
<1>5. QED
  BY <1>1, <1>2, <1>3, <1>4 DEF DInv

\* The signals.
LEMMA Signalled == ASSUME DInv, BuildSignals PROVE DInv'
<1>1. HeardInv'
  BY Stays DEF BuildSignals
<1>2. SubsInv'
  BY DEF DInv, SubsInv, BuildSignals
<1>3. checks \in [UNION {Mapped(s) : s \in SelectedSectors} -> BOOLEAN]
  BY DEF DInv, ChecksInv, BuildSignals
<1>4. ChecksInv'
  <2>1. UNION {Mapped(s) : s \in SelectedSectors'} = UNION {Mapped(s) : s \in SelectedSectors}
    BY DEF BuildSignals, SelectedSectors
  <2> QED BY <1>3, <2>1 DEF BuildSignals, ChecksInv
<1>5. SignalsInv'
  <2>1. SignalsOK(signals')
    BY ActionableAre DEF DInv, HeardInv, SubsInv, BuildSignals
  <2>2. /\ \A x \in signals' : Vetted(x)
        /\ SomeTradable => signals' # {}
    BY <1>3, ActionableVetted DEF DInv, SubsInv, BuildSignals
  <2>3. (\A x \in signals' : Vetted(x)') /\ (SomeTradable' => signals' # {})
    BY <2>2 DEF BuildSignals, Vetted, SomeTradable
  <2> QED BY <2>1, <2>3 DEF SignalsInv, BuildSignals
<1>6. BookInv'
  BY DEF DInv, BookInv, BuildSignals
<1>7. QED
  BY <1>1, <1>2, <1>4, <1>5, <1>6 DEF DInv

\* The strategy.
LEMMA Built == ASSUME DInv, Build PROVE DInv'
<1>1. HeardInv'
  BY Stays DEF Build
<1>2. SubsInv'
  BY DEF DInv, SubsInv, Build
<1>3. ChecksInv'
  BY DEF DInv, ChecksInv, Build, SelectedSectors, Mapped, Selectable
<1>4. SignalsOK(signals) /\ signals' = signals
  BY DEF DInv, SignalsInv, Build
<1>5. SignalsInv'
  BY <1>4 DEF DInv, SignalsInv, Build, Vetted, SomeTradable, Mapped, Selectable
<1>6. BookInv'
  <2>1. PICK name \in Strategies : strategy' = name /\ raw' = BuildStrategy(name, signals)
    BY DEF Build
  <2>2. name \in Builders
    BY DecisionAssumption
  <2>3. /\ FromSignals(raw', signals)
        /\ strategy' \in Reading /\ signals # {} => DOMAIN raw' # {}
    BY <1>4, <2>1, <2>2, BuildStrategyIs
  <2>4. target' = Cash /\ stage' = "limit"
    BY DEF DInv, BookInv, Build
  <2> QED BY <1>4, <2>3, <2>4 DEF BookInv
<1>7. QED
  BY <1>1, <1>2, <1>3, <1>5, <1>6 DEF DInv

\* The risk limits.
LEMMA Constrained == ASSUME DInv, ApplyRiskConstraints PROVE DInv'
<1>1. HeardInv'
  BY Stays DEF ApplyRiskConstraints
<1>2. SubsInv'
  BY DEF DInv, SubsInv, ApplyRiskConstraints
<1>3. ChecksInv'
  BY DEF DInv, ChecksInv, ApplyRiskConstraints, SelectedSectors, Mapped, Selectable
<1>4. SignalsInv'
  BY DEF DInv, SignalsInv, ApplyRiskConstraints, SignalsOK, Vetted, SomeTradable, Mapped, Selectable
<1>5. BookInv'
  <2>1. PICK vol \in VolEstimates(BeforeVol(raw)) :
          target' = AtVolTarget(BeforeVol(raw), vol)
    BY DEF ApplyRiskConstraints
  <2>2. FromSignals(raw, signals) /\ (strategy \in Reading /\ signals # {} => DOMAIN raw # {})
    BY DEF DInv, BookInv, ApplyRiskConstraints
  <2>3. IsBook(raw)
    BY <2>2 DEF FromSignals
  <2>4. vol \in Int
    BY <2>3, BeforeVolIs, EstimatesTyped
  <2>5. LimitsOK(target', raw)
    BY <2>1, <2>3, <2>4, Limited
  <2> QED BY <2>2, <2>5 DEF ApplyRiskConstraints, BookInv
<1>6. QED
  BY <1>1, <1>2, <1>3, <1>4, <1>5 DEF DInv

\* Every step keeps the invariant.
LEMMA DNext == DInv /\ [Next]_vars => DInv'
<1> SUFFICES ASSUME DInv, [Next]_vars PROVE DInv'
  OBVIOUS
<1>1. CASE AskMacro
  BY <1>1, Asked
<1>2. CASE Argue
  BY <1>2, Argued
<1>3. CASE Debate
  BY <1>3, Debated
<1>4. CASE Judge
  BY <1>4, Judged
<1>5. CASE Check
  BY <1>5, Checked
<1>6. CASE BuildSignals
  BY <1>6, Signalled
<1>7. CASE Build
  BY <1>7, Built
<1>8. CASE ApplyRiskConstraints
  BY <1>8, Constrained
<1>9. CASE UNCHANGED vars
  BY <1>9, Stays DEF vars, DInv
<1>10. QED
  BY <1>1, <1>2, <1>3, <1>4, <1>5, <1>6, <1>7, <1>8, <1>9 DEF Next

\* So it holds throughout.
LEMMA Invariance == Spec => []DInv
<1>1. QED
  BY DInit, DNext, PTL DEF Spec

-----------------------------------------------------------------------------
(* The theorems *)

\* What is held when a decision is made, and what of it was wanted.
LEMMA Held ==
    ASSUME DInv, stage = "done", NEW t \in DOMAIN target
    PROVE  /\ t \in DOMAIN raw /\ t \in AllTickers
           /\ target[t].w \in Nat /\ raw[t].w \in Nat
           /\ target[t].w <= raw[t].w /\ raw[t].w <= One
           /\ target[t].sector = raw[t].sector /\ target[t].sector \in ToSet(Sectors)
<1>1. LimitsOK(target, raw) /\ FromSignals(raw, signals)
  BY DEF DInv, BookInv
<1>2. IsBook(target) /\ Within(target, raw) /\ IsBook(raw)
  BY <1>1 DEF LimitsOK, FromSignals
<1>3. t \in DOMAIN raw /\ target[t].w <= raw[t].w /\ target[t].sector = raw[t].sector
  BY <1>2 DEF Within
<1>4. target[t] \in Line /\ target[t].w \in Nat /\ t \in AllTickers /\ raw[t].w \in Nat
  BY <1>2, <1>3, BookTyped
<1>5. target[t].sector \in ToSet(Sectors)
  BY <1>4 DEF Line
<1>6. raw[t].w <= One
  BY <1>1, <1>3 DEF FromSignals
<1>7. QED
  BY <1>3, <1>4, <1>5, <1>6

\* Every decision is typed: at most one submission for each sector, each with a
\* status of the debate; every composite, score and weight within one; nothing
\* held outside the universe (schemas of research_runtime.py).
THEOREM TypeCorrect == Spec => []TypeOK
<1>1. DInv => TypeOK
  <2> SUFFICES ASSUME DInv PROVE TypeOK
    OBVIOUS
  <2>1. Len(subs) <= Len(Sectors)
    BY DEF DInv, SubsInv
  <2>2. \A i \in DOMAIN subs : subs[i].status \in Statuses /\ subs[i].composite \in 0 .. One
    <3>1. \A i \in DOMAIN subs : subs[i] \in SubType
      BY DEF DInv, SubsInv
    <3> QED BY <3>1 DEF SubType
  <2>3. DOMAIN checks \subseteq AllTickers
    BY MappedAre DEF DInv, ChecksInv, SubsInv
  <2>4. \A x \in signals : x.score \in 0 .. One
    BY SignalFields DEF DInv, SignalsInv, SignalsOK
  <2>5. One \in Nat
    BY DEF One
  <2>6. \A t \in DOMAIN raw :
          t \in AllTickers /\ raw[t].w \in -One .. One /\ raw[t].sector \in ToSet(Sectors)
    <3>1. DOMAIN Cash = {}
      BY DEF Cash
    <3>2. raw = Cash \/ FromSignals(raw, signals)
      BY DEF DInv, BookInv
    <3>3. CASE FromSignals(raw, signals)
      <4>1. \A t \in DOMAIN raw : /\ t \in AllTickers /\ raw[t].w \in Nat /\ raw[t].w <= One
                                  /\ raw[t].sector \in ToSet(Sectors)
        BY <3>3, BookTyped DEF FromSignals, Line
      <4> QED BY <2>5, <4>1
    <3> QED BY <3>1, <3>2, <3>3
  <2>7. \A t \in DOMAIN target :
          t \in AllTickers /\ target[t].w \in -One .. One /\ target[t].sector \in ToSet(Sectors)
    <3>1. DOMAIN Cash = {}
      BY DEF Cash
    <3>2. target = Cash \/ stage = "done"
      BY DEF DInv, BookInv
    <3>3. stage = "done" => \A t \in DOMAIN target : target[t].w \in Nat /\ target[t].w <= One
      BY <2>5, Held
    <3> QED BY <2>5, <3>1, <3>2, <3>3, Held
  <2> QED BY <2>1, <2>2, <2>3, <2>4, <2>6, <2>7 DEF TypeOK
<1>2. QED
  BY <1>1, Invariance, PTL

\* Whatever agents answer and whichever strategy is built, what is held at the
\* end was approved, over the threshold, mapped to its sector and tradable
\* (rank_sectors, map_sector_securities, build_signals).
THEOREM VettedThroughout == Spec => []OnlyVetted
<1>1. DInv => OnlyVetted
  <2> SUFFICES ASSUME DInv, stage = "done", NEW t \in DOMAIN target
               PROVE  /\ t \in DOMAIN checks /\ checks[t]
                      /\ \E i \in DOMAIN subs :
                          /\ subs[i].sector = target[t].sector /\ t \in Mapped(subs[i].sector)
                          /\ subs[i].status = "approved" /\ ~subs[i].leakage
                          /\ subs[i].composite >= Threshold
    BY DEF OnlyVetted
  <2>1. t \in DOMAIN raw /\ target[t].sector = raw[t].sector
    BY Held
  <2>2. PICK x \in signals : x.ticker = t /\ raw[t].sector = x.sector
    BY <2>1 DEF DInv, BookInv, FromSignals
  <2>3. Vetted(x)
    BY DEF DInv, SignalsInv
  <2> QED BY <2>1, <2>2, <2>3 DEF Vetted, Selectable
<1>2. QED
  BY <1>1, Invariance, PTL

\* At the end every limit of risk.yaml holds at once, although each scaling
\* comes after limits it might have broken, and nothing grew or changed side
\* (apply_risk_constraints).
THEOREM LimitsKept == Spec => []LimitsHold
<1>1. DInv => LimitsHold
  <2> SUFFICES ASSUME DInv, stage = "done" PROVE LimitsHold
    BY DEF LimitsHold
  <2>1. LimitsOK(target, raw)
    BY DEF DInv, BookInv
  <2>2. IsBook(target)
    BY <2>1 DEF LimitsOK
  <2>3. GrossOf(target) <= MaxGross /\ Abs(NetOf(target)) <= MaxNet
    <3>1. GrossOf(target) \in Nat /\ NetOf(target) = GrossOf(target)
      BY <2>2, BookSums
    <3>2. GrossOf(target) <= MaxGross /\ GrossOf(target) <= MaxNet
      BY <2>1 DEF LimitsOK
    <3>3. Abs(NetOf(target)) = GrossOf(target)
      BY <3>1 DEF Abs
    <3> QED BY <3>2, <3>3
  <2>4. ASSUME NEW t \in DOMAIN target
        PROVE  /\ Abs(target[t].w) <= MaxTicker /\ (AllowShorting \/ target[t].w >= 0)
               /\ SectorGross(target, target[t].sector) <= MaxSector
               /\ DollarVolume[t] = None \/ DollarVolume[t] >= MinTraded
               /\ t \in DOMAIN raw
               /\ Abs(target[t].w) <= Abs(raw[t].w) /\ target[t].w * raw[t].w >= 0
    <3>1. /\ t \in DOMAIN raw /\ target[t].w \in Nat /\ raw[t].w \in Nat
          /\ target[t].w <= raw[t].w /\ target[t].sector \in ToSet(Sectors)
      BY Held
    <3>2. target[t].w <= MaxTicker /\ SectorGross(target, target[t].sector) <= MaxSector
      BY <2>1, <3>1 DEF LimitsOK, TickersKept, SectorsKept
    <3>3. DollarVolume[t] = None \/ DollarVolume[t] >= MinTraded
      BY <2>1 DEF LimitsOK, IsLiquid
    <3>4. Abs(target[t].w) = target[t].w /\ Abs(raw[t].w) = raw[t].w
      BY <3>1 DEF Abs
    <3>5. target[t].w * raw[t].w \in Nat /\ target[t].w >= 0
      BY <3>1
    <3>6. target[t].w * raw[t].w >= 0
      BY <3>5
    <3> QED BY <3>1, <3>2, <3>3, <3>4, <3>5, <3>6
  <2>5. Cardinality(DOMAIN target) <= MaxPositions
    BY <2>1 DEF LimitsOK
  <2> QED BY <2>3, <2>4, <2>5 DEF LimitsHold
<1>2. QED
  BY <1>1, Invariance, PTL

\* A tradable candidate of a selected sector is enough for the strategies that
\* read nothing but the signals to hold something: no rounding, no zero score
\* and no ticker listed twice empties the book (builders.py).
THEOREM NeverSilentlyCash == Spec => []NotSilentlyCash
<1>1. DInv => NotSilentlyCash
  <2> SUFFICES ASSUME DInv, stage = "limit", SomeTradable, strategy \in Reading
               PROVE  raw # Cash
    BY DEF NotSilentlyCash, SomeTradable, Reading
  <2>1. signals # {}
    BY DEF DInv, SignalsInv
  <2>2. DOMAIN raw # {}
    BY <2>1 DEF DInv, BookInv
  <2>3. DOMAIN Cash = {}
    BY DEF Cash
  <2> QED BY <2>2, <2>3
<1>2. QED
  BY <1>1, Invariance, PTL
=============================================================================
